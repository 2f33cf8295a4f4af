----------------------------- MODULE StoreProofs -----------------------------
(***************************************************************************)
(* Proofs about Store for any keys, fields, values and clients: what can   *)
(* expire, and that every back end implements HashStore.                   *)
(***************************************************************************)
EXTENDS Store, TLAPS

(***************************************************************************)
(* The invariant.                                                          *)
(***************************************************************************)
StoreType ==
  /\ backend \in {"memory", "memcached", "redis"}
  /\ table \in [Keys -> Promised!Entries]
  /\ life \in [Keys -> {"forever", "timed", "expired"}]
  /\ timed \in [Keys -> SUBSET Fields]
  /\ mortal \subseteq Keys
  /\ call \in [Clients -> Promised!Calls \cup {Promised!NoCall}]
  /\ answer = [c \in Clients |-> answer[c]]
  /\ pc \in [Clients -> {"send", "write", "expire"}]
  /\ seen \in [Clients -> SUBSET Promised!Hashes]

\* Which back end keeps a time to live where, and an empty hash.
LifeInv ==
  \A k \in Keys :
    /\ life[k] = "expired" => backend = "memory"
    /\ timed[k] # {} => backend = "redis"
    /\ backend = "redis" => table[k] # Promised!Hash(Promised!EmptyHash)

\* How far the call of c has come.
CallOk(c) ==
  /\ pc[c] # "send" => call[c] # Promised!NoCall
  /\ call[c] # Promised!NoCall /\ pc[c] # "expire" => answer[c] = Promised!NoAnswer
  /\ pc[c] = "expire" =>
       /\ answer[c] # Promised!NoAnswer
       /\ backend = "redis"
       /\ call[c].op = "hset" /\ call[c].ttl /\ call[c].key \in mortal
  /\ pc[c] = "write" => backend = "memcached" /\ call[c].op \in {"hset", "hdel"}
  /\ seen[c] # {} => pc[c] = "write"

CallInv == \A c \in Clients : CallOk(c)

\* Only calls of Memcached return before their change is there.
LateInv ==
  /\ late \in [Clients -> Seq(Promised!Changes)]
  /\ \A c \in Clients : late[c] # <<>> => backend = "memcached"

LiveInv == StoreType /\ LifeInv /\ CallInv /\ LateInv /\ ExpiryWasAsked

----------------------------------------------------------------------------
(***************************************************************************)
(* Calls, entries and answers.                                             *)
(***************************************************************************)
\* What a call carries.
LEMMA CallFacts ==
  ASSUME NEW r \in Promised!Calls
  PROVE  /\ r.op # "none"
         /\ r.op # "flushall" => r.key \in Keys
         /\ r.op \in {"hget", "hset", "hdel"} => r.field \in Fields
         /\ r.op \in {"set", "hset"} => r.value \in Promised!Values /\ r.ttl \in BOOLEAN
         /\ r.op \in Promised!Reads \cup {"set", "delete", "hset", "hdel", "flushall"}
  <1>1. CASE r \in [op : {"get", "hgetall", "hkeys", "delete"}, key : Keys]
    BY <1>1 DEF Promised!Reads
  <1>2. CASE r \in [op : {"set"}, key : Keys, value : Promised!Values, ttl : BOOLEAN]
    BY <1>2 DEF Promised!Reads
  <1>3. CASE r \in [op : {"hget", "hdel"}, key : Keys, field : Fields]
    BY <1>3 DEF Promised!Reads
  <1>4. CASE r \in [op : {"hset"}, key : Keys, field : Fields, value : Promised!Values, ttl : BOOLEAN]
    BY <1>4 DEF Promised!Reads
  <1>5. CASE r \in [op : {"flushall"}]
    BY <1>5 DEF Promised!Reads
  <1> QED BY <1>1, <1>2, <1>3, <1>4, <1>5 DEF Promised!Calls

\* A client without a call has no operation.
LEMMA NoCallFacts ==
  Promised!NoCall \notin Promised!Calls /\ Promised!NoCall.op = "none"
  <1>1. Promised!NoCall.op = "none"
    BY DEF Promised!NoCall
  <1> QED BY <1>1, CallFacts

\* What a change carries that is to land.
LEMMA ChangeFacts ==
  ASSUME NEW w \in Promised!Changes
  PROVE  /\ w.op \in {"set", "hset", "hdel", "flushall"}
         /\ w.op # "flushall" =>
              w.key \in Keys /\ w.entry \in Promised!Entries /\ w.ttl \in BOOLEAN
         /\ w.op = "hdel" => ~w.ttl
  BY DEF Promised!Changes

\* The changes that calls of Memcached leave.
LEMMA MakeChange ==
  ASSUME NEW r \in Promised!Calls, NEW e \in Promised!Entries
  PROVE  /\ r.op \in {"set", "hset"} => Promised!Change(r, e, r.ttl) \in Promised!Changes
         /\ r.op = "hdel" => Promised!Change(r, e, FALSE) \in Promised!Changes
         /\ r.op = "flushall" => r \in Promised!Changes
  <1>1. /\ r.op # "flushall" => r.key \in Keys
        /\ r.op \in {"set", "hset"} => r.ttl \in BOOLEAN
    BY CallFacts
  <1>2. r.op = "flushall" => r \in [op : {"flushall"}]
    BY DEF Promised!Calls
  <1> QED BY <1>1, <1>2 DEF Promised!Change, Promised!Changes

\* The three kinds of entry.
LEMMA EntryFacts ==
  ASSUME NEW e \in Promised!Entries
  PROVE  /\ e.kind \in {"missing", "text", "hash"}
         /\ e.kind = "missing" <=> e = Promised!Missing
         /\ e.kind = "text" => e.value \in Promised!Values
         /\ e.kind = "hash" => e.fields \in Promised!Hashes /\ e = Promised!Hash(e.fields)
  BY DEF Promised!Entries, Promised!Missing, Promised!Text, Promised!Hash

\* The three kinds of entries.
LEMMA MakeEntry ==
  /\ Promised!Missing \in Promised!Entries /\ Promised!Missing.kind = "missing"
  /\ \A v \in Promised!Values :
       Promised!Text(v) \in Promised!Entries /\ Promised!Text(v).kind = "text"
  /\ \A h \in Promised!Hashes :
       /\ Promised!Hash(h) \in Promised!Entries
       /\ Promised!Hash(h).kind = "hash" /\ Promised!Hash(h).fields = h
  BY DEF Promised!Entries, Promised!Missing, Promised!Text, Promised!Hash

\* Hashes, and the change of one field.
LEMMA HashFacts ==
  /\ Promised!EmptyHash \in Promised!Hashes
  /\ \A e \in Promised!Entries : Promised!HashOf(e) \in Promised!Hashes
  /\ \A h \in Promised!Hashes, f \in Fields, v \in Promised!Values \cup {NoValue} :
       Promised!WithField(h, f, v) \in Promised!Hashes /\ Promised!WithField(h, f, v)[f] = v
  /\ \A h \in Promised!Hashes, f \in Fields : h[f] = NoValue => Promised!WithField(h, f, NoValue) = h
  <1>1. Promised!EmptyHash \in Promised!Hashes
    BY DEF Promised!EmptyHash, Promised!Hashes
  <1>2. \A e \in Promised!Entries : Promised!HashOf(e) \in Promised!Hashes
    BY <1>1, EntryFacts DEF Promised!HashOf
  <1> QED BY <1>1, <1>2 DEF Promised!WithField, Promised!Hashes

\* The answers are told apart.
LEMMA AnswerFacts ==
  /\ Promised!Done # Promised!NoAnswer /\ Promised!Done # Promised!Error
  /\ \A n : Promised!Count(n) # Promised!NoAnswer /\ Promised!Count(n) # Promised!Error
  <1> DEFINE pending == <<"", "pending">>
             error == <<"", "error">>
  <1>1. pending \in Promised!NoAnswer /\ error \in Promised!Error
    BY DEF Promised!NoAnswer, Promised!Error
  <1>2. pending \notin Promised!Done /\ error \notin Promised!Done
    BY DEF Promised!Done
  <1>3. \A n : pending \notin Promised!Count(n) /\ error \notin Promised!Count(n)
    BY DEF Promised!Count
  <1> QED BY <1>1, <1>2, <1>3

----------------------------------------------------------------------------
(***************************************************************************)
(* The steps.                                                              *)
(***************************************************************************)
\* Client d is where it was.
Same(d) == call'[d] = call[d] /\ answer'[d] = answer[d] /\ pc'[d] = pc[d] /\ seen'[d] = seen[d]

ClientType ==
  /\ call \in [Clients -> Promised!Calls \cup {Promised!NoCall}]
  /\ answer = [c \in Clients |-> answer[c]]
  /\ pc \in [Clients -> {"send", "write", "expire"}]
  /\ seen \in [Clients -> SUBSET Promised!Hashes]

EntryType ==
  /\ table \in [Keys -> Promised!Entries]
  /\ life \in [Keys -> {"forever", "timed", "expired"}]
  /\ timed \in [Keys -> SUBSET Fields]

\* A client returns from its call.
Returned(c, a) ==
  /\ call'[c] = Promised!NoCall /\ answer'[c] = a /\ pc'[c] = "send" /\ seen'[c] = {}
  /\ \A d \in Clients : d # c => Same(d)

\* A call returns to its client; the others go on.
LEMMA AnswerReturns ==
  ASSUME StoreType, NEW c \in Clients, NEW a, Answer(c, a)
  PROVE  ClientType' /\ Returned(c, a)
  BY HashFacts DEF StoreType, ClientType, Answer, Returned, Same

\* An entry is replaced.
Replaced(k, e, l, S) ==
  /\ table'[k] = e /\ timed'[k] = S
  /\ life'[k] = IF e = Promised!Missing THEN "forever" ELSE l
  /\ \A j \in Keys : j # k => table'[j] = table[j] /\ life'[j] = life[j] /\ timed'[j] = timed[j]

\* A command writes one entry and leaves the others alone.
LEMMA PutReplaces ==
  ASSUME StoreType, NEW k \in Keys, NEW e \in Promised!Entries,
         NEW l \in {"forever", "timed", "expired"}, NEW S \in SUBSET Fields, Put(k, e, l, S)
  PROVE  EntryType' /\ Replaced(k, e, l, S)
  BY DEF StoreType, EntryType, Put, Replaced

\* A key that was given a time to live is mortal until its own call ends that.
LEMMA MortalKept ==
  ASSUME LiveInv, NEW c \in Clients, call[c] \in Promised!Calls,
         \/ mortal' = mortal
         \/ mortal' = Promised!Mortal(c, call[c]) /\ call[c].op # "flushall"
         \/ mortal' = {k \in mortal : Promised!Timing(c, k)}
  PROVE  /\ mortal' \subseteq Keys
         /\ \A d \in Clients : d # c /\ pc[d] = "expire" => call[d].key \in mortal'
  <1>1. mortal \subseteq Keys /\ (call[c].op # "flushall" => call[c].key \in Keys)
    BY CallFacts DEF LiveInv, StoreType
  <1>2. ASSUME NEW d \in Clients, d # c, pc[d] = "expire"
        PROVE  call[d].key \in mortal /\ Promised!Timing(c, call[d].key)
    BY <1>2 DEF LiveInv, CallInv, CallOk, Promised!Timing
  <1> QED BY <1>1, <1>2 DEF Promised!Mortal

\* A call that replaces an entry and returns, the rule for most operations.
LEMMA PutAndAnswer ==
  ASSUME LiveInv, NEW c \in Clients, call[c] \in Promised!Calls, call[c].op # "flushall",
         NEW e \in Promised!Entries, NEW l \in {"forever", "timed", "expired"},
         NEW S \in SUBSET Fields, NEW a,
         Put(call[c].key, e, l, S), Answer(c, a), UNCHANGED <<backend, late>>,
         mortal' = mortal \/ mortal' = Promised!Mortal(c, call[c]),
         l = "expired" /\ e # Promised!Missing => backend = "memory",
         S # {} => backend = "redis",
         backend = "redis" => e # Promised!Hash(Promised!EmptyHash),
         (l # "forever" /\ e # Promised!Missing) \/ S # {} => call[c].key \in mortal'
  PROVE  LiveInv'
  <1>1. call[c].key \in Keys
    BY CallFacts
  <1>2. /\ ClientType' /\ Returned(c, a) /\ EntryType' /\ Replaced(call[c].key, e, l, S)
        /\ mortal' \subseteq Keys
        /\ \A d \in Clients : d # c /\ pc[d] = "expire" => call[d].key \in mortal'
    BY <1>1, AnswerReturns, PutReplaces, MortalKept DEF LiveInv
  <1>3. StoreType'
    BY <1>2 DEF LiveInv, StoreType, ClientType, EntryType
  <1>4. LifeInv'
    BY <1>1, <1>2 DEF LiveInv, LifeInv, Replaced
  <1>5. CallInv'
    BY <1>2 DEF LiveInv, CallInv, CallOk, Returned, Same
  <1>6. ExpiryWasAsked'
    <2>1. \A k \in Keys : k # call[c].key /\ k \in mortal => k \in mortal'
      BY <1>1 DEF Promised!Mortal, LiveInv, StoreType
    <2> QED BY <1>1, <1>2, <2>1 DEF LiveInv, ExpiryWasAsked, Replaced
  <1>7. LateInv'
    BY DEF LiveInv, LateInv
  <1> QED BY <1>3, <1>4, <1>5, <1>6, <1>7 DEF LiveInv

\* A call under way that leaves the entries alone.
LEMMA OnlyClient ==
  ASSUME LiveInv, NEW c \in Clients, ClientType', CallOk(c)', LateInv',
         \A d \in Clients : d # c => Same(d), UNCHANGED <<backend, entryVars, mortal>>
  PROVE  LiveInv'
  <1>1. StoreType'
    BY DEF LiveInv, StoreType, ClientType, entryVars
  <1>2. LifeInv' /\ ExpiryWasAsked'
    BY DEF LiveInv, LifeInv, ExpiryWasAsked, entryVars
  <1>3. CallInv'
    BY DEF LiveInv, CallInv, CallOk, Same
  <1> QED BY <1>1, <1>2, <1>3 DEF LiveInv

\* The state the store is created in.
LEMMA LiveInit == Init => LiveInv
  <1> SUFFICES ASSUME Init PROVE LiveInv
    OBVIOUS
  <1>1. StoreType
    BY HashFacts, MakeEntry DEF Init, StoreType
  <1>2. LifeInv
    <2>1. Promised!Missing # Promised!Hash(Promised!EmptyHash)
      BY MakeEntry, HashFacts
    <2> QED BY <2>1 DEF Init, LifeInv
  <1>3. CallInv /\ LateInv /\ ExpiryWasAsked
    BY DEF Init, CallInv, CallOk, LateInv, ExpiryWasAsked
  <1> QED BY <1>1, <1>2, <1>3 DEF LiveInv

\* What an operation finds.
LEMMA Finding ==
  ASSUME LiveInv, NEW k \in Keys
  PROVE  /\ table[k] \in Promised!Entries /\ Found(k) \in Promised!Entries
         /\ life[k] \in {"forever", "timed", "expired"} /\ timed[k] \in SUBSET Fields
         /\ life[k] = "expired" => backend = "memory"
         /\ Found(k) # Promised!Missing => Found(k) = table[k] /\ life[k] # "expired"
         /\ timed[k] # {} => backend = "redis"
         /\ backend = "redis" => Found(k) # Promised!Hash(Promised!EmptyHash)
         /\ life[k] # "forever" \/ timed[k] # {} => k \in mortal
  <1>1. Promised!Missing # Promised!Hash(Promised!EmptyHash)
    BY MakeEntry, HashFacts
  <1> QED BY <1>1, MakeEntry DEF LiveInv, StoreType, LifeInv, ExpiryWasAsked, Found

\* What Redis keeps of a hash.
LEMMA StoredFacts ==
  ASSUME NEW h \in Promised!Hashes
  PROVE  /\ Stored(h) \in Promised!Entries
         /\ backend = "redis" => Stored(h) # Promised!Hash(Promised!EmptyHash)
  BY MakeEntry, HashFacts DEF Stored

\* A call that is being sent.
LEMMA SendingFacts ==
  ASSUME LiveInv, NEW c \in Clients, NEW ops, Sending(c, ops), "none" \notin ops
  PROVE  /\ call[c] \in Promised!Calls /\ call[c].op \in ops
         /\ call[c].op # "flushall" => call[c].key \in Keys
         /\ pc[c] = "send" /\ answer[c] = Promised!NoAnswer /\ Promised!Ready(c)
  <1>1. call[c] \in Promised!Calls
    BY NoCallFacts DEF LiveInv, StoreType, Sending
  <1> QED BY <1>1, CallFacts, NoCallFacts DEF LiveInv, CallInv, CallOk, Sending, Promised!Ready

\* All entries are gone.
LEMMA FlushedOk ==
  ASSUME LiveInv, NEW c \in Clients, Flushed(c), UNCHANGED backend, ClientType',
         mortal' \subseteq Keys
  PROVE  StoreType' /\ LifeInv' /\ ExpiryWasAsked'
  <1>1. StoreType'
    BY MakeEntry DEF Flushed, LiveInv, StoreType, ClientType
  <1>2. Promised!Missing # Promised!Hash(Promised!EmptyHash)
    BY MakeEntry, HashFacts
  <1>3. LifeInv' /\ ExpiryWasAsked'
    BY <1>2 DEF Flushed, LifeInv, ExpiryWasAsked
  <1> QED BY <1>1, <1>3

\* A call of Memcached that does not wait leaves a change.
LEMMA Leaving ==
  ASSUME LiveInv, NEW c \in Clients,
         MemcachedWrite(c) \/ MemcachedSet(c) \/ MemcachedFlushAll(c)
  PROVE  /\ backend = "memcached" /\ call[c] \in Promised!Calls
         /\ answer[c] = Promised!NoAnswer
         /\ \E w, a : w \in Promised!Changes /\ NoReply(c, w, a)
  <1> DEFINE r == call[c]
  <1>1. backend = "memcached" /\ r \in Promised!Calls
    BY NoCallFacts DEF MemcachedWrite, MemcachedSet, MemcachedFlushAll, LiveInv, StoreType,
       CallInv, CallOk
  <1>2. answer[c] = Promised!NoAnswer
    BY <1>1, NoCallFacts DEF LiveInv, CallInv, CallOk
  <1>3. CASE MemcachedWrite(c)
    <2>1. PICK h \in seen[c] :
            \/ /\ r.op = "hset"
               /\ NoReply(c, Promised!Change(r, Promised!Hash(
                               Promised!WithField(h, r.field, r.value)), r.ttl),
                          Promised!Added(h, r.field))
            \/ /\ r.op = "hdel"
               /\ NoReply(c, Promised!Change(r, Promised!Hash(
                               Promised!WithField(h, r.field, NoValue)), FALSE),
                          Promised!Count(1))
      BY <1>3 DEF MemcachedWrite
    <2>2. h \in Promised!Hashes
      BY DEF LiveInv, StoreType
    <2>3. CASE r.op = "hset"
      <3>1. Promised!Hash(Promised!WithField(h, r.field, r.value)) \in Promised!Entries
        BY <1>1, <2>2, <2>3, CallFacts, HashFacts, MakeEntry
      <3>2. Promised!Change(r, Promised!Hash(Promised!WithField(h, r.field, r.value)), r.ttl)
              \in Promised!Changes
        BY <1>1, <2>3, <3>1, MakeChange
      <3> QED BY <1>1, <1>2, <2>1, <2>3, <3>2
    <2>4. CASE r.op = "hdel"
      <3>1. Promised!Hash(Promised!WithField(h, r.field, NoValue)) \in Promised!Entries
        BY <1>1, <2>2, <2>4, CallFacts, HashFacts, MakeEntry
      <3>2. Promised!Change(r, Promised!Hash(Promised!WithField(h, r.field, NoValue)), FALSE)
              \in Promised!Changes
        BY <1>1, <2>4, <3>1, MakeChange
      <3> QED BY <1>1, <1>2, <2>1, <2>4, <3>2
    <2> QED BY <2>1, <2>3, <2>4
  <1>4. CASE MemcachedSet(c)
    <2>1. Promised!Text(r.value) \in Promised!Entries /\ r.op = "set"
      BY <1>1, <1>4, CallFacts, MakeEntry DEF MemcachedSet
    <2>2. Promised!Change(r, Promised!Text(r.value), r.ttl) \in Promised!Changes
      BY <1>1, <2>1, MakeChange
    <2> QED BY <1>1, <1>2, <1>4, <2>2 DEF MemcachedSet
  <1>5. CASE MemcachedFlushAll(c)
    <2>1. r \in Promised!Changes
      BY <1>1, <1>5, MakeEntry, MakeChange DEF MemcachedFlushAll
    <2> QED BY <1>1, <1>2, <1>5, <2>1 DEF MemcachedFlushAll
  <1> QED BY <1>3, <1>4, <1>5

\* Every operation keeps the invariant.
LEMMA LiveStep == LiveInv /\ [Next]_vars => LiveInv'
  <1> SUFFICES ASSUME LiveInv, [Next]_vars PROVE LiveInv'
    OBVIOUS
  <1>0. StoreType /\ LateInv
    BY DEF LiveInv
  <1>00. UNCHANGED <<backend, late>> => LateInv'
    BY <1>0 DEF LateInv
  <1>1. ASSUME NEW c \in Clients, NEW r \in Promised!Calls, Invoke(c, r) PROVE LiveInv'
    <2>1. ClientType' /\ \A d \in Clients : d # c => Same(d)
      BY <1>0, <1>1 DEF Invoke, StoreType, ClientType, Same
    <2>2. pc[c] = "send" /\ seen[c] = {}
      BY <1>0, <1>1 DEF Invoke, LiveInv, CallInv, CallOk, StoreType
    <2>3. CallOk(c)'
      BY <1>0, <1>1, <2>2 DEF Invoke, CallOk, StoreType
    <2> QED BY <1>1, <1>00, <2>1, <2>3, OnlyClient DEF Invoke
  <1>2. ASSUME NEW c \in Clients, Read(c) PROVE LiveInv'
    <2>1. call[c] \in Promised!Calls /\ call[c].op # "flushall" /\ call[c].key \in Keys
      BY <1>2, SendingFacts DEF Read, Promised!Reads
    <2> DEFINE k == call[c].key
    <2>2. /\ Put(k, Found(k), life[k], timed[k]) /\ UNCHANGED <<backend, mortal, late>>
          /\ Answer(c, Promised!Read(call[c], Found(k)))
      BY <1>2 DEF Read, Dropped
    <2>3. /\ Found(k) \in Promised!Entries
          /\ life[k] \in {"forever", "timed", "expired"} /\ timed[k] \in SUBSET Fields
          /\ life[k] = "expired" => backend = "memory"
          /\ timed[k] # {} => backend = "redis"
          /\ backend = "redis" => Found(k) # Promised!Hash(Promised!EmptyHash)
          /\ life[k] # "forever" \/ timed[k] # {} => k \in mortal
      BY <2>1, Finding
    <2> QED BY <2>1, <2>2, <2>3, PutAndAnswer
  <1>3. ASSUME NEW c \in Clients, Set(c) PROVE LiveInv'
    <2>1. /\ call[c] \in Promised!Calls /\ call[c].op = "set" /\ call[c].key \in Keys
          /\ call[c].value \in Promised!Values
      BY <1>3, SendingFacts, CallFacts DEF Set
    <2> DEFINE e == Promised!Text(call[c].value)
               l == Life(call[c].ttl)
    <2>2. /\ Put(call[c].key, e, l, {}) /\ UNCHANGED <<backend, late>>
          /\ mortal' = Promised!Mortal(c, call[c]) /\ Answer(c, Promised!Done)
      BY <1>3 DEF Set
    <2>3. e \in Promised!Entries /\ e # Promised!Hash(Promised!EmptyHash)
      BY <2>1, MakeEntry, HashFacts
    <2>4. l \in {"forever", "timed"} /\ (l # "forever" => call[c].key \in mortal')
      BY <2>1, <2>2 DEF Life, Promised!Mortal
    <2> HIDE DEF e, l
    <2> QED BY <2>1, <2>2, <2>3, <2>4, PutAndAnswer
  <1>4. ASSUME NEW c \in Clients, Delete(c) PROVE LiveInv'
    <2>1. call[c] \in Promised!Calls /\ call[c].op = "delete" /\ call[c].key \in Keys
      BY <1>4, SendingFacts DEF Delete
    <2> DEFINE a == Promised!Count(IF table[call[c].key] = Promised!Missing THEN 0 ELSE 1)
    <2>2. /\ Put(call[c].key, Promised!Missing, "forever", {}) /\ UNCHANGED <<backend, late>>
          /\ mortal' = Promised!Mortal(c, call[c]) /\ Answer(c, a)
      BY <1>4 DEF Delete
    <2>3. /\ Promised!Missing \in Promised!Entries
          /\ Promised!Missing # Promised!Hash(Promised!EmptyHash)
      BY MakeEntry, HashFacts
    <2> HIDE DEF a
    <2> QED BY <2>1, <2>2, <2>3, PutAndAnswer
  <1>5. ASSUME NEW c \in Clients, FlushAll(c) PROVE LiveInv'
    <2>1. call[c] \in Promised!Calls
      BY <1>5, SendingFacts DEF FlushAll
    <2>2. /\ ClientType' /\ Returned(c, Promised!Done) /\ mortal' \subseteq Keys
          /\ \A d \in Clients : d # c /\ pc[d] = "expire" => call[d].key \in mortal'
      BY <1>0, <1>5, <2>1, AnswerReturns, MortalKept DEF FlushAll, Flushed
    <2>3. StoreType' /\ LifeInv' /\ ExpiryWasAsked'
      BY <1>5, <2>2, FlushedOk DEF FlushAll
    <2>4. CallInv'
      BY <1>5, <2>2 DEF FlushAll, LiveInv, CallInv, CallOk, Returned, Same
    <2> QED BY <1>5, <1>00, <2>3, <2>4 DEF FlushAll, LiveInv
  <1>6. ASSUME NEW c \in Clients, RefuseText(c) \/ RefuseValue(c) PROVE LiveInv'
    <2> DEFINE k == call[c].key
    <2>1. /\ call[c] \in Promised!Calls /\ call[c].op # "flushall" /\ k \in Keys
          /\ UNCHANGED <<backend, mortal, late>>
      BY <1>6, SendingFacts DEF RefuseText, RefuseValue
    <2>2. PICK a : Answer(c, a) /\ (UNCHANGED entryVars \/ Dropped(k))
      BY <1>6 DEF RefuseText, RefuseValue
    <2>3. CASE UNCHANGED entryVars
      <3>1. ClientType' /\ Returned(c, a)
        BY <1>0, <2>2, AnswerReturns
      <3> QED BY <1>00, <2>1, <2>3, <3>1, OnlyClient DEF Returned, CallOk
    <2>4. CASE Dropped(k)
      <3>1. Put(k, Found(k), life[k], timed[k])
        BY <2>4 DEF Dropped
      <3>2. /\ Found(k) \in Promised!Entries
            /\ life[k] \in {"forever", "timed", "expired"} /\ timed[k] \in SUBSET Fields
            /\ life[k] = "expired" => backend = "memory"
            /\ timed[k] # {} => backend = "redis"
            /\ backend = "redis" => Found(k) # Promised!Hash(Promised!EmptyHash)
            /\ life[k] # "forever" \/ timed[k] # {} => k \in mortal
        BY <2>1, Finding
      <3> QED BY <2>1, <2>2, <3>1, <3>2, PutAndAnswer
    <2> QED BY <2>2, <2>3, <2>4
  <1>7. ASSUME NEW c \in Clients, MemoryHSet(c) PROVE LiveInv'
    <2> DEFINE r == call[c]
               h == Promised!HashOf(table[r.key])
               e == Promised!Hash(Promised!WithField(h, r.field, r.value))
               l == IF table[r.key] = Promised!Missing THEN Life(r.ttl) ELSE life[r.key]
    <2>1. /\ r \in Promised!Calls /\ r.op = "hset" /\ r.key \in Keys /\ backend = "memory"
          /\ r.field \in Fields /\ r.value \in Promised!Values
      BY <1>7, SendingFacts, CallFacts DEF MemoryHSet
    <2>2. /\ Put(r.key, e, l, {}) /\ mortal' = Promised!Mortal(c, r) /\ UNCHANGED <<backend, late>>
          /\ Answer(c, Promised!Added(h, r.field))
      BY <1>7 DEF MemoryHSet
    <2>3. e \in Promised!Entries
      BY <2>1, Finding, HashFacts, MakeEntry
    <2>4. r.key \in mortal' \/ (~r.ttl /\ mortal' = mortal)
      BY <2>1, <2>2 DEF Promised!Mortal
    <2>5. l \in {"forever", "timed", "expired"} /\ (l # "forever" => r.key \in mortal')
      BY <2>1, <2>4, Finding DEF Life
    <2> HIDE DEF e, l, h
    <2> QED BY <2>1, <2>2, <2>3, <2>5, PutAndAnswer
  <1>8. ASSUME NEW c \in Clients, MemoryHDel(c) PROVE LiveInv'
    <2> DEFINE r == call[c]
               h == Promised!HashOf(Found(r.key))
               e == IF Found(r.key) = Promised!Missing THEN Found(r.key)
                    ELSE Promised!Hash(Promised!WithField(h, r.field, NoValue))
    <2>1. /\ r \in Promised!Calls /\ r.op = "hdel" /\ r.key \in Keys /\ backend = "memory"
          /\ r.field \in Fields
      BY <1>8, SendingFacts, CallFacts DEF MemoryHDel
    <2>2. /\ Put(r.key, e, life[r.key], {}) /\ UNCHANGED <<backend, mortal, late>>
          /\ Answer(c, Promised!Removed(h, r.field))
      BY <1>8 DEF MemoryHDel
    <2>3. e \in Promised!Entries
      BY <2>1, Finding, HashFacts, MakeEntry
    <2>4. /\ life[r.key] \in {"forever", "timed", "expired"}
          /\ life[r.key] # "forever" => r.key \in mortal
      BY <2>1, Finding
    <2> HIDE DEF e, h
    <2> QED BY <2>1, <2>2, <2>3, <2>4, PutAndAnswer
  <1>9. ASSUME NEW c \in Clients, MemcachedRead(c) PROVE LiveInv'
    <2> DEFINE r == call[c]
               h == Promised!HashOf(table[r.key])
    <2>1. /\ r \in Promised!Calls /\ r.op \in {"hset", "hdel"} /\ r.key \in Keys
          /\ answer[c] = Promised!NoAnswer
      BY <1>9, SendingFacts DEF MemcachedRead
    <2>2. UNCHANGED <<backend, entryVars, mortal, late>> /\ backend = "memcached"
      BY <1>9 DEF MemcachedRead
    <2>3. CASE Answer(c, Promised!Count(0))
      <3>1. ClientType' /\ Returned(c, Promised!Count(0))
        BY <1>0, <2>3, AnswerReturns
      <3> QED BY <1>00, <2>2, <3>1, OnlyClient DEF Returned, CallOk
    <2>4. CASE /\ pc' = [pc EXCEPT ![c] = "write"] /\ seen' = [seen EXCEPT ![c] = {h}]
               /\ UNCHANGED <<call, answer>>
      <3>1. h \in Promised!Hashes
        BY <2>1, Finding, HashFacts
      <3> HIDE DEF h
      <3>2. ClientType' /\ (\A d \in Clients : d # c => Same(d)) /\ pc'[c] = "write"
        BY <1>0, <2>4, <3>1 DEF StoreType, ClientType, Same
      <3>3. CallOk(c)'
        BY <2>1, <2>2, <2>4, <3>2, NoCallFacts DEF CallOk
      <3> QED BY <1>00, <2>2, <3>2, <3>3, OnlyClient
    <2> QED BY <1>9, <2>3, <2>4 DEF MemcachedRead
  <1>10. ASSUME NEW c \in Clients, MemcachedWrite(c) \/ MemcachedSet(c) \/ MemcachedFlushAll(c)
         PROVE  LiveInv'
    <2>1. PICK w, a : w \in Promised!Changes /\ NoReply(c, w, a) /\ backend = "memcached"
      BY <1>10, Leaving
    <2>2. ClientType' /\ Returned(c, a)
      BY <1>0, <2>1, AnswerReturns DEF NoReply
    <2>3. LateInv'
      BY <1>0, <2>1 DEF NoReply, LateInv
    <2> QED BY <2>1, <2>2, <2>3, OnlyClient DEF NoReply, Returned, CallOk
  <1>17. ASSUME NEW c \in Clients, Land(c) PROVE LiveInv'
    <2> DEFINE w == Head(late[c])
    <2>1. w \in Promised!Changes /\ backend = "memcached"
      BY <1>0, <1>17 DEF Land, LateInv
    <2>2. UNCHANGED <<backend, call, answer, pc, seen>> /\ late' = [late EXCEPT ![c] = Tail(@)]
      BY <1>17 DEF Land
    <2>3. LateInv'
      BY <1>0, <1>17, <2>1, <2>2 DEF Land, LateInv
    <2>4. ClientType'
      BY <1>0, <2>2 DEF StoreType, ClientType
    <2>5. CallInv'
      BY <2>1, <2>2 DEF LiveInv, CallInv, CallOk
    <2>6. CASE Flushed(c)
      <3>1. mortal' \subseteq Keys
        BY <1>0, <2>6 DEF Flushed, StoreType
      <3> QED BY <2>2, <2>3, <2>4, <2>5, <2>6, <3>1, FlushedOk DEF LiveInv
    <2>7. CASE w.op # "flushall" /\ Put(w.key, w.entry, Life(w.ttl), {}) /\ mortal' = Promised!Mortal(c, w)
      <3> DEFINE k == w.key
                 e == w.entry
                 l == Life(w.ttl)
      <3>1. /\ k \in Keys /\ e \in Promised!Entries /\ w.op \in {"set", "hset", "hdel"}
            /\ w.op = "hdel" => ~w.ttl
        BY <2>1, <2>7, ChangeFacts
      <3>2. /\ mortal' \subseteq Keys /\ \A j \in Keys : j # k /\ j \in mortal => j \in mortal'
            /\ l \in {"forever", "timed"} /\ (l # "forever" => k \in mortal')
        BY <1>0, <2>7, <3>1 DEF Promised!Mortal, StoreType, Life
      <3>3. Put(k, e, l, {})
        BY <2>7
      <3> HIDE DEF k, e, l, w
      <3>4. EntryType' /\ Replaced(k, e, l, {})
        BY <1>0, <3>1, <3>2, <3>3, PutReplaces
      <3>5. StoreType'
        BY <1>0, <2>2, <2>4, <3>2, <3>4 DEF StoreType, ClientType, EntryType
      <3>6. LifeInv' /\ ExpiryWasAsked'
        BY <2>1, <2>2, <3>1, <3>2, <3>4 DEF LiveInv, LifeInv, ExpiryWasAsked, Replaced
      <3> QED BY <2>3, <2>5, <3>5, <3>6 DEF LiveInv
    <2> QED BY <1>17, <2>6, <2>7 DEF Land
  <1>11. ASSUME NEW c \in Clients, RedisHSet(c) PROVE LiveInv'
    <2> DEFINE r == call[c]
               h == Promised!HashOf(table[r.key])
               e == Promised!Hash(Promised!WithField(h, r.field, r.value))
               S == timed[r.key] \ {r.field}
               a == Promised!Added(h, r.field)
    <2>1. /\ r \in Promised!Calls /\ r.op = "hset" /\ r.key \in Keys /\ backend = "redis"
          /\ r.field \in Fields /\ r.value \in Promised!Values /\ r.ttl \in BOOLEAN
      BY <1>11, SendingFacts, CallFacts DEF RedisHSet
    <2>2. /\ Put(r.key, e, "forever", S) /\ mortal' = Promised!Mortal(c, r) /\ UNCHANGED <<backend, late>>
      BY <1>11 DEF RedisHSet
    <2>3. e \in Promised!Entries /\ e # Promised!Hash(Promised!EmptyHash)
      <3>1. h \in Promised!Hashes
        BY <2>1, Finding, HashFacts
      <3>2. /\ Promised!WithField(h, r.field, r.value) \in Promised!Hashes
            /\ Promised!WithField(h, r.field, r.value)[r.field] = r.value
        BY <2>1, <3>1, HashFacts
      <3>3. r.value # NoValue
        BY <2>1, StoreAssumption DEF Promised!Values
      <3>4. Promised!WithField(h, r.field, r.value) # Promised!EmptyHash
        BY <2>1, <3>2, <3>3 DEF Promised!EmptyHash
      <3> QED BY <3>2, <3>4, MakeEntry, HashFacts
    <2>4. S \in SUBSET Fields /\ (S # {} => r.key \in mortal') /\ (r.ttl => r.key \in mortal')
      <3>1. S \in SUBSET Fields /\ (S # {} => r.key \in mortal)
        BY <2>1, Finding
      <3> QED BY <2>1, <2>2, <3>1 DEF Promised!Mortal
    <2>5. a # Promised!NoAnswer
      BY AnswerFacts DEF Promised!Added
    <2> HIDE DEF e, S, a
    <2>6. CASE Answer(c, a)
      BY <2>1, <2>2, <2>3, <2>4, <2>6, PutAndAnswer
    <2>7. CASE /\ r.ttl /\ answer' = [answer EXCEPT ![c] = a]
               /\ pc' = [pc EXCEPT ![c] = "expire"] /\ UNCHANGED <<call, seen>>
      <3>1. ClientType' /\ pc'[c] = "expire" /\ answer'[c] = a /\ (\A d \in Clients : d # c => Same(d))
        BY <1>0, <2>7 DEF StoreType, ClientType, Same
      <3>2. EntryType' /\ Replaced(r.key, e, "forever", S)
        BY <1>0, <2>1, <2>2, <2>3, <2>4, PutReplaces
      <3>3. /\ mortal' \subseteq Keys
            /\ \A d \in Clients : d # c /\ pc[d] = "expire" => call[d].key \in mortal'
        BY <2>1, <2>2, MortalKept
      <3>4. StoreType'
        BY <1>0, <2>2, <3>1, <3>2, <3>3 DEF StoreType, ClientType, EntryType
      <3>5. LifeInv'
        BY <2>1, <2>2, <2>3, <3>2 DEF LiveInv, LifeInv, Replaced
      <3>6. CallInv'
        <4>1. CallOk(c)'
          <5>1. seen'[c] = {}
            BY <1>11, <2>7, SendingFacts DEF RedisHSet, Promised!Ready
          <5> QED BY <2>1, <2>2, <2>4, <2>5, <2>7, <3>1, <5>1, NoCallFacts DEF CallOk
        <4>2. ASSUME NEW d \in Clients, d # c PROVE CallOk(d)'
          BY <2>2, <3>1, <3>3, <4>2 DEF LiveInv, CallInv, CallOk, Same
        <4> QED BY <4>1, <4>2 DEF CallInv
      <3>7. ExpiryWasAsked'
        <4>1. \A k \in Keys : k # r.key /\ k \in mortal => k \in mortal'
          BY <2>1, <2>2 DEF Promised!Mortal
        <4> QED BY <2>1, <2>4, <3>2, <4>1 DEF LiveInv, ExpiryWasAsked, Replaced
      <3> QED BY <1>00, <2>2, <3>4, <3>5, <3>6, <3>7 DEF LiveInv
    <2> QED BY <1>11, <2>6, <2>7 DEF RedisHSet, a
  <1>12. ASSUME NEW c \in Clients, RedisHExpire(c) PROVE LiveInv'
    <2> DEFINE r == call[c]
               a == IF table[r.key].kind = "text" THEN Promised!Error ELSE answer[c]
               S == {r.field} \cap Promised!FieldsOf(Promised!HashOf(table[r.key]))
    <2>1. r \in Promised!Calls /\ r.op = "hset" /\ r.key \in mortal
      BY <1>0, <1>12 DEF RedisHExpire, LiveInv, CallInv, CallOk, StoreType
    <2>2. r.key \in Keys /\ r.field \in Fields
      BY <2>1, CallFacts
    <2>3. /\ timed' = [timed EXCEPT ![r.key] = @ \cup S] /\ Answer(c, a)
          /\ UNCHANGED <<backend, table, life, mortal, late>>
      BY <1>12 DEF RedisHExpire
    <2>4. S \in SUBSET Fields
      BY <2>2
    <2> HIDE DEF a, S
    <2>5. ClientType' /\ Returned(c, a)
      BY <1>0, <2>3, AnswerReturns
    <2>6. StoreType'
      BY <1>0, <2>2, <2>3, <2>4, <2>5 DEF StoreType, ClientType
    <2>7. backend = "redis"
      BY <1>12 DEF RedisHExpire, LiveInv, CallInv, CallOk
    <2>8. LifeInv'
      BY <1>0, <2>2, <2>3, <2>7 DEF LiveInv, LifeInv, StoreType
    <2>9. ExpiryWasAsked'
      BY <1>0, <2>1, <2>2, <2>3 DEF LiveInv, ExpiryWasAsked, StoreType
    <2>10. CallInv'
      BY <2>3, <2>5 DEF LiveInv, CallInv, CallOk, Returned, Same
    <2> QED BY <1>00, <2>3, <2>6, <2>8, <2>9, <2>10 DEF LiveInv
  <1>13. ASSUME NEW c \in Clients, RedisHDel(c) PROVE LiveInv'
    <2> DEFINE r == call[c]
               h == Promised!HashOf(table[r.key])
               e == Stored(Promised!WithField(h, r.field, NoValue))
               S == timed[r.key] \ {r.field}
    <2>1. /\ r \in Promised!Calls /\ r.op = "hdel" /\ r.key \in Keys /\ backend = "redis"
          /\ r.field \in Fields
      BY <1>13, SendingFacts, CallFacts DEF RedisHDel
    <2>2. /\ Put(r.key, e, "forever", S) /\ UNCHANGED <<backend, mortal, late>>
          /\ Answer(c, Promised!Removed(h, r.field))
      BY <1>13 DEF RedisHDel
    <2>3. e \in Promised!Entries /\ e # Promised!Hash(Promised!EmptyHash)
      BY <2>1, Finding, StoredFacts, HashFacts
    <2>4. S \in SUBSET Fields /\ (S # {} => r.key \in mortal)
      BY <2>1, Finding
    <2> HIDE DEF e, S, h
    <2> QED BY <2>1, <2>2, <2>3, <2>4, PutAndAnswer
  <1>14. ASSUME NEW c \in Clients, Raise(c) PROVE LiveInv'
    <2>1. ClientType' /\ Returned(c, Promised!Raised)
      BY <1>0, <1>14, AnswerReturns DEF Raise
    <2>2. LateInv'
      BY <1>0, <1>14 DEF Raise, LateInv
    <2> QED BY <1>14, <2>1, <2>2, OnlyClient DEF Raise, Returned, CallOk
  <1>15. ASSUME NEW k \in Keys, Expire(k) PROVE LiveInv'
    <2>1. UNCHANGED <<backend, mortal, call, answer, pc, seen, late>>
      BY <1>15 DEF Expire
    <2>2. CallInv' /\ LateInv'
      BY <1>00, <2>1 DEF LiveInv, CallInv, CallOk
    <2>3. CASE life[k] = "timed" /\ backend = "memory" /\ life' = [life EXCEPT ![k] = "expired"]
               /\ UNCHANGED <<table, timed>>
      <3>1. StoreType'
        BY <1>0, <2>1, <2>3 DEF StoreType
      <3>2. LifeInv' /\ ExpiryWasAsked'
        BY <1>0, <2>1, <2>3 DEF LiveInv, LifeInv, ExpiryWasAsked, StoreType
      <3> QED BY <2>2, <3>1, <3>2 DEF LiveInv
    <2>4. ASSUME NEW e \in Promised!Entries, NEW S \in SUBSET timed[k], Put(k, e, "forever", S),
                 backend = "redis" => e # Promised!Hash(Promised!EmptyHash)
          PROVE  LiveInv'
      <3>1. S \in SUBSET Fields
        BY <2>4, Finding
      <3>2. EntryType' /\ Replaced(k, e, "forever", S)
        BY <1>0, <2>4, <3>1, PutReplaces
      <3>3. StoreType'
        BY <1>0, <2>1, <3>2 DEF StoreType, EntryType
      <3>4. LifeInv' /\ ExpiryWasAsked'
        BY <2>1, <2>4, <3>2 DEF LiveInv, LifeInv, ExpiryWasAsked, Replaced
      <3> QED BY <2>2, <3>3, <3>4 DEF LiveInv
    <2>5. CASE Put(k, Promised!Missing, "forever", {})
      <3>1. /\ Promised!Missing \in Promised!Entries
            /\ Promised!Missing # Promised!Hash(Promised!EmptyHash)
        BY MakeEntry, HashFacts
      <3> QED BY <2>4, <2>5, <3>1
    <2>6. ASSUME NEW f \in timed[k],
                 Put(k, Stored(Promised!WithField(Promised!HashOf(table[k]), f, NoValue)),
                     "forever", timed[k] \ {f})
          PROVE  LiveInv'
      <3> DEFINE e == Stored(Promised!WithField(Promised!HashOf(table[k]), f, NoValue))
      <3>1. f \in Fields /\ table[k] \in Promised!Entries
        BY Finding
      <3>2. e \in Promised!Entries /\ (backend = "redis" => e # Promised!Hash(Promised!EmptyHash))
        BY <3>1, StoredFacts, HashFacts
      <3> HIDE DEF e
      <3>3. Put(k, e, "forever", timed[k] \ {f})
        BY <2>6 DEF e
      <3> QED BY <2>4, <3>2, <3>3
    <2> QED BY <1>15, <2>3, <2>5, <2>6 DEF Expire
  <1>16. CASE UNCHANGED vars
    BY <1>16 DEF vars, LiveInv, StoreType, LifeInv, CallInv, CallOk, LateInv, ExpiryWasAsked
  <1> QED BY <1>1, <1>2, <1>3, <1>4, <1>5, <1>6, <1>7, <1>8, <1>9, <1>10, <1>11, <1>12, <1>13,
             <1>14, <1>15, <1>16, <1>17 DEF Next

\* Nothing expires in a store, Memcached and MemoryStore included, that no hset or
\* set gave a time to live since the key was last set or deleted.
THEOREM ExpiryWasAskedAlways == Spec => []ExpiryWasAsked
  <1>1. Spec => []LiveInv
    BY LiveInit, LiveStep, PTL DEF Spec
  <1>2. LiveInv => ExpiryWasAsked
    BY DEF LiveInv
  <1> QED BY <1>1, <1>2, PTL

----------------------------------------------------------------------------
(***************************************************************************)
(* The back ends implement HashStore.                                      *)
(***************************************************************************)
\* The call of c has its answer and leaves nothing to land.
Over(c, a) ==
  /\ answer' = [answer EXCEPT ![c] = a]
  /\ UNCHANGED call \/ call' = [call EXCEPT ![c] = Promised!NoCall]
  /\ UNCHANGED seen \/ seen' = [seen EXCEPT ![c] = {}]
  /\ UNCHANGED late

\* A call takes effect or is refused: one step of HashStore.
LEMMA Effect ==
  ASSUME StoreType, NEW c \in Clients, call[c] \in Promised!Calls, call[c].op # "flushall",
         answer[c] = Promised!NoAnswer, Promised!Ready(c), NEW e, NEW o, NEW a,
         e \in Promised!Findable(call[c].key),
         \/ /\ <<o, a>> \in Promised!Outcomes(call[c], e)
            /\ mortal' = Promised!Mortal(c, call[c])
         \/ o = e /\ a \in Promised!Refusals(call[c], e) /\ UNCHANGED mortal,
         table' = [table EXCEPT ![call[c].key] = o],
         Over(c, a)
  PROVE  Promised!Next
  <1>1. call[c].op # "none" /\ call[c] # Promised!NoCall
    BY CallFacts, NoCallFacts
  <1>2. Promised!Answered(c, a)
    BY <1>1 DEF Promised!Answered, Over
  <1>3. <<o, a>>[1] = o /\ <<o, a>>[2] = a
    OBVIOUS
  <1>4. UNCHANGED seen
    <2>1. [seen EXCEPT ![c] = {}] = seen
      BY DEF StoreType, Promised!Ready
    <2> QED BY <2>1 DEF Over
  <1>5. UNCHANGED late
    BY DEF Over
  <1>6. CASE /\ <<o, a>> \in Promised!Outcomes(call[c], e)
             /\ mortal' = Promised!Mortal(c, call[c])
    <2>1. Promised!TakeEffect(c)
      BY <1>1, <1>2, <1>3, <1>4, <1>5, <1>6 DEF Promised!TakeEffect
    <2> QED BY <2>1 DEF Promised!Next
  <1>7. CASE o = e /\ a \in Promised!Refusals(call[c], e) /\ UNCHANGED mortal
    <2>1. Promised!TakeEffect(c)
      BY <1>1, <1>2, <1>4, <1>5, <1>7 DEF Promised!TakeEffect
    <2> QED BY <2>1 DEF Promised!Next
  <1> QED BY <1>6, <1>7

\* An operation finds the entry, or what its time to live has left of it.
LEMMA FoundSurvives ==
  ASSUME LiveInv, NEW k \in Keys
  PROVE  Found(k) \in Promised!Findable(k) /\ table[k] \in Promised!Findable(k)
  <1>1. life[k] = "expired" => k \in mortal
    BY DEF LiveInv, ExpiryWasAsked
  <1> QED BY <1>1 DEF Found, Promised!Findable, Promised!Survivors

\* The outcomes of the operations.
LEMMA OutcomeFacts ==
  ASSUME NEW r \in Promised!Calls, NEW e \in Promised!Entries
  PROVE  /\ r.op \in Promised!Reads => <<e, Promised!Read(r, e)>> \in Promised!Outcomes(r, e)
         /\ r.op = "set" => <<Promised!Text(r.value), Promised!Done>> \in Promised!Outcomes(r, e)
         /\ r.op = "delete" =>
              <<Promised!Missing, Promised!Count(IF e = Promised!Missing THEN 0 ELSE 1)>>
                \in Promised!Outcomes(r, e)
         /\ r.op = "hset" /\ e.kind # "text" =>
              <<Promised!Hash(Promised!WithField(Promised!HashOf(e), r.field, r.value)),
                Promised!Added(Promised!HashOf(e), r.field)>> \in Promised!Outcomes(r, e)
         /\ r.op = "hdel" /\ e.kind # "text" /\ Promised!HashOf(e)[r.field] = NoValue =>
              <<e, Promised!Count(0)>> \in Promised!Outcomes(r, e)
         /\ r.op = "hdel" /\ e.kind # "text" /\ Promised!HashOf(e)[r.field] # NoValue =>
              LET left == Promised!WithField(Promised!HashOf(e), r.field, NoValue) IN
              /\ <<Promised!Hash(left), Promised!Count(1)>> \in Promised!Outcomes(r, e)
              /\ left = Promised!EmptyHash =>
                   <<Promised!Missing, Promised!Count(1)>> \in Promised!Outcomes(r, e)
  <1>1. r.op \in Promised!Reads => r.op \notin {"set", "delete", "hset", "hdel"}
    BY DEF Promised!Reads
  <1>2. r.op \in Promised!Reads => Promised!Outcomes(r, e) = {<<e, Promised!Read(r, e)>>}
    BY <1>1 DEF Promised!Outcomes
  <1>3. r.op \in {"set", "delete", "hset", "hdel"} => r.op \notin Promised!Reads
    BY DEF Promised!Reads
  <1>4. r.op = "set" => Promised!Outcomes(r, e) = {<<Promised!Text(r.value), Promised!Done>>}
    BY <1>3 DEF Promised!Outcomes
  <1>5. r.op = "delete" => Promised!Outcomes(r, e) =
          {<<Promised!Missing, Promised!Count(IF e = Promised!Missing THEN 0 ELSE 1)>>}
    BY <1>3 DEF Promised!Outcomes
  <1>7. r.op = "hset" /\ e.kind # "text" => Promised!Outcomes(r, e) =
          {<<Promised!Hash(Promised!WithField(Promised!HashOf(e), r.field, r.value)),
             Promised!Added(Promised!HashOf(e), r.field)>>}
    BY <1>3 DEF Promised!Outcomes
  <1>8. r.op = "hdel" /\ e.kind # "text" => Promised!Outcomes(r, e) =
          IF Promised!HashOf(e)[r.field] = NoValue THEN {<<e, Promised!Count(0)>>}
          ELSE {<<Promised!Hash(Promised!WithField(Promised!HashOf(e), r.field, NoValue)),
                  Promised!Count(1)>>}
                 \cup (IF Promised!WithField(Promised!HashOf(e), r.field, NoValue) = Promised!EmptyHash
                       THEN {<<Promised!Missing, Promised!Count(1)>>} ELSE {})
    BY <1>3 DEF Promised!Outcomes
  <1> QED BY <1>2, <1>4, <1>5, <1>7, <1>8

\* What a field's end leaves of a hash.
LEMMA FieldSurvives ==
  ASSUME LiveInv, NEW k \in Keys, k \in mortal, backend = "redis", NEW f \in Fields
  PROVE  Stored(Promised!WithField(Promised!HashOf(table[k]), f, NoValue))
           \in Promised!Survivors(table[k])
  <1> DEFINE h == Promised!HashOf(table[k])
             left == Promised!WithField(h, f, NoValue)
  <1>1. table[k] \in Promised!Entries /\ h \in Promised!Hashes
    BY Finding, HashFacts
  <1>2. Promised!Missing \in Promised!Survivors(table[k])
    BY DEF Promised!Survivors
  <1>3. CASE table[k].kind = "hash"
    <2> DEFINE S == Promised!FieldsOf(h) \ {f}
    <2>1. table[k].fields = h
      BY <1>3 DEF Promised!HashOf
    <2>2. left = [g \in Fields |-> IF g \in S THEN h[g] ELSE NoValue]
      BY <1>1 DEF Promised!WithField, Promised!Hashes, Promised!FieldsOf
    <2>3. S \in SUBSET Promised!FieldsOf(h)
      OBVIOUS
    <2> HIDE DEF h, left, S
    <2>4. Promised!Hash(left) \in Promised!Survivors(table[k])
      BY <1>3, <2>1, <2>2, <2>3 DEF Promised!Survivors
    <2> QED BY <1>2, <2>4 DEF Stored, left, h
  <1>4. CASE table[k].kind # "hash"
    <2>1. h = Promised!EmptyHash
      BY <1>4 DEF Promised!HashOf
    <2>2. h[f] = NoValue
      BY <2>1 DEF Promised!EmptyHash
    <2>3. left = Promised!EmptyHash
      BY <1>1, <2>1, <2>2, HashFacts
    <2> QED BY <1>2, <2>3 DEF Stored
  <1> QED BY <1>3, <1>4

\* Every step of a back end is a step of HashStore or none at all.
LEMMA Refines ==
  ASSUME LiveInv, [Next]_vars
  PROVE  [Promised!Next]_(Promised!storeVars)
  <1>0. LiveInv /\ StoreType
    BY DEF LiveInv
  <1>1. ASSUME NEW c \in Clients, NEW r \in Promised!Calls, Invoke(c, r) PROVE Promised!Next
    <2>1. Promised!Invoke(c, r)
      BY <1>1 DEF Invoke, Promised!Invoke, entryVars
    <2> QED BY <2>1 DEF Promised!Next
  <1>2. ASSUME NEW c \in Clients, Read(c) PROVE Promised!Next
    <2> DEFINE r == call[c]
               e == Found(r.key)
               a == Promised!Read(r, e)
    <2>1. /\ r \in Promised!Calls /\ r.op \in Promised!Reads /\ r.op # "flushall" /\ r.key \in Keys
          /\ answer[c] = Promised!NoAnswer /\ Promised!Ready(c)
      BY <1>0, <1>2, SendingFacts DEF Read, Promised!Reads
    <2>2. /\ table' = [table EXCEPT ![r.key] = e] /\ mortal' = mortal
          /\ Over(c, a)
      BY <1>2 DEF Read, Dropped, Put, Answer, Over
    <2>3. Promised!Mortal(c, r) = mortal
      BY <2>1 DEF Promised!Mortal, Promised!Reads
    <2>4. <<e, a>> \in Promised!Outcomes(r, e)
      BY <1>0, <2>1, Finding, OutcomeFacts
    <2>5. e \in Promised!Findable(r.key)
      BY <1>0, <2>1, FoundSurvives
    <2> HIDE DEF e, a
    <2> QED BY <1>0, <2>1, <2>2, <2>3, <2>4, <2>5, Effect
  <1>3. ASSUME NEW c \in Clients, Set(c) PROVE Promised!Next
    <2> DEFINE r == call[c]
               o == Promised!Text(r.value)
               e == table[r.key]
    <2>1. r \in Promised!Calls /\ r.op = "set" /\ r.key \in Keys /\ answer[c] = Promised!NoAnswer /\ Promised!Ready(c)
      BY <1>0, <1>3, SendingFacts DEF Set
    <2>2. /\ table' = [table EXCEPT ![r.key] = o] /\ mortal' = Promised!Mortal(c, r)
          /\ Over(c, Promised!Done)
      BY <1>3 DEF Set, Put, Answer, Over
    <2>3. <<o, Promised!Done>> \in Promised!Outcomes(r, e)
      BY <1>0, <2>1, Finding, OutcomeFacts
    <2>4. e \in Promised!Findable(r.key)
      BY <1>0, <2>1, FoundSurvives
    <2> HIDE DEF e, o
    <2> QED BY <1>0, <2>1, <2>2, <2>3, <2>4, Effect
  <1>4. ASSUME NEW c \in Clients, Delete(c) PROVE Promised!Next
    <2> DEFINE r == call[c]
               e == table[r.key]
               a == Promised!Count(IF e = Promised!Missing THEN 0 ELSE 1)
    <2>1. r \in Promised!Calls /\ r.op = "delete" /\ r.key \in Keys /\ answer[c] = Promised!NoAnswer /\ Promised!Ready(c)
      BY <1>0, <1>4, SendingFacts DEF Delete
    <2>2. /\ table' = [table EXCEPT ![r.key] = Promised!Missing]
          /\ mortal' = Promised!Mortal(c, r)
          /\ Over(c, a)
      BY <1>4 DEF Delete, Put, Answer, Over
    <2>3. <<Promised!Missing, a>> \in Promised!Outcomes(r, e)
      BY <1>0, <2>1, Finding, OutcomeFacts
    <2>4. e \in Promised!Findable(r.key)
      BY <1>0, <2>1, FoundSurvives
    <2> HIDE DEF e, a
    <2> QED BY <1>0, <2>1, <2>2, <2>3, <2>4, Effect
  <1>5. ASSUME NEW c \in Clients, FlushAll(c) PROVE Promised!Next
    <2>1. /\ call[c] \in Promised!Calls /\ call[c].op = "flushall"
          /\ answer[c] = Promised!NoAnswer /\ Promised!Ready(c)
      BY <1>0, <1>5, SendingFacts DEF FlushAll
    <2>2. UNCHANGED seen
      BY <1>0, <1>5, <2>1 DEF FlushAll, Answer, StoreType, Promised!Ready
    <2>3. Promised!FlushAll(c)
      BY <1>5, <2>1, <2>2, NoCallFacts
         DEF FlushAll, Flushed, Answer, Promised!FlushAll, Promised!Flushed, Promised!Answered
    <2> QED BY <2>3 DEF Promised!Next
  <1>6. ASSUME NEW c \in Clients, RefuseText(c) \/ RefuseValue(c) PROVE Promised!Next
    <2> DEFINE r == call[c]
    <2>1. /\ r \in Promised!Calls /\ r.op \in {"set", "hset", "hdel"} /\ r.key \in Keys
          /\ answer[c] = Promised!NoAnswer /\ Promised!Ready(c)
      BY <1>0, <1>6, SendingFacts DEF RefuseText, RefuseValue
    <2>2. table = [table EXCEPT ![r.key] = table[r.key]]
      BY <1>0, <2>1 DEF StoreType
    <2>3. PICK e, a :
            /\ e \in {table[r.key], Found(r.key)} /\ a \in Promised!Refusals(r, e)
            /\ table' = [table EXCEPT ![r.key] = e] /\ UNCHANGED mortal /\ Over(c, a)
      <3>1. CASE RefuseText(c)
        BY <2>1, <2>2, <3>1
           DEF RefuseText, Dropped, Put, entryVars, Answer, Over, Promised!Refusals
      <3>2. CASE RefuseValue(c)
        BY <2>1, <2>2, <3>2 DEF RefuseValue, entryVars, Answer, Over, Sending, Promised!Refusals
      <3> QED BY <1>6, <3>1, <3>2
    <2>4. e \in Promised!Findable(r.key)
      BY <1>0, <2>1, <2>3, FoundSurvives
    <2> QED BY <1>0, <2>1, <2>3, <2>4, Effect
  <1>7. ASSUME NEW c \in Clients, MemoryHSet(c) \/ RedisHSet(c) PROVE Promised!Next
    <2> DEFINE r == call[c]
               e == table[r.key]
               h == Promised!HashOf(e)
               o == Promised!Hash(Promised!WithField(h, r.field, r.value))
               a == Promised!Added(h, r.field)
    <2>1. /\ r \in Promised!Calls /\ r.op = "hset" /\ r.key \in Keys /\ e.kind # "text"
          /\ answer[c] = Promised!NoAnswer /\ Promised!Ready(c)
      BY <1>0, <1>7, SendingFacts DEF MemoryHSet, RedisHSet
    <2>2. /\ table' = [table EXCEPT ![r.key] = o] /\ mortal' = Promised!Mortal(c, r)
          /\ Over(c, a)
      BY <1>7 DEF MemoryHSet, RedisHSet, Put, Answer, Over
    <2>3. <<o, a>> \in Promised!Outcomes(r, e)
      BY <1>0, <2>1, Finding, OutcomeFacts
    <2>4. e \in Promised!Findable(r.key)
      BY <1>0, <2>1, FoundSurvives
    <2> HIDE DEF e, o, a
    <2> QED BY <1>0, <2>1, <2>2, <2>3, <2>4, Effect
  <1>8. ASSUME NEW c \in Clients, NEW e, call[c].op = "hdel", call[c] \in Promised!Calls,
               answer[c] = Promised!NoAnswer, Promised!Ready(c), e \in {table[call[c].key], Found(call[c].key)},
               e.kind # "text", NEW o, NEW a,
               IF Promised!HashOf(e)[call[c].field] = NoValue THEN o = e /\ a = Promised!Count(0)
               ELSE /\ a = Promised!Count(1)
                    /\ LET left == Promised!WithField(Promised!HashOf(e), call[c].field, NoValue) IN
                       o = Promised!Hash(left) \/ (left = Promised!EmptyHash /\ o = Promised!Missing),
               table' = [table EXCEPT ![call[c].key] = o],
               mortal' = mortal, Over(c, a)
        PROVE  Promised!Next
    <2>1. call[c].key \in Keys
      BY <1>8, CallFacts
    <2>2. e \in Promised!Entries
      BY <1>0, <1>8, <2>1, Finding
    <2>3. <<o, a>> \in Promised!Outcomes(call[c], e)
      BY <1>8, <2>2, OutcomeFacts
    <2>4. e \in Promised!Findable(call[c].key)
      BY <1>0, <1>8, <2>1, FoundSurvives
    <2>5. Promised!Mortal(c, call[c]) = mortal
      BY <1>8 DEF Promised!Mortal
    <2> QED BY <1>0, <1>8, <2>3, <2>4, <2>5, Effect
  <1>9. ASSUME NEW c \in Clients, MemoryHDel(c) PROVE Promised!Next
    <2> DEFINE r == call[c]
               e == Found(r.key)
               h == Promised!HashOf(e)
               left == Promised!WithField(h, r.field, NoValue)
               o == IF e = Promised!Missing THEN e ELSE Promised!Hash(left)
               a == Promised!Removed(h, r.field)
    <2>1. /\ r \in Promised!Calls /\ r.op = "hdel" /\ r.key \in Keys /\ r.field \in Fields
          /\ answer[c] = Promised!NoAnswer /\ Promised!Ready(c) /\ e.kind # "text"
      BY <1>0, <1>9, SendingFacts, CallFacts DEF MemoryHDel
    <2>2. /\ table' = [table EXCEPT ![r.key] = o] /\ mortal' = mortal
          /\ Over(c, a)
      BY <1>9 DEF MemoryHDel, Put, Answer, Over
    <2>3. /\ e \in Promised!Entries /\ h \in Promised!Hashes
          /\ e = Promised!Missing => h[r.field] = NoValue
      BY <1>0, <2>1, Finding, HashFacts, MakeEntry DEF Promised!HashOf, Promised!EmptyHash
    <2>4. e # Promised!Missing => e = Promised!Hash(h)
      BY <2>1, <2>3, EntryFacts DEF Promised!HashOf
    <2>5. h[r.field] = NoValue => left = h
      BY <2>1, <2>3, HashFacts
    <2>6. a = IF h[r.field] = NoValue THEN Promised!Count(0) ELSE Promised!Count(1)
      BY DEF Promised!Removed
    <2>7. IF h[r.field] = NoValue THEN o = e /\ a = Promised!Count(0)
          ELSE o = Promised!Hash(left) /\ a = Promised!Count(1)
      BY <2>3, <2>4, <2>5, <2>6
    <2> HIDE DEF o, a
    <2> QED BY <1>8, <2>1, <2>2, <2>7
  <1>10. ASSUME NEW c \in Clients, RedisHDel(c) PROVE Promised!Next
    <2> DEFINE r == call[c]
               e == table[r.key]
               h == Promised!HashOf(e)
               left == Promised!WithField(h, r.field, NoValue)
               o == Stored(left)
               a == Promised!Removed(h, r.field)
    <2>1. /\ r \in Promised!Calls /\ r.op = "hdel" /\ r.key \in Keys /\ r.field \in Fields
          /\ answer[c] = Promised!NoAnswer /\ Promised!Ready(c) /\ e.kind # "text" /\ backend = "redis"
      BY <1>0, <1>10, SendingFacts, CallFacts DEF RedisHDel
    <2>2. /\ table' = [table EXCEPT ![r.key] = o] /\ mortal' = mortal
          /\ Over(c, a)
      BY <1>10 DEF RedisHDel, Put, Answer, Over
    <2>3. e \in Promised!Entries /\ h \in Promised!Hashes /\ e # Promised!Hash(Promised!EmptyHash)
      BY <1>0, <2>1, Finding, HashFacts DEF LiveInv, LifeInv
    <2>4. IF e = Promised!Missing THEN h = Promised!EmptyHash ELSE e = Promised!Hash(h)
      BY <2>1, <2>3, EntryFacts, MakeEntry DEF Promised!HashOf
    <2>5. h[r.field] = NoValue => left = h
      BY <2>1, <2>3, HashFacts
    <2>6. a = IF h[r.field] = NoValue THEN Promised!Count(0) ELSE Promised!Count(1)
      BY DEF Promised!Removed
    <2>7. h[r.field] = NoValue => o = e
      BY <2>1, <2>3, <2>4, <2>5 DEF Stored
    <2>8. o = Promised!Hash(left) \/ (left = Promised!EmptyHash /\ o = Promised!Missing)
      BY DEF Stored
    <2> HIDE DEF o, a
    <2> QED BY <1>8, <2>1, <2>2, <2>6, <2>7, <2>8
  <1>11. ASSUME NEW c \in Clients, MemcachedRead(c) PROVE [Promised!Next]_(Promised!storeVars)
    <2> DEFINE r == call[c]
               e == table[r.key]
    <2>1. /\ r \in Promised!Calls /\ r.op \in {"hset", "hdel"} /\ r.key \in Keys
          /\ answer[c] = Promised!NoAnswer /\ Promised!Ready(c) /\ e.kind # "text"
      BY <1>0, <1>11, SendingFacts DEF MemcachedRead
    <2>2. CASE /\ r.op = "hset" \/ Promised!HashOf(e)[r.field] # NoValue
               /\ seen' = [seen EXCEPT ![c] = {Promised!HashOf(e)}]
               /\ UNCHANGED <<call, answer>>
      <3>1. e \in Promised!Findable(r.key)
        BY <1>0, <2>1, FoundSurvives
      <3>2. UNCHANGED <<table, mortal, late>>
        BY <1>11 DEF MemcachedRead, entryVars
      <3> HIDE DEF e
      <3>3. Promised!Look(c)
        BY <2>1, <2>2, <3>1, <3>2 DEF Promised!Look
      <3> QED BY <3>3 DEF Promised!Next
    <2>3. CASE r.op = "hdel" /\ Promised!HashOf(e)[r.field] = NoValue /\ Answer(c, Promised!Count(0))
      <3>1. /\ table' = [table EXCEPT ![r.key] = e] /\ mortal' = mortal
            /\ Over(c, Promised!Count(0))
        BY <1>0, <1>11, <2>1, <2>3 DEF MemcachedRead, entryVars, Answer, Over, StoreType
      <3> HIDE DEF e
      <3> QED BY <1>8, <2>1, <2>3, <3>1 DEF e
    <2> QED BY <1>11, <2>2, <2>3 DEF MemcachedRead
  <1>12. ASSUME NEW c \in Clients, MemcachedWrite(c) \/ MemcachedSet(c) \/ MemcachedFlushAll(c)
         PROVE  Promised!Next
    <2>1. call[c] \in Promised!Calls /\ answer[c] = Promised!NoAnswer
      BY <1>0, <1>12, Leaving
    <2>2. ASSUME NEW w, NEW a, NoReply(c, w, a) PROVE Promised!Leaves(c, w, a)
      BY <2>1, <2>2, NoCallFacts DEF NoReply, Answer, entryVars, Promised!Leaves, Promised!Answered
    <2>3. Promised!Leave(c)
      BY <1>12, <2>2 DEF MemcachedWrite, MemcachedSet, MemcachedFlushAll, Promised!Leave
    <2> QED BY <2>3 DEF Promised!Next
  <1>17. ASSUME NEW c \in Clients, Land(c) PROVE Promised!Next
    <2>1. Promised!Land(c)
      BY <1>17 DEF Land, Flushed, Put, Promised!Land, Promised!Flushed
    <2> QED BY <2>1 DEF Promised!Next
  <1>13. ASSUME NEW c \in Clients, RedisHExpire(c) PROVE Promised!Next
    <2>1. /\ call[c] # Promised!NoCall /\ answer[c] # Promised!NoAnswer
          /\ call[c].op = "hset" /\ call[c].ttl /\ seen[c] = {} /\ late[c] = <<>>
      BY <1>0, <1>13, NoCallFacts DEF RedisHExpire, LiveInv, CallInv, CallOk, LateInv
    <2>2. /\ UNCHANGED <<table, mortal, late>> /\ call' = [call EXCEPT ![c] = Promised!NoCall]
          /\ seen' = [seen EXCEPT ![c] = {}]
      BY <1>13 DEF RedisHExpire, Answer
    <2>3. answer' = [answer EXCEPT ![c] = Promised!Error] \/ answer' = [answer EXCEPT ![c] = answer[c]]
      BY <1>13 DEF RedisHExpire, Answer
    <2>4. [answer EXCEPT ![c] = answer[c]] = answer
      BY <1>0 DEF StoreType
    <2>5. UNCHANGED seen /\ late' = [late EXCEPT ![c] = <<>>]
      BY <1>0, <2>1, <2>2 DEF StoreType, LiveInv, LateInv
    <2>6. Promised!Raise(c) \/ Promised!Return(c)
      BY <2>1, <2>2, <2>3, <2>4, <2>5 DEF Promised!Raise, Promised!Return
    <2> QED BY <2>6 DEF Promised!Next
  <1>14. ASSUME NEW c \in Clients, Raise(c) PROVE Promised!Next
    <2>1. Promised!Raise(c)
      BY <1>14 DEF Raise, Answer, entryVars, Promised!Raise
    <2> QED BY <2>1 DEF Promised!Next
  <1>15. ASSUME NEW k \in Keys, Expire(k) PROVE [Promised!Next]_(Promised!storeVars)
    <2>1. UNCHANGED <<mortal, call, answer, seen, late>>
      BY <1>15 DEF Expire
    <2>2. CASE UNCHANGED table
      BY <2>1, <2>2 DEF Promised!storeVars
    <2>3. ASSUME NEW e \in Promised!Survivors(table[k]), k \in mortal, table' = [table EXCEPT ![k] = e]
          PROVE  Promised!Next
      <3>1. Promised!Expire(k)
        BY <2>1, <2>3 DEF Promised!Expire
      <3> QED BY <3>1 DEF Promised!Next
    <2>4. CASE life[k] = "timed" /\ table' = [table EXCEPT ![k] = Promised!Missing]
      <3>1. k \in mortal /\ Promised!Missing \in Promised!Survivors(table[k])
        BY <1>0, <2>4 DEF LiveInv, ExpiryWasAsked, Promised!Survivors
      <3> QED BY <2>3, <2>4, <3>1
    <2>5. ASSUME NEW f \in timed[k],
                 table' = [table EXCEPT ![k] =
                   Stored(Promised!WithField(Promised!HashOf(table[k]), f, NoValue))]
          PROVE  Promised!Next
      <3>1. f \in Fields /\ k \in mortal /\ backend = "redis"
        BY <1>0, <2>5, Finding
      <3> QED BY <1>0, <2>3, <2>5, <3>1, FieldSurvives
    <2> QED BY <1>15, <2>2, <2>4, <2>5 DEF Expire, Put
  <1>16. CASE UNCHANGED vars
    BY <1>16 DEF vars, Promised!storeVars
  <1> QED BY <1>1, <1>2, <1>3, <1>4, <1>5, <1>6, <1>7, <1>9, <1>10, <1>11, <1>12, <1>13, <1>14,
             <1>15, <1>16, <1>17 DEF Next

\* MemoryStore, MemcachedStore and RedisStore implement HashStore: hset and hdel of
\* several commands, writers of one Memcached hash that overwrite each other, writes
\* that land after the call returned, lost connections and expiry included.
THEOREM KeepsPromiseAlways == Spec => KeepsPromise
  <1>1. Spec => []LiveInv
    BY LiveInit, LiveStep, PTL DEF Spec
  <1>2. Init => Promised!Init
    BY DEF Init, Promised!Init
  <1>3. LiveInv /\ [Next]_vars => [Promised!Next]_(Promised!storeVars)
    BY Refines
  <1> QED BY <1>1, <1>2, <1>3, PTL DEF Spec, KeepsPromise, Promised!Spec
=============================================================================
