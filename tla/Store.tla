-------------------------------- MODULE Store --------------------------------
(***************************************************************************)
(* The back ends of the key/value store: MemoryStore, MemcachedStore and   *)
(* RedisStore.  A call is one step where it is one command; hset and hdel  *)
(* of Memcached read the hash, change it and write it back, and hset of    *)
(* Redis sends HEXPIRE after HSET.  HashStore is what they promise.        *)
(*                                                                         *)
(* External: the servers run a command at a time, drop what has expired    *)
(* and, Redis only, a hash without fields.  pymemcache's HashClient does   *)
(* not wait for the reply to set and flush_all (default_noreply), so these *)
(* calls return before they take effect; a connection runs its commands in *)
(* order and a lost one loses those it still carried.  Keys and fields are *)
(* passed one at a time, as all callers do.  Texts are no JSON objects:    *)
(* Memcached takes the text of one for a hash.                             *)
(***************************************************************************)
EXTENDS Naturals, Sequences

CONSTANTS
  Keys, Fields, Texts, Others, NoValue, Clients,
  Used,    \* bound: the calls that the clients make
  MaxLate  \* bound: changes of one client under way to Memcached

ASSUME StoreAssumption ==
  /\ NoValue \notin Texts \cup Others
  /\ MaxLate \in Nat

VARIABLES
  backend,  \* what Store.from_url() chose
  table,    \* what the server holds, or the records of MemoryStore
  life,     \* of each entry: "forever", "timed" or, MemoryStore only, "expired"
  timed,    \* Redis: the fields with a time to live of their own
  mortal,   \* history: keys given a time to live since last set or deleted
  call, answer,
  pc,       \* what a call still has to do: "send", "write" or "expire"
  seen,     \* Memcached: the hash a call read, to write it back: a set of one, or {}
  late      \* Memcached: the changes each connection still carries

vars == <<backend, table, life, timed, mortal, call, answer, pc, seen, late>>
entryVars == <<table, life, timed>>

\* The promise is about what callers see: not the back end, the lives of entries or
\* how far a call has come.
Promised == INSTANCE HashStore WITH
  Keys <- Keys, Fields <- Fields, Texts <- Texts, Others <- Others, NoValue <- NoValue,
  Clients <- Clients, table <- table, mortal <- mortal, call <- call, answer <- answer,
  seen <- seen, late <- late

----------------------------------------------------------------------------
(***************************************************************************)
(* What the calls do with an entry.                                        *)
(***************************************************************************)
\* Seeded fault: what is stored without a time to live gets one.
LifeAlways(ttl) == "timed"

Life(ttl) == IF ttl THEN "timed" ELSE "forever"

\* Entry k becomes e.
Put(k, e, l, fields) ==
  /\ table' = [table EXCEPT ![k] = e]
  /\ life' = [life EXCEPT ![k] = IF e = Promised!Missing THEN "forever" ELSE l]
  /\ timed' = [timed EXCEPT ![k] = fields]

\* Redis drops a hash without fields.
Stored(h) ==
  IF backend = "redis" /\ h = Promised!EmptyHash THEN Promised!Missing
  ELSE Promised!Hash(h)

\* MemoryStore drops an expired record when it reads it.
Found(k) == IF life[k] = "expired" THEN Promised!Missing ELSE table[k]

Dropped(k) == Put(k, Found(k), life[k], timed[k])

\* The call of c returns a.
Answer(c, a) ==
  /\ answer' = [answer EXCEPT ![c] = a]
  /\ call' = [call EXCEPT ![c] = Promised!NoCall]
  /\ pc' = [pc EXCEPT ![c] = "send"]
  /\ seen' = [seen EXCEPT ![c] = {}]

\* The call of c sends a command and waits for the reply, which comes after all that
\* the connection carried before.
Sending(c, ops) == call[c].op \in ops /\ pc[c] = "send" /\ late[c] = <<>>

----------------------------------------------------------------------------
Invoke(c, r) ==
  /\ call[c] = Promised!NoCall /\ r \in Used
  /\ call' = [call EXCEPT ![c] = r]
  /\ answer' = [answer EXCEPT ![c] = Promised!NoAnswer]
  /\ UNCHANGED <<backend, entryVars, mortal, pc, seen, late>>

\* get, hget, hgetall and hkeys.
Read(c) ==
  LET r == call[c] IN
  /\ Sending(c, Promised!Reads)
  /\ Dropped(r.key)
  /\ Answer(c, Promised!Read(r, Found(r.key)))
  /\ UNCHANGED <<backend, mortal, late>>

Set(c) ==
  LET r == call[c] IN
  /\ backend # "memcached" /\ Sending(c, {"set"})
  /\ backend = "redis" => r.value \notin Others
  /\ Put(r.key, Promised!Text(r.value), Life(r.ttl), {})
  /\ mortal' = Promised!Mortal(c, r)
  /\ Answer(c, Promised!Done)
  /\ UNCHANGED <<backend, late>>

\* MemoryStore counts a record that has expired.
Delete(c) ==
  LET r == call[c] IN
  /\ Sending(c, {"delete"})
  /\ Put(r.key, Promised!Missing, "forever", {})
  /\ mortal' = Promised!Mortal(c, r)
  /\ Answer(c, Promised!Count(IF table[r.key] = Promised!Missing THEN 0 ELSE 1))
  /\ UNCHANGED <<backend, late>>

\* All keys of all databases are gone.
Flushed(c) ==
  /\ table' = [k \in Keys |-> Promised!Missing]
  /\ life' = [k \in Keys |-> "forever"]
  /\ timed' = [k \in Keys |-> {}]
  /\ mortal' = {k \in mortal : Promised!Timing(c, k)}

FlushAll(c) ==
  /\ backend # "memcached" /\ Sending(c, {"flushall"})
  /\ Flushed(c)
  /\ Answer(c, Promised!Done)
  /\ UNCHANGED <<backend, late>>

\* A hash is looked for where a text is: TypeError, but hdel of Redis is not wrapped
\* and its ResponseError comes out.
RefuseText(c) ==
  LET r == call[c] IN
  /\ Sending(c, {"hset", "hdel"})
  /\ \/ /\ r.op = "hset" /\ table[r.key].kind = "text"
        /\ backend = "redis" => r.value \notin Others
        /\ Answer(c, Promised!Error)
        /\ UNCHANGED entryVars
     \/ /\ r.op = "hdel" /\ Found(r.key).kind = "text"
        /\ Dropped(r.key)
        /\ Answer(c, IF backend = "redis" THEN Promised!Refused ELSE Promised!Error)
  /\ UNCHANGED <<backend, mortal, late>>

\* redis-py sends no value that is neither text nor number: DataError, whatever the
\* key holds.
RefuseValue(c) ==
  /\ backend = "redis" /\ Sending(c, {"set", "hset"})
  /\ call[c].value \in Others
  /\ Answer(c, Promised!Refused)
  /\ UNCHANGED <<backend, entryVars, mortal, late>>

----------------------------------------------------------------------------
(***************************************************************************)
(* MemoryStore                                                             *)
(***************************************************************************)
\* setdefault(): a record that is there is changed in place, expired or not, and
\* keeps its expiry.
MemoryHSet(c) ==
  LET r == call[c]
      h == Promised!HashOf(table[r.key])
  IN
  /\ backend = "memory" /\ Sending(c, {"hset"})
  /\ table[r.key].kind # "text"
  /\ Put(r.key, Promised!Hash(Promised!WithField(h, r.field, r.value)),
         IF table[r.key] = Promised!Missing THEN Life(r.ttl) ELSE life[r.key], {})
  /\ mortal' = Promised!Mortal(c, r)
  /\ Answer(c, Promised!Added(h, r.field))
  /\ UNCHANGED <<backend, late>>

MemoryHDel(c) ==
  LET r == call[c]
      e == Found(r.key)
      h == Promised!HashOf(e)
  IN
  /\ backend = "memory" /\ Sending(c, {"hdel"})
  /\ e.kind # "text"
  /\ Put(r.key, IF e = Promised!Missing THEN e
                ELSE Promised!Hash(Promised!WithField(h, r.field, NoValue)),
         life[r.key], {})
  /\ Answer(c, Promised!Removed(h, r.field))
  /\ UNCHANGED <<backend, mortal, late>>

----------------------------------------------------------------------------
(***************************************************************************)
(* MemcachedStore                                                          *)
(***************************************************************************)
\* hset and hdel read the hash; hdel of a field that is not there ends here.
MemcachedRead(c) ==
  LET r == call[c]
      h == Promised!HashOf(table[r.key])
  IN
  /\ backend = "memcached" /\ Sending(c, {"hset", "hdel"})
  /\ table[r.key].kind # "text"
  /\ \/ /\ r.op = "hset" \/ h[r.field] # NoValue
        /\ pc' = [pc EXCEPT ![c] = "write"]
        /\ seen' = [seen EXCEPT ![c] = {h}]
        /\ UNCHANGED <<call, answer>>
     \/ /\ r.op = "hdel" /\ h[r.field] = NoValue
        /\ Answer(c, Promised!Count(0))
  /\ UNCHANGED <<backend, entryVars, mortal, late>>

\* The connection carries change w, and the call returns a at once.
NoReply(c, w, a) ==
  /\ Len(late[c]) < MaxLate
  /\ late' = [late EXCEPT ![c] = Append(@, w)]
  /\ Answer(c, a)
  /\ UNCHANGED <<backend, entryVars, mortal>>

\* Seeded fault: the hash is written with the new field only.
MemcachedWriteField(c) ==
  LET r == call[c] IN
  /\ backend = "memcached" /\ pc[c] = "write"
  /\ \E h \in seen[c] :
       \/ /\ r.op = "hset"
          /\ NoReply(c, Promised!Change(r, Promised!Hash(
                          Promised!WithField(Promised!EmptyHash, r.field, r.value)), r.ttl),
                     Promised!Added(h, r.field))
       \/ /\ r.op = "hdel"
          /\ NoReply(c, Promised!Change(r, Promised!Hash(
                          Promised!WithField(h, r.field, NoValue)), FALSE),
                     Promised!Count(1))

\* The hash that was read is written back, changed, over whatever is there by then.
\* The time to live is that of the last write; hdel has none.
MemcachedWrite(c) ==
  LET r == call[c] IN
  /\ backend = "memcached" /\ pc[c] = "write"
  /\ \E h \in seen[c] :
       \/ /\ r.op = "hset"
          /\ NoReply(c, Promised!Change(r, Promised!Hash(
                          Promised!WithField(h, r.field, r.value)), r.ttl),
                     Promised!Added(h, r.field))
       \/ /\ r.op = "hdel"
          /\ NoReply(c, Promised!Change(r, Promised!Hash(
                          Promised!WithField(h, r.field, NoValue)), FALSE),
                     Promised!Count(1))

MemcachedSet(c) ==
  LET r == call[c] IN
  /\ backend = "memcached" /\ r.op = "set"
  /\ NoReply(c, Promised!Change(r, Promised!Text(r.value), r.ttl), Promised!Done)

MemcachedFlushAll(c) ==
  /\ backend = "memcached" /\ call[c].op = "flushall"
  /\ NoReply(c, call[c], Promised!Done)

\* The server comes to the next change of the connection of c.
Land(c) ==
  LET w == Head(late[c]) IN
  /\ late[c] # <<>>
  /\ \/ w.op = "flushall" /\ Flushed(c)
     \/ /\ w.op # "flushall"
        /\ Put(w.key, w.entry, Life(w.ttl), {})
        /\ mortal' = Promised!Mortal(c, w)
  /\ late' = [late EXCEPT ![c] = Tail(@)]
  /\ UNCHANGED <<backend, call, answer, pc, seen>>

----------------------------------------------------------------------------
(***************************************************************************)
(* RedisStore                                                              *)
(***************************************************************************)
\* HSET takes the time to live off the field; with a ttl, HEXPIRE follows.
RedisHSet(c) ==
  LET r == call[c]
      h == Promised!HashOf(table[r.key])
      count == Promised!Added(h, r.field)
  IN
  /\ backend = "redis" /\ Sending(c, {"hset"})
  /\ table[r.key].kind # "text" /\ r.value \notin Others
  /\ Put(r.key, Promised!Hash(Promised!WithField(h, r.field, r.value)), "forever",
         timed[r.key] \ {r.field})
  /\ mortal' = Promised!Mortal(c, r)
  /\ \/ /\ ~r.ttl
        /\ Answer(c, count)
     \/ /\ r.ttl
        /\ answer' = [answer EXCEPT ![c] = count]
        /\ pc' = [pc EXCEPT ![c] = "expire"]
        /\ UNCHANGED <<call, seen>>
  /\ UNCHANGED <<backend, late>>

\* Of a field or a hash that is gone by now HEXPIRE does nothing; of a text it raises
\* TypeError.
RedisHExpire(c) ==
  LET r == call[c]
      held == Promised!FieldsOf(Promised!HashOf(table[r.key]))
  IN
  /\ pc[c] = "expire"
  /\ timed' = [timed EXCEPT ![r.key] = @ \cup ({r.field} \cap held)]
  /\ Answer(c, IF table[r.key].kind = "text" THEN Promised!Error ELSE answer[c])
  /\ UNCHANGED <<backend, table, life, mortal, late>>

RedisHDel(c) ==
  LET r == call[c]
      h == Promised!HashOf(table[r.key])
  IN
  /\ backend = "redis" /\ Sending(c, {"hdel"})
  /\ table[r.key].kind # "text"
  /\ Put(r.key, Stored(Promised!WithField(h, r.field, NoValue)), "forever",
         timed[r.key] \ {r.field})
  /\ Answer(c, Promised!Removed(h, r.field))
  /\ UNCHANGED <<backend, mortal, late>>

----------------------------------------------------------------------------
\* A call of a server raises between two commands: the connection is lost.
Raise(c) ==
  /\ backend # "memory" /\ call[c] # Promised!NoCall
  /\ Answer(c, Promised!Raised)
  /\ late' = [late EXCEPT ![c] = <<>>]
  /\ UNCHANGED <<backend, entryVars, mortal>>

\* A time to live ends.  MemoryStore finds out later, in Found.
Expire(k) ==
  /\ \/ /\ life[k] = "timed" /\ backend = "memory"
        /\ life' = [life EXCEPT ![k] = "expired"]
        /\ UNCHANGED <<table, timed>>
     \/ /\ life[k] = "timed" /\ backend # "memory"
        /\ Put(k, Promised!Missing, "forever", {})
     \/ \E f \in timed[k] :
          Put(k, Stored(Promised!WithField(Promised!HashOf(table[k]), f, NoValue)),
              "forever", timed[k] \ {f})
  /\ UNCHANGED <<backend, mortal, call, answer, pc, seen, late>>

Init ==
  /\ backend \in {"memory", "memcached", "redis"}
  /\ table = [k \in Keys |-> Promised!Missing]
  /\ life = [k \in Keys |-> "forever"]
  /\ timed = [k \in Keys |-> {}]
  /\ mortal = {}
  /\ call = [c \in Clients |-> Promised!NoCall]
  /\ answer = [c \in Clients |-> Promised!NoAnswer]
  /\ pc = [c \in Clients |-> "send"]
  /\ seen = [c \in Clients |-> {}]
  /\ late = [c \in Clients |-> <<>>]

Next ==
  \/ \E c \in Clients :
       \/ \E r \in Promised!Calls : Invoke(c, r)
       \/ Read(c) \/ Set(c) \/ Delete(c) \/ FlushAll(c)
       \/ RefuseText(c) \/ RefuseValue(c)
       \/ MemoryHSet(c) \/ MemoryHDel(c)
       \/ MemcachedRead(c) \/ MemcachedWrite(c)
       \/ MemcachedSet(c) \/ MemcachedFlushAll(c) \/ Land(c)
       \/ RedisHSet(c) \/ RedisHExpire(c) \/ RedisHDel(c)
       \/ Raise(c)
  \/ \E k \in Keys : Expire(k)

Spec == Init /\ [][Next]_vars

----------------------------------------------------------------------------
(***************************************************************************)
(* Properties.                                                             *)
(***************************************************************************)
\* Every back end keeps the promise of Store: each answer is that of one moment, in
\* an order that explains all answers and respects what a client did before,
\* although hset and hdel are several commands, writers of one Memcached hash
\* overwrite each other and their writes may land after the call.
KeepsPromise == Promised!Spec

\* Only what was given a time to live by hset or set can expire.
ExpiryWasAsked ==
  \A k \in Keys : life[k] # "forever" \/ timed[k] # {} => k \in mortal
=============================================================================
