------------------------------ MODULE HashStore ------------------------------
(***************************************************************************)
(* What the interface Store promises its callers, whichever back end it    *)
(* has: a map from keys to texts or hashes.  Every answer is that of one   *)
(* moment between the invocation and the return of the call, after all     *)
(* that the client did before.  An update may take effect later: hset and  *)
(* hdel change the hash they saw at that moment, and the change may land   *)
(* when the call has returned, over what others wrote since; the changes   *)
(* of one client land in their order.                                      *)
(*                                                                         *)
(* Three more things are left open, because the back ends differ in them:  *)
(* a hash that loses its last field may stay, empty, or go; a key that was *)
(* given a time to live may lose fields or go at any time; and what is     *)
(* refused, a value that is no text or hdel of a text, may raise an error  *)
(* of the back end's own.                                                  *)
(***************************************************************************)
EXTENDS Sequences

CONSTANTS
  Keys,
  Fields,
  Texts,    \* values that are text
  Others,   \* the text of values that are not, such as "True"
  NoValue,
  Clients

VARIABLES
  table,   \* key -> entry
  mortal,  \* keys given a time to live since they were last set or deleted
  call,    \* the call of each client, or NoCall
  answer,  \* of its call once that took effect, of the last one between calls
  seen,    \* the hash its hset or hdel will change, if it has looked: a set of one
  late     \* its changes that have returned and not landed

storeVars == <<table, mortal, call, answer, seen, late>>

Values == Texts \cup Others
Hashes == [Fields -> Values \cup {NoValue}]
EmptyHash == [f \in Fields |-> NoValue]

Missing == [kind |-> "missing"]
Text(v) == [kind |-> "text", value |-> v]
Hash(h) == [kind |-> "hash", fields |-> h]
Entries == {Missing} \cup {Text(v) : v \in Values} \cup {Hash(h) : h \in Hashes}

\* A call carries what its operation takes.
Calls ==
  [op : {"get", "hgetall", "hkeys", "delete"}, key : Keys]
    \cup [op : {"set"}, key : Keys, value : Values, ttl : BOOLEAN]
    \cup [op : {"hget", "hdel"}, key : Keys, field : Fields]
    \cup [op : {"hset"}, key : Keys, field : Fields, value : Values, ttl : BOOLEAN]
    \cup [op : {"flushall"}]

NoCall == [op |-> "none"]

\* A change that is to land.
Changes ==
  [op : {"set", "hset"}, key : Keys, entry : Entries, ttl : BOOLEAN]
    \cup [op : {"hdel"}, key : Keys, entry : Entries, ttl : {FALSE}]
    \cup [op : {"flushall"}]

Change(r, e, ttl) == [op |-> r.op, key |-> r.key, entry |-> e, ttl |-> ttl]

\* Answers are sets of pairs: nothing, one value, a number, or the pairs of a hash.
NoAnswer == {<<"", "pending">>}
Error == {<<"", "error">>}      \* TypeError: the key holds the other kind
Refused == {<<"", "refused">>}  \* an error of the back end's own
Raised == {<<"", "raised">>}    \* the connection was lost
Done == {<<"", "done">>}
Count(n) == {<<"count", IF n = 0 THEN "0" ELSE "1">>}
ValueOf(v) == IF v = NoValue THEN {} ELSE {<<"value", v>>}
FieldsOf(h) == {f \in Fields : h[f] # NoValue}
PairsOf(h) == {<<f, h[f]>> : f \in FieldsOf(h)}
NamesOf(h) == {<<"field", f>> : f \in FieldsOf(h)}

HashOf(e) == IF e.kind = "hash" THEN e.fields ELSE EmptyHash

\* What a read returns.
Read(r, e) ==
  CASE r.op = "get" ->
         IF e.kind = "hash" THEN Error
         ELSE IF e.kind = "text" THEN ValueOf(e.value) ELSE {}
    [] r.op # "get" /\ e.kind = "text" -> Error
    [] r.op = "hget" /\ e.kind # "text" -> ValueOf(HashOf(e)[r.field])
    [] r.op = "hgetall" /\ e.kind # "text" -> PairsOf(HashOf(e))
    [] r.op = "hkeys" /\ e.kind # "text" -> NamesOf(HashOf(e))

Reads == {"get", "hget", "hgetall", "hkeys"}

\* What hset and hdel make of a hash, and what they return.
WithField(h, f, v) == [h EXCEPT ![f] = v]
Added(h, f) == Count(IF h[f] = NoValue THEN 1 ELSE 0)
Removed(h, f) == Count(IF h[f] = NoValue THEN 0 ELSE 1)

\* How a call that finds entry e may be refused.
Refusals(r, e) ==
  (IF r.op \in {"set", "hset"} /\ r.value \in Others THEN {Refused} ELSE {})
    \cup (IF r.op \in {"hset", "hdel"} /\ e.kind = "text" THEN {Error} ELSE {})
    \cup (IF r.op = "hdel" /\ e.kind = "text" THEN {Refused} ELSE {})

\* The outcomes <<entry, answer>> of a call on one key that finds entry e and is not
\* refused.
Outcomes(r, e) ==
  CASE r.op \in Reads -> {<<e, Read(r, e)>>}
    [] r.op = "set" -> {<<Text(r.value), Done>>}
    [] r.op = "delete" -> {<<Missing, Count(IF e = Missing THEN 0 ELSE 1)>>}
    [] r.op = "hset" ->
         LET h == HashOf(e) IN
         IF e.kind = "text" THEN {}
         ELSE {<<Hash(WithField(h, r.field, r.value)), Added(h, r.field)>>}
    [] r.op = "hdel" ->
         LET h == HashOf(e)
             left == WithField(h, r.field, NoValue)
         IN IF e.kind = "text" THEN {}
            ELSE IF h[r.field] = NoValue THEN {<<e, Count(0)>>}
            ELSE {<<Hash(left), Count(1)>>}
                   \cup (IF left = EmptyHash THEN {<<Missing, Count(1)>>} ELSE {})

\* What may be left of an entry whose time to live is running.
Survivors(e) ==
  {e, Missing}
    \cup (IF e.kind # "hash" THEN {}
          ELSE {Hash([f \in Fields |-> IF f \in S THEN e.fields[f] ELSE NoValue]) :
                  S \in SUBSET FieldsOf(e.fields)})

----------------------------------------------------------------------------
Invoke(c, r) ==
  /\ call[c] = NoCall
  /\ call' = [call EXCEPT ![c] = r]
  /\ answer' = [answer EXCEPT ![c] = NoAnswer]
  /\ UNCHANGED <<table, mortal, seen, late>>

\* The call of c has its answer, and may return with it at once.
Answered(c, a) ==
  /\ call[c] # NoCall /\ answer[c] = NoAnswer
  /\ answer' = [answer EXCEPT ![c] = a]
  /\ \/ UNCHANGED call
     \/ call' = [call EXCEPT ![c] = NoCall]

\* All that c did before has landed, and its call has not looked yet.
Ready(c) == seen[c] = {} /\ late[c] = <<>>

\* Is a call of another client under way that gives k a time to live?  It may do so
\* after k was deleted or set again.
Timing(c, k) ==
  \E d \in Clients \ {c} : call[d].op \in {"set", "hset"} /\ call[d].ttl /\ call[d].key = k

Mortal(c, r) ==
  CASE r.op \in {"set", "hset"} /\ r.ttl -> mortal \cup {r.key}
    [] r.op = "delete" \/ (r.op = "set" /\ ~r.ttl) ->
         {k \in mortal : k # r.key \/ Timing(c, k)}
    [] OTHER -> mortal

\* What a call may find under key k.
Findable(k) == IF k \in mortal THEN Survivors(table[k]) ELSE {table[k]}

TakeEffect(c) ==
  LET r == call[c] IN
  /\ r.op \notin {"none", "flushall"}
  /\ Ready(c)
  /\ \E e \in Findable(r.key) :
       \/ \E o \in Outcomes(r, e) :
            /\ table' = [table EXCEPT ![r.key] = o[1]]
            /\ mortal' = Mortal(c, r)
            /\ Answered(c, o[2])
       \/ \E a \in Refusals(r, e) :
            /\ table' = [table EXCEPT ![r.key] = e]
            /\ UNCHANGED mortal
            /\ Answered(c, a)
  /\ UNCHANGED <<seen, late>>

Flushed(c) ==
  /\ table' = [k \in Keys |-> Missing]
  /\ mortal' = {k \in mortal : Timing(c, k)}

FlushAll(c) ==
  /\ call[c].op = "flushall"
  /\ Ready(c)
  /\ Flushed(c)
  /\ Answered(c, Done)
  /\ UNCHANGED <<seen, late>>

Look(c) ==
  LET r == call[c] IN
  /\ r.op \in {"hset", "hdel"} /\ answer[c] = NoAnswer
  /\ Ready(c)
  /\ \E e \in Findable(r.key) :
       /\ e.kind # "text"
       /\ r.op = "hdel" => HashOf(e)[r.field] # NoValue
       /\ seen' = [seen EXCEPT ![c] = {HashOf(e)}]
  /\ UNCHANGED <<table, mortal, call, answer, late>>

\* The change w is to land, the call returns a.
Leaves(c, w, a) ==
  /\ Answered(c, a)
  /\ late' = [late EXCEPT ![c] = Append(@, w)]
  /\ seen' = [seen EXCEPT ![c] = {}]
  /\ UNCHANGED <<table, mortal>>

Leave(c) ==
  LET r == call[c] IN
  \/ r.op = "set" /\ Leaves(c, Change(r, Text(r.value), r.ttl), Done)
  \/ r.op = "flushall" /\ Leaves(c, r, Done)
  \/ \E h \in seen[c] :
       \/ /\ r.op = "hset"
          /\ Leaves(c, Change(r, Hash(WithField(h, r.field, r.value)), r.ttl),
                    Added(h, r.field))
       \/ /\ r.op = "hdel"
          /\ Leaves(c, Change(r, Hash(WithField(h, r.field, NoValue)), FALSE), Count(1))

Land(c) ==
  LET w == Head(late[c]) IN
  /\ late[c] # <<>>
  /\ \/ w.op = "flushall" /\ Flushed(c)
     \/ /\ w.op # "flushall"
        /\ table' = [table EXCEPT ![w.key] = w.entry]
        /\ mortal' = Mortal(c, w)
  /\ late' = [late EXCEPT ![c] = Tail(@)]
  /\ UNCHANGED <<call, answer, seen>>

Return(c) ==
  /\ call[c] # NoCall /\ answer[c] # NoAnswer
  /\ call' = [call EXCEPT ![c] = NoCall]
  /\ UNCHANGED <<table, mortal, answer, seen, late>>

\* A call that raises may have taken effect or not; what was to land may be lost.
\* To give a hash a time to live may turn out to be wrong after it was changed.
Raise(c) ==
  /\ call[c] # NoCall
  /\ call' = [call EXCEPT ![c] = NoCall]
  /\ \/ answer' = [answer EXCEPT ![c] = Raised]
     \/ /\ answer[c] # NoAnswer /\ call[c].op = "hset" /\ call[c].ttl
        /\ answer' = [answer EXCEPT ![c] = Error]
  /\ seen' = [seen EXCEPT ![c] = {}]
  /\ late' = [late EXCEPT ![c] = <<>>]
  /\ UNCHANGED <<table, mortal>>

Expire(k) ==
  /\ k \in mortal
  /\ \E e \in Survivors(table[k]) : table' = [table EXCEPT ![k] = e]
  /\ UNCHANGED <<mortal, call, answer, seen, late>>

Init ==
  /\ table = [k \in Keys |-> Missing]
  /\ mortal = {}
  /\ call = [c \in Clients |-> NoCall]
  /\ answer = [c \in Clients |-> NoAnswer]
  /\ seen = [c \in Clients |-> {}]
  /\ late = [c \in Clients |-> <<>>]

Next ==
  \/ \E c \in Clients :
       \/ \E r \in Calls : Invoke(c, r)
       \/ TakeEffect(c)
       \/ FlushAll(c)
       \/ Look(c)
       \/ Leave(c)
       \/ Land(c)
       \/ Return(c)
       \/ Raise(c)
  \/ \E k \in Keys : Expire(k)

Spec == Init /\ [][Next]_storeVars
=============================================================================
