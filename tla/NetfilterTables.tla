--------------------------- MODULE NetfilterTables ---------------------------
(***************************************************************************)
(* The nftables objects of the netfilter service (class NetfilterTables):  *)
(* the chain MAIL, the jumps to it from the base chains of the hooks input *)
(* and forward, the isolation rule, and the SNAT rule of postrouting.      *)
(*                                                                         *)
(* Each nft command is a step of its own, a listing and the command that   *)
(* uses what it showed included: docker, ufw and administrators edit the   *)
(* same kernel tables between any two of them, and the process may be      *)
(* killed there.  One family (ip) is modelled; ip6 is a second,            *)
(* independent copy without the isolation rule.                            *)
(***************************************************************************)
EXTENDS Integers, Sequences, FiniteSets, SequencesExt

CONSTANTS
  Names,       \* names of the chains other programs make in table filter
  Priorities,  \* priorities of base chains
  Targets,     \* the addresses SNAT_TO_SOURCE may name
  MaxChains,   \* bound: chains that come up for the hook input
  MaxForeign   \* bound: edits of other programs

ASSUME TablesAssumption ==
  /\ Priorities \subseteq Int
  /\ "none" \notin Targets /\ "other" \notin Targets
  /\ "" \notin Names /\ "FORWARD" \notin Names
  /\ MaxChains \in Nat /\ MaxForeign \in Nat

Hooks == {"input", "forward"}

VARIABLES
  \* the kernel
  objs,       \* the chains that may hook input, in the order they are listed
  mail,       \* does the chain MAIL exist?
  isolation,  \* number of isolation rules in MAIL
  base,       \* rules of each base chain of table filter: "jump" or "other"
  post,       \* rules of postrouting: "other" or the target of our SNAT rule
  \* the process
  pc,
  chains,     \* self.chains["filter"]: the name of the chain of each hook, or ""
  handle,     \* clear(): the handle of MAIL was found
  todo,       \* rules listed by get_rule_handles() and not yet deleted
  listed,     \* insert_mail_chains(): what its one listing showed
  exiting,    \* clear() runs in before_exit()
  target,     \* SNAT_TO_SOURCE of this process, or NoTarget
  snatTask,   \* has the snat4 task not raised?
  \* other programs
  edits,      \* how many edits they made
  disturbed   \* one of them since the process was launched

kernelVars == <<objs, mail, isolation, base, post>>
launchVars == <<chains, target>>
taskVars == <<handle, todo, listed, exiting, snatTask>>
procVars == <<pc, launchVars, taskVars>>
foreignVars == <<edits, disturbed>>
vars == <<kernelVars, procVars, foreignVars>>

NoTarget == "none"

NotListed == [mail |-> FALSE, jumps |-> {}]

----------------------------------------------------------------------------
(***************************************************************************)
(* init_chains(): one pass over the listing that keeps the chain with the  *)
(* lowest priority so far.  A chain that is no base chain has no priority  *)
(* and is skipped.                                                         *)
(***************************************************************************)
NoChain == [name |-> "", based |-> FALSE, prio |-> 0]

Chains == [name : Names, based : BOOLEAN, prio : Priorities]

\* Seeded fault: the last of two chains with the same priority wins.
LowerOrEqual(best, chain) ==
  IF chain.based /\ (~best.based \/ chain.prio <= best.prio)
  THEN chain ELSE best

Lower(best, chain) ==
  IF chain.based /\ (~best.based \/ chain.prio < best.prio)
  THEN chain ELSE best

init_chains(list) ==
  LET best[i \in 0..Len(list)] ==
        IF i = 0 THEN NoChain ELSE Lower(best[i - 1], list[i])
  IN  best[Len(list)]

----------------------------------------------------------------------------
(***************************************************************************)
(* Helpers                                                                 *)
(***************************************************************************)
\* How many rules get_rule_handles() finds.  A handle is not used twice and only
\* this process makes jumps, so their number stands for the handles.
NumJumps(rules) == Cardinality({i \in DOMAIN rules : rules[i] = "jump"})

Jumps(name) == "jump" \in ToSet(base[name])

\* The kernel does not delete a chain that a rule still jumps to.
Busy == \E name \in DOMAIN base : Jumps(name)

\* init_chains() found a chain for hook h; the code skips the hook otherwise.
Found(h) == chains[h] # ""

Goto(from, to) == pc = from /\ pc' = to

\* An nft error or a signal that cannot be caught: the process is gone and
\* the kernel stays as it is.
Abort ==
  /\ pc' = "down"
  /\ handle' = FALSE /\ todo' = 0 /\ listed' = NotListed
  /\ exiting' = FALSE /\ snatTask' = FALSE
  /\ UNCHANGED <<kernelVars, launchVars>>
----------------------------------------------------------------------------
(***************************************************************************)
(* The process: launch, clear(), insert_mail_chains(), and                 *)
(* create_isolation_rule(), one command per step.                          *)
(***************************************************************************)
\* from_env() chooses the base chains; there is a snat4 task only if
\* SNAT_TO_SOURCE is an IPv4 address.
Launch ==
  /\ pc \in {"down", "stopped"} /\ pc' = "handle"
  /\ target' \in Targets \cup {NoTarget}
  /\ snatTask' = (target' \in Targets)
  /\ chains' = [input |-> init_chains(objs).name, forward |-> "FORWARD"]
  /\ disturbed' = FALSE
  /\ UNCHANGED <<kernelVars, handle, todo, listed, exiting, edits>>

GetChainHandle ==
  /\ Goto("handle", IF mail THEN "flush" ELSE "list_input")
  /\ handle' = mail
  /\ UNCHANGED <<kernelVars, launchVars, todo, listed, exiting, snatTask, foreignVars>>

Flush ==
  /\ Goto("flush", "list_input")
  /\ mail
  /\ isolation' = 0
  /\ UNCHANGED <<objs, mail, base, post, launchVars, taskVars, foreignVars>>

ListJumps(h, from, to) ==
  /\ Goto(from, to)
  /\ todo' = IF Found(h) THEN NumJumps(base[chains[h]]) ELSE 0
  /\ UNCHANGED <<kernelVars, launchVars, handle, listed, exiting, snatTask, foreignVars>>

\* The listed rules are deleted one by one, each by its handle.
Unjump(h, from, to) ==
  /\ IF todo = 0
     THEN Goto(from, to) /\ UNCHANGED <<base, todo>>
     ELSE /\ Goto(from, from)
          /\ Jumps(chains[h])
          /\ base' = [base EXCEPT ![chains[h]] = RemoveFirst(@, "jump")]
          /\ todo' = todo - 1
  /\ UNCHANGED <<objs, mail, isolation, post, launchVars, handle, listed, exiting, snatTask,
                 foreignVars>>

\* Seeded fault: clear() forgets the chain itself.
KeepChain ==
  /\ pc = "delete_chain"
  /\ pc' = IF exiting THEN "stopped" ELSE "list"
  /\ handle' = FALSE
  /\ exiting' = FALSE
  /\ snatTask' = (snatTask /\ ~exiting)
  /\ UNCHANGED <<kernelVars, launchVars, todo, listed, foreignVars>>

\* The chain is deleted by its handle, if it is still there and not in use.
DeleteChain ==
  /\ pc = "delete_chain"
  /\ handle => mail /\ ~Busy
  /\ pc' = IF exiting THEN "stopped" ELSE "list"
  /\ mail' = IF handle THEN FALSE ELSE mail
  /\ handle' = FALSE
  /\ exiting' = FALSE
  /\ snatTask' = (snatTask /\ ~exiting)
  /\ UNCHANGED <<objs, isolation, base, post, launchVars, todo, listed, foreignVars>>

List ==
  /\ Goto("list", "add_chain")
  /\ listed' = [mail |-> mail, jumps |-> {h \in Hooks : Found(h) /\ Jumps(chains[h])}]
  /\ UNCHANGED <<kernelVars, launchVars, handle, todo, exiting, snatTask, foreignVars>>

AddChain ==
  /\ Goto("add_chain", "jump_input")
  /\ mail' = (mail \/ ~listed.mail)
  /\ UNCHANGED <<objs, isolation, base, post, launchVars, taskVars, foreignVars>>

\* Seeded fault: both jumps go to the base chain of the hook input.
InputJump(h, from, to) ==
  /\ Goto(from, to)
  /\ IF h \in listed.jumps \/ ~Found(h) THEN UNCHANGED base
     ELSE mail /\ base' = [base EXCEPT ![chains["input"]] = <<"jump">> \o @]
  /\ UNCHANGED <<objs, mail, isolation, post, launchVars, taskVars, foreignVars>>

\* Seeded fault: the jump is appended to the base chain.
AppendJump(h, from, to) ==
  /\ Goto(from, to)
  /\ IF h \in listed.jumps \/ ~Found(h) THEN UNCHANGED base
     ELSE mail /\ base' = [base EXCEPT ![chains[h]] = Append(@, "jump")]
  /\ UNCHANGED <<objs, mail, isolation, post, launchVars, taskVars, foreignVars>>

InsertJump(h, from, to) ==
  /\ Goto(from, to)
  /\ IF h \in listed.jumps \/ ~Found(h) THEN UNCHANGED base
     ELSE mail /\ base' = [base EXCEPT ![chains[h]] = <<"jump">> \o @]
  /\ UNCHANGED <<objs, mail, isolation, post, launchVars, taskVars, foreignVars>>

ListIsolation ==
  /\ Goto("list_isolation", "isolate")
  /\ mail
  /\ todo' = isolation
  /\ UNCHANGED <<kernelVars, launchVars, handle, listed, exiting, snatTask, foreignVars>>

\* The listed isolation rules are deleted before the new one is inserted.
Isolate ==
  /\ mail
  /\ IF todo > 0
     THEN Goto("isolate", "isolate") /\ isolation' = isolation - 1 /\ todo' = todo - 1
     ELSE Goto("isolate", "run") /\ isolation' = isolation + 1 /\ UNCHANGED todo
  /\ UNCHANGED <<objs, mail, base, post, launchVars, handle, listed, exiting, snatTask,
                 foreignVars>>

\* Where the jump of each hook is deleted, and where it is inserted.
UnjumpLabel == [input |-> "unjump_input", forward |-> "unjump_forward"]
JumpLabel == [input |-> "jump_input", forward |-> "jump_forward"]

\* nft refuses a command about a chain or a rule that is gone, and the deletion
\* of a chain in use: the exception ends _main.
CommandFails ==
  /\ \/ pc \in {"flush", "list_isolation", "isolate"} /\ ~mail
     \/ \E h \in Hooks : pc = UnjumpLabel[h] /\ todo > 0 /\ ~Jumps(chains[h])
     \/ pc = "delete_chain" /\ handle /\ (~mail \/ Busy)
     \/ \E h \in Hooks : pc = JumpLabel[h] /\ Found(h) /\ h \notin listed.jumps /\ ~mail
  /\ Abort
  /\ UNCHANGED foreignVars

(***************************************************************************)
(* The running service: check_chain_order(), snat(), SIGTERM.              *)
(***************************************************************************)
\* check(): the number of rules before the first with our comment, or -1.
Position(name) ==
  IF Jumps(name) THEN SelectInSeq(base[name], LAMBDA r : r = "jump") - 1 ELSE -1

\* Seeded fault: a missing jump is taken for a chain that does not exist.
CheckPositionOnly ==
  /\ pc = "run"
  /\ \E h \in Hooks : Found(h) /\ Position(chains[h]) > 0
  /\ Abort
  /\ UNCHANGED foreignVars

\* The two listings are in one step: neither changes anything, and what the
\* first showed is only forgotten in between.
CheckChainOrder ==
  /\ pc = "run"
  /\ \E h \in Hooks : Found(h) /\ Position(chains[h]) # 0
  /\ Abort
  /\ UNCHANGED foreignVars

IsOurs(rule) == rule # "other"

\* A rule of ours is listed: snat() reads its target from expr[3], where its own
\* insert put the counter: KeyError, and the task, which has no handler, is
\* gone.  What the code has below that line, moving a rule that is not first or
\* not right, is not reached.
SnatList ==
  /\ snatTask
  /\ IF \E i \in DOMAIN post : IsOurs(post[i])
     THEN Goto("run", "run") /\ snatTask' = FALSE
     ELSE Goto("run", "snat") /\ UNCHANGED snatTask
  /\ UNCHANGED <<kernelVars, launchVars, handle, todo, listed, exiting, foreignVars>>

\* No rule of ours was listed.  Between the two commands there is no await: no
\* other task of the service runs, other programs do.
SnatInsert ==
  /\ Goto("snat", "run")
  /\ post' = <<target>> \o post
  /\ UNCHANGED <<objs, mail, isolation, base, launchVars, taskVars, foreignVars>>

Snat == SnatList \/ SnatInsert

Sigterm ==
  /\ Goto("run", "handle")
  /\ exiting' = TRUE
  /\ UNCHANGED <<kernelVars, launchVars, handle, todo, listed, snatTask, foreignVars>>

Kill ==
  /\ pc \notin {"down", "stopped"}
  /\ edits < MaxForeign
  /\ edits' = edits + 1
  /\ Abort
  /\ UNCHANGED disturbed

(***************************************************************************)
(* Other programs (external): rules inserted in front of ours, the rules   *)
(* flushed, a chain created.                                               *)
(***************************************************************************)
Foreign ==
  /\ edits < MaxForeign
  /\ edits' = edits + 1
  /\ \/ /\ \E name \in DOMAIN base : base' = [base EXCEPT ![name] = <<"other">> \o @]
        /\ disturbed' = TRUE
        /\ UNCHANGED <<objs, mail, isolation, post>>
     \/ /\ post' = <<"other">> \o post
        /\ UNCHANGED <<objs, mail, isolation, base, disturbed>>
     \/ /\ mail' = FALSE /\ isolation' = 0
        /\ base' = [name \in DOMAIN base |-> <<>>] /\ post' = <<>>
        /\ disturbed' = TRUE
        /\ UNCHANGED objs
     \/ /\ Len(objs) < MaxChains
        /\ \E c \in Chains :
             /\ \A i \in DOMAIN objs : objs[i].name # c.name
             /\ objs' = Append(objs, c)
        /\ UNCHANGED <<mail, isolation, base, post, disturbed>>
  /\ UNCHANGED procVars
----------------------------------------------------------------------------
Init ==
  /\ objs \in {<<>>} \cup {<<c>> : c \in Chains} /\ mail = FALSE /\ isolation = 0
  /\ base = [name \in Names \cup {"FORWARD"} |-> <<>>] /\ post = <<>>
  /\ pc = "down" /\ chains = [h \in Hooks |-> ""]
  /\ handle = FALSE /\ todo = 0 /\ listed = NotListed /\ exiting = FALSE
  /\ target = NoTarget /\ snatTask = FALSE
  /\ edits = 0 /\ disturbed = FALSE

Setup ==
  \/ Launch \/ GetChainHandle \/ Flush
  \/ ListJumps("input", "list_input", "unjump_input")
  \/ Unjump("input", "unjump_input", "list_forward")
  \/ ListJumps("forward", "list_forward", "unjump_forward")
  \/ Unjump("forward", "unjump_forward", "delete_chain")
  \/ DeleteChain \/ List \/ AddChain
  \/ InsertJump("input", "jump_input", "jump_forward")
  \/ InsertJump("forward", "jump_forward", "list_isolation")
  \/ ListIsolation \/ Isolate \/ CommandFails

Next == Setup \/ CheckChainOrder \/ Snat \/ Sigterm \/ Kill \/ Foreign

Spec == Init /\ [][Next]_vars

(***************************************************************************)
(* Setup runs to its end, the tasks go round, the container is restarted.  *)
(***************************************************************************)
FairSpec ==
  Spec /\ WF_vars(Setup) /\ WF_vars(CheckChainOrder) /\ WF_vars(Snat)
----------------------------------------------------------------------------
(***************************************************************************)
(* Properties                                                              *)
(***************************************************************************)
\* Whatever was killed, flushed or inserted between two commands, no base chain
\* ever holds two jumps to MAIL: the service never piles up its own rules.
OneJump ==
  \A name \in DOMAIN base :
    \A i, j \in DOMAIN base[name] : base[name][i] = "jump" /\ base[name][j] = "jump" => i = j

Ordered ==
  /\ Found("forward")
  /\ \A h \in Hooks : Found(h) => Position(chains[h]) = 0

\* When the tasks start and no other program interfered since the launch, the
\* kernel is what _main set out to build: MAIL with one isolation rule, and a
\* jump in front of each base chain that init_chains() found.
SetUp ==
  pc = "run" /\ ~disturbed => mail /\ isolation = 1 /\ Ordered

\* init_chains() returns the first chain of those with the lowest priority, as
\* tests/unit/test_netfilter.py:75 asks ("should set names with lowest priority").
LowestPriority ==
  LET based == {i \in DOMAIN objs : objs[i].based}
  IN  init_chains(objs) =
        IF based = {} THEN NoChain
        ELSE objs[CHOOSE i \in based : \A j \in based :
                    \/ objs[i].prio < objs[j].prio
                    \/ objs[i].prio = objs[j].prio /\ i <= j]

\* A stop that ends without an error leaves nothing of the service in table
\* filter: neither MAIL nor a jump to it, not even one in a chain that is not
\* the one of its hook any more, whatever others did between two commands.
CleanStop == pc = "stopped" => ~mail /\ isolation = 0 /\ ~Busy

\* A jump is left in a chain that is not, or no longer, the one of its hook.
Stranded ==
  \E name \in DOMAIN base : Jumps(name) /\ name \notin {chains[h] : h \in Hooks}

\* Liveness.  A jump that was displaced or flushed away is put back in front,
\* by as many restarts as it takes, unless a jump is stranded.
OrderRestored == ~Ordered ~> Ordered \/ Stranded
=============================================================================
