-------------------------------- MODULE Dmarc --------------------------------
(***************************************************************************)
(* The DMARC processor: main() polls a mailbox over IMAP, stores the       *)
(* aggregate reports it finds in tables dmarc_report and dmarc_record and  *)
(* counts what it stored in Prometheus counters, which live in memory.     *)
(*                                                                         *)
(* One session serves all messages of a round.  External (SQLAlchemy): a   *)
(* flush or a commit that raises leaves the session refusing every further *)
(* statement until rollback(), which only the duplicate branch calls.      *)
(* External (IMAP): FETCH RFC822 itself sets \Seen, so the messages of the *)
(* next round are those never fetched.  The container is restarted always. *)
(* A round that cannot connect, log in or search changes nothing.          *)
(***************************************************************************)
EXTENDS Integers, Sequences, FiniteSets, SequencesExt

CONSTANTS
  Messages,   \* the messages other providers send
  Reports,    \* the reports in them
  IdOf,       \* IdOf[r]: its report_id, unique in dmarc_report
  Records,    \* Records[r]: how many records it has
  Parts,      \* Parts[m]: the attachments, reports or one of the three below
  MaxFaults   \* bound: errors of IMAP or of the database, and crashes

NoXml == "no xml"    \* nothing to extract: a bad archive, or not a report
Torn == "torn"       \* an archive whose extraction raises
Garbled == "garbled" \* XML that parse_dmarc_xml() raises on

ASSUME DmarcAssumption ==
  /\ DOMAIN IdOf = Reports
  /\ Records \in [Reports -> Nat]
  /\ Parts \in [Messages -> Seq(Reports \cup {NoXml, Torn, Garbled})]
  /\ {NoXml, Torn, Garbled} \cap Reports = {}
  /\ MaxFaults \in Nat

VARIABLES
  inbox,    \* the messages delivered, in the order of their numbers
  seen,     \* those flagged \Seen
  db,       \* committed rows: <<r, 0>> of dmarc_report, <<r, i>> of dmarc_record
  pending,  \* rows of the open transaction
  session,  \* "ok", or "failed" until it is closed
  pc,       \* what the processor does next
  queue,    \* num_list from the message in hand on
  rest,     \* xml_contents not processed yet
  counted,  \* counted[r]: times that dmarc_messages_total counted report r
  failed,   \* dmarc_reports_failed
  read,     \* messages this process fetched
  faults    \* errors and crashes so far

metrics == <<counted, failed>>
vars == <<inbox, seen, db, pending, session, pc, queue, rest, metrics, read, faults>>

Rows(r) == {<<r, i>> : i \in 0..Records[r]}

\* The unique index on report_id.
Duplicate(r) == \E row \in db : row[2] = 0 /\ IdOf[row[1]] = IdOf[r]

\* The elements of s that are in S, in their order: SelectSeq as a recursive
\* function, which the proofs can unfold.
Selected(s, S) ==
  LET upTo[i \in 0..Len(s)] ==
        IF i = 0 THEN <<>>
        ELSE IF s[i] \in S THEN Append(upTo[i - 1], s[i]) ELSE upTo[i - 1]
  IN  upTo[Len(s)]

\* extract_xml_from_message(): what cannot be a report is passed over.
ExtractXml(m) == Selected(Parts[m], Reports \cup {Torn, Garbled})

Fault == faults < MaxFaults /\ faults' = faults + 1

----------------------------------------------------------------------------
\* Another provider sends a message.
Deliver(m) ==
  /\ m \notin ToSet(inbox)
  /\ inbox' = Append(inbox, m)
  /\ UNCHANGED <<seen, db, pending, session, pc, queue, rest, metrics, read, faults>>

Poll ==
  /\ pc = "idle"
  /\ queue' = Selected(inbox, Messages \ seen)
  /\ queue' # <<>>
  /\ pc' = "fetch"
  /\ UNCHANGED <<inbox, seen, db, pending, session, rest, metrics, read, faults>>

\* The round is over: the session is closed.
Close ==
  /\ pc = "fetch" /\ queue = <<>>
  /\ pc' = "idle" /\ session' = "ok"
  /\ UNCHANGED <<inbox, seen, db, pending, queue, rest, metrics, read, faults>>

Following == pc' = "fetch" /\ queue' = Tail(queue) /\ rest' = <<>>

\* The loop of fetch_and_process() catches what a message raises.
Raise == Following /\ failed' = failed + 1 /\ UNCHANGED counted

\* Seeded fault: a torn archive is noticed before the message is read.
FetchSkipsTorn ==
  /\ pc = "fetch" /\ queue # <<>>
  /\ \/ /\ Torn \in ToSet(Parts[Head(queue)])
        /\ Following
        /\ UNCHANGED <<seen, read>>
     \/ /\ Torn \notin ToSet(Parts[Head(queue)])
        /\ seen' = seen \cup {Head(queue)} /\ read' = read \cup {Head(queue)}
        /\ pc' = "xml" /\ rest' = ExtractXml(Head(queue))
        /\ UNCHANGED queue
  /\ UNCHANGED <<inbox, db, pending, session, metrics, faults>>

Fetch ==
  /\ pc = "fetch" /\ queue # <<>>
  /\ seen' = seen \cup {Head(queue)}
  /\ read' = read \cup {Head(queue)}
  /\ \/ /\ Torn \in ToSet(Parts[Head(queue)])
        /\ Raise
     \/ /\ Torn \notin ToSet(Parts[Head(queue)])
        /\ pc' = "xml" /\ rest' = ExtractXml(Head(queue))
        /\ UNCHANGED <<queue, metrics>>
  /\ UNCHANGED <<inbox, db, pending, session, faults>>

\* The answer is lost, perhaps after the server set the flag.
FetchFails ==
  /\ pc = "fetch" /\ queue # <<>>
  /\ Fault
  /\ Raise
  /\ \/ UNCHANGED <<seen, read>>
     \/ seen' = seen \cup {Head(queue)} /\ read' = read \cup {Head(queue)}
  /\ UNCHANGED <<inbox, db, pending, session>>

----------------------------------------------------------------------------
\* The next XML document, parsed to report r.
Document(r) == pc = "xml" /\ rest # <<>> /\ Head(rest) = r

ParseFails ==
  /\ Document(Garbled)
  /\ Raise
  /\ UNCHANGED <<inbox, seen, db, pending, session, read, faults>>

\* Seeded fault: the row is committed by itself.
FlushCommitted(r) ==
  /\ Document(r)
  /\ session = "ok" /\ ~Duplicate(r)
  /\ db' = db \cup {<<r, 0>>} /\ pending' = Rows(r)
  /\ pc' = "commit"
  /\ UNCHANGED <<inbox, seen, session, queue, rest, metrics, read, faults>>

\* store_report() up to the commit: the flush inserts the row of the report, the
\* records are added to the session.
Flush(r) ==
  /\ Document(r)
  /\ session = "ok" /\ ~Duplicate(r)
  /\ pending' = Rows(r)
  /\ pc' = "commit"
  /\ UNCHANGED <<inbox, seen, db, session, queue, rest, metrics, read, faults>>

\* Seeded fault: a duplicate counts as stored.
DuplicateCounted(r) ==
  /\ Document(r)
  /\ session = "ok" /\ Duplicate(r)
  /\ pc' = "count"
  /\ UNCHANGED <<inbox, seen, db, pending, session, queue, rest, metrics, read, faults>>

\* IntegrityError: rollback() and the next document.
FlushDuplicate(r) ==
  /\ Document(r)
  /\ session = "ok" /\ Duplicate(r)
  /\ rest' = Tail(rest)
  /\ UNCHANGED <<inbox, seen, db, pending, session, pc, queue, metrics, read, faults>>

\* Seeded fault: every error is taken for a duplicate.
FlushFailsSkipped(r) ==
  /\ Document(r)
  /\ session = "ok"
  /\ Fault
  /\ rest' = Tail(rest)
  /\ UNCHANGED <<inbox, seen, db, pending, session, pc, queue, metrics, read>>

\* Any other error, and the session that refuses because of an earlier one.
FlushFails(r) ==
  /\ Document(r)
  /\ IF session = "ok" THEN Fault ELSE UNCHANGED faults
  /\ session' = "failed"
  /\ Raise
  /\ UNCHANGED <<inbox, seen, db, pending, read>>

Commit ==
  /\ pc = "commit"
  /\ db' = db \cup pending /\ pending' = {}
  /\ pc' = "count"
  /\ UNCHANGED <<inbox, seen, session, queue, rest, metrics, read, faults>>

\* The records are refused, or COMMIT is, or only its answer is lost.
CommitFails ==
  /\ pc = "commit"
  /\ Fault
  /\ db' \in {db, db \cup pending} /\ pending' = {}
  /\ session' = "failed"
  /\ Raise
  /\ UNCHANGED <<inbox, seen, read>>

UpdateMetrics ==
  /\ pc = "count"
  /\ counted' = [counted EXCEPT ![Head(rest)] = @ + 1]
  /\ rest' = Tail(rest) /\ pc' = "xml"
  /\ UNCHANGED <<inbox, seen, db, pending, session, queue, failed, read, faults>>

\* STORE +FLAGS \Seen after the last document.
Flag ==
  /\ pc = "xml" /\ rest = <<>>
  /\ seen' = seen \cup {Head(queue)}
  /\ Following
  /\ UNCHANGED <<inbox, db, pending, session, metrics, read, faults>>

FlagFails ==
  /\ pc = "xml" /\ rest = <<>>
  /\ Fault
  /\ Raise
  /\ UNCHANGED <<inbox, seen, db, pending, session, read>>

----------------------------------------------------------------------------
\* The process dies: its transaction is rolled back, its memory is lost.
Crash ==
  /\ pc # "down"
  /\ Fault
  /\ pc' = "down" /\ queue' = <<>> /\ rest' = <<>>
  /\ pending' = {} /\ session' = "ok"
  /\ counted' = [r \in Reports |-> 0] /\ failed' = 0 /\ read' = {}
  /\ UNCHANGED <<inbox, seen, db>>

Start ==
  /\ pc = "down"
  /\ pc' = "idle"
  /\ UNCHANGED <<inbox, seen, db, pending, session, queue, rest, metrics, read, faults>>

Init ==
  /\ inbox = <<>> /\ seen = {} /\ read = {}
  /\ db = {} /\ pending = {} /\ session = "ok"
  /\ pc = "idle" /\ queue = <<>> /\ rest = <<>>
  /\ counted = [r \in Reports |-> 0] /\ failed = 0 /\ faults = 0

StoreReport(r) == Flush(r) \/ FlushDuplicate(r) \/ FlushFails(r)

Processor ==
  \/ Poll \/ Fetch \/ ParseFails \/ Commit \/ UpdateMetrics \/ Flag \/ Close
  \/ \E r \in Reports : StoreReport(r)
  \/ Start

Environment ==
  \/ \E m \in Messages : Deliver(m)
  \/ FetchFails \/ CommitFails \/ FlagFails \/ Crash

\* All messages have come and were read, and no round is under way.
Quiet == pc = "idle" /\ seen = Messages /\ UNCHANGED vars

Next == Processor \/ Environment \/ Quiet

\* The loop of main() goes round, and the container is restarted.
Spec == Init /\ [][Next]_vars /\ WF_vars(Processor)
----------------------------------------------------------------------------
(***************************************************************************)
(* Properties                                                              *)
(***************************************************************************)
Stored(r) == <<r, 0>> \in db

\* Whatever crashes or fails between flush() and commit() of store_report(), a
\* row of dmarc_report has all its records and no record is without its report.
WholeReports ==
  \A r \in Reports : Rows(r) \subseteq db \/ Rows(r) \cap db = {}

\* A process counts the messages of a report at most once, however often it is
\* sent and its messages are read again, and counts none that is not stored; of
\* reports with one report_id only the first is.
CountedOnce ==
  \A r, q \in Reports :
    counted[r] > 0 => /\ counted[r] = 1 /\ Stored(r)
                      /\ IdOf[q] = IdOf[r] /\ counted[q] > 0 => q = r

\* Is everything in message m stored, or taken for a duplicate?
Complete(m) ==
  \A p \in ToSet(ExtractXml(m)) : p \in Reports /\ Duplicate(p)

\* A process loses no report silently: after a round, each message it read
\* without storing all its reports was counted in dmarc_reports_failed, those
\* included that fail only because the session did before.
LossReported ==
  pc = "idle" => Cardinality({m \in read : ~Complete(m)}) <= failed

\* Every message is read and flagged in the end, so one that cannot be parsed
\* or stored does not occupy every later round.
Drained == \A m \in Messages : m \in ToSet(inbox) ~> m \in seen
=============================================================================
