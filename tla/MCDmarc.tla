------------------------------- MODULE MCDmarc -------------------------------
(***************************************************************************)
(* An instance of Dmarc for TLC: a report sent twice, once next to XML that *)
(* does not parse, one with the id of another, and archives that are torn. *)
(***************************************************************************)
EXTENDS Dmarc, TLC

SomeReports == {"a", "b", "c"}
SharedId == "a" :> 1 @@ "b" :> 2 @@ "c" :> 1
SomeRecords == "a" :> 2 @@ "b" :> 1 @@ "c" :> 0

SomeMessages == {"first", "again", "mixed", "broken"}
SomeParts ==
  "first" :> <<"a", "b">> @@ "again" :> <<NoXml, "a">> @@
  "mixed" :> <<"c", Garbled, "b">> @@ "broken" :> <<"b", Torn>>
=============================================================================
