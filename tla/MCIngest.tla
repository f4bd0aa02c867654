------------------------------ MODULE MCIngest ------------------------------
(***************************************************************************)
(* Small instances of Ingest for TLC.  Events differ in what the handler   *)
(* and the producer tell apart: subject (partition), presence of a time,   *)
(* validity, and a time that leaves the UTC range.                         *)
(***************************************************************************)
EXTENDS IngestRefinement, TLC

MCTexts == {"", "1.0", "0.3", "x", "sheep-a", "sheep-b", "noon", "edge"}
MCRfc3339 == [t \in {"noon", "edge"} |->
                IF t = "noon" THEN [local |-> 5, offset |-> 2]
                ELSE [local |-> 9, offset |-> -1]]
MCInstants == {7, 9}
MCPartitionOf == [key \in MCTexts |-> IF key = "sheep-b" THEN 2 ELSE 1]

Event(id, subject, time) ==
  [id |-> id, source |-> "x", type |-> "x", specversion |-> "1.0",
   subject |-> subject, data |-> Null, time |-> time,
   datacontenttype |-> Null, dataschema |-> Null]

A == Event("x", "sheep-a", Null)
ATimed == Event("x", "sheep-a", "noon")
B == Event("x", "sheep-b", Null)
Anonymous == Event("", "sheep-a", Null)
OldNoSubject == [Event("x", NonString, Null) EXCEPT !["specversion"] = "0.3"]
Edge == Event("x", "sheep-a", "edge")

Post(media, parsed, events) ==
  [target |-> "sheeps", media |-> media, parsed |-> parsed, events |-> events]
Get(target) ==
  [target |-> target, media |-> "other", parsed |-> "malformed", events |-> <<>>]
Batch(events) == Post("batch", "array", events)
Single(event) == Post("single", "value", <<event>>)

(* Every way a request can be refused, and the ways it is accepted. *)
MCSubmissions ==
  {Get("health"), Get("unknown"), Get("wrong method"),
   Post("other", "value", <<A>>), Post("single", "malformed", <<>>),
   Post("single", "array", <<A>>), Single(OldNoSubject), Single(NotObject),
   Single(Edge), Single(A),
   Post("batch", "value", <<A>>), Batch(<<>>), Batch(<<A, A, A>>),
   Batch(<<B, OldNoSubject>>), Batch(<<Anonymous, Edge>>),
   Batch(<<NotObject, ATimed>>), Batch(<<A, ATimed>>)}

(* Only submissions that publish, for the runs about contention. *)
MCPublishing == {Single(B), Batch(<<ATimed, A>>)}

MCSymmetry == Permutations(Requests)
=============================================================================
