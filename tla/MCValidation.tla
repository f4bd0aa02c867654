---------------------------- MODULE MCValidation ----------------------------
(***************************************************************************)
(* Raw events for TLC: each attribute ranges over every class of value the *)
(* validator tells apart (absent or null, not a string, empty, malformed,  *)
(* well formed), all attributes at once.                                   *)
(***************************************************************************)
EXTENDS Validation

MCTexts ==
  {"", "1.0", "0.3", "x", "urn:x", "text/plain", "noon+2", "before 1970", "edge-1"}

MCRfc3339 ==
  [t \in {"noon+2", "before 1970", "edge-1"} |->
     CASE t = "noon+2"      -> [local |-> 15, offset |-> 2]
       [] t = "before 1970" -> [local |-> -5, offset |-> 0]
       [] t = "edge-1"      -> [local |-> 40, offset |-> -1]]

Given1 == {Null, NonString, "", "x"}

(* What the load test sends. *)
Smallest ==
  [k \in RequiredKeys \cup OptionalKeys \cup {"data"} |->
     CASE k \in {"id", "source", "type"} -> "x"
       [] k = "specversion" -> "1.0"
       [] OTHER -> Null]

MCRawEvents ==
  {NotObject, Smallest} \cup
  [id : Given1, source : {Null, "", "x"}, type : {NonString, "x"},
   subject : {Null, NonString, "x"},
   specversion : {Null, NonString, "", "0.3", "1.0"},
   datacontenttype : {Null, NonString, "", "x", "text/plain"},
   dataschema : {Null, "", "x", "urn:x"},
   time : {Null, NonString, "", "x", "noon+2", "before 1970", "edge-1"},
   data : {NonString}]

MCInstants == {-3, 21}
=============================================================================
