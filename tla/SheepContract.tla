---------------------------- MODULE SheepContract ----------------------------
(***************************************************************************)
(* The CloudEvents contract of the service, stated as a table of the legal *)
(* values of each attribute.  It is the reference the step-by-step         *)
(* validator of module Sheep is compared with, and it shares no definition *)
(* with that validator.                                                    *)
(***************************************************************************)
EXTENDS Sheep

(* What attribute k may carry; Null stands for an absent attribute. *)
LegalValues(k) ==
  CASE k = "specversion"     -> {Version10}
    [] k = "datacontenttype" -> MediaTypes \cup {Null}
    [] k = "dataschema"      -> AbsoluteUris \cup {Null}
    [] k = "time"            -> DOMAIN Rfc3339 \cup {Null}
    [] OTHER                 -> Texts \ {EmptyText}

FaultyKeys(e) ==
  {k \in RequiredKeys \cup OptionalKeys : e[k] \notin LegalValues(k)}

Conforms(e) == e # NotObject /\ FaultyKeys(e) = {}

(* The event denotes an instant the service cannot represent in UTC. *)
BeyondUtcRange(e) ==
  /\ e # NotObject
  /\ e["time"] \in DOMAIN Rfc3339
  /\ Rfc3339[e["time"]].local > MaxInstant + Rfc3339[e["time"]].offset
=============================================================================
