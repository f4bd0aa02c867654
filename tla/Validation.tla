----------------------------- MODULE Validation -----------------------------
(***************************************************************************)
(* The validator of module Sheep applied to one raw event, compared with   *)
(* the contract of module SheepContract over every combination of the      *)
(* attribute values in RawEvents.  One step validates the event and, when  *)
(* it is valid, stamps and serializes it.                                  *)
(***************************************************************************)
EXTENDS SheepContract, FiniteSets

CONSTANTS
  RawEvents, \* the events submitted
  Instants   \* what the wall clock may read

ASSUME ValidationAssumption ==
  /\ RawEvents \subseteq JsonObjects \cup {NotObject}
  /\ Instants \subseteq Int

VARIABLES event, outcome

vars == <<event, outcome>>

Init ==
  /\ event \in RawEvents
  /\ outcome = [verdict |-> "none"]

ValidatePanics ==
  /\ NormalisationPanics(event)
  /\ outcome' = [verdict |-> "panicked"]

ValidateRejects ==
  /\ ~NormalisationPanics(event)
  /\ Violations(event) # {}
  /\ outcome' = [verdict |-> "rejected", faults |-> Violations(event)]

ValidateAccepts ==
  /\ ~NormalisationPanics(event)
  /\ Violations(event) = {}
  /\ \E now \in Instants :
       outcome' = [verdict |-> "accepted", now |-> now,
                   message |-> SerializeFlattened(Stamp(SheepOf(event), now))]

Next ==
  /\ outcome.verdict = "none"
  /\ ValidatePanics \/ ValidateRejects \/ ValidateAccepts
  /\ UNCHANGED event

Spec == Init /\ [][Next]_vars

-----------------------------------------------------------------------------
Keys == RequiredKeys \cup OptionalKeys

(* The instant is in second s of the epoch, also before 1970. *)
InSecond(instant, s) ==
  \E tick \in 0..(TicksPerSecond - 1) : instant = s * TicksPerSecond + tick

(* TypeOK: what the validator accepted always serializes to a well-typed
   message (SheepOf and SerializeFlattened read only validated attributes). *)
TypeOK ==
  /\ event \in RawEvents
  /\ outcome.verdict \in {"none", "panicked", "rejected", "accepted"}
  /\ outcome.verdict = "accepted" => outcome.message \in Messages

(* AcceptsOnlyTheContract: the attribute-by-attribute checks of validate let
   exactly the conforming events through, whichever attributes combine. *)
AcceptsOnlyTheContract ==
  outcome.verdict # "none" /\ ~BeyondUtcRange(event) =>
    (outcome.verdict = "accepted" <=> Conforms(event))

(* ReportsEveryFault: a rejected event is told all its faulty attributes at
   once, each exactly one time (validate collects, it does not stop). *)
ReportsEveryFault ==
  outcome.verdict = "rejected" =>
    LET expected == IF event = NotObject THEN {"body"} ELSE FaultyKeys(event) IN
    /\ {f.key : f \in outcome.faults} = expected
    /\ Cardinality(outcome.faults) = Cardinality(expected)

(* PublishesTheClientsInstant: the published time is the second in which the
   client's instant falls once its offset is removed, or the receipt second
   when the client sent none: neither rounding nor the offset moves it. *)
PublishesTheClientsInstant ==
  outcome.verdict = "accepted" =>
    /\ InSecond(outcome.now, outcome.message.received_at)
    /\ LET instant == IF event["time"] = Null THEN outcome.now
                      ELSE Rfc3339[event["time"]].local - Rfc3339[event["time"]].offset
       IN InSecond(instant, outcome.message.payload.time)

(* AnOffsetTimeIsNormalizedOrRejected: the comment on the time attribute in
   validate allows two outcomes for a time string, so no event panics. *)
AnOffsetTimeIsNormalizedOrRejected == outcome.verdict # "panicked"

(* TheSmallestEventIsAccepted: the load test (loadtest/k6/lib/payload.js)
   calls an event of these four attributes the smallest valid one. *)
TheSmallestEventIsAccepted ==
  /\ event # NotObject
  /\ \A k \in {"id", "source", "type"} : Given(event, k)
  /\ event["specversion"] = Version10
  /\ \A k \in OptionalKeys \cup {"subject", "data"} : event[k] = Null
  => outcome.verdict # "rejected"
=============================================================================
