-------------------------- MODULE ValidationProofs --------------------------
(***************************************************************************)
(* Proofs about Validation, for every set of texts, every choice of the    *)
(* strings the recognisers accept, and every event built from them: the    *)
(* validator is the contract, and not only on the classes of values TLC    *)
(* enumerates.                                                             *)
(***************************************************************************)
EXTENDS Validation, SheepProofs

(* What the outcome of each step says of the event. *)
Published(now) ==
  [verdict |-> "accepted", now |-> now,
   message |-> SerializeFlattened(Stamp(SheepOf(event), now))]

Verdicts ==
  /\ event \in RawEvents
  /\ \/ outcome = [verdict |-> "none"]
     \/ outcome = [verdict |-> "panicked"] /\ NormalisationPanics(event)
     \/ /\ outcome = [verdict |-> "rejected", faults |-> Violations(event)]
        /\ ~NormalisationPanics(event) /\ Violations(event) # {}
     \/ /\ \E now \in Instants : outcome = Published(now)
        /\ ~NormalisationPanics(event) /\ Violations(event) = {}

(* An event is answered as its violations say, and published as stamped. *)
THEOREM VerdictsHold == Spec => []Verdicts
<1>1. Init => Verdicts
  BY DEF Init, Verdicts
<1>2. Verdicts /\ [Next]_vars => Verdicts'
  <2> SUFFICES ASSUME Verdicts, [Next]_vars PROVE Verdicts'
    OBVIOUS
  <2>1. CASE ValidatePanics /\ UNCHANGED event
    BY <2>1 DEF Verdicts, ValidatePanics
  <2>2. CASE ValidateRejects /\ UNCHANGED event
    BY <2>2 DEF Verdicts, ValidateRejects
  <2>3. CASE ValidateAccepts /\ UNCHANGED event
    <3>1. PICK now \in Instants : outcome' = Published(now)
      BY <2>3 DEF ValidateAccepts, Published
    <3>2. Published(now)' = Published(now)
      BY <2>3 DEF Published
    <3>3. QED
      BY <2>3, <3>1, <3>2 DEF Verdicts, ValidateAccepts
  <2>4. CASE UNCHANGED vars
    BY <2>4 DEF Verdicts, Published, vars
  <2>5. QED
    BY <2>1, <2>2, <2>3, <2>4 DEF Next
<1>3. QED
  BY <1>1, <1>2, PTL DEF Spec

-----------------------------------------------------------------------------
(* An accepted event, and what was published for it. *)
LEMMA WhatIsAccepted ==
  ASSUME Verdicts, outcome.verdict = "accepted"
  PROVE  /\ event \in JsonObjects \cup {NotObject} /\ Violations(event) = {}
         /\ outcome.now \in Instants /\ outcome.now \in Int
         /\ outcome = Published(outcome.now)
<1>1. PICK now \in Instants : outcome = Published(now)
  BY DEF Verdicts
<1>2. outcome.now = now
  BY <1>1 DEF Published
<1>3. QED
  BY <1>1, <1>2, ValidationAssumption DEF Verdicts, Published

(* TypeOK: an accepted event always serializes to a well-typed message. *)
THEOREM TypeCorrect == Spec => []TypeOK
<1>1. Verdicts => TypeOK
  <2> SUFFICES ASSUME Verdicts PROVE TypeOK
    OBVIOUS
  <2>1. outcome.verdict \in {"none", "panicked", "rejected", "accepted"}
    BY DEF Verdicts, Published
  <2>2. ASSUME outcome.verdict = "accepted" PROVE outcome.message \in Messages
    <3>1. outcome.message = SerializeFlattened(Stamp(SheepOf(event), outcome.now))
      BY <2>2, WhatIsAccepted DEF Published
    <3>2. QED
      BY <2>2, <3>1, WhatIsAccepted, ValidMessage
  <2>3. QED
    BY <2>1, <2>2 DEF TypeOK, Verdicts
<1>2. QED
  BY <1>1, VerdictsHold, PTL

(* Normalization panics exactly on the events outside the UTC range. *)
LEMMA PanicsBeyondRange ==
  ASSUME NEW e PROVE NormalisationPanics(e) <=> BeyondUtcRange(e)
<1>1. ASSUME NEW t \in DOMAIN Rfc3339
      PROVE  UtcInstant(t) > MaxInstant <=> Rfc3339[t].local > MaxInstant + Rfc3339[t].offset
  <2>1. Rfc3339[t].local \in Int /\ Rfc3339[t].offset \in Int /\ MaxInstant \in Int
    BY SheepAssumption
  <2>2. QED
    BY <2>1 DEF UtcInstant
<1>2. QED
  BY <1>1 DEF NormalisationPanics, BeyondUtcRange

(* AcceptsOnlyTheContract: the attribute-by-attribute checks accept exactly
   the events whose attributes are all legal, among those in range. *)
THEOREM ContractExact == Spec => []AcceptsOnlyTheContract
<1>1. Verdicts => AcceptsOnlyTheContract
  <2> SUFFICES ASSUME Verdicts, outcome.verdict # "none", ~BeyondUtcRange(event)
               PROVE  outcome.verdict = "accepted" <=> Conforms(event)
    BY DEF AcceptsOnlyTheContract
  <2>1. ~NormalisationPanics(event)
    BY PanicsBeyondRange
  <2>2. event \in JsonObjects \cup {NotObject}
    BY ValidationAssumption DEF Verdicts
  <2>3. outcome.verdict = "accepted" <=> Violations(event) = {}
    BY <2>1 DEF Verdicts, Published
  <2>4. CASE event = NotObject
    BY <2>3, <2>4 DEF Violations, Conforms
  <2>5. CASE event # NotObject
    BY <2>2, <2>3, <2>5, FaultsAreExact DEF Conforms
  <2>6. QED
    BY <2>4, <2>5
<1>2. QED
  BY <1>1, VerdictsHold, PTL

(* ReportsEveryFault: a rejected event is told each faulty attribute once. *)
THEOREM FaultsReported == Spec => []ReportsEveryFault
<1>1. Verdicts => ReportsEveryFault
  <2> SUFFICES ASSUME Verdicts, outcome.verdict = "rejected"
               PROVE  ReportsEveryFault
    BY DEF ReportsEveryFault
  <2>1. outcome.faults = Violations(event)
    BY DEF Verdicts, Published
  <2>2. event \in JsonObjects \cup {NotObject}
    BY ValidationAssumption DEF Verdicts
  <2>3. CASE event = NotObject
    <3>1. outcome.faults = {Fault("body", "must be a JSON object")}
      BY <2>1, <2>3 DEF Violations
    <3>2. {f.key : f \in outcome.faults} = {"body"}
      <4>1. Fault("body", "must be a JSON object").key = "body"
        BY DEF Fault
      <4>2. QED
        BY <3>1, <4>1
    <3>3. Cardinality(outcome.faults) = 1 /\ Cardinality({"body"}) = 1
      BY <3>1, FS_Singleton
    <3>4. QED
      BY <2>3, <3>2, <3>3 DEF ReportsEveryFault
  <2>4. CASE event # NotObject
    BY <2>1, <2>2, <2>4, FaultsAreExact DEF ReportsEveryFault
  <2>5. QED
    BY <2>3, <2>4
<1>2. QED
  BY <1>1, VerdictsHold, PTL

(* An instant lies in the second it is truncated to, before 1970 as well. *)
LEMMA InItsSecond ==
  ASSUME NEW instant \in Int PROVE InSecond(instant, UnixSeconds(instant))
<1>1. TicksPerSecond \in Nat \ {0}
  BY SheepAssumption
<1>2. /\ instant = (instant \div TicksPerSecond) * TicksPerSecond + (instant % TicksPerSecond)
      /\ instant % TicksPerSecond \in 0..(TicksPerSecond - 1)
  BY <1>1
<1>3. QED
  BY <1>2 DEF InSecond, UnixSeconds

(* PublishesTheClientsInstant: the published second is the one the client's
   instant falls in, with its offset removed, or else the receipt second. *)
THEOREM InstantPublished == Spec => []PublishesTheClientsInstant
<1>1. Verdicts => PublishesTheClientsInstant
  <2> SUFFICES ASSUME Verdicts, outcome.verdict = "accepted"
               PROVE  PublishesTheClientsInstant
    BY DEF PublishesTheClientsInstant
  <2> DEFINE instant == IF event["time"] = Null THEN outcome.now
                        ELSE UtcInstant(event["time"])
  <2>1. event["time"] # Null => event["time"] \in DOMAIN Rfc3339
    BY WhatIsAccepted, ValidEvent
  <2>2. \A t \in DOMAIN Rfc3339 : UtcInstant(t) \in Int
    BY SheepAssumption DEF UtcInstant
  <2>3. instant \in Int /\ outcome.now \in Int
    BY <2>1, <2>2, WhatIsAccepted
  <2>4. Null \notin Int
    BY SheepAssumption
  <2>5. outcome.message = SerializeFlattened(Stamp(SheepOf(event), outcome.now))
    BY WhatIsAccepted DEF Published
  <2>6. Stamp(SheepOf(event), outcome.now).occurred_at = instant
    BY <2>1, <2>2, <2>4 DEF Stamp, SheepOf
  <2>7. /\ outcome.message.received_at = UnixSeconds(outcome.now)
        /\ outcome.message.payload.time = UnixSeconds(instant)
    BY <2>5, <2>6 DEF SerializeFlattened, Stamp
  <2>8. /\ InSecond(outcome.now, outcome.message.received_at)
        /\ InSecond(instant, outcome.message.payload.time)
    BY <2>3, <2>7, InItsSecond
  <2>9. QED
    BY <2>8 DEF PublishesTheClientsInstant, UtcInstant
<1>2. QED
  BY <1>1, VerdictsHold, PTL
=============================================================================
