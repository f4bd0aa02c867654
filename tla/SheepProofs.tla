---------------------------- MODULE SheepProofs ----------------------------
(***************************************************************************)
(* Lemmas about the validator and the serializer of module Sheep: what an  *)
(* event without faults looks like once serialized, and that the faults    *)
(* found are those of the contract, one for each faulty attribute.         *)
(***************************************************************************)
EXTENDS SheepContract, FiniteSetTheorems, TLAPS

-----------------------------------------------------------------------------
(* Events without violations.                                              *)

(* A valid event is an object whose attributes are the legal strings. *)
LEMMA ValidEvent ==
  ASSUME NEW e \in JsonObjects \cup {NotObject}, Violations(e) = {}
  PROVE  /\ e \in JsonObjects /\ e # NotObject
         /\ \A k \in RequiredKeys : e[k] \in Texts \ {EmptyText}
         /\ e["time"] # Null => e["time"] \in DOMAIN Rfc3339
<1>1. e # NotObject /\ e \in JsonObjects
  BY DEF Violations
<1>2. /\ \A k \in RequiredKeys : RequiredString(e, k) = {}
      /\ OptionalString(e, "time") = {}
      /\ FormatFaults(e, "time", DOMAIN Rfc3339) = {}
  <2>1. Violations(e) =
          UNION {AttributeFaults(e, k) : k \in RequiredKeys \cup OptionalKeys}
    BY <1>1 DEF Violations
  <2>2. \A k \in RequiredKeys \cup OptionalKeys : AttributeFaults(e, k) = {}
    BY <2>1
  <2>3. ASSUME NEW k \in RequiredKeys PROVE RequiredString(e, k) = {}
    BY <2>2 DEF AttributeFaults, RequiredKeys
  <2>4. AttributeFaults(e, "time") = {}
    BY <2>2 DEF OptionalKeys
  <2>5. QED
    BY <2>3, <2>4 DEF AttributeFaults
<1>3. \A k \in RequiredKeys \cup OptionalKeys :
        e[k] \in Texts \cup {Null, NonString}
  BY <1>1 DEF JsonObjects
<1>4. ASSUME NEW k \in RequiredKeys \cup OptionalKeys, StringFaults(e, k) = {}
      PROVE  e[k] # EmptyText /\ e[k] # NonString
  BY <1>4, SheepAssumption DEF StringFaults
<1>5. ASSUME NEW k \in RequiredKeys
      PROVE  e[k] \in Texts \ {EmptyText}
  <2>1. StringFaults(e, k) = {} /\ e[k] # Null
    BY <1>2 DEF RequiredString
  <2>2. QED
    BY <2>1, <1>3, <1>4
<1>6. ASSUME e["time"] # Null
      PROVE  e["time"] \in DOMAIN Rfc3339
  <2>1. StringFaults(e, "time") = {}
    BY <1>2 DEF OptionalString
  <2>2. e["time"] \in Texts \ {EmptyText}
    BY <2>1, <1>3, <1>4, <1>6 DEF OptionalKeys
  <2>3. QED
    BY <2>2, <1>2 DEF FormatFaults, Given
<1>7. QED
  BY <1>1, <1>5, <1>6

(* ... and what is published for it is a message that carries it. *)
LEMMA ValidMessage ==
  ASSUME NEW e \in JsonObjects \cup {NotObject}, Violations(e) = {},
         NEW t \in Int
  PROVE  LET m == SerializeFlattened(Stamp(SheepOf(e), t)) IN
         /\ m \in Messages
         /\ m.key = e["subject"]
         /\ m.specversion = e["specversion"]
         /\ \A k \in {"id", "type", "source", "subject", "data"} :
              m.payload[k] = e[k]
<1> DEFINE m == SerializeFlattened(Stamp(SheepOf(e), t))
<1>1. /\ e["id"] \in Texts /\ e["type"] \in Texts /\ e["source"] \in Texts
      /\ e["specversion"] \in Texts /\ e["subject"] \in Texts
  BY ValidEvent DEF RequiredKeys
<1>2. e["data"] \in Texts \cup {Null, NonString}
  BY ValidEvent DEF JsonObjects
<1>3. ASSUME e["time"] # Null PROVE UtcInstant(e["time"]) \in Int
  BY <1>3, ValidEvent, SheepAssumption DEF UtcInstant
<1>4. Stamp(SheepOf(e), t).occurred_at \in Int
  BY <1>3 DEF Stamp, SheepOf
<1>5. \A i \in Int : UnixSeconds(i) \in Int
  BY SheepAssumption DEF UnixSeconds
<1>6. m.payload.time \in Int /\ m.received_at \in Int
  BY <1>4, <1>5 DEF SerializeFlattened, Stamp
<1>7. /\ m.key = e["subject"] /\ m.specversion = e["specversion"]
      /\ m.payload.id = e["id"] /\ m.payload.type = e["type"]
      /\ m.payload.source = e["source"] /\ m.payload.subject = e["subject"]
      /\ m.payload.data = e["data"]
  BY DEF SerializeFlattened, Stamp, SheepOf
<1>8. m \in Messages
  BY <1>1, <1>2, <1>6, <1>7 DEF Messages, SerializeFlattened, Stamp, SheepOf
<1>9. QED
  BY <1>7, <1>8

-----------------------------------------------------------------------------
(* Events with violations.                                                 *)

(* An attribute has one fault exactly when its value is not legal. *)
LEMMA OneFaultEach ==
  ASSUME NEW e \in JsonObjects, NEW k \in RequiredKeys \cup OptionalKeys
  PROVE  IF e[k] \in LegalValues(k) THEN AttributeFaults(e, k) = {}
         ELSE \E reason : AttributeFaults(e, k) = {Fault(k, reason)}
<1>1. /\ e[k] \in Texts \cup {Null, NonString}
      /\ EmptyText \in Texts /\ Null \notin Texts \cup {NonString} /\ NonString \notin Texts
  BY SheepAssumption DEF JsonObjects
<1>2. /\ Version10 \in Texts \ {EmptyText} /\ MediaTypes \subseteq Texts \ {EmptyText}
      /\ AbsoluteUris \subseteq Texts \ {EmptyText}
      /\ DOMAIN Rfc3339 \subseteq Texts \ {EmptyText}
  BY SheepAssumption
<1>3. ASSUME NEW accepted, accepted \subseteq Texts \ {EmptyText}
      PROVE  /\ IF e[k] \in accepted
                THEN RequiredString(e, k) \cup FormatFaults(e, k, accepted) = {}
                ELSE \E reason : RequiredString(e, k) \cup FormatFaults(e, k, accepted)
                                   = {Fault(k, reason)}
             /\ IF e[k] \in accepted \cup {Null}
                THEN OptionalString(e, k) \cup FormatFaults(e, k, accepted) = {}
                ELSE \E reason : OptionalString(e, k) \cup FormatFaults(e, k, accepted)
                                   = {Fault(k, reason)}
  BY <1>1, <1>3 DEF RequiredString, OptionalString, StringFaults, FormatFaults, Given
<1>4. /\ IF e[k] \in Texts \ {EmptyText}
         THEN RequiredString(e, k) = {}
         ELSE \E reason : RequiredString(e, k) = {Fault(k, reason)}
  BY <1>1 DEF RequiredString, StringFaults
<1>5. CASE k = "specversion"
  BY <1>2, <1>3, <1>5 DEF AttributeFaults, LegalValues
<1>6. CASE k = "datacontenttype"
  BY <1>2, <1>3, <1>6 DEF AttributeFaults, LegalValues, OptionalMediaType
<1>7. CASE k = "dataschema"
  BY <1>2, <1>3, <1>7 DEF AttributeFaults, LegalValues, OptionalUri
<1>8. CASE k = "time"
  BY <1>2, <1>3, <1>8 DEF AttributeFaults, LegalValues
<1>9. CASE k \notin {"specversion", "datacontenttype", "dataschema", "time"}
  BY <1>4, <1>9 DEF AttributeFaults, LegalValues
<1>10. QED
  BY <1>5, <1>6, <1>7, <1>8, <1>9

(* There are finitely many attributes. *)
LEMMA KeysAreFinite == IsFiniteSet(RequiredKeys \cup OptionalKeys)
<1>1. ASSUME NEW S, IsFiniteSet(S), NEW x PROVE IsFiniteSet(S \cup {x})
  BY <1>1, FS_AddElement
<1>2. IsFiniteSet({})
  BY FS_EmptySet
<1> DEFINE Two == ({} \cup {"id"}) \cup {"source"}
           Four == (Two \cup {"type"}) \cup {"specversion"}
           Six == (Four \cup {"subject"}) \cup {"datacontenttype"}
<1>3. IsFiniteSet(Two)
  BY <1>1, <1>2
<1>4. IsFiniteSet(Four)
  <2> HIDE DEF Two
  <2>1. QED
    BY <1>1, <1>3
<1>5. IsFiniteSet(Six)
  <2> HIDE DEF Four
  <2>1. QED
    BY <1>1, <1>4
<1>6. IsFiniteSet((Six \cup {"dataschema"}) \cup {"time"})
  <2> HIDE DEF Six
  <2>1. QED
    BY <1>1, <1>5
<1>7. RequiredKeys \cup OptionalKeys = (Six \cup {"dataschema"}) \cup {"time"}
  BY DEF RequiredKeys, OptionalKeys
<1>8. QED
  BY <1>6, <1>7

(* Every faulty attribute is named, no other, and each by one fault. *)
LEMMA FaultsAreExact ==
  ASSUME NEW e \in JsonObjects, e # NotObject
  PROVE  /\ {f.key : f \in Violations(e)} = FaultyKeys(e)
         /\ Violations(e) = {} <=> FaultyKeys(e) = {}
         /\ Cardinality(Violations(e)) = Cardinality(FaultyKeys(e))
<1> DEFINE Keys == RequiredKeys \cup OptionalKeys
           The(k) == CHOOSE fault : AttributeFaults(e, k) = {fault}
           named == [k \in FaultyKeys(e) |-> The(k)]
<1>1. Violations(e) = UNION {AttributeFaults(e, k) : k \in Keys}
  BY DEF Violations
<1>2. FaultyKeys(e) = {k \in Keys : e[k] \notin LegalValues(k)}
  BY DEF FaultyKeys
<1>3. ASSUME NEW k \in Keys
      PROVE  /\ k \notin FaultyKeys(e) => AttributeFaults(e, k) = {}
             /\ k \in FaultyKeys(e) => /\ AttributeFaults(e, k) = {The(k)}
                                      /\ The(k).key = k
  <2>1. CASE k \notin FaultyKeys(e)
    BY <1>2, <2>1, OneFaultEach
  <2>2. CASE k \in FaultyKeys(e)
    <3>1. PICK reason : AttributeFaults(e, k) = {Fault(k, reason)}
      BY <1>2, <2>2, OneFaultEach
    <3>2. AttributeFaults(e, k) = {The(k)}
      BY <3>1
    <3>3. The(k) = Fault(k, reason)
      BY <3>1, <3>2
    <3>4. Fault(k, reason).key = k
      BY DEF Fault
    <3> HIDE DEF The
    <3>5. QED
      BY <2>2, <3>2, <3>3, <3>4
  <2>3. QED
    BY <2>1, <2>2
<1> HIDE DEF The
<1>4. Violations(e) = {The(k) : k \in FaultyKeys(e)}
  BY <1>1, <1>2, <1>3
<1>5. ASSUME NEW k \in FaultyKeys(e) PROVE The(k).key = k
  BY <1>2, <1>3
<1>6. {f.key : f \in Violations(e)} = FaultyKeys(e)
  BY <1>4, <1>5
<1>7. ExistsBijection(FaultyKeys(e), Violations(e))
  <2>1. named \in [FaultyKeys(e) -> Violations(e)]
    BY <1>4
  <2>2. \A j, k \in FaultyKeys(e) : named[j] = named[k] => j = k
    BY <1>5
  <2>3. \A f \in Violations(e) : \E k \in FaultyKeys(e) : named[k] = f
    BY <1>4
  <2>4. named \in Bijection(FaultyKeys(e), Violations(e))
    BY <2>1, <2>2, <2>3 DEF Bijection, Injection, Surjection, IsInjective
  <2>5. QED
    BY <2>4 DEF ExistsBijection
<1>8. IsFiniteSet(FaultyKeys(e))
  BY <1>2, KeysAreFinite, FS_Subset
<1>9. Cardinality(Violations(e)) = Cardinality(FaultyKeys(e))
  BY <1>7, <1>8, FS_Bijection
<1>10. QED
  BY <1>4, <1>6, <1>9
=============================================================================
