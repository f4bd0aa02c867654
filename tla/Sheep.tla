------------------------------- MODULE Sheep -------------------------------
(***************************************************************************)
(* Sheep: the pure part of ingestion.  How one element of a request body   *)
(* is validated against the CloudEvents contract (ingest/sheep.rs),        *)
(* stamped with two instants (ingest/stamp.rs) and flattened into the      *)
(* message that goes to Kafka (ingest/producer.rs, serialize_flattened).   *)
(*                                                                         *)
(* JSON strings are members of Texts.  What the three recognisers of       *)
(* strings decide (is_absolute_uri, is_media_type, the RFC 3339 parser) is *)
(* a parameter; instants are integers that count ticks of a fraction of a  *)
(* second, so that the truncation to whole seconds is visible.             *)
(***************************************************************************)
EXTENDS Integers

CONSTANTS
  Texts,          \* the JSON strings an attribute may carry
  EmptyText,      \* the empty string
  Version10,      \* the string "1.0"
  AbsoluteUris,   \* the strings is_absolute_uri accepts
  MediaTypes,     \* the strings is_media_type accepts
  Rfc3339,        \* what the RFC 3339 parser returns, on the strings it accepts
  MaxInstant,     \* the last instant a UTC OffsetDateTime can hold
  TicksPerSecond, \* resolution of instants
  Null,           \* an absent member, or a JSON null
  NonString,      \* any JSON value that is neither a string nor null
  NotObject       \* a JSON value that is not an object

ASSUME SheepAssumption ==
  /\ EmptyText \in Texts
  /\ Version10 \in Texts \ {EmptyText}
  /\ AbsoluteUris \subseteq Texts \ {EmptyText}
  /\ MediaTypes \subseteq Texts \ {EmptyText}
  /\ DOMAIN Rfc3339 \subseteq Texts \ {EmptyText}
  /\ \A t \in DOMAIN Rfc3339 : Rfc3339[t] \in [local : Int, offset : Int]
  /\ MaxInstant \in Int
  /\ TicksPerSecond \in Nat \ {0}
  /\ Null \notin Texts \cup Int \cup {NonString}
  /\ NonString \notin Texts

RequiredKeys == {"id", "source", "type", "specversion", "subject"}
OptionalKeys == {"datacontenttype", "dataschema", "time"}

(* A JSON object, reduced to the members validate looks at. *)
JsonObjects ==
  [RequiredKeys \cup OptionalKeys \cup {"data"} -> Texts \cup {Null, NonString}]

-----------------------------------------------------------------------------
(* Errors pushed while reading attribute k of object e.                    *)

Fault(k, reason) == [key |-> k, reason |-> reason]

(* The helper returned Some: k carries a non-empty string. *)
Given(e, k) == e[k] \in Texts \ {EmptyText}

StringFaults(e, k) ==
  CASE e[k] = EmptyText     -> {Fault(k, "must not be empty")}
    [] e[k] = NonString     -> {Fault(k, "must be a string")}
    [] OTHER                -> {}

(* Mutant of RequiredString: a value of another JSON type is let through. *)
RequiredStringAnyType(e, k) ==
  CASE e[k] = EmptyText -> {Fault(k, "must not be empty")}
    [] e[k] = Null      -> {Fault(k, "is required")}
    [] OTHER            -> {}

RequiredString(e, k) ==
  StringFaults(e, k) \cup (IF e[k] = Null THEN {Fault(k, "is required")} ELSE {})

OptionalString(e, k) == StringFaults(e, k)

(* Mutant of FormatFaults: the format is checked even after an error. *)
FormatFaultsOfEmpty(e, k, accepted) ==
  IF e[k] \in Texts \ accepted THEN {Fault(k, "is malformed")} ELSE {}

(* A given string must also be one of the set accepted. *)
FormatFaults(e, k, accepted) ==
  IF Given(e, k) /\ e[k] \notin accepted THEN {Fault(k, "is malformed")} ELSE {}

(* Mutant of OptionalUri: any string passes for a URI. *)
OptionalUriUnchecked(e, k) == OptionalString(e, k)

OptionalUri(e, k) ==
  OptionalString(e, k) \cup FormatFaults(e, k, AbsoluteUris)

OptionalMediaType(e, k) ==
  OptionalString(e, k) \cup FormatFaults(e, k, MediaTypes)

AttributeFaults(e, k) ==
  CASE k = "specversion" ->
         RequiredString(e, k) \cup FormatFaults(e, k, {Version10})
    [] k = "datacontenttype" -> OptionalMediaType(e, k)
    [] k = "dataschema" -> OptionalUri(e, k)
    [] k = "time" -> OptionalString(e, k) \cup FormatFaults(e, k, DOMAIN Rfc3339)
    [] OTHER -> RequiredString(e, k)

(* Every failure of an event is collected; each key contributes at most one. *)
Violations(e) ==
  IF e = NotObject
  THEN {Fault("body", "must be a JSON object")}
  ELSE UNION {AttributeFaults(e, k) : k \in RequiredKeys \cup OptionalKeys}

(* Mutant of UtcInstant: the offset is applied the wrong way round. *)
UtcInstantWrongSign(text) == Rfc3339[text].local + Rfc3339[text].offset

(* The instant an accepted time string denotes, with its offset removed. *)
UtcInstant(text) == Rfc3339[text].local - Rfc3339[text].offset

(* to_offset(UTC) panics when the UTC date is beyond the range of the type,
   whatever errors the other attributes have pushed. *)
NormalisationPanics(e) ==
  /\ e # NotObject
  /\ e["time"] \in DOMAIN Rfc3339
  /\ UtcInstant(e["time"]) > MaxInstant

(* The Sheep built from an event without violations. *)
SheepOf(e) ==
  [id      |-> e["id"],      source      |-> e["source"],
   type    |-> e["type"],    specversion |-> e["specversion"],
   subject |-> e["subject"], data        |-> e["data"],
   time    |-> IF e["time"] = Null THEN Null ELSE UtcInstant(e["time"])]

-----------------------------------------------------------------------------
(* Mutant of Stamp: the client's time is ignored. *)
StampReceiptOnly(sheep, now) ==
  [sheep |-> sheep, occurred_at |-> now, received_at |-> now]

(* stamp: the client's time, or the receipt time when there is none; the   *)
(* receipt time is always the server's own clock.                          *)
Stamp(sheep, now) ==
  [sheep       |-> sheep,
   occurred_at |-> IF sheep.time = Null THEN now ELSE sheep.time,
   received_at |-> now]

UnixSeconds(instant) == instant \div TicksPerSecond

(* serialize_flattened: the partition key is the subject, the payload a    *)
(* flat object, the receipt time travels beside it as a header.            *)
SerializeFlattened(accepted) ==
  LET sheep == accepted.sheep IN
  [key         |-> sheep.subject,
   payload     |-> [id      |-> sheep.id,      type |-> sheep.type,
                    source  |-> sheep.source,  data |-> sheep.data,
                    subject |-> sheep.subject,
                    time    |-> UnixSeconds(accepted.occurred_at)],
   specversion |-> sheep.specversion,
   received_at |-> UnixSeconds(accepted.received_at)]

Messages ==
  LET Atoms == Texts \cup {Null, NonString} IN
  [key : Texts, specversion : Texts, received_at : Int,
   payload : [id : Texts, type : Texts, source : Texts, data : Atoms,
              subject : Texts, time : Int]]
=============================================================================
