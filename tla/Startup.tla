------------------------------ MODULE Startup ------------------------------
(***************************************************************************)
(* What main does before it binds its listener (bin/server.rs, config/,    *)
(* util/tracing.rs): it reads the exposure flags, loads .env, installs the *)
(* log subscriber, reads its configuration, builds the producer and starts *)
(* error tracking.  Which settings stop the server, which must not, and    *)
(* what the operator is told.                                              *)
(*                                                                         *)
(* A setting is Unset, NotUnicode or one of Strings; what the code's       *)
(* parsers, and the log filter, make of a string is a parameter.           *)
(***************************************************************************)
EXTENDS Integers, Sequences

CONSTANTS
  Strings,       \* values a variable may hold
  Blank,         \* those that are empty once trimmed
  PortOf,        \* the port each parsable string denotes
  CapOf,         \* the count each parsable string denotes
  Truthy,        \* spellings of true
  Falsey,        \* spellings of false
  SaslProtocols, \* strings that contain "sasl" in any case
  Shows,         \* the levels each string, as RUST_LOG, lets through
  Unset,         \* no such variable
  NotUnicode,    \* a value that is not UTF-8
  Environments   \* a process environment, and a .env file with its lost lines

Names == {"HEROKU", "DEV_DOCKER", "RUST_LOG", "RUST_LOG_FORMAT", "PORT",
          "MAX_BATCH_EVENTS", "POSTHOG_API_KEY", "POSTHOG_ENABLED", "POSTHOG_HOST",
          "KAFKA_BROKERS", "KAFKA_SECURITY_PROTOCOL", "KAFKA_SASL_MECHANISM",
          "KAFKA_SASL_USERNAME", "KAFKA_SASL_PASSWORD"}

Ports == 0..65535 \* u16

Levels == {"info", "warn"} \* those main logs at

ASSUME StartupAssumption ==
  /\ Unset \notin Strings /\ NotUnicode \notin Strings /\ Unset # NotUnicode
  /\ Blank \subseteq Strings /\ SaslProtocols \subseteq Strings
  /\ Truthy \subseteq Strings \ Blank /\ Falsey \subseteq Strings \ (Blank \cup Truthy)
  /\ DOMAIN PortOf \subseteq Strings /\ \A s \in DOMAIN PortOf : PortOf[s] \in Ports
  /\ DOMAIN CapOf \subseteq Strings /\ \A s \in DOMAIN CapOf : CapOf[s] \in Nat
  /\ Shows \in [Strings -> SUBSET Levels]
  \* "unread": the names whose only lines follow one that does not parse.
  /\ Environments \subseteq
       [process : [Names -> Strings \cup {Unset, NotUnicode}],
        dotenv  : [Names -> Strings \cup {Unset}],
        unread  : SUBSET Names]

VARIABLES
  given,      \* the environment the process was started in, and its .env file
  env,        \* the environment of the process now
  step,       \* the next step of main, or "ready" or "failed"
  exposed,    \* expose_externally
  shown,      \* the levels that reach the operator: none without a subscriber
  config,     \* the configuration, once it is read
  tracking,   \* "none", "noop" or "posthog"
  log         \* records [level, about, seen] in the order they were emitted

vars == <<given, env, step, exposed, shown, config, tracking, log>>

NoConfig == [brokers |-> Unset]

Init ==
  /\ given \in Environments
  /\ env = given.process
  /\ step = "read exposure"
  /\ exposed = FALSE
  /\ shown = {}
  /\ config = NoConfig
  /\ tracking = "none"
  /\ log = <<>>

(* A record reaches the operator only when a subscriber is there for it and
   its filter lets the level through. *)
Emit(level, about) ==
  log' = Append(log, [level |-> level, about |-> about, seen |-> level \in shown])

-----------------------------------------------------------------------------
(* Mutant of ReadExposure: the flags are read after .env is loaded. *)
ReadExposureFromDotenv ==
  /\ step = "read exposure"
  /\ exposed' = \E v \in {"HEROKU", "DEV_DOCKER"} : {env[v], given.dotenv[v]} # {Unset}
  /\ step' = "load dotenv"
  /\ UNCHANGED <<given, env, shown, config, tracking, log>>

ReadExposure ==
  /\ step = "read exposure"
  /\ exposed' = \E v \in {"HEROKU", "DEV_DOCKER"} : env[v] # Unset
  /\ step' = "load dotenv"
  /\ UNCHANGED <<given, env, shown, config, tracking, log>>

(* Mutant of LoadDotenv: the file wins over the environment. *)
LoadDotenvOverriding ==
  /\ step = "load dotenv"
  /\ env' = [v \in Names |-> IF given.dotenv[v] # Unset THEN given.dotenv[v] ELSE env[v]]
  /\ step' = "init tracing"
  /\ UNCHANGED <<given, exposed, shown, config, tracking, log>>

(* The file is loaded line by line, each where std::env::var has no answer: a
   value that is not UTF-8 is replaced like one that is missing.  A line that
   does not parse ends the load, and its error is dropped. *)
LoadDotenv ==
  /\ step = "load dotenv"
  /\ env' = [v \in Names |->
               IF /\ env[v] \in {Unset, NotUnicode}
                  /\ given.dotenv[v] # Unset /\ v \notin given.unread
               THEN given.dotenv[v] ELSE env[v]]
  /\ step' = "init tracing"
  /\ UNCHANGED <<given, exposed, shown, config, tracking, log>>

(* RUST_LOG_FORMAT is read, and complained of, before the subscriber is
   installed; whatever it is, startup goes on.  The subscriber filters by
   RUST_LOG, by default at INFO. *)
InitTracing ==
  /\ step = "init tracing"
  /\ IF env["RUST_LOG_FORMAT"] = NotUnicode
     THEN Emit("warn", "RUST_LOG_FORMAT") ELSE UNCHANGED log
  /\ shown' = IF env["RUST_LOG"] \in Strings THEN Shows[env["RUST_LOG"]] ELSE Levels
  /\ step' = "read config"
  /\ UNCHANGED <<given, env, exposed, config, tracking>>

-----------------------------------------------------------------------------
(* Server::from_environment: the settings that are refused (the first one  *)
(* read is the error), and the configuration when there are none.          *)

NonBlank(v) == IF env[v] \in Strings \ Blank THEN env[v] ELSE Unset

Setting(v, parse, default) == IF env[v] = Unset THEN default ELSE parse[env[v]]

(* Mutant of CapRefused: a cap of zero is accepted. *)
CapRefusedUnlessNumber == env["MAX_BATCH_EVENTS"] \notin DOMAIN CapOf \cup {Unset}

CapRefused ==
  /\ env["MAX_BATCH_EVENTS"] # Unset
  /\ env["MAX_BATCH_EVENTS"] \in DOMAIN CapOf => CapOf[env["MAX_BATCH_EVENTS"]] < 1

Refused(v) ==
  CASE v = "PORT"             -> env[v] \notin DOMAIN PortOf \cup {Unset}
    [] v = "MAX_BATCH_EVENTS" -> CapRefused
    [] OTHER                  -> env[v] = NotUnicode

Culprits ==
  {v \in {"PORT", "MAX_BATCH_EVENTS", "POSTHOG_API_KEY", "POSTHOG_ENABLED",
          "POSTHOG_HOST"} : Refused(v)}

(* Mutant of ParseEnabled: what is not a spelling of false turns capture on. *)
ParseEnabledUnlessFalse(raw) == IF raw \in Falsey THEN "off" ELSE "on"

ParseEnabled(raw) ==
  CASE raw \in Truthy -> "on" [] raw \in Falsey -> "off" [] OTHER -> "invalid"

Sasl == {"KAFKA_SASL_MECHANISM", "KAFKA_SASL_USERNAME", "KAFKA_SASL_PASSWORD"}

Configuration ==
  [ip       |-> IF exposed THEN "all" ELSE "loopback",
   port     |-> Setting("PORT", PortOf, 8888),
   cap      |-> Setting("MAX_BATCH_EVENTS", CapOf, 1000),
   key      |-> NonBlank("POSTHOG_API_KEY"),
   enabled  |-> IF env["POSTHOG_ENABLED"] = Unset THEN "on"
                ELSE ParseEnabled(env["POSTHOG_ENABLED"]),
   host     |-> NonBlank("POSTHOG_HOST"),
   brokers  |-> NonBlank("KAFKA_BROKERS"),
   protocol |-> NonBlank("KAFKA_SECURITY_PROTOCOL"), \* unset: plaintext
   sasl     |-> \A v \in Sasl : NonBlank(v) # Unset]

ReadConfig ==
  /\ step = "read config" /\ Culprits = {}
  /\ config' = Configuration
  /\ step' = "build producer"
  /\ UNCHANGED <<given, env, exposed, shown, tracking, log>>

(* main returns the error, which the runtime prints. *)
Fail(at) ==
  /\ step = at
  /\ step' = "failed"
  /\ UNCHANGED <<given, env, exposed, shown, config, tracking, log>>

RefuseConfig == Culprits # {} /\ Fail("read config")

-----------------------------------------------------------------------------
(* KafkaProducer::from_config. *)
ProducerRefused ==
  \/ config.brokers = Unset
  \/ config.sasl /\ config.protocol \notin SaslProtocols

BuildProducer ==
  /\ step = "build producer" /\ ~ProducerRefused
  /\ step' = "init error tracking"
  /\ UNCHANGED <<given, env, exposed, shown, config, tracking, log>>

(* Refused here, or by librdkafka or the runtime builder. *)
RefuseProducer == Fail("build producer")

-----------------------------------------------------------------------------
Active == config.enabled = "on" /\ config.key # Unset

(* Mutant of DisabledReason: a missing key hides what the flag asked for. *)
DisabledReasonKeyFirst ==
  CASE config.key = Unset       -> "no key"
    [] config.enabled = "off"   -> "kill switch"
    [] OTHER                    -> "invalid value"

DisabledReason ==
  CASE config.enabled = "off"     -> "kill switch"
    [] config.enabled = "invalid" -> "invalid value"
    [] OTHER                      -> "no key"

StartTracking(sink) ==
  /\ step = "init error tracking"
  /\ tracking' = sink
  /\ step' = "ready"
  /\ UNCHANGED <<given, env, exposed, shown, config>>

TrackingStarts == StartTracking("posthog") /\ Active /\ Emit("info", "enabled")

TrackingClientFails == StartTracking("noop") /\ Active /\ Emit("warn", "client failed")

TrackingDisabled ==
  /\ StartTracking("noop")
  /\ ~Active
  /\ Emit(IF DisabledReason = "invalid value" THEN "warn" ELSE "info", DisabledReason)

Next ==
  \/ ReadExposure \/ LoadDotenv \/ InitTracing \/ ReadConfig \/ RefuseConfig
  \/ BuildProducer \/ RefuseProducer
  \/ TrackingStarts \/ TrackingClientFails \/ TrackingDisabled

Spec == Init /\ [][Next]_vars

-----------------------------------------------------------------------------
(* Properties, over what the operator gave rather than what main read.     *)

(* What the operator's setting comes to: what the process environment holds
   when it can be read; else the .env line, unless there is none or it was
   lost; else what the process environment holds. *)
Asked(v) ==
  IF \/ given.process[v] \in Strings
     \/ given.dotenv[v] = Unset \/ v \in given.unread
  THEN given.process[v] ELSE given.dotenv[v]

(* StartupTypeOK: the configuration a started server runs with is well formed. *)
StartupTypeOK ==
  /\ exposed \in BOOLEAN /\ shown \subseteq Levels
  /\ tracking \in {"none", "noop", "posthog"}
  /\ step \in {"build producer", "init error tracking", "ready"} =>
       /\ config.port \in Ports
       /\ config.cap \in Nat \ {0}
       /\ config.enabled \in {"on", "off", "invalid"}

(* ExposureNeverComesFromDotenv: the server listens beyond the loopback only
   when the real environment says so, whatever a .env file holds (main). *)
ExposureNeverComesFromDotenv ==
  step = "ready" /\ config.ip = "all" =>
    given.process["HEROKU"] # Unset \/ given.process["DEV_DOCKER"] # Unset

(* StartsOnlyAsAsked: a server that starts took its port and its cap from a
   readable process variable or, failing that, from a .env line that was not
   lost, and a default only when there was neither; the same goes for its
   brokers, for which there is no default.  It never holds credentials its
   protocol would not use (Server::from_environment, from_config). *)
StartsOnlyAsAsked ==
  step = "ready" =>
    /\ config.port = IF Asked("PORT") = Unset THEN 8888 ELSE PortOf[Asked("PORT")]
    /\ config.cap = IF Asked("MAX_BATCH_EVENTS") = Unset THEN 1000
                    ELSE CapOf[Asked("MAX_BATCH_EVENTS")]
    /\ config.brokers = Asked("KAFKA_BROKERS") /\ config.brokers \in Strings \ Blank
    /\ (\A v \in Sasl : Asked(v) \in Strings \ Blank)
         => Asked("KAFKA_SECURITY_PROTOCOL") \in SaslProtocols

(* NoEgressUnlessAsked: exceptions leave the process only with a key, and with
   a flag that says yes or is nowhere to be read: a readable process variable
   that does not say yes always keeps them in, and so does such a line of .env
   that is neither lost nor overruled (posthog.rs: an unparseable flag must
   not enable third-party egress). *)
NoEgressUnlessAsked ==
  tracking = "posthog" =>
    /\ Asked("POSTHOG_API_KEY") \in Strings \ Blank
    /\ Asked("POSTHOG_ENABLED") \in Truthy \cup {Unset}

Reasons == {"kill switch", "invalid value", "no key", "client failed"}

(* The levels the operator's RUST_LOG lets through. *)
LevelsAsked ==
  IF Asked("RUST_LOG") \in Strings THEN Shows[Asked("RUST_LOG")] ELSE Levels

(* TheReasonIsLogged: a started server without error tracking has logged why,
   where the operator sees it if RUST_LOG lets that level through; a malformed
   flag is told as a warning, and a missing key never hides what the flag said
   (error_tracking::init, DisabledReason). *)
TheReasonIsLogged ==
  step = "ready" /\ tracking = "noop" =>
    \E i \in DOMAIN log :
      /\ log[i].about \in Reasons
      /\ log[i].level \in LevelsAsked => log[i].seen
      /\ Asked("POSTHOG_ENABLED") \in Falsey => log[i].about = "kill switch"
      /\ Asked("POSTHOG_ENABLED") \in Strings \ (Truthy \cup Falsey) => log[i].level = "warn"
      /\ log[i].about = "no key" => Asked("POSTHOG_API_KEY") \in {Unset} \cup Blank

(* EveryWarningIsSeen: tracing.rs says that an unreadable RUST_LOG_FORMAT is
   warned about; a filter that lets warnings through should show it. *)
EveryWarningIsSeen ==
  \A i \in DOMAIN log :
    log[i].level = "warn" /\ "warn" \in LevelsAsked => log[i].seen

(* KillSwitchCounts: .env.sample says that false disables capture even with a
   key; nothing else sets the flag here. *)
KillSwitchCounts ==
  /\ given.process["POSTHOG_ENABLED"] = Unset
  /\ given.dotenv["POSTHOG_ENABLED"] \in Falsey
  => tracking # "posthog"
=============================================================================
