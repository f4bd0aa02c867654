---------------------------- MODULE StartupProofs ----------------------------
(***************************************************************************)
(* Proofs about Startup, for any set of environments and whatever the      *)
(* parsers of its settings accept.                                         *)
(***************************************************************************)
EXTENDS Startup, TLAPS

Steps == {"read exposure", "load dotenv", "init tracing", "read config",
          "build producer", "init error tracking", "ready", "failed"}

(* Steps at which .env has not been loaded, and at which there is a config. *)
Raw == {"read exposure", "load dotenv"}
Decided == {"build producer", "init error tracking", "ready"}

(* The environment is the one the process was given until .env fills it in. *)
EnvInv ==
  /\ given \in Environments /\ step \in Steps
  /\ env = IF step \in Raw THEN given.process ELSE [v \in Names |-> Asked(v)]

ExposureInv ==
  /\ exposed \in BOOLEAN
  /\ exposed => \E v \in {"HEROKU", "DEV_DOCKER"} : given.process[v] # Unset

(* Whoever complains after init_tracing is heard as far as RUST_LOG allows. *)
SubscriberInv ==
  /\ shown \subseteq Levels
  /\ step \notin Raw \cup {"init tracing"} => shown = LevelsAsked

(* No setting is refused. *)
Sound ==
  /\ env["PORT"] \in DOMAIN PortOf \cup {Unset}
  /\ ~CapRefused
  /\ \A v \in {"POSTHOG_API_KEY", "POSTHOG_ENABLED", "POSTHOG_HOST"} : env[v] # NotUnicode

(* A configuration is what its environment says, and nothing was refused. *)
ConfigInv ==
  /\ step \in Decided => Sound /\ config = Configuration
  /\ step \in {"init error tracking", "ready"} => ~ProducerRefused

Records == [level : Levels,
            about : {"RUST_LOG_FORMAT", "enabled", "client failed",
                     "kill switch", "invalid value", "no key"},
            seen  : BOOLEAN]

(* The last word of the log is why nothing is captured. *)
TrackingInv ==
  /\ tracking \in {"none", "noop", "posthog"}
  /\ tracking # "none" => step = "ready"
  /\ tracking = "posthog" => Active
  /\ tracking = "noop" =>
       LET last == log[Len(log)] IN
       /\ log # <<>> /\ last.seen = (last.level \in LevelsAsked)
       /\ IF Active
          THEN last.about = "client failed" /\ last.level = "warn"
          ELSE /\ last.about = DisabledReason
               /\ last.about = "invalid value" => last.level = "warn"

LogInv == log \in Seq(Records)

SInv == EnvInv /\ ExposureInv /\ SubscriberInv /\ ConfigInv /\ TrackingInv /\ LogInv

-----------------------------------------------------------------------------
(* What an environment may hold, and what is read from it.                 *)

(* The environment maps every variable to a value. *)
LEMMA EnvironmentType ==
  ASSUME EnvInv
  PROVE  /\ env \in [Names -> Strings \cup {Unset, NotUnicode}]
         /\ \A v \in Names : Asked(v) \in Strings \cup {Unset, NotUnicode}
<1>1. /\ given.process \in [Names -> Strings \cup {Unset, NotUnicode}]
      /\ given.dotenv \in [Names -> Strings \cup {Unset}]
  BY StartupAssumption DEF EnvInv
<1>2. \A v \in Names : Asked(v) \in Strings \cup {Unset, NotUnicode}
  BY <1>1 DEF Asked
<1>3. QED
  BY <1>1, <1>2 DEF EnvInv

(* No setting is refused exactly when all of them are sound. *)
LEMMA SoundMeans == Culprits = {} <=> Sound
<1>1. Culprits = {} <=> \A v \in {"PORT", "MAX_BATCH_EVENTS", "POSTHOG_API_KEY",
                                 "POSTHOG_ENABLED", "POSTHOG_HOST"} : ~Refused(v)
  BY DEF Culprits
<1>2. /\ Refused("PORT") <=> env["PORT"] \notin DOMAIN PortOf \cup {Unset}
      /\ Refused("MAX_BATCH_EVENTS") <=> CapRefused
      /\ Refused("POSTHOG_API_KEY") <=> env["POSTHOG_API_KEY"] = NotUnicode
      /\ Refused("POSTHOG_ENABLED") <=> env["POSTHOG_ENABLED"] = NotUnicode
      /\ Refused("POSTHOG_HOST") <=> env["POSTHOG_HOST"] = NotUnicode
  BY DEF Refused
<1>3. QED
  BY <1>1, <1>2 DEF Sound

(* The empty log is a log. *)
LEMMA EmptyLog == ASSUME NEW S PROVE <<>> \in Seq(S)
OBVIOUS

(* The process starts with the invariant. *)
LEMMA SInit == Init => SInv
<1> SUFFICES ASSUME Init PROVE SInv
  OBVIOUS
<1>1. /\ step = "read exposure" /\ exposed = FALSE /\ shown = {}
      /\ tracking = "none" /\ log = <<>> /\ env = given.process /\ given \in Environments
  BY DEF Init
<1>2. EnvInv
  BY <1>1 DEF EnvInv, Steps, Raw
<1>3. ExposureInv /\ SubscriberInv
  BY <1>1 DEF ExposureInv, SubscriberInv, Raw
<1>4. ConfigInv
  BY <1>1 DEF ConfigInv, Decided
<1>5. TrackingInv
  BY <1>1 DEF TrackingInv
<1>6. LogInv
  BY <1>1, EmptyLog DEF LogInv
<1>7. QED
  BY <1>2, <1>3, <1>4, <1>5, <1>6 DEF SInv

(* What a record more does to a log. *)
LEMMA AppendIs ==
  ASSUME NEW S, NEW s \in Seq(S), NEW x \in S
  PROVE  /\ Append(s, x) \in Seq(S) /\ Append(s, x) # <<>>
         /\ Len(Append(s, x)) = Len(s) + 1
         /\ Append(s, x)[Len(s) + 1] = x
OBVIOUS

(* A log that is not empty has a last record. *)
LEMMA LastElement ==
  ASSUME NEW S, NEW s \in Seq(S), s # <<>>
  PROVE  Len(s) \in DOMAIN s
OBVIOUS

(* Membership is a truth value. *)
LEMMA Membership == ASSUME NEW x, NEW S PROVE (x \in S) \in BOOLEAN
OBVIOUS

(* A record joins the log at its end. *)
LEMMA EmitStep ==
  ASSUME LogInv, NEW level \in Levels,
         NEW about \in {"RUST_LOG_FORMAT", "enabled", "client failed",
                        "kill switch", "invalid value", "no key"},
         Emit(level, about)
  PROVE  /\ LogInv' /\ log' # <<>>
         /\ log'[Len(log')].level = level
         /\ log'[Len(log')].about = about
         /\ log'[Len(log')].seen = (level \in shown)
<1> DEFINE record == [level |-> level, about |-> about, seen |-> (level \in shown)]
<1>1. record \in Records
  <2>1. (level \in shown) \in BOOLEAN
    BY Membership
  <2>2. QED
    BY <2>1 DEF Records
<1>2. log \in Seq(Records) /\ log' = Append(log, record)
  BY DEF LogInv, Emit
<1> HIDE DEF record
<1>3. /\ Append(log, record) \in Seq(Records)
      /\ Len(Append(log, record)) = Len(log) + 1
      /\ Append(log, record)[Len(log) + 1] = record
      /\ Append(log, record) # <<>>
  BY <1>1, <1>2, AppendIs
<1>4. log'[Len(log')] = record /\ LogInv' /\ log' # <<>>
  BY <1>2, <1>3 DEF LogInv
<1>5. record.level = level /\ record.about = about /\ record.seen = (level \in shown)
  BY DEF record
<1>6. QED
  BY <1>4, <1>5

(* What was asked for is a matter of what was given. *)
LEMMA SameAsked ==
  ASSUME given' = given
  PROVE  LevelsAsked' = LevelsAsked /\ \A v \in Names : Asked(v)' = Asked(v)
BY DEF LevelsAsked, Asked

(* Steps before there is a configuration. *)
LEMMA EarlyStep ==
  ASSUME SInv, ReadExposure \/ LoadDotenv \/ InitTracing
  PROVE  SInv'
<1>1. /\ given' = given /\ config' = config /\ tracking' = tracking
      /\ step \in Raw \cup {"init tracing"}
  BY DEF ReadExposure, LoadDotenv, InitTracing, Raw
<1>2. /\ tracking = "none" /\ shown \subseteq Levels /\ given \in Environments
      /\ ExposureInv /\ LogInv
  BY <1>1 DEF SInv, TrackingInv, Raw, SubscriberInv, EnvInv
<1>3. step' \in {"load dotenv", "init tracing", "read config"}
  BY DEF ReadExposure, LoadDotenv, InitTracing
<1>4. ConfigInv' /\ TrackingInv'
  BY <1>1, <1>2, <1>3 DEF ConfigInv, TrackingInv, Decided
<1>5. CASE ReadExposure
  <2>1. env = given.process /\ env' = env
    BY <1>5 DEF ReadExposure, SInv, EnvInv, Raw
  <2>2. EnvInv'
    BY <1>1, <1>2, <1>5, <2>1 DEF ReadExposure, EnvInv, Raw, Steps
  <2>3. ExposureInv'
    BY <1>1, <1>5, <2>1 DEF ReadExposure, ExposureInv
  <2>4. SubscriberInv' /\ LogInv'
    BY <1>2, <1>5 DEF ReadExposure, SubscriberInv, LogInv, Raw
  <2>5. QED
    BY <1>4, <2>2, <2>3, <2>4 DEF SInv
<1>6. CASE LoadDotenv
  <2>1. env = given.process
    BY <1>6 DEF LoadDotenv, SInv, EnvInv, Raw
  <2>2. env' = [v \in Names |-> Asked(v)]
    <3>1. \A v \in Names : given.process[v] \in Strings \cup {Unset, NotUnicode}
      BY <1>2, StartupAssumption
    <3>2. Unset \notin Strings /\ NotUnicode \notin Strings
      BY StartupAssumption
    <3>3. QED
      BY <1>6, <2>1, <3>1, <3>2 DEF LoadDotenv, Asked
  <2>3. EnvInv'
    BY <1>1, <1>2, <1>6, <2>2 DEF LoadDotenv, EnvInv, Raw, Steps, Asked
  <2>4. ExposureInv' /\ SubscriberInv' /\ LogInv'
    BY <1>1, <1>2, <1>6 DEF LoadDotenv, ExposureInv, SubscriberInv, LogInv, Raw
  <2>5. QED
    BY <1>4, <2>3, <2>4 DEF SInv
<1>7. CASE InitTracing
  <2>1. env' = env /\ env = [v \in Names |-> Asked(v)]
    BY <1>7 DEF InitTracing, SInv, EnvInv, Raw
  <2>2. EnvInv'
    BY <1>1, <1>2, <1>7, <2>1 DEF InitTracing, EnvInv, Raw, Steps, Asked
  <2>3. ExposureInv'
    BY <1>1, <1>2, <1>7 DEF InitTracing, ExposureInv
  <2>4. SubscriberInv'
    <3>1. env["RUST_LOG"] = Asked("RUST_LOG")
      BY <2>1 DEF Names
    <3>2. shown' = LevelsAsked
      BY <1>7, <3>1 DEF InitTracing, LevelsAsked
    <3>3. LevelsAsked' = LevelsAsked /\ LevelsAsked \subseteq Levels
      BY <1>1, StartupAssumption DEF LevelsAsked, Asked
    <3>4. QED
      BY <3>2, <3>3 DEF SubscriberInv
  <2>5. LogInv'
    BY <1>2, <1>7, EmitStep DEF InitTracing, LogInv, Levels
  <2>6. QED
    BY <1>4, <2>2, <2>3, <2>4, <2>5 DEF SInv
<1>8. QED
  BY <1>5, <1>6, <1>7

(* The configuration is a matter of the environment and of the exposure. *)
LEMMA SameConfiguration ==
  ASSUME env' = env, exposed' = exposed
  PROVE  Configuration' = Configuration /\ Sound' = Sound
<1>1. Configuration' = Configuration
  BY DEF Configuration, Setting, NonBlank
<1>2. Sound' = Sound
  BY DEF Sound, CapRefused
<1>3. QED
  BY <1>1, <1>2

(* Steps that only move on: the configuration stays as it is. *)
LEMMA MoveOn ==
  ASSUME SInv, NEW s \in Steps \ (Raw \cup {"init tracing", "ready"}), step' = s,
         step \in {"read config", "build producer"},
         UNCHANGED <<given, env, exposed, shown, tracking, log>>,
         s \in Decided => Sound /\ config' = Configuration,
         s = "init error tracking" => ~ProducerRefused /\ config' = config
  PROVE  SInv'
<1>1. tracking = "none"
  BY DEF SInv, TrackingInv
<1>2. EnvInv'
  BY DEF SInv, EnvInv, Raw, Asked
<1>3. ExposureInv' /\ LogInv'
  BY DEF SInv, ExposureInv, LogInv
<1>4. SubscriberInv'
  BY SameAsked DEF SInv, SubscriberInv, Raw
<1>5. Configuration' = Configuration /\ Sound' = Sound
  BY SameConfiguration
<1>6. ConfigInv'
  BY <1>5 DEF ConfigInv, ProducerRefused
<1>7. TrackingInv'
  BY <1>1 DEF TrackingInv
<1>8. QED
  BY <1>2, <1>3, <1>4, <1>6, <1>7 DEF SInv

(* Reading the configuration: refused, or taken as it is. *)
LEMMA ConfigStep ==
  ASSUME SInv, ReadConfig \/ RefuseConfig \/ BuildProducer \/ RefuseProducer
  PROVE  SInv'
<1>1. {"build producer", "init error tracking", "failed"}
        \subseteq Steps \ (Raw \cup {"init tracing", "ready"})
  BY DEF Steps, Raw
<1>2. CASE ReadConfig
  BY <1>1, <1>2, MoveOn, SoundMeans DEF ReadConfig
<1>3. CASE RefuseConfig \/ RefuseProducer
  BY <1>1, <1>3, MoveOn DEF RefuseConfig, RefuseProducer, Fail, Decided
<1>4. CASE BuildProducer
  <2>1. Sound /\ config = Configuration
    BY <1>4 DEF BuildProducer, SInv, ConfigInv, Decided
  <2>2. QED
    BY <1>1, <1>4, <2>1, MoveOn DEF BuildProducer
<1>5. QED
  BY <1>2, <1>3, <1>4

(* Starting error tracking: the reason is the last word of the log. *)
LEMMA TrackingStep ==
  ASSUME SInv, TrackingStarts \/ TrackingClientFails \/ TrackingDisabled
  PROVE  SInv'
<1>1. /\ step = "init error tracking" /\ step' = "ready"
      /\ UNCHANGED <<given, env, exposed, shown, config>>
      /\ tracking' = IF TrackingStarts THEN "posthog" ELSE "noop"
  BY DEF TrackingStarts, TrackingClientFails, TrackingDisabled, StartTracking
<1>2. shown = LevelsAsked /\ LogInv
  BY <1>1 DEF SInv, SubscriberInv, Raw
<1>3. EnvInv'
  BY <1>1 DEF SInv, EnvInv, Raw, Steps, Asked
<1>4. ExposureInv' /\ SubscriberInv' /\ LevelsAsked' = LevelsAsked
  BY <1>1, SameAsked DEF SInv, ExposureInv, SubscriberInv, Raw
<1>5. ConfigInv'
  <2>1. Configuration' = Configuration /\ Sound' = Sound
        /\ ProducerRefused' = ProducerRefused
    BY <1>1, SameConfiguration DEF ProducerRefused
  <2>2. QED
    BY <1>1, <2>1 DEF SInv, ConfigInv, Decided
<1>6. Active' = Active /\ DisabledReason' = DisabledReason
  BY <1>1 DEF Active, DisabledReason
<1>7. CASE TrackingStarts
  <2>1. Active /\ LogInv'
    BY <1>2, <1>7, EmitStep DEF TrackingStarts, Levels
  <2>2. TrackingInv'
    BY <1>1, <1>6, <1>7, <2>1 DEF TrackingInv
  <2>3. QED
    BY <1>3, <1>4, <1>5, <2>1, <2>2 DEF SInv
<1>8. CASE TrackingClientFails
  <2>1. /\ Active /\ LogInv' /\ log' # <<>> /\ tracking' = "noop"
        /\ log'[Len(log')].level = "warn"
        /\ log'[Len(log')].about = "client failed"
        /\ log'[Len(log')].seen = ("warn" \in LevelsAsked)
    BY <1>2, <1>8, EmitStep DEF TrackingClientFails, StartTracking, Levels
  <2>2. TrackingInv'
    BY <1>1, <1>4, <1>6, <2>1 DEF TrackingInv
  <2>3. QED
    BY <1>3, <1>4, <1>5, <2>1, <2>2 DEF SInv
<1>9. CASE TrackingDisabled
  <2> DEFINE level == IF DisabledReason = "invalid value" THEN "warn" ELSE "info"
  <2>1. /\ ~Active /\ Emit(level, DisabledReason) /\ tracking' = "noop"
    BY <1>9 DEF TrackingDisabled, StartTracking
  <2>2. DisabledReason \in {"kill switch", "invalid value", "no key"}
    BY DEF DisabledReason
  <2>3. level \in Levels
    BY DEF Levels
  <2>4. /\ LogInv' /\ log' # <<>>
        /\ log'[Len(log')].level = level
        /\ log'[Len(log')].about = DisabledReason
        /\ log'[Len(log')].seen = (level \in LevelsAsked)
    BY <1>2, <2>1, <2>2, <2>3, EmitStep
  <2>5. TrackingInv'
    BY <1>1, <1>4, <1>6, <2>1, <2>4 DEF TrackingInv
  <2>6. QED
    BY <1>3, <1>4, <1>5, <2>4, <2>5 DEF SInv
<1>10. QED
  BY <1>7, <1>8, <1>9

(* Every step of main preserves the invariant. *)
LEMMA SNext == SInv /\ [Next]_vars => SInv'
<1> SUFFICES ASSUME SInv, [Next]_vars PROVE SInv'
  OBVIOUS
<1>1. CASE UNCHANGED vars
  <2>1. UNCHANGED <<given, env, step, exposed, shown, config, tracking, log>>
    BY <1>1 DEF vars
  <2>2. EnvInv' /\ ExposureInv' /\ SubscriberInv' /\ LogInv'
    BY <2>1, SameAsked DEF SInv, EnvInv, ExposureInv, SubscriberInv, LogInv, Asked
  <2>3. ConfigInv'
    BY <2>1, SameConfiguration DEF SInv, ConfigInv, ProducerRefused
  <2>4. Active' = Active /\ DisabledReason' = DisabledReason
    BY <2>1 DEF Active, DisabledReason
  <2>5. TrackingInv'
    BY <2>1, <2>4, SameAsked DEF SInv, TrackingInv
  <2>6. QED
    BY <2>2, <2>3, <2>5 DEF SInv
<1>2. QED
  BY <1>1, EarlyStep, ConfigStep, TrackingStep DEF Next

(* The invariant holds in every state of the start. *)
LEMMA Safe == Spec => []SInv
BY SInit, SNext, PTL DEF Spec

-----------------------------------------------------------------------------
(* Theorems.                                                               *)

(* What a configuration says, in terms of what the operator asked for. *)
LEMMA ConfigMeans ==
  ASSUME SInv, step \in Decided
  PROVE  /\ config.ip = IF exposed THEN "all" ELSE "loopback"
         /\ config.port = IF Asked("PORT") = Unset THEN 8888 ELSE PortOf[Asked("PORT")]
         /\ config.port \in Ports
         /\ config.cap = IF Asked("MAX_BATCH_EVENTS") = Unset THEN 1000
                         ELSE CapOf[Asked("MAX_BATCH_EVENTS")]
         /\ config.cap \in Nat \ {0}
         /\ config.key = IF Asked("POSTHOG_API_KEY") \in Strings \ Blank
                         THEN Asked("POSTHOG_API_KEY") ELSE Unset
         /\ Asked("POSTHOG_API_KEY") # NotUnicode
         /\ Asked("POSTHOG_ENABLED") \in Strings \cup {Unset}
         /\ config.enabled = IF Asked("POSTHOG_ENABLED") = Unset THEN "on"
                             ELSE ParseEnabled(Asked("POSTHOG_ENABLED"))
<1>1. config = Configuration /\ Sound
  BY DEF SInv, ConfigInv
<1>2. \A v \in Names : env[v] = Asked(v)
  BY DEF SInv, EnvInv, Decided, Raw
<1>3. \A v \in Names : Asked(v) \in Strings \cup {Unset, NotUnicode}
  BY EnvironmentType DEF SInv
<1>4. /\ env["PORT"] \in DOMAIN PortOf \cup {Unset} /\ ~CapRefused
      /\ env["POSTHOG_API_KEY"] # NotUnicode /\ env["POSTHOG_ENABLED"] # NotUnicode
  BY <1>1 DEF Sound
<1>5. {"PORT", "MAX_BATCH_EVENTS", "POSTHOG_API_KEY", "POSTHOG_ENABLED"} \subseteq Names
  BY DEF Names
<1>6. config.ip = IF exposed THEN "all" ELSE "loopback"
  BY <1>1 DEF Configuration
<1>7. /\ config.port = IF Asked("PORT") = Unset THEN 8888 ELSE PortOf[Asked("PORT")]
      /\ config.port \in Ports
  <2>1. Asked("PORT") \in DOMAIN PortOf \cup {Unset}
    BY <1>2, <1>4, <1>5
  <2>2. config.port = IF Asked("PORT") = Unset THEN 8888 ELSE PortOf[Asked("PORT")]
    BY <1>1, <1>2, <1>5 DEF Configuration, Setting
  <2>3. 8888 \in Ports
    BY DEF Ports
  <2>4. QED
    BY <2>1, <2>2, <2>3, StartupAssumption
<1>8. /\ config.cap = IF Asked("MAX_BATCH_EVENTS") = Unset THEN 1000
                      ELSE CapOf[Asked("MAX_BATCH_EVENTS")]
      /\ config.cap \in Nat \ {0}
  <2> DEFINE cap == Asked("MAX_BATCH_EVENTS")
  <2>1. cap = Unset \/ (cap \in DOMAIN CapOf /\ ~(CapOf[cap] < 1))
    BY <1>2, <1>4, <1>5 DEF CapRefused
  <2>2. config.cap = IF cap = Unset THEN 1000 ELSE CapOf[cap]
    BY <1>1, <1>2, <1>5 DEF Configuration, Setting
  <2>3. \A s \in DOMAIN CapOf : CapOf[s] \in Nat
    BY StartupAssumption
  <2>4. config.cap \in Nat \ {0}
    <3> HIDE DEF cap
    <3>1. QED
      BY <2>1, <2>2, <2>3
  <2>5. QED
    BY <2>2, <2>4
<1>9. /\ config.key = IF Asked("POSTHOG_API_KEY") \in Strings \ Blank
                      THEN Asked("POSTHOG_API_KEY") ELSE Unset
      /\ Asked("POSTHOG_API_KEY") # NotUnicode
  BY <1>1, <1>2, <1>4, <1>5 DEF Configuration, NonBlank
<1>10. /\ Asked("POSTHOG_ENABLED") \in Strings \cup {Unset}
       /\ config.enabled = IF Asked("POSTHOG_ENABLED") = Unset THEN "on"
                           ELSE ParseEnabled(Asked("POSTHOG_ENABLED"))
  BY <1>1, <1>2, <1>3, <1>4, <1>5 DEF Configuration
<1>11. QED
  BY <1>6, <1>7, <1>8, <1>9, <1>10

(* StartupTypeOK: no server starts with a port out of range or a cap of zero. *)
THEOREM TypeCorrect == Spec => []StartupTypeOK
<1>1. SInv => StartupTypeOK
  <2>1. ASSUME SInv, step \in Decided
        PROVE  /\ config.port \in Ports /\ config.cap \in Nat \ {0}
               /\ config.enabled \in {"on", "off", "invalid"}
    BY <2>1, ConfigMeans DEF ParseEnabled
  <2>2. QED
    BY <2>1 DEF SInv, ExposureInv, SubscriberInv, TrackingInv, StartupTypeOK, Decided
<1>2. QED
  BY <1>1, Safe, PTL

(* ExposureNeverComesFromDotenv: no .env file makes the server listen beyond
   the loopback. *)
THEOREM NeverFromDotenv == Spec => []ExposureNeverComesFromDotenv
<1>1. SInv => ExposureNeverComesFromDotenv
  BY ConfigMeans DEF SInv, ExposureInv, ExposureNeverComesFromDotenv, Decided
<1>2. QED
  BY <1>1, Safe, PTL

(* StartsOnlyAsAsked: port, cap and brokers are those of a readable process
   variable or, failing that, of a .env line before the first malformed one;
   credentials go with a protocol that uses them. *)
THEOREM AsAsked == Spec => []StartsOnlyAsAsked
<1>1. SInv => StartsOnlyAsAsked
  <2> SUFFICES ASSUME SInv, step = "ready"
               PROVE  /\ config.port = IF Asked("PORT") = Unset THEN 8888
                                       ELSE PortOf[Asked("PORT")]
                      /\ config.cap = IF Asked("MAX_BATCH_EVENTS") = Unset THEN 1000
                                      ELSE CapOf[Asked("MAX_BATCH_EVENTS")]
                      /\ config.brokers = Asked("KAFKA_BROKERS")
                      /\ config.brokers \in Strings \ Blank
                      /\ (\A v \in Sasl : Asked(v) \in Strings \ Blank)
                           => Asked("KAFKA_SECURITY_PROTOCOL") \in SaslProtocols
    BY DEF StartsOnlyAsAsked
  <2>1. step \in Decided /\ config = Configuration /\ ~ProducerRefused
    BY DEF SInv, ConfigInv, Decided
  <2>2. \A v \in Names : env[v] = Asked(v)
    BY DEF SInv, EnvInv, Raw
  <2>3. {"KAFKA_BROKERS", "KAFKA_SECURITY_PROTOCOL"} \cup Sasl \subseteq Names
    BY DEF Names, Sasl
  <2>4. \A v \in Names :
          NonBlank(v) = IF Asked(v) \in Strings \ Blank THEN Asked(v) ELSE Unset
    BY <2>2 DEF NonBlank
  <2>5. /\ config.brokers = NonBlank("KAFKA_BROKERS") /\ config.brokers # Unset
        /\ config.protocol = NonBlank("KAFKA_SECURITY_PROTOCOL")
    BY <2>1 DEF Configuration, ProducerRefused
  <2>6. config.brokers = Asked("KAFKA_BROKERS") /\ config.brokers \in Strings \ Blank
    BY <2>3, <2>4, <2>5
  <2>7. ASSUME \A v \in Sasl : Asked(v) \in Strings \ Blank
        PROVE  Asked("KAFKA_SECURITY_PROTOCOL") \in SaslProtocols
    <3>1. \A v \in Sasl : NonBlank(v) # Unset
      BY <2>3, <2>4, <2>7, StartupAssumption
    <3>2. Configuration.sasl <=> \A v \in Sasl : NonBlank(v) # Unset
      BY DEF Configuration
    <3>3. config.protocol \in SaslProtocols
      BY <2>1, <3>1, <3>2 DEF ProducerRefused
    <3>4. Unset \notin SaslProtocols
      BY StartupAssumption
    <3>5. QED
      BY <2>3, <2>4, <2>5, <3>3, <3>4
  <2>8. QED
    BY <2>1, <2>6, <2>7, ConfigMeans
<1>2. QED
  BY <1>1, Safe, PTL

(* NoEgressUnlessAsked: exceptions are only captured with a key, and unless a
   flag that does not spell true can be read in the process environment or,
   failing that, in .env before its first malformed line. *)
THEOREM NoEgress == Spec => []NoEgressUnlessAsked
<1>1. SInv => NoEgressUnlessAsked
  <2> SUFFICES ASSUME SInv, tracking = "posthog"
               PROVE  /\ Asked("POSTHOG_API_KEY") \in Strings \ Blank
                      /\ Asked("POSTHOG_ENABLED") \in Truthy \cup {Unset}
    BY DEF NoEgressUnlessAsked
  <2>1. step \in Decided /\ Active
    BY DEF SInv, TrackingInv, Decided
  <2>2. config.enabled = "on" /\ config.key # Unset
    BY <2>1 DEF Active
  <2>3. QED
    BY <2>1, <2>2, ConfigMeans DEF ParseEnabled
<1>2. QED
  BY <1>1, Safe, PTL

(* TheReasonIsLogged: a server that captures nothing has said why, and the
   operator sees it unless RUST_LOG hides that level. *)
THEOREM ReasonLogged == Spec => []TheReasonIsLogged
<1>1. SInv => TheReasonIsLogged
  <2> DEFINE flag == Asked("POSTHOG_ENABLED")
             key == Asked("POSTHOG_API_KEY")
  <2> SUFFICES ASSUME SInv, step = "ready", tracking = "noop"
               PROVE  \E i \in DOMAIN log :
                        /\ log[i].about \in Reasons
                        /\ log[i].level \in LevelsAsked => log[i].seen
                        /\ flag \in Falsey => log[i].about = "kill switch"
                        /\ flag \in Strings \ (Truthy \cup Falsey) => log[i].level = "warn"
                        /\ log[i].about = "no key" => key \in {Unset} \cup Blank
    BY DEF TheReasonIsLogged
  <2> DEFINE last == log[Len(log)]
  <2>1. Len(log) \in DOMAIN log
    <3>1. log \in Seq(Records) /\ log # <<>>
      BY DEF SInv, LogInv, TrackingInv
    <3>2. QED
      BY <3>1, LastElement
  <2>2. /\ last.seen = (last.level \in LevelsAsked)
        /\ IF Active
           THEN last.about = "client failed" /\ last.level = "warn"
           ELSE /\ last.about = DisabledReason
                /\ last.about = "invalid value" => last.level = "warn"
    BY DEF SInv, TrackingInv
  <2>3. /\ flag \in Strings \cup {Unset}
        /\ config.enabled = IF flag = Unset THEN "on" ELSE ParseEnabled(flag)
        /\ config.key = IF key \in Strings \ Blank THEN key ELSE Unset
        /\ key # NotUnicode
    BY ConfigMeans DEF Decided
  <2>4. key \in Strings \cup {Unset, NotUnicode}
    BY EnvironmentType DEF SInv, Names
  <2>5. /\ Unset \notin Strings /\ Truthy \subseteq Strings
        /\ Falsey \subseteq Strings \ Truthy
    BY StartupAssumption
  <2> HIDE DEF flag, key, last
  <2>6. flag \in Falsey => config.enabled = "off"
    BY <2>3, <2>5 DEF ParseEnabled
  <2>7. flag \in Strings \ (Truthy \cup Falsey) => config.enabled = "invalid"
    BY <2>3, <2>5 DEF ParseEnabled
  <2>8. flag \in Falsey => last.about = "kill switch"
    BY <2>2, <2>6 DEF Active, DisabledReason
  <2>9. flag \in Strings \ (Truthy \cup Falsey) => last.level = "warn"
    BY <2>2, <2>7 DEF Active, DisabledReason
  <2>10. last.about = "no key" => key \in {Unset} \cup Blank
    <3>1. SUFFICES ASSUME last.about = "no key" PROVE key \in {Unset} \cup Blank
      OBVIOUS
    <3>2. ~Active /\ DisabledReason = "no key"
      BY <2>2, <3>1
    <3>3. config.enabled \in {"on", "off", "invalid"}
      BY <2>3 DEF ParseEnabled
    <3>4. config.enabled = "on"
      BY <3>2, <3>3 DEF DisabledReason
    <3>5. config.key = Unset
      BY <3>2, <3>4 DEF Active
    <3>6. QED
      BY <2>3, <2>4, <2>5, <3>5
  <2>11. last.about \in Reasons
    BY <2>2 DEF DisabledReason, Reasons
  <2>12. last.level \in LevelsAsked => last.seen
    BY <2>2
  <2>13. QED
    BY <2>1, <2>8, <2>9, <2>10, <2>11, <2>12 DEF last
<1>2. QED
  BY <1>1, Safe, PTL
=============================================================================
