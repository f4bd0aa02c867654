----------------------------- MODULE MCStartup -----------------------------
(***************************************************************************)
(* Environments for TLC: at most three variables of the process stray from *)
(* a plain setting, each to any class of value, over five .env files: none *)
(* at all; one that would expose the server and turn tracking off, whole   *)
(* and with a malformed line before the kill switch; a complete one, whole *)
(* and with a malformed first line.                                        *)
(***************************************************************************)
EXTENDS Startup

MCStrings == {" ", "0", "7", "true", "false", "junk", "sasl_ssl", "warn"}
MCPortOf == [s \in {"0", "7"} |-> IF s = "0" THEN 0 ELSE 7]
MCCapOf == MCPortOf
\* "0" turns logging off, and a word that is no level names another target.
MCShows == [s \in MCStrings |-> CASE s = "warn" -> {"warn"} [] s = " " -> Levels [] OTHER -> {}]

None == [v \in Names |-> Unset]

Exposing == [None EXCEPT !["HEROKU"] = "true", !["POSTHOG_ENABLED"] = "false",
                         !["KAFKA_BROKERS"] = "junk", !["PORT"] = "0"]
Complete == [None EXCEPT !["KAFKA_BROKERS"] = "junk", !["POSTHOG_API_KEY"] = "junk",
                         !["KAFKA_SECURITY_PROTOCOL"] = "sasl_ssl",
                         !["MAX_BATCH_EVENTS"] = "7", !["RUST_LOG"] = "warn"]

Files == {[dotenv |-> None, unread |-> {}],
          [dotenv |-> Exposing, unread |-> {}],
          [dotenv |-> Exposing, unread |-> {"POSTHOG_ENABLED", "PORT"}],
          [dotenv |-> Complete, unread |-> {}],
          [dotenv |-> Complete, unread |-> Names]}

Classes ==
  [exposure |-> {Unset, "7", NotUnicode}, port |-> {Unset, "7", "junk", NotUnicode},
   cap |-> {Unset, "0", "7", NotUnicode}, key |-> {Unset, " ", "true", NotUnicode},
   flag |-> {Unset, " ", "true", "false", "junk", NotUnicode},
   brokers |-> {Unset, " ", "7", NotUnicode}, protocol |-> {Unset, "junk", "sasl_ssl"},
   user |-> {Unset, " ", "7"}, format |-> {Unset, "7", NotUnicode},
   filter |-> {Unset, "0", "warn", NotUnicode}]

ProcessOf(c) ==
  [None EXCEPT
    !["DEV_DOCKER"] = c.exposure, !["PORT"] = c.port, !["MAX_BATCH_EVENTS"] = c.cap,
    !["POSTHOG_API_KEY"] = c.key, !["POSTHOG_ENABLED"] = c.flag,
    !["KAFKA_BROKERS"] = c.brokers, !["KAFKA_SECURITY_PROTOCOL"] = c.protocol,
    !["KAFKA_SASL_MECHANISM"] = c.user, !["KAFKA_SASL_PASSWORD"] = "7",
    !["KAFKA_SASL_USERNAME"] = c.user, !["RUST_LOG_FORMAT"] = c.format,
    !["RUST_LOG"] = c.filter]

Plain == [exposure |-> Unset, port |-> Unset, cap |-> Unset, key |-> "true",
          flag |-> Unset, brokers |-> "7", protocol |-> Unset, user |-> Unset,
          format |-> Unset, filter |-> Unset]

Stray(C) == UNION {{[c EXCEPT ![k] = x] : x \in Classes[k]} : c \in C, k \in DOMAIN Plain}

Straying == Stray(Stray(Stray({Plain})))

MCEnvironments ==
  {[process |-> ProcessOf(c), dotenv |-> f.dotenv, unread |-> f.unread] :
     c \in Straying, f \in Files}
=============================================================================
