---------------------------- MODULE ErrorTracking ----------------------------
(***************************************************************************)
(* The process-wide exception sink (observability/error_tracking.rs): a    *)
(* write-once cell set by init, a fire-and-forget client behind it, and a  *)
(* dispatch that a failing sink cannot unwind through.                     *)
(*                                                                         *)
(* A report is [req, handled]: the request it is about (which the code     *)
(* only has in the message text) and the handled flag.                     *)
(***************************************************************************)
EXTENDS Sequences

VARIABLES
  sink,     \* SINK: "unset", "noop" or "posthog"
  client,   \* the global PostHog client: "absent", "running" or "stopped"
  captured, \* reports the running client accepted, in order
  dropped   \* reports the sink failed on, each logged by a warning

trackingVars == <<sink, client, captured, dropped>>

TrackingInit ==
  /\ sink = "unset"
  /\ client = "absent"
  /\ captured = <<>>
  /\ dropped = <<>>

(* What init leaves behind by the time the listener is bound. *)
TrackingReady ==
  /\ \/ sink = "noop" /\ client = "absent"
     \/ sink = "posthog" /\ client = "running"
  /\ captured = <<>>
  /\ dropped = <<>>

(* init with an active config: the client starts, or its construction fails
   and the no-op sink is installed in its place. *)
InitTracking(active) ==
  /\ \/ /\ active
        /\ client' = "running"
        /\ sink' = IF sink = "unset" THEN "posthog" ELSE sink
     \/ /\ sink' = IF sink = "unset" THEN "noop" ELSE sink
        /\ UNCHANGED client
  /\ UNCHANGED <<captured, dropped>>

(* shutdown drains the client's buffer and stops it; a no-op without one. *)
ShutdownTracking ==
  /\ client' = IF client = "running" THEN "stopped" ELSE client
  /\ UNCHANGED <<sink, captured, dropped>>

(* report_exception and dispatch.  The sink delivers to the client, or it
   fails (an event that cannot be built, a panic that dispatch catches) and
   the report is dropped with a warning.  A stopped client ignores it. *)
ReportException(report) ==
  /\ \/ /\ sink = "posthog"
        /\ client = "running"
        /\ \/ captured' = Append(captured, report) /\ UNCHANGED dropped
           \/ dropped' = Append(dropped, report) /\ UNCHANGED captured
     \/ /\ sink # "posthog" \/ client # "running"
        /\ UNCHANGED <<captured, dropped>>
  /\ UNCHANGED <<sink, client>>
=============================================================================
