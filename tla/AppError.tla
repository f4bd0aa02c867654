------------------------------ MODULE AppError ------------------------------
(***************************************************************************)
(* The responses of the service: how each AppError variant is rendered     *)
(* (error.rs), and the responses that are not AppErrors because a layer    *)
(* around the router produced them (middleware.rs, the Bytes extractor).   *)
(*                                                                         *)
(* A response is reduced to its status, whether its body is the            *)
(* { "errors": [...] } envelope, the entries of that envelope, and whether *)
(* it carries Retry-After.                                                 *)
(***************************************************************************)
EXTENDS Integers

Variants == {"BadRequest", "Validation", "UnsupportedMediaType", "NotFound",
             "MethodNotAllowed", "ServiceUnavailable", "Internal"}

(* An AppError that carries one message; Validation carries one per item. *)
Error(variant) == [variant |-> variant, items |-> {[detail |-> variant]}]
ValidationError(items) == [variant |-> "Validation", items |-> items]

StatusOf(variant) ==
  CASE variant \in {"BadRequest", "Validation"} -> 400
    [] variant = "UnsupportedMediaType"         -> 415
    [] variant = "NotFound"                     -> 404
    [] variant = "MethodNotAllowed"             -> 405
    [] variant = "ServiceUnavailable"           -> 503
    [] variant = "Internal"                     -> 500

(* Mutant of ExceptionReport: back-pressure is captured as a fault too. *)
ExceptionReportAny5xx(error) == error.variant \in {"Internal", "ServiceUnavailable"}

(* Only an internal failure is a server-side fault worth capturing. *)
ExceptionReport(error) == error.variant = "Internal"

IntoResponse(error) ==
  [status     |-> StatusOf(error.variant),
   envelope   |-> TRUE,
   errors     |-> error.items,
   retryAfter |-> error.variant = "ServiceUnavailable"]

(* Responses outside the envelope: success, a caught panic, the timeout    *)
(* layer, and the rejections of the body extractor.                        *)
Plain(status) ==
  [status |-> status, envelope |-> FALSE, errors |-> {}, retryAfter |-> FALSE]

Healthy  == Plain(200)
Accepted == Plain(202)
TimedOut == Plain(408)
Panicked == Plain(500)
BodyRejections == {Plain(400), Plain(413)}

(* No response yet. *)
NoResponse == Plain(0)
=============================================================================
