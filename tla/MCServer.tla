------------------------------ MODULE MCServer ------------------------------
(***************************************************************************)
(* Small instances of Server for TLC: a request that publishes two events, *)
(* one that publishes one, one that panics and one that is refused.        *)
(***************************************************************************)
EXTENDS Server, MCIngest

MCLifeSubmissions == {Single(B), Batch(<<ATimed, A>>), Single(Edge), Get("unknown")}
=============================================================================
