-------------------------- MODULE MCRetryingClient --------------------------
(***************************************************************************)
(* Small instances of RetryingClient for TLC: a client that submits one    *)
(* event or a batch of two, with a client time and without; its tries may  *)
(* overlap and compete with each other for the queue.                      *)
(***************************************************************************)
EXTENDS RetryingClient, MCIngest

MCRequests == Clients \X (1..MaxTries)
=============================================================================
