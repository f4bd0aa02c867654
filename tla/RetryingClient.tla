--------------------------- MODULE RetryingClient ---------------------------
(***************************************************************************)
(* Clients that repeat a submission until it is settled, over the service  *)
(* of module Ingest, whose process may die and be started again.  The      *)
(* comment of ingest_batch is about these clients: it promises no          *)
(* deduplication across requests.  The module says how many copies of an   *)
(* event they cause, what the copies have in common, and what is lost.     *)
(*                                                                         *)
(* A request is <<c, n>>: the n-th try of client c.  A client waits for    *)
(* one answer at a time; when it gives up waiting it closes the connection *)
(* and never hears that answer, but the try may still be under way.        *)
(***************************************************************************)
EXTENDS Ingest

CONSTANTS
  Clients,
  MaxTries,  \* bound on the tries of a client
  MaxCrashes \* bound on the deaths of the process

ASSUME ClientAssumption ==
  /\ MaxTries \in Nat /\ MaxCrashes \in Nat
  /\ Requests = Clients \X (1..MaxTries)

VARIABLES
  tries,  \* per client, the tries made
  heard,  \* per client, whether it has the answer to its last try
  doubts, \* per client, the tries it replaced without knowing their answer
  crashes,\* how often the process died
  lost    \* entries that were only in a local queue when it did

clientVars == <<tries, heard, doubts, crashes, lost>>
retryVars == <<vars, clientVars>>

LastTry(c) == <<c, tries[c]>>

(* Error tracking is off: reports say nothing to a client. *)
RetryInit ==
  /\ Init /\ sink = "noop"
  /\ \A c \in Clients, n \in 1..MaxTries : sub[<<c, n>>] = sub[<<c, 1>>]
  /\ tries = [c \in Clients |-> 0]
  /\ heard = [c \in Clients |-> FALSE]
  /\ doubts = [c \in Clients |-> {}]
  /\ crashes = 0
  /\ lost = {}

-----------------------------------------------------------------------------
(* External: the client.                                                   *)

Hear(c) ==
  /\ tries[c] > 0 /\ ~heard[c] /\ stage[LastTry(c)] = "responded"
  /\ heard' = [heard EXCEPT ![c] = TRUE]
  /\ UNCHANGED <<vars, tries, doubts, crashes, lost>>

(* The first try, or the next one after an answer that leaves a chance. *)
Try(c) ==
  /\ tries[c] < MaxTries
  /\ tries[c] > 0 => heard[c] /\ response[LastTry(c)].status \in {408, 500, 503}
  /\ tries' = [tries EXCEPT ![c] = @ + 1]
  /\ heard' = [heard EXCEPT ![c] = FALSE]
  /\ UNCHANGED <<vars, doubts, crashes, lost>>

GiveUpWaiting(c) ==
  /\ tries[c] \in 1..(MaxTries - 1) /\ ~heard[c]
  /\ tries' = [tries EXCEPT ![c] = @ + 1]
  /\ doubts' = [doubts EXCEPT ![c] = @ \cup {tries[c]}]
  /\ UNCHANGED <<vars, heard, crashes, lost>>

-----------------------------------------------------------------------------
Step(r) == (r[2] <= tries[r[1]] /\ Arrival(r)) \/ AwaitBody(r) \/ Running(r)

Serve == (Kafka \/ \E r \in Requests : Step(r)) /\ UNCHANGED clientVars

(* The process is killed and started again.  Nothing of it is persisted:
   its handlers, its queue and its observers are gone; the topic remains. *)
Crash ==
  /\ crashes < MaxCrashes
  /\ crashes' = crashes + 1
  /\ lost' = lost \cup UNION {Range(unsent[p]) : p \in Partitions}
  /\ stage' = [r \in Requests |->
                 IF stage[r] \in {"body", "running"} THEN "dropped" ELSE stage[r]]
  /\ unsent' = [p \in Partitions |-> <<>>]
  /\ unacked' = {} /\ observers' = {}
  /\ UNCHANGED <<sub, now, next, response, topic, failed, warned, trackingVars,
                 tries, heard, doubts>>

(* Nothing is left to do for the service, and the clients may rest. *)
Rest ==
  /\ \A c \in Clients, n \in 1..MaxTries : n <= tries[c] => Ended(<<c, n>>)
  /\ Pending = {} /\ observers = {}
  /\ UNCHANGED retryVars

RetryNext ==
  \/ \E c \in Clients : Hear(c) \/ Try(c) \/ GiveUpWaiting(c)
  \/ Serve
  \/ Crash
  \/ Rest

RetrySpec == RetryInit /\ [][RetryNext]_retryVars

-----------------------------------------------------------------------------
(* Properties                                                              *)

RetryTypeOK ==
  /\ TypeOK
  /\ tries \in [Clients -> 0..MaxTries]
  /\ heard \in [Clients -> BOOLEAN]
  /\ \A c \in Clients : doubts[c] \subseteq 1..(tries[c] - 1)
  /\ crashes \in 0..MaxCrashes
  /\ lost \subseteq Entries

InTopic == UNION {Range(topic[p]) : p \in Partitions}

(* Every copy of the i-th event of a client that Kafka was ever given. *)
Copies(c, i) == {e \in Enqueued \cup lost : e.req[1] = c /\ e.index = i}

(* Tries answered with a failure in the middle. *)
CutTries(c) ==
  {n \in 1..MaxTries : /\ response[<<c, n>>].status \in {500, 503}
                       /\ response[<<c, n>>].envelope}

(* CopiesNeedDoubt: beyond its first copy, an event has at most one for each
   try the client gave up on and each try that was cut; the last event has
   none from a try that was cut.  So a client that waits for its answers
   never duplicates a single event, whatever else it is told (408, 500 or
   503), and of a batch only what precedes the event that failed: "a client
   that retries the whole batch can therefore re-publish those". *)
CopiesNeedDoubt ==
  \A c \in Clients : LET size == Size(<<c, 1>>) IN
    \A i \in 1..size :
      Cardinality(Copies(c, i)) <=
        1 + Cardinality(doubts[c] \cup (IF i = size THEN {} ELSE CutTries(c)))

(* CopiesAreInterchangeable: the copies of an event meet in one partition and
   differ in nothing but their receipt times: a consumer that keeps any one
   of them per source and id loses nothing the client said. *)
CopiesAreInterchangeable ==
  \A e1, e2 \in Enqueued \cup lost :
    e1.req[1] = e2.req[1] /\ e1.index = e2.index =>
      /\ PartitionOf[e1.message.key] = PartitionOf[e2.message.key]
      /\ \A k \in DOMAIN e1.message.payload \ {"time"} :
           e1.message.payload[k] = e2.message.payload[k]
      /\ \/ e1.message.payload.time = e2.message.payload.time
         \/ sub[e1.req].events[e1.index]["time"] = Null

(* CrashesLoseOnlyTheQueue: once the client has heard a 202, each of its
   events is in the topic, in the queue, reported as failed, or was in the
   queue of a process that died; a death costs at most one queue. *)
CrashesLoseOnlyTheQueue ==
  /\ Cardinality(lost) <= crashes * QueueCapacity
  /\ \A c \in Clients : heard[c] /\ response[LastTry(c)].status = 202 =>
       \A i \in 1..Size(LastTry(c)) :
         \E e \in InTopic \cup Pending \cup failed \cup lost :
           e.req = LastTry(c) /\ e.index = i

(* FirstCopiesKeepOrder: unless a message of the client failed or was lost, a
   consumer of a partition sees no event of it before the earlier events
   of the batch, however its tries overlap. *)
FirstCopiesKeepOrder ==
  \A c \in Clients : (\A e \in failed \cup lost : e.req[1] # c) =>
    \A p \in Partitions : \A j \in DOMAIN topic[p] :
      topic[p][j].req[1] = c =>
        \A i \in 1..(topic[p][j].index - 1) :
          PartitionOf[sub[<<c, 1>>].events[i]["subject"]] = p =>
            \E k \in 1..(j - 1) : topic[p][k].req[1] = c /\ topic[p][k].index = i
=============================================================================
