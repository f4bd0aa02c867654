-------------------------- MODULE RefinementProofs --------------------------
(***************************************************************************)
(* Ingest and its test harness implement IngestContract, for any requests, *)
(* submissions, worker threads, partitions and queue capacity; and what    *)
(* the tests read off the recording producer is what it says.              *)
(*                                                                         *)
(* The handler's counter is the mapping: the contract follows from it      *)
(* alone (Counted), and the positions Kafka was given, or the fake         *)
(* producer recorded, are 1..next[r] in every reachable state.             *)
(***************************************************************************)
EXTENDS TestHarness, IngestProofs

-----------------------------------------------------------------------------
(* The contract, by the handler's counter.                                 *)

Counted == INSTANCE IngestContract WITH
  Cap    <- MaxBatchEvents,
  size   <- [r \in Requests |-> Size(r)],
  handed <- [r \in Requests |-> 1..next[r]],
  fate   <- [r \in Requests |-> FateOf(r)]

(* What the client of a request that has ended is told fits the counter. *)
Told(r) ==
  \/ FateOf(r) = "accepted" /\ next[r] = Size(r) /\ Size(r) > 0
  \/ FateOf(r) = "failed" /\ next[r] < Size(r)
  \/ FateOf(r) = "unpublished" /\ next[r] = 0

(* A request that has ended was told the truth about its counter. *)
LEMMA Concluded ==
  ASSUME RequestTypeOK, NEW r \in Requests, RequestInv(r), Ended(r)
  PROVE  Told(r)
<1>1. sub[r] \in Submissions /\ next[r] \in Nat /\ Size(r) \in Nat
  BY ElementsType DEF RequestTypeOK, Size
<1>2. CASE stage[r] = "dropped"
  <2>1. next[r] = 0 /\ response[r] = NoResponse
    BY <1>2 DEF RequestInv
  <2>2. response[r].status = 0
    BY <2>1 DEF NoResponse, Plain
  <2>3. FateOf(r) = "unpublished"
    BY <2>2 DEF FateOf
  <2>4. QED
    BY <2>1, <2>3 DEF Told
<1>3. CASE stage[r] = "responded"
  <2>1. Fits(r, response[r])
    BY <1>3 DEF RequestInv
  <2>2. CASE response[r].status = 202
    <3>1. Refusals(sub[r]) = {} /\ next[r] = Size(r)
      BY <2>1, <2>2 DEF Fits
    <3>2. Size(r) > 0
      BY <1>1, <3>1, NotRefused DEF Size
    <3>3. FateOf(r) = "accepted"
      BY <2>2 DEF FateOf
    <3>4. QED
      BY <3>1, <3>2, <3>3 DEF Told
  <2>3. CASE response[r].status \in {500, 503} /\ response[r].envelope
    <3>1. next[r] < Size(r)
      BY <2>1, <2>3 DEF Fits
    <3>2. FateOf(r) = "failed"
      BY <2>3 DEF FateOf
    <3>3. QED
      BY <3>1, <3>2 DEF Told
  <2>4. CASE /\ response[r].status # 202
             /\ ~(response[r].status \in {500, 503} /\ response[r].envelope)
    <3>1. next[r] = 0
      BY <2>1, <2>4 DEF Fits
    <3>2. FateOf(r) = "unpublished"
      BY <2>4 DEF FateOf
    <3>3. QED
      BY <3>1, <3>2 DEF Told
  <2>5. QED
    BY <2>2, <2>3, <2>4
<1>4. QED
  BY <1>2, <1>3 DEF Ended

(* What a step reads of every request before it and after it. *)
Accounts ==
  \A r \in Requests : next[r] \in Nat /\ Size(r) \in Nat /\ (Ended(r) => Told(r))

(* What holds of the requests gives their accounts ... *)
LEMMA RequestsAccount ==
  RequestTypeOK /\ (\A r \in Requests : RequestInv(r)) => Accounts
<1> SUFFICES ASSUME RequestTypeOK, \A r \in Requests : RequestInv(r), NEW r \in Requests
             PROVE  next[r] \in Nat /\ Size(r) \in Nat /\ (Ended(r) => Told(r))
  BY DEF Accounts
<1>1. sub[r] \in Submissions /\ next[r] \in Nat
  BY DEF RequestTypeOK
<1>2. QED
  BY <1>1, ElementsType, Concluded DEF Size

(* ... and gives them after the step. *)
LEMMA RequestsAccountNext ==
  RequestTypeOK' /\ (\A r \in Requests : RequestInv(r)') => Accounts'
<1>1. (RequestTypeOK /\ (\A r \in Requests : RequestInv(r)))'
        <=> RequestTypeOK' /\ (\A r \in Requests : RequestInv(r)')
  OBVIOUS
<1>2. (RequestTypeOK /\ (\A r \in Requests : RequestInv(r)))' => Accounts'
  BY RequestsAccount, PTL
<1>3. QED
  BY <1>1, <1>2

size == [r \in Requests |-> Size(r)]
counted == [r \in Requests |-> 1..next[r]]
fate == [r \in Requests |-> FateOf(r)]

(* Nothing asked yet is the contract's initial state. *)
LEMMA CountedInit == RequestInit /\ Accounts => Counted!Init
<1> SUFFICES ASSUME RequestInit, Accounts PROVE Counted!Init
  OBVIOUS
<1>1. ASSUME NEW r \in Requests
      PROVE  Size(r) \in Nat /\ 1..next[r] = {} /\ FateOf(r) = "open"
  <2>1. next[r] = 0 /\ stage[r] = "idle"
    BY DEF RequestInit
  <2>2. 1..0 = {} /\ Size(r) \in Nat
    BY DEF Accounts
  <2>3. FateOf(r) = "open"
    BY <2>1 DEF FateOf, Ended
  <2>4. QED
    BY <2>1, <2>2, <2>3
<1>2. [r \in Requests |-> Size(r)] \in [Requests -> Nat]
  BY <1>1
<1>3. [r \in Requests |-> 1..next[r]] = [r \in Requests |-> {}]
  BY <1>1
<1>4. [r \in Requests |-> FateOf(r)] = [r \in Requests |-> "open"]
  BY <1>1
<1>5. QED
  BY <1>2, <1>3, <1>4 DEF Counted!Init

(* A step that touches no request is a stuttering step of the contract. *)
LEMMA CountedStutter ==
  ASSUME UNCHANGED <<sub, stage, next, response>>
  PROVE  UNCHANGED Counted!vars
<1>1. ASSUME NEW r \in Requests
      PROVE  Size(r)' = Size(r) /\ next'[r] = next[r] /\ FateOf(r)' = FateOf(r)
  BY DEF Size, FateOf, Ended
<1>2. size' = size /\ counted' = counted /\ fate' = fate
  BY <1>1 DEF size, counted, fate
<1>3. QED
  BY <1>2 DEF size, counted, fate, Counted!vars

(* A step that ends request q, or only moves it between the stages before
   its end, with its counter where it was. *)
LEMMA CountedMove ==
  ASSUME Accounts, Accounts', NEW q \in Requests, ~Ended(q), Spares(q), next' = next
  PROVE  [Counted!Next]_(Counted!vars)
<1>1. ASSUME NEW r \in Requests, r # q
      PROVE  FateOf(r)' = FateOf(r)
  <2>1. stage'[r] = stage[r] /\ response'[r] = response[r]
    BY <1>1 DEF Spares
  <2>2. QED
    BY <2>1 DEF FateOf, Ended
<1>2. \A r \in Requests : Size(r)' = Size(r)
  BY DEF Size, Spares
<1>3. Size(q) \in Nat /\ next[q] \in Nat /\ FateOf(q) = "open"
  BY DEF Accounts, FateOf
<1>4. size' = size /\ counted' = counted
  BY <1>2 DEF size, counted
<1>5. fate' = [fate EXCEPT ![q] = FateOf(q)']
  BY <1>1 DEF fate
<1>6. CASE Ended(q)'
  <2>1. Told(q)'
    BY <1>6 DEF Accounts
  <2>2. \/ FateOf(q)' = "accepted" /\ next[q] = Size(q) /\ Size(q) > 0
        \/ FateOf(q)' = "failed" /\ next[q] < Size(q)
        \/ FateOf(q)' = "unpublished" /\ next[q] = 0
    BY <2>1, <1>2 DEF Told
  <2>3. size[q] = Size(q) /\ counted[q] = 1..next[q] /\ fate[q] = "open"
    BY <1>3 DEF size, counted, fate
  <2>4. CASE FateOf(q)' = "accepted" /\ next[q] = Size(q) /\ Size(q) > 0
    <3>1. Counted!Accept(q)
      BY <2>3, <2>4, <1>4, <1>5
      DEF size, counted, fate, Counted!Accept, Counted!Conclude
    <3>2. QED
      BY <3>1 DEF Counted!Next
  <2>5. CASE FateOf(q)' = "failed" /\ next[q] < Size(q)
    <3>1. 1..next[q] # 1..Size(q)
      BY <1>3, <2>5
    <3>2. Counted!Fail(q)
      BY <2>3, <2>5, <3>1, <1>4, <1>5
      DEF size, counted, fate, Counted!Fail, Counted!Conclude
    <3>3. QED
      BY <3>2 DEF Counted!Next
  <2>6. CASE FateOf(q)' = "unpublished" /\ next[q] = 0
    <3>1. counted[q] = {}
      BY <2>3, <2>6
    <3>2. Counted!Decline(q)
      BY <2>3, <2>6, <3>1, <1>4, <1>5
      DEF size, counted, fate, Counted!Decline, Counted!Conclude
    <3>3. QED
      BY <3>2 DEF Counted!Next
  <2>7. QED
    BY <2>2, <2>4, <2>5, <2>6
<1>7. CASE ~Ended(q)'
  <2>1. FateOf(q)' = "open"
    BY <1>7 DEF FateOf
  <2>2. fate' = fate
    BY <1>1, <1>3, <2>1 DEF fate
  <2>3. QED
    BY <1>4, <2>2 DEF size, counted, fate, Counted!vars
<1>8. QED
  BY <1>6, <1>7

(* A request that publishes is within the cap. *)
LEMMA WithinCap ==
  ASSUME RequestTypeOK, NEW q \in Requests, RequestInv(q), stage[q] = "running"
  PROVE  Size(q) <= MaxBatchEvents
<1>1. sub[q] \in Submissions /\ Refusals(sub[q]) = {}
  BY DEF RequestTypeOK, RequestInv
<1>2. QED
  BY <1>1, NotRefused DEF Size

(* The publish loop hands over the next event. *)
LEMMA CountedAdvance ==
  ASSUME Accounts, NEW q \in Requests, ~Ended(q), next[q] < Size(q),
         Size(q) <= MaxBatchEvents, next' = [next EXCEPT ![q] = @ + 1], next \in [Requests -> Nat],
         sub' = sub, stage' = stage, response' = response
  PROVE  Counted!HandOver(q)
<1>1. ASSUME NEW r \in Requests
      PROVE  /\ Size(r)' = Size(r) /\ FateOf(r)' = FateOf(r)
             /\ r # q => next'[r] = next[r]
  BY DEF Size, FateOf, Ended
<1>2. /\ next'[q] = next[q] + 1
      /\ Size(q) \in Nat /\ next[q] \in Nat /\ FateOf(q) = "open"
  BY DEF Accounts, FateOf
<1>3. /\ size' = size /\ fate' = fate
      /\ counted' = [counted EXCEPT ![q] = 1..(next[q] + 1)]
  BY <1>1, <1>2 DEF size, counted, fate
<1>4. /\ fate[q] = "open" /\ size[q] = Size(q)
      /\ counted[q] = 1..((next[q] + 1) - 1)
      /\ next[q] + 1 \in 1..Size(q)
  BY <1>2 DEF size, counted, fate
<1>5. QED
  BY <1>3, <1>4 DEF size, counted, fate, Counted!HandOver

-----------------------------------------------------------------------------
(* The service.                                                            *)

(* What Kafka was given for a request is its events up to the counter. *)
LEMMA PositionsAre ==
  ASSUME Inv, NEW r \in Requests
  PROVE  Positions(r) = 1..next[r]
<1>1. EnqueuedBy(r) = {EntryOf(r, i) : i \in 1..next[r]}
  BY DEF Inv, ProgressIsPublished, PublishedInv
<1>2. \A i \in 1..next[r] : EntryOf(r, i).index = i
  BY DEF EntryOf
<1>3. QED
  BY <1>1, <1>2 DEF Positions

handed == [r \in Requests |-> Positions(r)]

(* So the counter stands for the positions ... *)
LEMMA HandedIsCounted == Inv => handed = counted
BY PositionsAre DEF handed, counted

(* ... after the step, too. *)
LEMMA HandedIsCountedNext == Inv' => handed' = counted'
<1>1. (Inv => handed = counted)'
  BY HandedIsCounted, PTL
<1>2. QED
  BY <1>1

(* A step of the contract by the counter is one by what Kafka was given. *)
LEMMA CountedStep ==
  ASSUME handed = counted, handed' = counted', [Counted!Next]_(Counted!vars)
  PROVE  [Contract!Next]_(Contract!vars)
<1>1. CASE UNCHANGED Counted!vars
  BY <1>1 DEF Counted!vars, Contract!vars, handed, counted
<1>2. ASSUME NEW q \in Requests, Counted!HandOver(q) PROVE Contract!HandOver(q)
  BY <1>2 DEF Counted!HandOver, Contract!HandOver, handed, counted
<1>3. ASSUME NEW q \in Requests, NEW f, Counted!Conclude(q, f) PROVE Contract!Conclude(q, f)
  BY <1>3 DEF Counted!Conclude, Contract!Conclude, handed, counted
<1>4. ASSUME NEW q \in Requests
      PROVE  /\ Counted!Accept(q) => Contract!Accept(q)
             /\ Counted!Fail(q) => Contract!Fail(q)
             /\ Counted!Decline(q) => Contract!Decline(q)
  BY <1>3 DEF Counted!Accept, Contract!Accept, Counted!Fail, Contract!Fail,
     Counted!Decline, Contract!Decline, handed, counted
<1>5. QED
  BY <1>1, <1>2, <1>4 DEF Counted!Next, Contract!Next

(* Initial states are initial states of the contract. *)
LEMMA MappedInit == RequestInit /\ Inv => Contract!Init
<1> SUFFICES ASSUME RequestInit, Inv PROVE Contract!Init
  OBVIOUS
<1>1. Accounts /\ handed = counted
  BY RequestsAccount, HandedIsCounted DEF Inv, TypeOK, ProgressIsPublished
<1>2. Counted!Init
  BY <1>1, CountedInit
<1>3. QED
  BY <1>1, <1>2 DEF Counted!Init, Contract!Init, handed, counted

(* Each step is a step of the contract or changes nothing of it, and so does
   one that touches neither requests nor Kafka. *)
LEMMA MappedNext ==
  ASSUME Inv, Inv', [Next]_vars \/ UNCHANGED <<requestVars, kafkaVars>>
  PROVE  [Contract!Next]_(Contract!vars)
<1> SUFFICES [Counted!Next]_(Counted!vars)
  BY HandedIsCounted, HandedIsCountedNext, CountedStep
<1>1. Accounts /\ Accounts'
  BY RequestsAccount, RequestsAccountNext DEF Inv, TypeOK, ProgressIsPublished
<1>2. RequestTypeOK /\ TrackingTypeOK /\ \A r \in Requests : RequestInv(r)
  BY DEF Inv, TypeOK, ProgressIsPublished
<1>3. ASSUME NEW q \in Requests, Arrival(q) \/ AwaitBody(q) \/ Running(q)
      PROVE  [Counted!Next]_(Counted!vars)
  <2>1. CASE Enqueue(q)
    <3>1. /\ stage[q] = "running" /\ next[q] < Size(q)
          /\ next' = [next EXCEPT ![q] = @ + 1]
          /\ sub' = sub /\ stage' = stage /\ response' = response
      BY <2>1 DEF Enqueue
    <3>2. Size(q) <= MaxBatchEvents
      BY <1>2, <3>1, WithinCap
    <3>3. Counted!HandOver(q)
      BY <1>1, <1>2, <3>1, <3>2, CountedAdvance DEF RequestTypeOK, Ended
    <3>4. QED
      BY <3>3 DEF Counted!Next
  <2>2. CASE ~Enqueue(q)
    <3>1. stage[q] \in {"idle", "body", "running"} /\ next' = next
      BY <1>3, <2>2 DEF Arrival, Health, NotFound, MethodNotAllowed, ReceiveHead,
         AwaitBody, Timeout, Disconnect, BodyRejected, Refuse, HandlerPanic, Accept,
         Running, EnqueueQueueFull, EnqueueBackend, Finish, Respond, RespondError
    <3>2. Spares(q)
      BY <1>2, <1>3, HandlerStep DEF Keeps
    <3>3. ~Ended(q)
      BY <3>1 DEF Ended
    <3>4. QED
      BY <1>1, <3>1, <3>2, <3>3, CountedMove
  <2>3. QED
    BY <2>1, <2>2
<1>4. CASE UNCHANGED <<sub, stage, next, response>>
  BY <1>4, CountedStutter
<1>5. QED
  BY <1>3, <1>4 DEF Next, RequestNext, Kafka, Quiescent, vars, requestVars

(* Every behaviour of the service is one its clients' contract allows: events
   are handed over in order and one by one, and the answer means that all,
   not all, or none of them were. *)
THEOREM Implements == Spec => ImplementsContract
<1>1. Spec => []Inv
  BY InitInv, NextInv, PTL DEF Spec
<1>2. Init => Contract!Init
  BY InitInv, MappedInit DEF Init
<1>3. Inv /\ Inv' /\ [Next]_vars => [Contract!Next]_(Contract!vars)
  BY MappedNext
<1>4. QED
  BY <1>1, <1>2, <1>3, PTL DEF Spec, ImplementsContract, Contract!Spec

-----------------------------------------------------------------------------
(* The test harness.                                                       *)

(* Requests do not overlap. *)
OneUnderWay == \A q, r \in Requests : UnderWay(q) /\ UnderWay(r) => q = r

(* An entry of published() begins a batch or continues the one before it. *)
Follows(i) ==
  \/ produced[i].index = 1
  \/ i > 1 /\ produced[i - 1].req = produced[i].req
           /\ produced[i - 1].index = produced[i].index - 1

(* published() lists the events of a request up to its counter, and ends with
   the latest event of the handler that is publishing. *)
ListInv ==
  /\ produced \in Seq(Entries)
  /\ \A i \in DOMAIN produced : Follows(i)
  /\ \A r \in Requests :
       /\ IsFiniteSet(PlacesOf(r)) /\ Cardinality(PlacesOf(r)) = next[r]
       /\ PublishedPositions(r) = 1..next[r]
       /\ stage[r] = "running" /\ next[r] # 0 =>
            /\ produced # <<>>
            /\ produced[Len(produced)].req = r /\ produced[Len(produced)].index = next[r]

(* The producer records every event or refuses the first one. *)
ModeInv ==
  \A r \in Requests :
    /\ mode # "record" => next[r] = 0
    /\ response[r].status \in {500, 503} => next[r] = 0

HInv ==
  /\ RequestTypeOK /\ TrackingTypeOK /\ \A r \in Requests : RequestInv(r)
  /\ OneUnderWay /\ ListInv /\ ModeInv

(* No test has run. *)
LEMMA HarnessStart == HarnessInit => HInv
<1> SUFFICES ASSUME HarnessInit PROVE HInv
  OBVIOUS
<1>1. TrackingTypeOK
  <2>1. sink = "unset" /\ client = "absent" /\ captured = <<>> /\ dropped = <<>>
    BY DEF HarnessInit, TrackingInit
  <2>2. QED
    BY <2>1 DEF TrackingTypeOK
<1>2. RequestTypeOK /\ \A r \in Requests : RequestInv(r)
  BY <1>1, FreshInv DEF HarnessInit, Inv, TypeOK, ProgressIsPublished
<1>3. /\ produced = <<>>
      /\ \A r \in Requests :
           stage[r] = "idle" /\ next[r] = 0 /\ response[r] = NoResponse
  BY DEF HarnessInit, RequestInit
<1>4. OneUnderWay
  BY <1>3 DEF OneUnderWay, UnderWay
<1>5. ListInv
  <2>1. DOMAIN produced = {} /\ produced \in Seq(Entries)
    BY <1>3
  <2>2. ASSUME NEW r \in Requests
        PROVE  PlacesOf(r) = {} /\ PublishedPositions(r) = {} /\ 1..next[r] = {}
    BY <1>3, <2>1 DEF PlacesOf, PublishedPositions
  <2>3. ASSUME NEW r \in Requests
        PROVE  /\ IsFiniteSet(PlacesOf(r)) /\ Cardinality(PlacesOf(r)) = next[r]
               /\ PublishedPositions(r) = 1..next[r]
    BY <1>3, <2>2, FS_EmptySet
  <2>4. QED
    BY <1>3, <2>1, <2>3 DEF ListInv
<1>6. ModeInv
  BY <1>3 DEF ModeInv
<1>7. QED
  BY <1>1, <1>2, <1>4, <1>5, <1>6 DEF HInv

(* A step that records nothing, of the one request there is. *)
LEMMA HarnessHolds ==
  ASSUME HInv, NEW q \in Requests, Keeps(q), Holds(q), UNCHANGED fakeVars,
         UnderWay(q) \/ \A r \in Requests : ~UnderWay(r),
         stage'[q] = "running" => next[q] = 0,
         response'[q].status \in {500, 503} => next[q] = 0
  PROVE  HInv'
<1>1. produced' = produced /\ mode' = mode /\ next' = next
  BY DEF fakeVars, Holds
<1>2. \A r \in Requests \ {q} : stage'[r] = stage[r] /\ response'[r] = response[r]
  BY DEF Keeps, Spares
<1>3. RequestTypeOK' /\ TrackingTypeOK' /\ \A r \in Requests : RequestInv(r)'
  <2>1. ASSUME NEW r \in Requests, r # q PROVE RequestInv(r)'
    BY <2>1, Untouched DEF HInv, Keeps, Spares
  <2>2. QED
    BY <2>1 DEF Keeps
<1>4. OneUnderWay'
  BY <1>2 DEF HInv, OneUnderWay, UnderWay
<1>5. ListInv'
  <2>1. \A r \in Requests :
          PlacesOf(r)' = PlacesOf(r) /\ PublishedPositions(r)' = PublishedPositions(r)
    BY <1>1 DEF PlacesOf, PublishedPositions
  <2>2. \A i \in DOMAIN produced' : Follows(i)'
    BY <1>1 DEF HInv, ListInv, Follows
  <2>3. ASSUME NEW r \in Requests, stage'[r] = "running", next'[r] # 0
        PROVE  /\ produced' # <<>>
               /\ produced'[Len(produced')].req = r
               /\ produced'[Len(produced')].index = next'[r]
    <3>1. r # q /\ stage[r] = "running"
      BY <1>1, <1>2, <2>3
    <3>2. QED
      BY <1>1, <2>3, <3>1 DEF HInv, ListInv
  <2>4. produced' \in Seq(Entries)
    BY <1>1 DEF HInv, ListInv
  <2>5. \A r \in Requests :
          /\ IsFiniteSet(PlacesOf(r)') /\ Cardinality(PlacesOf(r)') = next'[r]
          /\ PublishedPositions(r)' = 1..next'[r]
    BY <1>1, <2>1 DEF HInv, ListInv
  <2>6. QED
    BY <2>2, <2>3, <2>4, <2>5 DEF ListInv
<1>6. ModeInv'
  <2>1. ASSUME NEW r \in Requests
        PROVE  /\ mode # "record" => next[r] = 0
               /\ response'[r].status \in {500, 503} => next[r] = 0
    BY <1>2 DEF HInv, ModeInv
  <2>2. QED
    BY <1>1, <2>1 DEF ModeInv
<1>7. QED
  BY <1>3, <1>4, <1>5, <1>6 DEF HInv

(* A test sends its next request. *)
LEMMA RunStep ==
  ASSUME HInv, NEW q \in Requests, Run(q)
  PROVE  HInv' /\ Keeps(q) /\ Holds(q)
<1>1. /\ Health(q) \/ NotFound(q) \/ MethodNotAllowed(q) \/ ReceiveHead(q)
      /\ UNCHANGED fakeVars /\ \A r \in Requests : ~UnderWay(r)
  BY DEF Run
<1>2. Keeps(q) /\ Holds(q)
  BY <1>1, ArrivalStep DEF HInv
<1>3. stage[q] = "idle"
  BY <1>1 DEF Health, NotFound, MethodNotAllowed, ReceiveHead
<1>4. next[q] = 0
  BY <1>3 DEF HInv, RequestInv
<1>5. QED
  BY <1>1, <1>2, <1>4, HarnessHolds

(* The handler decides, or answers 202. *)
LEMMA HandleStep ==
  ASSUME HInv, NEW q \in Requests, Handle(q)
  PROVE  HInv' /\ Keeps(q) /\ Holds(q)
<1>1. RequestTypeOK /\ TrackingTypeOK /\ RequestInv(q)
  BY DEF HInv
<1>2. UNCHANGED fakeVars
  BY DEF Handle
<1>3. CASE Refuse(q) \/ HandlerPanic(q) \/ Accept(q)
  <2>1. Keeps(q) /\ Holds(q)
    BY <1>1, <1>3, AwaitBodyStep
  <2>2. stage[q] = "body"
    BY <1>3 DEF Refuse, HandlerPanic, Accept
  <2>3. next[q] = 0 /\ UnderWay(q)
    BY <1>1, <2>2 DEF RequestInv, UnderWay
  <2>4. QED
    BY <1>2, <2>1, <2>3, HarnessHolds
<1>4. CASE Finish(q)
  <2>1. Keeps(q) /\ Holds(q)
    BY <1>1, <1>4, FinishStep
  <2>2. /\ stage[q] = "running" /\ stage' = [stage EXCEPT ![q] = "responded"]
        /\ response' = [response EXCEPT ![q] = Accepted]
    BY <1>4 DEF Finish, Respond
  <2>3. stage'[q] = "responded" /\ response'[q] = Accepted
    BY <1>1, <2>2 DEF RequestTypeOK
  <2>4. Accepted.status = 202
    BY DEF Accepted, Plain
  <2>5. QED
    BY <1>2, <2>1, <2>2, <2>3, <2>4, HarnessHolds DEF UnderWay
<1>5. QED
  BY <1>3, <1>4 DEF Handle

(* The fake refuses: in its mode nothing was ever recorded. *)
LEMMA FakeFailStep ==
  ASSUME HInv, NEW q \in Requests, FakeQueueFull(q) \/ FakeBackend(q)
  PROVE  HInv' /\ Keeps(q) /\ Holds(q)
<1>1. /\ stage[q] = "running" /\ next[q] < Size(q) /\ mode # "record"
      /\ UNCHANGED fakeVars
  BY DEF FakeQueueFull, FakeBackend, Producing
<1>2. \E v \in {"ServiceUnavailable", "Internal"} : RespondError(q, Error(v))
  BY DEF FakeQueueFull, FakeBackend
<1>3. Keeps(q) /\ Holds(q)
  BY <1>1, <1>2, FailStep DEF HInv
<1>4. next[q] = 0
  BY <1>1 DEF HInv, ModeInv
<1>5. QED
  BY <1>1, <1>3, <1>4, HarnessHolds DEF UnderWay

(* The fake records the next event behind the last one. *)
LEMMA FakeRecordStep ==
  ASSUME HInv, NEW q \in Requests, FakeRecord(q)
  PROVE  HInv'
<1>1. /\ stage[q] = "running" /\ next[q] < Size(q) /\ mode = "record" /\ mode' = mode
      /\ produced' = Append(produced, NextEntry(q))
      /\ next' = [next EXCEPT ![q] = @ + 1]
      /\ UNCHANGED <<sub, stage, now, response>> /\ UNCHANGED trackingVars
  BY DEF FakeRecord, Producing, NextEntry
<1>2. RequestTypeOK' /\ RequestInv(q)' /\ Spares(q) /\ Advances(q)
  BY <1>1, AdvanceStep DEF HInv
<1>3. \A r \in Requests : RequestInv(r)'
  BY <1>2, Untouched DEF HInv, Spares
<1>4. TrackingTypeOK'
  BY <1>1, TrackingUnchanged DEF HInv
<1>5. OneUnderWay'
  BY <1>1 DEF HInv, OneUnderWay, UnderWay
<1>6. ModeInv'
  <2>1. response'[q].status \notin {500, 503}
    <3>1. response[q] = NoResponse
      BY <1>1 DEF HInv, RequestInv
    <3>2. QED
      BY <1>1, <3>1 DEF NoResponse, Plain
  <2>2. \A r \in Requests \ {q} : next'[r] = next[r] /\ response'[r] = response[r]
    BY <1>2 DEF Spares
  <2>3. QED
    BY <1>1, <2>1, <2>2 DEF HInv, ModeInv
<1> DEFINE e == NextEntry(q)
           n == Len(produced) + 1
<1>7. /\ e \in Entries /\ e.req = q /\ e.index = next[q] + 1
      /\ next'[q] = next[q] + 1 /\ next[q] \in Nat
      /\ \A r \in Requests \ {q} : next'[r] = next[r]
  BY <1>1, <1>2 DEF Advances, HInv, RequestTypeOK
<1>8. produced \in Seq(Entries) /\ produced' = Append(produced, e)
  BY <1>1 DEF HInv, ListInv
<1> HIDE DEF e
<1>9. /\ produced' \in Seq(Entries) /\ Len(produced) \in Nat
      /\ DOMAIN produced = 1..Len(produced)
      /\ DOMAIN produced' = DOMAIN produced \cup {n} /\ n \notin DOMAIN produced
      /\ \A i \in DOMAIN produced : produced'[i] = produced[i]
      /\ produced'[n] = e /\ Len(produced') = n /\ produced' # <<>>
  BY <1>7, <1>8
<1> HIDE DEF n
<1>10. /\ PlacesOf(q)' = PlacesOf(q) \cup {n} /\ n \notin PlacesOf(q)
       /\ \A r \in Requests \ {q} : PlacesOf(r)' = PlacesOf(r)
  BY <1>7, <1>9 DEF PlacesOf
<1>11. ASSUME NEW r \in Requests
       PROVE  /\ IsFiniteSet(PlacesOf(r)') /\ Cardinality(PlacesOf(r)') = next'[r]
              /\ PublishedPositions(r)' = 1..next'[r]
  <2>1. /\ IsFiniteSet(PlacesOf(r)) /\ Cardinality(PlacesOf(r)) = next[r]
        /\ PublishedPositions(r) = 1..next[r]
    BY DEF HInv, ListInv
  <2>2. CASE r # q
    <3>1. PlacesOf(r)' = PlacesOf(r) /\ next'[r] = next[r]
      BY <1>7, <1>10, <2>2
    <3>2. \A i \in PlacesOf(r) : produced'[i] = produced[i]
      BY <1>9 DEF PlacesOf
    <3>3. PublishedPositions(r)' = PublishedPositions(r)
      BY <3>1, <3>2 DEF PublishedPositions
    <3>4. QED
      BY <2>1, <3>1, <3>3
  <2>3. CASE r = q
    <3>1. IsFiniteSet(PlacesOf(q)') /\ Cardinality(PlacesOf(q)') = next'[q]
      BY <1>7, <1>10, <2>1, <2>3, FS_AddElement
    <3>2. \A i \in PlacesOf(q) : produced'[i] = produced[i]
      BY <1>9 DEF PlacesOf
    <3>3. PublishedPositions(q)' = PublishedPositions(q) \cup {next[q] + 1}
      BY <1>7, <1>9, <1>10, <3>2 DEF PublishedPositions
    <3>4. 1..(next[q] + 1) = 1..next[q] \cup {next[q] + 1}
      BY <1>7
    <3>5. QED
      BY <1>7, <2>1, <2>3, <3>1, <3>3, <3>4
  <2>4. QED
    BY <2>2, <2>3
<1>12. ASSUME NEW i \in DOMAIN produced' PROVE Follows(i)'
  <2>1. CASE i \in DOMAIN produced
    <3>1. Follows(i)
      BY <2>1 DEF HInv, ListInv
    <3>2. i > 1 => i - 1 \in DOMAIN produced
      BY <1>9, <2>1
    <3>3. QED
      BY <1>9, <2>1, <3>1, <3>2 DEF Follows
  <2>2. CASE i = n
    <3>1. CASE next[q] = 0
      BY <1>7, <1>9, <2>2, <3>1 DEF Follows
    <3>2. CASE next[q] # 0
      <4>1. /\ produced # <<>> /\ produced[Len(produced)].req = q
            /\ produced[Len(produced)].index = next[q]
        BY <1>1, <3>2 DEF HInv, ListInv
      <4>2. Len(produced) \in DOMAIN produced /\ n > 1 /\ n - 1 = Len(produced)
        BY <1>8, <1>9, <4>1 DEF n
      <4>3. produced'[n - 1].req = q /\ produced'[n - 1].index = next[q]
        BY <1>9, <4>1, <4>2
      <4>4. next[q] = e.index - 1
        BY <1>7
      <4>5. QED
        BY <1>7, <1>9, <2>2, <4>2, <4>3, <4>4 DEF Follows
    <3>3. QED
      BY <3>1, <3>2
  <2>3. QED
    BY <1>9, <2>1, <2>2
<1>13. ASSUME NEW r \in Requests, stage'[r] = "running", next'[r] # 0
       PROVE  /\ produced' # <<>>
              /\ produced'[Len(produced')].req = r
              /\ produced'[Len(produced')].index = next'[r]
  <2>1. r = q
    BY <1>1, <1>13 DEF HInv, OneUnderWay, UnderWay
  <2>2. QED
    BY <1>7, <1>9, <2>1
<1>14. ListInv'
  BY <1>9, <1>11, <1>12, <1>13 DEF ListInv
<1>15. QED
  BY <1>2, <1>3, <1>4, <1>5, <1>6, <1>14 DEF HInv

(* Nothing happens. *)
LEMMA HarnessRest ==
  ASSUME HInv, UNCHANGED harnessVars
  PROVE  HInv'
<1>1. /\ sub' = sub /\ stage' = stage /\ now' = now /\ next' = next
      /\ response' = response /\ produced' = produced /\ mode' = mode
      /\ UNCHANGED trackingVars
  BY DEF harnessVars, vars, requestVars, fakeVars
<1>2. RequestTypeOK' /\ TrackingTypeOK' /\ \A r \in Requests : RequestInv(r)'
  BY <1>1, TrackingUnchanged, Untouched DEF HInv, RequestTypeOK
<1>3. OneUnderWay' /\ ModeInv'
  BY <1>1 DEF HInv, OneUnderWay, UnderWay, ModeInv
<1>4. ListInv'
  <2>1. \A r \in Requests :
          PlacesOf(r)' = PlacesOf(r) /\ PublishedPositions(r)' = PublishedPositions(r)
    BY <1>1 DEF PlacesOf, PublishedPositions
  <2>2. \A i \in DOMAIN produced' : Follows(i)'
    BY <1>1 DEF HInv, ListInv, Follows
  <2>3. QED
    BY <1>1, <2>1, <2>2 DEF HInv, ListInv
<1>5. QED
  BY <1>2, <1>3, <1>4 DEF HInv

(* Every step of a test preserves the invariant. *)
LEMMA HarnessStep == HInv /\ [HarnessNext]_harnessVars => HInv'
BY RunStep, HandleStep, FakeRecordStep, FakeFailStep, HarnessRest DEF HarnessNext, TestEnds

(* With this producer a failure comes before the first event, or not at all. *)
LEMMA RecordedMeansAccepted ==
  ASSUME HInv, NEW r \in Requests
  PROVE  /\ next[r] # 0 /\ ~UnderWay(r) => response[r].status = 202
         /\ response[r].status = 202 => next[r] = Size(r)
         /\ response[r].status \in {500, 503} => next[r] = 0
<1>1. RequestInv(r) /\ stage[r] \in Stages
  BY DEF HInv, RequestTypeOK
<1>2. response[r].status \in {500, 503} => next[r] = 0
  BY DEF HInv, ModeInv
<1>3. CASE stage[r] # "responded"
  <2>1. response[r].status = 0
    BY <1>1, <1>3 DEF RequestInv, NoResponse, Plain
  <2>2. next[r] # 0 => UnderWay(r)
    BY <1>1, <1>3 DEF RequestInv, UnderWay, Stages
  <2>3. QED
    BY <2>1, <2>2
<1>4. CASE stage[r] = "responded"
  <2>1. Fits(r, response[r])
    BY <1>1, <1>4 DEF RequestInv
  <2>2. response[r].status = 202 => next[r] = Size(r)
    BY <2>1 DEF Fits
  <2>3. next[r] # 0 => response[r].status = 202
    BY <1>2, <2>1 DEF Fits
  <2>4. QED
    BY <1>2, <2>2, <2>3
<1>5. QED
  BY <1>3, <1>4

(* PublishedListsTheBatches: between two requests published() is one whole
   batch of an accepted request after the other, in order and contiguous. *)
THEOREM BatchesAreListed == HarnessSpec => []PublishedListsTheBatches
<1>1. HInv => PublishedListsTheBatches
  <2> SUFFICES ASSUME HInv, \A r \in Requests : ~UnderWay(r)
               PROVE  /\ \A r \in Requests : PlacesOf(r) # {} => response[r].status = 202
                      /\ \A i \in DOMAIN produced : Follows(i)
                      /\ \A r \in Requests :
                           response[r].status = 202 => Cardinality(PlacesOf(r)) = Size(r)
    BY DEF PublishedListsTheBatches, Follows
  <2>1. ASSUME NEW r \in Requests, PlacesOf(r) # {}
        PROVE  response[r].status = 202
    <3>1. IsFiniteSet(PlacesOf(r)) /\ Cardinality(PlacesOf(r)) = next[r]
      BY DEF HInv, ListInv
    <3>2. next[r] # 0
      BY <2>1, <3>1, FS_EmptySet
    <3>3. QED
      BY <3>2, RecordedMeansAccepted
  <2>2. \A i \in DOMAIN produced : Follows(i)
    BY DEF HInv, ListInv
  <2>3. ASSUME NEW r \in Requests, response[r].status = 202
        PROVE  Cardinality(PlacesOf(r)) = Size(r)
    BY <2>3, RecordedMeansAccepted DEF HInv, ListInv
  <2>4. QED
    BY <2>1, <2>2, <2>3
<1>2. QED
  BY <1>1, HarnessStart, HarnessStep, PTL DEF HarnessSpec

(* NoTestSeesACutBatch: a request that fails over the fake producer has
   published nothing. *)
THEOREM NoCutBatches == HarnessSpec => []NoTestSeesACutBatch
<1>1. HInv => NoTestSeesACutBatch
  <2> SUFFICES ASSUME HInv, NEW r \in Requests, response[r].status \in {500, 503}
               PROVE  PlacesOf(r) = {}
    BY DEF NoTestSeesACutBatch
  <2>1. next[r] = 0
    BY RecordedMeansAccepted
  <2>2. IsFiniteSet(PlacesOf(r)) /\ Cardinality(PlacesOf(r)) = next[r]
    BY DEF HInv, ListInv
  <2>3. QED
    BY <2>1, <2>2, FS_EmptySet
<1>2. QED
  BY <1>1, HarnessStart, HarnessStep, PTL DEF HarnessSpec

-----------------------------------------------------------------------------
(* The harness implements the contract, too.                               *)

recorded == [r \in Requests |-> PublishedPositions(r)]

(* What published() lists is what the counter says ... *)
LEMMA RecordedIsCounted == HInv => recorded = counted
BY DEF HInv, ListInv, recorded, counted

(* ... after the step, too. *)
LEMMA RecordedIsCountedNext == HInv' => recorded' = counted'
<1>1. (HInv => recorded = counted)'
  BY RecordedIsCounted, PTL
<1>2. QED
  BY <1>1

(* A step of the contract by the counter is one by what published() lists. *)
LEMMA ObservedStep ==
  ASSUME recorded = counted, recorded' = counted', [Counted!Next]_(Counted!vars)
  PROVE  [Observed!Next]_(Observed!vars)
<1>1. CASE UNCHANGED Counted!vars
  BY <1>1 DEF Counted!vars, Observed!vars, recorded, counted
<1>2. ASSUME NEW q \in Requests, Counted!HandOver(q) PROVE Observed!HandOver(q)
  BY <1>2 DEF Counted!HandOver, Observed!HandOver, recorded, counted
<1>3. ASSUME NEW q \in Requests, NEW f, Counted!Conclude(q, f) PROVE Observed!Conclude(q, f)
  BY <1>3 DEF Counted!Conclude, Observed!Conclude, recorded, counted
<1>4. ASSUME NEW q \in Requests
      PROVE  /\ Counted!Accept(q) => Observed!Accept(q)
             /\ Counted!Fail(q) => Observed!Fail(q)
             /\ Counted!Decline(q) => Observed!Decline(q)
  BY <1>3 DEF Counted!Accept, Observed!Accept, Counted!Fail, Observed!Fail,
     Counted!Decline, Observed!Decline, recorded, counted
<1>5. QED
  BY <1>1, <1>2, <1>4 DEF Counted!Next, Observed!Next

(* Before the first test the contract is in its initial state. *)
LEMMA ObservedInit == HarnessInit => Observed!Init
<1> SUFFICES ASSUME HarnessInit PROVE Observed!Init
  OBVIOUS
<1>1. Accounts /\ recorded = counted
  BY HarnessStart, RequestsAccount, RecordedIsCounted DEF HInv
<1>2. Counted!Init
  BY <1>1, CountedInit DEF HarnessInit
<1>3. QED
  BY <1>1, <1>2 DEF Counted!Init, Observed!Init, recorded, counted

(* Each step of a test is a step of the contract or changes nothing of it. *)
LEMMA ObservedNext ==
  HInv /\ HInv' /\ [HarnessNext]_harnessVars => [Observed!Next]_(Observed!vars)
<1> SUFFICES ASSUME HInv, HInv', [HarnessNext]_harnessVars
             PROVE  [Counted!Next]_(Counted!vars)
  BY RecordedIsCounted, RecordedIsCountedNext, ObservedStep
<1>1. Accounts /\ Accounts'
  BY RequestsAccount, RequestsAccountNext DEF HInv
<1>2. ASSUME NEW q \in Requests,
             Run(q) \/ Handle(q) \/ FakeQueueFull(q) \/ FakeBackend(q)
      PROVE  [Counted!Next]_(Counted!vars)
  <2>1. Spares(q) /\ next' = next
    BY <1>2, RunStep, HandleStep, FakeFailStep DEF Keeps, Holds
  <2>2. stage[q] \in {"idle", "body", "running"}
    BY <1>2 DEF Run, Health, NotFound, MethodNotAllowed, ReceiveHead, Handle, Refuse,
       HandlerPanic, Accept, Finish, FakeQueueFull, FakeBackend, Producing
  <2>3. QED
    BY <1>1, <2>1, <2>2, CountedMove DEF Ended
<1>3. ASSUME NEW q \in Requests, FakeRecord(q)
      PROVE  [Counted!Next]_(Counted!vars)
  <2>1. /\ stage[q] = "running" /\ next[q] < Size(q)
        /\ next' = [next EXCEPT ![q] = @ + 1]
        /\ sub' = sub /\ stage' = stage /\ response' = response
    BY <1>3 DEF FakeRecord, Producing
  <2>2. Size(q) <= MaxBatchEvents
    BY <2>1, WithinCap DEF HInv
  <2>3. Counted!HandOver(q)
    BY <1>1, <2>1, <2>2, CountedAdvance DEF HInv, RequestTypeOK, Ended
  <2>4. QED
    BY <2>3 DEF Counted!Next
<1>4. CASE UNCHANGED harnessVars
  BY <1>4, CountedStutter DEF harnessVars, vars, requestVars
<1>5. QED
  BY <1>2, <1>3, <1>4 DEF HarnessNext, TestEnds

(* HarnessImplementsContract: what a test sees is a behaviour of the contract
   of the service. *)
THEOREM HarnessImplements == HarnessSpec => HarnessImplementsContract
<1>1. HarnessSpec => []HInv
  BY HarnessStart, HarnessStep, PTL DEF HarnessSpec
<1>2. QED
  BY <1>1, ObservedInit, ObservedNext, PTL
  DEF HarnessSpec, HarnessImplementsContract, Observed!Spec
=============================================================================
