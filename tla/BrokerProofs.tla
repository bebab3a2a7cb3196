----------------------------- MODULE BrokerProofs -----------------------------
(***************************************************************************)
(* Proofs about WorkerPool and Broker.                                     *)
(*                                                                         *)
(* The pool, for any number of workers and requests, any capacity of the   *)
(* channel, and calls of Add, DoAll and Cancel and a close of the channel  *)
(* in any order.                                                           *)
(*                                                                         *)
(* The program, for any number of tasks, resources, connections and lost   *)
(* connections: it is a correct caller of the pool, so what is shown of    *)
(* the pool holds of the program.  With one job no task is lost: the       *)
(* prefetch of one and the channel of one keep at most one delivery of an  *)
(* open channel in the program, so the loop variable that a request points *)
(* to still holds its delivery when the request is settled.                *)
(***************************************************************************)
EXTENDS Broker, FiniteSetTheorems, SequenceTheorems, TLAPS

----------------------------------------------------------------------------
(* The worker pool *)

(* The pool starts well typed, with every invariant true. *)
LEMMA PoolInitInv == PoolInit => PoolInv
<1> SUFFICES ASSUME PoolInit PROVE PoolInv
  OBVIOUS
<1>1. PoolTypeOK
  <2>1. requests \in Seq(Requests)
    BY DEF PoolInit
  <2>2. /\ pc \in [Workers -> WorkerStates]
        /\ job \in [Workers -> Requests \cup {NoRequest}]
        /\ late \in [Workers -> Nat]
    BY DEF PoolInit, WorkerStates
  <2> QED BY <2>1, <2>2 DEF PoolInit, PoolTypeOK, DoAllStates
<1>2. StopsForAReason /\ FirstStarted /\ NothingLeft /\ LateIsLast
  BY DEF PoolInit, StopsForAReason, FirstStarted, NothingLeft, LateIsLast
<1> QED BY <1>1, <1>2 DEF PoolInv

(* Every step of the pool keeps the types. *)
LEMMA StepPoolTypeOK ==
    PoolInv /\ [PoolNext]_poolVars => PoolTypeOK'
<1> SUFFICES ASSUME PoolInv, [PoolNext]_poolVars PROVE PoolTypeOK'
  OBVIOUS
<1> USE CapacityAssumption DEF PoolInv
<1>1. ASSUME NEW w \in Workers, AddCheck(w) PROVE PoolTypeOK'
  BY <1>1 DEF AddCheck, PoolTypeOK, WorkerStates, DoAllStates
<1>2. ASSUME NEW w \in Workers, AddStart(w) PROVE PoolTypeOK'
  BY <1>2 DEF AddStart, PoolTypeOK, WorkerStates, DoAllStates
<1>3. ASSUME DoAll PROVE PoolTypeOK'
  BY <1>3 DEF DoAll, PoolTypeOK, WorkerStates, DoAllStates
<1>4. ASSUME DoAllFirst PROVE PoolTypeOK'
  BY <1>4 DEF DoAllFirst, PoolTypeOK, WorkerStates, DoAllStates
<1>5. ASSUME DoAllReturn PROVE PoolTypeOK'
  BY <1>5 DEF DoAllReturn, PoolTypeOK, WorkerStates, DoAllStates
<1>6. ASSUME Cancel PROVE PoolTypeOK'
  BY <1>6 DEF Cancel, PoolTypeOK, WorkerStates, DoAllStates
<1>7. ASSUME NEW r \in Requests, Send(r) PROVE PoolTypeOK'
  BY <1>7 DEF Send, PoolTypeOK, WorkerStates, DoAllStates
<1>8. ASSUME Close PROVE PoolTypeOK'
  BY <1>8 DEF Close, PoolTypeOK, WorkerStates, DoAllStates
<1>9. ASSUME NEW w \in Workers, Get(w) PROVE PoolTypeOK'
  BY <1>9 DEF Get, PoolTypeOK, WorkerStates, DoAllStates
<1>10. ASSUME NEW w \in Workers, CheckCanceler(w) PROVE PoolTypeOK'
  BY <1>10 DEF CheckCanceler, Stop, PoolTypeOK, WorkerStates, DoAllStates
<1>11. ASSUME NEW w \in Workers, Take(w) PROVE PoolTypeOK'
  BY <1>11 DEF Take, PoolTypeOK, WorkerStates, DoAllStates
<1>12. ASSUME NEW w \in Workers, SelectStop(w) PROVE PoolTypeOK'
  BY <1>12 DEF SelectStop, Stop, PoolTypeOK, WorkerStates, DoAllStates
<1>13. ASSUME NEW w \in Workers, Finish(w) PROVE PoolTypeOK'
  BY <1>13 DEF Finish, PoolTypeOK, WorkerStates, DoAllStates
<1>14. CASE UNCHANGED poolVars
  BY <1>14 DEF poolVars, PoolTypeOK, WorkerStates, DoAllStates
<1> QED BY <1>1, <1>2, <1>3, <1>4, <1>5, <1>6, <1>7, <1>8, <1>9, <1>10, <1>11,
   <1>12, <1>13, <1>14 DEF PoolNext, WorkerStep

(* Whatever made a worker stop stays true: canceler is never reopened, a
   closed channel stays closed, and nothing is sent on it. *)
LEMMA StepStopsForAReason ==
    PoolInv /\ [PoolNext]_poolVars => StopsForAReason'
<1> SUFFICES ASSUME PoolInv, [PoolNext]_poolVars PROVE StopsForAReason'
  OBVIOUS
<1> USE CapacityAssumption DEF PoolInv
<1>1. ASSUME NEW w \in Workers, AddCheck(w) PROVE StopsForAReason'
  BY <1>1 DEF AddCheck, StopsForAReason, Over, PoolTypeOK
<1>2. ASSUME NEW w \in Workers, AddStart(w) PROVE StopsForAReason'
  BY <1>2 DEF AddStart, StopsForAReason, Over, PoolTypeOK
<1>3. ASSUME DoAll PROVE StopsForAReason'
  BY <1>3 DEF DoAll, StopsForAReason, Over, PoolTypeOK
<1>4. ASSUME DoAllFirst PROVE StopsForAReason'
  BY <1>4 DEF DoAllFirst, StopsForAReason, Over, PoolTypeOK
<1>5. ASSUME DoAllReturn PROVE StopsForAReason'
  BY <1>5 DEF DoAllReturn, StopsForAReason, Over, PoolTypeOK
<1>6. ASSUME Cancel PROVE StopsForAReason'
  BY <1>6 DEF Cancel, StopsForAReason, Over, PoolTypeOK
<1>7. ASSUME NEW r \in Requests, Send(r) PROVE StopsForAReason'
  BY <1>7 DEF Send, StopsForAReason, Over, PoolTypeOK
<1>8. ASSUME Close PROVE StopsForAReason'
  BY <1>8 DEF Close, StopsForAReason, Over, PoolTypeOK
<1>9. ASSUME NEW w \in Workers, Get(w) PROVE StopsForAReason'
  BY <1>9 DEF Get, StopsForAReason, Over, PoolTypeOK
<1>10. ASSUME NEW w \in Workers, CheckCanceler(w) PROVE StopsForAReason'
  BY <1>10 DEF CheckCanceler, Stop, StopsForAReason, Over, PoolTypeOK
<1>11. ASSUME NEW w \in Workers, Take(w) PROVE StopsForAReason'
  BY <1>11 DEF Take, StopsForAReason, Over, PoolTypeOK
<1>12. ASSUME NEW w \in Workers, SelectStop(w) PROVE StopsForAReason'
  BY <1>12 DEF SelectStop, Stop, StopsForAReason, Over, PoolTypeOK
<1>13. ASSUME NEW w \in Workers, Finish(w) PROVE StopsForAReason'
  BY <1>13 DEF Finish, StopsForAReason, Over, PoolTypeOK
<1>14. CASE UNCHANGED poolVars
  BY <1>14 DEF poolVars, StopsForAReason, Over, PoolTypeOK
<1> QED BY <1>1, <1>2, <1>3, <1>4, <1>5, <1>6, <1>7, <1>8, <1>9, <1>10, <1>11,
   <1>12, <1>13, <1>14 DEF PoolNext, WorkerStep

(* firstWorker is closed only by a started worker or by Cancel. *)
LEMMA StepFirstStarted ==
    PoolInv /\ [PoolNext]_poolVars => FirstStarted'
<1> SUFFICES ASSUME PoolInv, [PoolNext]_poolVars PROVE FirstStarted'
  OBVIOUS
<1> USE CapacityAssumption DEF PoolInv
<1>1. ASSUME NEW w \in Workers, AddCheck(w) PROVE FirstStarted'
  BY <1>1 DEF AddCheck, FirstStarted, PoolTypeOK
<1>2. ASSUME NEW w \in Workers, AddStart(w) PROVE FirstStarted'
  BY <1>2 DEF AddStart, FirstStarted, PoolTypeOK
<1>3. ASSUME DoAll PROVE FirstStarted'
  BY <1>3 DEF DoAll, FirstStarted, PoolTypeOK
<1>4. ASSUME DoAllFirst PROVE FirstStarted'
  BY <1>4 DEF DoAllFirst, FirstStarted, PoolTypeOK
<1>5. ASSUME DoAllReturn PROVE FirstStarted'
  BY <1>5 DEF DoAllReturn, FirstStarted, PoolTypeOK
<1>6. ASSUME Cancel PROVE FirstStarted'
  BY <1>6 DEF Cancel, FirstStarted, PoolTypeOK
<1>7. ASSUME NEW r \in Requests, Send(r) PROVE FirstStarted'
  BY <1>7 DEF Send, FirstStarted, PoolTypeOK
<1>8. ASSUME Close PROVE FirstStarted'
  BY <1>8 DEF Close, FirstStarted, PoolTypeOK
<1>9. ASSUME NEW w \in Workers, Get(w) PROVE FirstStarted'
  BY <1>9 DEF Get, FirstStarted, PoolTypeOK
<1>10. ASSUME NEW w \in Workers, CheckCanceler(w) PROVE FirstStarted'
  BY <1>10 DEF CheckCanceler, Stop, FirstStarted, PoolTypeOK
<1>11. ASSUME NEW w \in Workers, Take(w) PROVE FirstStarted'
  BY <1>11 DEF Take, FirstStarted, PoolTypeOK
<1>12. ASSUME NEW w \in Workers, SelectStop(w) PROVE FirstStarted'
  BY <1>12 DEF SelectStop, Stop, FirstStarted, PoolTypeOK
<1>13. ASSUME NEW w \in Workers, Finish(w) PROVE FirstStarted'
  BY <1>13 DEF Finish, FirstStarted, PoolTypeOK
<1>14. CASE UNCHANGED poolVars
  BY <1>14 DEF poolVars, FirstStarted, PoolTypeOK
<1> QED BY <1>1, <1>2, <1>3, <1>4, <1>5, <1>6, <1>7, <1>8, <1>9, <1>10, <1>11,
   <1>12, <1>13, <1>14 DEF PoolNext, WorkerStep

(* DoAll is released, or finds the counter at zero, only when there is
   nothing left to do, and then nothing can be started. *)
LEMMA StepNothingLeft ==
    PoolInv /\ [PoolNext]_poolVars => NothingLeft'
<1> SUFFICES ASSUME PoolInv, [PoolNext]_poolVars PROVE NothingLeft'
  OBVIOUS
<1> USE CapacityAssumption DEF PoolInv
<1>1. ASSUME NEW w \in Workers, AddCheck(w) PROVE NothingLeft'
  BY <1>1 DEF AddCheck, NothingLeft, Over, StopsForAReason, FirstStarted,
     workersWaitGroup, PoolTypeOK
<1>2. ASSUME NEW w \in Workers, AddStart(w) PROVE NothingLeft'
  BY <1>2 DEF AddStart, NothingLeft, Over, StopsForAReason, FirstStarted,
     workersWaitGroup, PoolTypeOK
<1>3. ASSUME DoAll PROVE NothingLeft'
  BY <1>3 DEF DoAll, NothingLeft, Over, StopsForAReason, FirstStarted,
     workersWaitGroup, PoolTypeOK
<1>4. ASSUME DoAllFirst PROVE NothingLeft'
  <2>1. CASE workersWaitGroup = {}
    <3>1. canceler \/ \E w \in Workers : pc[w] = "done"
      BY <1>4, <2>1 DEF DoAllFirst, FirstStarted, workersWaitGroup, PoolTypeOK,
                        WorkerStates
    <3>2. Over /\ \A w \in Workers : pc[w] \notin {"select", "do"}
      BY <2>1, <3>1 DEF StopsForAReason, Over, workersWaitGroup
    <3> QED BY <1>4, <3>2 DEF DoAllFirst, NothingLeft, Over
  <2>2. CASE workersWaitGroup # {}
    BY <1>4, <2>2 DEF DoAllFirst, NothingLeft
  <2> QED BY <2>1, <2>2
<1>5. ASSUME DoAllReturn PROVE NothingLeft'
  BY <1>5 DEF DoAllReturn, NothingLeft, Over, StopsForAReason, FirstStarted,
     workersWaitGroup, PoolTypeOK
<1>6. ASSUME Cancel PROVE NothingLeft'
  BY <1>6 DEF Cancel, NothingLeft, Over, StopsForAReason, FirstStarted,
     workersWaitGroup, PoolTypeOK
<1>7. ASSUME NEW r \in Requests, Send(r) PROVE NothingLeft'
  BY <1>7 DEF Send, NothingLeft, Over, StopsForAReason, FirstStarted,
     workersWaitGroup, PoolTypeOK
<1>8. ASSUME Close PROVE NothingLeft'
  BY <1>8 DEF Close, NothingLeft, Over, StopsForAReason, FirstStarted,
     workersWaitGroup, PoolTypeOK
<1>9. ASSUME NEW w \in Workers, Get(w) PROVE NothingLeft'
  BY <1>9 DEF Get, NothingLeft, Over, StopsForAReason, FirstStarted,
     workersWaitGroup, PoolTypeOK
<1>10. ASSUME NEW w \in Workers, CheckCanceler(w) PROVE NothingLeft'
  BY <1>10 DEF CheckCanceler, Stop, NothingLeft, Over, StopsForAReason,
     FirstStarted, workersWaitGroup, PoolTypeOK
<1>11. ASSUME NEW w \in Workers, Take(w) PROVE NothingLeft'
  BY <1>11 DEF Take, NothingLeft, Over, StopsForAReason, FirstStarted,
     workersWaitGroup, PoolTypeOK
<1>12. ASSUME NEW w \in Workers, SelectStop(w) PROVE NothingLeft'
  BY <1>12 DEF SelectStop, Stop, NothingLeft, Over, StopsForAReason,
     FirstStarted, workersWaitGroup, PoolTypeOK
<1>13. ASSUME NEW w \in Workers, Finish(w) PROVE NothingLeft'
  BY <1>13 DEF Finish, NothingLeft, Over, StopsForAReason, FirstStarted,
     workersWaitGroup, PoolTypeOK
<1>14. CASE UNCHANGED poolVars
  BY <1>14 DEF poolVars, NothingLeft, Over, StopsForAReason, FirstStarted,
     workersWaitGroup, PoolTypeOK
<1> QED BY <1>1, <1>2, <1>3, <1>4, <1>5, <1>6, <1>7, <1>8, <1>9, <1>10, <1>11,
   <1>12, <1>13, <1>14 DEF PoolNext, WorkerStep

(* A worker takes a request after Cancel only from its inner select, which
   it does not reach again. *)
LEMMA StepLateIsLast ==
    PoolInv /\ [PoolNext]_poolVars => LateIsLast'
<1> SUFFICES ASSUME PoolInv, [PoolNext]_poolVars PROVE LateIsLast'
  OBVIOUS
<1> USE CapacityAssumption DEF PoolInv
<1>1. ASSUME NEW w \in Workers, AddCheck(w) PROVE LateIsLast'
  BY <1>1 DEF AddCheck, LateIsLast, PoolTypeOK
<1>2. ASSUME NEW w \in Workers, AddStart(w) PROVE LateIsLast'
  BY <1>2 DEF AddStart, LateIsLast, PoolTypeOK
<1>3. ASSUME DoAll PROVE LateIsLast'
  BY <1>3 DEF DoAll, LateIsLast, PoolTypeOK
<1>4. ASSUME DoAllFirst PROVE LateIsLast'
  BY <1>4 DEF DoAllFirst, LateIsLast, PoolTypeOK
<1>5. ASSUME DoAllReturn PROVE LateIsLast'
  BY <1>5 DEF DoAllReturn, LateIsLast, PoolTypeOK
<1>6. ASSUME Cancel PROVE LateIsLast'
  BY <1>6 DEF Cancel, LateIsLast, PoolTypeOK
<1>7. ASSUME NEW r \in Requests, Send(r) PROVE LateIsLast'
  BY <1>7 DEF Send, LateIsLast, PoolTypeOK
<1>8. ASSUME Close PROVE LateIsLast'
  BY <1>8 DEF Close, LateIsLast, PoolTypeOK
<1>9. ASSUME NEW w \in Workers, Get(w) PROVE LateIsLast'
  BY <1>9 DEF Get, LateIsLast, PoolTypeOK
<1>10. ASSUME NEW w \in Workers, CheckCanceler(w) PROVE LateIsLast'
  BY <1>10 DEF CheckCanceler, Stop, LateIsLast, PoolTypeOK
<1>11. ASSUME NEW w \in Workers, Take(w) PROVE LateIsLast'
  BY <1>11 DEF Take, LateIsLast, PoolTypeOK
<1>12. ASSUME NEW w \in Workers, SelectStop(w) PROVE LateIsLast'
  BY <1>12 DEF SelectStop, Stop, LateIsLast, PoolTypeOK
<1>13. ASSUME NEW w \in Workers, Finish(w) PROVE LateIsLast'
  BY <1>13 DEF Finish, LateIsLast, PoolTypeOK
<1>14. CASE UNCHANGED poolVars
  BY <1>14 DEF poolVars, LateIsLast, PoolTypeOK
<1> QED BY <1>1, <1>2, <1>3, <1>4, <1>5, <1>6, <1>7, <1>8, <1>9, <1>10, <1>11,
   <1>12, <1>13, <1>14 DEF PoolNext, WorkerStep

(* The inductive invariant of the pool. *)
LEMMA PoolInductive == PoolInv /\ [PoolNext]_poolVars => PoolInv'
BY StepPoolTypeOK, StepStopsForAReason, StepFirstStarted, StepNothingLeft,
   StepLateIsLast DEF PoolInv

(* The invariant of the pool holds in every reachable state. *)
THEOREM PoolInvariant == PoolSpec => []PoolInv
BY PoolInitInv, PoolInductive, PTL DEF PoolSpec

(* The pool's variables keep their types. *)
THEOREM PoolTypeCorrect == PoolSpec => []PoolTypeOK
<1>1. PoolInv => PoolTypeOK
  BY DEF PoolInv
<1> QED BY <1>1, PoolInvariant, PTL

(* Once DoAll has returned no worker does a request, for good. *)
THEOREM DoAllLeavesQuiet == PoolSpec => []QuietAfterDoAll
<1>1. PoolInv => QuietAfterDoAll
  BY DEF PoolInv, NothingLeft, QuietAfterDoAll
<1> QED BY <1>1, PoolInvariant, PTL

(* Without a Cancel DoAll returns only when the closed channel is empty. *)
THEOREM DoAllDrains == PoolSpec => []DrainedUnlessCanceled
<1>1. PoolInv => DrainedUnlessCanceled
  BY DEF PoolInv, NothingLeft, Over, DrainedUnlessCanceled
<1> QED BY <1>1, PoolInvariant, PTL

(* After Cancel each worker starts at most one more request. *)
THEOREM OneLateRequest == PoolSpec => []LateAtMostOnce
<1>1. PoolInv => LateAtMostOnce
  BY DEF PoolInv, LateIsLast, LateAtMostOnce
<1> QED BY <1>1, PoolInvariant, PTL

(* All that the callers of a pool rely on (worker_pool.go:85, :116). *)
THEOREM PoolIsOverAfterDoAll == PoolSpec => []PoolIsOver
<1>1. QuietAfterDoAll /\ DrainedUnlessCanceled /\ LateAtMostOnce => PoolIsOver
  BY DEF PoolIsOver
<1> QED BY <1>1, DoAllLeavesQuiet, DoAllDrains, OneLateRequest, PTL

----------------------------------------------------------------------------
(* The program *)

USE RequestsAssumption, BoundsAssumption, NoDeliveryAssumption,
    NoRequestAssumption DEF Conns

(* An update of one entry of a table of tables keeps its type. *)
LEMMA NestedUpdate ==
    ASSUME NEW A, NEW B, NEW S, NEW f \in [A -> [B -> S]],
           NEW a \in A, NEW b \in B, NEW v \in S
    PROVE  [f EXCEPT ![a][b] = v] \in [A -> [B -> S]]
OBVIOUS

(* Closing channels closes those alone, keeps what others have outstanding  *)
(* and puts the rest back in the queues.                                    *)
LEMMA CloseChannelsEffect ==
    ASSUME AmqpTypes, NEW C, CloseChannels(C)
    PROVE  /\ AmqpTypes'
           /\ unacked' \subseteq unacked
           /\ \A c \in Conns :
                channel'[c] = IF c \in C THEN "closed" ELSE channel[c]
           /\ \A d \in unacked : d \in unacked' <=> d.conn \notin C
           /\ \A d \in unacked \ unacked' : d.task \in queue'[d.resource]
           /\ \A r \in Resources : queue[r] \subseteq queue'[r]
<1>1. \A d \in unacked : d.task \in Tasks /\ d.resource \in Resources
  BY DEF AmqpTypes, Deliveries
<1> QED BY <1>1 DEF CloseChannels, AmqpTypes

(* Settling a delivery takes it, or closes its channel, or does nothing. *)
LEMMA SettleEffect ==
    ASSUME AmqpTypes, NEW d, Settle(d)
    PROVE  /\ AmqpTypes'
           /\ unacked' \subseteq unacked
           /\ \A c \in Conns : channel'[c] \in {channel[c], "closed"}
           /\ \A c \in Conns : channel[c] = "none" => channel'[c] = "none"
           /\ \A e \in unacked' : channel'[e.conn] = channel[e.conn]
           /\ \A e \in unacked \ unacked' :
                e = d \/ e.task \in queue'[e.resource]
           /\ \A r \in Resources : queue[r] \subseteq queue'[r]
<1>1. CASE channel[d.conn] # "open" /\ UNCHANGED amqpVars
  BY <1>1 DEF amqpVars, AmqpTypes
<1>2. CASE d \in unacked /\ unacked' = unacked \ {d} /\ UNCHANGED <<queue, channel>>
  BY <1>2 DEF AmqpTypes
<1>3. CASE channel[d.conn] = "open" /\ CloseChannels({d.conn})
  <2>1. \A e \in unacked : e.conn \in Conns
    BY DEF AmqpTypes, Deliveries
  <2> QED BY <1>3, <2>1, CloseChannelsEffect
<1> QED BY <1>1, <1>2, <1>3 DEF Settle

----------------------------------------------------------------------------
(* What a step may do, by the variables it touches. *)

(* The steps that change the state of RabbitMQ. *)
LEMMA AmqpSteps ==
    ASSUME ReadTypes, [Next]_vars
    PROVE  \/ UNCHANGED amqpVars
           \/ \E t \in Tasks, r \in Resources : Publish(t, r)
           \/ \E c \in Conns, r \in Resources, t \in Tasks : Deliver(c, r, t)
           \/ Dial
           \/ /\ \E C \in SUBSET Nat :
                   /\ CloseChannels(C)
                   /\ \A c \in C :
                        (c \in Conns /\ channel[c] # "none") \/ c = conn
              /\ conn' = conn
              /\ UNCHANGED <<sent, results, errors>>
           \/ \E w \in Workers : SettleRequest(w)
<1> DEFINE Closed ==
      /\ \E C \in SUBSET Nat :
           /\ CloseChannels(C)
           /\ \A c \in C : (c \in Conns /\ channel[c] # "none") \/ c = conn
      /\ conn' = conn
      /\ UNCHANGED <<sent, results, errors>>
<1>1. ASSUME NEW c \in Conns, ConnectionLost(c) PROVE Closed
  <2>1. {c} \in SUBSET Nat
    OBVIOUS
  <2> QED BY <1>1, <2>1 DEF ConnectionLost, readVars, answerVars
<1>2. ASSUME Reconnect \/ AbortWatch PROVE Closed
  <2>1. {conn} \in SUBSET Nat
    BY DEF ReadTypes
  <2> QED BY <1>2, <2>1 DEF Reconnect, AbortWatch, answerVars
<1>3. ASSUME NEW how, End(how) PROVE Closed
  <2>1. {c \in Conns : channel[c] # "none"} \in SUBSET Nat
    OBVIOUS
  <2> QED BY <1>3, <2>1 DEF End, readVars, answerVars
<1> HIDE DEF Closed
<1>4. \/ UNCHANGED amqpVars
      \/ \E t \in Tasks, r \in Resources : Publish(t, r)
      \/ \E c \in Conns, r \in Resources, t \in Tasks : Deliver(c, r, t)
      \/ Dial
      \/ \E c \in Conns : ConnectionLost(c)
      \/ Reconnect
      \/ AbortWatch
      \/ \E how \in {"exited", "panicked"} : End(how)
      \/ \E w \in Workers : SettleRequest(w)
  BY DEF vars, poolVars, amqpVars, consumeVars, readVars, answerVars, programVars,
         Next, ReaderStep, ConsumerStep, DoStep, MainStep,
         DialAborted, Subscribe, SubscribeFails, ReadReturns, AbortDrained,
         Receive, Put, PutPanics, ConsumerDone, Begin, RunTask, WriteResult,
         WriteError, AddWorker, AbortOnSignal, Signal, SignalAborts, StartRead,
         StartDoAll, Exit, Killed, PoolStep
<1> QED BY <1>1, <1>2, <1>3, <1>4 DEF Closed

(* The steps that change what the consumers of a channel hold. *)
LEMMA ConsumeSteps ==
    ASSUME [Next]_vars
    PROVE  \/ UNCHANGED consumeVars
           \/ \E c \in Conns, r \in Resources, t \in Tasks : Deliver(c, r, t)
           \/ \E r \in Resources : Subscribe(r)
           \/ \E c \in Conns, r \in Resources :
                Receive(c, r) \/ Put(c, r) \/ ConsumerDone(c, r)
BY DEF vars, poolVars, amqpVars, consumeVars, readVars, answerVars, programVars,
       Next, ReaderStep, ConsumerStep, DoStep, MainStep,
       Publish, ConnectionLost, Dial, DialAborted, SubscribeFails, ReadReturns,
       Reconnect, AbortWatch, AbortDrained, PutPanics, End, Begin, RunTask,
       WriteResult, WriteError, SettleRequest, AddWorker, AbortOnSignal,
       Signal, SignalAborts, StartRead, StartDoAll, Exit, Killed, PoolStep

(* Every step of the program is a step of the pool or leaves it alone: what *)
(* a consumer sends is a request, and nothing else meddles with the pool.   *)
LEMMA PoolSteps ==
    ASSUME ConsumersOwn, [Next]_vars
    PROVE  [PoolNext]_poolVars
<1>1. ASSUME NEW w \in Workers,
             Begin(w) \/ SettleRequest(w) \/ AddWorker(w)
      PROVE PoolNext
  BY <1>1 DEF Begin, SettleRequest, AddWorker, PoolNext, WorkerStep
<1>2. ASSUME NEW c \in Conns, NEW r \in Resources, Put(c, r)
      PROVE PoolNext
  <2>1. delivery[c][r] \in Requests
    BY <1>2 DEF Put, ConsumersOwn, Of
  <2> QED BY <1>2, <2>1 DEF Put, PoolNext
<1>3. ASSUME DialAborted \/ AbortDrained \/ SignalAborts \/ StartDoAll \/ PoolStep
      PROVE PoolNext
  BY <1>3 DEF DialAborted, AbortDrained, SignalAborts, StartDoAll, PoolStep,
              Abort, PoolNext, WorkerStep
<1>4. \/ UNCHANGED poolVars
      \/ \E w \in Workers : Begin(w) \/ SettleRequest(w) \/ AddWorker(w)
      \/ \E c \in Conns, r \in Resources : Put(c, r)
      \/ DialAborted \/ AbortDrained \/ SignalAborts \/ StartDoAll \/ PoolStep
  BY DEF vars, Next, ReaderStep, ConsumerStep, DoStep, MainStep, Publish,
         Deliver, ConnectionLost, Dial, Subscribe, SubscribeFails, ReadReturns,
         Reconnect, AbortWatch, Receive, PutPanics, End, ConsumerDone, RunTask,
         WriteResult, WriteError, AbortOnSignal, Signal, StartRead, Exit, Killed
<1> QED BY <1>1, <1>2, <1>3, <1>4

----------------------------------------------------------------------------
(* Types *)

(* Every step keeps the types of RabbitMQ's state. *)
LEMMA StepAmqpTypes ==
    ASSUME BrokerInv, [Next]_vars
    PROVE  AmqpTypes'
<1> USE DEF BrokerInv, TypeOK
<1>1. ASSUME NEW t \in Tasks, NEW r \in Resources, Publish(t, r)
      PROVE AmqpTypes'
  BY <1>1 DEF Publish, AmqpTypes
<1>2. ASSUME NEW c \in Conns, NEW r \in Resources, NEW t \in Tasks, Deliver(c, r, t)
      PROVE AmqpTypes'
  BY <1>2 DEF Deliver, AmqpTypes, Deliveries
<1>3. ASSUME Dial PROVE AmqpTypes'
  BY <1>3 DEF Dial, AmqpTypes, ReadTypes
<1>4. ASSUME NEW C, CloseChannels(C) PROVE AmqpTypes'
  BY <1>4, CloseChannelsEffect
<1>5. ASSUME NEW w \in Workers, SettleRequest(w) PROVE AmqpTypes'
  BY <1>5, SettleEffect DEF SettleRequest
<1>6. CASE UNCHANGED amqpVars
  BY <1>6 DEF amqpVars, AmqpTypes
<1> QED BY <1>1, <1>2, <1>3, <1>4, <1>5, <1>6, AmqpSteps

(* Every step keeps the types of the consumers' state. *)
LEMMA StepConsumeTypes ==
    ASSUME BrokerInv, [Next]_vars
    PROVE  ConsumeTypes'
<1> USE DEF BrokerInv, TypeOK
<1>1. ASSUME NEW c \in Conns, NEW r \in Resources, NEW t \in Tasks, Deliver(c, r, t)
      PROVE ConsumeTypes'
  <2> DEFINE d == [conn |-> c, resource |-> r, task |-> t]
  <2>1. d \in Deliveries
    BY DEF Deliveries
  <2>2. Append(deliveries[c][r], d) \in Seq(Deliveries)
    BY <2>1 DEF ConsumeTypes
  <2>3. deliveries' \in [Conns -> [Resources -> Seq(Deliveries)]]
    BY <1>1, <2>2, NestedUpdate DEF Deliver, ConsumeTypes
  <2> QED BY <1>1, <2>3 DEF Deliver, ConsumeTypes
<1>2. ASSUME NEW r \in Resources, Subscribe(r) PROVE ConsumeTypes'
  <2>1. CASE conn \in Conns
    <3>1. consumer' \in [Conns -> [Resources -> ConsumerStates]]
      BY <1>2, <2>1, NestedUpdate DEF Subscribe, ConsumeTypes, ConsumerStates
    <3> QED BY <1>2, <3>1 DEF Subscribe, ConsumeTypes
  <2>2. CASE conn \notin Conns
    BY <1>2, <2>2 DEF Subscribe, ConsumeTypes
  <2> QED BY <2>1, <2>2
<1>3. ASSUME NEW c \in Conns, NEW r \in Resources, Receive(c, r)
      PROVE ConsumeTypes'
  <2>1. /\ Head(deliveries[c][r]) \in Deliveries \cup {NoDelivery}
        /\ Tail(deliveries[c][r]) \in Seq(Deliveries)
    BY <1>3 DEF Receive, ConsumeTypes
  <2>2. delivery' \in [Conns -> [Resources -> Deliveries \cup {NoDelivery}]]
    BY <1>3, <2>1, NestedUpdate DEF Receive, ConsumeTypes
  <2>3. deliveries' \in [Conns -> [Resources -> Seq(Deliveries)]]
    BY <1>3, <2>1, NestedUpdate DEF Receive, ConsumeTypes
  <2>4. consumer' \in [Conns -> [Resources -> ConsumerStates]]
    <3>1. consumer' = consumer \/ consumer' = [consumer EXCEPT ![c][r] = "put"]
      BY <1>3 DEF Receive
    <3>2. "put" \in ConsumerStates
      BY DEF ConsumerStates
    <3>3. consumer \in [Conns -> [Resources -> ConsumerStates]]
      BY DEF ConsumeTypes
    <3>4. [consumer EXCEPT ![c][r] = "put"]
            \in [Conns -> [Resources -> ConsumerStates]]
      BY <3>2, <3>3, NestedUpdate
    <3> QED BY <3>1, <3>3, <3>4
  <2> QED BY <2>2, <2>3, <2>4 DEF ConsumeTypes
<1>4. ASSUME NEW c \in Conns, NEW r \in Resources, Put(c, r)
      PROVE ConsumeTypes'
  BY <1>4, NestedUpdate DEF Put, ConsumeTypes, ConsumerStates
<1>5. ASSUME NEW c \in Conns, NEW r \in Resources, ConsumerDone(c, r)
      PROVE ConsumeTypes'
  <2>1. <<>> \in Seq(Deliveries)
    OBVIOUS
  <2>2. deliveries' \in [Conns -> [Resources -> Seq(Deliveries)]]
    BY <1>5, <2>1, NestedUpdate DEF ConsumerDone, ConsumeTypes
  <2>3. consumer' \in [Conns -> [Resources -> ConsumerStates]]
    BY <1>5, NestedUpdate DEF ConsumerDone, ConsumeTypes, ConsumerStates
  <2> QED BY <1>5, <2>2, <2>3 DEF ConsumerDone, ConsumeTypes
<1>6. CASE UNCHANGED consumeVars
  BY <1>6 DEF consumeVars, ConsumeTypes
<1> QED BY <1>1, <1>2, <1>3, <1>4, <1>5, <1>6, ConsumeSteps

(* The steps that change the state of the reader's goroutines. *)
LEMMA ReadSteps ==
    ASSUME [Next]_vars
    PROVE  \/ Dial \/ DialAborted \/ SubscribeFails \/ ReadReturns \/ Reconnect
           \/ AbortWatch \/ AbortDrained \/ Signal \/ StartRead
           \/ \E r \in Resources : Subscribe(r)
           \/ UNCHANGED readVars
<1>1. ASSUME NEW c \in Conns, NEW r \in Resources, ConsumerStep(c, r)
      PROVE UNCHANGED readVars
  BY <1>1 DEF ConsumerStep, Receive, Put, PutPanics, End, ConsumerDone, readVars
<1>2. ASSUME NEW w \in Workers, DoStep(w) PROVE UNCHANGED readVars
  BY <1>2 DEF DoStep, Begin, RunTask, WriteResult, WriteError, SettleRequest,
              readVars
<1>3. CASE PoolStep \/ Killed
  BY <1>3 DEF PoolStep, Killed, End, readVars
<1>4. CASE MainStep
  BY <1>4 DEF MainStep, AddWorker, AbortOnSignal, SignalAborts, StartDoAll,
              Exit, End, readVars
<1>5. ASSUME NEW t \in Tasks, NEW r \in Resources, Publish(t, r)
      PROVE UNCHANGED readVars
  BY <1>5 DEF Publish, readVars
<1>6. ASSUME NEW c \in Conns, NEW r \in Resources, NEW t \in Tasks, Deliver(c, r, t)
      PROVE UNCHANGED readVars
  BY <1>6 DEF Deliver, readVars
<1>7. ASSUME NEW c \in Conns, ConnectionLost(c) PROVE UNCHANGED readVars
  BY <1>7 DEF ConnectionLost, readVars
<1>8. CASE UNCHANGED vars
  BY <1>8 DEF vars, readVars
<1> QED BY <1>1, <1>2, <1>3, <1>4, <1>5, <1>6, <1>7, <1>8 DEF Next, ReaderStep

(* Every step keeps the types of the reader's state. *)
LEMMA StepReadTypes ==
    ASSUME BrokerInv, [Next]_vars
    PROVE  ReadTypes'
<1>0. ReadTypes
  BY DEF BrokerInv, TypeOK
<1>1. CASE Dial
  <2>1. conn + 1 \in 0..MaxConns
    BY <1>0, <1>1 DEF Dial, ReadTypes
  <2> QED BY <1>0, <1>1, <2>1 DEF Dial, ReadTypes, ReadStates, MaintainStates
<1>2. CASE DialAborted \/ Reconnect \/ AbortWatch \/ AbortDrained
  BY <1>0, <1>2 DEF DialAborted, Reconnect, AbortWatch, AbortDrained, ReadTypes,
                    MaintainStates
<1>3. CASE SubscribeFails \/ ReadReturns \/ Signal \/ StartRead
  BY <1>0, <1>3 DEF SubscribeFails, ReadReturns, Signal, StartRead, ReadTypes,
                    ReadStates, MaintainStates
<1>4. ASSUME NEW r \in Resources, Subscribe(r) PROVE ReadTypes'
  BY <1>0, <1>4 DEF Subscribe, ReadTypes, ReadStates
<1>5. CASE UNCHANGED readVars
  BY <1>0, <1>5 DEF readVars, ReadTypes
<1> QED BY <1>1, <1>2, <1>3, <1>4, <1>5, ReadSteps

(* A request in a worker's hand is a delivery, so what is written about it  *)
(* is about a task.                                                         *)
LEMMA StepWorkTypes ==
    ASSUME BrokerInv, [Next]_vars
    PROVE  WorkTypes'
<1> USE DEF BrokerInv, TypeOK, WorkTypes, Stages
<1>1. ASSUME NEW t \in Tasks, NEW r \in Resources, Publish(t, r)
      PROVE WorkTypes'
  BY <1>1 DEF Publish, answerVars
<1>2. ASSUME NEW c \in Conns, NEW r \in Resources, Receive(c, r)
      PROVE WorkTypes'
  <2>1. Head(deliveries[c][r]) \in Deliveries
    BY <1>2 DEF Receive, ConsumeTypes
  <2>2. Head(deliveries[c][r]).task \in Tasks
    BY <2>1 DEF Deliveries
  <2>3. errors' \in {errors, errors \cup {Head(deliveries[c][r]).task}}
    BY <1>2 DEF Receive
  <2> QED BY <1>2, <2>2, <2>3 DEF Receive
<1>3. ASSUME NEW w \in Workers, Begin(w) \/ RunTask(w) \/ SettleRequest(w)
      PROVE WorkTypes'
  BY <1>3 DEF Begin, RunTask, SettleRequest, answerVars
<1>4. ASSUME NEW w \in Workers, WriteResult(w) PROVE WorkTypes'
  <2>1. \/ results' = results
        \/ results' = [results EXCEPT ![job[w].task] = @ + 1]
    BY <1>4 DEF WriteResult
  <2>2. results' \in [Tasks -> Nat]
    BY <2>1
  <2> QED BY <1>4, <2>2 DEF WriteResult
<1>5. ASSUME NEW w \in Workers, WriteError(w) PROVE WorkTypes'
  <2>1. job[w].task \in Tasks
    BY <1>5 DEF WriteError, WorkersFollow, Deliveries
  <2>2. errors' \in {errors, errors \cup {job[w].task}}
    BY <1>5 DEF WriteError
  <2> QED BY <1>5, <2>1, <2>2 DEF WriteError
<1>6. CASE UNCHANGED <<stage, sent, results, errors>>
  BY <1>6
<1>7. \/ \E t \in Tasks, r \in Resources : Publish(t, r)
      \/ \E c \in Conns, r \in Resources : Receive(c, r)
      \/ \E w \in Workers : Begin(w) \/ RunTask(w) \/ SettleRequest(w)
      \/ \E w \in Workers : WriteResult(w)
      \/ \E w \in Workers : WriteError(w)
      \/ UNCHANGED <<stage, sent, results, errors>>
  BY DEF vars, answerVars, Next, ReaderStep, ConsumerStep, DoStep, MainStep,
         Deliver, ConnectionLost, Dial, DialAborted, Subscribe, SubscribeFails,
         ReadReturns, Reconnect, AbortWatch, AbortDrained, Put, PutPanics, End,
         ConsumerDone, AddWorker, AbortOnSignal, Signal, SignalAborts,
         StartRead, StartDoAll, Exit, Killed, PoolStep
<1> QED BY <1>1, <1>2, <1>3, <1>4, <1>5, <1>6, <1>7

(* Every step keeps the types of main's state. *)
LEMMA StepProgramTypes ==
    ASSUME BrokerInv, [Next]_vars
    PROVE  ProgramTypes'
<1> USE DEF BrokerInv, TypeOK, ProgramTypes, MainStates
<1>1. ASSUME NEW c \in Conns, ConnectionLost(c) PROVE ProgramTypes'
  BY <1>1 DEF ConnectionLost
<1>2. ASSUME NEW how \in {"exited", "panicked"}, End(how) PROVE ProgramTypes'
  BY <1>2 DEF End
<1>3. CASE AbortOnSignal \/ Signal \/ SignalAborts \/ StartRead \/ StartDoAll
  BY <1>3 DEF AbortOnSignal, Signal, SignalAborts, StartRead, StartDoAll
<1>4. CASE UNCHANGED programVars
  BY <1>4 DEF programVars
<1>5. \/ \E c \in Conns : ConnectionLost(c)
      \/ \E how \in {"exited", "panicked"} : End(how)
      \/ AbortOnSignal \/ Signal \/ SignalAborts \/ StartRead \/ StartDoAll
      \/ UNCHANGED programVars
  BY DEF vars, programVars, Next, ReaderStep, ConsumerStep, DoStep, MainStep,
         Publish, Deliver, Dial, DialAborted, Subscribe, SubscribeFails,
         ReadReturns, Reconnect, AbortWatch, AbortDrained, Receive, Put,
         PutPanics, ConsumerDone, Begin, RunTask, WriteResult, WriteError,
         SettleRequest, AddWorker, Exit, Killed, PoolStep
<1> QED BY <1>1, <1>2, <1>3, <1>4, <1>5

----------------------------------------------------------------------------
(* Connections, consumers and workers *)

(* Connections are opened in order. *)
LEMMA StepUndialled ==
    ASSUME BrokerInv, [Next]_vars
    PROVE  Undialled'
<1> USE DEF BrokerInv, TypeOK, ReadTypes, AmqpTypes, Undialled
<1>1. CASE Dial
  BY <1>1 DEF Dial
<1>2. ASSUME NEW C \in SUBSET Nat, CloseChannels(C), conn' = conn,
             \A c \in C : (c \in Conns /\ channel[c] # "none") \/ c = conn
      PROVE Undialled'
  BY <1>2 DEF CloseChannels
<1>3. ASSUME NEW w \in Workers, SettleRequest(w) PROVE Undialled'
  BY <1>3, SettleEffect DEF SettleRequest, readVars
<1>4. ASSUME NEW t \in Tasks, NEW r \in Resources, Publish(t, r)
      PROVE Undialled'
  BY <1>4 DEF Publish, readVars
<1>5. ASSUME NEW c \in Conns, NEW r \in Resources, NEW t \in Tasks, Deliver(c, r, t)
      PROVE Undialled'
  BY <1>5 DEF Deliver, readVars
<1>6. CASE UNCHANGED amqpVars
  <2>1. conn' = conn \/ Dial
    BY DEF vars, readVars, Next, ReaderStep, ConsumerStep, DoStep, MainStep,
           Publish, Deliver, ConnectionLost, DialAborted, Subscribe,
           SubscribeFails, ReadReturns, Reconnect, AbortWatch, AbortDrained,
           Receive, Put, PutPanics, End, ConsumerDone, Begin, RunTask,
           WriteResult, WriteError, SettleRequest, AddWorker, AbortOnSignal,
           Signal, SignalAborts, StartRead, StartDoAll, Exit, Killed, PoolStep
  <2> QED BY <1>1, <1>6, <2>1 DEF amqpVars
<1> QED BY <1>1, <1>2, <1>3, <1>4, <1>5, <1>6, AmqpSteps

(* A channel that is not open any more has nothing outstanding. *)
LEMMA StepUnackedOpen ==
    ASSUME BrokerInv, [Next]_vars
    PROVE  UnackedOpen'
<1> USE DEF BrokerInv, TypeOK, AmqpTypes, UnackedOpen
<1>0. \A d \in unacked : d.conn \in Conns
  BY DEF Deliveries
<1>1. ASSUME NEW t \in Tasks, NEW r \in Resources, Publish(t, r)
      PROVE UnackedOpen'
  BY <1>1 DEF Publish
<1>2. ASSUME NEW c \in Conns, NEW r \in Resources, NEW t \in Tasks, Deliver(c, r, t)
      PROVE UnackedOpen'
  BY <1>2 DEF Deliver
<1>3. CASE Dial
  BY <1>0, <1>3 DEF Dial
<1>4. ASSUME NEW C, CloseChannels(C) PROVE UnackedOpen'
  BY <1>0, <1>4, CloseChannelsEffect
<1>5. ASSUME NEW w \in Workers, SettleRequest(w) PROVE UnackedOpen'
  BY <1>5, SettleEffect DEF SettleRequest
<1>6. CASE UNCHANGED amqpVars
  BY <1>6 DEF amqpVars
<1> QED BY <1>1, <1>2, <1>3, <1>4, <1>5, <1>6, AmqpSteps

(* A channel once opened is never as if it had not been. *)
LEMMA OpenedForGood ==
    ASSUME BrokerInv, [Next]_vars
    PROVE  \A c \in Conns : channel'[c] = "none" => channel[c] = "none"
<1> USE DEF BrokerInv, TypeOK, AmqpTypes
<1>1. ASSUME NEW t \in Tasks, NEW r \in Resources, Publish(t, r)
      PROVE UNCHANGED channel
  BY <1>1 DEF Publish
<1>2. ASSUME NEW c \in Conns, NEW r \in Resources, NEW t \in Tasks, Deliver(c, r, t)
      PROVE UNCHANGED channel
  BY <1>2 DEF Deliver
<1>3. CASE Dial
  BY <1>3 DEF Dial
<1>4. ASSUME NEW C, CloseChannels(C)
      PROVE \A c \in Conns : channel'[c] \in {channel[c], "closed"}
  BY <1>4, CloseChannelsEffect
<1>5. ASSUME NEW w \in Workers, SettleRequest(w)
      PROVE \A c \in Conns : channel'[c] \in {channel[c], "closed"}
  BY <1>5, SettleEffect DEF SettleRequest
<1>6. CASE UNCHANGED amqpVars
  BY <1>6 DEF amqpVars
<1> QED BY <1>1, <1>2, <1>3, <1>4, <1>5, <1>6, AmqpSteps

(* What changes r.tasks, and what changes a worker's request and stage. *)
LEMMA WorkSteps ==
    ASSUME [Next]_vars
    PROVE  \/ \E w \in Workers : Begin(w) \/ SettleRequest(w)
           \/ /\ \E c \in Conns, r \in Resources : Put(c, r)
              /\ UNCHANGED <<pc, job, stage>>
           \/ /\ \E w \in Workers : RunTask(w) \/ WriteResult(w) \/ WriteError(w)
              /\ UNCHANGED <<pc, job, requests>>
           \/ /\ \E w \in Workers :
                   AddCheck(w) \/ AddStart(w) \/ Get(w) \/ CheckCanceler(w)
                     \/ SelectStop(w)
              /\ UNCHANGED <<job, requests, stage>>
           \/ UNCHANGED <<pc, job, requests, stage>>
<1> USE DEF poolVars
<1>1. ASSUME NEW w \in Workers, AddWorker(w)
      PROVE /\ AddCheck(w) \/ AddStart(w)
            /\ UNCHANGED <<job, requests, stage>>
  BY <1>1 DEF AddWorker, AddCheck, AddStart
<1>2. ASSUME PoolStep
      PROVE \/ /\ \E w \in Workers : Get(w) \/ CheckCanceler(w) \/ SelectStop(w)
               /\ UNCHANGED <<job, requests, stage>>
            \/ UNCHANGED <<pc, job, requests, stage>>
  BY <1>2 DEF PoolStep, Get, CheckCanceler, SelectStop, Stop, DoAllFirst,
              DoAllReturn
<1>3. ASSUME NEW w \in Workers, RunTask(w) \/ WriteResult(w) \/ WriteError(w)
      PROVE UNCHANGED <<pc, job, requests>>
  BY <1>3 DEF RunTask, WriteResult, WriteError
<1>4. ASSUME NEW c \in Conns, NEW r \in Resources, Put(c, r)
      PROVE UNCHANGED <<pc, job, stage>>
  BY <1>4 DEF Put, Send
<1>5. ASSUME NEW c \in Conns, NEW r \in Resources,
             Receive(c, r) \/ PutPanics(c, r) \/ ConsumerDone(c, r)
      PROVE UNCHANGED <<pc, job, requests, stage>>
  BY <1>5 DEF Receive, PutPanics, End, ConsumerDone
<1>6. CASE ReaderStep \/ Signal \/ Killed \/ UNCHANGED vars
  <2>1. UNCHANGED <<pc, job, requests, stage>>
    BY <1>6 DEF ReaderStep, Dial, DialAborted, SubscribeFails, ReadReturns,
                Reconnect, AbortWatch, AbortDrained, Subscribe, Close, Signal,
                Killed, End, vars
  <2> QED BY <2>1
<1>7. CASE AbortOnSignal \/ SignalAborts \/ StartRead \/ StartDoAll \/ Exit
  <2>1. UNCHANGED <<pc, job, requests, stage>>
    BY <1>7 DEF AbortOnSignal, SignalAborts, Abort, Cancel, StartRead,
                StartDoAll, DoAll, Exit, End
  <2> QED BY <2>1
<1>8. ASSUME NEW t \in Tasks, NEW r \in Resources, Publish(t, r)
      PROVE UNCHANGED <<pc, job, requests, stage>>
  BY <1>8 DEF Publish
<1>9. ASSUME NEW c \in Conns, NEW r \in Resources, NEW t \in Tasks, Deliver(c, r, t)
      PROVE UNCHANGED <<pc, job, requests, stage>>
  BY <1>9 DEF Deliver
<1>10. ASSUME NEW c \in Conns, ConnectionLost(c)
       PROVE UNCHANGED <<pc, job, requests, stage>>
  BY <1>10 DEF ConnectionLost
<1> QED BY <1>1, <1>2, <1>3, <1>4, <1>5, <1>6, <1>7, <1>8, <1>9, <1>10
        DEF Next, ConsumerStep, DoStep, MainStep

(* A connection not dialled yet has no consumer and no delivery. *)
LEMMA StepUnopened ==
    ASSUME BrokerInv, [Next]_vars
    PROVE  Unopened'
<1> SUFFICES ASSUME NEW c \in Conns, channel'[c] = "none", NEW r \in Resources
             PROVE  consumer'[c][r] = "none" /\ deliveries'[c][r] = <<>>
  BY DEF Unopened
<1>1. /\ channel[c] = "none"
      /\ consumer[c][r] = "none" /\ deliveries[c][r] = <<>>
  BY OpenedForGood DEF BrokerInv, Unopened
<1>0. ConsumeTypes
  BY DEF BrokerInv, TypeOK
<1>2. CASE UNCHANGED consumeVars
  BY <1>1, <1>2 DEF consumeVars
<1>3. ASSUME NEW b \in Conns, NEW q \in Resources, NEW t \in Tasks, Deliver(b, q, t)
      PROVE consumer'[c][r] = "none" /\ deliveries'[c][r] = <<>>
  BY <1>0, <1>1, <1>3 DEF Deliver, ConsumeTypes
<1>4. ASSUME NEW q \in Resources, Subscribe(q)
      PROVE consumer'[c][r] = "none" /\ deliveries'[c][r] = <<>>
  <2>1. conn # c
    BY <1>1, <1>4 DEF Subscribe
  <2> QED BY <1>0, <1>1, <1>4, <2>1 DEF Subscribe, ConsumeTypes
<1>5. ASSUME NEW b \in Conns, NEW q \in Resources, Receive(b, q)
      PROVE consumer'[c][r] = "none" /\ deliveries'[c][r] = <<>>
  <2>1. ~(b = c /\ q = r)
    BY <1>1, <1>5 DEF Receive
  <2>2. consumer' = consumer \/ consumer' = [consumer EXCEPT ![b][q] = "put"]
    BY <1>5 DEF Receive
  <2>3. consumer'[c][r] = consumer[c][r]
    BY <1>0, <2>1, <2>2 DEF ConsumeTypes
  <2> QED BY <1>0, <1>1, <1>5, <2>1, <2>3 DEF Receive, ConsumeTypes
<1>6. ASSUME NEW b \in Conns, NEW q \in Resources, Put(b, q) \/ ConsumerDone(b, q)
      PROVE consumer'[c][r] = "none" /\ deliveries'[c][r] = <<>>
  <2>1. ~(b = c /\ q = r)
    BY <1>1, <1>6 DEF Put, ConsumerDone
  <2>2. consumer'[c][r] = consumer[c][r]
    BY <1>0, <1>6, <2>1 DEF Put, ConsumerDone, ConsumeTypes
  <2>3. deliveries'[c][r] = deliveries[c][r]
    BY <1>0, <1>6, <2>1 DEF Put, ConsumerDone, ConsumeTypes
  <2> QED BY <1>1, <2>2, <2>3
<1> QED BY <1>2, <1>3, <1>4, <1>5, <1>6, ConsumeSteps

(* A consumer's deliveries come from its own channel and queue, and the loop *)
(* variable is set from them.                                                *)
LEMMA StepConsumersOwn ==
    ASSUME BrokerInv, [Next]_vars
    PROVE  ConsumersOwn'
<1> DEFINE Owns(c, r) ==
      /\ delivery[c][r] # NoDelivery => Of(delivery[c][r], c, r)
      /\ consumer[c][r] = "put" => delivery[c][r] # NoDelivery
      /\ \A i \in 1..Len(deliveries[c][r]) : Of(deliveries[c][r][i], c, r)
<1>0. ConsumeTypes /\ ReadTypes /\ \A c \in Conns, r \in Resources : Owns(c, r)
  BY DEF BrokerInv, TypeOK, ConsumersOwn
<1> SUFFICES ASSUME NEW c \in Conns, NEW r \in Resources PROVE Owns(c, r)'
  BY DEF ConsumersOwn
<1>1. ASSUME deliveries'[c][r] = deliveries[c][r],
             delivery'[c][r] = delivery[c][r],
             consumer'[c][r] = "put" => consumer[c][r] = "put"
      PROVE Owns(c, r)'
  BY <1>0, <1>1 DEF Of
<1>2. ASSUME NEW b \in Conns, NEW q \in Resources, NEW t \in Tasks, Deliver(b, q, t)
      PROVE Owns(c, r)'
  <2>1. CASE b = c /\ q = r
    <3> DEFINE d == [conn |-> c, resource |-> r, task |-> t]
    <3>1. Of(d, c, r)
      BY DEF Of, Deliveries
    <3>2. deliveries[c][r] \in Seq(Deliveries) /\ d \in Deliveries
      BY <1>0 DEF ConsumeTypes, Deliveries
    <3>3. deliveries'[c][r] = Append(deliveries[c][r], d)
      BY <1>0, <1>2, <2>1 DEF Deliver, ConsumeTypes
    <3>4. \A i \in 1..Len(deliveries'[c][r]) :
            \/ deliveries'[c][r][i] = d
            \/ /\ i \in 1..Len(deliveries[c][r])
               /\ deliveries'[c][r][i] = deliveries[c][r][i]
      BY <3>2, <3>3
    <3>5. UNCHANGED <<delivery, consumer>>
      BY <1>2 DEF Deliver
    <3>6. \A i \in 1..Len(deliveries'[c][r]) : Of(deliveries'[c][r][i], c, r)
      <4> HIDE DEF d
      <4> QED BY <1>0, <3>1, <3>4
    <3> QED BY <1>0, <3>5, <3>6 DEF Of
  <2>2. CASE ~(b = c /\ q = r)
    <3>1. deliveries'[c][r] = deliveries[c][r]
      BY <1>0, <1>2, <2>2 DEF Deliver, ConsumeTypes
    <3>2. UNCHANGED <<delivery, consumer>>
      BY <1>2 DEF Deliver
    <3> QED BY <1>1, <3>1, <3>2
  <2> QED BY <2>1, <2>2
<1>3. ASSUME NEW q \in Resources, Subscribe(q) PROVE Owns(c, r)'
  <2>1. UNCHANGED <<delivery, deliveries>>
    BY <1>3 DEF Subscribe
  <2>2. consumer'[c][r] = "put" => consumer[c][r] = "put"
    BY <1>0, <1>3 DEF Subscribe, ConsumeTypes
  <2> QED BY <1>1, <2>1, <2>2
<1>4. ASSUME NEW b \in Conns, NEW q \in Resources, Receive(b, q) PROVE Owns(c, r)'
  <2>0. deliveries[c][r] \in Seq(Deliveries)
    BY <1>0 DEF ConsumeTypes
  <2>1. CASE b = c /\ q = r
    <3>1. /\ deliveries[c][r] # <<>>
          /\ deliveries'[c][r] = Tail(deliveries[c][r])
          /\ delivery'[c][r] = Head(deliveries[c][r])
      BY <1>0, <1>4, <2>1 DEF Receive, ConsumeTypes
    <3>2. Of(Head(deliveries[c][r]), c, r)
      BY <1>0, <2>0, <3>1
    <3>3. \A i \in 1..Len(deliveries'[c][r]) :
            /\ i + 1 \in 1..Len(deliveries[c][r])
            /\ deliveries'[c][r][i] = deliveries[c][r][i + 1]
      BY <2>0, <3>1
    <3> QED BY <1>0, <3>1, <3>2, <3>3 DEF Of
  <2>2. CASE ~(b = c /\ q = r)
    <3>1. /\ deliveries'[c][r] = deliveries[c][r]
          /\ delivery'[c][r] = delivery[c][r]
      BY <1>0, <1>4, <2>2 DEF Receive, ConsumeTypes
    <3>2. consumer' = consumer \/ consumer' = [consumer EXCEPT ![b][q] = "put"]
      BY <1>4 DEF Receive
    <3>3. [consumer EXCEPT ![b][q] = "put"][c][r] = consumer[c][r]
      BY <1>0, <2>2 DEF ConsumeTypes
    <3>4. consumer'[c][r] = consumer[c][r]
      BY <3>2, <3>3
    <3> QED BY <1>1, <3>1, <3>4
  <2> QED BY <2>1, <2>2
<1>5. ASSUME NEW b \in Conns, NEW q \in Resources, Put(b, q) PROVE Owns(c, r)'
  <2>1. UNCHANGED <<delivery, deliveries>>
    BY <1>5 DEF Put
  <2>2. consumer'[c][r] = "put" => consumer[c][r] = "put"
    BY <1>0, <1>5 DEF Put, ConsumeTypes
  <2> QED BY <1>1, <2>1, <2>2
<1>6. ASSUME NEW b \in Conns, NEW q \in Resources, ConsumerDone(b, q)
      PROVE Owns(c, r)'
  <2>1. UNCHANGED delivery
    BY <1>6 DEF ConsumerDone
  <2>2. consumer'[c][r] = "put" => consumer[c][r] = "put"
    BY <1>0, <1>6 DEF ConsumerDone, ConsumeTypes
  <2>3. deliveries'[c][r] \in {deliveries[c][r], <<>>}
    BY <1>0, <1>6 DEF ConsumerDone, ConsumeTypes
  <2> QED BY <1>0, <1>1, <2>1, <2>2, <2>3 DEF Of
<1>7. CASE UNCHANGED consumeVars
  BY <1>1, <1>7 DEF consumeVars
<1> QED BY <1>2, <1>3, <1>4, <1>5, <1>6, <1>7, ConsumeSteps

(* A loop variable, once set, stays set. *)
LEMMA ReceivedForGood ==
    ASSUME BrokerInv, [Next]_vars, NEW d \in Deliveries, Received(d)
    PROVE  channel'[d.conn] # "none" /\ delivery'[d.conn][d.resource] # NoDelivery
<1>0. ConsumeTypes /\ d.conn \in Conns /\ d.resource \in Resources
  BY DEF BrokerInv, TypeOK, Deliveries
<1>1. channel'[d.conn] # "none"
  BY <1>0, OpenedForGood DEF Received
<1>2. ASSUME NEW c \in Conns, NEW r \in Resources, Receive(c, r)
      PROVE delivery'[d.conn][d.resource] # NoDelivery
  <2>1. Head(deliveries[c][r]) \in Deliveries
    BY <1>0, <1>2 DEF Receive, ConsumeTypes
  <2>2. Head(deliveries[c][r]) # NoDelivery
    BY <2>1
  <2> QED BY <1>0, <1>2, <2>2 DEF Receive, Received, ConsumeTypes
<1>3. ASSUME UNCHANGED delivery PROVE delivery'[d.conn][d.resource] # NoDelivery
  BY <1>3 DEF Received
<1>4. UNCHANGED delivery \/ \E c \in Conns, r \in Resources : Receive(c, r)
  BY ConsumeSteps DEF Deliver, Subscribe, Put, ConsumerDone, consumeVars
<1>5. delivery'[d.conn][d.resource] # NoDelivery
  BY <1>2, <1>3, <1>4 DEF Received
<1> QED BY <1>1, <1>5

(* A request enters r.tasks from a consumer's hand, and a worker's hand from *)
(* r.tasks.                                                                  *)
LEMMA StepRequestsReceived ==
    ASSUME BrokerInv, [Next]_vars
    PROVE  RequestsReceived'
<1>0. /\ requests \in Seq(Deliveries)
      /\ stage \in [Workers -> Stages]
      /\ job \in [Workers -> Deliveries \cup {NoRequest}]
  BY DEF BrokerInv, TypeOK, PoolTypeOK, WorkTypes
<1>1. ASSUME NEW d \in Deliveries, Received(d)
      PROVE  channel'[d.conn] # "none" /\ delivery'[d.conn][d.resource] # NoDelivery
  BY <1>1, ReceivedForGood
<1>2. ASSUME NEW i \in 1..Len(requests)' PROVE Received(requests[i])'
  <2>2. ASSUME NEW c \in Conns, NEW r \in Resources, Put(c, r)
        PROVE Received(requests[i])'
    <3>1. Of(delivery[c][r], c, r) /\ delivery[c][r] # NoDelivery
      BY <2>2 DEF Put, BrokerInv, ConsumersOwn
    <3>2. channel[c] # "none"
      BY <2>2 DEF Put, BrokerInv, Unopened
    <3>3. delivery[c][r] \in Deliveries /\ Received(delivery[c][r])
      BY <3>1, <3>2 DEF Of, Received
    <3>4. requests' = Append(requests, delivery[c][r])
      BY <2>2 DEF Put, Send
    <3>5. \/ i \in 1..Len(requests) /\ requests'[i] = requests[i]
          \/ requests'[i] = delivery[c][r]
      BY <1>0, <3>3, <3>4
    <3> QED BY <1>0, <3>3, <1>1, <3>5 DEF BrokerInv, RequestsReceived, Received
  <2>3. ASSUME NEW w \in Workers, Begin(w) PROVE Received(requests[i])'
    <3>1. requests' = Tail(requests) /\ requests # <<>>
      BY <2>3 DEF Begin, Take
    <3>2. i + 1 \in 1..Len(requests) /\ requests'[i] = requests[i + 1]
      BY <1>0, <3>1
    <3> QED BY <1>0, <3>2, <1>1 DEF BrokerInv, RequestsReceived, Received
  <2>4. ASSUME UNCHANGED requests PROVE Received(requests[i])'
    <3>1. requests[i] \in Deliveries /\ Received(requests[i])
      BY <1>0, <2>4 DEF BrokerInv, RequestsReceived
    <3> QED BY <1>1, <2>4, <3>1 DEF Received
  <2>5. ASSUME NEW w \in Workers, SettleRequest(w) PROVE UNCHANGED requests
    BY <2>5 DEF SettleRequest, Finish
  <2> QED BY <2>2, <2>3, <2>4, <2>5, WorkSteps
<1>3. ASSUME NEW w \in Workers, stage'[w] # "idle" PROVE Received(job[w])'
  <2>1. ASSUME stage[w] # "idle", job'[w] = job[w] PROVE Received(job[w])'
    <3>1. job[w] \in Deliveries /\ Received(job[w])
      BY <2>1 DEF BrokerInv, RequestsReceived, WorkersFollow
    <3> QED BY <2>1, <1>1, <3>1 DEF Received
  <2>2. ASSUME NEW v \in Workers, Begin(v) PROVE Received(job[w])'
    <3>1. CASE v = w
      <4>1. requests # <<>> /\ job'[w] = Head(requests)
        BY <1>0, <2>2, <3>1 DEF Begin, Take
      <4>2. 1 \in 1..Len(requests) /\ Head(requests) = requests[1]
        BY <1>0, <4>1
      <4>3. requests[1] \in Deliveries /\ Received(requests[1])
        BY <1>0, <4>2 DEF BrokerInv, RequestsReceived
      <4> QED BY <4>1, <4>2, <4>3, <1>1 DEF Received
    <3>2. CASE v # w
      BY <1>0, <1>3, <2>1, <2>2, <3>2 DEF Begin, Take, Received
    <3> QED BY <3>1, <3>2
  <2>3. ASSUME NEW v \in Workers, SettleRequest(v) PROVE Received(job[w])'
    <3>1. v # w /\ stage[w] # "idle" /\ job'[w] = job[w]
      BY <1>0, <1>3, <2>3 DEF SettleRequest, Finish
    <3> QED BY <2>1, <3>1
  <2>4. ASSUME NEW v \in Workers, RunTask(v) \/ WriteResult(v) \/ WriteError(v),
               job' = job
        PROVE Received(job[w])'
    <3>1. stage[w] # "idle"
      BY <1>0, <1>3, <2>4 DEF RunTask, WriteResult, WriteError
    <3> QED BY <2>1, <2>4, <3>1 DEF Received
  <2>5. CASE UNCHANGED <<job, stage>>
    BY <1>3, <2>1, <2>5 DEF Received
  <2> QED BY <2>2, <2>3, <2>4, <2>5, WorkSteps
<1> QED BY <1>2, <1>3 DEF RequestsReceived

(* A request leaves the channel with a stage, and both end together. *)
LEMMA StepWorkersFollow ==
    ASSUME BrokerInv, [Next]_vars
    PROVE  WorkersFollow'
<1> DEFINE Follows(w) == /\ stage[w] # "idle" <=> pc[w] = "do"
                         /\ stage[w] # "idle" <=> job[w] \in Deliveries
<1>0. /\ pc \in [Workers -> WorkerStates]
      /\ job \in [Workers -> Deliveries \cup {NoRequest}]
      /\ requests \in Seq(Deliveries)
      /\ stage \in [Workers -> Stages]
      /\ \A w \in Workers : Follows(w)
  BY DEF BrokerInv, TypeOK, PoolTypeOK, WorkTypes, WorkersFollow
<1> SUFFICES ASSUME NEW w \in Workers PROVE Follows(w)'
  BY DEF WorkersFollow
<1>1. ASSUME NEW v \in Workers, Begin(v) PROVE Follows(w)'
  <2>1. Head(requests) \in Deliveries
    BY <1>0, <1>1 DEF Begin, Take
  <2>2. CASE v = w
    <3>1. stage'[w] = "run" /\ pc'[w] = "do" /\ job'[w] = Head(requests)
      BY <1>0, <1>1, <2>2 DEF Begin, Take
    <3> QED BY <2>1, <3>1 DEF Deliveries
  <2>3. CASE v # w
    <3>1. stage'[w] = stage[w] /\ pc'[w] = pc[w] /\ job'[w] = job[w]
      BY <1>0, <1>1, <2>3 DEF Begin, Take
    <3> QED BY <1>0, <3>1 DEF Deliveries
  <2> QED BY <2>2, <2>3
<1>2. ASSUME NEW v \in Workers, SettleRequest(v) PROVE Follows(w)'
  <2>2. CASE v = w
    <3>1. stage'[w] = "idle" /\ pc'[w] = "check" /\ job'[w] = NoRequest
      BY <1>0, <1>2, <2>2 DEF SettleRequest, Finish
    <3> QED BY <3>1 DEF Deliveries
  <2>3. CASE v # w
    <3>1. stage'[w] = stage[w] /\ pc'[w] = pc[w] /\ job'[w] = job[w]
      BY <1>0, <1>2, <2>3 DEF SettleRequest, Finish
    <3> QED BY <1>0, <3>1 DEF Deliveries
  <2> QED BY <2>2, <2>3
<1>3. ASSUME NEW v \in Workers, RunTask(v) \/ WriteResult(v) \/ WriteError(v),
             UNCHANGED <<pc, job>>
      PROVE Follows(w)'
  <2>1. stage'[w] # "idle" <=> stage[w] # "idle"
    BY <1>0, <1>3 DEF RunTask, WriteResult, WriteError
  <2> QED BY <1>0, <1>3, <2>1 DEF Deliveries
<1>4. ASSUME NEW v \in Workers,
             AddCheck(v) \/ AddStart(v) \/ Get(v) \/ CheckCanceler(v) \/ SelectStop(v),
             UNCHANGED <<job, stage>>
      PROVE Follows(w)'
  <2>1. pc'[w] = "do" <=> pc[w] = "do"
    BY <1>0, <1>4 DEF AddCheck, AddStart, Get, CheckCanceler, SelectStop, Stop
  <2> QED BY <1>0, <1>4, <2>1 DEF Deliveries
<1>5. CASE UNCHANGED <<pc, job, stage>>
  BY <1>0, <1>5 DEF Deliveries
<1> QED BY <1>1, <1>2, <1>3, <1>4, <1>5, WorkSteps

----------------------------------------------------------------------------
(* The invariant *)

(* Every step of the program keeps BrokerInv. *)
LEMMA BrokerInductive ==
    ASSUME BrokerInv, [Next]_vars
    PROVE  BrokerInv'
<1>1. [PoolNext]_poolVars
  BY PoolSteps DEF BrokerInv
<1>2. PoolInv'
  BY <1>1, PoolInductive DEF BrokerInv
<1>3. TypeOK'
  BY <1>2, StepAmqpTypes, StepConsumeTypes, StepReadTypes, StepWorkTypes,
     StepProgramTypes DEF TypeOK, PoolInv
<1> QED BY <1>2, <1>3, StepUndialled, StepUnopened, StepUnackedOpen,
           StepConsumersOwn, StepRequestsReceived, StepWorkersFollow
        DEF BrokerInv

(* The program starts with every invariant true. *)
LEMMA BrokerInit == Init => BrokerInv
<1> SUFFICES ASSUME Init PROVE BrokerInv
  OBVIOUS
<1>1. PoolInv
  BY PoolInitInv DEF Init
<1>2. /\ AmqpTypes
      /\ ReadTypes
      /\ WorkTypes
      /\ ProgramTypes
  <2>1. AmqpTypes
    BY DEF Init, AmqpTypes
  <2>2. ReadTypes
    <3>1. 0 \in 0..MaxConns
      OBVIOUS
    <3> QED BY <3>1 DEF Init, ReadTypes, ReadStates, MaintainStates
  <2>3. WorkTypes
    BY DEF Init, WorkTypes, Stages
  <2>4. ProgramTypes
    BY DEF Init, ProgramTypes, MainStates
  <2> QED BY <2>1, <2>2, <2>3, <2>4
<1>3. ConsumeTypes
  BY DEF Init, ConsumeTypes, ConsumerStates
<1>4. Undialled /\ Unopened /\ UnackedOpen /\ ConsumersOwn /\ RequestsReceived
  BY DEF Init, PoolInit, Undialled, Unopened, UnackedOpen, ConsumersOwn,
         RequestsReceived
<1>5. WorkersFollow
  BY DEF Init, PoolInit, WorkersFollow
<1> QED BY <1>1, <1>2, <1>3, <1>4, <1>5 DEF BrokerInv, TypeOK, PoolInv

(* The inductive invariant of the program, for any number of jobs. *)
THEOREM BrokerInvariant == Spec => []BrokerInv
<1>1. Init => BrokerInv
  BY BrokerInit
<1>2. BrokerInv /\ [Next]_vars => BrokerInv'
  BY BrokerInductive
<1> QED BY <1>1, <1>2, PTL DEF Spec

(* Every variable keeps its type: what a worker writes, acknowledges or      *)
(* rejects is about a delivery.                                              *)
THEOREM ProgramTypeCorrect == Spec => []TypeOK
<1>1. BrokerInv => TypeOK
  BY DEF BrokerInv
<1> QED BY <1>1, BrokerInvariant, PTL

----------------------------------------------------------------------------
(* When the program panics *)

(* A consumer that was never started starts in Subscribe only, and one that  *)
(* is done stays so.                                                         *)
LEMMA ConsumersOnward ==
    ASSUME BrokerInv, [Next]_vars, NEW c \in Conns, NEW r \in Resources
    PROVE  /\ consumer[c][r] = "none" => consumer'[c][r] = "none"
                                         \/ (c = conn /\ Subscribe(r))
           /\ consumer[c][r] = "done" => consumer'[c][r] = "done"
<1>0. consumer \in [Conns -> [Resources -> ConsumerStates]]
  BY DEF BrokerInv, TypeOK, ConsumeTypes
<1>1. ASSUME NEW b \in Conns, NEW q \in Resources, Receive(b, q)
      PROVE /\ consumer[b][q] = "receive"
            /\ consumer' = consumer \/ consumer' = [consumer EXCEPT ![b][q] = "put"]
  BY <1>1 DEF Receive
<1>2. ASSUME NEW b \in Conns, NEW q \in Resources, Put(b, q)
      PROVE /\ consumer[b][q] = "put"
            /\ consumer' = [consumer EXCEPT ![b][q] = "receive"]
  BY <1>2 DEF Put
<1>3. ASSUME NEW b \in Conns, NEW q \in Resources, ConsumerDone(b, q)
      PROVE /\ consumer[b][q] = "receive"
            /\ consumer' = [consumer EXCEPT ![b][q] = "done"]
  BY <1>3 DEF ConsumerDone
<1>4. ASSUME NEW q \in Resources, Subscribe(q)
      PROVE /\ consumer[conn][q] = "none"
            /\ consumer' = [consumer EXCEPT ![conn][q] = "receive"]
  BY <1>4 DEF Subscribe
<1>5. CASE UNCHANGED consumeVars
  BY <1>5 DEF consumeVars
<1>6. ASSUME NEW b \in Conns, NEW q \in Resources, NEW t \in Tasks, Deliver(b, q, t)
      PROVE consumer' = consumer
  BY <1>6 DEF Deliver
<1>7. ASSUME NEW b \in Conns, NEW q \in Resources,
             Receive(b, q) \/ Put(b, q) \/ ConsumerDone(b, q),
             consumer[c][r] \in {"none", "done"}
      PROVE consumer'[c][r] = consumer[c][r]
  <2>1. b # c \/ q # r
    BY <1>1, <1>2, <1>3, <1>7
  <2>2. consumer[b][q] # consumer'[b][q] => consumer'[c][r] = consumer[c][r]
    BY <1>0, <1>1, <1>2, <1>3, <1>7, <2>1
  <2> QED BY <1>0, <1>1, <1>2, <1>3, <1>7, <2>1
<1>8. ASSUME NEW q \in Resources, Subscribe(q), consumer[c][r] \in {"none", "done"}
      PROVE consumer'[c][r] = consumer[c][r] \/ (c = conn /\ r = q /\ consumer[c][r] = "none")
  BY <1>0, <1>4, <1>8
<1> QED BY <1>5, <1>6, <1>7, <1>8, ConsumeSteps

(* Every step keeps that r.tasks is closed when no reader function runs.     *)
LEMMA StepNoReader ==
    ASSUME BrokerInv, NoReader, [Next]_vars
    PROVE  NoReader'
<1>0. ReadTypes
  BY DEF BrokerInv, TypeOK
<1>1. closed' => closed \/ DialAborted \/ AbortDrained
  BY DEF vars, poolVars, Next, ReaderStep, ConsumerStep, DoStep, MainStep,
         Publish, Deliver, ConnectionLost, Dial, Subscribe, SubscribeFails,
         ReadReturns, Reconnect, AbortWatch, Receive, Put, Send, PutPanics, End,
         ConsumerDone, Begin, Take, RunTask, WriteResult, WriteError,
         SettleRequest, Finish, AddWorker, AddCheck, AddStart, AbortOnSignal,
         Signal, SignalAborts, Abort, Cancel, StartRead, StartDoAll, DoAll, Exit,
         Killed, PoolStep, Get, CheckCanceler, SelectStop, Stop, DoAllFirst,
         DoAllReturn
<1>m. main' \in {"add", "read"} => main \in {"add", "read"} /\ ~StartRead
  BY DEF vars, programVars, Next, ReaderStep, ConsumerStep, DoStep, MainStep,
     Publish, Deliver, ConnectionLost, Dial, DialAborted, Subscribe,
     SubscribeFails, ReadReturns, Reconnect, AbortWatch, AbortDrained, Receive,
     Put, PutPanics, End, ConsumerDone, Begin, RunTask, WriteResult, WriteError,
     SettleRequest, AddWorker, AbortOnSignal, Signal, SignalAborts, StartRead,
     StartDoAll, Exit, Killed, PoolStep
<1> USE <1>m
<1>2. CASE Dial
  BY <1>0, <1>1, <1>2 DEF Dial, NoReader, poolVars, ReadTypes, DialAborted, AbortDrained
<1>3. CASE DialAborted \/ AbortDrained
  BY <1>3 DEF DialAborted, AbortDrained, NoReader
<1>4. CASE SubscribeFails \/ ReadReturns \/ Reconnect \/ AbortWatch
  BY <1>1, <1>4 DEF SubscribeFails, ReadReturns, Reconnect, AbortWatch, NoReader,
                    DialAborted, AbortDrained
<1>5. CASE Signal \/ StartRead \/ UNCHANGED readVars
  <2>1. CASE Signal \/ UNCHANGED readVars
    BY <1>1, <1>3, <2>1 DEF Signal, readVars, NoReader
  <2>2. CASE StartRead
    BY <1>1, <1>3, <2>2 DEF StartRead, NoReader, poolVars
  <2> QED BY <1>5, <2>1, <2>2
<1>6. ASSUME NEW r \in Resources, Subscribe(r) PROVE NoReader'
  BY <1>1, <1>3, <1>6 DEF Subscribe, NoReader
<1> QED BY <1>2, <1>3, <1>4, <1>5, <1>6, ReadSteps

(* Every step keeps what a reader function leaves behind. *)
LEMMA StepReadersLeave ==
    ASSUME BrokerInv, NoReader, ReadersLeave, [Next]_vars
    PROVE  ReadersLeave'
<1>0. ReadTypes /\ consumer \in [Conns -> [Resources -> ConsumerStates]]
  BY DEF BrokerInv, TypeOK, ConsumeTypes
<1>1. ASSUME NEW c \in Conns, LeftBehind(c), ~(c = conn /\ read = "subscribe")
      PROVE  LeftBehind(c)'
  <2>1. \A r \in Resources : ~(c = conn /\ Subscribe(r))
    BY <1>1 DEF Subscribe
  <2> QED BY <1>1, <2>1, ConsumersOnward DEF LeftBehind
<1>2. CASE UNCHANGED <<read, conn>> /\ \A r \in Resources : ~Subscribe(r)
  <2>1. ASSUME read = "subscribe" PROVE \E r \in Resources : consumer'[conn][r] = "none"
    <3>1. PICK r \in Resources : consumer[conn][r] = "none"
      BY <2>1 DEF ReadersLeave
    <3>2. CASE conn \in Conns
      BY <1>2, <3>1, <3>2, ConsumersOnward
    <3>3. CASE conn \notin Conns
      <4>1. conn = 0
        BY <1>0, <3>3 DEF ReadTypes
      <4> QED BY <2>1, <4>1, <1>2 DEF NoReader
    <3> QED BY <3>2, <3>3
  <2>2. ASSUME NEW c \in Conns, c < conn \/ (c = conn /\ read = "returned")
        PROVE  LeftBehind(c)'
    BY <1>0, <1>1, <2>2 DEF ReadersLeave, ReadTypes
  <2> QED BY <1>2, <2>1, <2>2 DEF ReadersLeave
<1>3. CASE Dial
  <2>1. conn + 1 \in Conns /\ conn' = conn + 1 /\ consumer' = consumer
    BY <1>0, <1>3 DEF Dial, ReadTypes, consumeVars
  <2>2. \A r \in Resources : consumer[conn + 1][r] = "none"
    <3>1. conn + 1 > conn
      BY <1>0 DEF ReadTypes
    <3> QED BY <2>1, <3>1 DEF BrokerInv, Undialled, Unopened
  <2>3. read' = "subscribe" /\ read \in {"none", "returned"}
    BY <1>3 DEF Dial, NoReader
  <2>4. ASSUME NEW c \in Conns, c < conn' PROVE LeftBehind(c)'
    <3>1. c < conn \/ c = conn
      BY <1>0, <2>1, <2>4 DEF ReadTypes
    <3>2. read = "none" => conn = 0
      BY DEF NoReader
    <3>3. LeftBehind(c)
      BY <2>3, <3>1, <3>2 DEF ReadersLeave
    <3> QED BY <2>1, <3>3 DEF LeftBehind
  <2> QED BY <2>1, <2>2, <2>3, <2>4, ResourcesAssumption DEF ReadersLeave
<1>4. ASSUME NEW r \in Resources, Subscribe(r) PROVE ReadersLeave'
  <2>1. /\ conn' = conn /\ read = "subscribe" /\ read' \in {"wait", "subscribe"}
        /\ consumer' = [consumer EXCEPT ![conn][r] = "receive"]
    BY <1>4 DEF Subscribe
  <2>2. ASSUME read' = "subscribe"
        PROVE  \E q \in Resources : consumer'[conn][q] = "none"
    <3>1. PICK q \in Resources \ {r} : consumer[conn][q] = "none"
      BY <1>4, <2>2 DEF Subscribe
    <3>2. consumer'[conn][q] = consumer[conn][q]
      BY <1>0, <2>1, <3>1
    <3> QED BY <3>1, <3>2
  <2>3. ASSUME NEW c \in Conns, c < conn PROVE LeftBehind(c)'
    BY <1>0, <1>1, <2>3 DEF ReadersLeave, ReadTypes
  <2> QED BY <2>1, <2>2, <2>3 DEF ReadersLeave
<1>5. CASE SubscribeFails
  <2>1. /\ UNCHANGED <<conn, consumer>> /\ read = "subscribe" /\ read' = "returned"
    BY <1>5 DEF SubscribeFails, consumeVars
  <2> QED BY <2>1 DEF ReadersLeave, LeftBehind
<1>6. CASE ReadReturns
  <2>1. /\ UNCHANGED <<conn, consumer>> /\ read = "wait" /\ read' = "returned"
        /\ \A r \in Resources : consumer[conn][r] = "done"
    BY <1>6 DEF ReadReturns, consumeVars
  <2> QED BY <2>1 DEF ReadersLeave, LeftBehind
<1>7. CASE \/ DialAborted \/ Reconnect \/ AbortWatch \/ AbortDrained \/ Signal
           \/ StartRead \/ UNCHANGED readVars
  <2>1. UNCHANGED <<read, conn>>
    BY <1>7 DEF DialAborted, Reconnect, AbortWatch, AbortDrained, Signal, StartRead,
       readVars
  <2> QED BY <1>2, <1>4, <2>1
<1> QED BY <1>3, <1>4, <1>5, <1>6, <1>7, ReadSteps

(* Every step keeps that the workers are added before DoAll is called, and   *)
(* that it is woken only when the last of them is done.                      *)
LEMMA StepAllAdded ==
    ASSUME BrokerInv, AllAdded, [Next]_vars
    PROVE  AllAdded'
<1>0. PoolTypeOK
  BY DEF BrokerInv, TypeOK
<1> USE DEF AllAdded
<1>1. ASSUME NEW w \in Workers, AddWorker(w) PROVE AllAdded'
  <2>1. CASE main = "add" /\ AddCheck(w)
    BY <1>1, <2>1 DEF AddWorker, AddCheck, programVars
  <2>2. CASE AddStart(w)
    <3>1. pc[w] = "adding" /\ pc' = [pc EXCEPT ![w] = "wait"]
      BY <2>2 DEF AddStart
    <3> QED BY <1>1, <2>2, <3>1 DEF AddWorker, AddStart, programVars
  <2> QED BY <1>1, <2>1, <2>2 DEF AddWorker
<1>2. CASE AbortOnSignal \/ StartRead
  BY <1>2 DEF AbortOnSignal, StartRead, poolVars, workersWaitGroup
<1>3. CASE StartDoAll
  BY <1>3 DEF StartDoAll, DoAll
<1>4. ASSUME NEW w \in Workers, Stop(w), pc[w] \in {"check", "select"},
             main' = main
      PROVE AllAdded'
  <2>1. \A v \in Workers : v # w => pc'[v] = pc[v]
    BY <1>0, <1>4 DEF Stop, PoolTypeOK
  <2>2. pc'[w] = "done"
    BY <1>0, <1>4 DEF Stop, PoolTypeOK
  <2>3. workersWaitGroup' = workersWaitGroup \ {w}
    BY <2>1, <2>2 DEF workersWaitGroup
  <2>4. doAll' = "woken" => doAll = "woken" \/ workersWaitGroup = {w}
    BY <1>4 DEF Stop
  <2>5. doAll' # "idle" => doAll # "idle"
    BY <1>4 DEF Stop
  <2> QED BY <1>4, <2>1, <2>2, <2>3, <2>4, <2>5
<1>5. ASSUME NEW w \in Workers, main' = main, doAll' = doAll,
             \E s \in {"check", "select", "do"} : pc' = [pc EXCEPT ![w] = s],
             pc[w] \in {"wait", "check", "select", "do"}
      PROVE AllAdded'
  <2>1. workersWaitGroup # {}
    BY <1>5 DEF workersWaitGroup
  <2> QED BY <1>0, <1>5, <2>1 DEF PoolTypeOK
<1>6. ASSUME NEW w \in Workers,
             Begin(w) \/ SettleRequest(w) \/ (PoolStep /\ Get(w))
                \/ (PoolStep /\ CheckCanceler(w) /\ ~Stop(w))
      PROVE AllAdded'
  BY <1>5, <1>6 DEF Begin, Take, SettleRequest, Finish, PoolStep, Get,
     CheckCanceler, programVars
<1>7. ASSUME NEW w \in Workers,
             PoolStep /\ (SelectStop(w) \/ (CheckCanceler(w) /\ Stop(w)))
      PROVE AllAdded'
  BY <1>4, <1>7 DEF PoolStep, SelectStop, CheckCanceler, programVars
<1>8. CASE PoolStep /\ (DoAllFirst \/ DoAllReturn)
  BY <1>8 DEF PoolStep, DoAllFirst, DoAllReturn, programVars
<1>9. CASE /\ UNCHANGED <<pc, doAll>>
           /\ main' = main \/ main' \in {"exited", "panicked"}
  BY <1>9 DEF workersWaitGroup
<1>10. \/ \E w \in Workers : AddWorker(w) \/ Begin(w) \/ SettleRequest(w)
       \/ StartDoAll \/ PoolStep
       \/ UNCHANGED <<pc, doAll>>
  <2>1. \/ \E w \in Workers : AddWorker(w) \/ Begin(w) \/ SettleRequest(w)
        \/ StartDoAll \/ PoolStep
        \/ DialAborted \/ AbortDrained \/ SignalAborts
        \/ \E c \in Conns, r \in Resources : Put(c, r)
        \/ UNCHANGED poolVars
    BY DEF vars, Next, ReaderStep, ConsumerStep, DoStep, MainStep, Publish,
       Deliver, ConnectionLost, Dial, Subscribe, SubscribeFails, ReadReturns,
       Reconnect, AbortWatch, Receive, PutPanics, End, ConsumerDone, RunTask,
       WriteResult, WriteError, AbortOnSignal, Signal, StartRead, Exit, Killed
  <2> QED BY <2>1 DEF poolVars, DialAborted, AbortDrained, Close, SignalAborts,
                      Abort, Cancel, Put, Send
<1>11. \/ AbortOnSignal \/ StartRead \/ StartDoAll
       \/ main' = main \/ main' \in {"exited", "panicked"}
  BY DEF vars, programVars, Next, ReaderStep, ConsumerStep, DoStep,
     MainStep, Publish, Deliver, ConnectionLost, Dial, DialAborted,
     Subscribe, SubscribeFails, ReadReturns, Reconnect, AbortWatch,
     AbortDrained, Receive, Put, PutPanics, End, ConsumerDone, Begin, RunTask,
     WriteResult, WriteError, SettleRequest, AddWorker, Signal, SignalAborts,
     Exit, Killed, PoolStep
<1> QED BY <1>1, <1>2, <1>3, <1>6, <1>7, <1>8, <1>9, <1>10, <1>11 DEF PoolStep

(* Only a send on the closed channel panics, and then nothing more is run. *)
LEMMA StepPanics ==
    ASSUME BrokerInv, NoReader, ReadersLeave, AllAdded,
           PanicOnlyWhenHalfSubscribed, [Next]_vars
    PROVE  PanicOnlyWhenHalfSubscribed'
<1>0. doAll' # "panicked"
  <2>1. doAll' = doAll \/ DoAll \/ DoAllFirst \/ DoAllReturn
        \/ doAll' = "woken"
    BY PoolSteps DEF BrokerInv, PoolNext, poolVars, AddCheck, AddStart,
       WorkerStep, Get, CheckCanceler, Stop, Take, SelectStop, Finish, Cancel,
       Send, Close
  <2> QED BY <2>1 DEF DoAll, DoAllFirst, DoAllReturn, AllAdded,
                      PanicOnlyWhenHalfSubscribed
<1> SUFFICES ASSUME main' = "panicked"
             PROVE  \E c \in Conns :
                      /\ \E r \in Resources : consumer'[c][r] = "put"
                      /\ \E r \in Resources : consumer'[c][r] = "none"
  BY <1>0 DEF PanicOnlyWhenHalfSubscribed
<1>1. CASE main = "panicked"
  <2>1. consumer' = consumer
    BY <1>1, ConsumeSteps DEF consumeVars, Deliver, Subscribe, Receive, Put,
       ConsumerDone, Running
  <2> QED BY <1>1, <2>1 DEF PanicOnlyWhenHalfSubscribed
<1>2. CASE main # "panicked"
  <2>1. PICK c \in Conns, r \in Resources : PutPanics(c, r)
    BY <1>2 DEF vars, programVars, Next, ReaderStep, ConsumerStep, DoStep,
       MainStep, Publish, Deliver, ConnectionLost, Dial, DialAborted, Subscribe,
       SubscribeFails, ReadReturns, Reconnect, AbortWatch, AbortDrained, Receive,
       Put, End, ConsumerDone, Begin, RunTask, WriteResult, WriteError,
       SettleRequest, AddWorker, AbortOnSignal, Signal, SignalAborts, StartRead,
       StartDoAll, Exit, Killed, PoolStep
  <2>2. consumer[c][r] = "put" /\ closed /\ consumer' = consumer
    BY <2>1 DEF PutPanics, End, consumeVars
  <2>3. read \in {"none", "returned"} /\ (read = "none" => conn = 0)
    BY <2>2 DEF NoReader
  <2>4. conn \in 0..MaxConns
    BY DEF BrokerInv, TypeOK, ReadTypes
  <2>5. CASE c > conn
    BY <2>2, <2>5 DEF BrokerInv, Undialled, Unopened
  <2>6. CASE c <= conn
    <3>1. c < conn \/ (c = conn /\ read = "returned")
      BY <2>3, <2>4, <2>6
    <3> QED BY <2>2, <3>1 DEF ReadersLeave, LeftBehind
  <2> QED BY <2>4, <2>5, <2>6
<1> QED BY <1>1, <1>2

(* The program panics only after a subscription that failed halfway, for any *)
(* number of jobs, resources, connections and signals at any moment: in all  *)
(* other cases close(r.tasks) comes after the last send, and DoAll never     *)
(* finds a worker added behind its back.                                     *)
(* (request_reader.go:66, :112, worker_pool.go:116)                          *)
THEOREM PanicsOnlyHalfSubscribed == Spec => []PanicOnlyWhenHalfSubscribed
<1> DEFINE PanicInv == /\ NoReader /\ ReadersLeave /\ AllAdded
                       /\ PanicOnlyWhenHalfSubscribed
<1>1. Init => PanicInv
  BY DEF Init, PoolInit, NoReader, ReadersLeave, AllAdded,
         PanicOnlyWhenHalfSubscribed
<1>2. BrokerInv /\ PanicInv /\ [Next]_vars => PanicInv'
  BY StepNoReader, StepReadersLeave, StepAllAdded, StepPanics
<1> QED BY <1>1, <1>2, BrokerInvariant, PTL DEF Spec

----------------------------------------------------------------------------
(* The end of DoAll *)

(* Every step keeps that only a signal stops the reader and the pool.        *)
LEMMA StepToldToEnd ==
    ASSUME ToldToEnd, [Next]_vars
    PROVE  ToldToEnd'
<1> USE DEF ToldToEnd
<1>1. CASE Signal
  BY <1>1 DEF Signal, poolVars
<1>2. CASE SignalAborts
  BY <1>2 DEF SignalAborts, Abort, Cancel, readVars
<1>3. CASE DialAborted \/ AbortDrained
  BY <1>3 DEF DialAborted, AbortDrained, Close, programVars
<1>4. CASE AbortWatch
  BY <1>4 DEF AbortWatch, poolVars, programVars
<1>5. CASE /\ UNCHANGED <<aborter, canceler, closed, signal>>
           /\ maintain' = maintain \/ maintain' \in {"dial", "watch"}
  BY <1>5
<1> QED BY <1>1, <1>2, <1>3, <1>4, <1>5
     DEF vars, poolVars, readVars, programVars, Next, ReaderStep, ConsumerStep,
     DoStep, MainStep, Publish, Deliver, ConnectionLost, Dial, Subscribe,
     SubscribeFails, ReadReturns, Reconnect, Receive, Put, Send, PutPanics, End,
     ConsumerDone, Begin, Take, RunTask, WriteResult, WriteError, SettleRequest,
     Finish, AddWorker, AddCheck, AddStart, AbortOnSignal, StartRead, StartDoAll,
     DoAll, Exit, Killed, PoolStep, Get, CheckCanceler, SelectStop, Stop,
     DoAllFirst, DoAllReturn

(* DoAll returns only after a signal, with every request settled and none to *)
(* be started, for any number of jobs, tasks and connections: the workers'   *)
(* directories are removed when nothing runs in them.                        *)
(* (main.go:56, worker_pool.go:116)                                          *)
THEOREM ShutsDownInOrder == Spec => []ShutdownInOrder
<1>1. Init => ToldToEnd
  BY DEF Init, PoolInit, ToldToEnd
<1>2. BrokerInv => PoolIsOver
  <2>1. PoolInv => QuietAfterDoAll
    BY DEF PoolInv, QuietAfterDoAll, NothingLeft
  <2>2. PoolInv => DrainedUnlessCanceled
    BY DEF PoolInv, DrainedUnlessCanceled, NothingLeft, Over
  <2>3. PoolInv => LateAtMostOnce
    BY DEF PoolInv, LateAtMostOnce, LateIsLast
  <2> QED BY <2>1, <2>2, <2>3 DEF BrokerInv, PoolIsOver
<1>3. BrokerInv /\ ToldToEnd => ShutdownInOrder
  <2> SUFFICES ASSUME BrokerInv, ToldToEnd, doAll = "returned"
               PROVE  signal # "none" /\ \A w \in Workers : stage[w] = "idle"
    BY <1>2 DEF ShutdownInOrder
  <2>1. signal # "none"
    BY DEF ToldToEnd, BrokerInv, PoolInv, NothingLeft, Over
  <2>2. \A w \in Workers : stage[w] = "idle"
    BY DEF BrokerInv, PoolInv, NothingLeft, WorkersFollow
  <2> QED BY <2>1, <2>2
<1>4. ToldToEnd /\ [Next]_vars => ToldToEnd'
  BY StepToldToEnd
<1> QED BY <1>1, <1>3, <1>4, BrokerInvariant, PTL DEF Spec

----------------------------------------------------------------------------
(* One job *)

(* The next delivery of a consumer is its own. *)
LEMMA HeadOwn ==
    ASSUME ConsumeTypes, ConsumersOwn, NEW c \in Conns, NEW r \in Resources,
           deliveries[c][r] # <<>>
    PROVE  Of(Head(deliveries[c][r]), c, r)
<1>1. deliveries[c][r] \in Seq(Deliveries)
  BY DEF ConsumeTypes
<1>2. 1 \in 1..Len(deliveries[c][r]) /\ Head(deliveries[c][r]) = deliveries[c][r][1]
  BY <1>1
<1> QED BY <1>2 DEF ConsumersOwn

(* A step that leaves a channel's own deliveries alone leaves them in place. *)
LEMMA Undisturbed ==
    ASSUME ConsumeTypes, ConsumersOwn, NEW c \in Conns, NEW r \in Resources,
           OnePlace(c, r), Unsettled(c, r),
           deliveries'[c][r] = deliveries[c][r],
           delivery'[c][r] = delivery[c][r],
           consumer'[c][r] = "put" => consumer[c][r] = "put",
           \A w \in Workers : Of(job'[w], c, r) => job'[w] = job[w],
           requests' # <<>> /\ Of(Head(requests'), c, r) => requests' = requests,
           \A d : Of(d, c, r) => (d \in unacked' <=> d \in unacked)
    PROVE  OnePlace(c, r)' /\ Unsettled(c, r)'
<1>1. OnePlace(c, r)'
  BY DEF OnePlace, InLibrary, InHand, InTasks, Of
<1>2. \A d, e \in unacked' : Of(d, c, r) /\ Of(e, c, r) => d = e
  BY DEF Unsettled
<1>3. deliveries'[c][r] # <<>> =>
        Len(deliveries'[c][r]) = 1 /\ Head(deliveries'[c][r]) \in unacked'
  BY HeadOwn DEF Unsettled, InLibrary
<1>4. consumer'[c][r] = "put" => delivery'[c][r] \in unacked'
  BY DEF Unsettled, InHand, ConsumersOwn
<1>5. requests' # <<>> /\ Of(Head(requests'), c, r) =>
        Head(requests') = delivery'[c][r] /\ Head(requests') \in unacked'
  BY DEF Unsettled, InTasks
<1>6. \A w \in Workers : Of(job'[w], c, r) =>
        job'[w] = delivery'[c][r] /\ job'[w] \in unacked'
  BY DEF Unsettled
<1> QED BY <1>1, <1>2, <1>3, <1>4, <1>5, <1>6
        DEF Unsettled, InLibrary, InHand, InTasks, Of

----------------------------------------------------------------------------
(* The steps, by what they do to the deliveries in the program. *)
LEMMA PlaceSteps ==
    ASSUME ReadTypes, [Next]_vars
    PROVE  \/ \E c \in Conns, r \in Resources, t \in Tasks : Deliver(c, r, t)
           \/ \E c \in Conns, r \in Resources : Receive(c, r) \/ Put(c, r)
           \/ \E w \in Workers : Begin(w) \/ SettleRequest(w)
           \/ Dial
           \/ /\ \E C \in SUBSET Nat : CloseChannels(C)
              /\ UNCHANGED <<deliveries, delivery, consumer, requests, job>>
           \/ \E r \in Resources : Subscribe(r)
           \/ \E c \in Conns, r \in Resources : ConsumerDone(c, r)
           \/ /\ UNCHANGED <<unacked, channel>>
              /\ UNCHANGED <<deliveries, delivery, consumer, requests, job>>
<1> DEFINE Still == UNCHANGED <<deliveries, delivery, consumer, requests, job>>
           Closing == \E C \in SUBSET Nat : CloseChannels(C)
           Same == UNCHANGED <<unacked, channel>>
<1> USE DEF poolVars, amqpVars, consumeVars
<1>1. ASSUME NEW c \in Conns, ConnectionLost(c) PROVE Closing /\ Still
  <2>1. {c} \in SUBSET Nat
    OBVIOUS
  <2> QED BY <1>1, <2>1 DEF ConnectionLost
<1>2. ASSUME Reconnect \/ AbortWatch PROVE Closing /\ Still
  <2>1. {conn} \in SUBSET Nat
    BY DEF ReadTypes
  <2> QED BY <1>2, <2>1 DEF Reconnect, AbortWatch
<1>3. ASSUME NEW how, End(how) PROVE Closing /\ Still
  <2>1. {c \in Conns : channel[c] # "none"} \in SUBSET Nat
    OBVIOUS
  <2> QED BY <1>3, <2>1 DEF End
<1>4. ASSUME \/ DialAborted \/ SubscribeFails \/ ReadReturns \/ AbortDrained
             \/ Signal \/ AbortOnSignal \/ SignalAborts \/ StartRead \/ StartDoAll
      PROVE Same /\ Still
  BY <1>4 DEF DialAborted, SubscribeFails, ReadReturns, AbortDrained, Close,
              Signal, AbortOnSignal, SignalAborts, Abort, Cancel, StartRead,
              StartDoAll, DoAll
<1>5. ASSUME NEW t \in Tasks, NEW r \in Resources, Publish(t, r)
      PROVE Same /\ Still
  BY <1>5 DEF Publish
<1>6. ASSUME NEW w \in Workers, RunTask(w) \/ WriteResult(w) \/ WriteError(w)
      PROVE Same /\ Still
  BY <1>6 DEF RunTask, WriteResult, WriteError
<1>7. ASSUME NEW w \in Workers, AddWorker(w) PROVE Same /\ Still
  BY <1>7 DEF AddWorker, AddCheck, AddStart
<1>8. ASSUME PoolStep PROVE Same /\ Still
  BY <1>8 DEF PoolStep, Get, CheckCanceler, SelectStop, Stop, DoAllFirst,
              DoAllReturn
<1>9. ASSUME UNCHANGED vars PROVE Same /\ Still
  BY <1>9 DEF vars
<1> HIDE DEF Still, Closing, Same
<1>10. ASSUME NEW c \in Conns, NEW r \in Resources, PutPanics(c, r)
       PROVE Closing /\ Still
  BY <1>3, <1>10 DEF PutPanics
<1>11. ASSUME Exit \/ Killed PROVE Closing /\ Still
  BY <1>3, <1>11 DEF Exit, Killed
<1>12. CASE ReaderStep
  BY <1>2, <1>4, <1>12 DEF ReaderStep, Closing, Same, Still
<1>13. CASE MainStep
  BY <1>4, <1>7, <1>11, <1>13 DEF MainStep, Closing, Same, Still
<1>14. ASSUME NEW w \in Workers, DoStep(w)
       PROVE Begin(w) \/ SettleRequest(w) \/ (Same /\ Still)
  BY <1>6, <1>14 DEF DoStep
<1>15. ASSUME NEW c \in Conns, NEW r \in Resources, ConsumerStep(c, r)
       PROVE Receive(c, r) \/ Put(c, r) \/ ConsumerDone(c, r) \/ (Closing /\ Still)
  BY <1>10, <1>15 DEF ConsumerStep
<1> QED BY <1>1, <1>4, <1>5, <1>8, <1>9, <1>11, <1>12, <1>13, <1>14, <1>15
        DEF Next, Closing, Same, Still

(* RabbitMQ delivers only to a consumer that has nothing unacknowledged. *)
LEMMA DeliverKeeps ==
    ASSUME Capacity = 1, BrokerInv, OpenIsKept,
           NEW b \in Conns, NEW q \in Resources, NEW t \in Tasks, Deliver(b, q, t),
           NEW c \in Conns, NEW r \in Resources, channel'[c] = "open"
    PROVE  OnePlace(c, r)' /\ Unsettled(c, r)'
<1> DEFINE d == [conn |-> b, resource |-> q, task |-> t]
<1>0. ConsumeTypes /\ ConsumersOwn /\ AmqpTypes /\ d \in Deliveries
  BY DEF BrokerInv, TypeOK, Deliveries
<1>1. OnePlace(c, r) /\ Unsettled(c, r)
  BY DEF Deliver, OpenIsKept
<1>2. /\ unacked' = unacked \cup {d}
      /\ deliveries' = [deliveries EXCEPT ![b][q] = Append(@, d)]
      /\ UNCHANGED <<delivery, consumer, requests, job>>
  BY DEF Deliver, poolVars
<1>3. CASE b = c /\ q = r
  <2>1. Outstanding(c, r) = {}
    <3>1. ASSUME NEW x \in Outstanding(c, r) PROVE FALSE
      <4>1. Outstanding(c, r) = {x}
        BY <1>0, <1>1, <3>1 DEF Outstanding, Unsettled, Of, AmqpTypes
      <4>2. Cardinality(Outstanding(c, r)) = 1
        BY <4>1, FS_Singleton
      <4>3. Cardinality(Outstanding(c, r)) < 1
        BY <1>3 DEF Deliver
      <4> QED BY <4>2, <4>3
    <3> QED BY <3>1
  <2>2. \A x \in unacked : ~Of(x, c, r)
    BY <2>1 DEF Outstanding, Of
  <2>3. deliveries[c][r] = <<>>
    BY <1>0, <1>1, <2>2, HeadOwn DEF Unsettled, InLibrary
  <2>4. consumer[c][r] # "put"
    BY <1>0, <1>1, <2>2 DEF Unsettled, InHand, ConsumersOwn
  <2>5. ~(requests # <<>> /\ Of(Head(requests), c, r))
    BY <1>1, <2>2 DEF Unsettled, InTasks
  <2>6. \A w \in Workers : ~Of(job[w], c, r)
    BY <1>1, <2>2 DEF Unsettled
  <2>7. deliveries'[c][r] = <<d>>
    BY <1>0, <1>2, <1>3, <2>3 DEF ConsumeTypes
  <2>8. \A x, y \in unacked' : Of(x, c, r) /\ Of(y, c, r) => x = y
    BY <1>2, <2>2
  <2>9. d \in unacked'
    BY <1>2
  <2> HIDE DEF d
  <2>10. Len(deliveries'[c][r]) = 1 /\ Head(deliveries'[c][r]) \in unacked'
    BY <2>7, <2>9
  <2>11. OnePlace(c, r)'
    BY <1>2, <2>4, <2>5, <2>6 DEF OnePlace, InLibrary, InHand, InTasks, Of
  <2>12. Unsettled(c, r)'
    BY <1>2, <2>4, <2>5, <2>6, <2>8, <2>10
       DEF Unsettled, InLibrary, InHand, InTasks, Of
  <2> QED BY <2>11, <2>12
<1>4. CASE ~(b = c /\ q = r)
  <2>1. deliveries'[c][r] = deliveries[c][r]
    BY <1>0, <1>2, <1>4 DEF ConsumeTypes
  <2>2. ~Of(d, c, r)
    BY <1>4 DEF Of
  <2> QED BY <1>0, <1>1, <1>2, <2>1, <2>2, Undisturbed
<1> QED BY <1>3, <1>4

(* The consumer takes the one delivery of the library in its hand. *)
LEMMA ReceiveKeeps ==
    ASSUME BrokerInv, OpenIsKept,
           NEW b \in Conns, NEW q \in Resources, Receive(b, q),
           NEW c \in Conns, NEW r \in Resources, channel'[c] = "open"
    PROVE  OnePlace(c, r)' /\ Unsettled(c, r)'
<1> DEFINE d == Head(deliveries[b][q])
<1>0. ConsumeTypes /\ ConsumersOwn
  BY DEF BrokerInv, TypeOK
<1>1. OnePlace(c, r) /\ Unsettled(c, r)
  BY DEF Receive, amqpVars, OpenIsKept
<1>2. /\ consumer[b][q] = "receive" /\ deliveries[b][q] # <<>>
      /\ delivery' = [delivery EXCEPT ![b][q] = d]
      /\ consumer' = consumer \/ consumer' = [consumer EXCEPT ![b][q] = "put"]
      /\ deliveries' = [deliveries EXCEPT ![b][q] = Tail(@)]
      /\ UNCHANGED <<unacked, channel, requests, job>>
  BY DEF Receive, poolVars, amqpVars
<1>3. CASE b = c /\ q = r
  <2>1. Len(deliveries[c][r]) = 1 /\ d \in unacked
    BY <1>1, <1>2, <1>3 DEF Unsettled, InLibrary
  <2>2. deliveries'[c][r] = <<>>
    <3>1. deliveries[c][r] \in Seq(Deliveries)
      BY <1>0 DEF ConsumeTypes
    <3>2. deliveries[c][r] # <<>>
      BY <1>2, <1>3
    <3>3. /\ Tail(deliveries[c][r]) \in Seq(Deliveries)
          /\ Len(Tail(deliveries[c][r])) = 0
      BY <2>1, <3>1, <3>2
    <3>4. Tail(deliveries[c][r]) = <<>>
      BY <3>3, EmptySeq
    <3> QED BY <1>0, <1>2, <1>3, <3>4 DEF ConsumeTypes
  <2>3. delivery'[c][r] = d
    BY <1>0, <1>2, <1>3 DEF ConsumeTypes
  <2>4. ~(requests # <<>> /\ Of(Head(requests), c, r))
    BY <1>1, <1>2, <1>3 DEF OnePlace, InLibrary, InTasks
  <2>5. \A w \in Workers : ~Of(job[w], c, r)
    BY <1>1, <1>2, <1>3 DEF OnePlace, InLibrary
  <2>6. \A x, y \in unacked' : Of(x, c, r) /\ Of(y, c, r) => x = y
    BY <1>1, <1>2 DEF Unsettled
  <2> HIDE DEF d
  <2>7. OnePlace(c, r)'
    BY <1>2, <2>2, <2>4, <2>5 DEF OnePlace, InLibrary, InHand, InTasks, Of
  <2>8. Unsettled(c, r)'
    BY <1>2, <2>1, <2>2, <2>3, <2>4, <2>5, <2>6
       DEF Unsettled, InLibrary, InHand, InTasks, Of
  <2> QED BY <2>7, <2>8
<1>4. CASE ~(b = c /\ q = r)
  <2>1. deliveries'[c][r] = deliveries[c][r]
    BY <1>0, <1>2, <1>4 DEF ConsumeTypes
  <2>2. delivery'[c][r] = delivery[c][r]
    BY <1>0, <1>2, <1>4 DEF ConsumeTypes
  <2>3. [consumer EXCEPT ![b][q] = "put"][c][r] = consumer[c][r]
    BY <1>0, <1>4 DEF ConsumeTypes
  <2>4. consumer'[c][r] = consumer[c][r]
    BY <1>2, <2>3
  <2> QED BY <1>0, <1>1, <1>2, <2>1, <2>2, <2>4, Undisturbed
<1> QED BY <1>3, <1>4

(* The one delivery in a consumer's hand goes to the empty r.tasks. *)
LEMMA PutKeeps ==
    ASSUME Capacity = 1, BrokerInv, OpenIsKept,
           NEW b \in Conns, NEW q \in Resources, Put(b, q),
           NEW c \in Conns, NEW r \in Resources, channel'[c] = "open"
    PROVE  OnePlace(c, r)' /\ Unsettled(c, r)'
<1> DEFINE d == delivery[b][q]
<1>0. ConsumeTypes /\ ConsumersOwn /\ requests \in Seq(Deliveries)
  BY DEF BrokerInv, TypeOK, PoolTypeOK
<1>1. OnePlace(c, r) /\ Unsettled(c, r)
  BY DEF Put, amqpVars, OpenIsKept
<1>2. /\ consumer[b][q] = "put"
      /\ consumer' = [consumer EXCEPT ![b][q] = "receive"]
      /\ requests' = Append(requests, d) /\ Len(requests) < 1
      /\ UNCHANGED <<unacked, channel, deliveries, delivery, job>>
  BY DEF Put, Send, amqpVars
<1>3. Of(d, b, q)
  BY <1>2, <1>0 DEF ConsumersOwn
<1>4. requests = <<>>
  BY <1>0, <1>2
<1>5. Head(requests') = d /\ requests' # <<>>
  <2>1. d \in Deliveries
    BY <1>3 DEF Of
  <2> HIDE DEF d
  <2> QED BY <1>2, <1>4, <2>1
<1>6. CASE b = c /\ q = r
  <2>1. consumer'[c][r] # "put"
    BY <1>0, <1>2, <1>6 DEF ConsumeTypes
  <2>2. deliveries[c][r] = <<>> /\ \A w \in Workers : ~Of(job[w], c, r)
    BY <1>1, <1>2, <1>6 DEF OnePlace, InLibrary, InHand
  <2>3. d \in unacked /\ delivery'[c][r] = d
    BY <1>1, <1>2, <1>6 DEF Unsettled, InHand
  <2>4. \A x, y \in unacked' : Of(x, c, r) /\ Of(y, c, r) => x = y
    BY <1>1, <1>2 DEF Unsettled
  <2> HIDE DEF d
  <2>5. OnePlace(c, r)'
    BY <1>2, <2>1, <2>2 DEF OnePlace, InLibrary, InHand, InTasks, Of
  <2>6. Unsettled(c, r)'
    BY <1>2, <1>5, <2>1, <2>2, <2>3, <2>4
       DEF Unsettled, InLibrary, InHand, InTasks, Of
  <2> QED BY <2>5, <2>6
<1>7. CASE ~(b = c /\ q = r)
  <2>1. ~Of(Head(requests'), c, r)
    BY <1>3, <1>5, <1>7 DEF Of
  <2>2. consumer'[c][r] = consumer[c][r]
    BY <1>0, <1>2, <1>7 DEF ConsumeTypes
  <2> QED BY <1>0, <1>1, <1>2, <2>1, <2>2, Undisturbed
<1> QED BY <1>6, <1>7

(* A worker takes the one request of r.tasks. *)
LEMMA BeginKeeps ==
    ASSUME BrokerInv, OpenIsKept, NEW v \in Workers, Begin(v),
           NEW c \in Conns, NEW r \in Resources, channel'[c] = "open"
    PROVE  OnePlace(c, r)' /\ Unsettled(c, r)'
<1> DEFINE d == Head(requests)
<1>0. /\ ConsumeTypes /\ ConsumersOwn
      /\ requests \in Seq(Deliveries)
      /\ job \in [Workers -> Deliveries \cup {NoRequest}]
  BY DEF BrokerInv, TypeOK, PoolTypeOK
<1>1. OnePlace(c, r) /\ Unsettled(c, r)
  BY DEF Begin, amqpVars, OpenIsKept
<1>2. /\ requests # <<>> /\ requests' = Tail(requests)
      /\ job' = [job EXCEPT ![v] = d]
      /\ UNCHANGED <<unacked, channel, deliveries, delivery, consumer>>
  BY DEF Begin, Take, amqpVars, consumeVars
<1>3. requests' = <<>>
  <2>1. Len(requests) = 1
    <3> DEFINE n == Len(requests)
    <3>1. n \in Nat /\ n # 0
      BY <1>0, <1>2, EmptySeq
    <3>2. n <= 1
      BY DEF OpenIsKept
    <3> HIDE DEF n
    <3>3. n = 1
      BY <3>1, <3>2
    <3> QED BY <3>3 DEF n
  <2>2. Tail(requests) \in Seq(Deliveries) /\ Len(Tail(requests)) = 0
    BY <1>0, <1>2, <2>1
  <2> QED BY <1>2, <2>2, EmptySeq
<1>4. CASE Of(d, c, r)
  <2>1. /\ deliveries[c][r] = <<>> /\ consumer[c][r] # "put"
        /\ \A w \in Workers : ~Of(job[w], c, r)
    BY <1>1, <1>2, <1>4 DEF OnePlace, InLibrary, InHand, InTasks
  <2>2. d = delivery[c][r] /\ d \in unacked
    BY <1>1, <1>2, <1>4 DEF Unsettled, InTasks
  <2>3. \A x, y \in unacked' : Of(x, c, r) /\ Of(y, c, r) => x = y
    BY <1>1, <1>2 DEF Unsettled
  <2>4. \A w \in Workers : Of(job'[w], c, r) => w = v /\ job'[w] = d
    BY <1>0, <1>2, <2>1
  <2> HIDE DEF d
  <2>5. OnePlace(c, r)'
    BY <1>2, <1>3, <2>1, <2>4 DEF OnePlace, InLibrary, InHand, InTasks, Of
  <2>6. Unsettled(c, r)'
    BY <1>2, <1>3, <2>1, <2>2, <2>3, <2>4
       DEF Unsettled, InLibrary, InHand, InTasks, Of
  <2> QED BY <2>5, <2>6
<1>5. CASE ~Of(d, c, r)
  <2>1. \A w \in Workers : Of(job'[w], c, r) => job'[w] = job[w]
    BY <1>0, <1>2, <1>5
  <2> QED BY <1>0, <1>1, <1>2, <1>3, <2>1, Undisturbed
<1> QED BY <1>4, <1>5

(* What a worker settles is what it was given, if the channel is still open; *)
(* otherwise nothing is settled.                                             *)
LEMMA SettlesItsOwn ==
    ASSUME BrokerInv, OpenIsKept, NEW v \in Workers, SettleRequest(v)
    PROVE  \/ /\ channel[job[v].conn] = "open"
              /\ job[v] \in unacked /\ job[v] \in Deliveries
              /\ unacked' = unacked \ {job[v]}
              /\ UNCHANGED <<queue, channel>>
           \/ channel[job[v].conn] # "open" /\ UNCHANGED amqpVars
<1> DEFINE b == job[v].conn
           q == job[v].resource
           d == delivery[b][q]
<1>1. job[v] \in Deliveries /\ Received(job[v])
  BY DEF SettleRequest, BrokerInv, WorkersFollow, RequestsReceived
<1>2. b \in Conns /\ q \in Resources /\ Of(job[v], b, q)
  BY <1>1 DEF Deliveries, Of
<1>3. d # NoDelivery
  BY <1>1 DEF Received
<1>4. Of(d, b, q)
  BY <1>2, <1>3 DEF BrokerInv, ConsumersOwn
<1>5. Settle(d)
  BY DEF SettleRequest
<1>6. channel[b] = "open" => d = job[v] /\ job[v] \in unacked
  BY <1>2 DEF OpenIsKept, Unsettled
<1>7. d.conn = b
  BY <1>4 DEF Of
<1> HIDE DEF b, q, d
<1>8. \/ /\ channel[b] = "open"
         /\ job[v] \in unacked
         /\ unacked' = unacked \ {job[v]}
         /\ UNCHANGED <<queue, channel>>
      \/ channel[b] # "open" /\ UNCHANGED amqpVars
  BY <1>5, <1>6, <1>7 DEF Settle
<1> QED BY <1>1, <1>8 DEF b

(* Settling takes the one delivery of its channel or closes the channel. *)
LEMMA SettleKeeps ==
    ASSUME BrokerInv, OpenIsKept, NEW v \in Workers, SettleRequest(v),
           NEW c \in Conns, NEW r \in Resources, channel'[c] = "open"
    PROVE  OnePlace(c, r)' /\ Unsettled(c, r)'
<1>0. /\ ConsumeTypes /\ ConsumersOwn
      /\ job \in [Workers -> Deliveries \cup {NoRequest}]
      /\ ~Of(NoRequest, c, r)
  BY DEF BrokerInv, TypeOK, PoolTypeOK, Of
<1>1. channel' = channel
  BY SettlesItsOwn DEF amqpVars
<1>2. OnePlace(c, r) /\ Unsettled(c, r)
  BY <1>1 DEF OpenIsKept
<1>3. /\ job' = [job EXCEPT ![v] = NoRequest]
      /\ UNCHANGED <<deliveries, delivery, consumer, requests>>
  BY DEF SettleRequest, Finish, consumeVars
<1>4. \A w \in Workers : Of(job'[w], c, r) => job'[w] = job[w] /\ w # v
  BY <1>0, <1>3
<1>5. unacked' \in {unacked, unacked \ {job[v]}}
  BY SettlesItsOwn DEF amqpVars
<1>6. CASE Of(job[v], c, r)
  <2>1. /\ deliveries[c][r] = <<>> /\ consumer[c][r] # "put"
        /\ ~(requests # <<>> /\ Of(Head(requests), c, r))
        /\ \A w \in Workers : Of(job[w], c, r) => w = v
    BY <1>2, <1>6 DEF OnePlace, InLibrary, InHand, InTasks
  <2>2. \A w \in Workers : ~Of(job'[w], c, r)
    BY <1>4, <2>1
  <2>3. \A x, y \in unacked' : Of(x, c, r) /\ Of(y, c, r) => x = y
    BY <1>2, <1>5 DEF Unsettled
  <2>4. OnePlace(c, r)'
    BY <1>3, <2>1, <2>2 DEF OnePlace, InLibrary, InHand, InTasks, Of
  <2>5. Unsettled(c, r)'
    BY <1>3, <2>1, <2>2, <2>3 DEF Unsettled, InLibrary, InHand, InTasks, Of
  <2> QED BY <2>4, <2>5
<1>7. CASE ~Of(job[v], c, r)
  <2>1. \A d : Of(d, c, r) => (d \in unacked' <=> d \in unacked)
    BY <1>5, <1>7
  <2> QED BY <1>0, <1>2, <1>3, <1>4, <2>1, Undisturbed
<1> QED BY <1>6, <1>7

(* A new channel has nothing in the program. *)
LEMMA DialKeeps ==
    ASSUME BrokerInv, OpenIsKept, Dial,
           NEW c \in Conns, NEW r \in Resources, channel'[c] = "open"
    PROVE  OnePlace(c, r)' /\ Unsettled(c, r)'
<1>0. /\ ConsumeTypes /\ ConsumersOwn /\ AmqpTypes /\ ReadTypes
      /\ requests \in Seq(Deliveries)
  BY DEF BrokerInv, TypeOK, PoolTypeOK
<1>1. UNCHANGED <<unacked, deliveries, delivery, consumer, requests, job>>
  BY DEF Dial, consumeVars, poolVars
<1>2. CASE channel[c] = "open"
  <2>1. OnePlace(c, r) /\ Unsettled(c, r)
    BY <1>2 DEF OpenIsKept
  <2> QED BY <1>0, <1>1, <2>1, Undisturbed
<1>3. CASE channel[c] # "open"
  <2>1. channel[c] = "none"
    BY <1>0, <1>3 DEF Dial, BrokerInv, Undialled, ReadTypes, AmqpTypes
  <2>2. consumer[c][r] = "none" /\ deliveries[c][r] = <<>>
    BY <2>1 DEF BrokerInv, Unopened
  <2>3. \A d \in unacked : ~Of(d, c, r)
    BY <2>1 DEF BrokerInv, UnackedOpen, Of
  <2>4. ~(requests # <<>> /\ Of(Head(requests), c, r))
    <3>1. ASSUME requests # <<>> PROVE channel[Head(requests).conn] # "none"
      <4>1. 1 \in 1..Len(requests) /\ Head(requests) = requests[1]
        BY <1>0, <3>1
      <4> QED BY <4>1 DEF BrokerInv, RequestsReceived, Received
    <3> QED BY <2>1, <3>1 DEF Of
  <2>5. \A w \in Workers : ~Of(job[w], c, r)
    BY <2>1 DEF BrokerInv, WorkersFollow, RequestsReceived, Received, Of
  <2>6. OnePlace(c, r)'
    BY <1>1, <2>2, <2>4, <2>5 DEF OnePlace, InLibrary, InHand, InTasks, Of
  <2>7. Unsettled(c, r)'
    BY <1>1, <2>2, <2>3, <2>4, <2>5
       DEF Unsettled, InLibrary, InHand, InTasks, Of
  <2> QED BY <2>6, <2>7
<1> QED BY <1>2, <1>3

(* Closing other channels, subscribing and stopping consumers of closed     *)
(* channels move no delivery of an open one.                                *)
LEMMA OthersKeep ==
    ASSUME BrokerInv, OpenIsKept,
           \/ /\ \E C \in SUBSET Nat : CloseChannels(C)
              /\ UNCHANGED <<deliveries, delivery, consumer, requests, job>>
           \/ \E r \in Resources : Subscribe(r)
           \/ \E c \in Conns, r \in Resources : ConsumerDone(c, r)
           \/ /\ UNCHANGED <<unacked, channel>>
              /\ UNCHANGED <<deliveries, delivery, consumer, requests, job>>,
           NEW c \in Conns, NEW r \in Resources, channel'[c] = "open"
    PROVE  OnePlace(c, r)' /\ Unsettled(c, r)'
<1>0. ConsumeTypes /\ ConsumersOwn /\ AmqpTypes
  BY DEF BrokerInv, TypeOK
<1>1. ASSUME NEW C, CloseChannels(C),
             UNCHANGED <<deliveries, delivery, consumer, requests, job>>
      PROVE OnePlace(c, r)' /\ Unsettled(c, r)'
  <2>1. c \notin C /\ channel[c] = "open"
    BY <1>0, <1>1, CloseChannelsEffect
  <2>2. \A d : Of(d, c, r) => (d \in unacked' <=> d \in unacked)
    BY <1>0, <1>1, <2>1, CloseChannelsEffect DEF Of
  <2> QED BY <1>0, <1>1, <2>1, <2>2, Undisturbed DEF OpenIsKept
<1>2. ASSUME NEW q \in Resources, Subscribe(q)
      PROVE OnePlace(c, r)' /\ Unsettled(c, r)'
  <2>1. UNCHANGED <<unacked, channel, deliveries, delivery, requests, job>>
    BY <1>2 DEF Subscribe, amqpVars, poolVars
  <2>2. consumer'[c][r] = "put" => consumer[c][r] = "put"
    BY <1>0, <1>2 DEF Subscribe, ConsumeTypes
  <2> QED BY <1>0, <2>1, <2>2, Undisturbed DEF OpenIsKept
<1>3. ASSUME NEW b \in Conns, NEW q \in Resources, ConsumerDone(b, q)
      PROVE OnePlace(c, r)' /\ Unsettled(c, r)'
  <2>1. UNCHANGED <<unacked, channel, delivery, requests, job>>
    BY <1>3 DEF ConsumerDone, amqpVars, poolVars
  <2>2. b # c
    BY <1>3, <2>1 DEF ConsumerDone
  <2>3. consumer'[c][r] = consumer[c][r] /\ deliveries'[c][r] = deliveries[c][r]
    BY <1>0, <1>3, <2>2 DEF ConsumerDone, ConsumeTypes
  <2> QED BY <1>0, <2>1, <2>3, Undisturbed DEF OpenIsKept
<1>4. ASSUME UNCHANGED <<unacked, channel>>,
             UNCHANGED <<deliveries, delivery, consumer, requests, job>>
      PROVE OnePlace(c, r)' /\ Unsettled(c, r)'
  BY <1>0, <1>4, Undisturbed DEF OpenIsKept
<1> QED BY <1>1, <1>2, <1>3, <1>4

(* With one job every step keeps each outstanding delivery in one place. *)
LEMMA StepOpenIsKept ==
    ASSUME Capacity = 1, BrokerInv, OpenIsKept, [Next]_vars
    PROVE  OpenIsKept'
<1>1. Len(requests') <= 1
  <2>0. requests \in Seq(Deliveries) /\ Len(requests) <= 1
    BY DEF BrokerInv, TypeOK, PoolTypeOK, OpenIsKept
  <2>1. ASSUME NEW c \in Conns, NEW r \in Resources, Put(c, r)
        PROVE Len(requests') <= 1
    <3>1. delivery[c][r] \in Deliveries
      BY <2>1 DEF Put, BrokerInv, ConsumersOwn, Of
    <3>2. requests' = Append(requests, delivery[c][r]) /\ Len(requests) < 1
      BY <2>1 DEF Put, Send
    <3> QED BY <2>0, <3>1, <3>2
  <2>2. ASSUME NEW w \in Workers, Begin(w) PROVE Len(requests') <= 1
    <3>1. requests # <<>> /\ requests' = Tail(requests)
      BY <2>2 DEF Begin, Take
    <3> QED BY <2>0, <3>1
  <2>3. ASSUME NEW w \in Workers, SettleRequest(w) PROVE requests' = requests
    BY <2>3 DEF SettleRequest, Finish
  <2> QED BY <2>0, <2>1, <2>2, <2>3, WorkSteps
<1>2. ASSUME NEW c \in Conns, NEW r \in Resources, channel'[c] = "open"
      PROVE OnePlace(c, r)' /\ Unsettled(c, r)'
  <2>1. ReadTypes
    BY DEF BrokerInv, TypeOK
  <2> QED BY <1>2, <2>1, PlaceSteps, DeliverKeeps, ReceiveKeeps, PutKeeps,
             BeginKeeps, SettleKeeps, DialKeeps, OthersKeep
<1> QED BY <1>1, <1>2 DEF OpenIsKept

----------------------------------------------------------------------------
(* Answers *)

(* The steps that write an answer. *)
LEMMA AnswerSteps ==
    ASSUME [Next]_vars
    PROVE  \/ \E c \in Conns, r \in Resources : Receive(c, r)
           \/ \E w \in Workers : WriteResult(w) \/ WriteError(w)
           \/ UNCHANGED answerVars
BY DEF vars, answerVars, Next, ReaderStep, ConsumerStep, DoStep, MainStep,
       Publish, Deliver, ConnectionLost, Dial, DialAborted, Subscribe,
       SubscribeFails, ReadReturns, Reconnect, AbortWatch, AbortDrained, Put,
       PutPanics, End, ConsumerDone, Begin, RunTask, SettleRequest, AddWorker,
       AbortOnSignal, Signal, SignalAborts, StartRead, StartDoAll, Exit,
       Killed, PoolStep

(* An answer is not taken back. *)
LEMMA AnsweredForGood ==
    ASSUME TypeOK, [Next]_vars, NEW t \in Tasks, Answered(t)
    PROVE  Answered(t)'
<1>0. results \in [Tasks -> Nat]
  BY DEF TypeOK, WorkTypes
<1>1. ASSUME NEW c \in Conns, NEW r \in Resources, Receive(c, r)
      PROVE Answered(t)'
  BY <1>1 DEF Receive, Answered
<1>2. ASSUME NEW w \in Workers, WriteResult(w) PROVE Answered(t)'
  <2>1. \/ results' = results
        \/ results' = [results EXCEPT ![job[w].task] = @ + 1]
    BY <1>2 DEF WriteResult
  <2>2. results[t] > 0 => results'[t] > 0
    BY <1>0, <2>1
  <2> QED BY <1>2, <2>2 DEF WriteResult, Answered
<1>3. ASSUME NEW w \in Workers, WriteError(w) PROVE Answered(t)'
  BY <1>3 DEF WriteError, Answered
<1>4. CASE UNCHANGED answerVars
  BY <1>4 DEF answerVars, Answered
<1> QED BY <1>1, <1>2, <1>3, <1>4, AnswerSteps

(* A channel once closed stays closed. *)
LEMMA ClosedForGood ==
    ASSUME BrokerInv, [Next]_vars, NEW c \in Conns, channel[c] = "closed"
    PROVE  channel'[c] = "closed"
<1>0. AmqpTypes /\ ReadTypes
  BY DEF BrokerInv, TypeOK
<1>1. ASSUME NEW C, CloseChannels(C) PROVE channel'[c] = "closed"
  BY <1>0, <1>1, CloseChannelsEffect
<1>2. ASSUME NEW w \in Workers, SettleRequest(w) PROVE channel'[c] = "closed"
  <2>1. PICK d : Settle(d)
    BY <1>2 DEF SettleRequest
  <2> QED BY <1>0, <2>1, SettleEffect
<1>3. ASSUME Dial PROVE channel'[c] = "closed"
  <2>1. c # conn + 1
    BY <1>0, <1>3 DEF Dial, BrokerInv, Undialled, ReadTypes
  <2> QED BY <1>0, <1>3, <2>1 DEF Dial, AmqpTypes
<1>4. ASSUME NEW t \in Tasks, NEW r \in Resources, Publish(t, r)
      PROVE channel'[c] = "closed"
  BY <1>4 DEF Publish
<1>5. ASSUME NEW b \in Conns, NEW r \in Resources, NEW t \in Tasks, Deliver(b, r, t)
      PROVE channel'[c] = "closed"
  BY <1>5 DEF Deliver
<1>6. CASE UNCHANGED amqpVars
  BY <1>6 DEF amqpVars
<1> QED BY <1>0, <1>1, <1>2, <1>3, <1>4, <1>5, <1>6, AmqpSteps

(* A worker settles a request only after it has written the answer. *)
LEMMA StepAnsweredBeforeSettled ==
    ASSUME BrokerInv, AnsweredBeforeSettled, [Next]_vars
    PROVE  AnsweredBeforeSettled'
<1>0. /\ stage \in [Workers -> Stages] /\ results \in [Tasks -> Nat]
      /\ channel \in [Conns -> {"none", "open", "closed"}]
      /\ ReadTypes /\ AmqpTypes /\ TypeOK
  BY DEF BrokerInv, TypeOK, WorkTypes, AmqpTypes
<1> SUFFICES ASSUME NEW w \in Workers, stage'[w] \in {"ack", "nack"},
                    channel'[job'[w].conn] = "open"
             PROVE  Answered(job[w].task)'
  BY DEF AnsweredBeforeSettled
<1>1. ASSUME NEW v \in Workers, Begin(v) \/ SettleRequest(v)
      PROVE v # w /\ stage'[w] = stage[w] /\ job'[w] = job[w]
  <2>1. job \in [Workers -> Deliveries \cup {NoRequest}]
    BY DEF BrokerInv, TypeOK, PoolTypeOK
  <2>2. stage' = [stage EXCEPT ![v] = "run"] \/ stage' = [stage EXCEPT ![v] = "idle"]
    BY <1>1 DEF Begin, SettleRequest
  <2>3. v # w
    BY <1>0, <2>2
  <2> QED BY <1>0, <1>1, <2>1, <2>2, <2>3 DEF Begin, Take, SettleRequest, Finish
<1>2. ASSUME stage[w] \in {"ack", "nack"}, job'[w] = job[w]
      PROVE Answered(job[w].task)'
  <2>1. job[w] \in Deliveries /\ Received(job[w])
    BY <1>2 DEF BrokerInv, WorkersFollow, RequestsReceived
  <2>2. job[w].conn \in Conns /\ job[w].task \in Tasks
    BY <2>1 DEF Deliveries
  <2>3. channel[job[w].conn] = "open"
    <3>1. channel[job[w].conn] # "none"
      BY <2>1 DEF Received
    <3>2. ASSUME NEW c \in Conns, channel[c] = "closed" PROVE channel'[c] = "closed"
      BY <1>0, <3>2, ClosedForGood
    <3> QED BY <1>0, <1>2, <2>2, <3>1, <3>2
  <2>4. Answered(job[w].task)
    BY <1>2, <2>3 DEF AnsweredBeforeSettled
  <2>5. \A t \in Tasks : Answered(t) => Answered(t)'
    BY <1>0, AnsweredForGood
  <2> QED BY <1>2, <2>2, <2>4, <2>5 DEF Answered
<1>3. ASSUME NEW v \in Workers, Begin(v) \/ SettleRequest(v)
      PROVE Answered(job[w].task)'
  BY <1>1, <1>2, <1>3
<1>4. ASSUME NEW v \in Workers, RunTask(v), job' = job
      PROVE Answered(job[w].task)'
  <2>1. stage'[w] = stage[w]
    BY <1>0, <1>4 DEF RunTask
  <2> QED BY <1>2, <1>4, <2>1
<1>5. ASSUME NEW v \in Workers, WriteResult(v) \/ WriteError(v), job' = job
      PROVE Answered(job[w].task)'
  <2>1. CASE v = w
    <3>1. job[w] \in Deliveries
      BY <1>5, <2>1 DEF WriteResult, WriteError, BrokerInv, WorkersFollow
    <3>2. job[w].task \in Tasks
      BY <3>1 DEF Deliveries
    <3>3. channel[job[w].conn] = "open"
      BY <1>5 DEF WriteResult, WriteError, amqpVars
    <3>4. CASE WriteResult(v)
      <4>1. results'[job[w].task] > 0
        BY <1>0, <2>1, <3>2, <3>3, <3>4 DEF WriteResult
      <4> QED BY <1>5, <4>1 DEF Answered
    <3>5. CASE WriteError(v)
      BY <1>5, <2>1, <3>3, <3>5 DEF WriteError, Answered
    <3> QED BY <1>5, <3>4, <3>5
  <2>2. CASE v # w
    <3>1. stage'[w] = stage[w]
      BY <1>0, <1>5, <2>2 DEF WriteResult, WriteError
    <3> QED BY <1>2, <1>5, <3>1
  <2> QED BY <2>1, <2>2
<1>6. ASSUME UNCHANGED <<job, stage>> PROVE Answered(job[w].task)'
  BY <1>2, <1>6
<1> QED BY <1>3, <1>4, <1>5, <1>6, WorkSteps

(* Only clients send tasks. *)
LEMMA SentSteps ==
    ASSUME [Next]_vars
    PROVE  sent' = sent \/ \E t \in Tasks, r \in Resources : Publish(t, r)
BY DEF vars, Next, ReaderStep, ConsumerStep, DoStep, MainStep, Deliver,
       ConnectionLost, Dial, DialAborted, Subscribe, SubscribeFails,
       ReadReturns, Reconnect, AbortWatch, AbortDrained, Receive, Put,
       PutPanics, End, ConsumerDone, Begin, RunTask, WriteResult, WriteError,
       SettleRequest, AddWorker, AbortOnSignal, Signal, SignalAborts,
       StartRead, StartDoAll, Exit, Killed, PoolStep

(* With one job a task leaves RabbitMQ only when it has been answered. *)
LEMMA StepNothingLost ==
    ASSUME OneJobInv, [Next]_vars
    PROVE  NothingLost'
<1>0. AmqpTypes /\ ReadTypes /\ WorkTypes /\ TypeOK /\ BrokerInv
  BY DEF OneJobInv, BrokerInv, TypeOK
<1> SUFFICES ASSUME NEW t \in sent' PROVE InRabbit(t)' \/ Answered(t)'
  BY DEF NothingLost
<1>1. ASSUME t \in sent, Answered(t) PROVE Answered(t)'
  BY <1>0, <1>1, AnsweredForGood DEF WorkTypes
<1>2. ASSUME \A r \in Resources : queue[r] \subseteq queue'[r],
             \A d \in unacked \ unacked' : d.task \in queue'[d.resource],
             t \in sent
      PROVE InRabbit(t)' \/ Answered(t)'
  <2>1. \A d \in unacked : d.resource \in Resources
    BY <1>0 DEF AmqpTypes, Deliveries
  <2>2. InRabbit(t) => InRabbit(t)'
    BY <1>2, <2>1 DEF InRabbit
  <2> QED BY <1>1, <1>2, <2>2 DEF OneJobInv, NothingLost
<1>3. ASSUME NEW u \in Tasks, NEW r \in Resources, Publish(u, r)
      PROVE InRabbit(t)' \/ Answered(t)'
  <2>1. t \in sent \/ t = u
    BY <1>3 DEF Publish
  <2>2. \A q \in Resources : queue[q] \subseteq queue'[q]
    BY <1>0, <1>3 DEF Publish, AmqpTypes
  <2>3. u \in queue'[r] /\ unacked' = unacked
    BY <1>0, <1>3 DEF Publish, AmqpTypes
  <2> QED BY <1>2, <2>1, <2>2, <2>3 DEF InRabbit
<1>4. sent' = sent \/ \E u \in Tasks, r \in Resources : Publish(u, r)
  BY SentSteps
<1>5. ASSUME t \in sent,
             NEW c \in Conns, NEW r \in Resources, NEW u \in Tasks, Deliver(c, r, u)
      PROVE InRabbit(t)' \/ Answered(t)'
  <2> DEFINE d == [conn |-> c, resource |-> r, task |-> u]
  <2>1. /\ unacked' = unacked \cup {d}
        /\ \A q \in Resources : queue[q] \subseteq queue'[q] \cup {u}
    BY <1>0, <1>5 DEF Deliver, AmqpTypes
  <2>2. d \in unacked' /\ d.task = u
    BY <2>1
  <2>3. InRabbit(t) => InRabbit(t)'
    BY <2>1, <2>2 DEF InRabbit
  <2> QED BY <1>1, <1>5, <2>3 DEF OneJobInv, NothingLost
<1>6. ASSUME t \in sent, NEW C, CloseChannels(C)
      PROVE InRabbit(t)' \/ Answered(t)'
  BY <1>0, <1>2, <1>6, CloseChannelsEffect
<1>7. ASSUME t \in sent, NEW w \in Workers, SettleRequest(w)
      PROVE InRabbit(t)' \/ Answered(t)'
  <2>1. CASE UNCHANGED amqpVars
    BY <1>2, <1>7, <2>1 DEF amqpVars
  <2>2. CASE /\ channel[job[w].conn] = "open"
             /\ unacked' = unacked \ {job[w]} /\ queue' = queue
    <3>1. Answered(job[w].task)
      BY <1>7, <2>2 DEF SettleRequest, OneJobInv, AnsweredBeforeSettled
    <3>2. InRabbit(t) => InRabbit(t)' \/ t = job[w].task
      BY <2>2 DEF InRabbit
    <3> QED BY <1>1, <1>7, <3>1, <3>2 DEF OneJobInv, NothingLost
  <2> QED BY <1>7, <2>1, <2>2, SettlesItsOwn DEF OneJobInv
<1>8. ASSUME t \in sent, UNCHANGED <<queue, unacked>>
      PROVE InRabbit(t)' \/ Answered(t)'
  BY <1>2, <1>8
<1> QED BY <1>0, <1>3, <1>4, <1>5, <1>6, <1>7, <1>8, AmqpSteps
        DEF Dial, amqpVars

(* The program starts with nothing delivered. *)
LEMMA OneJobInit == Init => OneJobInv
<1> SUFFICES ASSUME Init PROVE OneJobInv
  OBVIOUS
<1>1. BrokerInv
  BY BrokerInit
<1>2. OpenIsKept
  BY DEF Init, PoolInit, OpenIsKept
<1>3. AnsweredBeforeSettled /\ NothingLost
  BY DEF Init, AnsweredBeforeSettled, NothingLost
<1> QED BY <1>1, <1>2, <1>3 DEF OneJobInv

(* With one job every step keeps the invariant. *)
LEMMA OneJobInductive ==
    ASSUME Capacity = 1, OneJobInv, [Next]_vars
    PROVE  OneJobInv'
<1>1. BrokerInv' /\ OpenIsKept' /\ AnsweredBeforeSettled'
  BY BrokerInductive, StepOpenIsKept, StepAnsweredBeforeSettled DEF OneJobInv
<1>2. NothingLost'
  BY StepNothingLost
<1> QED BY <1>1, <1>2 DEF OneJobInv

(* With one job the program loses no task: whatever connections break and    *)
(* whenever it ends, a task is in RabbitMQ until its client is answered.     *)
THEOREM OneJobLosesNothing ==
    ASSUME Capacity = 1
    PROVE  Spec => []NothingLost
<1>1. OneJobInv => NothingLost
  BY DEF OneJobInv
<1> QED BY <1>1, OneJobInit, OneJobInductive, PTL DEF Spec

----------------------------------------------------------------------------
(* At least once *)

(* Closing channels neither takes a task from RabbitMQ nor brings one back. *)
LEMMA ClosingHolds ==
    ASSUME AmqpTypes, NEW C, CloseChannels(C), NEW t \in Tasks
    PROVE  InRabbit(t)' <=> InRabbit(t)
<1>1. \A d \in unacked : d.task \in Tasks /\ d.resource \in Resources
  BY DEF AmqpTypes, Deliveries
<1>2. InRabbit(t) => InRabbit(t)'
  BY <1>1, CloseChannelsEffect DEF InRabbit
<1>3. InRabbit(t)' => InRabbit(t)
  BY DEF InRabbit, CloseChannels
<1> QED BY <1>2, <1>3

(* A delivery moves a task from its queue to those unacknowledged. *)
LEMMA DeliverHolds ==
    ASSUME AmqpTypes, NEW c \in Conns, NEW r \in Resources, NEW u \in Tasks,
           Deliver(c, r, u), NEW t \in Tasks
    PROVE  InRabbit(t)' <=> InRabbit(t)
<1> DEFINE d == [conn |-> c, resource |-> r, task |-> u]
<1>1. /\ u \in queue[r]
      /\ unacked' = unacked \cup {d}
      /\ queue'[r] = queue[r] \ {u}
      /\ \A q \in Resources \ {r} : queue'[q] = queue[q]
  BY DEF Deliver, AmqpTypes
<1>2. d.task = u
  OBVIOUS
<1> HIDE DEF d
<1>3. InRabbit(t)' => InRabbit(t)
  BY <1>1, <1>2 DEF InRabbit
<1>4. InRabbit(t) => InRabbit(t)'
  BY <1>1, <1>2 DEF InRabbit
<1> QED BY <1>3, <1>4

(* A worker whose channel is open has a request that is unacknowledged. *)
LEMMA WorkHeld ==
    ASSUME OneJobInv, NEW w \in Workers, stage[w] # "idle",
           channel[job[w].conn] = "open"
    PROVE  job[w].task \in Tasks /\ InRabbit(job[w].task)
<1>1. job[w] \in Deliveries
  BY DEF OneJobInv, BrokerInv, WorkersFollow
<1>2. /\ job[w].conn \in Conns /\ job[w].resource \in Resources
      /\ Of(job[w], job[w].conn, job[w].resource) /\ job[w].task \in Tasks
  BY <1>1 DEF Deliveries, Of
<1>3. job[w] \in unacked
  BY <1>2 DEF OneJobInv, OpenIsKept, Unsettled
<1> QED BY <1>2, <1>3 DEF InRabbit

(* So has a consumer whose next delivery is on an open channel. *)
LEMMA HeadHeld ==
    ASSUME OneJobInv, NEW c \in Conns, NEW r \in Resources,
           channel[c] = "open", deliveries[c][r] # <<>>
    PROVE  /\ Head(deliveries[c][r]).task \in Tasks
           /\ InRabbit(Head(deliveries[c][r]).task)
<1>1. Head(deliveries[c][r]) \in unacked
  BY DEF OneJobInv, OpenIsKept, Unsettled, InLibrary
<1>2. unacked \subseteq Deliveries
  BY DEF OneJobInv, BrokerInv, TypeOK, AmqpTypes
<1> QED BY <1>1, <1>2 DEF InRabbit, Deliveries

(* Settling a request takes a task that has been answered, or none. *)
LEMMA SettleCompletes ==
    ASSUME OneJobInv, NEW w \in Workers, SettleRequest(w)
    PROVE  \/ \A t \in Tasks : InRabbit(t)' <=> InRabbit(t)
           \/ \E u \in Tasks : /\ Answered(u)
                              /\ \A t \in Tasks : InRabbit(t)' <=> InRabbit(t) /\ t # u
<1>1. CASE UNCHANGED amqpVars
  BY <1>1 DEF amqpVars, InRabbit
<1>2. CASE /\ channel[job[w].conn] = "open"
           /\ job[w] \in unacked /\ job[w] \in Deliveries
           /\ unacked' = unacked \ {job[w]} /\ queue' = queue
  <2> DEFINE u == job[w].task
  <2>1. u \in Tasks /\ Answered(u) /\ InRabbit(u)
    BY <1>2 DEF SettleRequest, OneJobInv, AnsweredBeforeSettled, Deliveries, InRabbit
  <2>2. ASSUME NEW t \in Tasks, t # u PROVE InRabbit(t)' <=> InRabbit(t)
    BY <1>2, <2>2 DEF InRabbit
  <2> HIDE DEF u
  <2>3. CASE InRabbit(u)'
    BY <2>1, <2>2, <2>3
  <2>4. CASE ~InRabbit(u)'
    BY <2>1, <2>2, <2>4
  <2> QED BY <2>3, <2>4
<1> QED BY <1>1, <1>2, SettlesItsOwn DEF OneJobInv

(* With one job every step is one of TaskDelivery, or nothing to it. *)
LEMMA DeliveryStep ==
    ASSUME OneJobInv, [Next]_vars
    PROVE  [Delivery!Next]_(Delivery!deliveryVars)
<1>0. /\ AmqpTypes /\ ReadTypes /\ WorkTypes
      /\ queue \in [Resources -> SUBSET Tasks]
  BY DEF OneJobInv, BrokerInv, TypeOK, AmqpTypes
<1> DEFINE Holds == \A t \in Tasks : InRabbit(t)' <=> InRabbit(t)
<1>1. ASSUME Holds, UNCHANGED <<sent, results, errors>>
      PROVE UNCHANGED Delivery!deliveryVars
  <2>1. {t \in Tasks : InRabbit(t)}' = {t \in Tasks : InRabbit(t)}
    BY <1>1
  <2> QED BY <1>1, <2>1 DEF Delivery!deliveryVars
<1>2. ASSUME NEW u \in Tasks, NEW r \in Resources, Publish(u, r)
      PROVE Delivery!Next
  <2>1. \A t \in Tasks : InRabbit(t)' <=> InRabbit(t) \/ t = u
    BY <1>0, <1>2 DEF Publish, InRabbit
  <2>2. {t \in Tasks : InRabbit(t)}' = {t \in Tasks : InRabbit(t)} \cup {u}
    BY <2>1
  <2>3. Delivery!Send(u)
    BY <1>2, <2>2 DEF Publish, answerVars, Delivery!Send
  <2> QED BY <2>3 DEF Delivery!Next
<1>3. ASSUME NEW c \in Conns, NEW r \in Resources, NEW u \in Tasks, Deliver(c, r, u)
      PROVE UNCHANGED Delivery!deliveryVars
  BY <1>0, <1>1, <1>3, DeliverHolds DEF Deliver, answerVars
<1>4. ASSUME Dial PROVE UNCHANGED Delivery!deliveryVars
  BY <1>1, <1>4 DEF Dial, answerVars, InRabbit
<1>5. ASSUME NEW C, CloseChannels(C), UNCHANGED <<sent, results, errors>>
      PROVE UNCHANGED Delivery!deliveryVars
  BY <1>0, <1>1, <1>5, ClosingHolds
<1>6. ASSUME NEW w \in Workers, SettleRequest(w)
      PROVE Delivery!Next \/ UNCHANGED Delivery!deliveryVars
  <2>1. UNCHANGED <<sent, results, errors>>
    BY <1>6 DEF SettleRequest, answerVars
  <2>2. ASSUME NEW u \in Tasks, Answered(u),
               \A t \in Tasks : InRabbit(t)' <=> InRabbit(t) /\ t # u
        PROVE Delivery!Next
    <3>1. {t \in Tasks : InRabbit(t)}' = {t \in Tasks : InRabbit(t)} \ {u}
      BY <2>2
    <3>2. Delivery!Complete(u)
      BY <2>1, <2>2, <3>1 DEF Answered, Delivery!Complete
    <3> QED BY <3>2 DEF Delivery!Next
  <2> QED BY <1>1, <1>6, <2>1, <2>2, SettleCompletes
<1>7. ASSUME NEW c \in Conns, NEW r \in Resources, Receive(c, r)
      PROVE Delivery!Next \/ UNCHANGED Delivery!deliveryVars
  <2> DEFINE u == Head(deliveries[c][r]).task
  <2>1. Holds /\ UNCHANGED <<sent, results>> /\ deliveries[c][r] # <<>>
    BY <1>7 DEF Receive, amqpVars, InRabbit
  <2>2. errors' = errors \/ (channel[c] = "open" /\ errors' = errors \cup {u})
    BY <1>7 DEF Receive
  <2>3. CASE channel[c] = "open" /\ errors' = errors \cup {u}
    <3>1. u \in Tasks /\ InRabbit(u)
      BY <2>1, <2>3, HeadHeld
    <3>2. {t \in Tasks : InRabbit(t)}' = {t \in Tasks : InRabbit(t)}
      BY <2>1
    <3> HIDE DEF u
    <3>3. Delivery!Error(u)
      BY <2>1, <2>3, <3>1, <3>2 DEF Delivery!Error
    <3> QED BY <3>1, <3>3 DEF Delivery!Next
  <2> QED BY <1>1, <2>1, <2>2, <2>3
<1>8. ASSUME NEW w \in Workers, WriteResult(w) \/ WriteError(w)
      PROVE Delivery!Next \/ UNCHANGED Delivery!deliveryVars
  <2> DEFINE u == job[w].task
  <2>1. Holds /\ sent' = sent /\ stage[w] # "idle"
    BY <1>8 DEF WriteResult, WriteError, amqpVars, InRabbit
  <2>2. {t \in Tasks : InRabbit(t)}' = {t \in Tasks : InRabbit(t)}
    BY <2>1
  <2>3. CASE channel[job[w].conn] = "open"
    <3>1. u \in Tasks /\ InRabbit(u)
      BY <2>1, <2>3, WorkHeld
    <3>2. CASE WriteResult(w)
      <4>1. Delivery!Result(u)
        BY <2>1, <2>2, <2>3, <3>1, <3>2 DEF WriteResult, Delivery!Result
      <4> QED BY <3>1, <4>1 DEF Delivery!Next
    <3>3. CASE WriteError(w)
      <4>1. Delivery!Error(u)
        BY <2>1, <2>2, <2>3, <3>1, <3>3 DEF WriteError, Delivery!Error
      <4> QED BY <3>1, <4>1 DEF Delivery!Next
    <3> QED BY <1>8, <3>2, <3>3
  <2>4. CASE channel[job[w].conn] # "open"
    BY <1>1, <1>8, <2>1, <2>4 DEF WriteResult, WriteError
  <2> QED BY <2>3, <2>4
<1>9. ASSUME UNCHANGED amqpVars, sent' = sent
      PROVE Delivery!Next \/ UNCHANGED Delivery!deliveryVars
  <2>1. CASE UNCHANGED answerVars
    BY <1>1, <1>9, <2>1 DEF amqpVars, answerVars, InRabbit
  <2> QED BY <1>7, <1>8, <2>1, AnswerSteps
<1> HIDE DEF Holds
<1> QED BY <1>0, <1>2, <1>3, <1>4, <1>5, <1>6, <1>9, AmqpSteps, SentSteps

(* With one job the program delivers tasks at least once, and once a task is *)
(* done with it stays so: RabbitMQ gives it up only when its client has been *)
(* answered, and no answer comes after that, whatever connections break.     *)
(* (request_reader.go:90, worker.go:67, request.go:76)                       *)
THEOREM OneJobDeliversTasks ==
    ASSUME Capacity = 1
    PROVE  Spec => ImplementsDelivery
<1>1. Init => Delivery!Init
  BY DEF Init, InRabbit, Delivery!Init
<1> QED BY <1>1, OneJobInit, OneJobInductive, DeliveryStep, PTL
        DEF Spec, ImplementsDelivery, Delivery!Spec

=============================================================================
