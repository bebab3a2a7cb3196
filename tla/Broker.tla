------------------------------- MODULE Broker -------------------------------
(***************************************************************************)
(* The broker's service program, go/bunsan/broker: the request reader that *)
(* keeps a connection to RabbitMQ, the goroutines that turn deliveries     *)
(* into requests, the worker pool (WorkerPool.tla), worker.Do, and the     *)
(* main program with its signal handler.  RabbitMQ and the AMQP library    *)
(* are external: queues, unacknowledged deliveries and channels as the     *)
(* code uses them.                                                         *)
(*                                                                         *)
(* A task is delivered at most once on one connection, so the delivery tag *)
(* is left out: a delivery is known by its connection, resource and task.  *)
(* The order of a queue is left out: no code relies on it.                 *)
(***************************************************************************)
EXTENDS WorkerPool

CONSTANTS Tasks,      \* what clients may send
          BadTasks,   \* those NewRequest cannot read
          Resources,  \* the constraints: one queue each
          MaxConns,   \* bound: connections dialled
          MaxFaults,  \* bound: connections lost
          NoDelivery  \* the loop variable before the first delivery

Conns == 1..MaxConns
Deliveries == [conn : Conns, resource : Resources, task : Tasks]

ASSUME BadTasksAssumption == BadTasks \subseteq Tasks
ASSUME ResourcesAssumption == Resources # {}
ASSUME BoundsAssumption == MaxConns \in Nat /\ MaxFaults \in Nat
ASSUME RequestsAssumption == Requests = Deliveries
ASSUME NoDeliveryAssumption == NoDelivery \notin Deliveries
(* NewRequestReader.Read is given as many jobs as there are workers. *)
ASSUME JobsAssumption == IsFiniteSet(Workers) /\ Capacity = Cardinality(Workers)

VARIABLES
    (* RabbitMQ *)
    queue,      \* the ready tasks of each resource's queue
    unacked,    \* deliveries neither acknowledged nor returned
    channel,    \* the AMQP channel of each connection
    (* the AMQP library and the reader *)
    deliveries, \* the channel returned by Consume
    delivery,   \* the loop variable of each consumer goroutine
    consumer,   \* where each consumer goroutine stands
    read,       \* the reader function of the current connection
    maintain,   \* maintainConnection
    conn,       \* the current connection
    aborter,    \* the aborter channel is closed
    (* worker.Do *)
    stage,
    (* what the clients have been sent *)
    sent, results, errors,
    (* the program *)
    main, signal, faults

amqpVars == <<queue, unacked, channel>>
consumeVars == <<deliveries, delivery, consumer>>
readVars == <<read, maintain, conn, aborter>>
answerVars == <<results, errors>>
programVars == <<main, signal, faults>>

vars == <<poolVars, amqpVars, consumeVars, readVars, stage, sent, answerVars,
          programVars>>

ConsumerStates == {"none", "receive", "put", "done"}
ReadStates == {"none", "subscribe", "wait", "returned"}
MaintainStates == {"none", "dial", "watch", "drain", "stopped"}
Stages == {"idle", "run", "result", "ack", "error", "nack"}
MainStates == {"add", "read", "doall", "serve", "exited", "panicked"}

Init ==
    /\ PoolInit
    /\ queue = [r \in Resources |-> {}]
    /\ unacked = {}
    /\ channel = [c \in Conns |-> "none"]
    /\ deliveries = [c \in Conns |-> [r \in Resources |-> <<>>]]
    /\ delivery = [c \in Conns |-> [r \in Resources |-> NoDelivery]]
    /\ consumer = [c \in Conns |-> [r \in Resources |-> "none"]]
    /\ read = "none"
    /\ maintain = "none"
    /\ conn = 0
    /\ aborter = FALSE
    /\ stage = [w \in Workers |-> "idle"]
    /\ sent = {}
    /\ results = [t \in Tasks |-> 0]
    /\ errors = {}
    /\ main = "add"
    /\ signal = "none"
    /\ faults = 0

Running == main \notin {"exited", "panicked"}

----------------------------------------------------------------------------
(* RabbitMQ and its clients. *)

(* A client's task reaches the queue of the resource it asks for. *)
Publish(t, r) ==
    /\ t \notin sent
    /\ sent' = sent \cup {t}
    /\ queue' = [queue EXCEPT ![r] = @ \cup {t}]
    /\ UNCHANGED <<poolVars, unacked, channel, consumeVars, readVars, stage,
                   answerVars, programVars>>

Outstanding(c, r) == {d \in unacked : d.conn = c /\ d.resource = r}

(* Qos(jobs, 0, false): each consumer may hold jobs unacknowledged tasks. *)
Deliver(c, r, t) ==
    /\ channel[c] = "open"
    /\ consumer[c][r] \in {"receive", "put"}
    /\ t \in queue[r]
    /\ Cardinality(Outstanding(c, r)) < Capacity
    /\ LET d == [conn |-> c, resource |-> r, task |-> t] IN
       /\ unacked' = unacked \cup {d}
       /\ deliveries' = [deliveries EXCEPT ![c][r] = Append(@, d)]
    /\ queue' = [queue EXCEPT ![r] = @ \ {t}]
    /\ UNCHANGED <<poolVars, channel, delivery, consumer, readVars, stage,
                   sent, answerVars, programVars>>

(* The channels in C close; RabbitMQ puts back what they had not settled. *)
CloseChannels(C) ==
    /\ channel' = [c \in Conns |-> IF c \in C THEN "closed" ELSE channel[c]]
    /\ unacked' = {d \in unacked : d.conn \notin C}
    /\ queue' = [r \in Resources |->
                   queue[r] \cup {d.task : d \in {e \in unacked :
                                      e.conn \in C /\ e.resource = r}}]

ConnectionLost(c) ==
    /\ channel[c] = "open"
    /\ faults < MaxFaults
    /\ faults' = faults + 1
    /\ CloseChannels({c})
    /\ UNCHANGED <<poolVars, consumeVars, readVars, stage, sent, answerVars,
                   main, signal>>

----------------------------------------------------------------------------
(* request_reader.go: maintainConnection and the reader function. *)

(* A dial that fails is tried again after a second: only the abort of the  *)
(* wait changes state.                                                     *)
Dial ==
    /\ Running
    /\ maintain = "dial"
    /\ conn < MaxConns
    /\ conn' = conn + 1
    /\ channel' = [channel EXCEPT ![conn + 1] = "open"]
    /\ read' = "subscribe"
    /\ maintain' = "watch"
    /\ UNCHANGED <<poolVars, queue, unacked, consumeVars, aborter, stage, sent,
                   answerVars, programVars>>

DialAborted ==
    /\ Running
    /\ maintain = "dial"
    /\ aborter
    /\ Close
    /\ maintain' = "stopped"
    /\ UNCHANGED <<amqpVars, consumeVars, read, conn, aborter, stage, sent,
                   answerVars, programVars>>

(* QueueDeclare and Consume for one resource, and the start of its goroutine. *)
Subscribe(r) ==
    /\ Running
    /\ read = "subscribe"
    /\ channel[conn] = "open"
    /\ consumer[conn][r] = "none"
    /\ consumer' = [consumer EXCEPT ![conn][r] = "receive"]
    /\ read' = IF \A q \in Resources \ {r} : consumer[conn][q] # "none"
               THEN "wait" ELSE "subscribe"
    /\ UNCHANGED <<poolVars, amqpVars, deliveries, delivery, maintain, conn,
                   aborter, stage, sent, answerVars, programVars>>

(* An error of Qos or Consume returns at once, consumers or not. *)
SubscribeFails ==
    /\ Running
    /\ read = "subscribe"
    /\ channel[conn] = "closed"
    /\ read' = "returned"
    /\ UNCHANGED <<poolVars, amqpVars, consumeVars, maintain, conn, aborter,
                   stage, sent, answerVars, programVars>>

(* consumers.Wait() is over; the deferred channel.Close() finds it closed. *)
ReadReturns ==
    /\ Running
    /\ read = "wait"
    /\ \A r \in Resources : consumer[conn][r] = "done"
    /\ read' = "returned"
    /\ UNCHANGED <<poolVars, amqpVars, consumeVars, maintain, conn, aborter,
                   stage, sent, answerVars, programVars>>

(* Mutant: an error of the reader ends the loop. *)
ReconnectNever ==
    /\ Running
    /\ maintain = "watch"
    /\ read = "returned"
    /\ maintain' = "stopped"
    /\ CloseChannels({conn})
    /\ UNCHANGED <<poolVars, consumeVars, read, conn, aborter, stage, sent,
                   answerVars, programVars>>

Reconnect ==
    /\ Running
    /\ maintain = "watch"
    /\ read = "returned"
    /\ maintain' = "dial"
    /\ CloseChannels({conn})
    /\ UNCHANGED <<poolVars, consumeVars, read, conn, aborter, stage, sent,
                   answerVars, programVars>>

(* On abort: conn.Close(), wait for the reader, then close(r.tasks). *)
AbortWatch ==
    /\ Running
    /\ maintain = "watch"
    /\ aborter
    /\ maintain' = "drain"
    /\ CloseChannels({conn})
    /\ UNCHANGED <<poolVars, consumeVars, read, conn, aborter, stage, sent,
                   answerVars, programVars>>

(* Mutant: close(r.tasks) without waiting for errCh. *)
AbortUndrained ==
    /\ Running
    /\ maintain = "drain"
    /\ Close
    /\ maintain' = "stopped"
    /\ UNCHANGED <<amqpVars, consumeVars, read, conn, aborter, stage, sent,
                   answerVars, programVars>>

AbortDrained ==
    /\ Running
    /\ maintain = "drain"
    /\ read = "returned"
    /\ Close
    /\ maintain' = "stopped"
    /\ UNCHANGED <<amqpVars, consumeVars, read, conn, aborter, stage, sent,
                   answerVars, programVars>>

----------------------------------------------------------------------------
(* request_reader.go: the consumer goroutine of resource r on connection c. *)

(* Mutant: the request is made before the loop variable is set. *)
ReceiveStale(c, r) ==
    /\ Running
    /\ consumer[c][r] = "receive"
    /\ deliveries[c][r] # <<>>
    /\ consumer' = [consumer EXCEPT ![c][r] = "put"]
    /\ deliveries' = [deliveries EXCEPT ![c][r] = Tail(@)]
    /\ UNCHANGED <<poolVars, amqpVars, delivery, readVars, stage, sent,
                   answerVars, programVars>>

(* The request keeps &delivery, the address of the loop variable.  A task   *)
(* NewRequest cannot read is answered with an error, and never settled.     *)
Receive(c, r) ==
    /\ Running
    /\ consumer[c][r] = "receive"
    /\ deliveries[c][r] # <<>>
    /\ LET d == Head(deliveries[c][r]) IN
       /\ delivery' = [delivery EXCEPT ![c][r] = d]
       /\ IF d.task \in BadTasks
          THEN /\ errors' = IF channel[c] = "open" THEN errors \cup {d.task}
                            ELSE errors
               /\ UNCHANGED consumer
          ELSE /\ consumer' = [consumer EXCEPT ![c][r] = "put"]
               /\ UNCHANGED errors
    /\ deliveries' = [deliveries EXCEPT ![c][r] = Tail(@)]
    /\ UNCHANGED <<poolVars, amqpVars, readVars, stage, sent, results,
                   programVars>>

Put(c, r) ==
    /\ Running
    /\ consumer[c][r] = "put"
    /\ Send(delivery[c][r])
    /\ consumer' = [consumer EXCEPT ![c][r] = "receive"]
    /\ UNCHANGED <<amqpVars, deliveries, delivery, readVars, stage, sent,
                   answerVars, programVars>>

(* The program ends: every connection it had closes. *)
End(how) ==
    /\ main' = how
    /\ CloseChannels({c \in Conns : channel[c] # "none"})
    /\ UNCHANGED <<poolVars, consumeVars, readVars, stage, sent, answerVars,
                   signal, faults>>

(* A send on the closed r.tasks panics. *)
PutPanics(c, r) ==
    /\ Running
    /\ consumer[c][r] = "put"
    /\ closed
    /\ End("panicked")

(* When its channel has closed the library ends the deliveries, with or     *)
(* without those it still buffers.                                          *)
ConsumerDone(c, r) ==
    /\ Running
    /\ consumer[c][r] = "receive"
    /\ channel[c] = "closed"
    /\ consumer' = [consumer EXCEPT ![c][r] = "done"]
    /\ deliveries' = [deliveries EXCEPT ![c][r] = <<>>]
    /\ UNCHANGED <<poolVars, amqpVars, delivery, readVars, stage, sent,
                   answerVars, programVars>>

----------------------------------------------------------------------------
(* worker.go: Do, and request.go: Ack and Nack. *)

(* Ack(false) and Nack(false, false) settle the delivery the loop variable *)
(* holds by now; RabbitMQ closes a channel that settles one twice.         *)
Settle(d) ==
    \/ /\ channel[d.conn] # "open"
       /\ UNCHANGED amqpVars
    \/ /\ channel[d.conn] = "open"
       /\ d \in unacked
       /\ unacked' = unacked \ {d}
       /\ UNCHANGED <<queue, channel>>
    \/ /\ channel[d.conn] = "open"
       /\ d \notin unacked
       /\ CloseChannels({d.conn})

Begin(w) ==
    /\ Running
    /\ Take(w)
    /\ stage' = [stage EXCEPT ![w] = "run"]
    /\ UNCHANGED <<amqpVars, consumeVars, readVars, sent, answerVars,
                   programVars>>

(* A result (PACKAGE_ERROR when Extract fails), or an error or a panic. *)
RunTask(w) ==
    /\ Running
    /\ stage[w] = "run"
    /\ \E next \in {"result", "error"} : stage' = [stage EXCEPT ![w] = next]
    /\ UNCHANGED <<poolVars, amqpVars, consumeVars, readVars, sent, answerVars,
                   programVars>>

(* Mutant: the result is written by a goroutine that may never run. *)
WriteResultLater(w) ==
    /\ Running
    /\ stage[w] = "result"
    /\ \/ results' = [results EXCEPT ![job[w].task] = @ + 1]
       \/ UNCHANGED results
    /\ stage' = [stage EXCEPT ![w] = "ack"]
    /\ UNCHANGED <<poolVars, amqpVars, consumeVars, readVars, sent, errors,
                   programVars>>

(* Nothing waits for a confirmation: on a dead connection WriteResult may  *)
(* fail or seem to succeed.                                                *)
WriteResult(w) ==
    /\ Running
    /\ stage[w] = "result"
    /\ \/ /\ channel[job[w].conn] = "open"
          /\ results' = [results EXCEPT ![job[w].task] = @ + 1]
          /\ stage' = [stage EXCEPT ![w] = "ack"]
       \/ /\ channel[job[w].conn] # "open"
          /\ \E next \in {"ack", "error"} : stage' = [stage EXCEPT ![w] = next]
          /\ UNCHANGED results
    /\ UNCHANGED <<poolVars, amqpVars, consumeVars, readVars, sent, errors,
                   programVars>>

WriteError(w) ==
    /\ Running
    /\ stage[w] = "error"
    /\ errors' = IF channel[job[w].conn] = "open"
                 THEN errors \cup {job[w].task} ELSE errors
    /\ stage' = [stage EXCEPT ![w] = "nack"]
    /\ UNCHANGED <<poolVars, amqpVars, consumeVars, readVars, sent, results,
                   programVars>>

SettleRequest(w) ==
    /\ Running
    /\ stage[w] \in {"ack", "nack"}
    /\ Settle(delivery[job[w].conn][job[w].resource])
    /\ stage' = [stage EXCEPT ![w] = "idle"]
    /\ Finish(w)
    /\ UNCHANGED <<consumeVars, readVars, sent, answerVars, programVars>>

----------------------------------------------------------------------------
(* main.go *)

(* run() adds one worker after another before anything else. *)
AddWorker(w) ==
    /\ Running
    /\ \/ /\ main = "add"
          /\ \A v \in Workers : pc[v] # "adding"
          /\ AddCheck(w)
       \/ AddStart(w)
    /\ UNCHANGED <<amqpVars, consumeVars, readVars, stage, sent, answerVars,
                   programVars>>

(* abortOnSignal: reader.Close(), then workerPool.Abort(). *)
AbortOnSignal ==
    /\ main = "add"
    /\ \A w \in Workers : pc[w] \notin {"new", "adding"}
    /\ main' = "read"
    /\ UNCHANGED <<poolVars, amqpVars, consumeVars, readVars, stage, sent,
                   answerVars, signal, faults>>

Signal ==
    /\ main \in {"read", "doall", "serve"}
    /\ signal = "none"
    /\ signal' = "received"
    /\ aborter' = TRUE
    /\ UNCHANGED <<poolVars, amqpVars, consumeVars, read, maintain, conn, stage,
                   sent, answerVars, main, faults>>

SignalAborts ==
    /\ Running
    /\ signal = "received"
    /\ signal' = "aborted"
    /\ Abort
    /\ UNCHANGED <<amqpVars, consumeVars, readVars, stage, sent, answerVars,
                   main, faults>>

StartRead ==
    /\ main = "read"
    /\ main' = "doall"
    /\ maintain' = "dial"
    /\ UNCHANGED <<poolVars, amqpVars, consumeVars, read, conn, aborter, stage,
                   sent, answerVars, signal, faults>>

StartDoAll ==
    /\ main = "doall"
    /\ main' = "serve"
    /\ DoAll
    /\ UNCHANGED <<amqpVars, consumeVars, readVars, stage, sent, answerVars,
                   signal, faults>>

Exit ==
    /\ main = "serve"
    /\ doAll = "returned"
    /\ End("exited")

(* The program may be killed at any time. *)
Killed == Running /\ End("exited")

PoolStep ==
    /\ Running
    /\ \/ \E w \in Workers : Get(w) \/ CheckCanceler(w) \/ SelectStop(w)
       \/ DoAllFirst
       \/ DoAllReturn
    /\ UNCHANGED <<amqpVars, consumeVars, readVars, stage, sent, answerVars,
                   programVars>>

----------------------------------------------------------------------------
ReaderStep ==
    \/ Dial \/ DialAborted \/ SubscribeFails \/ ReadReturns
    \/ Reconnect \/ AbortWatch \/ AbortDrained
    \/ \E r \in Resources : Subscribe(r)

ConsumerStep(c, r) ==
    Receive(c, r) \/ Put(c, r) \/ PutPanics(c, r) \/ ConsumerDone(c, r)

DoStep(w) ==
    Begin(w) \/ RunTask(w) \/ WriteResult(w) \/ WriteError(w) \/ SettleRequest(w)

MainStep ==
    AbortOnSignal \/ SignalAborts \/ StartRead \/ StartDoAll \/ Exit
        \/ \E w \in Workers : AddWorker(w)

Next ==
    \/ \E t \in Tasks, r \in Resources : Publish(t, r)
    \/ \E c \in Conns, r \in Resources, t \in Tasks : Deliver(c, r, t)
    \/ \E c \in Conns : ConnectionLost(c)
    \/ ReaderStep
    \/ \E c \in Conns, r \in Resources : ConsumerStep(c, r)
    \/ \E w \in Workers : DoStep(w)
    \/ PoolStep
    \/ MainStep
    \/ Signal
    \/ Killed

Spec == Init /\ [][Next]_vars

(* RabbitMQ delivers what it can, the Go scheduler runs every goroutine     *)
(* that can run, and every task's program ends.  Nobody has to send tasks   *)
(* or signals, and connections need not be lost.                            *)
Fairness ==
    /\ \A c \in Conns, r \in Resources, t \in Tasks : WF_vars(Deliver(c, r, t))
    /\ WF_vars(ReaderStep)
    /\ \A c \in Conns, r \in Resources : WF_vars(ConsumerStep(c, r))
    /\ \A w \in Workers : WF_vars(DoStep(w))
    /\ WF_vars(PoolStep)
    /\ WF_vars(MainStep)

FairSpec == Spec /\ Fairness

----------------------------------------------------------------------------
(* Properties *)

AmqpTypes ==
    /\ queue \in [Resources -> SUBSET Tasks]
    /\ unacked \subseteq Deliveries
    /\ channel \in [Conns -> {"none", "open", "closed"}]

ConsumeTypes ==
    /\ deliveries \in [Conns -> [Resources -> Seq(Deliveries)]]
    /\ delivery \in [Conns -> [Resources -> Deliveries \cup {NoDelivery}]]
    /\ consumer \in [Conns -> [Resources -> ConsumerStates]]

ReadTypes ==
    /\ read \in ReadStates
    /\ maintain \in MaintainStates
    /\ conn \in 0..MaxConns
    /\ aborter \in BOOLEAN

WorkTypes ==
    /\ stage \in [Workers -> Stages]
    /\ sent \subseteq Tasks
    /\ results \in [Tasks -> Nat]
    /\ errors \subseteq Tasks

ProgramTypes ==
    /\ main \in MainStates
    /\ signal \in {"none", "received", "aborted"}
    /\ faults \in 0..MaxFaults

TypeOK ==
    PoolTypeOK /\ AmqpTypes /\ ConsumeTypes /\ ReadTypes /\ WorkTypes
        /\ ProgramTypes

Answered(t) == results[t] > 0 \/ t \in errors
InRabbit(t) == \/ \E r \in Resources : t \in queue[r]
               \/ \E d \in unacked : d.task = t

(* No task is lost: whatever connections break and whenever the program     *)
(* ends, a task sent is still in RabbitMQ unless its client has been        *)
(* answered.  Acknowledging the wrong delivery, or acknowledging before     *)
(* the answer is written, would break it.                                   *)
NothingLost == \A t \in sent : InRabbit(t) \/ Answered(t)

(* With one job the program processes tasks at least once: RabbitMQ gives up *)
(* a task only when its client has been answered, and a client hears no more *)
(* of a task once that has happened. (request_reader.go:90, worker.go:67)    *)
Delivery == INSTANCE TaskDelivery WITH held <- {t \in Tasks : InRabbit(t)}
ImplementsDelivery == Delivery!Spec

(* Why it holds.  No channel is used before it is opened... *)
Of(d, c, r) == d \in Deliveries /\ d.conn = c /\ d.resource = r

Undialled == \A c \in Conns : c > conn => channel[c] = "none"

Unopened ==
    \A c \in Conns, r \in Resources :
        channel[c] = "none" => consumer[c][r] = "none" /\ deliveries[c][r] = <<>>

(* ...only open channels have something unacknowledged...                   *)
UnackedOpen == \A d \in unacked : channel[d.conn] = "open"

(* ...a consumer handles its own deliveries only...                         *)
ConsumersOwn ==
    \A c \in Conns, r \in Resources :
        /\ delivery[c][r] # NoDelivery => Of(delivery[c][r], c, r)
        /\ consumer[c][r] = "put" => delivery[c][r] # NoDelivery
        /\ \A i \in 1..Len(deliveries[c][r]) : Of(deliveries[c][r][i], c, r)

(* ...every request was received, so its loop variable is set...            *)
Received(d) ==
    channel[d.conn] # "none" /\ delivery[d.conn][d.resource] # NoDelivery

RequestsReceived ==
    /\ \A i \in 1..Len(requests) : Received(requests[i])
    /\ \A w \in Workers : stage[w] # "idle" => Received(job[w])

(* ...and a worker's request and stage go together.                         *)
WorkersFollow ==
    \A w \in Workers : /\ stage[w] # "idle" <=> pc[w] = "do"
                       /\ stage[w] # "idle" <=> job[w] \in Deliveries

BrokerInv ==
    /\ TypeOK /\ PoolInv
    /\ Undialled /\ Unopened /\ UnackedOpen /\ ConsumersOwn
    /\ RequestsReceived /\ WorkersFollow

(* With one job a delivery of an open channel is in one place at most: the  *)
(* library, its consumer's hand, r.tasks or a worker...                     *)
InLibrary(c, r) == deliveries[c][r] # <<>>
InHand(c, r) == consumer[c][r] = "put"
InTasks(c, r) == requests # <<>> /\ Of(Head(requests), c, r)

OnePlace(c, r) ==
    /\ InLibrary(c, r) => ~InHand(c, r) /\ ~InTasks(c, r)
    /\ InHand(c, r) => ~InTasks(c, r)
    /\ \A w \in Workers : Of(job[w], c, r) =>
         /\ ~InLibrary(c, r) /\ ~InHand(c, r) /\ ~InTasks(c, r)
         /\ \A v \in Workers : Of(job[v], c, r) => v = w

(* ...so that it is still what the loop variable holds, and still           *)
(* unacknowledged, when it is settled.                                      *)
Unsettled(c, r) ==
    /\ \A d, e \in unacked : Of(d, c, r) /\ Of(e, c, r) => d = e
    /\ InLibrary(c, r) =>
         Len(deliveries[c][r]) = 1 /\ Head(deliveries[c][r]) \in unacked
    /\ InHand(c, r) => delivery[c][r] \in unacked
    /\ InTasks(c, r) =>
         Head(requests) = delivery[c][r] /\ Head(requests) \in unacked
    /\ \A w \in Workers : Of(job[w], c, r) =>
         job[w] = delivery[c][r] /\ job[w] \in unacked

OpenIsKept ==
    /\ Len(requests) <= 1
    /\ \A c \in Conns, r \in Resources :
         channel[c] = "open" => OnePlace(c, r) /\ Unsettled(c, r)

AnsweredBeforeSettled ==
    \A w \in Workers :
        stage[w] \in {"ack", "nack"} /\ channel[job[w].conn] = "open"
            => Answered(job[w].task)

OneJobInv ==
    BrokerInv /\ OpenIsKept /\ AnsweredBeforeSettled /\ NothingLost

(* The program panics, sending on the closed channel of requests, only if   *)
(* the reader function returned early, with one of its consumers running    *)
(* and another never started; and the panic WorkerPool.tla shows in DoAll   *)
(* does not happen here. (request_reader.go:66, :125, worker_pool.go:116)   *)
PanicOnlyWhenHalfSubscribed ==
    /\ main = "panicked" =>
         \E c \in Conns : /\ \E r \in Resources : consumer[c][r] = "put"
                         /\ \E r \in Resources : consumer[c][r] = "none"
    /\ doAll # "panicked"

(* Why it holds.  r.tasks is closed only when no reader function runs...    *)
NoReader ==
    /\ closed => maintain = "stopped"
    /\ maintain \in {"none", "dial", "stopped"} => read \in {"none", "returned"}
    /\ read = "none" <=> conn = 0
    /\ main \in {"add", "read"} => maintain = "none"

(* ...and one that is over leaves no consumer, or had not started them all. *)
LeftBehind(c) == \/ \A r \in Resources : consumer[c][r] = "done"
                 \/ \E r \in Resources : consumer[c][r] = "none"
ReadersLeave ==
    /\ read = "subscribe" => \E r \in Resources : consumer[conn][r] = "none"
    /\ \A c \in Conns :
         c < conn \/ (c = conn /\ read = "returned") => LeftBehind(c)

(* DoAll returns only when the program was told to end, and by then every   *)
(* request a worker had taken is settled: run() removes the directories the *)
(* workers run their tasks in as soon as it returns. (main.go:56, :70)      *)
ShutdownInOrder ==
    /\ PoolIsOver
    /\ doAll = "returned" =>
         signal # "none" /\ \A w \in Workers : stage[w] = "idle"

(* Why it holds.  The pool is over when it is canceled or its channel is    *)
(* closed, and both come from a signal.                                     *)
ToldToEnd ==
    /\ aborter \/ canceler => signal # "none"
    /\ closed \/ maintain \in {"drain", "stopped"} => aborter

(* ...and DoAll is called when every worker has been added, so that nobody   *)
(* comes between the last Done() and its return from Wait().                *)
AllAdded ==
    /\ main \in {"read", "doall", "serve"} \/ doAll # "idle" =>
         \A w \in Workers : pc[w] \notin {"new", "adding"}
    /\ doAll # "idle" => main \notin {"add", "read", "doall"}
    /\ doAll = "woken" => workersWaitGroup = {}

(* A signal ends the program, whatever the reader and the consumers wait    *)
(* for at that moment.                                                      *)
SignalEnds == signal # "none" ~> ~Running

(* Every task sent is answered, across lost connections, unless the program *)
(* is told to end.                                                          *)
Served == \A t \in Tasks :
    t \in sent ~> (Answered(t) \/ signal # "none" \/ ~Running)

(* What the API says (client.md:52): a result is received exactly once.     *)
ResultOnce == \A t \in Tasks : results[t] <= 1

=============================================================================
