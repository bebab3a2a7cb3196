----------------------------- MODULE WorkerPool -----------------------------
(***************************************************************************)
(* The worker pool of the broker's service: workerPool of                  *)
(* go/bunsan/broker/worker/worker_pool.go.  One goroutine per added worker *)
(* takes requests from a Go channel; DoAll returns when all have stopped;  *)
(* Cancel (and Abort, which is Cancel as far as state is concerned) stops  *)
(* them early.  The caller and the other end of the channel are the        *)
(* environment here; Broker.tla supplies the real ones.                    *)
(***************************************************************************)
EXTENDS Naturals, Sequences, FiniteSets

CONSTANTS Workers,    \* the workers that may be added
          Requests,   \* what may be sent on the channel
          Capacity,   \* the channel's buffer
          NoRequest   \* no request is in hand

ASSUME CapacityAssumption == Capacity \in Nat \ {0}
ASSUME NoRequestAssumption == NoRequest \notin Requests

VARIABLES pc,          \* where each worker's goroutine stands in run()
          job,         \* the request its worker is doing
          requests,    \* the buffered channel
          closed,      \* its sender has closed it
          ready,       \* requestsChannelWaiter.requests # nil
          canceler,    \* the canceler channel is closed
          firstWorker, \* the firstWorker channel is closed
          doAll,       \* where the call of DoAll stands
          late         \* history: requests a worker took after Cancel

poolVars ==
    <<pc, job, requests, closed, ready, canceler, firstWorker, doAll, late>>

(* "new": Add not called; "adding": Add has passed its check of canceler;   *)
(* "wait": in requests.Get(); "check" and "select": before the outer and    *)
(* the inner select; "do": in worker.Do; "done": after Done().              *)
WorkerStates == {"new", "adding", "wait", "check", "select", "do", "done"}

(* "first": waiting for firstWorker; "wait": in workersWaitGroup.Wait();    *)
(* "woken": released by the last Done() but not yet running; "panicked":    *)
(* Wait() found the counter in use again when it woke.                      *)
DoAllStates == {"idle", "first", "wait", "woken", "returned", "panicked"}

(* Mutant: the goroutine itself calls workersWaitGroup.Add(1). *)
CountedLate == {w \in Workers : pc[w] \in {"check", "select", "do"}}

(* The workers the counter of workersWaitGroup stands for. *)
workersWaitGroup == {w \in Workers : pc[w] \in {"wait", "check", "select", "do"}}

PoolInit ==
    /\ pc = [w \in Workers |-> "new"]
    /\ job = [w \in Workers |-> NoRequest]
    /\ requests = <<>>
    /\ closed = FALSE
    /\ ready = FALSE
    /\ canceler = FALSE
    /\ firstWorker = FALSE
    /\ doAll = "idle"
    /\ late = [w \in Workers |-> 0]

----------------------------------------------------------------------------
(* The caller's side.  A panic of DoAll ends the process. *)

Alive == doAll # "panicked"

(* Add looks at canceler (after Cancel it panics, which changes nothing)... *)
AddCheck(w) ==
    /\ Alive
    /\ pc[w] = "new"
    /\ ~canceler
    /\ pc' = [pc EXCEPT ![w] = "adding"]
    /\ UNCHANGED <<job, requests, closed, ready, canceler, firstWorker,
                   doAll, late>>

(* ...and then, whatever has happened since, starts the goroutine. *)
AddStart(w) ==
    /\ Alive
    /\ pc[w] = "adding"
    /\ pc' = [pc EXCEPT ![w] = "wait"]
    /\ firstWorker' = TRUE
    /\ UNCHANGED <<job, requests, closed, ready, canceler, doAll, late>>

DoAll ==
    /\ Alive
    /\ doAll = "idle"
    /\ ready' = TRUE
    /\ doAll' = "first"
    /\ UNCHANGED <<pc, job, requests, closed, canceler, firstWorker, late>>

(* Wait() returns at once when the counter is zero. *)
DoAllFirst ==
    /\ doAll = "first"
    /\ firstWorker
    /\ doAll' = IF workersWaitGroup = {} THEN "returned" ELSE "wait"
    /\ UNCHANGED <<pc, job, requests, closed, ready, canceler, firstWorker,
                   late>>

DoAllReturn ==
    /\ doAll = "woken"
    /\ doAll' = IF workersWaitGroup = {} THEN "returned" ELSE "panicked"
    /\ UNCHANGED <<pc, job, requests, closed, ready, canceler, firstWorker,
                   late>>

(* A second Cancel would close a closed channel: callers call it once. *)
Cancel ==
    /\ Alive
    /\ ~canceler
    /\ canceler' = TRUE
    /\ firstWorker' = TRUE
    /\ UNCHANGED <<pc, job, requests, closed, ready, doAll, late>>

(* worker.Abort() changes nothing: it returns ErrCantAbort. *)
Abort == Cancel

----------------------------------------------------------------------------
(* The sender's side of the channel. *)

Send(r) ==
    /\ Alive
    /\ ~closed
    /\ Len(requests) < Capacity
    /\ requests' = Append(requests, r)
    /\ UNCHANGED <<pc, job, closed, ready, canceler, firstWorker, doAll, late>>

Close ==
    /\ Alive
    /\ ~closed
    /\ closed' = TRUE
    /\ UNCHANGED <<pc, job, requests, ready, canceler, firstWorker, doAll,
                   late>>

----------------------------------------------------------------------------
(* run(): the goroutine of worker w. *)

Get(w) ==
    /\ Alive
    /\ pc[w] = "wait"
    /\ ready
    /\ pc' = [pc EXCEPT ![w] = "check"]
    /\ UNCHANGED <<job, requests, closed, ready, canceler, firstWorker,
                   doAll, late>>

(* Mutant: run() ends without Done(). *)
StopUncounted(w) ==
    /\ pc' = [pc EXCEPT ![w] = "done"]
    /\ UNCHANGED <<job, requests, closed, ready, canceler, firstWorker,
                   doAll, late>>

(* The end of run(): Done(), which releases DoAll when it is the last. *)
Stop(w) ==
    /\ pc' = [pc EXCEPT ![w] = "done"]
    /\ doAll' = IF doAll = "wait" /\ workersWaitGroup = {w}
                THEN "woken" ELSE doAll
    /\ UNCHANGED <<job, requests, closed, ready, canceler, firstWorker, late>>

CheckCanceler(w) ==
    /\ Alive
    /\ pc[w] = "check"
    /\ \/ /\ canceler
          /\ Stop(w)
       \/ /\ ~canceler
          /\ pc' = [pc EXCEPT ![w] = "select"]
          /\ UNCHANGED <<job, requests, closed, ready, canceler, firstWorker,
                         doAll, late>>

(* Mutant: the second value of the receive is ignored. *)
TakeAnyway(w) ==
    /\ Alive
    /\ pc[w] = "select"
    /\ requests # <<>> \/ closed
    /\ pc' = [pc EXCEPT ![w] = "do"]
    /\ job' = [job EXCEPT ![w] = IF requests = <<>> THEN "nil"
                                 ELSE Head(requests)]
    /\ requests' = IF requests = <<>> THEN <<>> ELSE Tail(requests)
    /\ UNCHANGED <<closed, ready, canceler, firstWorker, doAll, late>>

(* When the request and the canceler are both ready, select picks any. *)
Take(w) ==
    /\ Alive
    /\ pc[w] = "select"
    /\ requests # <<>>
    /\ pc' = [pc EXCEPT ![w] = "do"]
    /\ job' = [job EXCEPT ![w] = Head(requests)]
    /\ requests' = Tail(requests)
    /\ late' = [late EXCEPT ![w] = @ + (IF canceler THEN 1 ELSE 0)]
    /\ UNCHANGED <<closed, ready, canceler, firstWorker, doAll>>

SelectStop(w) ==
    /\ Alive
    /\ pc[w] = "select"
    /\ canceler \/ (closed /\ requests = <<>>)
    /\ Stop(w)

(* worker.Do returned; its error is only logged. *)
Finish(w) ==
    /\ Alive
    /\ pc[w] = "do"
    /\ pc' = [pc EXCEPT ![w] = "check"]
    /\ job' = [job EXCEPT ![w] = NoRequest]
    /\ UNCHANGED <<requests, closed, ready, canceler, firstWorker, doAll, late>>

WorkerStep(w) ==
    Get(w) \/ CheckCanceler(w) \/ Take(w) \/ SelectStop(w) \/ Finish(w)

PoolNext ==
    \/ \E w \in Workers : AddCheck(w) \/ AddStart(w) \/ WorkerStep(w)
    \/ DoAll \/ DoAllFirst \/ DoAllReturn
    \/ Cancel
    \/ \E r \in Requests : Send(r)
    \/ Close

PoolSpec == PoolInit /\ [][PoolNext]_poolVars

(* The Go scheduler runs every goroutine that can run, worker.Do returns,   *)
(* and the caller of Add and DoAll gets on with the calls it has begun.     *)
PoolFairness ==
    /\ \A w \in Workers : WF_poolVars(WorkerStep(w)) /\ WF_poolVars(AddStart(w))
    /\ WF_poolVars(DoAllFirst \/ DoAllReturn)

PoolFairSpec == PoolSpec /\ PoolFairness

----------------------------------------------------------------------------
(* Properties *)

PoolTypeOK ==
    /\ pc \in [Workers -> WorkerStates]
    /\ job \in [Workers -> Requests \cup {NoRequest}]
    /\ requests \in Seq(Requests)
    /\ closed \in BOOLEAN
    /\ ready \in BOOLEAN
    /\ canceler \in BOOLEAN
    /\ firstWorker \in BOOLEAN
    /\ doAll \in DoAllStates
    /\ late \in [Workers -> Nat]

(* When DoAll has returned, no worker is doing a request, nor will one      *)
(* start: run() of the service program removes the workers' directories as  *)
(* soon as DoAll returns, however late an Add is still under way.           *)
QuietAfterDoAll == doAll = "returned" => \A w \in Workers : pc[w] # "do"

(* DoAll returns early only for a Cancel: otherwise the channel is closed   *)
(* and every request that was in it has been taken by a worker.             *)
DrainedUnlessCanceled ==
    doAll = "returned" /\ ~canceler => closed /\ requests = <<>>

(* "Do not process new requests": after Cancel a worker may still win the   *)
(* race in its inner select, but only once.                                 *)
LateAtMostOnce == \A w \in Workers : late[w] <= 1

(* What the callers of a pool rely on: after DoAll there is neither work nor *)
(* an unfinished request, and Cancel stops the workers.                      *)
(* (worker_pool.go:85, worker_pool.go:116)                                   *)
PoolIsOver == QuietAfterDoAll /\ DrainedUnlessCanceled /\ LateAtMostOnce

(* Why they hold.  A worker stops only for a reason that lasts... *)
Over == canceler \/ (closed /\ requests = <<>>)
StopsForAReason == \A w \in Workers : pc[w] = "done" => Over

(* ...somebody has started before DoAll passes firstWorker, or Cancel was   *)
(* called...                                                                *)
FirstStarted ==
    firstWorker => canceler \/ \E w \in Workers : pc[w] \notin {"new", "adding"}

(* ...so that a worker started after DoAll has returned finds nothing to do. *)
NothingLeft ==
    /\ doAll \in {"woken", "returned"} => Over
    /\ doAll = "returned" =>
         \A w \in Workers : /\ pc[w] # "do"
                            /\ pc[w] = "select" => closed /\ requests = <<>>

(* A worker that has taken a request late has canceler ahead of it.         *)
LateIsLast ==
    \A w \in Workers :
        /\ late[w] \in {0, 1}
        /\ late[w] = 1 => canceler /\ pc[w] \in {"do", "check", "done"}

PoolInv ==
    PoolTypeOK /\ StopsForAReason /\ FirstStarted /\ NothingLeft /\ LateIsLast

(* DoAll returns once Cancel has been called, or once the channel has been  *)
(* closed and some worker was added.                                        *)
DoAllReturns ==
    (doAll # "idle" /\ (canceler \/ (closed /\ firstWorker)))
        ~> doAll \in {"returned", "panicked"}

=============================================================================
