---------------------------- MODULE BrokerClient ----------------------------
(***************************************************************************)
(* The .NET client of the broker: a sender and a listener, each with a     *)
(* Connection that is made when it is first used and again when it is      *)
(* lost.  What the listener gets is handled by items of the thread pool.   *)
(* While the broker is unreachable a thread keeps the Lock and tries       *)
(* again: the step Connect is the attempt that succeeds.                   *)
(*                                                                         *)
(* The queues of results and errors are durable and acknowledged.  That of *)
(* statuses is not: RabbitMQ deletes it when the last of its consumers is  *)
(* gone, and forgets a status as soon as it has put it on the wire.        *)
(***************************************************************************)
EXTENDS Naturals, FiniteSets

CONSTANTS
  Answers,         \* what a service may answer
  QueueOf,         \* per answer: the place of its queue in rebind()
  Invalid,         \* the answers that cannot be deserialized
  MaxAnswers,      \* bound: answers that are sent
  MaxLosses,       \* bound: connections and channels lost
  MaxSends,        \* bound: calls of Send()
  MaxReconnects,   \* bound: items that wait to reconnect; more only find it done
  Nobody_, NotSent, Queued, Gone, Lost

ASSUME ClientBounds ==
  /\ MaxLosses \in Nat /\ MaxSends \in Nat /\ MaxReconnects \in Nat
  /\ MaxAnswers \in Nat
  /\ Invalid \subseteq Answers
ASSUME AnswersAssumption ==
  /\ {NotSent, Queued, Gone, Lost} \cap Nat = {}
  /\ {NotSent, Queued} \cap {Gone, Lost} = {} /\ Gone # Lost

Clients == {"sender", "listener"}
Queues == {1, 2, 3}    \* of statuses, results and errors
IsStatus(a) == QueueOf[a] = 1
IsResult(a) == QueueOf[a] = 2

VARIABLES
  running, connection, channel,   \* per client: of its Connection
  Lock,               \* per client: the thread that holds its Connection's Lock
  binding,            \* whether who holds the listener's Lock is in rebind()
  at_,                \* per thread
  listen_channel,     \* the channel Listen() has got
  bound,              \* how many consumers the listener's channel has
  reconnects,         \* items that are to call Reconnect()
  crashed,            \* an item has thrown, which ends the process
  answers,            \* per answer: where it is; a number: on the way by that channel
  items,              \* items that handle answers
  handled, reported,  \* history: calls of each answer's callback, and of error_callback
  losses, sends

connectionVars == <<running, connection, channel, Lock, binding, at_,
                    listen_channel, bound, reconnects, crashed, losses, sends>>
itemVars == <<items, handled, reported>>
clientVars == <<connectionVars, answers, itemVars>>

ThreadOf(c) == IF c = "sender" THEN {"send", "close_sender"}
               ELSE {"listen", "pool", "close_listener"}
ClientThreads == ThreadOf("sender") \cup ThreadOf("listener")
ASSUME NobodyAssumption == Nobody_ \notin ClientThreads

ClientInit ==
  /\ running = [c \in Clients |-> TRUE] /\ connection = [c \in Clients |-> "none"]
  /\ channel = [c \in Clients |-> 0] /\ Lock = [c \in Clients |-> Nobody_]
  /\ binding = FALSE /\ at_ = [t \in ClientThreads |-> "idle"]
  /\ listen_channel = 0 /\ bound = 0 /\ reconnects = 0 /\ crashed = FALSE
  /\ answers = [a \in Answers |-> NotSent] /\ items = {}
  /\ handled = [a \in Answers |-> 0] /\ reported = [a \in Answers |-> FALSE]
  /\ losses = 0 /\ sends = 0

(* IConnection.IsOpen, which is all that reconnect() asks, and whether the   *)
(* channel can be used: "shut" is an open connection whose channel is        *)
(* closed, and "deaf" the same when it is lost, of which no consumer tells.  *)
IsOpen(c) == connection[c] \in {"open", "shut"}
ChannelOpen(c) == connection[c] = "open"
Go(t, from, to) == at_[t] = from /\ at_' = [at_ EXCEPT ![t] = to]

(* What becomes of an answer when the listener's consumers go. *)
Returned(a) ==
  CASE IsStatus(a) /\ (answers[a] = channel["listener"]
                        \/ (answers[a] = Queued /\ bound > 0)) -> Lost
    [] ~IsStatus(a) /\ answers[a] = channel["listener"] -> Queued
    [] OTHER -> answers[a]

(* Mutant of Ends: HandleModelShutdown() is not overridden. *)
EndsUnheard(c, how) ==
  /\ connection' = [connection EXCEPT ![c] = how]
  /\ IF c = "listener"
     THEN bound' = 0 /\ answers' = [a \in Answers |-> Returned(a)]
     ELSE UNCHANGED <<bound, answers>>
  /\ UNCHANGED reconnects

(* A connection, or its channel, ends: every consumer queues an item that    *)
(* reconnects, and RabbitMQ queues again what is unacknowledged.             *)
Ends(c, how) ==
  /\ connection' = [connection EXCEPT ![c] = how]
  /\ IF c = "listener"
     THEN /\ reconnects' = IF reconnects + bound > MaxReconnects THEN MaxReconnects
                          ELSE reconnects + bound
          /\ bound' = 0
          /\ answers' = [a \in Answers |-> Returned(a)]
     ELSE UNCHANGED <<reconnects, bound, answers>>

LoseConnection(c) ==
  /\ losses < MaxLosses /\ losses' = losses + 1
  /\ \/ ChannelOpen(c) /\ (Ends(c, "lost") \/ Ends(c, "shut"))
     \/ connection[c] = "shut" /\ Ends(c, "deaf")
  /\ UNCHANGED <<running, channel, Lock, binding, at_, listen_channel, crashed,
                 sends, itemVars>>

----------------------------------------------------------------------------
(* Connection *)

(* Channel and Reconnect(): each thread that comes for them. *)
Comes(c, t) ==
  \/ t = "pool" /\ c = "listener" /\ at_[t] = "idle" /\ reconnects > 0
  \/ t = "listen" /\ c = "listener" /\ at_[t] = "channel"
  \/ t = "send" /\ c = "sender" /\ at_[t] \in {"properties", "channel"}

Enter(c, t) ==
  /\ Comes(c, t) /\ Lock[c] = Nobody_
  /\ Lock' = [Lock EXCEPT ![c] = t]
  /\ reconnects' = IF t = "pool" THEN reconnects - 1 ELSE reconnects
  /\ UNCHANGED <<running, connection, channel, binding, at_, listen_channel,
                 bound, crashed, losses, sends, answers, itemVars>>

MustConnect(c) == running[c] /\ ~IsOpen(c)

(* connect(): OnConnect has the listener rebind to the new channel. *)
Connect(c) ==
  /\ Lock[c] # Nobody_ /\ ~binding /\ MustConnect(c)
  /\ connection' = [connection EXCEPT ![c] = "open"]
  /\ channel' = [channel EXCEPT ![c] = @ + 1]
  /\ binding' = (c = "listener")
  /\ UNCHANGED <<running, Lock, at_, listen_channel, bound, reconnects, crashed,
                 losses, sends, answers, itemVars>>

Rebind ==
  /\ binding /\ ChannelOpen("listener")
  /\ bound' = bound + 1 /\ binding' = (bound' < Cardinality(Queues))
  /\ UNCHANGED <<running, connection, channel, Lock, at_, listen_channel,
                 reconnects, crashed, losses, sends, answers, itemVars>>

(* rebind() throws if its channel is closed, which Listen()'s caller gets,  *)
(* but nobody does if an item was reconnecting.                              *)
RebindThrows(t) ==
  /\ binding /\ Lock["listener"] = t /\ ~ChannelOpen("listener")
  /\ binding' = FALSE /\ Lock' = [Lock EXCEPT !["listener"] = Nobody_]
  /\ crashed' = (t = "pool")
  /\ at_' = [at_ EXCEPT ![t] = "threw"]
  /\ UNCHANGED <<running, connection, channel, listen_channel, bound, reconnects,
                 losses, sends, answers, itemVars>>

AfterLeaving(t) ==
  CASE t = "pool" -> "idle"
    [] t = "listen" -> IF channel["listener"] = 0 THEN "threw" ELSE "rebind"
    [] t = "send" /\ at_[t] = "properties" ->
         IF channel["sender"] = 0 THEN "threw" ELSE "check"
    [] OTHER -> "publish"

Leave(c, t) ==
  /\ Lock[c] = t /\ ~MustConnect(c) /\ (c = "listener" => ~binding)
  /\ Lock' = [Lock EXCEPT ![c] = Nobody_]
  /\ at_' = [at_ EXCEPT ![t] = AfterLeaving(t)]
  /\ listen_channel' = IF t = "listen" THEN channel[c] ELSE listen_channel
  /\ UNCHANGED <<running, connection, channel, binding, bound, reconnects, crashed,
                 losses, sends, answers, itemVars>>

Close(c) ==
  /\ Lock[c] = Nobody_
  /\ Go(IF c = "sender" THEN "close_sender" ELSE "close_listener", "idle", "done")
  /\ running' = [running EXCEPT ![c] = FALSE]
  /\ IF IsOpen(c) THEN Ends(c, "closed")
     ELSE UNCHANGED <<connection, bound, reconnects, answers>>
  /\ UNCHANGED <<channel, Lock, binding, listen_channel, crashed, losses, sends, itemVars>>

----------------------------------------------------------------------------
(* ClientListener and ClientSender *)

(* Listen(): the channel, which its connection has rebound, is rebound. *)
Listen ==
  /\ Go("listen", "idle", "channel")
  /\ UNCHANGED <<running, connection, channel, Lock, binding, listen_channel, bound,
                 reconnects, crashed, losses, sends, answers, itemVars>>

ListenRebinds ==
  /\ at_["listen"] = "rebind"
  /\ IF ChannelOpen("listener") /\ channel["listener"] = listen_channel
     THEN /\ bound' = bound + 1
          /\ at_' = IF bound' < 2 * Cardinality(Queues) THEN at_
                    ELSE [at_ EXCEPT !["listen"] = "done"]
     ELSE at_' = [at_ EXCEPT !["listen"] = "threw"] /\ UNCHANGED bound
  /\ UNCHANGED <<running, connection, channel, Lock, binding, listen_channel,
                 reconnects, crashed, losses, sends, answers, itemVars>>

SendTask ==
  /\ sends < MaxSends /\ sends' = sends + 1
  /\ Go("send", "idle", "properties")
  /\ UNCHANGED <<running, connection, channel, Lock, binding, listen_channel, bound,
                 reconnects, crashed, losses, answers, itemVars>>

(* IsClosed, and BasicPublish(), which throws AlreadyClosedException to be   *)
(* tried again.                                                              *)
SendStep ==
  /\ \/ /\ Lock["sender"] = Nobody_
        /\ Go("send", "check", IF running["sender"] THEN "channel" ELSE "threw")
     \/ Go("send", "publish", IF ChannelOpen("sender") THEN "idle" ELSE "properties")
  /\ UNCHANGED <<running, connection, channel, Lock, binding, listen_channel, bound,
                 reconnects, crashed, losses, sends, answers, itemVars>>

(* A service answers.  Without a queue a status is dropped; one that no      *)
(* consumer has had yet may be left by a rebind() that failed.               *)
Answer(a) ==
  /\ answers[a] = NotSent
  /\ Cardinality({b \in Answers : answers[b] # NotSent}) < MaxAnswers
  /\ \E place \in {Queued} \cup (IF IsStatus(a) /\ bound = 0 THEN {Lost} ELSE {}) :
       answers' = [answers EXCEPT ![a] = place]
  /\ UNCHANGED <<connectionVars, itemVars>>

(* HandleBasicDeliver(): statuses need no acknowledgement, and may be lost   *)
(* before they arrive.                                                       *)
NewItem(a) == [answer |-> a, channel |-> channel["listener"], at |-> "call"]
Deliver(a) ==
  /\ answers[a] = Queued /\ ChannelOpen("listener") /\ bound >= QueueOf[a]
  /\ answers' = [answers EXCEPT ![a] = channel["listener"]]
  /\ items' = IF IsStatus(a) THEN items ELSE items \cup {NewItem(a)}
  /\ UNCHANGED <<connectionVars, handled, reported>>

StatusArrives(a) ==
  /\ IsStatus(a) /\ answers[a] = channel["listener"] /\ ChannelOpen("listener")
  /\ answers' = [answers EXCEPT ![a] = Gone]
  /\ items' = items \cup {NewItem(a)}
  /\ UNCHANGED <<connectionVars, handled, reported>>

Next_(i, to) ==
  items' = (items \ {i}) \cup (IF to = "" THEN {} ELSE {[i EXCEPT !.at = to]})

(* The callback of a message, which may throw. *)
Failed(a) == IF IsResult(a) THEN "nack" ELSE "error"
CallMessage(i) ==
  /\ i.at = "call"
  /\ IF i.answer \in Invalid
     THEN Next_(i, Failed(i.answer)) /\ UNCHANGED handled
     ELSE /\ handled' = [handled EXCEPT ![i.answer] = @ + 1]
          /\ \/ Next_(i, IF IsStatus(i.answer) THEN "" ELSE "ack")
             \/ Next_(i, Failed(i.answer))
  /\ UNCHANGED <<connectionVars, answers, reported>>

(* Mutant of Settle: a result is acknowledged before its callback. *)
SettleFirst(i) ==
  /\ i.at \in {"call", "ack", "nack"}
  /\ IF ChannelOpen("listener") /\ channel["listener"] = i.channel
     THEN /\ answers' = [answers EXCEPT ![i.answer] = Gone]
          /\ Next_(i, CASE i.at = "ack" -> "" [] OTHER -> "error")
     ELSE Next_(i, "error") /\ UNCHANGED answers
  /\ UNCHANGED <<connectionVars, handled, reported>>

(* BasicAck(), and BasicNack() without requeue, on the channel that the      *)
(* answer has come by, which throw if it has ended.                          *)
Settle(i) ==
  /\ i.at \in {"ack", "nack"}
  /\ IF ChannelOpen("listener") /\ channel["listener"] = i.channel
     THEN /\ answers' = [answers EXCEPT ![i.answer] = Gone]
          /\ Next_(i, IF i.at = "ack" THEN "" ELSE "error")
     ELSE Next_(i, "error") /\ UNCHANGED answers
  /\ UNCHANGED <<connectionVars, handled, reported>>

(* error_callback, whose exceptions are ignored. *)
CallError(i) ==
  /\ i.at = "error"
  /\ Next_(i, "") /\ reported' = [reported EXCEPT ![i.answer] = TRUE]
  /\ UNCHANGED <<connectionVars, answers, handled>>

----------------------------------------------------------------------------

ThreadStep(c, t) == Enter(c, t) \/ (Lock[c] = t /\ Connect(c)) \/ Leave(c, t)
Item(a) == \E i \in items : i.answer = a /\ (CallMessage(i) \/ Settle(i) \/ CallError(i))

Handling(a) == Deliver(a) \/ StatusArrives(a) \/ Item(a)

Connection_(c) ==
  LoseConnection(c) \/ Close(c) \/ \E t \in ThreadOf(c) : ThreadStep(c, t)
SenderNext == ~crashed /\ (Connection_("sender") \/ SendTask \/ SendStep)
ListenerNext ==
  /\ ~crashed
  /\ \/ Connection_("listener")
     \/ Rebind \/ RebindThrows("listen") \/ RebindThrows("pool")
     \/ Listen \/ ListenRebinds
     \/ \E a \in Answers : Answer(a) \/ Handling(a)
ClientNext == SenderNext \/ ListenerNext

(* The thread pool and the callers' threads run, callbacks return, RabbitMQ  *)
(* delivers, and it is reachable again some time after a connection is lost. *)
(* Services need not answer.                                                 *)
ClientFairness ==
  /\ \A c \in Clients : WF_clientVars(~crashed /\ \E t \in ThreadOf(c) : ThreadStep(c, t))
  /\ WF_clientVars(~crashed /\ (Rebind \/ RebindThrows("listen") \/ RebindThrows("pool")))
  /\ WF_clientVars(~crashed /\ (ListenRebinds \/ SendStep))
  /\ WF_clientVars(~crashed /\ \E a \in Answers : Handling(a))

ClientSpec == ClientInit /\ [][ClientNext]_clientVars /\ ClientFairness

----------------------------------------------------------------------------
(* Properties *)

ClientTypeOK ==
  /\ running \in [Clients -> BOOLEAN]
  /\ connection \in [Clients -> {"none", "open", "shut", "deaf", "lost", "closed"}]
  /\ channel \in [Clients -> 0..(MaxLosses + 1)]
  /\ \A c \in Clients : Lock[c] \in ThreadOf(c) \cup {Nobody_}
  /\ binding \in BOOLEAN /\ crashed \in BOOLEAN
  /\ bound \in 0..(2 * Cardinality(Queues)) /\ reconnects \in 0..MaxReconnects
  /\ \A a \in Answers : answers[a] \in {NotSent, Queued, Gone, Lost} \cup (1..channel["listener"])
  /\ \A i \in items : i.answer \in Answers /\ i.at \in {"call", "ack", "nack", "error"}
  /\ losses \in 0..MaxLosses /\ sends \in 0..MaxSends

(* A result or an error leaves RabbitMQ only once its callback was called,   *)
(* or, if it cannot be read, error_callback is to be; however connections    *)
(* are lost, it is handled again only after a loss, and a status never; and  *)
(* what was closed stays closed, whoever is reconnecting.                    *)
(* (ClientListener.cs:117, ClientListener.cs:183, Connection.cs:77)          *)
AnswersKept ==
  /\ \A a \in Answers : answers[a] = Gone /\ ~IsStatus(a) =>
       IF a \in Invalid
       THEN reported[a] \/ \E i \in items : i.answer = a /\ i.at = "error"
       ELSE handled[a] > 0
  /\ \A a \in Answers : handled[a] <= IF IsStatus(a) THEN 1 ELSE 1 + losses
  /\ \A a \in Answers : ~IsStatus(a) => answers[a] # Lost
  /\ at_["close_sender"] = "done" => ~IsOpen("sender")
  /\ at_["close_listener"] = "done" => ~IsOpen("listener")

(* A client that is closed, or whose channel was closed without its          *)
(* connection: no thread replaces it as long as the connection lives, and    *)
(* none is told when it ends.                                                *)
Stopped(c) == ~running[c] \/ connection[c] \in {"shut", "deaf"} \/ crashed

(* An answer that is due; a status is not any more once it may be lost.      *)
Unheard(a) ==
  /\ answers[a] # NotSent /\ handled[a] = 0 /\ ~reported[a]
  /\ IsStatus(a) => answers[a] # Lost /\ losses = 0

(* Send() and Listen() return, and a listener that is neither closed nor     *)
(* deaf handles every result and error, across lost connections, and every   *)
(* status as long as no connection is lost.                                  *)
(* (ClientSender.cs:33, ClientListener.cs:77, ClientListener.cs:171)         *)
ClientsAnswer ==
  /\ at_["listen"] # "idle" ~> at_["listen"] \in {"done", "threw"} \/ crashed
  /\ at_["send"] # "idle" ~> at_["send"] \in {"idle", "threw"} \/ Stopped("sender")
  /\ at_["listen"] = "done" /\ (\E a \in Answers : Unheard(a))
       ~> (\A a \in Answers : ~Unheard(a)) \/ Stopped("listener")

=============================================================================
