---------------------------- MODULE QueuedWriter ----------------------------
(***************************************************************************)
(* bunsan::asio: a queued_writer on a framed connection, and the peer that *)
(* reads from it.                                                          *)
(*                                                                         *)
(* write, close and terminate may be called by any thread; each posts a    *)
(* handler to the writer's strand, which runs them one at a time, in       *)
(* order, and completions of writes among them.  One write is under way at *)
(* a time, since the connections have one outgoing buffer each.  A frame   *)
(* is written and read in two parts, a header and data (block_connection)  *)
(* or a line and its delimiter (line_connection), between which anything   *)
(* may happen.                                                             *)
(***************************************************************************)
EXTENDS Naturals, Sequences

CONSTANTS
  Messages,
  Unwritable,     \* messages that contain the delimiter of lines
  MaxErrors       \* bound on errors of the socket

ASSUME UnwritableAssumption == Unwritable \subseteq Messages
ASSUME MaxErrorsAssumption == MaxErrors \in Nat

VARIABLES
  framing,       \* "block" or "line"
  strand,        \* handlers posted to m_strand
  m_queue, m_last,
  part,          \* of m_queue's front: the part to write next, or "sent" ...
  open,          \* m_connection has not been closed
  wire,          \* parts on their way to the peer
  m_inbound,     \* parts the peer has read and not yet made a message of
  received,      \* messages that the peer has got, in order
  pushed,        \* history: messages that the strand has put into the queue
  errors,        \* failed writes so far
  asked          \* history: what has been called, "write" aside

writerVars == <<framing, strand, m_queue, m_last, part, open, wire, m_inbound,
                received, pushed, errors, asked>>

Handlers == {<<"push", m>> : m \in Messages}
              \cup {<<"close">>, <<"terminate">>, <<"written">>, <<"failed">>}

WriterInit ==
  /\ framing \in {"block", "line"}
  /\ strand = <<>> /\ m_queue = <<>> /\ m_last = FALSE
  /\ part = "idle" /\ open = TRUE
  /\ wire = <<>> /\ m_inbound = <<>> /\ received = <<>>
  /\ pushed = <<>> /\ errors = 0 /\ asked = {}

Post(h) == strand' = Append(strand, h)

----------------------------------------------------------------------------
(* Calls, each message being written once *)

Write(m) ==
  /\ <<"push", m>> \notin asked
  /\ asked' = asked \cup {<<"push", m>>}
  /\ Post(<<"push", m>>)
  /\ UNCHANGED <<framing, m_queue, m_last, part, open, wire, m_inbound, received,
                 pushed, errors>>

CloseWriter(h) ==
  /\ h \in {<<"close">>, <<"terminate">>} /\ h \notin asked
  /\ asked' = asked \cup {h}
  /\ Post(h)
  /\ UNCHANGED <<framing, m_queue, m_last, part, open, wire, m_inbound, received,
                 pushed, errors>>

----------------------------------------------------------------------------
(* Handlers *)

Next_(h) == strand # <<>> /\ Head(strand) = h

(* async_write of the front: line_connection throws at a delimiter, before   *)
(* it writes anything, and the queue stays as it is.                         *)
spawn_writer(queue) ==
  part' = IF framing = "line" /\ Head(queue) \in Unwritable THEN "threw"
            ELSE "first"

(* Mutant of Push: every message starts a writer. *)
PushSpawns(m) ==
  /\ Next_(<<"push", m>>)
  /\ strand' = Tail(strand)
  /\ pushed' = Append(pushed, m)
  /\ m_queue' = Append(m_queue, m)
  /\ spawn_writer(m_queue')
  /\ UNCHANGED <<framing, m_last, open, wire, m_inbound, received, errors, asked>>

Push(m) ==
  /\ Next_(<<"push", m>>)
  /\ strand' = Tail(strand)
  /\ pushed' = Append(pushed, m)
  /\ m_queue' = Append(m_queue, m)
  /\ IF Len(m_queue') = 1 THEN spawn_writer(m_queue') ELSE UNCHANGED part
  /\ UNCHANGED <<framing, m_last, open, wire, m_inbound, received, errors, asked>>

Close_ ==
  /\ Next_(<<"close">>)
  /\ strand' = Tail(strand)
  /\ m_last' = TRUE
  /\ open' = (open /\ (m_last \/ m_queue # <<>>))
  /\ UNCHANGED <<framing, m_queue, part, wire, m_inbound, received, pushed,
                 errors, asked>>

Terminate_ ==
  /\ Next_(<<"terminate">>)
  /\ strand' = Tail(strand)
  /\ m_last' = TRUE
  /\ open' = FALSE
  /\ UNCHANGED <<framing, m_queue, part, wire, m_inbound, received, pushed,
                 errors, asked>>

(* Mutant of HandleWrite: the last message closes the connection only if it  *)
(* is still in the queue.                                                    *)
HandleWriteForgets ==
  /\ Next_(<<"written">>)
  /\ strand' = Tail(strand)
  /\ m_queue' = Tail(m_queue)
  /\ IF m_queue' = <<>> THEN part' = "idle" ELSE spawn_writer(m_queue')
  /\ UNCHANGED <<framing, m_last, open, wire, m_inbound, received, pushed,
                 errors, asked>>

(* handle_write: the next message, or the end. *)
HandleWrite ==
  /\ Next_(<<"written">>)
  /\ strand' = Tail(strand)
  /\ m_queue' = Tail(m_queue)
  /\ IF m_queue' = <<>>
       THEN part' = "idle" /\ open' = (open /\ ~m_last)
       ELSE spawn_writer(m_queue') /\ UNCHANGED open
  /\ UNCHANGED <<framing, m_last, wire, m_inbound, received, pushed, errors,
                 asked>>

(* After an error nothing is written any more: the message that failed stays *)
(* in front, and close() waits for it for ever.                              *)
HandleError ==
  /\ Next_(<<"failed">>)
  /\ strand' = Tail(strand)
  /\ part' = "failed"
  /\ UNCHANGED <<framing, m_queue, m_last, open, wire, m_inbound, received,
                 pushed, errors, asked>>

----------------------------------------------------------------------------
(* The socket *)

WritePart ==
  /\ part \in {"first", "second"} /\ open
  /\ wire' = Append(wire, <<Head(m_queue), part>>)
  /\ \/ part = "first" /\ part' = "second" /\ UNCHANGED strand
     \/ part = "second" /\ part' = "sent" /\ Post(<<"written">>)
  /\ UNCHANGED <<framing, m_queue, m_last, open, m_inbound, received, pushed,
                 errors, asked>>

(* A write fails because the connection has been closed here, or breaks. *)
WriteFails ==
  /\ part \in {"first", "second"}
  /\ \/ ~open /\ UNCHANGED errors
     \/ open /\ errors < MaxErrors /\ errors' = errors + 1
  /\ part' = "sent"
  /\ Post(<<"failed">>)
  /\ UNCHANGED <<framing, m_queue, m_last, open, wire, m_inbound, received,
                 pushed, asked>>

(* block_connection::async_read: a header, then the data it announces.       *)
ReadBlock ==
  /\ framing = "block" /\ wire # <<>>
  /\ wire' = Tail(wire)
  /\ IF m_inbound = <<>>
       THEN m_inbound' = <<Head(wire)>> /\ UNCHANGED received
       ELSE m_inbound' = <<>> /\ received' = Append(received, m_inbound[1][1])
  /\ UNCHANGED <<framing, strand, m_queue, m_last, part, open, pushed, errors,
                 asked>>

(* line_connection::async_read: whatever is there goes into the buffer, of   *)
(* which the part up to the first delimiter makes a line; the rest stays for *)
(* the next read.                                                            *)
FillLine ==
  /\ framing = "line" /\ wire # <<>>
  /\ m_inbound' = m_inbound \o wire
  /\ wire' = <<>>
  /\ UNCHANGED <<framing, strand, m_queue, m_last, part, open, received, pushed,
                 errors, asked>>

TakeLine ==
  /\ framing = "line" /\ Len(m_inbound) >= 2
  /\ received' = Append(received, m_inbound[1][1])
  /\ m_inbound' = Tail(Tail(m_inbound))
  /\ UNCHANGED <<framing, strand, m_queue, m_last, part, open, wire, pushed,
                 errors, asked>>

StrandStep ==
  \/ \E m \in Messages : Push(m)
  \/ Close_ \/ Terminate_ \/ HandleWrite \/ HandleError
  \/ WritePart \/ WriteFails
  \/ ReadBlock \/ FillLine \/ TakeLine

WriterNext ==
  \/ \E m \in Messages : Write(m)
  \/ \E h \in Handlers : CloseWriter(h)
  \/ StrandStep

WriterSpec == WriterInit /\ [][WriterNext]_writerVars

(* io_service runs, and the peer reads. *)
WriterFairness == WF_writerVars(StrandStep)

----------------------------------------------------------------------------
(* Properties *)

WriterTypeOK ==
  /\ framing \in {"block", "line"}
  /\ strand \in Seq(Handlers)
  /\ {m_queue, received, pushed} \subseteq Seq(Messages)
  /\ {m_last, open} \subseteq BOOLEAN
  /\ part \in {"idle", "first", "second", "sent", "threw", "failed"}
  /\ {wire, m_inbound} \subseteq Seq(Messages \X {"first", "second"})
  /\ errors \in 0..MaxErrors
  /\ asked \subseteq Handlers

Broken == part \in {"threw", "failed"} \/ errors > 0 \/ <<"terminate">> \in asked

(* The peer gets whole messages in the order in which they were queued,      *)
(* whatever closes or breaks the connection, and unless something did, a     *)
(* connection closed with nothing left to read has delivered every message   *)
(* queued before close() was run.                                            *)
(* (queued_writer.hpp:42-83, block_connection.hpp:20-102)                     *)
IsPrefixOf(s, t) == Len(s) <= Len(t) /\ s = SubSeq(t, 1, Len(s))
DeliveredInOrder ==
  /\ IsPrefixOf(received, pushed)
  /\ ~open /\ ~Broken /\ wire = <<>> /\ m_inbound = <<>>
       => received = SubSeq(pushed, 1, Len(pushed) - Len(m_queue))
  /\ m_inbound # <<>> => m_inbound[1][2] = "first"

(* After close() the connection is closed, unless a write has failed or      *)
(* thrown. (queued_writer.hpp:50-55, :72-83)                                 *)
CloseCloses == <<"close">> \in asked ~> ~open \/ Broken

=============================================================================
