-------------------------- MODULE BufferConnection --------------------------
(***************************************************************************)
(* bunsan::asio::buffer_connection: copies what a source yields into a     *)
(* sink, through a queue of the chunks read and not yet written.           *)
(*                                                                         *)
(* At most one read and one write are under way; their completions and the *)
(* calls of the user run on one strand, one at a time.  Bytes are numbered *)
(* in the order in which the source yields them.                           *)
(***************************************************************************)
EXTENDS Naturals, Sequences

CONSTANTS
  MaxBytes,      \* bound on the bytes of the source
  MaxChunk       \* size of m_inbound_data

ASSUME RelayAssumption == MaxBytes \in Nat /\ MaxChunk \in Nat \ {0}

VARIABLES
  m_close_sink_on_eof, m_discard_on_sink_error,
  source,        \* "data", or how it has ended: "eof", "closed"
  consumed,      \* bytes read so far
  reading,       \* a read is under way
  writing,       \* a write is, and how it found the sink: "open", "closed"
  m_chunks,      \* m_queue
  m_closed, m_terminated, m_source_ok, m_sink_ok,
  sinkOpen,
  relayed,       \* bytes the sink has taken, in order
  endings        \* how often the end has been reported to m_handle_write_data

relayOptions == <<m_close_sink_on_eof, m_discard_on_sink_error>>
relayVars == <<relayOptions, source, consumed, reading, writing, m_chunks,
               m_closed, m_terminated, m_source_ok, m_sink_ok, sinkOpen,
               relayed, endings>>

RelayInit ==
  /\ m_close_sink_on_eof \in BOOLEAN /\ m_discard_on_sink_error \in BOOLEAN
  /\ source = "data" /\ consumed = 0
  /\ reading = FALSE /\ writing = "none"
  /\ m_chunks = <<>>
  /\ m_closed = FALSE /\ m_terminated = FALSE
  /\ m_source_ok = TRUE /\ m_sink_ok = TRUE /\ sinkOpen = TRUE
  /\ relayed = <<>> /\ endings = 0

Bytes(first, last) == [i \in 1..(last - first + 1) |-> first + i - 1]

(* start(), once *)
Start ==
  /\ ~reading /\ consumed = 0 /\ m_source_ok
  /\ ~m_terminated
  /\ reading' = TRUE
  /\ UNCHANGED <<relayOptions, source, consumed, writing, m_chunks, m_closed,
                 m_terminated, m_source_ok, m_sink_ok, sinkOpen, relayed,
                 endings>>

CloseRelay ==
  /\ ~m_closed
  /\ m_closed' = TRUE
  /\ sinkOpen' = (sinkOpen /\ m_chunks # <<>>)
  /\ UNCHANGED <<relayOptions, source, consumed, reading, writing, m_chunks,
                 m_terminated, m_source_ok, m_sink_ok, relayed, endings>>

TerminateRelay ==
  /\ m_closed' = TRUE /\ m_terminated' = TRUE
  /\ source' = "closed" /\ sinkOpen' = FALSE
  /\ UNCHANGED <<relayOptions, consumed, reading, writing, m_chunks,
                 m_source_ok, m_sink_ok, relayed, endings>>

(* With the sink gone the queue is dropped, or left as it is. *)
SpawnWriter(chunks) ==
  LET go == ~m_terminated /\ m_sink_ok' IN
  /\ writing' = IF ~go THEN "none" ELSE IF sinkOpen THEN "open" ELSE "closed"
  /\ m_chunks' = IF ~go /\ ~m_terminated /\ m_discard_on_sink_error THEN <<>>
                 ELSE chunks

(* try_close_sink(), where the queue is empty *)
TryCloseSink ==
  IF m_closed \/ (~m_source_ok' /\ m_close_sink_on_eof)
    THEN sinkOpen' = FALSE /\ endings' = endings + 1
    ELSE UNCHANGED <<sinkOpen, endings>>

(* handle_read of data, or of an error with no data.  An operation that was  *)
(* complete when the source was closed still brings its data.                *)
HandleRead(size) ==
  LET ec == size = 0
      kept == ~ec /\ (m_sink_ok \/ ~m_discard_on_sink_error)
      chunks == Append(m_chunks, Bytes(consumed + 1, consumed + size)) IN
  /\ reading
  /\ IF ec THEN source # "data" \/ consumed = MaxBytes
           ELSE consumed + size <= MaxBytes /\ source # "eof"
  /\ consumed' = consumed + size
  /\ source' = IF ec /\ source = "data" THEN "eof" ELSE source
  /\ UNCHANGED m_sink_ok
  /\ IF kept /\ m_chunks = <<>> THEN SpawnWriter(chunks)
     ELSE /\ m_chunks' = IF kept THEN chunks ELSE m_chunks
          /\ UNCHANGED writing
  /\ m_source_ok' = (m_source_ok /\ ~ec)
  /\ reading' = (~ec /\ ~m_closed /\ ~m_terminated)
  /\ IF m_chunks' = <<>> THEN TryCloseSink ELSE UNCHANGED <<sinkOpen, endings>>
  /\ UNCHANGED <<relayOptions, m_closed, m_terminated, relayed>>

(* handle_write: the front has been written whole, or part of it and then an *)
(* error, after which there is no more writing.                              *)
HandleWritten(size) ==
  LET front == Head(m_chunks)
      ec == size < Len(front) IN
  /\ writing = "open" \/ (writing = "closed" /\ size = 0)
  /\ size <= Len(front)
  /\ relayed' = relayed \o SubSeq(front, 1, size)
  /\ m_sink_ok' = (m_sink_ok /\ ~ec)
  /\ UNCHANGED <<relayOptions, source, consumed, reading, m_closed, m_terminated,
                 m_source_ok>>
  /\ IF ec
       THEN /\ m_chunks' = <<SubSeq(front, size + 1, Len(front))>> \o Tail(m_chunks)
            /\ writing' = "none"
            /\ UNCHANGED <<sinkOpen, endings>>
     ELSE IF Tail(m_chunks) # <<>>
       THEN SpawnWriter(Tail(m_chunks)) /\ UNCHANGED <<sinkOpen, endings>>
       ELSE m_chunks' = <<>> /\ writing' = "none" /\ TryCloseSink

RelayStep ==
  \/ \E size \in 0..MaxChunk : HandleRead(size)
  \/ \E size \in 0..MaxChunk : HandleWritten(size)

RelayNext == Start \/ CloseRelay \/ TerminateRelay \/ RelayStep
RelaySpec == RelayInit /\ [][RelayNext]_relayVars

(* io_service runs, the source yields its bytes and ends, the sink takes. *)
RelayFairness == WF_relayVars(RelayStep)

----------------------------------------------------------------------------
(* Properties *)

RelayTypeOK ==
  /\ {m_close_sink_on_eof, m_discard_on_sink_error, reading, m_closed,
      m_terminated, m_source_ok, m_sink_ok, sinkOpen} \subseteq BOOLEAN
  /\ writing \in {"none", "open", "closed"}
  /\ source \in {"data", "eof", "closed"}
  /\ consumed \in 0..MaxBytes
  /\ m_chunks \in Seq(Seq(1..MaxBytes))
  /\ relayed \in Seq(1..MaxBytes)
  /\ endings \in 0..2

(* The sink gets the bytes of the source in order, from the first on and     *)
(* without a gap, however chunks, errors, close() and terminate() fall; what *)
(* it has not got is in the queue until the sink fails; and when the end has *)
(* been reported and nobody closed the connection, it has got all.           *)
(* (buffer_connection.hpp:99-173)                                           *)
RelayedInOrder ==
  /\ \A i \in 1..Len(relayed) : relayed[i] = i
  /\ m_sink_ok /\ m_chunks # <<>> => m_chunks[1][1] = Len(relayed) + 1
  /\ m_sink_ok /\ m_chunks = <<>> => Len(relayed) = consumed
  /\ endings > 0 /\ ~m_closed => Len(relayed) = consumed /\ ~m_source_ok

(* After the source has ended, or close(), the sink is closed, unless it has *)
(* failed: then the queue never empties and nothing closes the sink.         *)
(* (buffer_connection.hpp:74-79, :168-173)                                   *)
SinkCloses ==
  m_closed \/ (m_close_sink_on_eof /\ ~m_source_ok) ~> ~sinkOpen \/ ~m_sink_ok

=============================================================================
