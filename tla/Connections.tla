----------------------------- MODULE Connections -----------------------------
(***************************************************************************)
(* The connections of bunsan::asio beside each other: the queued writer    *)
(* under blocks and lines, and the relay.  They share no state.            *)
(***************************************************************************)
EXTENDS QueuedWriter, BufferConnection

(* Both kinds of connection deliver what was written, in order.              *)
(* (queued_writer.hpp:42, buffer_connection.hpp:116)                         *)
ConnectionsKeepOrder == DeliveredInOrder /\ RelayedInOrder

(* Both kinds of connection close once they are told to or the source ends.  *)
(* (queued_writer.hpp:50, buffer_connection.hpp:168)                         *)
ConnectionsClose == CloseCloses /\ SinkCloses

=============================================================================
