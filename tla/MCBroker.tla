------------------------------ MODULE MCBroker ------------------------------
(* Small instances of Broker: a request is a delivery. *)
EXTENDS Broker

MCRequests == Deliveries
=============================================================================
