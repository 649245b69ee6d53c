------------------------------ MODULE MCListener ------------------------------
(* An instance of Listener: one frame is read from the clients of an accept *)
(* loop, where all tasks race; two by a listener that serves one peer.      *)
EXTENDS Listener

MCMaxData == [map |-> 1, ws |-> 2, udp |-> 2]
=============================================================================
