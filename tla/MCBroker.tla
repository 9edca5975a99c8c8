------------------------------ MODULE MCBroker ------------------------------
(* Model-checking instance of Broker: model values for the IDs.  Every run *)
(* uses one action ID, so that concurrent requests share the single-flight *)
(* entry, and one output ID.                                              *)
EXTENDS Broker

CONSTANTS a1, o1

MCSingleOutput == {o1}
MCOneAction == {a1}
=============================================================================
