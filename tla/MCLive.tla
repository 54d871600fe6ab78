------------------------------- MODULE MCLive -------------------------------
(* OpenLive on two channels of one source. *)
EXTENDS LiveStream, TLC

OneSource == [k \in Keys |-> CHOOSE s \in Sources : TRUE]
=============================================================================
