------------------------------- MODULE MCHub -------------------------------
(* The hub on a small instance: two clients of one key, so that each state of
   a session is met by a client that comes late. *)
EXTENDS HubProps
=============================================================================
