------------------------------ MODULE MCCache ------------------------------
(* The cache on a small instance: two calls for one key, files of two chunks,
   so that a reader can be in the middle of one. *)
EXTENDS CacheProps
=============================================================================
