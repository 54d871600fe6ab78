----------------------------- MODULE MCAccounts -----------------------------
(* The account and the first run, in one run of two parts, each checked on its own
   while the other stands still: two calls, and two programs that meet in the first
   boot; and two flows of the bootstrap page, with a form that gives everything, one
   with a root and a device, and one with a root and a source that lacks its URL. *)
EXTENDS Accounts, Setup

VARIABLE part

MCInit == part \in {"accounts", "setup"} /\ Init /\ SetupInit

MCNext == \/ part = "accounts" /\ Next /\ UNCHANGED <<part, setupVars>>
          \/ part = "setup" /\ SetupNext /\ UNCHANGED <<part, vars>>

MCSpec == /\ MCInit /\ [][MCNext]_<<part, vars, setupVars>>
          /\ part = "setup" => SetupFairness
=============================================================================
