------------------------------ MODULE Sessions ------------------------------
(* What the login sessions of the API promise: a token is accepted from the
   moment it is issued until it ends, once, and is not accepted again.  Logout,
   expiry and the end of the process all end a token; each may end many. *)
CONSTANT Tokens

VARIABLES valid,    \* the tokens a request may carry
          ended     \* those that were valid and are not any more

vars == <<valid, ended>>

Init == valid = {} /\ ended = {}

Issue(t) == /\ t \notin valid \cup ended
            /\ valid' = valid \cup {t}
            /\ UNCHANGED ended

End(T) == /\ T # {} /\ T \subseteq valid
          /\ valid' = valid \ T
          /\ ended' = ended \cup T

Next == \/ \E t \in Tokens : Issue(t)
        \/ \E T \in SUBSET valid : End(T)

Spec == Init /\ [][Next]_vars
=============================================================================
