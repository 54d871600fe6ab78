------------------------------ MODULE Accounts ------------------------------
(* The administrator's account and the login sessions: the first boot that makes
   the account, login, requireAuth around every other handler, logout, change of
   password, expiry and restarts.

   The password is a row of the database, which two programs open: the server
   (smoothie) and smoothie-lab-ingest.  Sessions are in the server's memory, with
   the time they expire.  A call is one request; a handler runs after requireAuth
   has let go of the mutex, so that other calls come in between. *)
EXTENDS Integers, FiniteSets

CONSTANTS Calls,
          Programs,     \* the processes that open the database
          Server,       \* the one among them that serves
          Passwords,
          Default,      \* DefaultAdminPassword
          Tokens,       \* bound: the tokens that are ever drawn
          Lifetime,     \* of a session
          MaxTime,      \* bound: the last instant
          None

ASSUME AccountsAssumption == /\ Server \in Programs /\ Default \in Passwords
                             /\ None \notin Passwords \cup Tokens
                             /\ Lifetime \in Nat /\ MaxTime \in Nat

VARIABLES
    now,
    admin,      \* the password of the row admin, or None before there is one
    boot,       \* store.Open in each program
    sessions,   \* token -> when it expires
    drawn,      \* the tokens of newToken so far
    pc,         \* what each call does next
    token,      \* the token it carries
    changed     \* the last password whose change was stored, or None

vars == <<now, admin, boot, sessions, drawn, pc, token, changed>>

Init == /\ now = 0
        /\ admin = None
        /\ boot = [p \in Programs |-> "down"]
        /\ sessions = <<>>
        /\ drawn = {}
        /\ pc = [c \in Calls |-> "idle"]
        /\ token = [c \in Calls |-> None]
        /\ changed = None

Goto(c, label) == pc' = [pc EXCEPT ![c] = label]
Booting(p, label) == boot' = [boot EXCEPT ![p] = label]

(***************************** EnsureDefaultAdmin ***************************)

CountUsers(p) == /\ boot[p] = "down"
                 /\ Booting(p, IF admin = None THEN "create" ELSE "up")
                 /\ UNCHANGED <<now, admin, sessions, drawn, pc, token, changed>>

(* Mutant: the row is created or, if it is there, written over. *)
CreateAdminUpsert(p) == /\ boot[p] = "create"
                        /\ admin' = Default
                        /\ Booting(p, "up")
                        /\ UNCHANGED <<now, sessions, drawn, pc, token, changed>>

(* The unique index on the user name. *)
CreateAdmin(p) == /\ boot[p] = "create" /\ admin = None
                  /\ admin' = Default
                  /\ Booting(p, "up")
                  /\ UNCHANGED <<now, sessions, drawn, pc, token, changed>>

(* Another program has created the row since: Open fails, the program ends. *)
CreateAdminFails(p) == /\ boot[p] = "create" /\ admin # None
                       /\ Booting(p, "down")
                       /\ UNCHANGED <<now, admin, sessions, drawn, pc, token, changed>>

Boot(p) == CountUsers(p) \/ CreateAdmin(p) \/ CreateAdminFails(p)

(* A program ends.  With the server go its sessions and its calls. *)
Exit(p) == /\ boot[p] = "up"
           /\ Booting(p, "down")
           /\ IF p = Server
              THEN /\ sessions' = <<>>
                   /\ pc' = [c \in Calls |-> "idle"]
                   /\ token' = [c \in Calls |-> None]
              ELSE UNCHANGED <<sessions, pc, token>>
           /\ UNCHANGED <<now, admin, drawn, changed>>

(*********************************** login **********************************)

Free(c) == pc[c] = "idle" /\ boot[Server] = "up"

(* Authenticate accepts what it was given; a wrong password is refused, and leaves
   no trace. *)
Login(c) == /\ Free(c) /\ admin # None
            /\ Goto(c, "issue")
            /\ UNCHANGED <<now, admin, boot, sessions, drawn, token, changed>>

Issue(c) == /\ pc[c] = "issue"
            /\ \E t \in Tokens \ drawn :
                 /\ drawn' = drawn \cup {t}
                 /\ sessions' = [u \in DOMAIN sessions \cup {t} |->
                                   IF u = t THEN now + Lifetime ELSE sessions[u]]
            /\ Goto(c, "idle")
            /\ UNCHANGED <<now, admin, boot, token, changed>>

(******************************** requireAuth *******************************)

Without(t) == [u \in DOMAIN sessions \ {t} |-> sessions[u]]
Expired(t) == now > sessions[t]

Authorise(c) == /\ Free(c)
                /\ \E t \in DOMAIN sessions, handler \in {"logout", "password", "serve"} :
                     /\ ~ Expired(t)
                     /\ token' = [token EXCEPT ![c] = t]
                     /\ Goto(c, handler)
                /\ UNCHANGED <<now, admin, boot, sessions, drawn, changed>>

(* A token that is unknown is refused and changes nothing; one that has expired
   is refused and dropped. *)
DropExpired(c) == /\ Free(c)
                  /\ \E t \in DOMAIN sessions : Expired(t) /\ sessions' = Without(t)
                  /\ UNCHANGED <<now, admin, boot, drawn, pc, token, changed>>

Answer(c) == /\ Goto(c, "idle")
             /\ token' = [token EXCEPT ![c] = None]

Logout(c) == /\ pc[c] = "logout"
             /\ sessions' = Without(token[c])
             /\ Answer(c)
             /\ UNCHANGED <<now, admin, boot, drawn, changed>>

ChangePassword(c) == /\ pc[c] = "password"
                     /\ \E new \in Passwords : admin' = new /\ changed' = new
                     /\ Answer(c)
                     /\ UNCHANGED <<now, boot, sessions, drawn>>

(* Mutant: an answer gives the session a full lifetime again. *)
ServeRenews(c) == /\ pc[c] = "serve"
                  /\ sessions' = [u \in DOMAIN sessions \cup {token[c]} |->
                                    IF u = token[c] THEN now + Lifetime ELSE sessions[u]]
                  /\ Answer(c)
                  /\ UNCHANGED <<now, admin, boot, drawn, changed>>

(* Any other handler. *)
Serve(c) == /\ pc[c] = "serve"
            /\ Answer(c)
            /\ UNCHANGED <<now, admin, boot, sessions, drawn, changed>>

Tick == /\ now < MaxTime
        /\ now' = now + 1
        /\ UNCHANGED <<admin, boot, sessions, drawn, pc, token, changed>>

Next == \/ \E p \in Programs : Boot(p) \/ Exit(p)
        \/ \E c \in Calls : \/ Login(c) \/ Issue(c)
                            \/ Authorise(c) \/ DropExpired(c)
                            \/ Logout(c) \/ ChangePassword(c) \/ Serve(c)
        \/ Tick

Spec == Init /\ [][Next]_vars
----------------------------------------------------------------------------
TypeOK ==
    /\ now \in 0..MaxTime
    /\ admin \in Passwords \cup {None}
    /\ boot \in [Programs -> {"down", "create", "up"}]
    /\ drawn \subseteq Tokens
    /\ DOMAIN sessions \subseteq drawn
    /\ \A t \in DOMAIN sessions : sessions[t] \in 0..(MaxTime + Lifetime)
    /\ pc \in [Calls -> {"idle", "issue", "logout", "password", "serve"}]
    /\ token \in [Calls -> Tokens \cup {None}]
    /\ changed \in Passwords \cup {None}

(* A password that was changed stays what it was changed to, through every boot of
   either program: the default never comes back, even when a program that found
   no account before the change creates it after the change. *)
ChangedPasswordStays == changed # None => admin = changed

Valid == {t \in DOMAIN sessions : ~ Expired(t)}
SessionsImpl == INSTANCE Sessions WITH valid <- Valid, ended <- drawn \ Valid

(* A token that was logged out, has expired or was lost with the process is never
   accepted again, whatever calls were under way with it when it ended. *)
ImplementsSessions == SessionsImpl!Spec
=============================================================================
