------------------------------- MODULE Setup -------------------------------
(* First run: the bootstrap page of one browser and the handlers it calls.  The
   page keeps its token in localStorage, shows one of three cards, and runs the
   handlers of its buttons as asynchronous flows: a flow waits for each answer
   while other flows go on, and no button is disabled meanwhile.

   A request, with what its handler does, is one step, but for the upsert of a
   library root, which lists and then writes.  A form is the set of the steps it
   makes finish() take.  The sessions are those of Sessions.tla.  Faults are
   restarts of the server, expiries, failed requests and reloads of the page. *)
EXTENDS Integers, Sequences, FiniteSets, FiniteSetsExt

CONSTANTS Flows,
          PageTokens,   \* bound: the sessions that are ever opened
          Forms,        \* what the user may have typed into the wizard
          MaxFaults,    \* bound
          Empty

(* The steps of finish(), in their order.  "blank" is the source that is asked
   for without a URL. *)
Steps == <<"password", "movie", "tv", "blank", "source", "device", "complete">>

ASSUME SetupAssumption ==
    \A asked \in Forms : asked \subseteq {"password", "movie", "tv", "blank", "source", "device"}

VARIABLES
    pageToken,  \* that the page has; Empty is ''
    card,       \* the card that is shown
    flow,       \* what each flow does next
    form,       \* what it read from the wizard
    answer,     \* what the last request told it
    complete,   \* the setting setup.completed
    roots,      \* rows of library_roots, each with its kind and the flow whose path it has
    sources,    \* the steps of finish() whose kind of source has a row
    passwordSet,    \* the account has a password that a finish() has set
    saved,      \* history: the steps that the server has stored for each flow's finish()
    valid, ended,   \* the server's sessions: Sessions.tla
    faults

page == <<pageToken, card>>
press == <<form, saved>>
stored == <<complete, roots, sources, passwordSet>>
login == <<valid, ended>>
setupVars == <<pageToken, card, flow, form, answer, complete, roots, sources, passwordSet, saved,
               valid, ended, faults>>

S == INSTANCE Sessions WITH Tokens <- PageTokens

Kinds == {"movie", "tv"}
Root(k, f) == [kind |-> k, path |-> f]
HasRoot(k) == \E r \in roots : r.kind = k
SignedIn == pageToken \in valid

(* Where finish() goes on after step i. *)
After(f, i) == Steps[Min({j \in i + 1..7 : j = 7 \/ Steps[j] \in form[f]})]
Pos(step) == CHOOSE i \in 1..7 : Steps[i] = step

(* The page is loaded: the login card shows until refresh() has its answer. *)
Load == [f \in Flows |-> IF f = CHOOSE g \in Flows : TRUE THEN "status" ELSE "idle"]

SetupInit == /\ S!Init
             /\ pageToken = Empty /\ card = "login"
             /\ flow = Load
             /\ form = [f \in Flows |-> {}]
             /\ answer = [f \in Flows |-> Empty]
             /\ complete = FALSE /\ roots = {} /\ sources = {} /\ passwordSet = FALSE
             /\ saved = [f \in Flows |-> {}]
             /\ faults = 0

Go(f, label) == flow' = [flow EXCEPT ![f] = label]
Told(f, a) == answer' = [answer EXCEPT ![f] = a]
Saved(f, s) == saved' = [saved EXCEPT ![f] = @ \cup {s}]

(********************************* refresh() ********************************)

GetStatus(f) == /\ flow[f] = "status"
                /\ Told(f, IF complete THEN "finished" ELSE "required")
                /\ Go(f, "show")
                /\ UNCHANGED <<page, press, stored, login, faults>>

(* The token is looked at now, the status is what it was.  The dashboard that
   loads behind the app card changes nothing. *)
Show(f) == /\ flow[f] = "show"
           /\ card' = IF pageToken = Empty THEN "login"
                      ELSE IF answer[f] = "required" THEN "wizard" ELSE "app"
           /\ Go(f, "idle") /\ Told(f, Empty)
           /\ UNCHANGED <<pageToken, press, stored, login, faults>>

(******************************* login, logout ******************************)

Press(f, button) == /\ flow[f] = "idle" /\ card = button
                    /\ UNCHANGED <<page, answer, stored, login, faults>>

PressLogin(f) == /\ Press(f, "login")
                 /\ Go(f, "login")
                 /\ UNCHANGED press

PostLogin(f) == /\ flow[f] = "login"
                /\ \E t \in PageTokens : S!Issue(t) /\ Told(f, t)
                /\ Go(f, "signed in")
                /\ UNCHANGED <<page, press, stored, faults>>

StoreToken(f) == /\ flow[f] = "signed in"
                 /\ pageToken' = answer[f]
                 /\ Go(f, "status") /\ Told(f, Empty)
                 /\ UNCHANGED <<card, press, stored, login, faults>>

PressLogout(f) == /\ Press(f, "app")
                  /\ Go(f, "logout")
                  /\ UNCHANGED press

(* Whatever the answer is. *)
PostLogout(f) == /\ flow[f] = "logout"
                 /\ IF SignedIn THEN S!End({pageToken}) ELSE UNCHANGED login
                 /\ Go(f, "signed out")
                 /\ UNCHANGED <<page, press, answer, stored, faults>>

ClearToken(f) == /\ flow[f] = "signed out"
                 /\ pageToken' = Empty
                 /\ Go(f, "status")
                 /\ UNCHANGED <<card, press, answer, stored, login, faults>>

(********************************* finish() *********************************)

PressFinish(f, asked) == /\ Press(f, "wizard")
                         /\ form' = [form EXCEPT ![f] = asked]
                         /\ saved' = [saved EXCEPT ![f] = {}]
                         /\ Go(f, Steps[Min({j \in 1..7 : j = 7 \/ Steps[j] \in asked})])

Finished(f) == form' = [form EXCEPT ![f] = {}] /\ saved' = [saved EXCEPT ![f] = {}]

(* Mutant: an answer that is not a success is taken for one. *)
GiveUpSilently(f) == /\ IF flow[f] \in {"password", "movie", "tv", "source", "device"}
                        THEN Go(f, After(f, Pos(flow[f]))) /\ UNCHANGED press
                        ELSE Go(f, "idle") /\ Finished(f)
                     /\ Told(f, Empty)

(* finish() stops with a message; what its earlier steps have stored stays. *)
GiveUp(f) == Go(f, "idle") /\ Finished(f) /\ Told(f, Empty)

(* A blank URL, or a token that requireAuth does not accept. *)
Refused(f) == /\ \/ flow[f] = "blank"
                 \/ flow[f] \in {"password", "movie", "tv", "source", "device", "complete"} /\ ~ SignedIn
              /\ GiveUp(f)
              /\ UNCHANGED <<page, stored, login, faults>>

(* Who the password is then good for is the business of Accounts.tla. *)
PutPassword(f) == /\ flow[f] = "password" /\ SignedIn
                  /\ passwordSet' = TRUE /\ Saved(f, "password")
                  /\ Go(f, After(f, Pos("password")))
                  /\ UNCHANGED <<page, form, answer, complete, roots, sources, login, faults>>

(* A source, IPTV or device.  Its first refresh may fail, which finish() ignores. *)
CreateSource(f) == /\ flow[f] \in {"source", "device"} /\ SignedIn
                   /\ sources' = sources \cup {flow[f]} /\ Saved(f, flow[f])
                   /\ Go(f, After(f, Pos(flow[f])))
                   /\ UNCHANGED <<page, form, answer, complete, roots, passwordSet, login, faults>>

SaveStep == [movie |-> "movie save", tv |-> "tv save"]
Saving(k) == {f \in Flows : flow[f] = SaveStep[k]}

(* Mutant: a root is always created. *)
ListRootsNot(f, k) == /\ flow[f] = k /\ SignedIn
                      /\ Told(f, "no root")
                      /\ Go(f, SaveStep[k])
                      /\ UNCHANGED <<page, press, stored, login, faults>>

ListRoots(f, k) == /\ flow[f] = k /\ SignedIn
                   /\ Told(f, IF HasRoot(k) THEN "root" ELSE "no root")
                   /\ Go(f, SaveStep[k])
                   /\ UNCHANGED <<page, press, stored, login, faults>>

SaveRoot(f, k) == /\ f \in Saving(k) /\ answer[f] = "root"
                  /\ roots' = {r \in roots : r.kind # k} \cup {Root(k, f)} /\ Saved(f, k)
                  /\ Go(f, After(f, Pos(k))) /\ Told(f, Empty)
                  /\ UNCHANGED <<page, form, complete, sources, passwordSet, login, faults>>

(* The kind has a unique index. *)
CreateRoot(f, k) == /\ f \in Saving(k) /\ answer[f] = "no root" /\ ~ HasRoot(k)
                    /\ roots' = roots \cup {Root(k, f)} /\ Saved(f, k)
                    /\ Go(f, After(f, Pos(k))) /\ Told(f, Empty)
                    /\ UNCHANGED <<page, form, complete, sources, passwordSet, login, faults>>

(* Another request has created the root since the list. *)
CreateRootFails(f, k) == /\ f \in Saving(k) /\ answer[f] = "no root" /\ HasRoot(k)
                         /\ GiveUp(f)
                         /\ UNCHANGED <<page, stored, login, faults>>

Complete(f) == /\ flow[f] = "complete" /\ SignedIn
               /\ complete' = TRUE
               /\ Go(f, "status") /\ Finished(f)
               /\ UNCHANGED <<page, answer, roots, sources, passwordSet, login, faults>>

(********************************** faults **********************************)

Fault == faults < MaxFaults /\ faults' = faults + 1

(* A statement or a connection fails.  Logout catches it, every other flow ends. *)
RequestFails(f) == /\ Fault
                   /\ \/ flow[f] = "logout" /\ Go(f, "signed out") /\ UNCHANGED <<press, answer>>
                      \/ /\ flow[f] \notin {"idle", "show", "logout", "signed in", "signed out"}
                         /\ GiveUp(f)
                   /\ UNCHANGED <<page, stored, login>>

Expire == /\ Fault
          /\ \E t \in valid : S!End({t})
          /\ UNCHANGED <<page, flow, press, answer, stored>>

(* The server ends and starts again: sessions and handlers are gone. *)
Restart == /\ Fault
           /\ valid # {} /\ S!End(valid)
           /\ LET cut == Saving("movie") \cup Saving("tv")
              IN  /\ flow' = [f \in Flows |-> IF f \in cut THEN "idle" ELSE flow[f]]
                  /\ form' = [f \in Flows |-> IF f \in cut THEN {} ELSE form[f]]
                  /\ saved' = [f \in Flows |-> IF f \in cut THEN {} ELSE saved[f]]
                  /\ answer' = [f \in Flows |-> IF f \in cut THEN Empty ELSE answer[f]]
           /\ UNCHANGED <<page, stored>>

(* The flows of the page are gone, its token is not. *)
Reload == /\ Fault
          /\ Saving("movie") \cup Saving("tv") = {}
          /\ flow' = Load /\ card' = "login"
          /\ form' = [f \in Flows |-> {}] /\ saved' = form' /\ answer' = [f \in Flows |-> Empty]
          /\ UNCHANGED <<pageToken, stored, login>>

Click(f) == PressLogin(f) \/ PressLogout(f) \/ \E asked \in Forms : PressFinish(f, asked)

Step(f) == \/ GetStatus(f) \/ Show(f)
           \/ PostLogin(f) \/ StoreToken(f) \/ PostLogout(f) \/ ClearToken(f)
           \/ Refused(f) \/ PutPassword(f) \/ CreateSource(f)
           \/ \E k \in Kinds : \/ ListRoots(f, k) \/ SaveRoot(f, k)
                               \/ CreateRoot(f, k) \/ CreateRootFails(f, k)
           \/ Complete(f)

SetupNext == \/ \E f \in Flows : Click(f) \/ Step(f) \/ RequestFails(f)
             \/ Expire \/ Restart \/ Reload

SetupSpec == SetupInit /\ [][SetupNext]_setupVars

(* Requests are answered, and a user who wants to be done presses what there is to
   press, with a URL in the end. *)
SetupFairness == /\ \A f \in Flows : WF_setupVars(Step(f))
                 /\ SF_setupVars(\E f \in Flows : PressLogin(f))
                 /\ SF_setupVars(\E f \in Flows : PressLogout(f))
                 /\ SF_setupVars(\E f \in Flows, asked \in {a \in Forms : "blank" \notin a} : PressFinish(f, asked))
----------------------------------------------------------------------------
SetupTypeOK ==
    /\ pageToken \in PageTokens \cup {Empty}
    /\ card \in {"login", "wizard", "app"}
    /\ \A f \in Flows : /\ form[f] \in Forms \cup {{}}
                        /\ answer[f] \in PageTokens \cup {Empty, "required", "finished", "root", "no root"}
                        /\ flow[f] = "signed in" => answer[f] \in PageTokens
                        /\ flow[f] = "show" => answer[f] \in {"required", "finished"}
    /\ complete \in BOOLEAN /\ passwordSet \in BOOLEAN
    /\ sources \subseteq {"source", "device"}
    /\ \A f \in Flows : saved[f] \subseteq {"password", "movie", "tv", "source", "device"}
    /\ roots \subseteq [kind : Kinds, path : Flows]
    /\ valid \subseteq PageTokens /\ ended \subseteq PageTokens
    /\ faults \in 0..MaxFaults

(* What a step of finish() leaves behind for the server to run with. *)
InPlace(s) == /\ s = "password" => passwordSet
              /\ s \in Kinds => HasRoot(s)
              /\ s \in {"source", "device"} => s \in sources

(* A finish() that is about to mark the setup complete has itself stored each of the
   steps that its form asked for: none that was refused or failed on the way went
   unnoticed, and what an earlier press or another flow has stored does not stand in
   for it.  All of that is there when the setup is marked. *)
FinishedMeansConfigured ==
    \A f \in Flows : flow[f] = "complete" =>
        /\ form[f] \subseteq saved[f]
        /\ \A s \in saved[f] : InPlace(s)

(* Setup comes to its end while the session lasts: a finish() that stopped half-way,
   or lost a race for a root, can be pressed again and then goes through. *)
RetryCompletes == card = "wizard" /\ SignedIn ~> complete \/ ~ SignedIn
=============================================================================
