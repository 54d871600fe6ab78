--------------------------- MODULE AccountsProofs ---------------------------
(* What Accounts states, for any number of calls, programs and tokens, and what Setup
   states, for any number of flows, any forms and any faults.

   Both theorems about Accounts rest on Drawn: every session in the map is under a
   token that was drawn, and expires at a number.  A token that is drawn is not drawn
   again, so that what has ended, by logout, by its time or with the process, stays
   ended.

   The theorem about Setup rests on StoredUpTo: wherever a finish() has come to, it
   has stored what its form asked for before.  Nothing ever unsets what is InPlace,
   though another flow may put another path in its place. *)
EXTENDS Accounts, Setup, TLAPS

(******************************* the account ********************************)

Drawn == /\ now \in Nat
         /\ DOMAIN sessions \subseteq drawn
         /\ \A t \in DOMAIN sessions : sessions[t] \in Nat
         /\ drawn \subseteq Tokens

LEMMA InitDrawn == Init => Drawn
BY DEF Init, Drawn

(* A session is entered under a token drawn in that step; every other step leaves the
   map alone or takes sessions out of it. *)
LEMMA NextDrawn == Drawn /\ [Next]_vars => Drawn'
<1> SUFFICES ASSUME Drawn, [Next]_vars PROVE Drawn'
  OBVIOUS
<1> USE AccountsAssumption
<1>1. ASSUME NEW p \in Programs, Exit(p) PROVE Drawn'
  <2>1. CASE p = Server
    <3>1. DOMAIN sessions' = {}
      BY <1>1, <2>1 DEF Exit
    <3> QED
      BY <1>1, <3>1 DEF Drawn, Exit
  <2>2. CASE p # Server
    BY <1>1, <2>2 DEF Drawn, Exit
  <2> QED
    BY <2>1, <2>2
<1>2. ASSUME NEW c \in Calls, Issue(c) PROVE Drawn'
  BY <1>2 DEF Drawn, Issue
<1>3. ASSUME NEW c \in Calls, DropExpired(c) \/ Logout(c) PROVE Drawn'
  BY <1>3 DEF Drawn, DropExpired, Logout, Without
<1>4. CASE Tick
  BY <1>4 DEF Drawn, Tick
<1>5. CASE UNCHANGED <<now, sessions, drawn>>
  BY <1>5 DEF Drawn
<1> QED
  BY <1>1, <1>2, <1>3, <1>4, <1>5
  DEF Next, vars, Boot, CountUsers, CreateAdmin, CreateAdminFails, Login, Authorise,
      ChangePassword, Serve, Answer

(* The default is only ever stored where there is no row, and a password that was
   changed is in a row. *)
THEOREM AccountsChangedPasswordStays == Spec => []ChangedPasswordStays
<1> DEFINE Stays == /\ changed \in Passwords \cup {None}
                    /\ ChangedPasswordStays
<1>1. Init => Stays
  BY DEF Init, ChangedPasswordStays
<1>2. Stays /\ [Next]_vars => Stays'
  <2> SUFFICES ASSUME Stays, [Next]_vars PROVE Stays'
    OBVIOUS
  <2>1. ASSUME NEW p \in Programs, CreateAdmin(p) PROVE Stays'
    BY <2>1, AccountsAssumption DEF ChangedPasswordStays, CreateAdmin
  <2>2. ASSUME NEW c \in Calls, ChangePassword(c) PROVE Stays'
    BY <2>2, AccountsAssumption DEF ChangedPasswordStays, ChangePassword
  <2>3. CASE UNCHANGED <<admin, changed>>
    BY <2>3 DEF ChangedPasswordStays
  <2> QED
    BY <2>1, <2>2, <2>3
    DEF Next, vars, Boot, CountUsers, CreateAdminFails, Exit, Login, Issue, Authorise,
        DropExpired, Logout, Serve, Answer, Tick
<1>3. Stays => ChangedPasswordStays
  OBVIOUS
<1> QED
  BY <1>1, <1>2, <1>3, PTL DEF Spec

(* A step of the abstract login is a step in which some tokens end, or in which
   one that was never drawn becomes valid. *)
LEMMA EndingImplements ==
    ASSUME Drawn, Valid' \subseteq Valid, drawn' = drawn
    PROVE  [SessionsImpl!Next]_(SessionsImpl!vars)
<1> DEFINE T == Valid \ Valid'
<1>1. Valid \subseteq drawn
  BY DEF Drawn, Valid
<1>2. CASE T = {}
  <2>1. Valid' = Valid
    BY <1>2
  <2>2. (drawn \ Valid)' = drawn \ Valid
    BY <2>1
  <2> QED
    BY <2>1, <2>2 DEF SessionsImpl!vars
<1>3. CASE T # {}
  <2>1. Valid' = Valid \ T
    OBVIOUS
  <2>2. (drawn \ Valid)' = (drawn \ Valid) \cup T
    BY <1>1
  <2>3. SessionsImpl!End(T)
    BY <1>3, <2>1, <2>2 DEF SessionsImpl!End
  <2>4. T \in SUBSET Valid
    OBVIOUS
  <2> QED
    BY <2>3, <2>4 DEF SessionsImpl!Next
<1> QED
  BY <1>2, <1>3

LEMMA NextImplements == Drawn /\ [Next]_vars => [SessionsImpl!Next]_(SessionsImpl!vars)
<1> SUFFICES ASSUME Drawn, [Next]_vars PROVE [SessionsImpl!Next]_(SessionsImpl!vars)
  OBVIOUS
<1> USE AccountsAssumption
<1>1. ASSUME NEW p \in Programs, Exit(p) PROVE Valid' \subseteq Valid /\ drawn' = drawn
  <2>1. CASE p = Server
    <3>1. DOMAIN sessions' = {}
      BY <1>1, <2>1 DEF Exit
    <3> QED
      BY <1>1, <3>1 DEF Exit, Valid
  <2>2. CASE p # Server
    BY <1>1, <2>2 DEF Exit, Valid, Expired
  <2> QED
    BY <2>1, <2>2
<1>2. ASSUME NEW c \in Calls, DropExpired(c) \/ Logout(c)
      PROVE  Valid' \subseteq Valid /\ drawn' = drawn
  BY <1>2 DEF DropExpired, Logout, Without, Valid, Expired
<1>3. ASSUME Tick PROVE Valid' \subseteq Valid /\ drawn' = drawn
  <2>1. Valid' \subseteq Valid
    BY <1>3 DEF Drawn, Tick, Valid, Expired
  <2> QED
    BY <1>3, <2>1 DEF Tick
<1>4. ASSUME UNCHANGED <<now, sessions, drawn>> PROVE Valid' \subseteq Valid /\ drawn' = drawn
  BY <1>4 DEF Valid, Expired
<1>5. ASSUME NEW c \in Calls, Issue(c) PROVE SessionsImpl!Next
  <2>1. PICK t \in Tokens \ drawn :
          /\ drawn' = drawn \cup {t}
          /\ sessions' = [u \in DOMAIN sessions \cup {t} |->
                            IF u = t THEN now + Lifetime ELSE sessions[u]]
    BY <1>5 DEF Issue
  <2>2. now' = now
    BY <1>5 DEF Issue
  <2>3. Valid' = Valid \cup {t} /\ Valid \subseteq drawn
    BY <2>1, <2>2 DEF Drawn, Valid, Expired
  <2>4. (drawn \ Valid)' = drawn \ Valid
    BY <2>1, <2>3
  <2>5. SessionsImpl!Issue(t)
    BY <2>1, <2>3, <2>4 DEF SessionsImpl!Issue
  <2> QED
    BY <2>1, <2>5 DEF SessionsImpl!Next
<1> QED
  BY <1>1, <1>2, <1>3, <1>4, <1>5, EndingImplements
  DEF Next, vars, Boot, CountUsers, CreateAdmin, CreateAdminFails, Login, Authorise,
      ChangePassword, Serve, Answer

(* The sessions implement the abstract login: a token is accepted from its issue to
   its end, once. *)
THEOREM AccountsImplementSessions == Spec => ImplementsSessions
<1>1. Init => SessionsImpl!Init
  BY DEF Init, SessionsImpl!Init, Valid
<1> QED
  BY <1>1, InitDrawn, NextDrawn, NextImplements, PTL
  DEF Spec, ImplementsSessions, SessionsImpl!Spec

(******************************** first run *********************************)

(* The flow is at the i-th step of finish(), or between its two requests. *)
CameTo(f, i) == \/ flow[f] = Steps[i]
                \/ Steps[i] \in Kinds /\ flow[f] = SaveStep[Steps[i]]

StoredUpTo(f, i) == \A j \in 1..(i - 1) : Steps[j] \in form[f] => Steps[j] \in saved[f]

Elsewhere == {"idle", "status", "show", "login", "signed in", "logout", "signed out"}
StepLabels == {"password", "movie", "tv", "blank", "source", "device", "complete",
               "movie save", "tv save"}

SetupTyped == /\ flow \in [Flows -> Elsewhere \cup StepLabels]
              /\ form \in [Flows -> Forms \cup {{}}]
              /\ saved = [f \in Flows |-> saved[f]]

SetupIInv == /\ SetupTyped
             /\ \A f \in Flows, i \in 1..7 : CameTo(f, i) => StoredUpTo(f, i)
             /\ \A f \in Flows : \A s \in saved[f] : InPlace(s)

LEMMA StepNames ==
  /\ Steps[1] = "password" /\ Steps[2] = "movie" /\ Steps[3] = "tv" /\ Steps[4] = "blank"
  /\ Steps[5] = "source" /\ Steps[6] = "device" /\ Steps[7] = "complete"
  /\ Kinds = {"movie", "tv"}
  /\ SaveStep["movie"] = "movie save" /\ SaveStep["tv"] = "tv save"
BY DEF Steps, Kinds, SaveStep

LEMMA SevenSteps == \A i \in 1..7 : i = 1 \/ i = 2 \/ i = 3 \/ i = 4 \/ i = 5 \/ i = 6 \/ i = 7
OBVIOUS

(* A flow is at one step at a time. *)
LEMMA OneStep ==
  /\ \A i, j \in 1..7 : Steps[i] = Steps[j] => i = j
  /\ \A i, j \in 1..7 : Steps[i] \in Kinds => SaveStep[Steps[i]] # Steps[j]
  /\ \A i, j \in 1..7 : Steps[i] \in Kinds /\ Steps[j] \in Kinds
                        /\ SaveStep[Steps[i]] = SaveStep[Steps[j]] => i = j
  /\ \A i \in 1..7 : Steps[i] \in StepLabels /\ Steps[i] \notin Elsewhere
  /\ \A k \in Kinds : SaveStep[k] \in StepLabels /\ SaveStep[k] \notin Elsewhere
<1>1. \A i, j \in 1..7 : Steps[i] = Steps[j] => i = j
  BY StepNames, SevenSteps
<1>2. \A k \in Kinds : /\ SaveStep[k] \in {"movie save", "tv save"}
                       /\ SaveStep[k] \in StepLabels /\ SaveStep[k] \notin Elsewhere
  BY StepNames DEF StepLabels, Elsewhere
<1>3. \A i \in 1..7 : /\ Steps[i] \in StepLabels /\ Steps[i] \notin Elsewhere
                      /\ Steps[i] \notin {"movie save", "tv save"}
  BY StepNames, SevenSteps DEF StepLabels, Elsewhere
<1>4. \A i, j \in Kinds : SaveStep[i] = SaveStep[j] => i = j
  BY StepNames
<1> QED
  BY <1>1, <1>2, <1>3, <1>4

LEMMA PosOfStep ==
  ASSUME NEW i \in 1..7
  PROVE  Pos(Steps[i]) = i
BY OneStep DEF Pos

(* The next step is the first one that the form asks for. *)
LEMMA FirstAsked ==
  ASSUME NEW i \in 0..6, NEW asked
  PROVE  LET m == Min({j \in i + 1..7 : j = 7 \/ Steps[j] \in asked})
         IN  m \in i + 1..7 /\ \A j \in i + 1..(m - 1) : Steps[j] \notin asked
<1> DEFINE next == {j \in i + 1..7 : j = 7 \/ Steps[j] \in asked}
<1>1. 7 \in next /\ next \subseteq 1..7 /\ next \subseteq i + 1..7
  OBVIOUS
<1> HIDE DEF next
<1>2. \E x \in next : \A y \in next : x <= y
  BY <1>1, SevenSteps
<1>3. Min(next) \in next /\ \A y \in next : Min(next) <= y
  BY <1>2 DEF Min
<1>4. Min(next) \in i + 1..7
  BY <1>1, <1>3
<1>5. ASSUME NEW j \in i + 1..(Min(next) - 1) PROVE Steps[j] \notin asked
  <2>1. j \in i + 1..7 /\ j < Min(next)
    BY <1>4
  <2>2. j \notin next
    BY <1>3, <1>4, <2>1
  <2> QED
    BY <2>1, <2>2 DEF next
<1> QED
  BY <1>4, <1>5 DEF next

(* Steps outside finish(), of any flow: they unset nothing. *)
LEMMA OutsideKeeps ==
  ASSUME SetupIInv, SetupTyped',
         \A s : InPlace(s) => InPlace(s)',
         \A f \in Flows :
             /\ saved'[f] \subseteq saved[f]
             /\ \/ flow'[f] \in Elsewhere
                \/ /\ form'[f] = form[f] /\ saved'[f] = saved[f]
                   /\ \A i \in 1..7 : CameTo(f, i)' => CameTo(f, i)
  PROVE  SetupIInv'
<1>1. ASSUME NEW f \in Flows, NEW i \in 1..7, CameTo(f, i)' PROVE StoredUpTo(f, i)'
  <2>1. flow'[f] \notin Elsewhere
    BY <1>1, OneStep DEF CameTo
  <2>2. StoredUpTo(f, i) /\ form'[f] = form[f] /\ saved'[f] = saved[f]
    BY <1>1, <2>1 DEF SetupIInv
  <2> QED
    BY <2>2 DEF StoredUpTo
<1>2. \A f \in Flows : \A s \in saved'[f] : InPlace(s)'
  BY DEF SetupIInv
<1> QED
  BY <1>1, <1>2 DEF SetupIInv

(* Going on from the i-th step, which is stored, or from the press of the button, to
   the next step that the form asks for. *)
LEMMA GoingOn ==
  ASSUME SetupIInv, SetupTyped', NEW f \in Flows, NEW i \in 0..6, NEW m,
         m \in i + 1..7, \A j \in i + 1..(m - 1) : Steps[j] \notin form'[f],
         flow' = [flow EXCEPT ![f] = Steps[m]],
         \A g \in Flows \ {f} : form'[g] = form[g] /\ saved'[g] = saved[g],
         \A s : InPlace(s) => InPlace(s)',
         i = 0 => saved'[f] = {},
         i > 0 => /\ CameTo(f, i) /\ form'[f] = form[f]
                  /\ saved'[f] = saved[f] \cup {Steps[i]} /\ InPlace(Steps[i])'
  PROVE  SetupIInv'
<1>1. m \in 1..7
  OBVIOUS
<1>2. ASSUME NEW g \in Flows, NEW n \in 1..7, CameTo(g, n)' PROVE StoredUpTo(g, n)'
  <2>1. CASE g # f
    <3>1. flow'[g] = flow[g] /\ form'[g] = form[g] /\ saved'[g] = saved[g]
      BY <2>1 DEF SetupIInv, SetupTyped
    <3>2. StoredUpTo(g, n)
      BY <1>2, <3>1 DEF SetupIInv, CameTo
    <3> QED
      BY <3>1, <3>2 DEF StoredUpTo
  <2>2. CASE g = f
    <3>1. flow'[f] = Steps[m]
      BY DEF SetupIInv, SetupTyped
    <3>2. n = m
      BY <1>1, <1>2, <2>2, <3>1, OneStep DEF CameTo
    <3>3. ASSUME NEW j \in 1..(m - 1), Steps[j] \in form'[f] PROVE Steps[j] \in saved'[f]
      <4>1. j <= i
        BY <3>3
      <4>2. i > 0 /\ i \in 1..7 /\ StoredUpTo(f, i)
        BY <4>1 DEF SetupIInv
      <4>3. CASE j = i
        BY <4>2, <4>3
      <4>4. CASE j < i
        <5>1. j \in 1..(i - 1) /\ Steps[j] \in form[f]
          BY <3>3, <4>2, <4>4
        <5> QED
          BY <4>2, <5>1 DEF StoredUpTo
      <4> QED
        BY <4>1, <4>3, <4>4
    <3> QED
      BY <2>2, <3>2, <3>3 DEF StoredUpTo
  <2> QED
    BY <2>1, <2>2
<1>3. ASSUME NEW g \in Flows, NEW s \in saved'[g] PROVE InPlace(s)'
  <2>1. CASE g # f
    BY <1>3, <2>1 DEF SetupIInv
  <2>2. CASE g = f
    <3>1. i > 0
      BY <1>3, <2>2
    <3>2. s \in saved[f] \/ s = Steps[i]
      BY <1>3, <2>2, <3>1
    <3> QED
      BY <3>1, <3>2 DEF SetupIInv
  <2> QED
    BY <2>1, <2>2
<1> QED
  BY <1>2, <1>3 DEF SetupIInv

LEMMA InitSetup == SetupInit => SetupIInv
<1> SUFFICES ASSUME SetupInit PROVE SetupIInv
  OBVIOUS
<1>1. /\ flow \in [Flows -> Elsewhere \cup StepLabels]
      /\ \A f \in Flows : flow[f] \in Elsewhere
  BY DEF SetupInit, Load, Elsewhere
<1>2. form \in [Flows -> Forms \cup {{}}] /\ saved = [f \in Flows |-> saved[f]]
      /\ \A f \in Flows : saved[f] = {}
  BY DEF SetupInit
<1> QED
  BY <1>1, <1>2, OneStep DEF SetupIInv, SetupTyped, CameTo

(* The steps of finish() that succeed. *)
LEMMA NextStepOfFinish ==
  ASSUME SetupIInv, NEW f \in Flows,
         \/ PutPassword(f) \/ CreateSource(f)
         \/ \E k \in Kinds : SaveRoot(f, k) \/ CreateRoot(f, k)
  PROVE  SetupIInv'
<1>1. ASSUME NEW i \in 1..6, CameTo(f, i), Go(f, After(f, i)), form' = form, Saved(f, Steps[i]),
             InPlace(Steps[i])', \A s : InPlace(s) => InPlace(s)'
      PROVE  SetupIInv'
  <2> DEFINE m == Min({j \in i + 1..7 : j = 7 \/ Steps[j] \in form[f]})
  <2>1. i \in 0..6 /\ i > 0
    OBVIOUS
  <2>2. m \in i + 1..7 /\ \A j \in i + 1..(m - 1) : Steps[j] \notin form[f]
    BY <2>1, FirstAsked
  <2>3. flow' = [flow EXCEPT ![f] = Steps[m]]
    BY <1>1 DEF Go, After
  <2>4. saved' = [saved EXCEPT ![f] = saved[f] \cup {Steps[i]}]
    BY <1>1 DEF Saved
  <2> HIDE DEF m
  <2>5. m \in 1..7 /\ Steps[m] \in StepLabels
    BY <2>2, OneStep
  <2>6. SetupTyped'
    BY <1>1, <2>3, <2>4, <2>5 DEF SetupIInv, SetupTyped
  <2>7. \A g \in Flows \ {f} : form'[g] = form[g] /\ saved'[g] = saved[g]
    BY <1>1, <2>4 DEF SetupIInv, SetupTyped
  <2>8. form'[f] = form[f] /\ saved'[f] = saved[f] \cup {Steps[i]}
    BY <1>1, <2>4 DEF SetupIInv, SetupTyped
  <2>9. /\ \A j \in i + 1..(m - 1) : Steps[j] \notin form'[f]
        /\ i # 0
        /\ CameTo(f, i) /\ InPlace(Steps[i])' /\ \A s : InPlace(s) => InPlace(s)'
    BY <1>1, <2>1, <2>2, <2>8
  <2> QED
    BY <2>1, <2>2, <2>3, <2>6, <2>7, <2>8, <2>9, GoingOn
<1>2. CASE PutPassword(f)
  <2>1. CameTo(f, 1) /\ Pos("password") = 1
    <3>1. Pos(Steps[1]) = 1
      BY PosOfStep
    <3> QED
      BY <1>2, <3>1, StepNames DEF PutPassword, CameTo
  <2>2. \A s : InPlace(s) => InPlace(s)'
    BY <1>2 DEF PutPassword, InPlace, HasRoot
  <2>3. InPlace(Steps[1])'
    BY <1>2, StepNames DEF PutPassword, InPlace
  <2>4. Go(f, After(f, 1)) /\ form' = form /\ Saved(f, Steps[1])
    BY <1>2, <2>1, StepNames DEF PutPassword
  <2>5. 1 \in 1..6
    OBVIOUS
  <2> QED
    BY <1>1, <2>1, <2>2, <2>3, <2>4, <2>5
<1>3. CASE CreateSource(f)
  <2>1. PICK i \in {5, 6} : flow[f] = Steps[i]
    BY <1>3, StepNames DEF CreateSource
  <2>2. CameTo(f, i) /\ Pos(flow[f]) = i
    BY <2>1, PosOfStep DEF CameTo
  <2>3. /\ \A s : InPlace(s) => InPlace(s)'
        /\ \A s \in {"source", "device"} : s \in sources' => InPlace(s)'
    BY <1>3, StepNames DEF CreateSource, InPlace, HasRoot
  <2>4. InPlace(Steps[i])'
    BY <1>3, <2>1, <2>3, StepNames DEF CreateSource
  <2> QED
    BY <1>1, <1>3, <2>1, <2>2, <2>3, <2>4 DEF CreateSource
<1>4. ASSUME NEW k \in Kinds, SaveRoot(f, k) \/ CreateRoot(f, k) PROVE SetupIInv'
  <2>1. PICK i \in {2, 3} : k = Steps[i]
    BY StepNames
  <2>2. CameTo(f, i) /\ Pos(k) = i
    <3>1. Pos(Steps[i]) = i
      BY PosOfStep
    <3>2. flow[f] = SaveStep[k]
      BY <1>4 DEF SaveRoot, CreateRoot, Saving
    <3> QED
      BY <2>1, <3>1, <3>2 DEF CameTo
  <2>3. HasRoot(k)' /\ \A l \in Kinds : HasRoot(l) => HasRoot(l)'
    <3>1. Root(k, f) \in roots' /\ Root(k, f).kind = k
      BY <1>4 DEF SaveRoot, CreateRoot, Root
    <3>2. \A r \in roots : r.kind # k => r \in roots'
      BY <1>4 DEF SaveRoot, CreateRoot
    <3> QED
      BY <3>1, <3>2 DEF HasRoot
  <2>4. /\ UNCHANGED <<sources, passwordSet, form>> /\ Go(f, After(f, Pos(k)))
        /\ Saved(f, k)
    BY <1>4 DEF SaveRoot, CreateRoot
  <2>5. InPlace(k)' /\ \A s : InPlace(s) => InPlace(s)'
    BY <2>3, <2>4, StepNames DEF InPlace
  <2> QED
    BY <1>1, <2>1, <2>2, <2>4, <2>5
<1> QED
  BY <1>2, <1>3, <1>4

LEMMA NextSetup == SetupIInv /\ [SetupNext]_setupVars => SetupIInv'
<1> SUFFICES ASSUME SetupIInv, [SetupNext]_setupVars PROVE SetupIInv'
  OBVIOUS
<1>0. SetupTyped /\ {} \in Forms \cup {{}}
  BY DEF SetupIInv
<1>1. \A g \in Flows : flow'[g] = flow[g] => \A i \in 1..7 : CameTo(g, i)' => CameTo(g, i)
  BY DEF CameTo
<1>2. ASSUME NEW f \in Flows, NEW label \in Elsewhere, Go(f, label),
             \A s : InPlace(s) => InPlace(s)', UNCHANGED press \/ Finished(f)
      PROVE  SetupIInv'
  <2>1. flow' = [flow EXCEPT ![f] = label]
    BY <1>2 DEF Go
  <2>2. \/ form' = form /\ saved' = saved
        \/ form' = [form EXCEPT ![f] = {}] /\ saved' = [saved EXCEPT ![f] = {}]
    BY <1>2 DEF press, Finished
  <2>3. SetupTyped'
    BY <1>0, <2>1, <2>2 DEF SetupTyped
  <2>4. \A g \in Flows : /\ saved'[g] \subseteq saved[g]
                         /\ \/ flow'[g] \in Elsewhere
                            \/ form'[g] = form[g] /\ saved'[g] = saved[g] /\ flow'[g] = flow[g]
    BY <1>0, <2>1, <2>2 DEF SetupTyped
  <2> QED
    BY <1>1, <1>2, <2>3, <2>4, OutsideKeeps
<1>3. ASSUME UNCHANGED stored PROVE \A s : InPlace(s) => InPlace(s)'
  BY <1>3 DEF stored, InPlace, HasRoot
<1>4. ASSUME NEW f \in Flows,
             \/ GetStatus(f) \/ Show(f) \/ PostLogin(f) \/ StoreToken(f)
             \/ PostLogout(f) \/ ClearToken(f) \/ PressLogin(f) \/ PressLogout(f)
      PROVE  SetupIInv'
  <2>1. UNCHANGED stored /\ UNCHANGED press
    BY <1>4 DEF GetStatus, Show, PostLogin, StoreToken, PostLogout, ClearToken,
                PressLogin, PressLogout, Press
  <2>2. \E label \in Elsewhere : Go(f, label)
    BY <1>4 DEF GetStatus, Show, PostLogin, StoreToken, PostLogout, ClearToken,
                PressLogin, PressLogout, Elsewhere
  <2> QED
    BY <1>2, <1>3, <2>1, <2>2
<1>5. ASSUME NEW f \in Flows, GiveUp(f), UNCHANGED stored PROVE SetupIInv'
  BY <1>2, <1>3, <1>5 DEF GiveUp, Elsewhere
<1>6. ASSUME NEW f \in Flows, Complete(f) PROVE SetupIInv'
  <2>1. \A s : InPlace(s) => InPlace(s)'
    BY <1>6 DEF Complete, InPlace, HasRoot
  <2> QED
    BY <1>2, <1>6, <2>1 DEF Complete, Elsewhere
<1>7. ASSUME NEW f \in Flows, NEW asked \in Forms, PressFinish(f, asked) PROVE SetupIInv'
  <2> DEFINE m == Min({j \in 0 + 1..7 : j = 7 \/ Steps[j] \in asked})
  <2>1. m \in 0 + 1..7 /\ \A j \in 0 + 1..(m - 1) : Steps[j] \notin asked
    BY FirstAsked
  <2>2. form' = [form EXCEPT ![f] = asked] /\ saved' = [saved EXCEPT ![f] = {}]
    BY <1>7 DEF PressFinish
  <2>3. form'[f] = asked /\ saved'[f] = {}
        /\ \A g \in Flows \ {f} : form'[g] = form[g] /\ saved'[g] = saved[g]
    BY <1>0, <2>2 DEF SetupTyped
  <2>4. 0 + 1 = 1 /\ 0 \in 0..6 /\ ~ (0 > 0)
    OBVIOUS
  <2>5. flow' = [flow EXCEPT ![f] = Steps[m]]
    BY <1>7, <2>4 DEF PressFinish, Go
  <2>6. \A s : InPlace(s) => InPlace(s)'
    BY <1>3, <1>7 DEF PressFinish, Press
  <2> HIDE DEF m
  <2>7. m \in 0 + 1..7 /\ \A j \in 0 + 1..(m - 1) : Steps[j] \notin form'[f]
    BY <2>1, <2>3
  <2>8. m \in 1..7 /\ Steps[m] \in StepLabels
    BY <2>7, OneStep
  <2>9. SetupTyped'
    BY <1>0, <2>2, <2>5, <2>8 DEF SetupTyped
  <2> QED
    BY <2>3, <2>4, <2>5, <2>6, <2>7, <2>9, GoingOn
<1>8. ASSUME NEW f \in Flows, NEW k \in Kinds, ListRoots(f, k) PROVE SetupIInv'
  <2>1. PICK i \in 1..7 : Steps[i] = k
    <3>1. 2 \in 1..7 /\ 3 \in 1..7
      OBVIOUS
    <3> QED
      BY <3>1, StepNames
  <2>2. flow' = [flow EXCEPT ![f] = SaveStep[k]] /\ flow[f] = k /\ form' = form /\ saved' = saved
    BY <1>8 DEF ListRoots, Go, press
  <2>3. SetupTyped'
    BY <1>0, <2>2, OneStep DEF SetupTyped
  <2>4. \A j \in 1..7 : CameTo(f, j)' => CameTo(f, j)
    BY <1>0, <2>1, <2>2, OneStep DEF CameTo, SetupTyped
  <2>5. \A g \in Flows \ {f} : flow'[g] = flow[g]
    BY <1>0, <2>2 DEF SetupTyped
  <2>6. \A s : InPlace(s) => InPlace(s)'
    BY <1>3, <1>8 DEF ListRoots
  <2> QED
    BY <1>1, <2>2, <2>3, <2>4, <2>5, <2>6, OutsideKeeps
<1>9. ASSUME NEW f \in Flows, RequestFails(f) PROVE SetupIInv'
  <2>1. CASE GiveUp(f)
    BY <1>5, <1>9, <2>1 DEF RequestFails
  <2>2. CASE Go(f, "signed out") /\ UNCHANGED press
    BY <1>2, <1>3, <1>9, <2>2 DEF RequestFails, Elsewhere
  <2> QED
    BY <1>9, <2>1, <2>2 DEF RequestFails, press
<1>10. ASSUME UNCHANGED stored, SetupTyped',
              \A g \in Flows : /\ saved'[g] \subseteq saved[g]
                               /\ \/ flow'[g] \in Elsewhere
                                  \/ form'[g] = form[g] /\ saved'[g] = saved[g] /\ flow'[g] = flow[g]
       PROVE  SetupIInv'
  BY <1>1, <1>3, <1>10, OutsideKeeps
<1>11. CASE UNCHANGED <<flow, press, stored>>
  BY <1>0, <1>10, <1>11 DEF press, SetupTyped
<1>12. CASE Restart
  <2>1. PICK cut \in SUBSET Flows :
            /\ flow' = [f \in Flows |-> IF f \in cut THEN "idle" ELSE flow[f]]
            /\ form' = [f \in Flows |-> IF f \in cut THEN {} ELSE form[f]]
            /\ saved' = [f \in Flows |-> IF f \in cut THEN {} ELSE saved[f]]
            /\ UNCHANGED stored
    <3>1. Saving("movie") \cup Saving("tv") \in SUBSET Flows
      BY DEF Saving
    <3> QED
      BY <1>12, <3>1 DEF Restart
  <2>2. SetupTyped'
    BY <1>0, <2>1 DEF SetupTyped, Elsewhere
  <2> QED
    BY <1>10, <2>1, <2>2 DEF Elsewhere
<1>13. CASE Reload
  <2>1. /\ flow' \in [Flows -> Elsewhere] /\ UNCHANGED stored
        /\ form' = [f \in Flows |-> {}] /\ saved' = [f \in Flows |-> {}]
    BY <1>13 DEF Reload, Load, Elsewhere
  <2>2. SetupTyped'
    BY <2>1 DEF SetupTyped
  <2> QED
    BY <1>10, <2>1, <2>2
<1>14. ASSUME NEW f \in Flows, Click(f) PROVE SetupIInv'
  BY <1>4, <1>7, <1>14 DEF Click
<1>15. ASSUME NEW f \in Flows, Step(f) PROVE SetupIInv'
  BY <1>4, <1>5, <1>6, <1>8, <1>15, NextStepOfFinish
  DEF Step, Refused, CreateRootFails
<1> QED
  BY <1>9, <1>11, <1>12, <1>13, <1>14, <1>15 DEF SetupNext, Expire, setupVars, press, stored

(* A finish() that is about to mark the setup complete has itself stored all that its
   form asked for, and all of it is there, whatever other flows, earlier presses,
   failed requests, expiries, reloads and restarts came in between. *)
THEOREM SetupFinishedMeansConfigured == SetupSpec => []FinishedMeansConfigured
<1>1. SetupIInv => FinishedMeansConfigured
  <2> SUFFICES ASSUME SetupIInv, NEW f \in Flows, flow[f] = "complete"
               PROVE  form[f] \subseteq saved[f] /\ \A s \in saved[f] : InPlace(s)
    BY DEF FinishedMeansConfigured
  <2>1. StoredUpTo(f, 7)
    <3>1. 7 \in 1..7
      OBVIOUS
    <3>2. flow[f] = Steps[7]
      BY StepNames
    <3> QED
      BY <3>1, <3>2 DEF SetupIInv, CameTo
  <2>2. \A j \in {1, 2, 3, 4, 5, 6} : Steps[j] \in form[f] => Steps[j] \in saved[f]
    BY <2>1 DEF StoredUpTo
  <2>3. \A s \in form[f] : \E j \in {1, 2, 3, 4, 5, 6} : s = Steps[j]
    <3>1. form[f] \subseteq {"password", "movie", "tv", "blank", "source", "device"}
      BY SetupAssumption DEF SetupIInv, SetupTyped
    <3> QED
      BY <3>1, StepNames
  <2> QED
    BY <2>2, <2>3 DEF SetupIInv
<1> QED
  BY <1>1, InitSetup, NextSetup, PTL DEF SetupSpec
=============================================================================
