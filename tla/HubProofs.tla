----------------------------- MODULE HubProofs -----------------------------
(* What HubProps states, for every set of clients and keys: types,
   singleflight, one upstream for a key, sound subscriber tables, and live
   sessions that stay in the map.

   The inductive invariant is the conjunction of the four parts below.
   OneUpstreamPerKey is not inductive: that a creator finds no session to
   clash with rests on sess and creating never both naming a key, and that an
   expiry never drops a live session on a session in its grace being done;
   SessionLife records both. *)
EXTENDS HubProps, TLAPS

IInv == TypeOK /\ SingleFlight /\ SessionLife /\ SubscriberLife

LEMMA InitIInv == Init => IInv
BY HubAssumption
DEF Init, IInv, TypeOK, SingleFlight, SessionLife, SubscriberLife, PumpStates,
    ClientStates, Subscribed

(* Every step keeps every variable in its type. *)
LEMMA NextTypeOK == IInv /\ [Next]_vars => TypeOK'
<1> SUFFICES ASSUME IInv, [Next]_vars PROVE TypeOK'
  OBVIOUS
<1>0. TypeOK /\ SingleFlight /\ SessionLife /\ SubscriberLife
  BY DEF IInv
<1> USE HubAssumption
<1>1. ASSUME NEW c \in Clients,
             \/ Start(c) \/ Wake(c) \/ WaitCancelled(c)
      PROVE  TypeOK'
  BY <1>0, <1>1
  DEF TypeOK, PumpStates, ClientStates, Start, Wake, WaitCancelled, Goto,
      hubVars, clientVars
<1>2. ASSUME NEW c \in Clients, Join(c) PROVE TypeOK'
  BY <1>0, <1>2
  DEF TypeOK, PumpStates, ClientStates, Join, Live, AddSub, Goto, hubVars,
      clientVars
<1>3. ASSUME NEW c \in Clients, Wait(c) PROVE TypeOK'
  BY <1>0, <1>3
  DEF TypeOK, PumpStates, ClientStates, Wait, Live, Goto, hubVars,
      clientVars
<1>4. ASSUME NEW c \in Clients, Create(c) PROVE TypeOK'
  BY <1>0, <1>4
  DEF TypeOK, PumpStates, ClientStates, Create, Live, Goto, hubVars,
      clientVars
<1>5. ASSUME NEW c \in Clients, OpenOk(c) PROVE TypeOK'
  BY <1>0, <1>5
  DEF TypeOK, PumpStates, ClientStates, OpenOk, Goto, hubVars, clientVars
<1>6. ASSUME NEW c \in Clients, OpenFail(c) PROVE TypeOK'
  BY <1>0, <1>6
  DEF TypeOK, PumpStates, ClientStates, OpenFail, Goto, hubVars, clientVars
<1>7. ASSUME NEW c \in Clients, Register(c) PROVE TypeOK'
  BY <1>0, <1>7
  DEF TypeOK, PumpStates, ClientStates, Register, AddSub, Goto, hubVars,
      clientVars
<1>8. ASSUME NEW c \in Clients,
             \/ PumpRead(c) \/ PumpReadLast(c) \/ PumpClose(c)
             \/ PumpSignal(c)
      PROVE  TypeOK'
  BY <1>0, <1>8
  DEF TypeOK, PumpStates, ClientStates, PumpRead, PumpReadLast, PumpClose,
      PumpSignal, PumpGoto, hubVars, clientVars
<1>9. ASSUME NEW c \in Clients, PumpSend(c) PROVE TypeOK'
  BY <1>0, <1>9
  DEF TypeOK, PumpStates, ClientStates, PumpSend, PumpGoto, hubVars,
      clientVars
<1>10. ASSUME NEW c \in Clients, PumpDrain(c) PROVE TypeOK'
  BY <1>0, <1>10
  DEF TypeOK, PumpStates, ClientStates, PumpDrain, PumpGoto, hubVars,
      clientVars
<1>11. ASSUME NEW c \in Clients, PumpExpire(c) PROVE TypeOK'
  BY <1>0, <1>11
  DEF TypeOK, PumpStates, ClientStates, PumpExpire, PumpGoto, hubVars,
      clientVars
<1>12. ASSUME NEW c \in Clients, Read(c) PROVE TypeOK'
  BY <1>0, <1>12
  DEF TypeOK, PumpStates, ClientStates, Read, Goto, hubVars, clientVars
<1>13. ASSUME NEW c \in Clients,
             \/ ReadEOF(c) \/ WriteOk(c) \/ WriteFail(c)
      PROVE  TypeOK'
  BY <1>0, <1>13
  DEF TypeOK, PumpStates, ClientStates, ReadEOF, WriteOk, WriteFail, Goto,
      hubVars, clientVars
<1>14. ASSUME NEW c \in Clients, Leave(c) PROVE TypeOK'
  BY <1>0, <1>14
  DEF TypeOK, PumpStates, ClientStates, Leave, Close, Goto, hubVars,
      clientVars
<1>15. ASSUME NEW c \in Clients,
             \/ WatchCancel(c) \/ WatchDone(c) \/ Cancel(c)
      PROVE  TypeOK'
  BY <1>0, <1>15
  DEF TypeOK, PumpStates, ClientStates, WatchCancel, WatchDone, Cancel,
      Close, hubVars, clientVars
<1>16. CASE UNCHANGED vars
  BY <1>0, <1>16
  DEF TypeOK, PumpStates, ClientStates, vars, hubVars, clientVars
<1> QED
  BY <1>1, <1>2, <1>3, <1>4, <1>5, <1>6, <1>7, <1>8, <1>9, <1>10, <1>11,
     <1>12, <1>13, <1>14, <1>15, <1>16
  DEF Next, Subscribing, Opening, Reading, Writing, Watching, Ending

(* Only Create enters open(), and it finds nobody there for its key;
   OpenFail and Register leave it and erase their own entry. *)
LEMMA NextSingleFlight == IInv /\ [Next]_vars => SingleFlight'
<1> SUFFICES ASSUME IInv, [Next]_vars PROVE SingleFlight'
  OBVIOUS
<1>0. TypeOK /\ SingleFlight /\ SessionLife /\ SubscriberLife
  BY DEF IInv
<1> USE HubAssumption
<1>1. ASSUME NEW c \in Clients,
             \/ Start(c) \/ Join(c) \/ Wait(c) \/ Wake(c)
             \/ WaitCancelled(c)
      PROVE  SingleFlight'
  BY <1>0, <1>1
  DEF TypeOK, SingleFlight, Start, Join, Wait, Wake, WaitCancelled, Goto,
      Live, AddSub, hubVars, clientVars
<1>2. ASSUME NEW c \in Clients, Create(c) PROVE SingleFlight'
  BY <1>0, <1>2
  DEF TypeOK, SingleFlight, Create, Live, Goto, hubVars, clientVars
<1>3. ASSUME NEW c \in Clients, OpenOk(c) PROVE SingleFlight'
  BY <1>0, <1>3
  DEF TypeOK, SingleFlight, OpenOk, Goto, hubVars, clientVars
<1>4. ASSUME NEW c \in Clients, OpenFail(c) PROVE SingleFlight'
  BY <1>0, <1>4
  DEF TypeOK, SingleFlight, OpenFail, Goto, hubVars, clientVars
<1>5. ASSUME NEW c \in Clients, Register(c) PROVE SingleFlight'
  BY <1>0, <1>5
  DEF TypeOK, SingleFlight, Register, AddSub, Goto, hubVars, clientVars
<1>6. ASSUME NEW c \in Clients,
             \/ PumpRead(c) \/ PumpReadLast(c) \/ PumpSend(c)
             \/ PumpDrain(c) \/ PumpClose(c) \/ PumpSignal(c)
             \/ PumpExpire(c)
      PROVE  SingleFlight'
  BY <1>0, <1>6
  DEF TypeOK, SingleFlight, PumpRead, PumpReadLast, PumpSend, PumpDrain,
      PumpClose, PumpSignal, PumpExpire, PumpGoto, hubVars, clientVars
<1>7. ASSUME NEW c \in Clients,
             \/ Read(c) \/ ReadEOF(c) \/ WriteOk(c) \/ WriteFail(c)
             \/ Leave(c)
      PROVE  SingleFlight'
  BY <1>0, <1>7
  DEF TypeOK, SingleFlight, Read, ReadEOF, WriteOk, WriteFail, Leave, Goto,
      Close, hubVars, clientVars
<1>8. ASSUME NEW c \in Clients,
             \/ WatchCancel(c) \/ WatchDone(c) \/ Cancel(c)
      PROVE  SingleFlight'
  BY <1>0, <1>8
  DEF TypeOK, SingleFlight, WatchCancel, WatchDone, Cancel, Close, hubVars,
      clientVars
<1>9. CASE UNCHANGED vars
  BY <1>0, <1>9
  DEF TypeOK, SingleFlight, vars, hubVars, clientVars
<1> QED
  BY <1>1, <1>2, <1>3, <1>4, <1>5, <1>6, <1>7, <1>8, <1>9
  DEF Next, Subscribing, Opening, Reading, Writing, Watching, Ending

(* A session is made where there is none, its upstream is open until the
   pump closes it, and it leaves the map done. *)
LEMMA NextSessionLife == IInv /\ [Next]_vars => SessionLife'
<1> SUFFICES ASSUME IInv, [Next]_vars PROVE SessionLife'
  OBVIOUS
<1>0. TypeOK /\ SingleFlight /\ SessionLife /\ SubscriberLife
  BY DEF IInv
<1> USE HubAssumption
<1>1. ASSUME NEW c \in Clients,
             \/ Start(c) \/ Join(c) \/ Wake(c) \/ WaitCancelled(c)
      PROVE  SessionLife'
  BY <1>0, <1>1
  DEF TypeOK, SingleFlight, SessionLife, PumpStates, ClientStates, Start,
      Join, Wake, WaitCancelled, Goto, Live, AddSub, hubVars, clientVars
<1>2. ASSUME NEW c \in Clients, Wait(c) PROVE SessionLife'
  BY <1>0, <1>2
  DEF TypeOK, SingleFlight, SessionLife, PumpStates, ClientStates, Wait,
      Live, Goto, hubVars, clientVars
<1>3. ASSUME NEW c \in Clients, Create(c) PROVE SessionLife'
  BY <1>0, <1>3
  DEF TypeOK, SingleFlight, SessionLife, PumpStates, ClientStates, Create,
      Live, Goto, hubVars, clientVars
<1>4. ASSUME NEW c \in Clients, OpenOk(c) PROVE SessionLife'
  BY <1>0, <1>4
  DEF TypeOK, SingleFlight, SessionLife, PumpStates, ClientStates, OpenOk,
      Goto, hubVars, clientVars
<1>5. ASSUME NEW c \in Clients, OpenFail(c) PROVE SessionLife'
  BY <1>0, <1>5
  DEF TypeOK, SingleFlight, SessionLife, PumpStates, ClientStates, OpenFail,
      Goto, hubVars, clientVars
<1>6. ASSUME NEW c \in Clients, Register(c) PROVE SessionLife'
  BY <1>0, <1>6
  DEF TypeOK, SingleFlight, SessionLife, PumpStates, ClientStates, Register,
      AddSub, Goto, hubVars, clientVars
<1>7. ASSUME NEW c \in Clients,
             \/ PumpRead(c) \/ PumpReadLast(c)
      PROVE  SessionLife'
  BY <1>0, <1>7
  DEF TypeOK, SingleFlight, SessionLife, PumpStates, ClientStates, PumpRead,
      PumpReadLast, PumpGoto, hubVars, clientVars
<1>8. ASSUME NEW c \in Clients, PumpSend(c) PROVE SessionLife'
  BY <1>0, <1>8
  DEF TypeOK, SingleFlight, SessionLife, PumpStates, ClientStates, PumpSend,
      PumpGoto, hubVars, clientVars
<1>9. ASSUME NEW c \in Clients, PumpDrain(c) PROVE SessionLife'
  BY <1>0, <1>9
  DEF TypeOK, SingleFlight, SessionLife, PumpStates, ClientStates,
      PumpDrain, PumpGoto, hubVars, clientVars
<1>10. ASSUME NEW c \in Clients, PumpClose(c) PROVE SessionLife'
  BY <1>0, <1>10
  DEF TypeOK, SingleFlight, SessionLife, PumpStates, ClientStates,
      PumpClose, PumpGoto, hubVars, clientVars
<1>11. ASSUME NEW c \in Clients, PumpSignal(c) PROVE SessionLife'
  BY <1>0, <1>11
  DEF TypeOK, SingleFlight, SessionLife, PumpStates, ClientStates,
      PumpSignal, PumpGoto, hubVars, clientVars
<1>12. ASSUME NEW c \in Clients, PumpExpire(c) PROVE SessionLife'
  BY <1>0, <1>12
  DEF TypeOK, SingleFlight, SessionLife, PumpStates, ClientStates,
      PumpExpire, PumpGoto, hubVars, clientVars
<1>13. ASSUME NEW c \in Clients,
             \/ Read(c) \/ ReadEOF(c) \/ WriteOk(c) \/ WriteFail(c)
             \/ Leave(c)
      PROVE  SessionLife'
  BY <1>0, <1>13
  DEF TypeOK, SingleFlight, SessionLife, PumpStates, ClientStates, Read,
      ReadEOF, WriteOk, WriteFail, Leave, Goto, Close, hubVars, clientVars
<1>14. ASSUME NEW c \in Clients,
             \/ WatchCancel(c) \/ WatchDone(c) \/ Cancel(c)
      PROVE  SessionLife'
  BY <1>0, <1>14
  DEF TypeOK, SingleFlight, SessionLife, PumpStates, ClientStates,
      WatchCancel, WatchDone, Cancel, Close, hubVars, clientVars
<1>15. CASE UNCHANGED vars
  BY <1>0, <1>15
  DEF TypeOK, SingleFlight, SessionLife, PumpStates, ClientStates, vars,
      hubVars, clientVars
<1> QED
  BY <1>1, <1>2, <1>3, <1>4, <1>5, <1>6, <1>7, <1>8, <1>9, <1>10, <1>11,
     <1>12, <1>13, <1>14, <1>15
  DEF Next, Subscribing, Opening, Reading, Writing, Watching, Ending

(* A client enters one table, with an open channel, and its channel is
   closed by the step that takes it out. *)
LEMMA NextSubscriberLife == IInv /\ [Next]_vars => SubscriberLife'
<1> SUFFICES ASSUME IInv, [Next]_vars PROVE SubscriberLife'
  OBVIOUS
<1>0. TypeOK /\ SingleFlight /\ SessionLife /\ SubscriberLife
  BY DEF IInv
<1> USE HubAssumption
<1>1. ASSUME NEW c \in Clients, Start(c) PROVE SubscriberLife'
  BY <1>0, <1>1
  DEF TypeOK, SubscriberLife, SessionLife, Subscribed, ClientStates, Start,
      Goto, hubVars, clientVars
<1>2. ASSUME NEW c \in Clients, Join(c) PROVE SubscriberLife'
  BY <1>0, <1>2
  DEF TypeOK, SubscriberLife, SessionLife, Subscribed, ClientStates, Join,
      Live, AddSub, Goto, hubVars, clientVars
<1>3. ASSUME NEW c \in Clients,
             \/ Wait(c) \/ Wake(c) \/ WaitCancelled(c)
      PROVE  SubscriberLife'
  BY <1>0, <1>3
  DEF TypeOK, SubscriberLife, SessionLife, Subscribed, ClientStates, Wait,
      Wake, WaitCancelled, Live, Goto, hubVars, clientVars
<1>4. ASSUME NEW c \in Clients,
             \/ Create(c) \/ OpenOk(c) \/ OpenFail(c)
      PROVE  SubscriberLife'
  BY <1>0, <1>4
  DEF TypeOK, SubscriberLife, SessionLife, Subscribed, ClientStates, Create,
      OpenOk, OpenFail, Live, Goto, hubVars, clientVars
<1>5. ASSUME NEW c \in Clients, Register(c) PROVE SubscriberLife'
  BY <1>0, <1>5
  DEF TypeOK, SubscriberLife, SessionLife, Subscribed, ClientStates,
      Register, AddSub, Goto, hubVars, clientVars
<1>6. ASSUME NEW c \in Clients, PumpDrain(c) PROVE SubscriberLife'
  BY <1>0, <1>6
  DEF TypeOK, SubscriberLife, SessionLife, Subscribed, ClientStates,
      PumpDrain, PumpGoto, hubVars, clientVars
<1>7. ASSUME NEW c \in Clients,
             \/ PumpRead(c) \/ PumpReadLast(c) \/ PumpSend(c)
             \/ PumpClose(c) \/ PumpSignal(c) \/ PumpExpire(c)
      PROVE  SubscriberLife'
  BY <1>0, <1>7
  DEF TypeOK, SubscriberLife, SessionLife, Subscribed, ClientStates,
      PumpRead, PumpReadLast, PumpSend, PumpClose, PumpSignal, PumpExpire,
      PumpGoto, hubVars, clientVars
<1>8. ASSUME NEW c \in Clients,
             \/ Read(c) \/ ReadEOF(c) \/ WriteOk(c) \/ WriteFail(c)
      PROVE  SubscriberLife'
  BY <1>0, <1>8
  DEF TypeOK, SubscriberLife, SessionLife, Subscribed, ClientStates, Read,
      ReadEOF, WriteOk, WriteFail, Goto, hubVars, clientVars
<1>9. ASSUME NEW c \in Clients, Leave(c) PROVE SubscriberLife'
  BY <1>0, <1>9
  DEF TypeOK, SubscriberLife, SessionLife, Subscribed, ClientStates, Leave,
      Close, Goto, hubVars, clientVars
<1>10. ASSUME NEW c \in Clients, WatchCancel(c) PROVE SubscriberLife'
  BY <1>0, <1>10
  DEF TypeOK, SubscriberLife, SessionLife, Subscribed, ClientStates,
      WatchCancel, Close, hubVars, clientVars
<1>11. ASSUME NEW c \in Clients,
             \/ WatchDone(c) \/ Cancel(c)
      PROVE  SubscriberLife'
  BY <1>0, <1>11
  DEF TypeOK, SubscriberLife, SessionLife, Subscribed, ClientStates,
      WatchDone, Cancel, hubVars, clientVars
<1>12. CASE UNCHANGED vars
  BY <1>0, <1>12
  DEF TypeOK, SubscriberLife, SessionLife, Subscribed, ClientStates, vars,
      hubVars, clientVars
<1> QED
  BY <1>1, <1>2, <1>3, <1>4, <1>5, <1>6, <1>7, <1>8, <1>9, <1>10, <1>11,
     <1>12
  DEF Next, Subscribing, Opening, Reading, Writing, Watching, Ending

LEMMA NextIInv == IInv /\ [Next]_vars => IInv'
BY NextTypeOK, NextSingleFlight, NextSessionLife, NextSubscriberLife DEF IInv

(* The hub's state is typed in every reachable state. *)
THEOREM HubTypeOK == Spec => []TypeOK
<1>1. IInv => TypeOK
  BY DEF IInv
<1> QED
  BY InitIInv, NextIInv, <1>1, PTL DEF Spec

(* Two clients never open the same key at once. *)
THEOREM HubSingleFlight == Spec => []SingleFlight
<1>1. IInv => SingleFlight
  BY DEF IInv
<1> QED
  BY InitIInv, NextIInv, <1>1, PTL DEF Spec

(* At most one upstream is open for a key at any moment. *)
THEOREM HubOneUpstreamPerKey == Spec => []OneUpstreamPerKey
<1>1. IInv => OneUpstreamPerKey
  <2> SUFFICES ASSUME IInv, NEW s \in upstream, NEW t \in upstream,
                      want[s] = want[t]
               PROVE  s = t
    BY DEF OneUpstreamPerKey
  <2>0. s \in Clients /\ t \in Clients /\ want[s] \in Keys
    BY DEF IInv, TypeOK
  <2>1. pc[s] = "opened" \/ sess[want[s]] = s
    BY <2>0 DEF IInv, SessionLife
  <2>2. pc[t] = "opened" \/ sess[want[s]] = t
    BY <2>0 DEF IInv, SessionLife
  <2>3. /\ pc[s] = "opened" => creating[want[s]] = s
        /\ pc[t] = "opened" => creating[want[s]] = t
    BY <2>0 DEF IInv, SingleFlight
  <2>4. creating[want[s]] # None => sess[want[s]] = None
    BY <2>0 DEF IInv, SessionLife
  <2> QED
    BY <2>0, <2>1, <2>2, <2>3, <2>4, HubAssumption
<1> QED
  BY InitIInv, NextIInv, <1>1, PTL DEF Spec

(* The pump and Close never send on, or close, a closed channel. *)
THEOREM HubSubscribersAreOpen == Spec => []SubscribersAreOpen
<1>1. IInv => SubscribersAreOpen
  BY DEF IInv, TypeOK, SubscriberLife, SubscribersAreOpen
<1> QED
  BY InitIInv, NextIInv, <1>1, PTL DEF Spec

(* No step drops a live session from the map, or puts another in its place. *)
THEOREM HubLiveSessionsStay == Spec => LiveSessionsStay
<1>1. IInv /\ [Next]_vars => [\A k \in Keys : Live(k) => sess'[k] = sess[k]]_vars
  <2> SUFFICES ASSUME IInv, Next, NEW k \in Keys, Live(k)
               PROVE  sess'[k] = sess[k]
    OBVIOUS
  <2>0. TypeOK /\ SingleFlight /\ SessionLife
    BY DEF IInv
  <2>1. ASSUME NEW c \in Clients, Wait(c) \/ Create(c) PROVE sess'[k] = sess[k]
    BY <2>0, <2>1 DEF Wait, Create, TypeOK
  <2>2. ASSUME NEW c \in Clients, Register(c) PROVE sess'[k] = sess[k]
    <3>1. sess[want[c]] = None
      BY <2>0, <2>2, HubAssumption DEF Register, TypeOK, SingleFlight, SessionLife
    <3> QED
      BY <2>0, <2>2, <3>1 DEF Register, TypeOK, Live
  <2>3. ASSUME NEW c \in Clients, PumpExpire(c) PROVE sess'[k] = sess[k]
    <3>1. c \in done
      BY <2>0, <2>3 DEF PumpExpire, PumpGoto, SessionLife
    <3> QED
      BY <2>0, <2>3, <3>1 DEF PumpExpire, TypeOK, Live
  <2>4. ASSUME sess' = sess PROVE sess'[k] = sess[k]
    BY <2>4
  <2> QED
    BY <2>1, <2>2, <2>3, <2>4
    DEF Next, Subscribing, Opening, Reading, Writing, Watching, Ending, hubVars,
        Start, Join, Wake, WaitCancelled, OpenOk, OpenFail, PumpRead,
        PumpReadLast, PumpSend, PumpDrain, PumpClose, PumpSignal, Read, ReadEOF,
        WriteOk, WriteFail, Leave, WatchCancel, WatchDone, Cancel
<1> QED
  BY InitIInv, NextIInv, <1>1, PTL DEF Spec, LiveSessionsStay
=============================================================================
