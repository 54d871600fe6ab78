--------------------------- MODULE RateLimitProofs ---------------------------
(* What the two limiters of the package promise: the pool for every capacity
   and every finite set of callers, the byte-rate cap for every rate, slice and
   clock. *)
EXTENDS Pool, ByteLimiter, FiniteSetTheorems, TLAPS

IInv == TypeOK /\ CountsAgree

(* Moving one holder from a state outside S to a state inside it adds one to
   At(S); the other way takes one away; a move that does not cross the border
   changes nothing. *)
LEMMA AtFinite ==
  ASSUME NEW S
  PROVE  IsFiniteSet(At(S)) /\ Cardinality(At(S)) \in Nat
<1>1. At(S) \subseteq Holders
  BY DEF At
<1> QED
  BY <1>1, PoolAssumption, FS_Subset, FS_CardinalityType

LEMMA AtEnter ==
  ASSUME TypeOK, NEW h \in Holders, NEW S, NEW v,
         v \in S, pc[h] \notin S, pc' = [pc EXCEPT ![h] = v]
  PROVE  /\ At(S)' = At(S) \cup {h}
         /\ Cardinality(At(S)') = Cardinality(At(S)) + 1
<1>1. At(S)' = At(S) \cup {h} /\ h \notin At(S)
  BY DEF At, TypeOK
<1> QED
  BY <1>1, AtFinite, FS_AddElement

LEMMA AtLeave ==
  ASSUME TypeOK, NEW h \in Holders, NEW S, NEW v,
         v \notin S, pc[h] \in S, pc' = [pc EXCEPT ![h] = v]
  PROVE  /\ At(S)' = At(S) \ {h}
         /\ Cardinality(At(S)') = Cardinality(At(S)) - 1
         /\ Cardinality(At(S)) > 0
<1>1. At(S)' = At(S) \ {h} /\ h \in At(S)
  BY DEF At, TypeOK
<1>2. Cardinality(At(S) \ {h}) = Cardinality(At(S)) - 1
  BY <1>1, AtFinite, FS_RemoveElement
<1>3. Cardinality(At(S)) # 0
  BY <1>1, AtFinite, FS_EmptySet
<1>4. Cardinality(At(S)) > 0
  BY <1>3, AtFinite
<1> QED
  BY <1>1, <1>2, <1>4

LEMMA AtKeep ==
  ASSUME TypeOK, NEW h \in Holders, NEW S, NEW v,
         (v \in S) <=> (pc[h] \in S), pc' = [pc EXCEPT ![h] = v]
  PROVE  At(S)' = At(S)
BY DEF At, TypeOK

LEMMA CapType == Cap \in Nat /\ Cap >= 1
BY PoolAssumption DEF Cap

LEMMA InitIInv == Init => IInv
<1> SUFFICES ASSUME Init PROVE IInv
  OBVIOUS
<1>1. TypeOK
  BY CapType DEF Init, TypeOK, States
<1>2. At({"sent", "held", "uncounted"}) = {} /\ At({"held"}) = {}
  BY DEF Init, At
<1> QED
  BY <1>1, <1>2, FS_EmptySet DEF Init, IInv, CountsAgree, TokenHolders

LEMMA NextIInv == IInv /\ [Next]_vars => IInv'
<1> USE DEF CountsAgree, TokenHolders
<1> SUFFICES ASSUME IInv, [Next]_vars PROVE IInv'
  OBVIOUS
<1>0. TypeOK /\ CountsAgree
  BY DEF IInv
<1>1. ASSUME NEW h \in Holders, Acquire(h) PROVE IInv'
  <2>1. TypeOK'
    BY <1>0, <1>1 DEF Acquire, TypeOK, States
  <2>2. /\ At({"sent", "held", "uncounted"})' = At({"sent", "held", "uncounted"})
        /\ At({"held"})' = At({"held"})
    BY <1>0, <1>1, AtKeep DEF Acquire
  <2> QED
    BY <1>0, <1>1, <2>1, <2>2 DEF IInv, Acquire
<1>2. ASSUME NEW h \in Holders, AcquireSend(h) PROVE IInv'
  <2>1. TypeOK'
    BY <1>0, <1>2, CapType DEF AcquireSend, TypeOK, States
  <2>2. Cardinality(At({"sent", "held", "uncounted"})') = sem + 1
    BY <1>0, <1>2, AtEnter DEF AcquireSend
  <2>3. At({"held"})' = At({"held"})
    BY <1>0, <1>2, AtKeep DEF AcquireSend
  <2> QED
    BY <1>0, <1>2, <2>1, <2>2, <2>3 DEF IInv, AcquireSend
<1>3. ASSUME NEW h \in Holders, AcquireDone(h) PROVE IInv'
  <2>1. TypeOK'
    BY <1>0, <1>3 DEF AcquireDone, TypeOK, States
  <2>2. /\ At({"sent", "held", "uncounted"})' = At({"sent", "held", "uncounted"})
        /\ At({"held"})' = At({"held"})
    BY <1>0, <1>3, AtKeep DEF AcquireDone
  <2> QED
    BY <1>0, <1>3, <2>1, <2>2 DEF IInv, AcquireDone
<1>4. ASSUME NEW h \in Holders, AcquireCount(h) PROVE IInv'
  <2>1. TypeOK'
    BY <1>0, <1>4 DEF AcquireCount, TypeOK, States
  <2>2. At({"sent", "held", "uncounted"})' = At({"sent", "held", "uncounted"})
    BY <1>0, <1>4, AtKeep DEF AcquireCount
  <2>3. Cardinality(At({"held"})') = inUse + 1
    BY <1>0, <1>4, AtEnter DEF AcquireCount
  <2> QED
    BY <1>0, <1>4, <2>1, <2>2, <2>3 DEF IInv, AcquireCount
<1>5. ASSUME NEW h \in Holders, ReleaseCount(h) PROVE IInv'
  <2>1. /\ Cardinality(At({"held"})') = Cardinality(At({"held"})) - 1
        /\ Cardinality(At({"held"})) > 0
    <3>1. pc[h] \in {"held"} /\ pc' = [pc EXCEPT ![h] = "uncounted"]
      BY <1>5 DEF ReleaseCount
    <3>2. "uncounted" \notin {"held"}
      OBVIOUS
    <3> QED
      BY <1>0, <3>1, <3>2, AtLeave
  <2>2. inUse' = inUse - 1 /\ inUse' \in Nat
    BY <1>0, <1>5, <2>1 DEF ReleaseCount, TypeOK
  <2>3. TypeOK'
    BY <1>0, <1>5, <2>2 DEF ReleaseCount, TypeOK, States
  <2>4. At({"sent", "held", "uncounted"})' = At({"sent", "held", "uncounted"})
    BY <1>0, <1>5, AtKeep DEF ReleaseCount
  <2> QED
    BY <1>0, <1>5, <2>1, <2>2, <2>3, <2>4 DEF IInv, ReleaseCount
<1>6. ASSUME NEW h \in Holders, ReleaseRecv(h) PROVE IInv'
  <2>1. /\ Cardinality(At({"sent", "held", "uncounted"})')
             = Cardinality(At({"sent", "held", "uncounted"})) - 1
        /\ Cardinality(At({"sent", "held", "uncounted"})) > 0
    BY <1>0, <1>6, AtLeave DEF ReleaseRecv
  <2>2. sem' = sem - 1 /\ sem' \in 0..Cap
    BY <1>0, <1>6, <2>1, CapType DEF ReleaseRecv, TypeOK
  <2>3. TypeOK'
    BY <1>0, <1>6, <2>2 DEF ReleaseRecv, TypeOK, States
  <2>4. At({"held"})' = At({"held"})
    BY <1>0, <1>6, AtKeep DEF ReleaseRecv
  <2> QED
    BY <1>0, <1>6, <2>1, <2>2, <2>3, <2>4 DEF IInv, ReleaseRecv
<1>7. ASSUME NEW h \in Holders, Cancel(h) PROVE IInv'
  BY <1>0, <1>7 DEF IInv, Cancel, TypeOK, At
<1>8. CASE UNCHANGED vars
  BY <1>0, <1>8 DEF IInv, vars, TypeOK, At
<1> QED
  BY <1>1, <1>2, <1>3, <1>4, <1>5, <1>6, <1>7, <1>8 DEF Next

LEMMA IInvInUse == IInv => InUseWithinMax
<1> SUFFICES ASSUME IInv PROVE InUseWithinMax
  OBVIOUS
<1>1. At({"held"}) \subseteq TokenHolders
  BY DEF At, TokenHolders
<1>2. Cardinality(At({"held"})) <= Cardinality(TokenHolders)
  BY <1>1, AtFinite, FS_Subset DEF TokenHolders
<1> QED
  BY <1>2, CapType, AtFinite DEF IInv, TypeOK, CountsAgree, InUseWithinMax

(* IInv holds in every reachable state: the counts are typed and agree with
   the calls behind them, whatever the interleaving of Acquire and Release. *)
THEOREM PoolInvariant == Spec => [](TypeOK /\ CountsAgree)
<1>1. IInv <=> TypeOK /\ CountsAgree
  BY DEF IInv
<1> QED
  BY InitIInv, NextIInv, <1>1, PTL DEF Spec

(* The pool never counts or hands out more slots than its capacity. *)
THEOREM PoolWithinMax == Spec => []InUseWithinMax
<1> QED
  BY InitIInv, NextIInv, IInvInUse, PTL DEF Spec

(* With no call in progress every slot is free and the count is zero. *)
THEOREM PoolLeaksNothing == Spec => []NoLeakedSlots
<1>1. IInv => NoLeakedSlots
  <2> SUFFICES ASSUME IInv, \A h \in Holders : pc[h] = "idle"
               PROVE  sem = 0 /\ inUse = 0
    BY DEF NoLeakedSlots
  <2>1. At({"sent", "held", "uncounted"}) = {} /\ At({"held"}) = {}
    BY DEF At
  <2> QED
    BY <2>1, FS_EmptySet DEF IInv, CountsAgree, TokenHolders
<1> QED
  BY InitIInv, NextIInv, <1>1, PTL DEF Spec

(* The pool implements the abstract set of slots: a slot is taken at the send
   on the channel and given back at the receive, and every other step leaves
   the set of holders alone. *)
THEOREM PoolImplementsSlots == Spec => ImplementsSlots
<1> USE DEF TokenHolders
<1>1. Init => Ideal!Init
  BY DEF Init, Ideal!Init, At
<1>2. IInv /\ [Next]_vars => [Ideal!Next]_TokenHolders
  <2> SUFFICES ASSUME IInv, [Next]_vars PROVE [Ideal!Next]_TokenHolders
    OBVIOUS
  <2>0. TypeOK /\ CountsAgree
    BY DEF IInv
  <2>1. ASSUME NEW h \in Holders, AcquireSend(h) PROVE Ideal!Take(h)
    <3>1. TokenHolders' = TokenHolders \cup {h}
      BY <2>0, <2>1, AtEnter DEF AcquireSend
    <3>2. h \notin TokenHolders
      BY <2>1 DEF AcquireSend, At
    <3>3. Cardinality(TokenHolders) < Cap
      BY <2>0, <2>1 DEF AcquireSend, CountsAgree
    <3>4. Ideal!Cardinality(TokenHolders) = Cardinality(TokenHolders)
      BY Zenon DEF Ideal!Cardinality, Cardinality
    <3> QED
      BY <3>1, <3>2, <3>3, <3>4 DEF Ideal!Take
  <2>2. ASSUME NEW h \in Holders, ReleaseRecv(h) PROVE Ideal!Give(h)
    <3>1. TokenHolders' = TokenHolders \ {h}
      BY <2>0, <2>2, AtLeave DEF ReleaseRecv
    <3>2. h \in TokenHolders
      BY <2>2 DEF ReleaseRecv, At
    <3> QED
      BY <3>1, <3>2 DEF Ideal!Give
  <2>3. ASSUME NEW h \in Holders,
               \/ Acquire(h) \/ AcquireDone(h) \/ AcquireCount(h)
               \/ ReleaseCount(h)
        PROVE  TokenHolders' = TokenHolders
    BY <2>0, <2>3, AtKeep
    DEF Acquire, AcquireDone, AcquireCount, ReleaseCount
  <2>4. ASSUME NEW h \in Holders, Cancel(h) PROVE TokenHolders' = TokenHolders
    BY <2>4 DEF Cancel, At
  <2>5. CASE UNCHANGED vars
    BY <2>5 DEF vars, At
  <2> QED
    BY <2>1, <2>2, <2>3, <2>4, <2>5 DEF Next, Ideal!Next
<1> QED
  BY InitIInv, NextIInv, <1>1, <1>2, PTL DEF Spec, ImplementsSlots, Ideal!Spec
----------------------------------------------------------------------------
(* The byte-rate cap.  Products with the rate are the one difficulty: each step
   that needs one distributed over a sum says so, and the solvers then see
   linear facts. *)

(* Nothing is in hand unless it is being read. *)
GotWhileReading == phase # "read" => got = 0

(* What was transferred, what is in hand and what is left in the bucket have
   all been earned by the last refill. *)
Earned == moved * Hz + got * Hz + tok <= Bps * last

(* Until the bucket is refilled after the mark, only the slice that was in hand
   can move; from then on, a full bucket and what the time since has earned. *)
Since == moved - mark.moved + got
BurstEarned ==
    /\ last < mark.at => Since <= Slice
    /\ last >= mark.at =>
          Since * Hz + tok <= Burst + Slice * Hz + Bps * (last - mark.at)

(* The first sleep leaves less than a tick's tokens missing, the second none. *)
SleepPays ==
    /\ naps <= 2
    /\ phase = "asleep" => naps > 0
    /\ phase = "asleep" /\ naps = 1 => tok + Bps * (wake - last) + Bps > Hz
    /\ phase = "asleep" /\ naps = 2 => tok + Bps * (wake - last) >= Hz
    /\ phase = "wait" /\ naps = 1 => tok + Bps * (now - last) + Bps > Hz
    /\ phase = "wait" /\ naps = 2 => tok + Bps * (now - last) >= Hz

LimiterIInv == TokensOK /\ GotWhileReading /\ Earned /\ BurstEarned /\ SleepPays
----------------------------------------------------------------------------
(* Products and quotients of the constants. *)
LEMMA ConstantProducts ==
  /\ Burst \in Nat /\ Burst >= Hz /\ Slice * Hz \in Nat
<1>1. \A a, b \in Nat \ {0} : a * b \in Nat /\ a * b >= a
  OBVIOUS
<1> QED
  BY <1>1, LimiterAssumption DEF Burst

LEMMA Monotone ==
  ASSUME NEW c \in Nat, NEW x \in Int, NEW y \in Int, x <= y
  PROVE  c * x <= c * y
OBVIOUS

LEMMA Distribute ==
  ASSUME NEW c \in Int, NEW x \in Int, NEW y \in Int
  PROVE  /\ c * (x + y) = c * x + c * y
         /\ c * (x - y) = c * x - c * y
         /\ (x + y) * c = x * c + y * c
         /\ c * x \in Int /\ x * c = c * x
OBVIOUS

LEMMA Division ==
  ASSUME NEW a \in Nat, NEW b \in Nat \ {0}
  PROVE  /\ a \div b \in Nat
         /\ (a \div b) * b <= a
         /\ a < (a \div b) * b + b
OBVIOUS
----------------------------------------------------------------------------
(* A refill adds what the time has earned and stops at a full bucket. *)
LEMMA Refill ==
  ASSUME TokensOK
  PROVE  /\ Refilled \in 0..Burst
         /\ Refilled <= tok + Bps * (now - last)
         /\ tok + Bps * (now - last) >= Hz => Refilled >= Hz
<1> DEFINE e == Bps * (now - last)
<1>1. e \in Nat /\ (now - last) * Bps = e
  <2>1. now - last \in Nat
    BY DEF TokensOK
  <2>2. \A a, b \in Nat : a * b \in Nat /\ a * b = b * a
    OBVIOUS
  <2> QED
    BY <2>1, <2>2, LimiterAssumption
<1>2. Refilled = Lesser(tok + e, Burst)
  BY <1>1 DEF Refilled
<1> HIDE DEF e
<1>3. tok \in Nat /\ tok <= Burst
  BY ConstantProducts DEF TokensOK
<1>4. /\ Refilled \in 0..Burst
      /\ Refilled <= tok + e
      /\ tok + e >= Hz => Refilled >= Hz
  BY <1>1, <1>2, <1>3, ConstantProducts, LimiterAssumption DEF Lesser
<1> QED
  BY <1>4 DEF e

(* A refill spends nothing: it may be read as a step of its own. *)
LEMMA RefillEarned ==
  ASSUME TokensOK, Earned, BurstEarned
  PROVE  /\ moved * Hz + got * Hz + Refilled <= Bps * now
         /\ Since * Hz + Refilled <= Burst + Slice * Hz + Bps * (now - mark.at)
<1> USE LimiterAssumption
<1>1. /\ now \in Nat /\ last \in Nat /\ last <= now /\ mark.at \in Nat
      /\ mark.at <= now /\ tok \in Int /\ got \in Nat /\ moved \in Nat
      /\ mark.moved \in Nat /\ Since \in Int
  BY DEF TokensOK, Since
<1>2. Refilled \in Int /\ Refilled <= Burst /\ Refilled <= tok + Bps * (now - last)
  BY Refill, ConstantProducts
<1>3. /\ Bps * (now - last) = Bps * now - Bps * last
      /\ Bps * (now - mark.at) = Bps * now - Bps * mark.at
      /\ Bps * (last - mark.at) = Bps * last - Bps * mark.at
  BY <1>1, Distribute
<1>4. /\ Bps * now \in Int /\ Bps * last \in Int /\ Bps * mark.at \in Int
      /\ moved * Hz \in Int /\ got * Hz \in Int /\ Since * Hz \in Int
      /\ Burst \in Int /\ Slice * Hz \in Int
  BY <1>1, Distribute, ConstantProducts
<1>5. moved * Hz + got * Hz + Refilled <= Bps * now
  BY <1>2, <1>3, <1>4, <1>1 DEF Earned
<1>6. CASE last >= mark.at
  BY <1>2, <1>3, <1>4, <1>1, <1>5, <1>6 DEF BurstEarned
<1>7. CASE last < mark.at
  <2>1. Since * Hz <= Slice * Hz
    BY <1>1, <1>7, Monotone, Distribute DEF BurstEarned
  <2>2. Bps * mark.at <= Bps * now
    BY <1>1, Monotone
  <2> QED
    BY <2>1, <2>2, <1>2, <1>3, <1>4, <1>5
<1> QED
  BY <1>1, <1>6, <1>7

LEMMA LimiterInitIInv == LimiterInit => LimiterIInv
<1> SUFFICES ASSUME LimiterInit PROVE LimiterIInv
  OBVIOUS
<1> USE LimiterAssumption, ConstantProducts DEF LimiterInit
<1>1. TokensOK
  BY DEF TokensOK
<1>2. Bps * 0 = 0 /\ 0 * Hz = 0 /\ Bps * (0 - 0) = 0
  OBVIOUS
<1>3. Earned /\ BurstEarned
  BY <1>2 DEF Earned, BurstEarned, Since
<1> QED
  BY <1>1, <1>3 DEF LimiterIInv, GotWhileReading, SleepPays

LEMMA TickIInv == LimiterIInv /\ Tick => LimiterIInv'
<1> SUFFICES ASSUME LimiterIInv, Tick PROVE LimiterIInv'
  OBVIOUS
<1> USE LimiterAssumption DEF LimiterIInv, Tick
<1>1. TokensOK'
  BY DEF TokensOK, Burst
<1>2. now \in Int /\ last \in Int /\ tok \in Int
  BY ConstantProducts DEF TokensOK
<1>3. Bps * (now - last) <= Bps * (now' - last)
  BY <1>2, Monotone
<1>4. Bps * (now - last) \in Int /\ Bps * (now' - last) \in Int
  BY <1>2, Distribute
<1>5. SleepPays'
  BY <1>2, <1>3, <1>4 DEF SleepPays
<1> QED
  BY <1>1, <1>5 DEF GotWhileReading, Earned, BurstEarned, Since, Burst

LEMMA ObserveIInv == LimiterIInv /\ Observe => LimiterIInv'
<1> SUFFICES ASSUME LimiterIInv, Observe PROVE LimiterIInv'
  OBVIOUS
<1> USE LimiterAssumption DEF LimiterIInv, Observe
<1>1. TokensOK'
  BY DEF TokensOK, Burst
<1>2. Since' = got
  BY DEF Since, TokensOK
<1>3. got <= Slice /\ got \in Nat /\ now \in Nat /\ last \in Nat /\ last <= now
      /\ tok \in Nat /\ tok <= Burst
  BY ConstantProducts DEF TokensOK
<1>4. BurstEarned'
  <2>1. CASE last < now
    BY <2>1, <1>2, <1>3 DEF BurstEarned
  <2>2. CASE last = now
    <3>1. got * Hz <= Slice * Hz /\ got * Hz \in Int /\ Slice * Hz \in Int
      BY <1>3, Monotone, Distribute
    <3>2. Bps * (last - now) = 0
      BY <2>2, <1>3
    <3>3. Since' * Hz + tok <= Burst + Slice * Hz + Bps * (last - now)
      BY <3>1, <3>2, <1>2, <1>3, ConstantProducts
    <3> QED
      BY <3>3, <2>2, <1>3 DEF BurstEarned, Burst
  <2> QED
    BY <2>1, <2>2, <1>3
<1> QED
  BY <1>1, <1>4 DEF GotWhileReading, Earned, SleepPays, Burst

LEMMA ReadIInv == ASSUME LimiterIInv, NEW n \in 1..MaxRead, Read(n) PROVE LimiterIInv'
<1> USE LimiterAssumption DEF LimiterIInv, Read
<1>1. want' \in 0..Slice /\ want' > 0
  BY DEF Lesser
<1>2. TokensOK'
  BY <1>1 DEF TokensOK, Burst
<1> QED
  BY <1>2 DEF GotWhileReading, Earned, BurstEarned, Since, SleepPays, Burst

LEMMA GrantIInv == LimiterIInv /\ Grant => LimiterIInv'
<1> SUFFICES ASSUME LimiterIInv, Grant PROVE LimiterIInv'
  OBVIOUS
<1> USE LimiterAssumption DEF LimiterIInv, Grant
<1>1. Refilled \in 0..Burst /\ Refilled >= Hz /\ Burst \in Nat
  BY Refill, ConstantProducts
<1> DEFINE q == Refilled \div Hz
<1>2. q \in Nat /\ q * Hz <= Refilled /\ q > 0
  <2>1. q \in Nat /\ q * Hz <= Refilled /\ Refilled < q * Hz + Hz
    BY <1>1, Division
  <2>2. q # 0
    BY <2>1, <1>1
  <2> QED
    BY <2>1, <2>2
<1>3. got' \in 0..Slice /\ got' > 0 /\ got' <= q
  <2> HIDE DEF q
  <2>1. want \in 0..Slice /\ want > 0
    BY DEF TokensOK
  <2>2. got' = Lesser(want, q)
    BY DEF q
  <2> QED
    BY <2>1, <2>2, <1>2 DEF Lesser
<1> HIDE DEF q
<1>4. got' * Hz <= Refilled /\ got' * Hz \in Nat
  <2>1. Hz * got' <= Hz * q /\ Hz * got' \in Int /\ Hz * q \in Int
    BY <1>2, <1>3, Monotone, Distribute
  <2>2. Hz * 0 <= Hz * got'
    BY <1>3, Monotone
  <2>3. got' * Hz = Hz * got' /\ q * Hz = Hz * q /\ Hz * 0 = 0
    BY <1>2, <1>3
  <2> QED
    BY <1>1, <1>2, <2>1, <2>2, <2>3
<1>5. tok' \in 0..Burst /\ tok' = Refilled - got' * Hz
  BY <1>1, <1>4
<1>6. TokensOK'
  BY <1>3, <1>5 DEF TokensOK, Burst
<1>7. got = 0 /\ phase = "wait"
  BY DEF GotWhileReading
<1>8. /\ moved * Hz + Refilled <= Bps * now
      /\ (moved - mark.moved) * Hz + Refilled <= Burst + Slice * Hz + Bps * (now - mark.at)
      /\ moved * Hz \in Int /\ mark.moved \in Int /\ moved \in Int
  BY RefillEarned, <1>7, Distribute DEF TokensOK, Since
<1>9. Earned'
  <2>1. got' * Hz + tok' = Refilled
    BY <1>1, <1>4, <1>5
  <2>2. moved' * Hz + got' * Hz + tok' <= Bps * last'
    BY <2>1, <1>4, <1>5, <1>8
  <2> QED
    BY <2>2 DEF Earned
<1>10. BurstEarned'
  <2>1. Since' = (moved - mark.moved) + got'
    BY DEF Since
  <2>2. Since' * Hz = (moved - mark.moved) * Hz + got' * Hz
        /\ (moved - mark.moved) * Hz \in Int
    BY <2>1, <1>3, <1>8, Distribute
  <2>3. Since' * Hz + tok' <= Burst + Slice * Hz + Bps * (now - mark.at)
    BY <2>2, <1>1, <1>4, <1>5, <1>8
  <2>4. now >= mark.at /\ now \in Int /\ mark.at \in Int
    BY DEF TokensOK
  <2> QED
    BY <2>3, <2>4 DEF BurstEarned, Burst
<1> QED
  BY <1>6, <1>9, <1>10 DEF GotWhileReading, SleepPays

LEMMA NapIInv == LimiterIInv /\ Nap => LimiterIInv'
<1> SUFFICES ASSUME LimiterIInv, Nap PROVE LimiterIInv'
  OBVIOUS
<1> USE LimiterAssumption DEF LimiterIInv, Nap
<1>1. Refilled \in 0..Burst /\ Refilled < Hz /\ Burst \in Nat
  BY Refill, ConstantProducts
<1> DEFINE m == Hz - Refilled
           q == m \div Bps
<1>2. m \in Nat /\ q \in Nat /\ m < q * Bps + Bps
  BY <1>1, Division
<1>3. NapLength = Greater(q, MinWait)
  BY DEF NapLength
<1> HIDE DEF q
<1>4. NapLength \in Nat /\ NapLength >= q /\ NapLength >= 1
  BY <1>2, <1>3 DEF Greater
<1>5. now \in Nat /\ naps \in Nat /\ wake' - last' = NapLength /\ tok' = Refilled
      /\ naps' = naps + 1
  BY <1>4 DEF TokensOK
<1>6. TokensOK'
  BY <1>1, <1>4, <1>5 DEF TokensOK, Burst
<1>7. got = 0
  BY DEF GotWhileReading
<1>8. /\ moved * Hz + got * Hz + Refilled <= Bps * now
      /\ Since * Hz + Refilled <= Burst + Slice * Hz + Bps * (now - mark.at)
      /\ now >= mark.at /\ now \in Int /\ mark.at \in Int
  BY RefillEarned DEF TokensOK
<1>9. Earned' /\ BurstEarned'
  BY <1>8 DEF Earned, BurstEarned, Since, Burst
<1>10. naps # 2
  BY Refill, <1>1 DEF SleepPays
<1>11. Bps * q <= Bps * NapLength /\ Bps * 1 <= Bps * NapLength
  BY <1>2, <1>4, Monotone
<1>12. q * Bps = Bps * q /\ Bps * q \in Int /\ Bps * NapLength \in Int /\ Bps * 1 = Bps
  BY <1>2, <1>4
<1>13. naps = 0 => Refilled + Bps * NapLength + Bps > Hz
  BY <1>1, <1>2, <1>11, <1>12 DEF m
<1>14. naps = 1 => Refilled + Bps * NapLength >= Hz
  <2>1. SUFFICES ASSUME naps = 1 PROVE Refilled + Bps * NapLength >= Hz
    OBVIOUS
  <2>2. tok + Bps * (now - last) + Bps > Hz
    BY <2>1 DEF SleepPays
  <2>3. Refilled = Lesser(tok + Bps * (now - last), Burst)
    BY Distribute DEF Refilled, TokensOK
  <2>4. tok \in Int /\ Bps * (now - last) \in Int
    BY ConstantProducts, Distribute DEF TokensOK
  <2>5. Refilled = tok + Bps * (now - last)
    BY <2>3, <2>4, <1>1, ConstantProducts DEF Lesser
  <2> QED
    BY <2>2, <2>4, <2>5, <1>1, <1>11, <1>12
<1>15. SleepPays'
  BY <1>5, <1>10, <1>13, <1>14 DEF SleepPays
<1> QED
  BY <1>6, <1>7, <1>9, <1>15 DEF GotWhileReading

LEMMA WakeIInv == LimiterIInv /\ Wake => LimiterIInv'
<1> SUFFICES ASSUME LimiterIInv, Wake PROVE LimiterIInv'
  OBVIOUS
<1> USE LimiterAssumption DEF LimiterIInv, Wake
<1>1. TokensOK'
  BY DEF TokensOK, Burst
<1>2. /\ now \in Int /\ last \in Int /\ wake \in Int /\ tok \in Int
      /\ wake - last <= now - last
  BY ConstantProducts DEF TokensOK
<1>3. Bps * (wake - last) <= Bps * (now - last)
  BY <1>2, Monotone
<1>4. Bps * (wake - last) \in Int /\ Bps * (now - last) \in Int
  BY <1>2, Distribute
<1>5. SleepPays'
  BY <1>2, <1>3, <1>4 DEF SleepPays
<1> QED
  BY <1>1, <1>5 DEF GotWhileReading, Earned, BurstEarned, Since, Burst

LEMMA TransferIInv == ASSUME LimiterIInv, NEW k \in 0..Slice, Transfer(k) PROVE LimiterIInv'
<1> USE LimiterAssumption DEF LimiterIInv, Transfer
<1>1. TokensOK'
  BY DEF TokensOK, Burst
<1>2. /\ moved \in Int /\ got \in Int /\ mark.moved \in Int /\ k \in Int /\ tok \in Int
      /\ last \in Int /\ mark.at \in Int
  BY ConstantProducts DEF TokensOK
<1>3. moved' + got' <= moved + got /\ Since' <= Since /\ Since \in Int /\ Since' \in Int
      /\ moved' + got' = moved' /\ moved' \in Int
  BY <1>2 DEF Since
<1>4. Hz * moved' <= Hz * (moved + got) /\ Hz * Since' <= Hz * Since
  <2>1. moved' <= moved + got /\ moved + got \in Int
    BY <1>2, <1>3
  <2> QED
    BY <2>1, <1>3, Monotone
<1>5. /\ moved' * Hz = Hz * moved' /\ Since' * Hz = Hz * Since' /\ Since * Hz = Hz * Since
      /\ Hz * (moved + got) = moved * Hz + got * Hz /\ got' * Hz = 0
      /\ Hz * moved' \in Int /\ Hz * Since' \in Int /\ Hz * Since \in Int
      /\ moved * Hz \in Int /\ got * Hz \in Int /\ Bps * last \in Int
      /\ Bps * (last - mark.at) \in Int
  BY <1>2, <1>3, Distribute
<1>6. Earned'
  BY <1>2, <1>4, <1>5 DEF Earned
<1>7. BurstEarned'
  BY <1>2, <1>3, <1>4, <1>5, ConstantProducts DEF BurstEarned, Burst
<1> QED
  BY <1>1, <1>6, <1>7 DEF GotWhileReading, SleepPays

LEMMA LimiterNextIInv == LimiterIInv /\ [LimiterNext]_limiterVars => LimiterIInv'
<1> SUFFICES ASSUME LimiterIInv, [LimiterNext]_limiterVars PROVE LimiterIInv'
  OBVIOUS
<1>1. CASE UNCHANGED limiterVars
  BY <1>1 DEF limiterVars, LimiterIInv, TokensOK, Burst, GotWhileReading, Earned, BurstEarned, Since, SleepPays
<1> QED
  BY <1>1, TickIInv, ObserveIInv, ReadIInv, GrantIInv, NapIInv, WakeIInv,
     TransferIInv DEF LimiterNext
----------------------------------------------------------------------------
LEMMA LimiterInductive == LimiterSpec => []LimiterIInv
BY LimiterInitIInv, LimiterNextIInv, PTL DEF LimiterSpec

(* The types, for every rate and slice. *)
THEOREM LimiterTypeOK == LimiterSpec => []TokensOK
<1>1. LimiterIInv => TokensOK
  BY DEF LimiterIInv
<1> QED
  BY LimiterInductive, <1>1, PTL

(* However the reads and the clock interleave, no more than the rate has been
   transferred since the limiter was made. *)
THEOREM LimiterAverageWithinRate == LimiterSpec => []AverageWithinRate
<1>1. LimiterIInv => AverageWithinRate
  <2> SUFFICES ASSUME LimiterIInv PROVE AverageWithinRate
    OBVIOUS
  <2> USE LimiterAssumption DEF LimiterIInv
  <2>1. moved \in Nat /\ got \in Nat /\ tok \in Nat /\ last \in Nat /\ now \in Nat
        /\ last <= now
    BY ConstantProducts DEF TokensOK
  <2>2. Bps * last <= Bps * now
    BY <2>1, Monotone
  <2>3. moved * Hz \in Nat /\ got * Hz \in Nat /\ Bps * last \in Int /\ Bps * now \in Int
    BY <2>1
  <2> QED
    BY <2>1, <2>2, <2>3 DEF Earned, AverageWithinRate
<1> QED
  BY LimiterInductive, <1>1, PTL

(* Between any two moments no more than a second's burst and one slice comes on
   top of the rate. *)
THEOREM LimiterBurstWithinSecond == LimiterSpec => []BurstWithinSecond
<1>1. LimiterIInv => BurstWithinSecond
  <2> SUFFICES ASSUME LimiterIInv PROVE BurstWithinSecond
    OBVIOUS
  <2> USE LimiterAssumption DEF LimiterIInv
  <2>1. /\ moved \in Nat /\ got \in Nat /\ now \in Nat /\ mark.at \in Nat
        /\ mark.moved \in Nat /\ mark.at <= now
        /\ moved - mark.moved \in Int /\ moved - mark.moved <= Since
    BY DEF TokensOK, Since
  <2>2. Since * Hz + Refilled <= Burst + Slice * Hz + Bps * (now - mark.at)
        /\ Refilled \in Nat
    BY RefillEarned, Refill, ConstantProducts
  <2>3. (moved - mark.moved) * Hz <= Since * Hz
    BY <2>1, Monotone, Distribute DEF Since
  <2>4. Bps * (Hz + now - mark.at) = Burst + Bps * (now - mark.at)
    <3>1. Hz + now - mark.at = Hz + (now - mark.at)
      BY <2>1
    <3> QED
      BY <3>1, <2>1, Distribute DEF Burst
  <2>5. /\ (moved - mark.moved) * Hz \in Int /\ Since * Hz \in Int
        /\ Bps * (now - mark.at) \in Int
    BY <2>1, Distribute DEF Since
  <2> QED
    BY <2>2, <2>3, <2>4, <2>5, ConstantProducts DEF BurstWithinSecond
<1> QED
  BY LimiterInductive, <1>1, PTL

(* No call sleeps a third time, whatever the rate and however late its timers. *)
THEOREM LimiterSleepsAtMostTwice == LimiterSpec => []SleepsAtMostTwice
<1>1. LimiterIInv => SleepsAtMostTwice
  BY DEF LimiterIInv, SleepPays, SleepsAtMostTwice
<1> QED
  BY LimiterInductive, <1>1, PTL
=============================================================================
