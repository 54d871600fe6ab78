---------------------------- MODULE ByteLimiter ----------------------------
(* The byte-rate cap of one upstream body: ByteLimiter.WaitN and
   rateLimitedBody.Read, driven by the one goroutine that reads the body.
   Time is counted in ticks and tokens in 1/Hz of a byte, so that what the
   code keeps as a float is an integer here: a tick earns Bps of them.  The
   code's tick is a nanosecond: its time.Duration conversion rounds the wait
   down, as \div does here.

   WaitN is only called with context.Background() and only built for a
   positive rate, so the cancelled and the unlimited call do not occur. *)
EXTENDS Integers

CONSTANTS Hz,         \* ticks in a second
          Bps,        \* bytes per second
          Slice,      \* the most that one call is granted, 64 KiB in the code
          MinWait,    \* the shortest sleep, a millisecond in the code
          MaxRead,    \* bound: the longest read buffer
          MaxTime     \* bound: ticks that pass

ASSUME LimiterAssumption ==
    /\ Hz \in Nat \ {0} /\ Bps \in Nat \ {0}
    /\ Slice \in Nat \ {0} /\ MinWait \in Nat \ {0}
    /\ MaxRead \in Nat /\ MaxTime \in Nat

VARIABLES
    now,     \* the clock
    tok,     \* tokens at the last refill
    last,    \* when that was
    phase,   \* where the reader is: idle, waiting in WaitN, asleep in it, reading
    want,    \* what the call asks for, at most Slice
    wake,    \* when its timer fires
    naps,    \* how often the call has slept
    got,     \* what WaitN granted and Read has not used
    moved,   \* bytes transferred
    mark     \* a moment since which an observer counts

limiterVars == <<now, tok, last, phase, want, wake, naps, got, moved, mark>>

Burst == Hz * Bps
Lesser(a, b) == IF a < b THEN a ELSE b
Greater(a, b) == IF a < b THEN b ELSE a

LimiterInit ==
    /\ now = 0 /\ last = 0 /\ tok = 0
    /\ phase = "idle" /\ want = 0 /\ wake = 0 /\ naps = 0
    /\ got = 0 /\ moved = 0
    /\ mark = [at |-> 0, moved |-> 0]

Tick == /\ now < MaxTime
        /\ now' = now + 1
        /\ UNCHANGED <<tok, last, phase, want, wake, naps, got, moved, mark>>

Observe == /\ mark' = [at |-> now, moved |-> moved]
           /\ UNCHANGED <<now, tok, last, phase, want, wake, naps, got, moved>>

Read(n) == /\ phase = "idle"
           /\ phase' = "wait"
           /\ want' = Lesser(n, Slice)
           /\ naps' = 0
           /\ UNCHANGED <<now, tok, last, wake, got, moved, mark>>

(* Mutant: an idle body saves up for more than a second. *)
RefilledUncapped == tok + (now - last) * Bps

(* What the bucket holds when WaitN looks at the clock. *)
Refilled == Lesser(tok + (now - last) * Bps, Burst)

Grant == /\ phase = "wait"
         /\ Refilled >= Hz
         /\ got' = Lesser(want, Refilled \div Hz)
         /\ tok' = Refilled - got' * Hz
         /\ last' = now
         /\ phase' = "read"
         /\ UNCHANGED <<now, want, wake, naps, moved, mark>>

(* Mutant: the wait is what the missing tokens take, however short. *)
NapLengthExact == (Hz - Refilled) \div Bps

NapLength == Greater((Hz - Refilled) \div Bps, MinWait)

Nap == /\ phase = "wait"
       /\ Refilled < Hz
       /\ tok' = Refilled
       /\ last' = now
       /\ wake' = now + NapLength
       /\ naps' = naps + 1
       /\ phase' = "asleep"
       /\ UNCHANGED <<now, want, got, moved, mark>>

(* The timer may fire late. *)
Wake == /\ phase = "asleep"
        /\ now >= wake
        /\ phase' = "wait"
        /\ UNCHANGED <<now, tok, last, want, wake, naps, got, moved, mark>>

(* The body yields some of what was granted; the rest is not given back. *)
Transfer(k) == /\ phase = "read"
               /\ k <= got
               /\ moved' = moved + k
               /\ got' = 0
               /\ phase' = "idle"
               /\ UNCHANGED <<now, tok, last, want, wake, naps, mark>>

LimiterNext == \/ Tick \/ Observe
               \/ \E n \in 1..MaxRead : Read(n)
               \/ Grant \/ Nap \/ Wake
               \/ \E k \in 0..Slice : Transfer(k)

LimiterSpec == LimiterInit /\ [][LimiterNext]_limiterVars
----------------------------------------------------------------------------
(* Tokens never go negative nor above a second's worth, a grant is between
   one byte and a slice, and the clocks are in order. *)
TokensOK ==
    /\ now \in Nat /\ last \in 0..now /\ wake \in Nat
    /\ tok \in 0..Burst
    /\ phase \in {"idle", "wait", "asleep", "read"}
    /\ want \in 0..Slice /\ naps \in Nat
    /\ got \in 0..Slice /\ moved \in Nat
    /\ mark \in [at : 0..now, moved : 0..moved]
    /\ phase \in {"wait", "asleep"} => want > 0
    /\ phase = "read" => got > 0

(* From the moment the limiter is made, never more than the rate has been
   transferred: the first burst is paid for like any other. *)
AverageWithinRate == moved * Hz <= Bps * now

(* Between any two moments, at most this is transferred, however long the body
   idled: the rate times the time between them, one second's worth of burst,
   and the one slice that was granted before the first moment. *)
BurstWithinSecond ==
    (moved - mark.moved) * Hz <= Bps * (Hz + now - mark.at) + Slice * Hz

(* A call that has to wait sleeps at most twice: once for the tokens it lacks,
   and once more when the first sleep was rounded down. *)
SleepsAtMostTwice == naps <= 2
=============================================================================
