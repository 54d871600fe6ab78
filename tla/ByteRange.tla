------------------------------ MODULE ByteRange ------------------------------
(* The single byte ranges that OpenVOD serves from a cached file:
   parseRangeHeader and openFileRange.  Splitting the text of the header is
   left out: a header is what is found in it, the first and the second number
   or their absence, and numbers that strconv refuses are a form of their
   own. *)
EXTENDS Integers, FiniteSets

CONSTANTS Numbers,    \* what may stand in a header
          Sizes       \* sizes of validated files, which have at least one byte

ASSUME RangeAssumption == Numbers \subseteq Int /\ Sizes \subseteq Nat \ {0}

(* bytes=-N, bytes=A-, bytes=A-B, and anything else: another unit, several
   ranges, no dash, not a number. *)
Headers == [form : {"suffix"}, n : Numbers]
             \cup [form : {"from"}, a : Numbers]
             \cup [form : {"between"}, a : Numbers, b : Numbers]
             \cup [form : {"other"}]

Refused == [ok |-> FALSE, start |-> 0, end |-> 0]
Parsed(start, end) == [ok |-> TRUE, start |-> start, end |-> end]

ParseSuffix(n, size) ==
    IF n <= 0 \/ size <= 0 THEN Refused
    ELSE Parsed(IF n > size THEN 0 ELSE size - n, size - 1)

(* Mutant: an end at the size of the file passes as inside it. *)
ClampOver(start, end, size) ==
    IF size <= 0 THEN Parsed(start, end)
    ELSE IF start >= size THEN Refused
    ELSE Parsed(start, IF end < 0 \/ end > size THEN size - 1 ELSE end)

(* The tail of parseRangeHeader: keep the range inside a file of known size. *)
Clamp(start, end, size) ==
    IF size <= 0 THEN Parsed(start, end)
    ELSE IF start >= size THEN Refused
    ELSE Parsed(start, IF end < 0 \/ end >= size THEN size - 1 ELSE end)

ParseFrom(a, size) ==
    IF a < 0 THEN Refused
    ELSE Clamp(a, IF size > 0 THEN size - 1 ELSE -1, size)

ParseBetween(a, b, size) ==
    IF a < 0 \/ b < a THEN Refused ELSE Clamp(a, b, size)

Parse(h, size) == CASE h.form = "suffix"  -> ParseSuffix(h.n, size)
                    [] h.form = "from"    -> ParseFrom(h.a, size)
                    [] h.form = "between" -> ParseBetween(h.a, h.b, size)
                    [] h.form = "other"   -> Refused

NotOpened == [ok |-> FALSE, start |-> 0, length |-> 0]

(* openFileRange, on a file that exists: from where and how much is read. *)
Open(rng, size) ==
    LET end == IF rng.end < 0 THEN size - 1 ELSE rng.end
        length == end - rng.start + 1
    IN [ok |-> length > 0, start |-> rng.start, length |-> length]

(* What OpenVOD makes of a header and a cached file: the range it opens, or a
   refusal of either function, and then the request goes to the upstream. *)
Served(h, size) == LET rng == Parse(h, size) IN
                   IF rng.ok THEN Open(rng, size) ELSE NotOpened
----------------------------------------------------------------------------
(* The bytes that a header asks for of a file: the last n, all from a on, or
   those from a to b. *)
Requested(h, s) == CASE h.form = "suffix"  -> {i \in 0..(s - 1) : i >= s - h.n}
                     [] h.form = "from"    -> {i \in 0..(s - 1) : h.a >= 0 /\ i >= h.a}
                     [] h.form = "between" -> {i \in 0..(s - 1) :
                                                 h.a >= 0 /\ h.a <= i /\ i <= h.b}
                     [] h.form = "other"   -> {}

(* A cached file is served by exactly the bytes asked for, never one before
   its start or past its end, and the request goes to the upstream exactly
   when it asks for no byte of the file. *)
ServesWhatIsAsked ==
    \A h \in Headers, s \in Sizes :
        LET opened == Served(h, s) IN
        IF opened.ok
        THEN opened.start..(opened.start + opened.length - 1) = Requested(h, s)
        ELSE Requested(h, s) = {}
=============================================================================
