----------------------------- MODULE Intervals -----------------------------
(***************************************************************************)
(* Two's-complement words and the interval arithmetic of the verifier      *)
(* (verifier.rs, compute_range).  The optimizer and the native emitter     *)
(* drop evaluations, delete branches and pick unsigned instructions on the *)
(* word of these intervals.  A word is in -Half..Half-1; the program has   *)
(* Half = 2^63.                                                            *)
(***************************************************************************)
EXTENDS Integers

CONSTANT Half

ASSUME HalfAssumption == Half \in Nat /\ Half > 0

MinWord == -Half
MaxWord == Half - 1
Word == MinWord .. MaxWord

\* Wrapping arithmetic of i64 (wrapping_add and the machine's registers).
Wrap(n) == ((n + Half) % (2 * Half)) - Half

Magnitude(n) == IF n < 0 THEN -n ELSE n

\* Signed division rounds toward zero; the remainder follows the dividend.
Quot(a, b) ==
    LET q == Magnitude(a) \div Magnitude(b)
    IN  IF (a < 0) <=> (b < 0) THEN q ELSE -q
Rem(a, b) == a - b * Quot(a, b)

\* checked_div and checked_rem answer None exactly here.
DivisionFails(a, b) == b = 0 \/ (a = MinWord /\ b = -1)

Lower(a, b) == IF a <= b THEN a ELSE b
Upper(a, b) == IF a <= b THEN b ELSE a
Lowest(a, b, c, d) == Lower(Lower(a, b), Lower(c, d))
Highest(a, b, c, d) == Upper(Upper(a, b), Upper(c, d))

-----------------------------------------------------------------------------
(* Option<(i64, i64)> *)

Interval == [known : BOOLEAN, lo : Word, hi : Word]

Unknown == [known |-> FALSE, lo |-> 0, hi |-> 0]
Between(lo, hi) == [known |-> TRUE, lo |-> lo, hi |-> hi]

\* Variant: the bounds of a sum are not checked against the word.
CheckedUnchecked(lo, hi) == Between(Wrap(lo), Wrap(hi))

\* The `?` of every checked operation: a bound that is not a word ends the
\* computation with None.
Checked(lo, hi) ==
    IF lo \in Word /\ hi \in Word THEN Between(lo, hi) ELSE Unknown

Holds(range, v) == range.known => range.lo <= v /\ v <= range.hi

\* The divisor may be zero, or MIN may meet -1.
MayBeZero(r) == r.lo <= 0 /\ r.hi >= 0
MayOverflow(l, r) == l.lo = MinWord /\ r.lo <= -1 /\ r.hi >= -1

AddRange(l, r) ==
    IF l.known /\ r.known THEN Checked(l.lo + r.lo, l.hi + r.hi) ELSE Unknown

SubRange(l, r) ==
    IF l.known /\ r.known THEN Checked(l.lo - r.hi, l.hi - r.lo) ELSE Unknown

MulRange(l, r) ==
    IF l.known /\ r.known
    THEN Checked(
            Lowest(l.lo * r.lo, l.lo * r.hi, l.hi * r.lo, l.hi * r.hi),
            Highest(l.lo * r.lo, l.lo * r.hi, l.hi * r.lo, l.hi * r.hi))
    ELSE Unknown

DivRange(l, r) ==
    IF l.known /\ r.known /\ ~MayBeZero(r)
    THEN LET q1 == Quot(l.lo, r.lo)  q2 == Quot(l.lo, r.hi)
             q3 == Quot(l.hi, r.lo)  q4 == Quot(l.hi, r.hi)
         IN  Checked(Lowest(q1, q2, q3, q4), Highest(q1, q2, q3, q4))
    ELSE Unknown

ModRange(l, r) ==
    IF l.known /\ r.known /\ ~MayBeZero(r) /\ ~MayOverflow(l, r)
    THEN LET limit == Upper(Magnitude(r.lo), Magnitude(r.hi)) - 1
         IN  Between(Upper(Lower(l.lo, 0), -limit),
                     Lower(Upper(l.hi, 0), limit))
    ELSE Unknown

NegRange(x) == IF x.known THEN Checked(-x.hi, -x.lo) ELSE Unknown

\* The two branches of an `if`.
JoinRange(t, e) ==
    IF t.known /\ e.known
    THEN Between(Lower(t.lo, e.lo), Upper(t.hi, e.hi))
    ELSE Unknown

-----------------------------------------------------------------------------
(* Comparisons of words, and what intervals say of them. *)

Compare(op, a, b) ==
    CASE op = "gt" -> a > b   [] op = "lt" -> a < b
      [] op = "ge" -> a >= b  [] op = "le" -> a <= b
      [] op = "eq" -> a = b   [] op = "ne" -> a # b

\* What the intervals say of a comparison: always, never, or undecided.
\* (try_static_eval of the optimizer, try_static_condition of the emitter.)
TruthOf(op, l, r) ==
    LET always == \/ op = "gt" /\ l.lo > r.hi
                  \/ op = "lt" /\ l.hi < r.lo
                  \/ op = "ge" /\ l.lo >= r.hi
                  \/ op = "le" /\ l.hi <= r.lo
        never == \/ op = "gt" /\ l.hi <= r.lo
                 \/ op = "lt" /\ l.lo >= r.hi
                 \/ op = "ge" /\ l.hi < r.lo
                 \/ op = "le" /\ l.lo > r.hi
    IN  IF ~(l.known /\ r.known) THEN "open"
        ELSE IF always THEN "always" ELSE IF never THEN "never" ELSE "open"

=============================================================================
