------------------------- MODULE Intervals_proofs -------------------------
(***************************************************************************)
(* Soundness of the verifier's interval arithmetic, for every word size:   *)
(* an operation on two values that lie in their intervals yields a value   *)
(* that lies in the computed interval, and is a word, so nothing wrapped.  *)
(* What the emitter makes of divisions by constants is exact, and what is  *)
(* deleted on the word of intervals is never reached.                     *)
(***************************************************************************)
EXTENDS MagicDivision, TLAPS

\* The words are the integers between the two ends.
LEMMA WordIsInt ==
    /\ Word \subseteq Int
    /\ MinWord \in Int /\ MaxWord \in Int
    /\ \A n \in Int : n \in Word <=> MinWord <= n /\ n <= MaxWord
  BY HalfAssumption DEF Word, MinWord, MaxWord

\* A value in a known interval lies between two words.
LEMMA HeldValue ==
    ASSUME NEW l \in Interval, NEW x \in Word, Holds(l, x), l.known
    PROVE  /\ l.lo \in Int /\ l.hi \in Int /\ x \in Int
           /\ MinWord <= l.lo /\ l.lo <= x /\ x <= l.hi /\ l.hi <= MaxWord
  <1>1. l.lo \in Word /\ l.hi \in Word
    BY DEF Interval
  <1>2. l.lo <= x /\ x <= l.hi
    BY DEF Holds
  <1> QED BY <1>1, <1>2, WordIsInt

\* What a checked interval holds, when there is one: its bounds are words.
LEMMA CheckedKnown ==
    ASSUME NEW lo \in Int, NEW hi \in Int, Checked(lo, hi).known
    PROVE  /\ lo \in Word /\ hi \in Word
           /\ \A v \in Int : lo <= v /\ v <= hi
                                => Holds(Checked(lo, hi), v) /\ v \in Word
  <1>1. lo \in Word /\ hi \in Word
    BY DEF Checked, Unknown
  <1>2. Checked(lo, hi).lo = lo /\ Checked(lo, hi).hi = hi
    BY <1>1 DEF Checked, Between
  <1>3. ASSUME NEW v \in Int, lo <= v, v <= hi PROVE v \in Word
    BY <1>1, <1>3, WordIsInt
  <1> QED BY <1>1, <1>2, <1>3 DEF Holds

\* A sum of two values in their intervals (BinOp::Add).
THEOREM AddSound ==
    ASSUME NEW l \in Interval, NEW r \in Interval,
           NEW x \in Word, NEW y \in Word, Holds(l, x), Holds(r, y),
           AddRange(l, r).known
    PROVE  Holds(AddRange(l, r), x + y) /\ x + y \in Word
  <1>1. l.known /\ r.known
    BY DEF AddRange, Unknown
  <1>2. AddRange(l, r) = Checked(l.lo + r.lo, l.hi + r.hi)
    BY <1>1 DEF AddRange
  <1>3. l.lo + r.lo <= x + y /\ x + y <= l.hi + r.hi
    BY <1>1, HeldValue
  <1> QED BY <1>1, <1>2, <1>3, HeldValue, CheckedKnown

\* A difference: the subtrahend's ends change sides (BinOp::Sub).
THEOREM SubSound ==
    ASSUME NEW l \in Interval, NEW r \in Interval,
           NEW x \in Word, NEW y \in Word, Holds(l, x), Holds(r, y),
           SubRange(l, r).known
    PROVE  Holds(SubRange(l, r), x - y) /\ x - y \in Word
  <1>1. l.known /\ r.known
    BY DEF SubRange, Unknown
  <1>2. SubRange(l, r) = Checked(l.lo - r.hi, l.hi - r.lo)
    BY <1>1 DEF SubRange
  <1>3. l.lo - r.hi <= x - y /\ x - y <= l.hi - r.lo
    BY <1>1, HeldValue
  <1> QED BY <1>1, <1>2, <1>3, HeldValue, CheckedKnown

\* A negation (Expr::Neg); -MIN is not a word, and then there is no interval.
THEOREM NegSound ==
    ASSUME NEW l \in Interval, NEW x \in Word, Holds(l, x), NegRange(l).known
    PROVE  Holds(NegRange(l), -x) /\ -x \in Word
  <1>1. l.known
    BY DEF NegRange, Unknown
  <1>2. NegRange(l) = Checked(-l.hi, -l.lo)
    BY <1>1 DEF NegRange
  <1>3. -l.hi <= -x /\ -x <= -l.lo
    BY <1>1, HeldValue
  <1> QED BY <1>1, <1>2, <1>3, HeldValue, CheckedKnown

\* Whichever branch of an `if` is taken, its value is in the join (Expr::If).
THEOREM JoinSound ==
    ASSUME NEW l \in Interval, NEW r \in Interval, NEW x \in Word,
           Holds(l, x) \/ Holds(r, x), JoinRange(l, r).known
    PROVE  Holds(JoinRange(l, r), x)
  <1>1. l.known /\ r.known
    BY DEF JoinRange, Unknown
  <1>2. /\ JoinRange(l, r).lo = Lower(l.lo, r.lo)
        /\ JoinRange(l, r).hi = Upper(l.hi, r.hi)
    BY <1>1 DEF JoinRange, Between
  <1>3. /\ x \in Int
        /\ l.lo \in Int /\ l.hi \in Int /\ r.lo \in Int /\ r.hi \in Int
    BY WordIsInt DEF Interval
  <1>4. (l.lo <= x /\ x <= l.hi) \/ (r.lo <= x /\ x <= r.hi)
    BY <1>1 DEF Holds
  <1>5. Lower(l.lo, r.lo) <= x /\ x <= Upper(l.hi, r.hi)
    BY <1>3, <1>4 DEF Lower, Upper
  <1> QED BY <1>2, <1>5 DEF Holds

-----------------------------------------------------------------------------
(* Products: the extreme products of two intervals are at their corners.   *)

\* Multiplying by y keeps or reverses the order of the factors.
LEMMA ProductBetween ==
    ASSUME NEW a \in Int, NEW b \in Int, NEW x \in Int, NEW y \in Int,
           a <= x, x <= b
    PROVE  /\ y >= 0 => a * y <= x * y /\ x * y <= b * y
           /\ y <= 0 => b * y <= x * y /\ x * y <= a * y
  BY SMT

\* A product lies between the least and the greatest of the four corners.
LEMMA CornerProducts ==
    ASSUME NEW a \in Int, NEW b \in Int, NEW c \in Int, NEW d \in Int,
           NEW x \in Int, NEW y \in Int, a <= x, x <= b, c <= y, y <= d
    PROVE  /\ Lowest(a * c, a * d, b * c, b * d) <= x * y
           /\ x * y <= Highest(a * c, a * d, b * c, b * d)
  <1>1. /\ Lower(a * y, b * y) <= x * y
        /\ x * y <= Upper(a * y, b * y)
    BY ProductBetween DEF Lower, Upper
  <1>2. /\ Lower(c * a, d * a) <= y * a /\ y * a <= Upper(c * a, d * a)
        /\ Lower(c * b, d * b) <= y * b /\ y * b <= Upper(c * b, d * b)
    BY ProductBetween DEF Lower, Upper
  <1>3. /\ c * a = a * c /\ d * a = a * d /\ c * b = b * c /\ d * b = b * d
        /\ y * a = a * y /\ y * b = b * y
    OBVIOUS
  <1>4. /\ a * c \in Int /\ a * d \in Int /\ b * c \in Int /\ b * d \in Int
        /\ a * y \in Int /\ b * y \in Int /\ x * y \in Int
    OBVIOUS
  <1> DEFINE ac == a * c  ad == a * d  bc == b * c  bd == b * d
             ay == a * y  by == b * y  xy == x * y
  <1>5. /\ ac \in Int /\ ad \in Int /\ bc \in Int /\ bd \in Int
        /\ ay \in Int /\ by \in Int /\ xy \in Int
        /\ Lower(ay, by) <= xy /\ xy <= Upper(ay, by)
        /\ Lower(ac, ad) <= ay /\ ay <= Upper(ac, ad)
        /\ Lower(bc, bd) <= by /\ by <= Upper(bc, bd)
    BY <1>1, <1>2, <1>3, <1>4
  <1> HIDE DEF ac, ad, bc, bd, ay, by, xy
  <1>6. Lowest(ac, ad, bc, bd) <= xy /\ xy <= Highest(ac, ad, bc, bd)
    BY <1>5 DEF Lowest, Highest, Lower, Upper
  <1> QED BY <1>6 DEF ac, ad, bc, bd, xy

\* A product of two values in their intervals (BinOp::Mul).
THEOREM MulSound ==
    ASSUME NEW l \in Interval, NEW r \in Interval,
           NEW x \in Word, NEW y \in Word, Holds(l, x), Holds(r, y),
           MulRange(l, r).known
    PROVE  Holds(MulRange(l, r), x * y) /\ x * y \in Word
  <1> DEFINE lo == Lowest(l.lo * r.lo, l.lo * r.hi, l.hi * r.lo, l.hi * r.hi)
             hi == Highest(l.lo * r.lo, l.lo * r.hi, l.hi * r.lo, l.hi * r.hi)
  <1>1. l.known /\ r.known
    BY DEF MulRange, Unknown
  <1>2. MulRange(l, r) = Checked(lo, hi)
    BY <1>1 DEF MulRange
  <1>3. /\ l.lo \in Int /\ l.hi \in Int /\ r.lo \in Int /\ r.hi \in Int
        /\ x \in Int /\ y \in Int
        /\ l.lo <= x /\ x <= l.hi /\ r.lo <= y /\ y <= r.hi
    BY <1>1, HeldValue
  <1>4. lo <= x * y /\ x * y <= hi
    BY <1>3, CornerProducts
  <1>5. lo \in Int /\ hi \in Int /\ x * y \in Int
    BY <1>3 DEF Lowest, Highest, Lower, Upper
  <1> HIDE DEF lo, hi
  <1> QED BY <1>2, <1>4, <1>5, CheckedKnown

-----------------------------------------------------------------------------
(* Quotients and remainders *)

\* The quotient of naturals is the one with a remainder below the divisor.
LEMMA NatQuotient ==
    ASSUME NEW m \in Nat, NEW n \in Nat, n > 0
    PROVE  /\ m \div n \in Nat
           /\ n * (m \div n) <= m
           /\ m < n * (m \div n) + n
  BY SMT

\* It grows with the dividend.
LEMMA NatQuotientDividend ==
    ASSUME NEW m \in Nat, NEW k \in Nat, NEW n \in Nat, n > 0, m <= k
    PROVE  m \div n <= k \div n
  <1> DEFINE p == m \div n  q == k \div n
  <1>1. p \in Nat /\ q \in Nat /\ n * p <= m /\ k < n * q + n
    BY NatQuotient
  <1> HIDE DEF p, q
  <1>2. SUFFICES ASSUME p >= q + 1 PROVE FALSE
    BY <1>1 DEF p, q
  <1>3. n * p >= n * (q + 1)
    BY <1>1, <1>2
  <1>4. n * (q + 1) = n * q + n
    BY <1>1
  <1>5. n * p \in Int /\ n * q \in Int
    BY <1>1
  <1> QED BY <1>1, <1>3, <1>4, <1>5

\* It shrinks as the divisor grows.
LEMMA NatQuotientDivisor ==
    ASSUME NEW m \in Nat, NEW n \in Nat, NEW k \in Nat, n > 0, n <= k
    PROVE  m \div k <= m \div n
  <1> DEFINE p == m \div k  q == m \div n
  <1>1. p \in Nat /\ q \in Nat /\ k * p <= m /\ m < n * q + n
    BY NatQuotient
  <1> HIDE DEF p, q
  <1>2. SUFFICES ASSUME p >= q + 1 PROVE FALSE
    BY <1>1 DEF p, q
  <1>3. n * p >= n * (q + 1) /\ k * p >= n * p
    BY <1>1, <1>2
  <1>4. n * (q + 1) = n * q + n
    BY <1>1
  <1>5. n * p \in Int /\ n * q \in Int /\ k * p \in Int
    BY <1>1
  <1> QED BY <1>1, <1>3, <1>4, <1>5

\* Magnitudes are naturals, and the magnitude of a divisor is positive.
LEMMA MagnitudeNat ==
    ASSUME NEW a \in Int
    PROVE  Magnitude(a) \in Nat /\ (a # 0 => Magnitude(a) > 0)
  BY DEF Magnitude

\* A quotient is an integer.
LEMMA QuotInt ==
    ASSUME NEW a \in Int, NEW b \in Int, b # 0
    PROVE  Quot(a, b) \in Int
  <1> DEFINE q == Magnitude(a) \div Magnitude(b)
  <1>1. q \in Nat
    BY NatQuotient, MagnitudeNat
  <1> HIDE DEF q
  <1> QED BY <1>1 DEF Quot, q

\* Truncated division is monotone in the dividend: upward for a positive
\* divisor, downward for a negative one.
LEMMA QuotDividend ==
    ASSUME NEW a \in Int, NEW x \in Int, NEW y \in Int, y # 0, a <= x
    PROVE  /\ y > 0 => Quot(a, y) <= Quot(x, y)
           /\ y < 0 => Quot(x, y) <= Quot(a, y)
  <1> DEFINE p == Magnitude(a) \div Magnitude(y)
             q == Magnitude(x) \div Magnitude(y)
  <1>1. p \in Nat /\ q \in Nat
    BY NatQuotient, MagnitudeNat
  <1>2. a >= 0 => p <= q
    <2>1. a >= 0 => Magnitude(a) <= Magnitude(x)
      BY DEF Magnitude
    <2> QED BY <2>1, MagnitudeNat, NatQuotientDividend
  <1>3. x < 0 => q <= p
    <2>1. x < 0 => Magnitude(x) <= Magnitude(a)
      BY DEF Magnitude
    <2> QED BY <2>1, MagnitudeNat, NatQuotientDividend
  <1>4. /\ Quot(a, y) = IF (a < 0) <=> (y < 0) THEN p ELSE -p
        /\ Quot(x, y) = IF (x < 0) <=> (y < 0) THEN q ELSE -q
    BY DEF Quot
  <1> HIDE DEF p, q
  <1> QED BY <1>1, <1>2, <1>3, <1>4

\* It is monotone in a divisor that keeps its sign, in a direction that
\* depends on the sign of the dividend only.
LEMMA QuotDivisor ==
    ASSUME NEW x \in Int, NEW c \in Int, NEW y \in Int, c <= y,
           c > 0 \/ y < 0
    PROVE  /\ x >= 0 => Quot(x, y) <= Quot(x, c)
           /\ x < 0 => Quot(x, c) <= Quot(x, y)
  <1> DEFINE p == Magnitude(x) \div Magnitude(c)
             q == Magnitude(x) \div Magnitude(y)
  <1>1. p \in Nat /\ q \in Nat
    BY NatQuotient, MagnitudeNat
  <1>2. c > 0 => q <= p
    <2>1. c > 0 => Magnitude(c) <= Magnitude(y)
      BY DEF Magnitude
    <2> QED BY <2>1, MagnitudeNat, NatQuotientDivisor
  <1>3. y < 0 => p <= q
    <2>1. y < 0 => Magnitude(y) <= Magnitude(c)
      BY DEF Magnitude
    <2> QED BY <2>1, MagnitudeNat, NatQuotientDivisor
  <1>4. /\ Quot(x, c) = IF (x < 0) <=> (c < 0) THEN p ELSE -p
        /\ Quot(x, y) = IF (x < 0) <=> (y < 0) THEN q ELSE -q
    BY DEF Quot
  <1> HIDE DEF p, q
  <1> QED BY <1>1, <1>2, <1>3, <1>4

\* A quotient of two values in their intervals (BinOp::Div).  The interval
\* is known only if neither zero nor MIN / -1 can occur.
THEOREM DivSound ==
    ASSUME NEW l \in Interval, NEW r \in Interval,
           NEW x \in Word, NEW y \in Word, Holds(l, x), Holds(r, y),
           DivRange(l, r).known
    PROVE  /\ y # 0
           /\ Holds(DivRange(l, r), Quot(x, y))
           /\ Quot(x, y) \in Word
  <1> DEFINE ac == Quot(l.lo, r.lo)  ad == Quot(l.lo, r.hi)
             bc == Quot(l.hi, r.lo)  bd == Quot(l.hi, r.hi)
             ay == Quot(l.lo, y)     by == Quot(l.hi, y)
             xy == Quot(x, y)
             lo == Lowest(ac, ad, bc, bd)
             hi == Highest(ac, ad, bc, bd)
  <1>1. l.known /\ r.known /\ ~MayBeZero(r)
    BY DEF DivRange, Unknown
  <1>2. DivRange(l, r) = Checked(lo, hi)
    BY <1>1 DEF DivRange
  <1>3. /\ l.lo \in Int /\ l.hi \in Int /\ r.lo \in Int /\ r.hi \in Int
        /\ x \in Int /\ y \in Int
        /\ l.lo <= x /\ x <= l.hi /\ r.lo <= y /\ y <= r.hi
    BY <1>1, HeldValue
  <1>4. r.lo > 0 \/ r.hi < 0
    BY <1>1, <1>3 DEF MayBeZero
  <1>5. y # 0 /\ r.lo # 0 /\ r.hi # 0
    BY <1>3, <1>4
  <1>6. /\ ac \in Int /\ ad \in Int /\ bc \in Int /\ bd \in Int
        /\ ay \in Int /\ by \in Int /\ xy \in Int
    BY <1>3, <1>5, QuotInt
  <1>7. Lower(ay, by) <= xy /\ xy <= Upper(ay, by)
    <2>1. /\ y > 0 => ay <= xy /\ xy <= by
          /\ y < 0 => by <= xy /\ xy <= ay
      BY <1>3, <1>5, QuotDividend
    <2> HIDE DEF ay, by, xy
    <2> QED BY <1>3, <1>5, <1>6, <2>1 DEF Lower, Upper
  <1>8. Lower(ac, ad) <= ay /\ ay <= Upper(ac, ad)
    <2>1. /\ l.lo >= 0 => ay <= ac /\ ad <= ay
          /\ l.lo < 0 => ac <= ay /\ ay <= ad
      BY <1>3, <1>4, QuotDivisor
    <2> HIDE DEF ay, ac, ad
    <2> QED BY <1>3, <1>6, <2>1 DEF Lower, Upper
  <1>9. Lower(bc, bd) <= by /\ by <= Upper(bc, bd)
    <2>1. /\ l.hi >= 0 => by <= bc /\ bd <= by
          /\ l.hi < 0 => bc <= by /\ by <= bd
      BY <1>3, <1>4, QuotDivisor
    <2> HIDE DEF by, bc, bd
    <2> QED BY <1>3, <1>6, <2>1 DEF Lower, Upper
  <1> HIDE DEF ac, ad, bc, bd, ay, by, xy
  <1>10. lo <= xy /\ xy <= hi /\ lo \in Int /\ hi \in Int
    BY <1>6, <1>7, <1>8, <1>9 DEF Lowest, Highest, Lower, Upper
  <1>11. Holds(Checked(lo, hi), xy) /\ xy \in Word
    <2> HIDE DEF lo, hi
    <2> QED BY <1>2, <1>6, <1>10, CheckedKnown
  <1> QED BY <1>2, <1>5, <1>11 DEF xy

\* A remainder is smaller than the divisor, no larger than the dividend, and
\* has the dividend's sign.
LEMMA Remainder ==
    ASSUME NEW a \in Int, NEW b \in Int, b # 0
    PROVE  /\ Rem(a, b) \in Int
           /\ a >= 0 => /\ 0 <= Rem(a, b) /\ Rem(a, b) <= a
                        /\ Rem(a, b) <= Magnitude(b) - 1
           /\ a < 0  => /\ Rem(a, b) <= 0 /\ a <= Rem(a, b)
                        /\ Rem(a, b) >= -(Magnitude(b) - 1)
  <1> DEFINE m == Magnitude(a)  n == Magnitude(b)  q == m \div n
  <1>1. m \in Nat /\ n \in Nat /\ n > 0
    BY MagnitudeNat
  <1>2. q \in Nat /\ n * q <= m /\ m < n * q + n
    BY <1>1, NatQuotient
  <1>3. Quot(a, b) = IF (a < 0) <=> (b < 0) THEN q ELSE -q
    BY DEF Quot
  <1>4. n * q >= 0 /\ n * q \in Int
    BY <1>1, <1>2
  <1>5. m = (IF a < 0 THEN -a ELSE a) /\ n = (IF b < 0 THEN -b ELSE b)
    BY DEF Magnitude
  <1> HIDE DEF m, n, q
  <1>6. b * Quot(a, b) = IF a < 0 THEN -(n * q) ELSE n * q
    <2>1. CASE b < 0
      <3>1. n = -b
        BY <1>5, <2>1
      <3>2. b * q = -(n * q) /\ b * (-q) = n * q
        BY <1>2, <3>1
      <3> QED BY <1>3, <2>1, <3>2
    <2>2. CASE b > 0
      <3>1. n = b
        BY <1>5, <2>2
      <3>2. b * q = n * q /\ b * (-q) = -(n * q)
        BY <1>2, <3>1
      <3> QED BY <1>3, <2>2, <3>2
    <2> QED BY <2>1, <2>2
  <1>7. Rem(a, b) = IF a < 0 THEN a + n * q ELSE a - n * q
    BY <1>4, <1>6 DEF Rem
  <1> QED BY <1>1, <1>2, <1>4, <1>5, <1>7 DEF n

\* A remainder of two values in their intervals (BinOp::Mod).
THEOREM ModSound ==
    ASSUME NEW l \in Interval, NEW r \in Interval,
           NEW x \in Word, NEW y \in Word, Holds(l, x), Holds(r, y),
           ModRange(l, r).known
    PROVE  /\ ~DivisionFails(x, y)
           /\ Holds(ModRange(l, r), Rem(x, y))
  <1> DEFINE limit == Upper(Magnitude(r.lo), Magnitude(r.hi)) - 1
             lo == Upper(Lower(l.lo, 0), -limit)
             hi == Lower(Upper(l.hi, 0), limit)
  <1>1. l.known /\ r.known /\ ~MayBeZero(r) /\ ~MayOverflow(l, r)
    BY DEF ModRange, Unknown
  <1>2. ModRange(l, r).lo = lo /\ ModRange(l, r).hi = hi
    BY <1>1 DEF ModRange, Between
  <1>3. /\ l.lo \in Int /\ l.hi \in Int /\ r.lo \in Int /\ r.hi \in Int
        /\ x \in Int /\ y \in Int /\ MinWord \in Int
        /\ l.lo <= x /\ x <= l.hi /\ r.lo <= y /\ y <= r.hi
        /\ MinWord <= l.lo
    BY <1>1, HeldValue, WordIsInt
  <1>4. y # 0
    BY <1>1, <1>3 DEF MayBeZero
  <1>5. ~DivisionFails(x, y)
    BY <1>1, <1>3, <1>4 DEF DivisionFails, MayOverflow
  <1>6. limit \in Int /\ Magnitude(y) - 1 <= limit /\ limit >= 0
    BY <1>1, <1>3, <1>4 DEF Magnitude, Upper, MayBeZero
  <1>7. Magnitude(y) \in Int
    BY <1>3 DEF Magnitude
  <1> HIDE DEF limit
  <1>8. lo <= Rem(x, y) /\ Rem(x, y) <= hi
    <2> DEFINE k == Rem(x, y)  n == Magnitude(y)
    <2>1. /\ k \in Int
          /\ x >= 0 => 0 <= k /\ k <= x /\ k <= n - 1
          /\ x < 0  => k <= 0 /\ x <= k /\ k >= -(n - 1)
      BY <1>3, <1>4, Remainder
    <2> HIDE DEF k, n
    <2>2. n \in Int /\ n - 1 <= limit
      BY <1>6, <1>7 DEF n
    <2>3. -limit <= k /\ k <= limit
      BY <1>3, <1>6, <2>1, <2>2
    <2>4. Lower(l.lo, 0) <= k /\ k <= Upper(l.hi, 0)
      BY <1>3, <2>1 DEF Lower, Upper
    <2>5. lo <= k /\ k <= hi
      BY <2>3, <2>4 DEF Upper, Lower
    <2> QED BY <2>5 DEF k
  <1> QED BY <1>2, <1>5, <1>8 DEF Holds

-----------------------------------------------------------------------------
(* Decided comparisons *)

\* try_static_eval and try_static_condition: a comparison which the intervals
\* decide has that outcome for all values in them, so the branch that the
\* optimizer or the emitter deletes is never taken.
THEOREM BranchesSound ==
    ASSUME NEW l \in Interval, NEW r \in Interval,
           NEW x \in Word, NEW y \in Word, Holds(l, x), Holds(r, y), NEW op
    PROVE  /\ TruthOf(op, l, r) = "always" => Compare(op, x, y)
           /\ TruthOf(op, l, r) = "never" => ~Compare(op, x, y)
  <1>1. TruthOf(op, l, r) # "open" => l.known /\ r.known
    BY DEF TruthOf
  <1> SUFFICES ASSUME l.known, r.known
               PROVE  /\ TruthOf(op, l, r) = "always" => Compare(op, x, y)
                      /\ TruthOf(op, l, r) = "never" => ~Compare(op, x, y)
    BY <1>1
  <1>2. /\ l.lo \in Int /\ l.hi \in Int /\ x \in Int /\ l.lo <= x /\ x <= l.hi
        /\ r.lo \in Int /\ r.hi \in Int /\ y \in Int /\ r.lo <= y /\ y <= r.hi
    BY HeldValue
  <1>3. CASE op = "gt"
    BY <1>2, <1>3 DEF TruthOf, Compare
  <1>4. CASE op = "lt"
    BY <1>2, <1>4 DEF TruthOf, Compare
  <1>5. CASE op = "ge"
    BY <1>2, <1>5 DEF TruthOf, Compare
  <1>6. CASE op = "le"
    BY <1>2, <1>6 DEF TruthOf, Compare
  <1>7. CASE op \notin {"gt", "lt", "ge", "le"}
    BY <1>7 DEF TruthOf
  <1> QED BY <1>3, <1>4, <1>5, <1>6, <1>7

-----------------------------------------------------------------------------
(* Division by multiplication *)

\* A quotient is determined by its two bounds.
LEMMA QuotientUnique ==
    ASSUME NEW m \in Nat, NEW n \in Nat, NEW q \in Nat, n > 0,
           n * q <= m, m < n * q + n
    PROVE  m \div n = q
  <1> DEFINE p == m \div n
  <1>1. p \in Nat /\ n * p <= m /\ m < n * p + n
    BY NatQuotient
  <1> HIDE DEF p
  <1>2. n * p \in Int /\ n * q \in Int
    BY <1>1
  <1>3. ~(p >= q + 1)
    <2>1. SUFFICES ASSUME p >= q + 1 PROVE FALSE
      OBVIOUS
    <2>2. n * p >= n * (q + 1) /\ n * (q + 1) = n * q + n
      BY <1>1, <2>1
    <2> QED BY <1>1, <1>2, <2>2
  <1>4. ~(q >= p + 1)
    <2>1. SUFFICES ASSUME q >= p + 1 PROVE FALSE
      OBVIOUS
    <2>2. n * q >= n * (p + 1) /\ n * (p + 1) = n * p + n
      BY <1>1, <2>1
    <2> QED BY <1>1, <1>2, <2>2
  <1> QED BY <1>1, <1>3, <1>4 DEF p

\* Dividing twice is dividing by the product: the high word and the shift.
LEMMA QuotientOfQuotient ==
    ASSUME NEW m \in Nat, NEW n \in Nat, NEW k \in Nat, n > 0, k > 0
    PROVE  (m \div n) \div k = m \div (n * k)
  <1> DEFINE p == m \div n  q == p \div k
  <1>1. p \in Nat /\ n * p <= m /\ m < n * p + n
    BY NatQuotient
  <1>2. q \in Nat /\ k * q <= p /\ p < k * q + k
    BY <1>1, NatQuotient
  <1> HIDE DEF p, q
  <1>3. n * k \in Nat /\ n * k > 0
    OBVIOUS
  <1>4. n * (k * q) <= n * p /\ n * (p + 1) <= n * (k * q + k)
    BY <1>1, <1>2
  <1>5. /\ n * (k * q) = (n * k) * q
        /\ n * (k * q + k) = (n * k) * q + n * k
        /\ n * (p + 1) = n * p + n
    BY <1>1, <1>2
  <1>6. (n * k) * q <= m /\ m < (n * k) * q + n * k
    BY <1>1, <1>2, <1>3, <1>4, <1>5
  <1> QED BY <1>2, <1>3, <1>6, QuotientUnique DEF p, q

\* The multiplier native.rs computes is exact for every nonnegative word,
\* not only for the samples it verifies: a dividend whose interval starts at
\* zero or above may be divided with mul and shr.
THEOREM MagicExact ==
    ASSUME NEW d \in Nat, NEW power \in Nat, d > 0,
           power <= d, d < 2 * power,
           NEW x \in Nat, x < Half
    PROVE  HighShifted(x, Magic(d, power), power) = x \div d
  <1> DEFINE N == 2 * Half * power
             g == Magic(d, power)
             q == x \div d
  <1>1. N \in Nat /\ power > 0 /\ N > 0 /\ Half \in Nat /\ Half > 0
    BY HalfAssumption
  <1>2. g \in Nat /\ d * g <= N + d - 1 /\ N + d - 1 < d * g + d
    <2>1. N + d - 1 \in Nat
      BY <1>1
    <2>2. g = (N + d - 1) \div d
      BY DEF Magic
    <2> HIDE DEF N, g
    <2> QED BY <2>1, <2>2, NatQuotient
  <1>3. q \in Nat /\ d * q <= x /\ x < d * q + d
    BY NatQuotient
  <1>4. HighShifted(x, g, power) = (x * g) \div N
    <2>1. x * g \in Nat /\ 2 * Half \in Nat /\ 2 * Half > 0
      BY <1>1, <1>2
    <2> HIDE DEF g
    <2> QED BY <1>1, <2>1, QuotientOfQuotient DEF HighShifted
  <1> DEFINE e == d * g - N
  <1>5. e \in Nat /\ e < d /\ d * g = N + e
    <2> HIDE DEF N, g
    <2> QED BY <1>1, <1>2
  <1>6. x * e < N
    <2> HIDE DEF e
    <2>1. e + 1 <= 2 * power
      BY <1>5
    <2>2. x * (e + 1) <= x * (2 * power)
      BY <1>5, <2>1
    <2>3. x * (2 * power) < Half * (2 * power)
      BY <1>1
    <2>4. Half * (2 * power) = N
      BY <1>1
    <2>5. x * (e + 1) = x * e + x
      BY <1>5
    <2>6. x * e \in Int /\ x * (2 * power) \in Int
      BY <1>5
    <2> HIDE DEF N
    <2> QED BY <1>1, <2>2, <2>3, <2>4, <2>5, <2>6
  <1> HIDE DEF N, g, q, e
  <1>7. d * (x * g) = x * N + x * e
    <2>1. d * (x * g) = x * (d * g)
      BY <1>2
    <2>2. x * (N + e) = x * N + x * e
      BY <1>1, <1>5
    <2> QED BY <1>5, <2>1, <2>2
  <1>8. /\ x * N >= (d * q) * N
        /\ x * N <= (d * q + d - 1) * N
        /\ x * e >= 0
    BY <1>1, <1>3, <1>5
  <1>9. N * q <= x * g
    <2>1. SUFFICES ASSUME x * g < N * q PROVE FALSE
      BY <1>1, <1>2, <1>3
    <2>2. d * (x * g) < d * (N * q)
      BY <1>1, <1>2, <1>3, <2>1
    <2>3. d * (N * q) = (d * q) * N
      BY <1>1, <1>3
    <2>4. x * N \in Int /\ x * e \in Int /\ d * (N * q) \in Int
      BY <1>1, <1>3, <1>5
    <2> QED BY <1>7, <1>8, <2>2, <2>3, <2>4
  <1>10. x * g < N * q + N
    <2>1. SUFFICES ASSUME x * g >= N * q + N PROVE FALSE
      BY <1>1, <1>2, <1>3
    <2>2. d * (x * g) >= d * (N * q + N)
      BY <1>1, <1>2, <1>3, <2>1
    <2>3. d * (N * q + N) = (d * q + d - 1) * N + N
      BY <1>1, <1>3
    <2>4. /\ x * N \in Int /\ x * e \in Int
          /\ (d * q + d - 1) * N \in Int
      BY <1>1, <1>3, <1>5
    <2> QED BY <1>1, <1>6, <1>7, <1>8, <2>2, <2>3, <2>4
  <1>11. x * g \in Nat
    BY <1>2
  <1>12. (x * g) \div N = q
    BY <1>1, <1>3, <1>9, <1>10, <1>11, QuotientUnique
  <1> QED BY <1>4, <1>12 DEF g, q

-----------------------------------------------------------------------------
(* Division by a shift *)

\* The quotient rounded downward is determined by its two bounds.
LEMMA FloorUnique ==
    ASSUME NEW a \in Int, NEW n \in Nat, NEW q \in Int, n > 0,
           n * q <= a, a < n * q + n
    PROVE  a \div n = q
  <1> DEFINE p == a \div n
  <1>1. p \in Int /\ n * p <= a /\ a < n * p + n
    BY SMT
  <1> HIDE DEF p
  <1>2. n * p \in Int /\ n * q \in Int
    BY <1>1
  <1>3. ~(p >= q + 1)
    <2>1. SUFFICES ASSUME p >= q + 1 PROVE FALSE
      OBVIOUS
    <2>2. n * p >= n * (q + 1) /\ n * (q + 1) = n * q + n
      BY <1>1, <2>1
    <2> QED BY <1>1, <1>2, <2>2
  <1>4. ~(q >= p + 1)
    <2>1. SUFFICES ASSUME q >= p + 1 PROVE FALSE
      OBVIOUS
    <2>2. n * q >= n * (p + 1) /\ n * (p + 1) = n * p + n
      BY <1>1, <2>1
    <2> QED BY <1>1, <1>2, <2>2
  <1> QED BY <1>1, <1>3, <1>4 DEF p

\* DividePower, for d = 2^k and rest = 2^(w-k), k <= w - 2: cqo spreads the sign
\* of the dividend over a word, shr by w - k leaves the bias, and after the
\* addition, which stays a word, sar divides by d rounding downward.
THEOREM PowerExact ==
    ASSUME NEW x \in Word, NEW d \in Nat, NEW rest \in Nat,
           d > 0, rest > 1, d * rest = 2 * Half
    PROVE  LET spread == IF x < 0 THEN 2 * Half - 1 ELSE 0
               biased == x + (spread \div rest)
           IN  biased \in Word /\ biased \div d = Quot(x, d)
  <1> DEFINE spread == IF x < 0 THEN 2 * Half - 1 ELSE 0
             biased == x + (spread \div rest)
  <1>1. x \in Int /\ Half \in Nat /\ Half > 0 /\ -Half <= x /\ x <= Half - 1
    BY HalfAssumption, WordIsInt DEF Word, MinWord, MaxWord
  <1>2. d <= Half
    <2>1. d * rest >= d * 2
      OBVIOUS
    <2> QED BY <1>1, <2>1
  <1>3. Magnitude(d) = d
    BY DEF Magnitude
  <1>4. CASE x >= 0
    <2>1. spread = 0 /\ 0 \div rest = 0
      BY <1>1, <1>4, FloorUnique
    <2>2. biased = x
      BY <1>1, <2>1
    <2>3. Quot(x, d) = x \div d
      BY <1>1, <1>3, <1>4, QuotInt DEF Quot, Magnitude
    <2> QED BY <2>2, <2>3
  <1>5. CASE x < 0
    <2>1. spread = d * rest - 1
      BY <1>5
    <2>2. spread \div rest = d - 1
      <3>1. rest * (d - 1) = d * rest - rest
        OBVIOUS
      <3>2. rest * (d - 1) <= d * rest - 1 /\ d * rest - 1 < rest * (d - 1) + rest
        BY <1>1, <3>1
      <3>3. d * rest - 1 \in Int /\ d - 1 \in Int
        BY <1>1
      <3>4. (d * rest - 1) \div rest = d - 1
        BY <3>2, <3>3, FloorUnique
      <3> HIDE DEF spread
      <3> QED BY <2>1, <3>4
    <2>3. biased = x + (d - 1)
      BY <2>2
    <2> HIDE DEF spread, biased
    <2>4. biased \in Word
      BY <1>1, <1>2, <1>5, <2>3, WordIsInt DEF MinWord, MaxWord
    <2>5. PICK m \in Nat : m = -x
      BY <1>1, <1>5
    <2>6. PICK q \in Nat : q = m \div d
      BY NatQuotient
    <2>7. d * q <= m /\ m < d * q + d
      BY <2>6, NatQuotient
    <2>8. Quot(x, d) = -q
      BY <1>1, <1>3, <1>5, <2>5, <2>6 DEF Quot, Magnitude
    <2>9. PICK dq \in Int : dq = d * q /\ d * (-q) = -dq
      OBVIOUS
    <2>10. -dq <= biased /\ biased < -dq + d /\ biased \in Int
      BY <1>1, <2>3, <2>5, <2>7, <2>9
    <2>11. biased \div d = -q
      BY <2>9, <2>10, FloorUnique
    <2> QED BY <2>4, <2>8, <2>11 DEF spread, biased
  <1> QED BY <1>1, <1>4, <1>5

=============================================================================
