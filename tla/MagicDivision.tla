--------------------------- MODULE MagicDivision ---------------------------
(***************************************************************************)
(* Division of a nonnegative word by a constant as a multiplication and a  *)
(* shift (native.rs, magic_div_constant).                                  *)
(***************************************************************************)
EXTENDS Intervals

\* 2^p for p = floor(log2(d)).
FloorPower(d) == CHOOSE k \in {2^p : p \in 0..30} : k <= d /\ d < 2 * k

\* ceil(2^(w+p) / d), where 2^w = 2 * Half.
Magic(d, power) == (2 * Half * power + d - 1) \div d

\* The high word of x * magic, shifted right by p.
HighShifted(x, magic, power) == ((x * magic) \div (2 * Half)) \div power

\* The multiplier is used if it is an unsigned word and is right on the
\* sampled dividends (unsigned words; `d * 100` wraps).  SquareRoot is
\* 2^(w/2), so the last sample is the u32::MAX of the program.
MagicUsable(d, squareRoot) ==
    LET power == FloorPower(d)
        magic == Magic(d, power)
        samples == {0, 1, d - 1, d, d + 1, (d * 100) % (2 * Half),
                    squareRoot - 1}
    IN  /\ d > 1
        /\ magic < 2 * Half
        /\ \A x \in samples : HighShifted(x, magic, power) = x \div d

=============================================================================
