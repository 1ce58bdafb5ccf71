----------------------------- MODULE Requisites -----------------------------
(***************************************************************************)
(* The check digits of a company's requisites.  A requisite is a sequence  *)
(* of digits; what is not made of digits has been refused already.         *)
(***************************************************************************)
EXTENDS Integers, SequencesExt

Weighted(s, weights) == FoldSeq(LAMBDA x, sum : x + sum, 0, [i \in DOMAIN weights |-> s[i] * weights[i]])
CheckDigit(s, weights) == (Weighted(s, weights) % 11) % 10

\* A check digit after nine digits, or two after ten.
Inn10OK(s) == s[10] = CheckDigit(s, <<2, 4, 10, 3, 5, 9, 4, 6, 8>>)
Inn12OK(s) == /\ s[11] = CheckDigit(s, <<7, 2, 4, 10, 3, 5, 9, 4, 6, 8>>)
              /\ s[12] = CheckDigit(s, <<3, 7, 2, 4, 10, 3, 5, 9, 4, 6, 8>>)
validate_inn_legal(s) == Len(s) = 10 /\ Inn10OK(s)
validate_inn_any(s) == (Len(s) = 10 /\ Inn10OK(s)) \/ (Len(s) = 12 /\ Inn12OK(s))

\* The number s modulo m, digit by digit: it does not fit into 32 bits.
ModOf(s, m) == FoldLeft(LAMBDA rest, digit : (rest * 10 + digit) % m, 0, s)
Ogrn13OK(s) == s[13] = ModOf(SubSeq(s, 1, 12), 11) % 10
Ogrn15OK(s) == s[15] = ModOf(SubSeq(s, 1, 14), 13) % 10
validate_ogrn(s) == Len(s) = 13 /\ Ogrn13OK(s)
validate_ogrn_any(s) == (Len(s) = 13 /\ Ogrn13OK(s)) \/ (Len(s) = 15 /\ Ogrn15OK(s))

-----------------------------------------------------------------------------
(* What the check digits are for *)
Mistyped(s) == {[s EXCEPT ![i] = d] : i \in DOMAIN s, d \in 0..9} \ {s}
Swapped(s) == {[s EXCEPT ![i] = s[i + 1], ![i + 1] = s[i]] : i \in 1..(Len(s) - 1)} \ {s}

\* One wrong digit in a valid tax number is noticed unless it turns the
\* remainder 10 into 0 or back, for both are written as the digit 0.
TyposAreNoticed(s) == validate_inn_any(s) =>
  \A z \in Mistyped(s) : validate_inn_any(z) => s[Len(s)] = 0 \/ s[Len(s) - 1] = 0

\* A registration number with two neighbours swapped is refused, with the
\* same exception: ten is minus one modulo eleven.
SwapsAreNoticed(s) == validate_ogrn(s) =>
  \A z \in Swapped(s) : validate_ogrn(z) => 0 \in {s[13], z[13]}

\* The remainder of a number by its digits is its alternating digit sum.
RemainderAgrees(s) == LET n == Len(s) IN
  ModOf(s, 11) = FoldSeq(LAMBDA x, sum : x + sum, 0,
    [i \in 1..n |-> IF (n - i) % 2 = 0 THEN s[i] ELSE -s[i]]) % 11
=============================================================================
