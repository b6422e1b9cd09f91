-------------------------------- MODULE Money --------------------------------
(***************************************************************************)
(* Integer arithmetic on paise: rounding, percentages, GST, the            *)
(* distribution of a total over weights, and commission slabs.  Everything *)
(* is BigInt in the code, so nothing overflows.                            *)
(***************************************************************************)
EXTENDS Integers, Sequences, SequencesExt

\* Round half away from zero; d > 0.
roundedDiv(n, d) ==
    IF n >= 0 THEN (n + d \div 2) \div d ELSE -((-n + d \div 2) \div d)

percentOf(paise, basisPoints) == roundedDiv(paise * basisPoints, 10000)

\* The GST of a base.  The code halves the rate as a number: BigInt refuses half
\* of an odd rate, so a rate with an odd number of basis points throws.
gstThrows(rate) == rate % 2 = 1

gstComponents(base, rate, intra) ==
    IF intra
    THEN [cgst |-> percentOf(base, rate \div 2), sgst |-> percentOf(base, rate \div 2),
          igst |-> 0]
    ELSE [cgst |-> 0, sgst |-> 0, igst |-> percentOf(base, rate)]

taxTotal(c) == c.cgst + c.sgst + c.igst

-----------------------------------------------------------------------------

SumSeq(s) == FoldLeft(+, 0, s)

allocateThrows(weights) == weights = <<>> \/ SumSeq(weights) <= 0

\* Fault: the last bucket takes whatever is left.
allocateNonNegativeToLast(total, weights) ==
    LET W == SumSeq(weights)
        floor == [i \in 1 .. Len(weights) |-> (total * weights[i]) \div W]
    IN  [i \in 1 .. Len(weights) |->
            floor[i] + (IF i = Len(weights) THEN total - SumSeq(floor) ELSE 0)]

\* Floors first, then one paisa each to the largest remainders, lowest index
\* first among equals.
allocateNonNegative(total, weights) ==
    LET W        == SumSeq(weights)
        N        == 1 .. Len(weights)
        floor    == [i \in N |-> (total * weights[i]) \div W]
        rem      == [i \in N |-> (total * weights[i]) % W]
        leftover == total - SumSeq(floor)
        ahead(i) == {j \in N : rem[j] > rem[i] \/ (rem[j] = rem[i] /\ j < i)}
    IN  [i \in N |-> floor[i] + (IF Cardinality(ahead(i)) < leftover THEN 1 ELSE 0)]

allocate(total, weights) ==
    IF total >= 0 THEN allocateNonNegative(total, weights)
    ELSE LET shares == allocateNonNegative(-total, weights)
         IN  [i \in DOMAIN shares |-> -shares[i]]

-----------------------------------------------------------------------------
(* Commission slabs, in seq order: [from, to, rate], to = Unbounded at the *)
(* top.                                                                    *)

\* toPaise is omitted; no bound is negative.
Unbounded == -1

validateSlabContiguity(slabs) ==
    /\ slabs # <<>>
    /\ slabs[1].from = 0
    /\ \A i \in 1 .. Len(slabs) - 1 :
          slabs[i].to # Unbounded /\ slabs[i].to = slabs[i + 1].from
    /\ slabs[Len(slabs)].to = Unbounded

Matches(basis, s) == basis >= s.from /\ (s.to = Unbounded \/ basis < s.to)

\* The index of the first slab whose half-open bracket holds the basis, 0 where
\* matchCommissionSlab throws.
matchCommissionSlab(basis, slabs) ==
    LET hits == {i \in DOMAIN slabs : Matches(basis, slabs[i])}
    IN  IF hits = {} THEN 0 ELSE CHOOSE i \in hits : \A j \in hits : i <= j

computeCommissionPaise(basis, slabs) ==
    percentOf(basis, slabs[matchCommissionSlab(basis, slabs)].rate)
=============================================================================
