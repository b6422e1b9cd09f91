------------------------------ MODULE MoneyCalls ------------------------------
(***************************************************************************)
(* Calls of the money functions: one amount and rate, and a list of        *)
(* weights or of slabs that grows argument by argument, so that the states *)
(* are the inputs.                                                         *)
(***************************************************************************)
EXTENDS Money

CONSTANTS MaxAmount, Rates, MaxWeight, Bounds, SlabRates, MaxLen

ASSUME MoneyAssumption ==
    /\ MaxAmount \in Nat /\ Rates \subseteq Nat /\ MaxWeight \in Nat
    /\ Bounds \subseteq Nat /\ MaxLen \in Nat

VARIABLES amount, rate, weights, slabs

callVars == <<amount, rate, weights, slabs>>

Slab == [from : Bounds, to : Bounds \cup {Unbounded}, rate : SlabRates]

CallInit ==
    /\ amount \in -MaxAmount .. MaxAmount
    /\ rate \in Rates
    /\ weights = <<>>
    /\ slabs = <<>>

AddWeight(w) ==
    /\ slabs = <<>> /\ Len(weights) < MaxLen
    /\ rate = CHOOSE r \in Rates : TRUE
    /\ weights' = Append(weights, w)
    /\ UNCHANGED <<amount, rate, slabs>>

AddSlab(s) ==
    /\ weights = <<>> /\ Len(slabs) < MaxLen
    /\ amount >= 0 /\ rate = CHOOSE r \in Rates : TRUE
    /\ slabs' = Append(slabs, s)
    /\ UNCHANGED <<amount, rate, weights>>

CallNext == (\E w \in 0 .. MaxWeight : AddWeight(w)) \/ (\E s \in Slab : AddSlab(s))

CallSpec == CallInit /\ [][CallNext]_callVars

-----------------------------------------------------------------------------

Abs(n) == IF n < 0 THEN -n ELSE n

\* The two halves of an intra-state tax are equal and together within one paisa
\* of the inter-state tax on the same base (gstComponents).
GstHalvesAgree ==
    ~gstThrows(rate) =>
        LET intra == gstComponents(amount, rate, TRUE)
            inter == gstComponents(amount, rate, FALSE)
        IN  /\ intra.cgst = intra.sgst
            /\ Abs(taxTotal(intra) - taxTotal(inter)) <= 1

\* allocate loses no paisa, gives every bucket its exact proportion rounded down
\* or up (so a zero weight gets nothing), and never prefers a bucket with a
\* smaller remainder.
AllocateIsFair ==
    ~allocateThrows(weights) =>
        LET shares == allocate(amount, weights)
            W == SumSeq(weights)
            excess(i) == Abs(shares[i]) * W - Abs(amount) * weights[i]
        IN  /\ SumSeq(shares) = amount
            /\ \A i \in DOMAIN weights : excess(i) < W /\ -excess(i) < W
            /\ \A i, j \in DOMAIN weights :
                  excess(i) > 0 /\ excess(j) < 0 => W - excess(i) >= -excess(j)

\* A list of slabs that validateSlabContiguity accepts has a slab for every
\* basis: matchCommissionSlab never throws for a saved rule.
ValidSlabsCoverEveryBasis ==
    validateSlabContiguity(slabs) /\ amount >= 0 => matchCommissionSlab(amount, slabs) # 0

\* The three promises of the arithmetic under every schedule and commission, for
\* every call: equal halves of a tax, a fair allocation, a slab for every basis.
ArithmeticIsExact == GstHalvesAgree /\ AllocateIsFair /\ ValidSlabsCoverEveryBasis

\* Not kept by the code (README.md, Known divergences), as is GstNeverThrows: a
\* basis that lands on a boundary of an accepted list belongs to the higher
\* bracket (matchCommissionSlab).
BoundaryIsHigher ==
    validateSlabContiguity(slabs) =>
        \A i \in DOMAIN slabs : matchCommissionSlab(slabs[i].from, slabs) >= i

\* A rate the GST master accepts can be split in two halves.
GstNeverThrows == ~gstThrows(rate)
=============================================================================
