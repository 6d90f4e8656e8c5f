-------------------------------- MODULE Gtin --------------------------------
(***************************************************************************)
(* gtin.util.js: the check digit of a trade item number, and what becomes  *)
(* of a number between the label it is printed on and the product DTO.     *)
(*                                                                         *)
(* A number is the sequence of its digits.  The functions return numbers   *)
(* of digits for strings of digits; strings of anything else are refused   *)
(* by a regular expression and left out.                                   *)
(***************************************************************************)
EXTENDS Integers, SequencesExt

CONSTANT Bases      \* numbers without their check digit

Digits  == 0..9
Lengths == {8, 12, 13, 14}

ASSUME BasesAssumption == \A b \in Bases : b \in Seq(Digits) /\ Len(b) + 1 \in Lengths

VARIABLES label,     \* as assigned by GS1
          entered,   \* as entered by a provider
          slip,      \* what went wrong on the way
          verdict    \* of the DTO
vars == <<label, entered, slip, verdict>>

----------------------------------------------------------------------------

(* Mistake: the doubling of the digits of a card number.                   *)
WeightTwo(n, pos) == IF n % 2 = pos % 2 THEN 2 ELSE 1

Weight(n, pos) == IF n % 2 = pos % 2 THEN 3 ELSE 1

Total(s) ==
    LET sum[i \in 0..Len(s)] == IF i = 0 THEN 0 ELSE sum[i - 1] + s[i]
    IN  sum[Len(s)]

WeightedSum(base) ==
    Total([pos \in 1..Len(base) |-> base[pos] * Weight(Len(base), pos)])

(* Mistake: the edge at 0 is forgotten.                                    *)
CheckDigitUpToTen(base) == 10 - (WeightedSum(base) % 10)

ComputeCheckDigit(base) == (10 - (WeightedSum(base) % 10)) % 10

IsValidGTIN(gtin) ==
    Len(gtin) \in Lengths /\ Last(gtin) = ComputeCheckDigit(Front(gtin))

Zeros(n) == [i \in 1..n |-> 0]

(* padStart(14, "0")                                                       *)
NormalizeGTIN14(gtin) == Zeros(14 - Len(gtin)) \o gtin

----------------------------------------------------------------------------

(* The definition of GS1: counted from the right, weights 1 and 3 take     *)
(* turns, and the weighted sum is a multiple of 10.                        *)
GS1Terms(gtin) ==
    [i \in 1..Len(gtin) |-> gtin[i] * (IF (Len(gtin) - i) % 2 = 0 THEN 1 ELSE 3)]

GS1Valid(gtin) == Total(GS1Terms(gtin)) % 10 = 0

Init == /\ label \in {Append(b, c) : b \in Bases, c \in Digits} /\ GS1Valid(label)
        /\ entered = label /\ slip = "none" /\ verdict = "none"

Mistype ==
    /\ verdict = "none" /\ slip = "none"
    /\ \E i \in DOMAIN entered : \E d \in Digits \ {entered[i]} :
         entered' = ReplaceAt(entered, i, d)
    /\ slip' = "mistyped"
    /\ UNCHANGED <<label, verdict>>

Swap ==
    /\ verdict = "none" /\ slip = "none"
    /\ \E i \in 1..(Len(entered) - 1) :
         /\ entered[i] # entered[i + 1]
         /\ entered' = [entered EXCEPT ![i] = entered[i + 1], ![i + 1] = entered[i]]
    /\ slip' = "swapped"
    /\ UNCHANGED <<label, verdict>>

(* The service itself never calls normalizeGTIN14.                         *)
Lengthen ==
    /\ verdict = "none" /\ Len(entered) < 14
    /\ entered' = NormalizeGTIN14(entered)
    /\ UNCHANGED <<label, slip, verdict>>

Submit ==
    /\ verdict = "none"
    /\ verdict' = IF IsValidGTIN(entered) THEN "accepted" ELSE "refused"
    /\ UNCHANGED <<label, entered, slip>>

Next == Mistype \/ Swap \/ Lengthen \/ Submit

Spec == Init /\ [][Next]_vars

----------------------------------------------------------------------------

(* isValidGTIN, which counts weights from the left by the parity of the    *)
(* base, accepts for each of the four lengths exactly the numbers GS1's    *)
(* definition from the right accepts, mistakes included.                   *)
AcceptsExactlyGS1 ==
    verdict # "none" => (verdict = "accepted" <=> GS1Valid(entered))

(* The digits that differ from the label's do so by 5.                     *)
FiveApart ==
    LET printed == NormalizeGTIN14(label)
        typed   == NormalizeGTIN14(entered)
    IN  \A i \in 1..14 : printed[i] - typed[i] \in {-5, 0, 5}

(* A number with one wrong digit is refused wherever the digit stands, and *)
(* so is one with two neighbours swapped, unless they differ by 5, whether *)
(* or not it was filled up to 14 digits before: the weights 3 and 1 tell   *)
(* every other pair apart.                                                 *)
SlipsRefused ==
    verdict = "accepted" => slip = "none" \/ (slip = "swapped" /\ FiveApart)
=============================================================================
