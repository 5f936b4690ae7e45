-------------------------------- MODULE Money --------------------------------
(***************************************************************************)
(* The totals of a document: computeDocumentTotals takes the lines one by  *)
(* one, each rounded to the cent, into the totals and the breakdown by      *)
(* rate.  Prices are in cents, quantities in hundredths; both are exact     *)
(* here, where the program has floats and rounds them at once.              *)
(***************************************************************************)
EXTENDS Integers

CONSTANTS Prices, Quantities,  \* what a line may say
          MaxCents,            \* ceiling of a line (MAX_CENTS)
          MaxQuantity,
          MaxLines             \* 500 in the program

MoneyAssumption == /\ Prices \subseteq Int /\ Quantities \subseteq Int
                   /\ MaxCents \in Nat /\ MaxQuantity \in Nat /\ MaxLines \in Nat \ {0}

AllowedVatRates == {0, 6, 12, 21}
Rates == AllowedVatRates \cup {20}

VARIABLES
  state,       \* "adding", "refused"
  lines,       \* number of lines taken
  amountHt, vatAmount,
  byRate       \* for each rate: base and VAT, in cents

vars == <<state, lines, amountHt, vatAmount, byRate>>

\* Math.round of n / d.
RoundedRatio(n, d) == (2 * n + d) \div (2 * d)

IsSane(line) == /\ line.qty >= 0 /\ line.price >= 0
                /\ line.qty <= MaxQuantity
                /\ line.rate \in AllowedVatRates

LineTotals(line) ==
  LET ht == RoundedRatio(line.price * line.qty, 100)
  IN [ht |-> ht, vat |-> RoundedRatio(ht * line.rate, 100)]

InRange(line) == line.price <= MaxCents /\ LineTotals(line).ht <= MaxCents

Init == /\ state = "adding" /\ lines = 0
        /\ amountHt = 0 /\ vatAmount = 0
        /\ byRate = [rate \in AllowedVatRates |-> [base |-> 0, vat |-> 0]]

Line == [price : Prices, qty : Quantities, rate : Rates]

AddLine ==
  /\ state = "adding" /\ lines < MaxLines
  /\ \E line \in Line :
       LET totals == LineTotals(line) IN
       /\ IsSane(line) /\ InRange(line)
       /\ amountHt' = amountHt + totals.ht
       /\ vatAmount' = vatAmount + totals.vat
       /\ byRate' = [byRate EXCEPT ![line.rate] =
                       [base |-> @.base + totals.ht, vat |-> @.vat + totals.vat]]
  /\ lines' = lines + 1
  /\ UNCHANGED state

\* One line that is not sane refuses the document.
RefuseLine ==
  /\ state = "adding"
  /\ \E line \in Line : ~(IsSane(line) /\ InRange(line))
  /\ state' = "refused"
  /\ UNCHANGED <<lines, amountHt, vatAmount, byRate>>

Next == AddLine \/ RefuseLine

Spec == Init /\ [][Next]_vars
-----------------------------------------------------------------------------
(* Properties.                                                             *)

Bucket == [base : Nat, vat : Nat]

\* The totals are amounts, never negative.
TypeOK == /\ state \in {"adding", "refused"} /\ lines \in 0..MaxLines
          /\ amountHt \in Nat /\ vatAmount \in Nat
          /\ byRate \in [AllowedVatRates -> Bucket]

Magnitude(n) == IF n < 0 THEN -n ELSE n

\* "Une facture qui ne tombe pas juste est un litige": the breakdown adds up to the
\* totals, and rounding every line moves the VAT of a rate from the VAT of its base
\* by no more than half a cent a line.
TotalsAddUp ==
  /\ byRate[0].base + byRate[6].base + byRate[12].base + byRate[21].base = amountHt
  /\ byRate[0].vat + byRate[6].vat + byRate[12].vat + byRate[21].vat = vatAmount
  /\ \A rate \in AllowedVatRates :
       Magnitude(100 * byRate[rate].vat - byRate[rate].base * rate) <= 50 * lines
=============================================================================
