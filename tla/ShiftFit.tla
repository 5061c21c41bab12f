------------------------------ MODULE ShiftFit ------------------------------
(***************************************************************************)
(* The fit of the correction of chromatic aberrations: the shift measured  *)
(* in each block (v, h) is approximated by a polynomial in v and h, cubic  *)
(* in each, or linear in each when few blocks are left.  One color and one *)
(* direction are modelled; the others are treated the same.                *)
(***************************************************************************)
EXTENDS Integers, Sequences

CONSTANTS
  Side,     \* blocks are numbered 1..Side in either direction
  Laws,     \* what the shifts may be: coefficients of 1, h, v and v*h
  Few,      \* below this many blocks the fit is linear (32 in the code)
  TooFew    \* and below this many there is none (10)

ASSUME SideAssumption == Side \in Nat
ASSUME LawsAssumption == \A l \in Laws : \A i \in 1..4 : l[i] \in Int

VARIABLES
  law,      \* what the shifts are
  kept,     \* blocks within two standard deviations
  rest,     \* blocks still to come, a sequence
  numblox,
  polymat, shiftmat,
  polyord,
  fitted    \* "no", "none" or "solved"

fitVars == <<law, kept, rest, numblox, polymat, shiftmat, polyord, fitted>>

Blocks == (1..Side) \X (1..Side)
RowMajor == [i \in 1..(Side * Side) |-> <<((i - 1) \div Side) + 1, ((i - 1) % Side) + 1>>]
Shift(l, v, h) == l[1] + l[2] * h + l[3] * v + l[4] * v * h

pow(x, n) ==
  LET power[k \in 0..n] == IF k = 0 THEN 1 ELSE power[k - 1] * x
  IN  power[n]

\* polymat[16*(4*i+j)+(4*m+n)]
\* bug: the inner indices the wrong way round
MonomialSwapped(k, v, h) ==
  LET i == k \div 64  j == (k \div 16) % 4  m == (k \div 4) % 4  n == k % 4 IN pow(v, i + n) * pow(h, j + m)
Monomial(k, v, h) ==
  LET i == k \div 64  j == (k \div 16) % 4  m == (k \div 4) % 4  n == k % 4 IN pow(v, i + m) * pow(h, j + n)

\* Each block adds its monomials, for a polynomial of order 4, to the matrix
\* of 16 times 16 and the vector.
AddBlock ==
  /\ fitted = "no" /\ rest # << >> /\ rest' = Tail(rest)
  /\ LET v == Head(rest)[1]
         h == Head(rest)[2]
     IN  IF <<v, h>> \in kept
         THEN /\ numblox' = numblox + 1
              /\ polymat' = [k \in DOMAIN polymat |-> polymat[k] + Monomial(k, v, h)]
              /\ shiftmat' = [k \in DOMAIN shiftmat |-> shiftmat[k] + pow(v, k \div 4) * pow(h, k % 4) * Shift(law, v, h)]
         ELSE UNCHANGED <<numblox, polymat, shiftmat>>
  /\ UNCHANGED <<law, kept, polyord, fitted>>

\* With few blocks the order is lowered before the system is solved.
Solve ==
  /\ fitted = "no" /\ rest = << >>
  /\ polyord' = (IF numblox < Few THEN 2 ELSE 4)
  /\ fitted' = (IF numblox < TooFew THEN "none" ELSE "solved")
  /\ UNCHANGED <<law, kept, rest, numblox, polymat, shiftmat>>

FitInit ==
  /\ law \in Laws /\ kept \in SUBSET Blocks /\ rest = RowMajor /\ numblox = 0
  /\ polymat = [k \in 0..255 |-> 0] /\ shiftmat = [k \in 0..15 |-> 0] /\ polyord = 4 /\ fitted = "no"

FitEnd == fitted # "no" /\ UNCHANGED fitVars

FitNext == AddBlock \/ Solve \/ FitEnd

FitSpec == FitInit /\ [][FitNext]_fitVars

(* LinEqSolve(nDim, pfMatr, pfVect) returns a solution, if there is one, of *)
(* the system whose row r is pfMatr[r * nDim] and following.               *)
RowSum(x, nDim, pfMatr, r) ==
  LET upto[n \in 0..nDim] == IF n = 0 THEN 0 ELSE upto[n - 1] + pfMatr[r * nDim + (n - 1)] * x[n - 1]
  IN  upto[nDim]
Solves(x, nDim, pfMatr, pfVect) == \A r \in 0..(nDim - 1) : RowSum(x, nDim, pfMatr, r) = pfVect[r]

\* fitparams[polyord*i+j] is the coefficient of v^i h^j.
Coefficients(order) ==
  [k \in 0..(order * order - 1) |->
     LET i == k \div order  j == k % order IN IF i < 2 /\ j < 2 THEN law[2 * i + j + 1] ELSE 0]

----------------------------------------------------------------------------
(* When the shifts are linear in either direction, they solve the system   *)
(* that stands for the fit: the correction is exact.                       *)
FitExact == fitted = "solved" => Solves(Coefficients(polyord), polyord * polyord, polymat, shiftmat)

(* So it is with enough blocks for the fit of order 4.                     *)
CubicFitExact == polyord = 4 => FitExact
=============================================================================
