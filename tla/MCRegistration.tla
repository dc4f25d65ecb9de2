--------------------------- MODULE MCRegistration ---------------------------
(***************************************************************************)
(* Model checking of Registration: two creation requests for one commander *)
(* and one for another.                                                    *)
(***************************************************************************)
EXTENDS Registration, TLC

CONSTANTS c1, c2, r1, r2, r3

TwoAndOne == [r \in Creators |-> IF r = r3 THEN c2 ELSE c1]

\* The requests for c1 are interchangeable, and so are the PINs.
RegistrationSymmetry == Permutations({r1, r2}) \cup Permutations(Pins)
=============================================================================
