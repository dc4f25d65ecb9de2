--------------------------- MODULE MCExchangeCode ---------------------------
(***************************************************************************)
(* Model checking of ExchangeCode: a code with one use, with two or with   *)
(* no limit, one commander with two sessions, another with one, and        *)
(* operators who may write any quota, also "unlimited".                    *)
(***************************************************************************)
EXTENDS ExchangeCode

CONSTANTS c1, c2, s1, s2, s3

TwoAndOther == [s \in Sessions |-> IF s = s3 THEN c2 ELSE c1]

CreatedQuotas == {-1, 1, 2}
EditedQuotas == {-1, 0, 1}
=============================================================================
