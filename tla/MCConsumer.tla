----------------------------- MODULE MCConsumer ----------------------------
(* Constants of the Consumer runs: the reports and what they say.          *)
EXTENDS Consumer, TLC

CONSTANTS r1, r2, m1

(* r1 and r2 differ in each magnitude and swap the extremes; no hop        *)
(* rejects the negative figure of r1.                                      *)
PaisDe == [r \in Reporte |-> IF r = r2 THEN "GTM" ELSE "ESP"]
ValorDe == [r \in Reporte |-> IF r = r1 THEN [planes |-> 2, ships |-> -1]
                              ELSE [planes |-> 1, ships |-> 2]]
Paises == {"ESP", "GTM"}
Simetria == Permutations(Worker)
=============================================================================
