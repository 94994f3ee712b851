----------------------------- MODULE MCRevisoes -----------------------------
(* Instances of Revisoes.                                                  *)
EXTENDS Revisoes, TLC

(* A year and its restatement, and the next year.                          *)
A1 == [grupo |-> "dfp2023", periodo |-> 1, versao |-> 1]
A2 == [grupo |-> "dfp2023", periodo |-> 1, versao |-> 2]
B1 == [grupo |-> "dfp2024", periodo |-> 2, versao |-> 1]

Docs == {A1, A2, B1}

(* The restatement comes before or after the next year.                   *)
Recebe == [d \in Docs |-> IF d = A1 THEN {1} ELSE {2, 3}]

(* Statements are told apart by equality only.                            *)
Trocas == Permutations(Valores)
=============================================================================
