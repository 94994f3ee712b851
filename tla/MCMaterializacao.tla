-------------------------- MODULE MCMaterializacao --------------------------
(* Model-checking instances of Materializacao. *)
EXTENDS Materializacao, TLC

(* Workers are interchangeable: nothing orders them (safety runs only).    *)
Simetria == Permutations(Workers)
=============================================================================
