----------------------------- MODULE MCPromocao -----------------------------
(* Model-checking instances of Promocao. *)
EXTENDS Promocao

CONSTANTS k1, k2

L(k, v) == [chave |-> k, valor |-> v]
Arquivo(s) == [cabecalho |-> TRUE, linhas |-> s]

(* A key that leaves, a key that changes twice in one file and comes back  *)
(* to its value, lines that the normalizer or the database refuses, a file *)
(* without lines, a header that is refused.                                *)
Publicados ==
    <<Arquivo(<<L(k1, "a"), L(k2, "b")>>),
      Arquivo(<<L(k1, "c"), L(k1, "d"), L(k1, "c")>>),
      Arquivo(<<L(k2, Ruim), L(k1, "e"), L(k1, Zero), L(k1, Estouro)>>),
      Arquivo(<<>>),
      [cabecalho |-> FALSE, linhas |-> <<L(k1, "f")>>]>>

SaiUma == <<Arquivo(<<L(k1, "a"), L(k2, "b")>>), Arquivo(<<L(k1, "a")>>)>>
=============================================================================
