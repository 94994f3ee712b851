------------------------- MODULE MCSincronizacaoZip -------------------------
(* Model-checking instances of SincronizacaoZip. *)
EXTENDS SincronizacaoZip, TLC

(* Workers, and the members other than the header, are interchangeable     *)
(* (safety runs only).                                                     *)
Simetria == Permutations(Workers) \cup Permutations(Dependentes)

(* What is used up of each bound from the start of a scenario.             *)
Usado(posts, quedas, reent, canc, mud) ==
    [pedidos |-> 0, posts |-> posts, quedas |-> quedas, erros |-> 0,
     reentregas |-> reent, cancelamentos |-> canc, mudancas |-> mud]

Nada == {Usado(0, 0, 0, 0, 0)}

(* A lost worker, or an exception.                                         *)
QuedaOuErro == {Usado(0, MaxQuedas, 0, 0, 0),
                [Usado(0, 0, 0, 0, 0) EXCEPT !.erros = MaxErros]}

(* A lost worker and a redelivery; or a cancellation, a request to ingest  *)
(* apart and a change at the publisher.                                    *)
Cenarios == {Usado(MaxPosts, 0, 0, MaxCancelamentos, MaxMudancas),
             Usado(0, MaxQuedas, MaxReentregas, 0, 0)}
=============================================================================
