--------------------------- MODULE MCAtualizacoes ---------------------------
(* Instances of Atualizacoes.                                              *)
EXTENDS Atualizacoes

(* What is left of each bound in a scenario: the rest is used up.          *)
Sobra(det, pub, disp, desc, canc, err, que) ==
    [b \in Eventos |->
       CASE b = "deteccoes"     -> MaxPendencias - det
         [] b = "publicacoes"   -> MaxVersoes - 1 - pub
         [] b = "disparos"      -> MaxDisparos - disp
         [] b = "descartes"     -> MaxDescartes - desc
         [] b = "cancelamentos" -> MaxCancelamentos - canc
         [] b = "erros"         -> MaxErros - err
         [] b = "quedas"        -> MaxQuedas - que]

(* Two rows and a discard, without a trigger; one row that is triggered,   *)
(* with two publications, a lost worker and a cancellation, an error, or a *)
(* discard and a cancellation.                                             *)
Cenarios == {Sobra(2, 1, 0, 1, 0, 0, 0), Sobra(1, 2, 1, 0, 0, 0, 0),
             Sobra(1, 1, 1, 0, 1, 0, 1), Sobra(1, 1, 1, 0, 0, 1, 0),
             Sobra(1, 1, 1, 1, 1, 0, 0)}

(* Nothing goes wrong; everything may.                                     *)
Calmo == {Sobra(1, 3, 1, 0, 0, 0, 0)}
Tudo  == {Sobra(1, 2, 1, 1, 1, 1, 1)}
=============================================================================
