--------------------------- MODULE Promocao_proofs ---------------------------
(***************************************************************************)
(* Proofs about Promocao, for every sequence of files: the types, what may *)
(* remove a row, that no import brings an earlier value back, that no line *)
(* is lost, and that a success leaves the table a mirror of its file.      *)
(***************************************************************************)
EXTENDS Promocao, SequenceTheorems, TLAPS

-----------------------------------------------------------------------------
(* What the constants say of a file.                                       *)
LEMMA ArquivoTipo ==
    ASSUME NEW v \in Versoes
    PROVE  /\ Arquivos[v].cabecalho \in BOOLEAN
           /\ Len(Linhas(v)) \in Nat
           /\ \A l \in 1..Len(Linhas(v)) :
                /\ Linhas(v)[l] = [chave |-> Linhas(v)[l].chave,
                                   valor |-> Linhas(v)[l].valor]
                /\ Linhas(v)[l].chave \in Chaves
                /\ Linhas(v)[l].valor \in Valores
                /\ Linhas(v)[l].valor # Vazio
<1>1. Linhas(v) \in Seq({Linhas(v)[l] : l \in DOMAIN Linhas(v)})
  BY ConstantesPromocao DEF Linhas, Versoes
<1>2. Len(Linhas(v)) \in Nat /\ DOMAIN Linhas(v) = 1..Len(Linhas(v))
  BY <1>1, LenProperties
<1>3. \A l \in 1..Len(Linhas(v)) : Linhas(v)[l].valor \in Valores
  BY <1>2 DEF Valores
<1> QED BY <1>2, <1>3, ConstantesPromocao DEF Linhas, Versoes

(* A run of the member is well formed.                                     *)
BemFeita(c) == /\ c \in Corrida
               /\ c.feitas <= Total(c)
               /\ Len(c.situacao) = Total(c)
               /\ c.quarentena \subseteq 1..Total(c)

LEMMA CorridaTipo ==
    ASSUME NEW c, BemFeita(c)
    PROVE  /\ c.versao \in Versoes /\ c.feitas \in Nat /\ Total(c) \in Nat
           /\ c.feitas <= Total(c)
           /\ c.pai \in {"em_execucao", "sucesso", "falha"} /\ c.membro \in StatusMembro
           /\ c.vistos \in [Chaves -> Valores \cup {Vazio}]
           /\ c.empresas \subseteq Chaves /\ c.promove \in BOOLEAN
           /\ c.situacao \in [1..Total(c) -> Situacao]
           /\ c.quarentena \subseteq 1..Total(c)
           /\ Arquivos[c.versao].cabecalho \in BOOLEAN
           /\ \A l \in 1..Total(c) :
                /\ Linha(c, l) = [chave |-> Linha(c, l).chave,
                                  valor |-> Linha(c, l).valor]
                /\ Linha(c, l).chave \in Chaves
                /\ Linha(c, l).valor \in Valores
                /\ Linha(c, l).valor # Vazio
<1>1. c.versao \in Versoes /\ c.situacao \in Seq(Situacao)
  BY DEF BemFeita, Corrida
<1>2. c.situacao \in [1..Total(c) -> Situacao]
  BY <1>1, LenProperties DEF BemFeita
<1> QED BY <1>1, <1>2, ArquivoTipo DEF BemFeita, Corrida, Total, Linha

LEMMA CorridasTipo ==
    ASSUME TipoPromocao
    PROVE  /\ Len(corridas) \in Nat /\ DOMAIN corridas = Ids
           /\ \A i \in Ids : BemFeita(corridas[i])
BY LenProperties, ElementOfSeq DEF TipoPromocao, BemFeita, Ids

(* One run changes, or one is added.                                       *)
LEMMA MudaCorrida ==
    ASSUME TipoPromocao, NEW i \in Ids, NEW c, BemFeita(c), Muda(i, c)
    PROVE  /\ corridas' \in Seq(Corrida)
           /\ Len(corridas') = Len(corridas) /\ Ids' = Ids /\ DOMAIN corridas' = Ids
           /\ corridas'[i] = c
           /\ \A j \in Ids : j # i => corridas'[j] = corridas[j]
           /\ \A j \in Ids : BemFeita(corridas'[j])
<1>1. corridas \in Seq(Corrida) /\ DOMAIN corridas = Ids /\ c \in Corrida
      /\ corridas' = [corridas EXCEPT ![i] = c]
  BY CorridasTipo DEF TipoPromocao, BemFeita, Muda
<1>2. /\ corridas' \in Seq(Corrida) /\ Len(corridas') = Len(corridas)
      /\ corridas'[i] = c /\ \A j \in Ids : j # i => corridas'[j] = corridas[j]
  BY <1>1, ExceptSeq DEF Ids
<1>3. Ids' = Ids /\ DOMAIN corridas' = Ids
  BY <1>2, LenProperties DEF Ids
<1> QED BY <1>2, <1>3, CorridasTipo

LEMMA AnexaCorrida ==
    ASSUME TipoPromocao, NEW c, BemFeita(c), corridas' = Append(corridas, c)
    PROVE  /\ corridas' \in Seq(Corrida)
           /\ Len(corridas') = Len(corridas) + 1
           /\ Ids' = Ids \cup {Len(corridas) + 1} /\ DOMAIN corridas' = Ids'
           /\ corridas'[Len(corridas) + 1] = c
           /\ \A j \in Ids : corridas'[j] = corridas[j]
           /\ \A j \in Ids' : BemFeita(corridas'[j])
<1>1. corridas \in Seq(Corrida) /\ c \in Corrida /\ Len(corridas) \in Nat
  BY CorridasTipo DEF TipoPromocao, BemFeita
<1>2. /\ corridas' \in Seq(Corrida) /\ Len(corridas') = Len(corridas) + 1
      /\ corridas'[Len(corridas) + 1] = c
      /\ \A j \in Ids : corridas'[j] = corridas[j]
  BY <1>1, AppendProperties DEF Ids
<1>3. Ids' = Ids \cup {Len(corridas) + 1} /\ DOMAIN corridas' = Ids'
  <2>1. Ids' = 1..(Len(corridas) + 1) /\ Ids = 1..Len(corridas)
    BY <1>2 DEF Ids
  <2>2. DOMAIN corridas' = Ids'
    BY <1>2, LenProperties DEF Ids
  <2> QED BY <1>1, <2>1, <2>2
<1> QED BY <1>2, <1>3, CorridasTipo

LEMMA UsaTipo ==
    ASSUME gasto \in [Eventos -> Nat], NEW x \in Eventos, NEW max, Usa(x, max)
    PROVE  /\ gasto' \in [Eventos -> Nat]
           /\ \A y \in Eventos : gasto[y] <= gasto'[y]
           /\ gasto'[x] # 0
BY DEF Usa

(* The types from those of the runs, when the others are right.            *)
LEMMA TiposDe ==
    ASSUME TipoPromocao, corridas' \in Seq(Corrida),
           \A j \in Ids' : BemFeita(corridas'[j]),
           UNCHANGED fonte, UNCHANGED legado, promove' \in BOOLEAN,
           conhecidas' \subseteq Chaves, publicado' \in Versoes,
           canonica' \in [Chaves -> (Valores \ {Ruim, Estouro}) \cup {Vazio}],
           gasto' \in [Eventos -> Nat]
    PROVE  TipoPromocao'
BY DEF TipoPromocao, BemFeita, Total

-----------------------------------------------------------------------------
(* What each action makes of the runs.                                     *)
LEMMA SincronizaCorrida ==
    ASSUME TipoPromocao, Sincroniza
    PROVE  \E c : /\ BemFeita(c) /\ corridas' = Append(corridas, c)
                  /\ c.pai = "em_execucao" /\ c.membro \in {"fila", "skipped"}
<1> DEFINE st == IF MesmoMembro THEN "skipped" ELSE "fila"
           c == NovaCorrida(publicado, st)
<1>1. corridas' = Append(corridas, c)
  BY DEF Sincroniza
<1>2. st \in {"fila", "skipped"} /\ publicado \in Versoes
  BY DEF TipoPromocao
<1> HIDE DEF st
<1>3. Len(Linhas(publicado)) \in Nat
  BY <1>2, ArquivoTipo
<1>4. /\ c.situacao = [l \in 1..Len(Linhas(publicado)) |-> "purgada"]
      /\ c.situacao \in Seq(Situacao) /\ Len(c.situacao) = Len(Linhas(publicado))
  <2>1. [l \in 1..Len(Linhas(publicado)) |-> "purgada"] \in Seq(Situacao)
    BY <1>3, IsASeq DEF Situacao
  <2> QED BY <1>3, <2>1, LenProperties DEF NovaCorrida
<1>5. c = [versao |-> publicado, pai |-> "em_execucao", membro |-> st, feitas |-> 0,
           vistos |-> [k \in Chaves |-> Vazio], empresas |-> {}, promove |-> FALSE,
           situacao |-> c.situacao, quarentena |-> {}]
  BY <1>4 DEF NovaCorrida
<1> HIDE DEF c
<1>6. c \in Corrida
  <2>1. c.versao \in Versoes /\ c.pai = "em_execucao" /\ c.membro \in StatusMembro
    BY <1>2, <1>5 DEF StatusMembro
  <2>2. c.feitas \in Nat /\ c.empresas \subseteq Chaves /\ c.promove \in BOOLEAN
    <3>1. c.promove \in BOOLEAN
      BY DEF c, NovaCorrida
    <3>2. c.feitas = 0 /\ c.empresas = {}
      BY <1>5
    <3> QED BY <3>1, <3>2
  <2>3. c.vistos \in [Chaves -> Valores \cup {Vazio}] /\ c.quarentena \subseteq Nat
    <3>1. c.vistos = [k \in Chaves |-> Vazio]
      BY <1>5
    <3> QED BY <1>5, <3>1
  <2>4. c.situacao \in Seq(Situacao)
    BY <1>4
  <2>5. c = [versao |-> c.versao, pai |-> c.pai, membro |-> c.membro,
             feitas |-> c.feitas, vistos |-> c.vistos, empresas |-> c.empresas,
             promove |-> c.promove, situacao |-> c.situacao,
             quarentena |-> c.quarentena]
    BY <1>5
  <2> QED BY <2>1, <2>2, <2>3, <2>4, <2>5 DEF Corrida
<1>7. BemFeita(c)
  BY <1>3, <1>4, <1>5, <1>6 DEF BemFeita, Total
<1> QED BY <1>1, <1>2, <1>5, <1>7

LEMMA EncenaCorrida ==
    ASSUME TipoPromocao, NEW i \in Ids, Encena(i)
    PROVE  \E c : /\ BemFeita(c) /\ Muda(i, c)
                  /\ c.versao = corridas[i].versao /\ c.pai = corridas[i].pai
                  /\ c.membro = "em_execucao" /\ c.feitas = 0
                  /\ c.vistos = [k \in Chaves |-> Vazio]
                  /\ c.situacao = [l \in 1..Total(corridas[i]) |-> "pendente"]
                  /\ c.quarentena = {}
<1>1. BemFeita(corridas[i])
  BY CorridasTipo
<1>2. Total(corridas[i]) \in Nat /\ conhecidas \subseteq Chaves /\ promove \in BOOLEAN
  BY <1>1, CorridaTipo DEF TipoPromocao
<1>3. PICK s : s = [l \in 1..Total(corridas[i]) |-> "pendente"]
  OBVIOUS
<1>4. s \in Seq(Situacao) /\ Len(s) = Total(corridas[i])
  BY <1>2, <1>3, IsASeq, LenProperties DEF Situacao
<1>5. PICK c : c = [corridas[i] EXCEPT !.membro = "em_execucao", !.feitas = 0,
                      !.vistos = [k \in Chaves |-> Vazio], !.empresas = conhecidas,
                      !.promove = promove, !.situacao = s, !.quarentena = {}]
               /\ Muda(i, c)
  BY <1>3 DEF Encena
<1>6. /\ c \in Corrida /\ c.versao = corridas[i].versao /\ c.pai = corridas[i].pai
      /\ c.membro = "em_execucao" /\ c.feitas = 0 /\ c.situacao = s
      /\ c.vistos = [k \in Chaves |-> Vazio] /\ c.quarentena = {}
  BY <1>1, <1>2, <1>4, <1>5 DEF BemFeita, Corrida, StatusMembro
<1>7. BemFeita(c)
  BY <1>2, <1>4, <1>6 DEF BemFeita, Total
<1> QED BY <1>3, <1>5, <1>6, <1>7

(* A line is judged as one of four.                                        *)
LEMMA JulgaTipo ==
    ASSUME NEW c, NEW x
    PROVE  Julga(c, x) \in {"invalid", "ignored_duplicate", "valid"}
BY DEF Julga

LEMMA ProximaLinhaCorrida ==
    ASSUME TipoPromocao, NEW i \in Ids, ProximaLinha(i)
    PROVE  LET a == corridas[i]
               l == a.feitas + 1
               x == Linha(a, l)
           IN /\ l \in 1..Total(a) /\ a.membro = "em_execucao"
              /\ Arquivos[a.versao].cabecalho
              /\ \E c : /\ BemFeita(c) /\ Muda(i, c)
                        /\ c.versao = a.versao /\ c.pai = a.pai /\ c.membro = a.membro
                        /\ c.empresas = a.empresas /\ c.promove = a.promove
                        /\ c.feitas = l
                        /\ c.vistos = Visto(a, x)
                        /\ c.situacao = [a.situacao EXCEPT ![l] = Julga(a, x)]
                        /\ c.quarentena = IF Julga(a, x) = "invalid"
                                          THEN a.quarentena \cup {l} ELSE a.quarentena
<1> DEFINE a == corridas[i]
           l == a.feitas + 1
           x == Linha(a, l)
<1>1. BemFeita(a)
  BY CorridasTipo
<1>2. /\ a.feitas \in Nat /\ Total(a) \in Nat /\ l <= Total(a) /\ a.membro = "em_execucao"
      /\ Arquivos[a.versao].cabecalho
  BY <1>1, CorridaTipo DEF ProximaLinha
<1>3. l \in 1..Total(a)
  BY <1>2
<1>4. PICK s : s = Julga(a, x) /\ s \in Situacao
  BY JulgaTipo DEF Situacao
<1>5. PICK c :
        /\ c = [a EXCEPT !.feitas = l, !.situacao[l] = s, !.vistos = Visto(a, x),
                         !.quarentena = IF s = "invalid" THEN @ \cup {l} ELSE @]
        /\ Muda(i, c)
  BY <1>4 DEF ProximaLinha
<1>6. a.situacao \in Seq(Situacao) /\ Len(a.situacao) = Total(a)
  BY <1>1 DEF BemFeita, Corrida
<1>7. /\ [a.situacao EXCEPT ![l] = s] \in Seq(Situacao)
      /\ Len([a.situacao EXCEPT ![l] = s]) = Total(a)
  BY <1>3, <1>4, <1>6, ExceptSeq
<1>8. Visto(a, x) \in [Chaves -> Valores \cup {Vazio}]
  BY <1>1, <1>3, CorridaTipo DEF Visto
<1> HIDE DEF a, l, x
<1>9. a = [versao |-> a.versao, pai |-> a.pai, membro |-> a.membro, feitas |-> a.feitas,
           vistos |-> a.vistos, empresas |-> a.empresas, promove |-> a.promove,
           situacao |-> a.situacao, quarentena |-> a.quarentena]
  BY <1>1 DEF BemFeita, Corrida
<1>10. /\ c.versao = a.versao /\ c.pai = a.pai /\ c.membro = a.membro
       /\ c.empresas = a.empresas /\ c.promove = a.promove
       /\ c.feitas = l /\ c.vistos = Visto(a, x)
       /\ c.situacao = [a.situacao EXCEPT ![l] = s]
       /\ c.quarentena = IF s = "invalid" THEN a.quarentena \cup {l} ELSE a.quarentena
       /\ c = [versao |-> c.versao, pai |-> c.pai, membro |-> c.membro,
               feitas |-> c.feitas, vistos |-> c.vistos, empresas |-> c.empresas,
               promove |-> c.promove, situacao |-> c.situacao,
               quarentena |-> c.quarentena]
  BY <1>5, <1>9
<1>11. c.quarentena \subseteq 1..Total(a)
  BY <1>1, <1>3, <1>10 DEF BemFeita
<1>12. c \in Corrida
  BY <1>1, <1>2, <1>3, <1>7, <1>8, <1>10, <1>11 DEF BemFeita, Corrida
<1>13. BemFeita(c)
  BY <1>2, <1>3, <1>7, <1>10, <1>11, <1>12 DEF BemFeita, Total
<1> QED BY <1>2, <1>3, <1>4, <1>5, <1>10, <1>13 DEF a, l, x

LEMMA ConcluiCorrida ==
    ASSUME TipoPromocao, NEW i \in Ids, Conclui(i)
    PROVE  LET a == corridas[i]
               q == QuarentenaFinal(a)
           IN /\ a.membro = "em_execucao"
              /\ a.feitas = Total(a) \/ ~Arquivos[a.versao].cabecalho
              /\ \E c : /\ BemFeita(c) /\ Muda(i, c)
                        /\ c.versao = a.versao /\ c.pai = a.pai
                        /\ c.empresas = a.empresas /\ c.promove = a.promove
                        /\ c.membro = Veredito(a) /\ c.quarentena = q
<1> DEFINE a == corridas[i]
           q == QuarentenaFinal(a)
<1>1. BemFeita(a)
  BY CorridasTipo
<1>2. /\ Total(a) \in Nat /\ a.membro = "em_execucao"
      /\ a.feitas = Total(a) \/ ~Arquivos[a.versao].cabecalho
  BY <1>1, CorridaTipo DEF Conclui
<1>3. a.situacao \in [1..Total(a) -> Situacao] /\ a.situacao \in Seq(Situacao)
      /\ Len(a.situacao) = Total(a)
  BY <1>1, CorridaTipo DEF BemFeita, Corrida
<1>4. q \subseteq 1..Total(a)
  BY <1>1 DEF BemFeita, QuarentenaFinal
<1>5. PICK s : s = Purgada(a, q)
  OBVIOUS
<1>6. s \in Seq(Situacao) /\ Len(s) = Total(a)
  <2>1. PICK t : t = [l \in 1..Total(a) |-> IF l \in q THEN a.situacao[l] ELSE "purgada"]
    OBVIOUS
  <2>2. \A l \in 1..Total(a) : (IF l \in q THEN a.situacao[l] ELSE "purgada") \in Situacao
    BY <1>3 DEF Situacao
  <2>3. t \in Seq(Situacao) /\ Len(t) = Total(a)
    <3>1. t \in [1..Total(a) -> Situacao]
      BY <2>1, <2>2
    <3> QED BY <1>2, <2>1, <3>1, IsASeq, LenProperties
  <2> QED BY <1>3, <1>5, <2>1, <2>3 DEF Purgada
<1>7. PICK c : /\ c = [a EXCEPT !.membro = Veredito(a), !.quarentena = q, !.situacao = s]
               /\ Muda(i, c)
  BY <1>5 DEF Conclui
<1> HIDE DEF a, q
<1>8. a = [versao |-> a.versao, pai |-> a.pai, membro |-> a.membro, feitas |-> a.feitas,
           vistos |-> a.vistos, empresas |-> a.empresas, promove |-> a.promove,
           situacao |-> a.situacao, quarentena |-> a.quarentena]
  BY <1>1 DEF BemFeita, Corrida
<1>9. /\ c.versao = a.versao /\ c.pai = a.pai /\ c.membro = Veredito(a)
      /\ c.empresas = a.empresas /\ c.promove = a.promove
      /\ c.feitas = a.feitas /\ c.vistos = a.vistos
      /\ c.situacao = s /\ c.quarentena = q
      /\ c = [versao |-> c.versao, pai |-> c.pai, membro |-> c.membro,
              feitas |-> c.feitas, vistos |-> c.vistos, empresas |-> c.empresas,
              promove |-> c.promove, situacao |-> c.situacao,
              quarentena |-> c.quarentena]
  BY <1>7, <1>8
<1>10. Veredito(a) \in StatusMembro
  BY DEF Veredito, StatusMembro
<1>11. c \in Corrida
  BY <1>1, <1>2, <1>4, <1>6, <1>9, <1>10 DEF BemFeita, Corrida
<1>12. BemFeita(c)
  BY <1>1, <1>4, <1>6, <1>9, <1>11 DEF BemFeita, Total
<1> QED BY <1>2, <1>7, <1>9, <1>12 DEF a, q

(* A change of the outcome of the run, or of the synchronization, alone.   *)
Com(a, p, m) == [a EXCEPT !.pai = p, !.membro = m]

LEMMA OutroStatus ==
    ASSUME TipoPromocao, NEW i \in Ids, NEW p \in {"em_execucao", "sucesso", "falha"},
           NEW m \in StatusMembro, NEW c, c = Com(corridas[i], p, m)
    PROVE  /\ BemFeita(c) /\ c.pai = p /\ c.membro = m
           /\ c.versao = corridas[i].versao /\ c.quarentena = corridas[i].quarentena
           /\ c.promove = corridas[i].promove
<1>1. BemFeita(corridas[i])
  BY CorridasTipo
<1>2. /\ c \in Corrida /\ c.pai = p /\ c.membro = m /\ c.promove = corridas[i].promove
      /\ c.versao = corridas[i].versao /\ c.quarentena = corridas[i].quarentena
      /\ c.feitas = corridas[i].feitas /\ c.situacao = corridas[i].situacao
  BY <1>1 DEF BemFeita, Corrida, Com
<1> QED BY <1>1, <1>2 DEF BemFeita, Total

LEMMA FinalizaCorrida ==
    ASSUME TipoPromocao, NEW i \in Ids, Finaliza(i)
    PROVE  /\ corridas[i].membro \in Encerrado
           /\ \E c : /\ BemFeita(c) /\ Muda(i, c)
                     /\ c.pai \in {"sucesso", "falha"} /\ c.membro = corridas[i].membro
                     /\ c.versao = corridas[i].versao /\ c.promove = corridas[i].promove
                     /\ c.quarentena = corridas[i].quarentena
<1>1. PICK p \in {"sucesso", "falha"} : Muda(i, [corridas[i] EXCEPT !.pai = p])
  BY DEF Finaliza
<1>2. BemFeita(corridas[i])
  BY CorridasTipo
<1>3. corridas[i].membro \in StatusMembro
  BY <1>2, CorridaTipo
<1>4. PICK c : c = [corridas[i] EXCEPT !.pai = p]
  OBVIOUS
<1>5. c = Com(corridas[i], p, corridas[i].membro)
  BY <1>2, <1>4 DEF BemFeita, Corrida, Com
<1>6. /\ BemFeita(c) /\ c.pai = p /\ c.membro = corridas[i].membro
      /\ c.versao = corridas[i].versao /\ c.quarentena = corridas[i].quarentena
      /\ c.promove = corridas[i].promove
  BY <1>3, <1>5, OutroStatus
<1> QED BY <1>1, <1>4, <1>6 DEF Finaliza

LEMMA MembroCorrida ==
    ASSUME TipoPromocao, NEW i \in Ids, NEW s \in StatusMembro,
           Muda(i, [corridas[i] EXCEPT !.membro = s])
    PROVE  \E c : /\ BemFeita(c) /\ Muda(i, c)
                  /\ c.pai = corridas[i].pai /\ c.membro = s
                  /\ c.versao = corridas[i].versao
<1>1. BemFeita(corridas[i])
  BY CorridasTipo
<1>2. corridas[i].pai \in {"em_execucao", "sucesso", "falha"}
  BY <1>1, CorridaTipo
<1>3. PICK c : c = [corridas[i] EXCEPT !.membro = s]
  OBVIOUS
<1>4. c = Com(corridas[i], corridas[i].pai, s)
  BY <1>1, <1>3 DEF BemFeita, Corrida, Com
<1>5. /\ BemFeita(c) /\ c.pai = corridas[i].pai /\ c.membro = s
      /\ c.versao = corridas[i].versao
  BY <1>2, <1>4, OutroStatus
<1> QED BY <1>3, <1>5

LEMMA ReprocessaCorrida ==
    ASSUME TipoPromocao, NEW i \in Ids, NEW l \in 1..Total(corridas[i]), Reprocessa(i, l)
    PROVE  \E c : BemFeita(c) /\ Muda(i, c)
<1> DEFINE a == corridas[i]
<1>1. BemFeita(a)
  BY CorridasTipo
<1>2. a.situacao \in Seq(Situacao) /\ Len(a.situacao) = Total(a)
  BY <1>1 DEF BemFeita, Corrida
<1>3. /\ [a.situacao EXCEPT ![l] = "valid"] \in Seq(Situacao)
      /\ Len([a.situacao EXCEPT ![l] = "valid"]) = Total(a)
  BY <1>2, ExceptSeq DEF Situacao
<1>4. PICK c : /\ c = [a EXCEPT !.situacao[l] = "valid", !.quarentena = @ \ {l}]
               /\ Muda(i, c)
  BY DEF Reprocessa
<1> HIDE DEF a
<1>5. a = [versao |-> a.versao, pai |-> a.pai, membro |-> a.membro, feitas |-> a.feitas,
           vistos |-> a.vistos, empresas |-> a.empresas, promove |-> a.promove,
           situacao |-> a.situacao, quarentena |-> a.quarentena]
  BY <1>1 DEF BemFeita, Corrida
<1>6. /\ c.versao = a.versao /\ c.pai = a.pai /\ c.membro = a.membro
      /\ c.empresas = a.empresas /\ c.promove = a.promove
      /\ c.feitas = a.feitas /\ c.vistos = a.vistos
      /\ c.situacao = [a.situacao EXCEPT ![l] = "valid"]
      /\ c.quarentena = a.quarentena \ {l}
      /\ c = [versao |-> c.versao, pai |-> c.pai, membro |-> c.membro,
              feitas |-> c.feitas, vistos |-> c.vistos, empresas |-> c.empresas,
              promove |-> c.promove, situacao |-> c.situacao,
              quarentena |-> c.quarentena]
  BY <1>4, <1>5
<1>7. c.quarentena \subseteq 1..Total(a)
  BY <1>1, <1>6 DEF BemFeita
<1>8. c \in Corrida
  BY <1>1, <1>3, <1>6, <1>7 DEF BemFeita, Corrida
<1>9. BemFeita(c)
  BY <1>1, <1>3, <1>6, <1>7, <1>8 DEF BemFeita, Total
<1> QED BY <1>4, <1>9

-----------------------------------------------------------------------------
(* The types.                                                              *)
LEMMA InicioTipo == Init => TipoPromocao
<1> SUFFICES ASSUME Init PROVE TipoPromocao
  OBVIOUS
<1>1. corridas = <<>> /\ corridas \in Seq(Corrida) /\ Len(corridas) = 0
  BY DEF Init
<1>2. Ids = {}
  BY <1>1 DEF Ids
<1>3. canonica \in [Chaves -> (Valores \ {Ruim, Estouro}) \cup {Vazio}]
  BY DEF Init
<1>4. gasto \in [Eventos -> Nat]
  BY DEF Init
<1>5. legado \in BOOLEAN /\ promove \in BOOLEAN
  BY DEF Init
<1>6. publicado \in Versoes /\ conhecidas \subseteq Chaves /\ fonte \in Fontes
  BY ConstantesPromocao DEF Init, Versoes
<1> QED BY <1>1, <1>2, <1>3, <1>4, <1>5, <1>6 DEF TipoPromocao

(* What the judgement of a line, the reconcile and a replay write.         *)
LEMMA CanonicaTipo ==
    ASSUME TipoPromocao,
           \/ UNCHANGED canonica
           \/ \E i \in Ids : ProximaLinha(i) \/ Conclui(i)
           \/ \E i \in Ids : \E l \in 1..Total(corridas[i]) : Reprocessa(i, l)
    PROVE  canonica' \in [Chaves -> (Valores \ {Ruim, Estouro}) \cup {Vazio}]
<1> DEFINE T == (Valores \ {Ruim, Estouro}) \cup {Vazio}
<1>1. canonica \in [Chaves -> T]
  BY DEF TipoPromocao
<1>2. CASE UNCHANGED canonica
  BY <1>1, <1>2
<1>3. ASSUME NEW i \in Ids, ProximaLinha(i)
      PROVE  canonica' \in [Chaves -> T]
  <2> DEFINE a == corridas[i]
             x == Linha(a, a.feitas + 1)
  <2>1. BemFeita(a) /\ a.feitas + 1 \in 1..Total(a)
    BY <1>3, CorridasTipo, ProximaLinhaCorrida
  <2>2. x.chave \in Chaves /\ x.valor \in Valores
    BY <2>1, CorridaTipo
  <2>3. Julga(a, x) = "valid" /\ a.promove => x.valor \in T
    BY <2>2 DEF Julga, Promovivel
  <2>4. canonica' = IF Julga(a, x) = "valid" /\ a.promove
                    THEN [canonica EXCEPT ![x.chave] = x.valor] ELSE canonica
    BY <1>3 DEF ProximaLinha
  <2> HIDE DEF x, T, a
  <2> QED BY <1>1, <2>2, <2>3, <2>4
<1>4. ASSUME NEW i \in Ids, Conclui(i)
      PROVE  canonica' \in [Chaves -> T]
  <2>1. canonica' = Reconciliada(corridas[i]) \/ UNCHANGED canonica
    BY <1>4 DEF Conclui
  <2>2. Reconciliada(corridas[i]) \in [Chaves -> T]
    BY <1>1 DEF Reconciliada
  <2> QED BY <1>1, <2>1, <2>2
<1>5. ASSUME NEW i \in Ids, NEW l \in 1..Total(corridas[i]), Reprocessa(i, l)
      PROVE  canonica' \in [Chaves -> T]
  <2> DEFINE x == Linha(corridas[i], l)
  <2>1. x.chave \in Chaves /\ x.valor \in Valores
    BY CorridasTipo, CorridaTipo
  <2>2. x.valor \in T /\ canonica' = [canonica EXCEPT ![x.chave] = x.valor]
    BY <1>5, <2>1 DEF Reprocessa
  <2> HIDE DEF x, T
  <2> QED BY <1>1, <2>1, <2>2
<1> QED BY <1>2, <1>3, <1>4, <1>5

LEMMA PassoTipo == TipoPromocao /\ [Next]_vars => TipoPromocao'
<1> SUFFICES ASSUME TipoPromocao, [Next]_vars PROVE TipoPromocao'
  OBVIOUS
<1>0. /\ fonte \in Fontes /\ promove \in BOOLEAN /\ conhecidas \subseteq Chaves
      /\ publicado \in Versoes /\ gasto \in [Eventos -> Nat]
      /\ corridas \in Seq(Corrida) /\ \A j \in Ids : BemFeita(corridas[j])
  BY CorridasTipo DEF TipoPromocao
<1>1. CASE Publica
  <2>1. gasto' \in [Eventos -> Nat] /\ Ids' = Ids
    BY <1>0, <1>1, UsaTipo DEF Publica, Eventos, Ids
  <2> QED BY <1>0, <1>1, <2>1, TiposDe, CanonicaTipo DEF Publica
<1>2. CASE Configura
  <2>1. gasto' \in [Eventos -> Nat] /\ Ids' = Ids
    BY <1>0, <1>2, UsaTipo DEF Configura, Eventos, Ids
  <2>2. promove' \in BOOLEAN
    BY <1>0, <1>2, Zenon DEF Configura
  <2> QED BY <1>0, <1>2, <2>1, <2>2, TiposDe, CanonicaTipo DEF Configura
<1>3. CASE Cadastra
  <2>1. gasto' \in [Eventos -> Nat] /\ Ids' = Ids
    BY <1>0, <1>3, UsaTipo DEF Cadastra, Eventos, Ids
  <2>2. conhecidas' \subseteq Chaves
    BY <1>0, <1>3 DEF Cadastra
  <2> QED BY <1>0, <1>3, <2>1, <2>2, TiposDe, CanonicaTipo DEF Cadastra
<1>4. CASE Sincroniza
  <2>1. corridas' \in Seq(Corrida) /\ \A j \in Ids' : BemFeita(corridas'[j])
    BY <1>4, SincronizaCorrida, AnexaCorrida
  <2> QED BY <1>0, <1>4, <2>1, TiposDe, CanonicaTipo DEF Sincroniza
<1>5. ASSUME NEW i \in Ids, Encena(i)
      PROVE  TipoPromocao'
  <2>1. corridas' \in Seq(Corrida) /\ \A j \in Ids' : BemFeita(corridas'[j])
    BY <1>5, EncenaCorrida, MudaCorrida
  <2> QED BY <1>0, <1>5, <2>1, TiposDe, CanonicaTipo DEF Encena
<1>6. ASSUME NEW i \in Ids, ProximaLinha(i)
      PROVE  TipoPromocao'
  <2>1. corridas' \in Seq(Corrida) /\ \A j \in Ids' : BemFeita(corridas'[j])
    BY <1>6, ProximaLinhaCorrida, MudaCorrida
  <2>2. canonica' \in [Chaves -> (Valores \ {Ruim, Estouro}) \cup {Vazio}]
    BY <1>6, CanonicaTipo
  <2> QED BY <1>0, <1>6, <2>1, <2>2, TiposDe DEF ProximaLinha
<1>7. ASSUME NEW i \in Ids, Conclui(i)
      PROVE  TipoPromocao'
  <2>1. corridas' \in Seq(Corrida) /\ \A j \in Ids' : BemFeita(corridas'[j])
    BY <1>7, ConcluiCorrida, MudaCorrida
  <2>2. canonica' \in [Chaves -> (Valores \ {Ruim, Estouro}) \cup {Vazio}]
    BY <1>7, CanonicaTipo
  <2> QED BY <1>0, <1>7, <2>1, <2>2, TiposDe DEF Conclui
<1>8. ASSUME NEW i \in Ids, Finaliza(i)
      PROVE  TipoPromocao'
  <2>1. corridas' \in Seq(Corrida) /\ \A j \in Ids' : BemFeita(corridas'[j])
    BY <1>8, FinalizaCorrida, MudaCorrida
  <2> QED BY <1>0, <1>8, <2>1, TiposDe, CanonicaTipo DEF Finaliza
<1>9. ASSUME NEW i \in Ids, Queda(i)
      PROVE  TipoPromocao'
  <2>1. PICK s \in StatusMembro : Muda(i, [corridas[i] EXCEPT !.membro = s])
    BY <1>9 DEF Queda, StatusMembro
  <2>2. corridas' \in Seq(Corrida) /\ \A j \in Ids' : BemFeita(corridas'[j])
    BY <2>1, MembroCorrida, MudaCorrida
  <2>3. gasto' \in [Eventos -> Nat]
    BY <1>0, <1>9, UsaTipo DEF Queda, Eventos
  <2> QED BY <1>0, <1>9, <2>2, <2>3, TiposDe, CanonicaTipo DEF Queda
<1>10. ASSUME NEW i \in Ids, Refaz(i)
       PROVE  TipoPromocao'
  <2>1. PICK s \in StatusMembro : Muda(i, [corridas[i] EXCEPT !.membro = s])
    BY <1>10 DEF Refaz, StatusMembro
  <2>2. corridas' \in Seq(Corrida) /\ \A j \in Ids' : BemFeita(corridas'[j])
    BY <2>1, MembroCorrida, MudaCorrida
  <2>3. gasto' \in [Eventos -> Nat]
    BY <1>0, <1>10, UsaTipo DEF Refaz, Eventos
  <2> QED BY <1>0, <1>10, <2>2, <2>3, TiposDe, CanonicaTipo DEF Refaz
<1>11. ASSUME NEW i \in Ids, NEW l \in 1..Total(corridas[i]), Reprocessa(i, l)
       PROVE  TipoPromocao'
  <2>1. corridas' \in Seq(Corrida) /\ \A j \in Ids' : BemFeita(corridas'[j])
    BY <1>11, ReprocessaCorrida, MudaCorrida
  <2>2. canonica' \in [Chaves -> (Valores \ {Ruim, Estouro}) \cup {Vazio}]
    BY <1>11, CanonicaTipo
  <2>3. gasto' \in [Eventos -> Nat]
    BY <1>0, <1>11, UsaTipo DEF Reprocessa, Eventos
  <2> QED BY <1>0, <1>11, <2>1, <2>2, <2>3, TiposDe DEF Reprocessa
<1>12. CASE UNCHANGED vars
  BY <1>12 DEF vars, TipoPromocao, Ids, Total
<1> QED BY <1>1, <1>2, <1>3, <1>4, <1>5, <1>6, <1>7, <1>8, <1>9, <1>10, <1>11, <1>12
        DEF Next

(* The variables keep their types, and the counters of every run their     *)
(* bounds.                                                                 *)
THEOREM TipoCorretoPromocao == Spec => []TipoPromocao
BY InicioTipo, PassoTipo, PTL DEF Spec

-----------------------------------------------------------------------------
(* A line that counts as valid has its key and value accepted.             *)
LEMMA JulgaValida ==
    ASSUME NEW c, NEW x, Julga(c, x) = "valid"
    PROVE  x.valor # Ruim /\ ~Duplicada(c, x) /\ Resolvida(c, x) /\ Promovivel(c, x)
BY DEF Julga

(* The domain table after the next line, after the reconcile and after the *)
(* replay of a line.                                                       *)
LEMMA ProximaLinhaTabela ==
    ASSUME TipoPromocao, NEW i \in Ids, ProximaLinha(i)
    PROVE  LET a == corridas[i]
               x == Linha(a, a.feitas + 1)
           IN \A k \in Chaves :
                canonica'[k] = IF Julga(a, x) = "valid" /\ a.promove /\ k = x.chave
                               THEN x.valor ELSE canonica[k]
<1> DEFINE a == corridas[i]
           x == Linha(a, a.feitas + 1)
<1>1. BemFeita(a) /\ a.feitas + 1 \in 1..Total(a)
  BY CorridasTipo, ProximaLinhaCorrida
<1>2. x.chave \in Chaves
  BY <1>1, CorridaTipo
<1>3. canonica' = IF Julga(a, x) = "valid" /\ a.promove
                  THEN [canonica EXCEPT ![x.chave] = x.valor] ELSE canonica
  BY DEF ProximaLinha
<1>4. DOMAIN canonica = Chaves
  BY DEF TipoPromocao
<1> HIDE DEF x, a
<1>5. ASSUME NEW k \in Chaves
      PROVE  canonica'[k] = IF Julga(a, x) = "valid" /\ a.promove /\ k = x.chave
                            THEN x.valor ELSE canonica[k]
  BY <1>2, <1>3, <1>4
<1> QED BY <1>5 DEF a, x

LEMMA ConcluiTabela ==
    ASSUME TipoPromocao, NEW i \in Ids, Conclui(i), NEW k \in Chaves
    PROVE  canonica'[k] = IF Reconcilia(corridas[i]) /\ ~Mantida(corridas[i], k)
                          THEN Vazio ELSE canonica[k]
<1>1. canonica' = IF Reconcilia(corridas[i]) THEN Reconciliada(corridas[i]) ELSE canonica
  BY DEF Conclui
<1> QED BY <1>1 DEF Reconciliada

(* A run that turns to success is one that concludes.                      *)
LEMMA SucedeConclui ==
    ASSUME TipoPromocao, Next, NEW i \in Ids, Sucede(i)
    PROVE  Conclui(i) \/ \E j \in Ids : \E l \in 1..Total(corridas[j]) : Reprocessa(j, l)
<1>0. corridas[i].membro = "em_execucao" /\ corridas'[i].membro = "sucesso"
  BY DEF Sucede
<1>1. CASE Publica \/ Configura \/ Cadastra
  BY <1>0, <1>1 DEF Publica, Configura, Cadastra
<1>2. CASE Sincroniza
  BY <1>0, <1>2, SincronizaCorrida, AnexaCorrida
<1>3. ASSUME NEW j \in Ids, Encena(j) \/ Queda(j) \/ Refaz(j)
      PROVE  FALSE
  <2>1. PICK c : /\ BemFeita(c) /\ Muda(j, c)
                 /\ c.membro \in {"em_execucao", "fila", "falha"}
    <3>1. CASE Encena(j)
      BY <3>1, EncenaCorrida
    <3>2. CASE Queda(j) \/ Refaz(j)
      <4>1. PICK s \in {"fila", "falha"} : Muda(j, [corridas[j] EXCEPT !.membro = s])
        BY <3>2 DEF Queda, Refaz
      <4>2. s \in StatusMembro
        BY DEF StatusMembro
      <4> QED BY <4>1, <4>2, MembroCorrida
    <3> QED BY <1>3, <3>1, <3>2
  <2> QED BY <1>0, <2>1, MudaCorrida
<1>4. ASSUME NEW j \in Ids, ProximaLinha(j)
      PROVE  FALSE
  <2>1. corridas[j].membro = "em_execucao"
    BY <1>4, ProximaLinhaCorrida
  <2>2. PICK c : BemFeita(c) /\ Muda(j, c) /\ c.membro = corridas[j].membro
    BY <1>4, ProximaLinhaCorrida
  <2> QED BY <1>0, <2>1, <2>2, MudaCorrida
<1>5. ASSUME NEW j \in Ids, Finaliza(j)
      PROVE  FALSE
  <2>1. PICK c : BemFeita(c) /\ Muda(j, c) /\ c.membro = corridas[j].membro
    BY <1>5, FinalizaCorrida
  <2> QED BY <1>0, <2>1, MudaCorrida
<1>6. ASSUME NEW j \in Ids, Conclui(j)
      PROVE  Conclui(i)
  <2>1. PICK c : BemFeita(c) /\ Muda(j, c)
    BY <1>6, ConcluiCorrida
  <2>2. i = j
    BY <1>0, <2>1, MudaCorrida
  <2> QED BY <1>6, <2>2
<1> QED BY <1>1, <1>2, <1>3, <1>4, <1>5, <1>6 DEF Next

-----------------------------------------------------------------------------
(* Without an earlier snapshot to compare and without a line there is no   *)
(* reconcile in fre, fca, dfp and itr.                                     *)
LEMMA SemLinhaNaoReconcilia ==
    ASSUME TipoPromocao, NEW c, BemFeita(c), Reconcilia(c),
           fonte \notin {"ipe", "vlmo", "cgvn"}
    PROVE  Total(c) # 0
<1>1. fonte \in {"dfp", "itr", "fre", "fca"}
  BY ConstantesPromocao DEF TipoPromocao
<1>2. CASE fonte = "fre"
  BY <1>2 DEF Reconcilia, ReconciliaFre
<1>3. CASE fonte = "fca"
  BY <1>3 DEF Reconcilia, ReconciliaFca
<1>4. CASE fonte \in {"dfp", "itr"}
  <2>1. ReconciliaFinanceiro(c)
    BY <1>4 DEF Reconcilia
  <2> QED BY <2>1 DEF ReconciliaFinanceiro
<1> QED BY <1>1, <1>2, <1>3, <1>4

(* A row leaves the table only with a success of its member, but in ipe,   *)
(* vlmo and cgvn.                                                          *)
LEMMA PassoApaga ==
    ASSUME TipoPromocao, Next, NEW k \in Chaves, canonica[k] # Vazio, canonica'[k] = Vazio
    PROVE  (\E i \in Ids : Sucede(i)) \/ fonte \in {"ipe", "vlmo", "cgvn"}
<1>1. CASE UNCHANGED canonica
  BY <1>1
<1>2. ASSUME NEW i \in Ids, ProximaLinha(i)
      PROVE  FALSE
  <2>1. BemFeita(corridas[i]) /\ corridas[i].feitas + 1 \in 1..Total(corridas[i])
    BY <1>2, CorridasTipo, ProximaLinhaCorrida
  <2>2. Linha(corridas[i], corridas[i].feitas + 1).valor # Vazio
    BY <2>1, CorridaTipo
  <2> QED BY <1>2, <2>2, ProximaLinhaTabela
<1>3. ASSUME NEW i \in Ids, Conclui(i), fonte \notin {"ipe", "vlmo", "cgvn"}
      PROVE  Sucede(i)
  <2>1. Reconcilia(corridas[i])
    BY <1>3, ConcluiTabela
  <2>2. Total(corridas[i]) # 0
    BY <1>3, <2>1, CorridasTipo, SemLinhaNaoReconcilia
  <2>3. PICK c : BemFeita(c) /\ Muda(i, c) /\ c.membro = Veredito(corridas[i])
    BY <1>3, ConcluiCorrida
  <2>4. Veredito(corridas[i]) = "sucesso" /\ corridas[i].membro = "em_execucao"
    BY <1>3, <2>2, ConcluiCorrida DEF Veredito
  <2>5. i \in DOMAIN corridas' /\ corridas'[i] = c
    BY <2>3, MudaCorrida
  <2> QED BY <2>3, <2>4, <2>5 DEF Sucede
<1>4. ASSUME NEW i \in Ids, NEW l \in 1..Total(corridas[i]), Reprocessa(i, l)
      PROVE  FALSE
  <2> DEFINE x == Linha(corridas[i], l)
  <2>1. x.chave \in Chaves /\ x.valor # Vazio
    BY CorridasTipo, CorridaTipo
  <2>2. canonica' = [canonica EXCEPT ![x.chave] = x.valor] /\ DOMAIN canonica = Chaves
    BY <1>4 DEF Reprocessa, TipoPromocao
  <2> HIDE DEF x
  <2> QED BY <2>1, <2>2
<1> QED BY <1>1, <1>2, <1>3, <1>4
        DEF Next, Publica, Configura, Cadastra, Sincroniza, Encena, Finaliza, Queda, Refaz

(* No run that fails or is lost removes a row.                             *)
THEOREM FalhaNaoApaga == Spec => SoSucessoApaga
<1>1. TipoPromocao /\ [Next]_vars
      => [(\E k \in Chaves : canonica[k] # Vazio /\ canonica'[k] = Vazio)
          => (\E i \in Ids : Sucede(i)) \/ fonte \in {"ipe", "vlmo", "cgvn"}]_vars
  BY PassoApaga
<1> QED BY <1>1, TipoCorretoPromocao, PTL DEF Spec, SoSucessoApaga

-----------------------------------------------------------------------------
(* What was replayed once stays counted.                                   *)
LEMMA ReplayConta ==
    ASSUME TipoPromocao, Next
    PROVE  /\ SemReplay' => SemReplay
           /\ SemReplay' => ~\E i \in Ids : Refaz(i)
           /\ SemReplay' => ~\E i \in Ids : \E l \in 1..Total(corridas[i]) : Reprocessa(i, l)
<1>1. gasto \in [Eventos -> Nat] /\ {"replays", "refeitas"} \subseteq Eventos
  BY DEF TipoPromocao, Eventos
<1>2. ASSUME NEW x \in Eventos, NEW max, Usa(x, max)
      PROVE  /\ SemReplay' => SemReplay
             /\ x \in {"replays", "refeitas"} => ~SemReplay'
  <2>1. /\ gasto' \in [Eventos -> Nat] /\ gasto'[x] # 0
        /\ \A y \in Eventos : gasto[y] <= gasto'[y]
    BY <1>1, <1>2, UsaTipo
  <2>2. /\ gasto["replays"] \in Nat /\ gasto["refeitas"] \in Nat
        /\ gasto'["replays"] \in Nat /\ gasto'["refeitas"] \in Nat
        /\ gasto["replays"] <= gasto'["replays"] /\ gasto["refeitas"] <= gasto'["refeitas"]
    BY <1>1, <2>1
  <2> QED BY <2>1, <2>2 DEF SemReplay
<1>3. (\E i \in Ids : Refaz(i)) => ~SemReplay'
  BY <1>1, <1>2 DEF Refaz
<1>4. (\E i \in Ids : \E l \in 1..Total(corridas[i]) : Reprocessa(i, l)) => ~SemReplay'
  BY <1>1, <1>2 DEF Reprocessa
<1>5. CASE \E x \in Eventos : \E max : Usa(x, max)
  BY <1>2, <1>3, <1>4, <1>5
<1>6. CASE UNCHANGED gasto
  BY <1>3, <1>4, <1>6 DEF SemReplay
<1>7. (\E x \in Eventos : \E max : Usa(x, max)) \/ UNCHANGED gasto
  BY DEF Next, Publica, Configura, Cadastra, Sincroniza, Encena, ProximaLinha, Conclui,
         Finaliza, Queda, Refaz, Reprocessa, Eventos
<1> QED BY <1>5, <1>6, <1>7

(* The run at work is of the newest synchronization.                       *)
LEMMA Unica ==
    ASSUME TipoPromocao, UmaPorVez, SemReplay,
           NEW i \in Ids, corridas[i].membro \in {"fila", "em_execucao"}
    PROVE  i = Len(corridas) /\ corridas[i].pai = "em_execucao"
BY DEF UmaPorVez, Encerrado

(* A run at work goes on, or the synchronization of one that ended ends.   *)
Segue(a, c) == \/ a.membro \in {"fila", "em_execucao"} /\ c.pai = a.pai
               \/ /\ c.membro = a.membro /\ c.membro \in Encerrado
                  /\ c.pai # "em_execucao"

LEMMA MudaUma ==
    ASSUME TipoPromocao, UmaPorVez, SemReplay, NEW i \in Ids, NEW c, BemFeita(c),
           Muda(i, c), Segue(corridas[i], c)
    PROVE  UmaPorVez'
<1>1. /\ Ids' = Ids /\ Len(corridas') = Len(corridas) /\ corridas'[i] = c
      /\ \A j \in Ids : j # i => corridas'[j] = corridas[j]
  BY MudaCorrida
<1>2. c.pai # "em_execucao" => c.membro \in Encerrado
  BY Unica DEF Segue
<1>3. i # Len(corridas) => c.pai # "em_execucao"
  BY Unica DEF Segue
<1>4. \A j \in Ids : /\ corridas[j].pai # "em_execucao" => corridas[j].membro \in Encerrado
                     /\ j # Len(corridas) => corridas[j].pai # "em_execucao"
  BY DEF UmaPorVez
<1>5. \A j \in Ids' :
         /\ corridas'[j].pai # "em_execucao" => corridas'[j].membro \in Encerrado
         /\ j # Len(corridas') => corridas'[j].pai # "em_execucao"
  BY <1>1, <1>2, <1>3, <1>4
<1> QED BY <1>5 DEF UmaPorVez

LEMMA NovaUmaPorVez ==
    ASSUME TipoPromocao, UmaPorVez, Next
    PROVE  UmaPorVez'
<1> SUFFICES ASSUME SemReplay' PROVE UmaPorVez'
  BY DEF UmaPorVez
<1>0. SemReplay
  BY ReplayConta
<1>1. CASE UNCHANGED corridas
  BY <1>0, <1>1 DEF UmaPorVez, Ids
<1>2. CASE Sincroniza
  <2>1. PICK c : BemFeita(c) /\ corridas' = Append(corridas, c) /\ c.pai = "em_execucao"
    BY <1>2, SincronizaCorrida
  <2>2. /\ Ids' = Ids \cup {Len(corridas) + 1} /\ Len(corridas') = Len(corridas) + 1
        /\ corridas'[Len(corridas) + 1] = c /\ \A j \in Ids : corridas'[j] = corridas[j]
    BY <2>1, AnexaCorrida
  <2>3. \A j \in Ids : corridas[j].pai # "em_execucao" /\ corridas[j].membro \in Encerrado
    BY <1>0, <1>2 DEF Sincroniza, Parada, UmaPorVez
  <2>4. \A j \in Ids' :
           /\ corridas'[j].pai # "em_execucao" => corridas'[j].membro \in Encerrado
           /\ j # Len(corridas') => corridas'[j].pai # "em_execucao"
    BY <2>1, <2>2, <2>3
  <2> QED BY <2>4 DEF UmaPorVez
<1>3. ASSUME NEW i \in Ids, Encena(i)
      PROVE  UmaPorVez'
  <2>1. corridas[i].membro = "fila"
    BY <1>3 DEF Encena
  <2>2. PICK c : BemFeita(c) /\ Muda(i, c) /\ c.pai = corridas[i].pai
    BY <1>3, EncenaCorrida
  <2>3. Segue(corridas[i], c)
    BY <2>1, <2>2 DEF Segue
  <2> QED BY <1>0, <2>2, <2>3, MudaUma
<1>4. ASSUME NEW i \in Ids, ProximaLinha(i)
      PROVE  UmaPorVez'
  <2>1. corridas[i].membro = "em_execucao"
    BY <1>4, ProximaLinhaCorrida
  <2>2. PICK c : BemFeita(c) /\ Muda(i, c) /\ c.pai = corridas[i].pai
    BY <1>4, ProximaLinhaCorrida
  <2>3. Segue(corridas[i], c)
    BY <2>1, <2>2 DEF Segue
  <2> QED BY <1>0, <2>2, <2>3, MudaUma
<1>5. ASSUME NEW i \in Ids, Conclui(i)
      PROVE  UmaPorVez'
  <2>1. corridas[i].membro = "em_execucao"
    BY <1>5, ConcluiCorrida
  <2>2. PICK c : BemFeita(c) /\ Muda(i, c) /\ c.pai = corridas[i].pai
    BY <1>5, ConcluiCorrida
  <2>3. Segue(corridas[i], c)
    BY <2>1, <2>2 DEF Segue
  <2> QED BY <1>0, <2>2, <2>3, MudaUma
<1>6. ASSUME NEW i \in Ids, Finaliza(i)
      PROVE  UmaPorVez'
  <2>1. corridas[i].membro \in Encerrado
    BY <1>6, FinalizaCorrida
  <2>2. PICK c : /\ BemFeita(c) /\ Muda(i, c) /\ c.pai \in {"sucesso", "falha"}
                 /\ c.membro = corridas[i].membro
    BY <1>6, FinalizaCorrida
  <2>3. Segue(corridas[i], c)
    BY <2>1, <2>2 DEF Segue
  <2> QED BY <1>0, <2>2, <2>3, MudaUma
<1>7. ASSUME NEW i \in Ids, Queda(i)
      PROVE  UmaPorVez'
  <2>1. PICK s \in StatusMembro : Muda(i, [corridas[i] EXCEPT !.membro = s])
    BY <1>7 DEF Queda, StatusMembro
  <2>2. PICK c : BemFeita(c) /\ Muda(i, c) /\ c.pai = corridas[i].pai
    BY <2>1, MembroCorrida
  <2>3. Segue(corridas[i], c)
    BY <1>7, <2>2 DEF Segue, Queda
  <2> QED BY <1>0, <2>2, <2>3, MudaUma
<1> QED BY <1>1, <1>2, <1>3, <1>4, <1>5, <1>6, <1>7, ReplayConta
        DEF Next, Publica, Configura, Cadastra

(* What enters the table is of the newest synchronization's file.          *)
LEMMA PassoRegresso ==
    ASSUME TipoPromocao, UmaPorVez, Next, SemReplay', NEW k \in Chaves,
           canonica'[k] \notin {canonica[k], Vazio}
    PROVE  \E l \in 1..Total(corridas[Len(corridas)]) :
              Linha(corridas[Len(corridas)], l) = [chave |-> k, valor |-> canonica'[k]]
<1>0. SemReplay
  BY ReplayConta
<1>1. UNCHANGED canonica \/ \E i \in Ids : ProximaLinha(i) \/ Conclui(i)
  BY ReplayConta
     DEF Next, Publica, Configura, Cadastra, Sincroniza, Encena, Finaliza, Queda, Refaz
<1>2. ~\E i \in Ids : Conclui(i)
  BY ConcluiTabela
<1>3. PICK i \in Ids : ProximaLinha(i)
  BY <1>1, <1>2
<1> DEFINE a == corridas[i]
           l == a.feitas + 1
<1>4. BemFeita(a) /\ l \in 1..Total(a) /\ a.membro = "em_execucao"
  BY <1>3, CorridasTipo, ProximaLinhaCorrida
<1>5. i = Len(corridas)
  BY <1>0, <1>4, Unica
<1>6. k = Linha(a, l).chave /\ canonica'[k] = Linha(a, l).valor
  BY <1>3, ProximaLinhaTabela
<1>7. Linha(a, l) = [chave |-> Linha(a, l).chave, valor |-> Linha(a, l).valor]
  BY <1>4, CorridaTipo
<1> HIDE DEF l
<1>8. Linha(a, l) = [chave |-> k, valor |-> canonica'[k]]
  BY <1>6, <1>7
<1> QED BY <1>4, <1>5, <1>8

-----------------------------------------------------------------------------
(* Run c is run a after its next line.                                     *)
Avancada(a, c) ==
    LET l == a.feitas + 1
        x == Linha(a, l)
    IN /\ BemFeita(a) /\ BemFeita(c) /\ l \in 1..Total(a)
       /\ c.versao = a.versao /\ c.empresas = a.empresas /\ c.promove = a.promove
       /\ c.feitas = l /\ c.vistos = Visto(a, x)
       /\ c.situacao = [a.situacao EXCEPT ![l] = Julga(a, x)]
       /\ c.quarentena = IF Julga(a, x) = "invalid"
                         THEN a.quarentena \cup {l} ELSE a.quarentena

(* The same, field by field.                                               *)
LEMMA AvancadaFatos ==
    ASSUME NEW a, NEW c, Avancada(a, c), NEW l, l = a.feitas + 1, NEW x, x = Linha(a, l)
    PROVE  /\ a.feitas \in Nat /\ Total(a) \in Nat /\ l \in 1..Total(a)
           /\ Total(c) = Total(a) /\ \A m : Linha(c, m) = Linha(a, m)
           /\ c.versao = a.versao /\ c.empresas = a.empresas /\ c.promove = a.promove
           /\ c.feitas = l
           /\ x.chave \in Chaves /\ x.valor # Vazio
           /\ x = [chave |-> x.chave, valor |-> x.valor]
           /\ c.situacao[l] = Julga(a, x)
           /\ \A m \in 1..Total(a) : m # l => c.situacao[m] = a.situacao[m]
           /\ a.quarentena \subseteq c.quarentena
           /\ Julga(a, x) = "invalid" => l \in c.quarentena
           /\ \A k \in Chaves :
                 c.vistos[k] = IF /\ k = x.chave /\ x.valor # Ruim
                                  /\ ~(Sombra(a, x) /\ x.valor = Zero)
                               THEN x.valor ELSE a.vistos[k]
<1>1. /\ BemFeita(a) /\ l \in 1..Total(a)
      /\ c.versao = a.versao /\ c.empresas = a.empresas /\ c.promove = a.promove
      /\ c.feitas = l /\ c.vistos = Visto(a, x)
      /\ c.situacao = [a.situacao EXCEPT ![l] = Julga(a, x)]
      /\ c.quarentena = IF Julga(a, x) = "invalid"
                        THEN a.quarentena \cup {l} ELSE a.quarentena
  BY DEF Avancada
<1>2. /\ a.feitas \in Nat /\ Total(a) \in Nat
      /\ a.vistos \in [Chaves -> Valores \cup {Vazio}]
      /\ a.situacao \in [1..Total(a) -> Situacao]
      /\ x.chave \in Chaves /\ x.valor # Vazio
      /\ x = [chave |-> x.chave, valor |-> x.valor]
  BY <1>1, CorridaTipo
<1>3. Total(c) = Total(a) /\ \A m : Linha(c, m) = Linha(a, m)
  BY <1>1 DEF Total, Linha
<1>4. /\ c.situacao[l] = Julga(a, x)
      /\ \A m \in 1..Total(a) : m # l => c.situacao[m] = a.situacao[m]
  BY <1>1, <1>2
<1>5. \A k \in Chaves :
         c.vistos[k] = IF /\ k = x.chave /\ x.valor # Ruim
                          /\ ~(Sombra(a, x) /\ x.valor = Zero)
                       THEN x.valor ELSE a.vistos[k]
  BY <1>1, <1>2 DEF Visto
<1> QED BY <1>1, <1>2, <1>3, <1>4, <1>5

(* The lines judged so far stay promoted or in quarantine.                 *)
LEMMA LinhaJulgadas ==
    ASSUME NEW a, NEW c, Avancada(a, c), Julgadas(a)
    PROVE  Julgadas(c)
<1> DEFINE l == a.feitas + 1
           x == Linha(a, l)
<1>1. /\ a.feitas \in Nat /\ Total(a) \in Nat /\ l \in 1..Total(a)
      /\ Total(c) = Total(a) /\ \A m : Linha(c, m) = Linha(a, m)
      /\ c.feitas = l /\ x.chave \in Chaves /\ x.valor # Vazio
      /\ c.situacao[l] = Julga(a, x)
      /\ \A m \in 1..Total(a) : m # l => c.situacao[m] = a.situacao[m]
      /\ a.quarentena \subseteq c.quarentena
      /\ Julga(a, x) = "invalid" => l \in c.quarentena
      /\ \A k \in Chaves : c.vistos[k] \in {a.vistos[k], x.valor}
      /\ \A k \in Chaves : c.vistos[k] # a.vistos[k] => k = x.chave /\ x.valor # Ruim
  BY AvancadaFatos
<1>2. 1..c.feitas = 1..a.feitas \cup {l} /\ l \notin 1..a.feitas
      /\ 1..a.feitas \subseteq 1..Total(a)
  BY <1>1
<1>3. ASSUME NEW k, Contada(a, k)
      PROVE  Contada(c, k)
  <2>1. PICK m \in 1..a.feitas : /\ Linha(a, m).chave = k
                                 /\ a.situacao[m] = "valid" \/ m \in a.quarentena
    BY <1>3 DEF Contada
  <2>2. /\ m \in 1..c.feitas /\ Linha(c, m).chave = k
        /\ c.situacao[m] = "valid" \/ m \in c.quarentena
    BY <1>1, <1>2, <2>1
  <2> QED BY <2>2 DEF Contada
<1>4. x.valor # Ruim => Contada(c, x.chave)
  <2> SUFFICES ASSUME x.valor # Ruim PROVE Contada(c, x.chave)
    OBVIOUS
  <2>1. CASE Julga(a, x) \in {"valid", "invalid"}
    <3>1. /\ l \in 1..c.feitas /\ Linha(c, l).chave = x.chave
          /\ c.situacao[l] = "valid" \/ l \in c.quarentena
      BY <1>1, <1>2, <2>1
    <3> QED BY <3>1 DEF Contada
  <2>2. CASE Julga(a, x) \notin {"valid", "invalid"}
    <3>1. Duplicada(a, x)
      BY <2>2 DEF Julga
    <3>2. a.vistos[x.chave] # Vazio
      BY <1>1, <3>1 DEF Duplicada, Sombra
    <3> QED BY <1>1, <1>3, <3>2 DEF Julgadas
  <2> QED BY <2>1, <2>2
<1>5. x.valor = Ruim => l \in c.quarentena
  BY <1>1 DEF Julga
<1> HIDE DEF l, x
<1>6. \A m \in 1..c.feitas :
         IF Linha(c, m).valor = Ruim THEN m \in c.quarentena
                                     ELSE Contada(c, Linha(c, m).chave)
  <2>1. ASSUME NEW m \in 1..a.feitas
        PROVE  IF Linha(c, m).valor = Ruim THEN m \in c.quarentena
                                           ELSE Contada(c, Linha(c, m).chave)
    BY <1>1, <1>3 DEF Julgadas
  <2>2. Linha(c, l) = x
    BY <1>1 DEF x
  <2> QED BY <1>2, <1>4, <1>5, <2>1, <2>2
<1>7. \A k \in Chaves : c.vistos[k] # Vazio => Contada(c, k)
  BY <1>1, <1>3, <1>4 DEF Julgadas
<1>8. \A m \in 1..Total(c) : c.situacao[m] = "valid" => m <= c.feitas
  <2>1. ASSUME NEW m \in 1..Total(a), c.situacao[m] = "valid", m # l
        PROVE  m <= c.feitas
    <3>1. m <= a.feitas
      BY <1>1, <2>1 DEF Julgadas
    <3> QED BY <1>1, <3>1 DEF l
  <2> QED BY <1>1, <2>1
<1> QED BY <1>6, <1>7, <1>8 DEF Julgadas

(* A row is kept as long as its value stays.                               *)
LEMMA MantidaFica ==
    ASSUME NEW a, NEW c, NEW k, Total(c) = Total(a), \A m : Linha(c, m) = Linha(a, m),
           \A m \in 1..Total(a) : a.situacao[m] = "valid" => c.situacao[m] = "valid",
           Mantida(a, k), canonica'[k] = canonica[k]
    PROVE  Mantida(c, k)'
BY DEF Mantida, Total, Linha

(* The valid lines are those the table has.                                *)
LEMMA LinhaPromovidas ==
    ASSUME NEW a, NEW c, Avancada(a, c), Julgadas(a), Promovidas(a),
           NEW x, x = Linha(a, a.feitas + 1),
           \A k \in Chaves :
              canonica'[k] = IF Julga(a, x) = "valid" /\ k = x.chave
                             THEN x.valor ELSE canonica[k]
    PROVE  /\ Promovidas(c)'
           /\ \A k \in Chaves : Mantida(a, k) => Mantida(c, k)'
           /\ Julga(a, x) = "valid" => Mantida(c, x.chave)'
<1> DEFINE l == a.feitas + 1
<1>1. /\ a.feitas \in Nat /\ Total(a) \in Nat /\ l \in 1..Total(a)
      /\ Total(c) = Total(a) /\ \A m : Linha(c, m) = Linha(a, m)
      /\ c.feitas = l /\ x.chave \in Chaves
      /\ c.situacao[l] = Julga(a, x)
      /\ \A m \in 1..Total(a) : m # l => c.situacao[m] = a.situacao[m]
  BY AvancadaFatos
<1>2. a.situacao[l] # "valid"
  BY <1>1 DEF Julgadas
<1>3. Julga(a, x) = "valid" => Mantida(c, x.chave)'
  <2> SUFFICES ASSUME Julga(a, x) = "valid" PROVE Mantida(c, x.chave)'
    OBVIOUS
  <2>1. canonica'[x.chave] = x.valor
    BY <1>1
  <2>2. /\ l \in 1..Total(c) /\ c.situacao[l] = "valid" /\ Linha(c, l).chave = x.chave
        /\ Linha(c, l).valor = canonica'[x.chave]
    BY <1>1, <2>1
  <2> QED BY <2>2 DEF Mantida, Total, Linha
<1>4. ASSUME NEW k \in Chaves, Mantida(a, k)
      PROVE  Mantida(c, k)'
  <2>1. CASE Julga(a, x) = "valid" /\ k = x.chave
    BY <1>3, <2>1
  <2>2. CASE ~(Julga(a, x) = "valid" /\ k = x.chave)
    <3>1. canonica'[k] = canonica[k]
      BY <2>2
    <3>2. \A m \in 1..Total(a) : a.situacao[m] = "valid" => c.situacao[m] = "valid"
      BY <1>1, <1>2
    <3> QED BY <1>1, <1>4, <3>1, <3>2, MantidaFica
  <2> QED BY <2>1, <2>2
<1>5. ASSUME NEW m \in 1..Total(c), c.situacao[m] = "valid"
      PROVE  Mantida(c, Linha(c, m).chave)'
  <2>1. CASE m = l
    BY <1>1, <1>3, <1>5, <2>1
  <2>2. CASE m # l
    <3>1. a.situacao[m] = "valid" /\ m \in 1..Total(a)
      BY <1>1, <1>5, <2>2
    <3>2. Mantida(a, Linha(a, m).chave) /\ Linha(a, m).chave \in Chaves
      BY <3>1, CorridaTipo DEF Promovidas, Avancada
    <3> QED BY <1>1, <1>4, <3>2
  <2> QED BY <2>1, <2>2
<1>6. Promovidas(c)'
  BY <1>5 DEF Promovidas, Total, Linha
<1> QED BY <1>3, <1>4, <1>6

-----------------------------------------------------------------------------
(* A line is dropped for being zero when another amount is there.          *)
LEMMA NulasPontos ==
    ASSUME NEW c, NEW S, NEW m
    PROVE  m \in SemNulas(c, S) <=>
             /\ m \in S
             /\ ~(/\ fonte \in {"dfp", "itr"} /\ Linha(c, m).valor = Zero
                 /\ \E n \in S : Linha(c, n).valor # Zero)
<1> DEFINE nulas == {n \in S : Linha(c, n).valor = Zero}
<1>1. nulas # S <=> \E n \in S : Linha(c, n).valor # Zero
  OBVIOUS
<1>2. SemNulas(c, S) = IF fonte \in {"dfp", "itr"} /\ nulas # S THEN S \ nulas ELSE S
  BY DEF SemNulas
<1>3. m \in nulas <=> m \in S /\ Linha(c, m).valor = Zero
  OBVIOUS
<1> HIDE DEF nulas
<1> QED BY <1>1, <1>2, <1>3

(* Of the good lines of a key some count.                                  *)
LEMMA NulasParte ==
    ASSUME NEW c, NEW S
    PROVE  SemNulas(c, S) \subseteq S /\ (SemNulas(c, S) = {} => S = {})
<1>1. \A m : m \in SemNulas(c, S) <=>
              m \in S /\ ~(/\ fonte \in {"dfp", "itr"} /\ Linha(c, m).valor = Zero
                          /\ \E n \in S : Linha(c, n).valor # Zero)
  BY NulasPontos
<1>2. SemNulas(c, S) \subseteq S
  BY <1>1
<1>3. SemNulas(c, S) = {} => S = {}
  <2> SUFFICES ASSUME SemNulas(c, S) = {}, NEW m \in S PROVE FALSE
    OBVIOUS
  <2>1. PICK n \in S : Linha(c, n).valor # Zero
    BY <1>1
  <2>2. n \in SemNulas(c, S)
    BY <1>1, <2>1
  <2> QED BY <2>2
<1> QED BY <1>2, <1>3

(* What another good line makes of those that count.                       *)
LEMMA NulasAcrescenta ==
    ASSUME NEW c, NEW S \in SUBSET Nat, NEW l \in Nat, \A m \in S : m < l,
           NEW z, z = Linha(c, l).valor
    PROVE  /\ SemNulas(c, S) \subseteq S
           /\ SemNulas(c, S) = {} => S = {}
           /\ \A n \in SemNulas(c, S) :
                 fonte \in {"dfp", "itr"} /\ Linha(c, n).valor = Zero
                 => \A m \in S : Linha(c, m).valor = Zero
           /\ ~(fonte \in {"dfp", "itr"} /\ z = Zero) \/ (\A m \in S : Linha(c, m).valor = Zero)
              => Ultima(c, SemNulas(c, S \cup {l}), z)
           /\ /\ fonte \in {"dfp", "itr"} /\ z = Zero
              /\ \E n \in S : Linha(c, n).valor # Zero
              => SemNulas(c, S \cup {l}) = SemNulas(c, S)
<1> DEFINE fin == fonte \in {"dfp", "itr"}
           val(m) == Linha(c, m).valor
<1>1. \A T, m : m \in SemNulas(c, T) <=>
                 m \in T /\ ~(fin /\ val(m) = Zero /\ \E n \in T : val(n) # Zero)
  BY NulasPontos
<1> HIDE DEF fin, val
<1>2. SemNulas(c, S) \subseteq S
  BY NulasParte
<1>3. SemNulas(c, S) = {} => S = {}
  BY NulasParte
<1>4. \A n \in SemNulas(c, S) : fin /\ val(n) = Zero => \A m \in S : val(m) = Zero
  BY <1>1
<1>5. ASSUME ~(fin /\ z = Zero) \/ \A m \in S : val(m) = Zero
      PROVE  Ultima(c, SemNulas(c, S \cup {l}), z)
  <2>1. val(l) = z
    BY DEF val
  <2>2. l \in SemNulas(c, S \cup {l})
    BY <1>1, <1>5, <2>1
  <2>3. \A m \in SemNulas(c, S \cup {l}) : m <= l
    <3>1. \A m \in S \cup {l} : m <= l
      OBVIOUS
    <3> QED BY <1>1, <3>1
  <2> QED BY <2>1, <2>2, <2>3 DEF Ultima, val
<1>6. ASSUME fin, z = Zero, NEW n \in S, val(n) # Zero
      PROVE  SemNulas(c, S \cup {l}) = SemNulas(c, S)
  <2>1. val(l) = Zero
    BY <1>6 DEF val
  <2>2. \A m : m \in SemNulas(c, S \cup {l}) <=> m \in SemNulas(c, S)
    BY <1>1, <1>6, <2>1
  <2> QED BY <2>2
<1> QED BY <1>2, <1>3, <1>4, <1>5, <1>6 DEF fin, val

(* The last of a set of lines is one.                                      *)
LEMMA UmaUltima ==
    ASSUME NEW c, NEW S \in SUBSET Nat, NEW x, NEW y, Ultima(c, S, x), Ultima(c, S, y)
    PROVE  x = y
<1>1. PICK l \in S : Linha(c, l).valor = x /\ \A m \in S : m <= l
  BY DEF Ultima
<1>2. PICK n \in S : Linha(c, n).valor = y /\ \A m \in S : m <= n
  BY DEF Ultima
<1>3. l = n
  <2>1. l \in Nat /\ n \in Nat /\ l <= n /\ n <= l
    BY <1>1, <1>2
  <2> QED BY <2>1
<1> QED BY <1>1, <1>2, <1>3

(* The good lines of a key, before and after a line.                       *)
AceitasAte(c, k) == Aceitas(c, k) \cap 1..c.feitas

(* The next line is good, and of key k.                                    *)
BoaDe(a, k) == LET x == Linha(a, a.feitas + 1)
               IN x.chave = k /\ x.valor \notin {Ruim, Estouro} /\ k \in a.empresas

LEMMA LinhaBoas ==
    ASSUME NEW a, NEW c, Avancada(a, c), NEW k \in Chaves
    PROVE  LET A == AceitasAte(a, k)
               l == a.feitas + 1
           IN
           /\ A \in SUBSET Nat /\ l \in Nat /\ \A m \in A : m < l
           /\ BoasAte(a, k) = SemNulas(a, A)
           /\ BoaDe(a, k) => BoasAte(c, k) = SemNulas(a, A \cup {l})
           /\ ~BoaDe(a, k) => BoasAte(c, k) = BoasAte(a, k)
<1> DEFINE A == AceitasAte(a, k)
           l == a.feitas + 1
<1>1. /\ a.feitas \in Nat /\ Total(a) \in Nat /\ l \in 1..Total(a)
      /\ Total(c) = Total(a) /\ \A m : Linha(c, m) = Linha(a, m)
      /\ c.empresas = a.empresas /\ c.feitas = l
  BY AvancadaFatos
<1>2. Aceitas(c, k) = Aceitas(a, k) /\ \A S : SemNulas(c, S) = SemNulas(a, S)
  <2>1. Aceitas(c, k) = Aceitas(a, k)
    BY <1>1 DEF Aceitas
  <2>2. ASSUME NEW S
        PROVE  SemNulas(c, S) = SemNulas(a, S)
    <3>1. \A m : m \in SemNulas(c, S) <=> m \in SemNulas(a, S)
      BY <1>1, NulasPontos
    <3> QED BY <3>1
  <2> QED BY <2>1, <2>2
<1>3. 1..c.feitas = 1..a.feitas \cup {l}
  BY <1>1
<1>4. l \in Aceitas(a, k) <=> BoaDe(a, k)
  BY <1>1 DEF Aceitas, BoaDe
<1>5. /\ l \in Aceitas(a, k) => Aceitas(c, k) \cap 1..c.feitas = A \cup {l}
      /\ l \notin Aceitas(a, k) => Aceitas(c, k) \cap 1..c.feitas = A
  BY <1>2, <1>3 DEF AceitasAte
<1>6. A \in SUBSET Nat /\ l \in Nat /\ \A m \in A : m < l
  BY <1>1 DEF AceitasAte
<1> QED BY <1>2, <1>4, <1>5, <1>6 DEF BoasAte, AceitasAte

(* The sources do not change under a run.                                  *)
LEMMA BoasFixas ==
    ASSUME UNCHANGED fonte, NEW c, NEW k
    PROVE  BoasAte(c, k)' = BoasAte(c, k)
BY DEF BoasAte, SemNulas, Aceitas, Linha, Total

(* One key after the next line.                                            *)
LEMMA LinhaEspelhada ==
    ASSUME NEW a, NEW c, Avancada(a, c), NEW k \in Chaves, Espelhada(a, k),
           a.promove, ZeroPorUltimo(a), UNCHANGED fonte,
           NEW l, l = a.feitas + 1, NEW x, x = Linha(a, l),
           canonica'[k] = IF Julga(a, x) = "valid" /\ k = x.chave
                          THEN x.valor ELSE canonica[k],
           Mantida(a, k) => Mantida(c, k)',
           Julga(a, x) = "valid" /\ k = x.chave => Mantida(c, k)'
    PROVE  Espelhada(c, k)'
<1> DEFINE A == AceitasAte(a, k)
           fin == fonte \in {"dfp", "itr"}
           v == a.vistos[k]
           w == c.vistos[k]
           B == BoasAte(c, k)
<1>1. /\ a.feitas \in Nat /\ Total(a) \in Nat /\ l \in 1..Total(a)
      /\ Total(c) = Total(a) /\ \A m : Linha(c, m) = Linha(a, m)
      /\ c.empresas = a.empresas /\ c.feitas = l
      /\ x.valor # Vazio /\ x = [chave |-> x.chave, valor |-> x.valor]
      /\ w = IF k = x.chave /\ x.valor # Ruim /\ ~(Sombra(a, x) /\ x.valor = Zero)
             THEN x.valor ELSE v
  BY AvancadaFatos
<1>2. /\ A \in SUBSET Nat /\ l \in Nat /\ \A m \in A : m < l
      /\ BoasAte(a, k) = SemNulas(a, A)
      /\ x.chave = k /\ x.valor \notin {Ruim, Estouro} /\ k \in a.empresas
         => B = SemNulas(a, A \cup {l})
      /\ ~(x.chave = k /\ x.valor \notin {Ruim, Estouro} /\ k \in a.empresas)
         => B = BoasAte(a, k)
  BY LinhaBoas DEF BoaDe
<1>3. /\ v # Vazio => \E m \in 1..a.feitas : Linha(a, m) = [chave |-> k, valor |-> v]
      /\ v \notin {Vazio, Estouro} /\ k \in a.empresas => Ultima(a, BoasAte(a, k), v)
      /\ BoasAte(a, k) # {} => /\ Ultima(a, BoasAte(a, k), canonica[k])
                               /\ Mantida(a, k)
                               /\ v # Vazio
  BY DEF Espelhada
<1>4. \A S, y : Ultima(c, S, y) <=> Ultima(a, S, y)
  BY <1>1 DEF Ultima
<1> HIDE DEF v, w, B, A
<1>5. w # Vazio => \E m \in 1..c.feitas : Linha(c, m) = [chave |-> k, valor |-> w]
  <2>1. CASE w = v
    <3>1. \A m \in 1..a.feitas : m \in 1..c.feitas
      BY <1>1
    <3> QED BY <1>1, <1>3, <2>1, <3>1
  <2>2. CASE w # v
    <3>1. w = x.valor /\ k = x.chave /\ l \in 1..c.feitas
      BY <1>1, <2>2
    <3>2. Linha(c, l) = [chave |-> k, valor |-> w]
      BY <1>1, <3>1
    <3> QED BY <3>1, <3>2
  <2> QED BY <2>1, <2>2
<1>6. /\ w \notin {Vazio, Estouro} /\ k \in a.empresas => Ultima(c, B, w)
      /\ B # {} => Ultima(c, B, canonica'[k]) /\ Mantida(c, k)' /\ w # Vazio
  <2>1. CASE x.chave # k \/ x.valor = Ruim
    <3>1. w = v /\ canonica'[k] = canonica[k] /\ B = BoasAte(a, k)
      BY <1>1, <1>2, <2>1 DEF Julga
    <3> QED BY <1>3, <1>4, <3>1
  <2>2. CASE x.chave = k /\ x.valor = Estouro /\ x.valor # Ruim
    <3>1. canonica'[k] = canonica[k] /\ B = BoasAte(a, k)
      BY <1>2, <2>2 DEF Julga, Promovivel
    <3>2. w = Estouro
      BY <1>1, <2>2, ConstantesPromocao
    <3> QED BY <1>1, <1>3, <1>4, <2>2, <3>1, <3>2
  <2>3. CASE x.chave = k /\ x.valor \notin {Ruim, Estouro} /\ k \notin a.empresas
    <3>1. B = BoasAte(a, k) /\ BoasAte(a, k) = {}
      <4>1. A = {}
        BY <2>3 DEF A, AceitasAte, Aceitas
      <4> QED BY <1>2, <2>3, <4>1, NulasAcrescenta
    <3> QED BY <2>3, <3>1
  <2>4. CASE x.chave = k /\ x.valor \notin {Ruim, Estouro} /\ k \in a.empresas
    <3>0. /\ B = SemNulas(a, A \cup {l}) /\ BoasAte(a, k) = SemNulas(a, A)
          /\ SemNulas(a, A) \subseteq A
      BY <1>2, <2>4, NulasAcrescenta
    <3>1. CASE v = x.valor
      <4>1. w = x.valor /\ Julga(a, x) # "valid"
        <5>1. Duplicada(a, x)
          BY <2>4, <3>1 DEF Duplicada, v
        <5> QED BY <1>1, <3>1, <5>1 DEF Julga
      <4>2. Ultima(a, SemNulas(a, A), v) /\ SemNulas(a, A) # {}
        <5>1. Ultima(a, SemNulas(a, A), v)
          BY <1>1, <1>2, <1>3, <2>4, <3>1
        <5> QED BY <5>1 DEF Ultima
      <4>3. canonica[k] = v
        <5>1. Ultima(a, SemNulas(a, A), canonica[k])
          BY <1>2, <1>3, <4>2
        <5>2. SemNulas(a, A) \in SUBSET Nat
          BY <1>2, <3>0
        <5> QED BY <4>2, <5>1, <5>2, UmaUltima
      <4>4. ~(fin /\ x.valor = Zero) \/ \A m \in A : Linha(a, m).valor = Zero
        <5>1. PICK n \in SemNulas(a, A) : Linha(a, n).valor = v
          BY <4>2 DEF Ultima
        <5> QED BY <1>2, <3>1, <5>1, NulasAcrescenta
      <4>5. Ultima(a, SemNulas(a, A \cup {l}), x.valor)
        BY <1>2, <4>4, NulasAcrescenta
      <4>6. canonica'[k] = x.valor /\ Mantida(c, k)'
        BY <1>2, <1>3, <3>1, <4>1, <4>2, <4>3
      <4> QED BY <1>1, <1>4, <3>0, <4>1, <4>5, <4>6
    <3>2. CASE v # x.valor /\ Sombra(a, x)
      <4>1. fin /\ v # Vazio /\ Zero \in {v, x.valor}
        BY <2>4, <3>2 DEF Sombra, v
      <4>2. PICK m \in 1..a.feitas : Linha(a, m) = [chave |-> k, valor |-> v]
        BY <1>3, <4>1
      <4>3. /\ v = Zero => x.valor \in {Zero, Ruim, Estouro}
            /\ v = Estouro => x.valor # Zero
        <5>1. m \in 1..Total(a) /\ m < l /\ Linha(a, m).chave = Linha(a, l).chave
              /\ Linha(a, m).valor = v
          BY <1>1, <2>4, <4>2
        <5> QED BY <1>1, <4>1, <5>1 DEF ZeroPorUltimo
      <4>4. x.valor = Zero /\ v \notin {Zero, Vazio, Estouro}
        BY <2>4, <3>2, <4>1, <4>3
      <4>5. w = v /\ canonica'[k] = canonica[k]
        <5>1. Duplicada(a, x)
          BY <3>2 DEF Duplicada
        <5> QED BY <1>1, <3>2, <4>4, <5>1 DEF Julga
      <4>6. Ultima(a, SemNulas(a, A), v)
        BY <1>2, <1>3, <2>4, <4>4
      <4>7. B = SemNulas(a, A)
        <5>1. PICK n \in A : Linha(a, n).valor # Zero
          BY <3>0, <4>4, <4>6 DEF Ultima
        <5> QED BY <1>2, <3>0, <4>1, <4>4, <5>1, NulasAcrescenta
      <4> QED BY <1>2, <1>3, <1>4, <4>5, <4>6, <4>7
    <3>3. CASE v # x.valor /\ ~Sombra(a, x)
      <4>1. Julga(a, x) = "valid"
        BY <2>4, <3>3 DEF Julga, Duplicada, Resolvida, Promovivel, v
      <4>2. w = x.valor /\ canonica'[k] = x.valor /\ Mantida(c, k)'
        BY <1>1, <2>4, <3>3, <4>1
      <4>3. ~(fin /\ x.valor = Zero) \/ \A m \in A : Linha(a, m).valor = Zero
        <5> SUFFICES ASSUME fin, x.valor = Zero PROVE A = {}
          OBVIOUS
        <5>1. v = Vazio
          BY <2>4, <3>3 DEF Sombra, v
        <5>2. BoasAte(a, k) = {}
          BY <1>3, <5>1
        <5>3. SemNulas(a, A) = {} => A = {}
          BY <1>2, NulasAcrescenta
        <5> QED BY <1>2, <5>2, <5>3
      <4>4. Ultima(a, SemNulas(a, A \cup {l}), x.valor)
        BY <1>2, <4>3, NulasAcrescenta
      <4> QED BY <1>1, <1>4, <3>0, <4>2, <4>4
    <3> QED BY <3>1, <3>2, <3>3
  <2> QED BY <2>1, <2>2, <2>3, <2>4
<1>7. BoasAte(c, k)' = B
  BY BoasFixas DEF B
<1> QED BY <1>1, <1>5, <1>6, <1>7 DEF Espelhada, Ultima, Linha, w

-----------------------------------------------------------------------------
(* What is asked of a run at work depends on it, the source and the table. *)
LEMMA EmDiaFixo ==
    ASSUME NEW c, EmDia(c), UNCHANGED fonte, UNCHANGED canonica
    PROVE  EmDia(c)'
<1>1. \A k : Mantida(c, k)' <=> Mantida(c, k)
  BY DEF Mantida
<1>2. \A k : BoasAte(c, k)' = BoasAte(c, k)
  BY BoasFixas
<1>3. ZeroPorUltimo(c)' <=> ZeroPorUltimo(c)
  BY DEF ZeroPorUltimo
<1>4. \A k : Espelhada(c, k)' <=> Espelhada(c, k)
  BY <1>1, <1>2 DEF Espelhada
<1>5. Espelhadas(c)' <=> Espelhadas(c)
  BY <1>4 DEF Espelhadas
<1>6. Promovidas(c)' <=> Promovidas(c)
  BY <1>1 DEF Promovidas
<1> QED BY <1>3, <1>5, <1>6 DEF EmDia

LEMMA EmDiaDe ==
    ASSUME NEW j, NEW c, corridas'[j] = c, EmDia(c)'
    PROVE  EmDia(corridas[j])'
<1>1. \A k : Mantida(corridas[j], k)' <=> Mantida(c, k)'
  BY DEF Mantida
<1>2. \A k : BoasAte(corridas[j], k)' = BoasAte(c, k)'
  BY DEF BoasAte, SemNulas
<1>3. ZeroPorUltimo(corridas[j])' <=> ZeroPorUltimo(c)'
  BY DEF ZeroPorUltimo
<1>4. \A k : Espelhada(corridas[j], k)' <=> Espelhada(c, k)'
  BY <1>1, <1>2 DEF Espelhada
<1>5. Espelhadas(corridas[j])' <=> Espelhadas(c)'
  BY <1>4 DEF Espelhadas
<1>6. Promovidas(corridas[j])' <=> Promovidas(c)'
  BY <1>1 DEF Promovidas
<1> QED BY <1>3, <1>5, <1>6 DEF EmDia

(* A run whose lines were just staged.                                     *)
LEMMA EncenadaEmDia ==
    ASSUME NEW c, BemFeita(c), c.feitas = 0, c.vistos = [k \in Chaves |-> Vazio],
           c.situacao = [l \in 1..Total(c) |-> "pendente"]
    PROVE  EmDia(c)'
<1>1. 1..c.feitas = {} /\ \A l \in 1..Total(c) : c.situacao[l] # "valid"
  OBVIOUS
<1>2. Julgadas(c)
  BY <1>1 DEF Julgadas
<1>3. Promovidas(c)'
  BY <1>1 DEF Promovidas, Total
<1>4. \A k : BoasAte(c, k)' = {}
  BY <1>1 DEF BoasAte, SemNulas
<1>5. \A k \in Chaves : Espelhada(c, k)'
  BY <1>4 DEF Espelhada
<1>6. Espelhadas(c)'
  BY <1>1, <1>5 DEF Espelhadas, Total
<1> QED BY <1>2, <1>3, <1>6 DEF EmDia

(* The next line of a run.                                                 *)
LEMMA LinhaEmDia ==
    ASSUME NEW a, NEW c, Avancada(a, c), EmDia(a), a.membro = "em_execucao",
           Arquivos[a.versao].cabecalho, UNCHANGED fonte,
           LET x == Linha(a, a.feitas + 1)
           IN \A k \in Chaves :
                canonica'[k] = IF Julga(a, x) = "valid" /\ a.promove /\ k = x.chave
                               THEN x.valor ELSE canonica[k]
    PROVE  EmDia(c)'
<1> DEFINE l == a.feitas + 1
           x == Linha(a, l)
<1>1. Julgadas(a) /\ (a.promove => Promovidas(a) /\ (ZeroPorUltimo(a) => Espelhadas(a)))
  BY DEF EmDia
<1>2. Julgadas(c)
  BY <1>1, LinhaJulgadas
<1>3. /\ a.feitas \in Nat /\ Total(a) \in Nat /\ l \in 1..Total(a)
      /\ Total(c) = Total(a) /\ \A m : Linha(c, m) = Linha(a, m)
      /\ c.versao = a.versao /\ c.empresas = a.empresas /\ c.promove = a.promove
      /\ c.situacao[l] = Julga(a, x)
      /\ \A m \in 1..Total(a) : m # l => c.situacao[m] = a.situacao[m]
  BY AvancadaFatos
<1>4. ASSUME c.promove
      PROVE  Promovidas(c)' /\ (ZeroPorUltimo(c)' => Espelhadas(c)')
  <2>0. a.promove
    BY <1>3, <1>4
  <2>1. \A k \in Chaves : canonica'[k] = IF Julga(a, x) = "valid" /\ k = x.chave
                                         THEN x.valor ELSE canonica[k]
    BY <2>0
  <2>2. /\ Promovidas(c)'
        /\ \A k \in Chaves : Mantida(a, k) => Mantida(c, k)'
        /\ Julga(a, x) = "valid" => Mantida(c, x.chave)'
    BY <1>1, <2>0, <2>1, LinhaPromovidas
  <2>3. ASSUME ZeroPorUltimo(c)'
        PROVE  Espelhadas(c)'
    <3>1. ZeroPorUltimo(a)
      BY <1>3, <2>3 DEF ZeroPorUltimo, Total, Linha
    <3>2. Espelhadas(a)
      BY <1>1, <2>0, <3>1
    <3>3. ASSUME NEW k \in Chaves
          PROVE  Espelhada(c, k)'
      <4>1. Espelhada(a, k)
        BY <3>2 DEF Espelhadas
      <4>2. canonica'[k] = IF Julga(a, x) = "valid" /\ k = x.chave
                           THEN x.valor ELSE canonica[k]
        BY <2>1
      <4>3. Mantida(a, k) => Mantida(c, k)'
        BY <2>2
      <4>4. Julga(a, x) = "valid" /\ k = x.chave => Mantida(c, k)'
        <5> SUFFICES ASSUME Julga(a, x) = "valid", k = x.chave PROVE Mantida(c, k)'
          OBVIOUS
        <5> QED BY <2>2 DEF Mantida
      <4> HIDE DEF x, l
      <4> QED BY <2>0, <3>1, <4>1, <4>2, <4>3, <4>4, LinhaEspelhada DEF x, l
    <3>4. ASSUME NEW m \in 1..Total(c), c.situacao[m] = "valid"
          PROVE  m \in Aceitas(c, Linha(c, m).chave)
      <4>1. CASE m = l
        <5>1. /\ x.valor # Ruim /\ Resolvida(a, x) /\ Promovivel(a, x)
          BY <1>3, <3>4, <4>1, JulgaValida
        <5> QED BY <1>3, <2>0, <4>1, <5>1 DEF Aceitas, Resolvida, Promovivel
      <4>2. CASE m # l
        <5>1. m \in Aceitas(a, Linha(a, m).chave)
          BY <1>3, <3>2, <3>4, <4>2 DEF Espelhadas
        <5> QED BY <1>3, <5>1 DEF Aceitas
      <4> QED BY <4>1, <4>2
    <3> QED BY <3>3, <3>4 DEF Espelhadas, Total, Linha, Aceitas
  <2> QED BY <2>2, <2>3
<1> QED BY <1>2, <1>4 DEF EmDia

(* A run that is not at work is asked nothing.                             *)
LEMMA ParadoEmDia ==
    ASSUME NEW j, corridas'[j].membro # "em_execucao"
    PROVE  EmDia(corridas[j])'
BY DEF EmDia

LEMMA NovaEmDia ==
    ASSUME IInv, Next, SemReplay', NEW j \in Ids'
    PROVE  EmDia(corridas[j])'
<1>0. /\ TipoPromocao /\ UmaPorVez /\ SemReplay
      /\ \A i \in Ids : EmDia(corridas[i])
  BY ReplayConta DEF IInv
<1>10. UNCHANGED fonte
  BY DEF Next, Publica, Configura, Cadastra, Sincroniza, Encena, ProximaLinha, Conclui,
         Finaliza, Queda, Refaz, Reprocessa
<1>1. ASSUME UNCHANGED canonica, j \in Ids, UNCHANGED corridas[j]
      PROVE  EmDia(corridas[j])'
  <2>1. PICK c : c = corridas[j]
    OBVIOUS
  <2>2. EmDia(c) /\ corridas'[j] = c
    BY <1>0, <1>1, <2>1
  <2>3. EmDia(c)'
    BY <1>1, <1>10, <2>2, EmDiaFixo
  <2> QED BY <2>2, <2>3, EmDiaDe
<1>2. CASE Publica \/ Configura \/ Cadastra
  <2>1. UNCHANGED canonica /\ UNCHANGED corridas
    BY <1>2 DEF Publica, Configura, Cadastra
  <2>2. j \in Ids
    BY <2>1 DEF Ids
  <2> QED BY <1>1, <2>1, <2>2
<1>3. CASE Sincroniza
  <2>1. PICK c : /\ BemFeita(c) /\ corridas' = Append(corridas, c)
                 /\ c.membro \in {"fila", "skipped"}
    BY <1>0, <1>3, SincronizaCorrida
  <2>2. /\ Ids' = Ids \cup {Len(corridas) + 1} /\ corridas'[Len(corridas) + 1] = c
        /\ \A n \in Ids : corridas'[n] = corridas[n]
    BY <1>0, <2>1, AnexaCorrida
  <2>3. CASE j \in Ids
    BY <1>1, <1>3, <2>2, <2>3 DEF Sincroniza
  <2>4. CASE j = Len(corridas) + 1
    BY <2>1, <2>2, <2>4, ParadoEmDia
  <2> QED BY <2>2, <2>3, <2>4
<1>4. ASSUME NEW i \in Ids, NEW c, BemFeita(c), Muda(i, c), j # i,
             corridas[i].membro \in {"fila", "em_execucao"}
      PROVE  EmDia(corridas[j])'
  <2>1. j \in Ids /\ corridas'[j] = corridas[j]
    BY <1>0, <1>4, MudaCorrida
  <2>2. corridas[j].membro # "em_execucao"
    BY <1>0, <1>4, <2>1, Unica
  <2> QED BY <2>1, <2>2, ParadoEmDia
<1>5. ASSUME NEW i \in Ids, Encena(i)
      PROVE  EmDia(corridas[j])'
  <2>1. PICK c : /\ BemFeita(c) /\ Muda(i, c) /\ c.feitas = 0
                 /\ c.versao = corridas[i].versao
                 /\ c.vistos = [k \in Chaves |-> Vazio]
                 /\ c.situacao = [l \in 1..Total(corridas[i]) |-> "pendente"]
    BY <1>0, <1>5, EncenaCorrida
  <2>2. c.situacao = [l \in 1..Total(c) |-> "pendente"]
    BY <2>1 DEF Total
  <2>3. EmDia(c)'
    BY <2>1, <2>2, EncenadaEmDia
  <2>4. corridas'[i] = c
    BY <1>0, <2>1, MudaCorrida
  <2>5. corridas[i].membro = "fila"
    BY <1>5 DEF Encena
  <2> QED BY <1>4, <2>1, <2>3, <2>4, <2>5, EmDiaDe
<1>6. ASSUME NEW i \in Ids, ProximaLinha(i)
      PROVE  EmDia(corridas[j])'
  <2>1. PICK a : a = corridas[i]
    OBVIOUS
  <2>2. /\ a.feitas + 1 \in 1..Total(a) /\ a.membro = "em_execucao"
        /\ Arquivos[a.versao].cabecalho /\ BemFeita(a) /\ EmDia(a)
    BY <1>0, <1>6, <2>1, ProximaLinhaCorrida, CorridasTipo
  <2>3. PICK c : Muda(i, c) /\ Avancada(a, c)
    BY <1>0, <1>6, <2>1, <2>2, ProximaLinhaCorrida DEF Avancada
  <2>4. LET x == Linha(a, a.feitas + 1)
        IN \A k \in Chaves :
             canonica'[k] = IF Julga(a, x) = "valid" /\ a.promove /\ k = x.chave
                            THEN x.valor ELSE canonica[k]
    BY <1>0, <1>6, <2>1, ProximaLinhaTabela
  <2>5. EmDia(c)'
    BY <1>10, <2>2, <2>3, <2>4, LinhaEmDia
  <2>6. corridas'[i] = c /\ BemFeita(c)
    BY <1>0, <2>3, MudaCorrida DEF Avancada
  <2> QED BY <1>4, <2>1, <2>2, <2>3, <2>5, <2>6, EmDiaDe
<1>7. ASSUME NEW i \in Ids, Conclui(i)
      PROVE  EmDia(corridas[j])'
  <2>1. PICK c : BemFeita(c) /\ Muda(i, c) /\ c.membro = Veredito(corridas[i])
    BY <1>0, <1>7, ConcluiCorrida
  <2>2. corridas[i].membro = "em_execucao"
    BY <1>0, <1>7, ConcluiCorrida
  <2>3. corridas'[i].membro # "em_execucao"
    BY <1>0, <2>1, MudaCorrida DEF Veredito
  <2> QED BY <1>4, <2>1, <2>2, <2>3, ParadoEmDia
<1>8. ASSUME NEW i \in Ids, Queda(i)
      PROVE  EmDia(corridas[j])'
  <2>1. PICK s \in {"fila", "falha"} : Muda(i, [corridas[i] EXCEPT !.membro = s])
    BY <1>8 DEF Queda
  <2>2. s \in StatusMembro
    BY DEF StatusMembro
  <2>3. PICK c : BemFeita(c) /\ Muda(i, c) /\ c.membro = s
    BY <1>0, <2>1, <2>2, MembroCorrida
  <2>4. corridas[i].membro = "em_execucao"
    BY <1>8 DEF Queda
  <2>5. corridas'[i].membro # "em_execucao"
    BY <1>0, <2>3, MudaCorrida
  <2> QED BY <1>4, <2>3, <2>4, <2>5, ParadoEmDia
<1>9. ASSUME NEW i \in Ids, Finaliza(i)
      PROVE  EmDia(corridas[j])'
  <2>1. PICK c : BemFeita(c) /\ Muda(i, c) /\ c.membro = corridas[i].membro
    BY <1>0, <1>9, FinalizaCorrida
  <2>2. corridas[i].membro \in Encerrado
    BY <1>0, <1>9, FinalizaCorrida
  <2>3. /\ Ids' = Ids /\ corridas'[i] = c
        /\ \A n \in Ids : n # i => corridas'[n] = corridas[n]
    BY <1>0, <2>1, MudaCorrida
  <2>4. CASE j = i
    BY <2>1, <2>2, <2>3, <2>4, ParadoEmDia DEF Encerrado
  <2>5. CASE j # i
    BY <1>1, <1>9, <2>3, <2>5 DEF Finaliza
  <2> QED BY <2>4, <2>5
<1> QED BY <1>0, <1>2, <1>3, <1>5, <1>6, <1>7, <1>8, <1>9, ReplayConta DEF Next

-----------------------------------------------------------------------------
(* A success leaves every line of its file in the table or in quarantine.  *)
LEMMA SucessoConta ==
    ASSUME IInv, SemReplay, NEW i \in Ids, Conclui(i), NEW a, a = corridas[i],
           a.promove, Arquivos[a.versao].cabecalho, NEW l \in 1..Total(a)
    PROVE  IF Linha(a, l).valor = Ruim THEN l \in a.quarentena
           ELSE \/ canonica'[Linha(a, l).chave] # Vazio
                \/ \E m \in a.quarentena : Linha(a, m).chave = Linha(a, l).chave
<1> DEFINE k == Linha(a, l).chave
<1>1. TipoPromocao /\ EmDia(a) /\ BemFeita(a)
  BY CorridasTipo DEF IInv
<1>2. a.membro = "em_execucao" /\ a.feitas = Total(a)
  BY <1>1, ConcluiCorrida
<1>3. Julgadas(a) /\ Promovidas(a)
  BY <1>1, <1>2 DEF EmDia
<1>4. k \in Chaves /\ \A m \in 1..Total(a) : Linha(a, m).valor # Vazio
  BY <1>1, CorridaTipo
<1>5. CASE Linha(a, l).valor = Ruim
  BY <1>2, <1>3, <1>5 DEF Julgadas
<1>6. CASE Linha(a, l).valor # Ruim
  <2>1. PICK m \in 1..Total(a) : /\ Linha(a, m).chave = k
                                 /\ a.situacao[m] = "valid" \/ m \in a.quarentena
    BY <1>2, <1>3, <1>6 DEF Julgadas, Contada
  <2>2. CASE a.situacao[m] = "valid"
    <3>1. Mantida(a, k)
      BY <1>3, <2>1, <2>2 DEF Promovidas
    <3>2. canonica'[k] = canonica[k]
      BY <1>1, <1>4, <3>1, ConcluiTabela
    <3>3. canonica[k] # Vazio
      BY <1>4, <3>1 DEF Mantida
    <3> QED BY <1>6, <3>2, <3>3
  <2> QED BY <1>6, <2>1, <2>2
<1> QED BY <1>5, <1>6

LEMMA NovaLinhasContadas ==
    ASSUME IInv, Next, TipoPromocao', UmaPorVez'
    PROVE  LinhasContadas'
<1> SUFFICES ASSUME SemReplay' PROVE NenhumaLinhaSome'
  BY DEF LinhasContadas
<1>0. TipoPromocao /\ UmaPorVez /\ SemReplay /\ NenhumaLinhaSome
  BY ReplayConta DEF IInv, LinhasContadas
<1>1. CASE Publica \/ Configura \/ Cadastra
  <2>1. UNCHANGED <<corridas, canonica>>
    BY <1>1 DEF Publica, Configura, Cadastra
  <2> QED BY <1>0, <2>1 DEF NenhumaLinhaSome, Ids
<1>2. CASE Sincroniza
  <2>1. PICK c : /\ BemFeita(c) /\ corridas' = Append(corridas, c)
                 /\ c.membro \in {"fila", "skipped"}
    BY <1>0, <1>2, SincronizaCorrida
  <2>2. corridas'[Len(corridas')].membro # "sucesso"
    BY <1>0, <2>1, AnexaCorrida
  <2> QED BY <2>2 DEF NenhumaLinhaSome
<1>3. ASSUME NEW i \in Ids, NEW c, BemFeita(c), Muda(i, c), c.membro # "sucesso",
             i = Len(corridas)
      PROVE  NenhumaLinhaSome'
  <2>1. corridas'[Len(corridas')].membro # "sucesso"
    BY <1>0, <1>3, MudaCorrida
  <2> QED BY <2>1 DEF NenhumaLinhaSome
<1>4. ASSUME NEW i \in Ids, Encena(i)
      PROVE  NenhumaLinhaSome'
  <2>1. PICK c : BemFeita(c) /\ Muda(i, c) /\ c.membro = "em_execucao"
    BY <1>0, <1>4, EncenaCorrida
  <2>2. i = Len(corridas)
    BY <1>0, <1>4, Unica DEF Encena
  <2> QED BY <1>3, <2>1, <2>2
<1>5. ASSUME NEW i \in Ids, ProximaLinha(i)
      PROVE  NenhumaLinhaSome'
  <2>1. corridas[i].membro = "em_execucao"
    BY <1>0, <1>5, ProximaLinhaCorrida
  <2>2. PICK c : BemFeita(c) /\ Muda(i, c) /\ c.membro = corridas[i].membro
    BY <1>0, <1>5, ProximaLinhaCorrida
  <2>3. i = Len(corridas)
    BY <1>0, <2>1, Unica
  <2> QED BY <1>3, <2>1, <2>2, <2>3
<1>6. ASSUME NEW i \in Ids, Queda(i)
      PROVE  NenhumaLinhaSome'
  <2>1. PICK s \in {"fila", "falha"} : Muda(i, [corridas[i] EXCEPT !.membro = s])
    BY <1>6 DEF Queda
  <2>2. s \in StatusMembro
    BY DEF StatusMembro
  <2>3. PICK c : BemFeita(c) /\ Muda(i, c) /\ c.membro = s
    BY <1>0, <2>1, <2>2, MembroCorrida
  <2>4. i = Len(corridas)
    BY <1>0, <1>6, Unica DEF Queda
  <2> QED BY <1>3, <2>1, <2>3, <2>4
<1>7. ASSUME NEW i \in Ids, Conclui(i)
      PROVE  NenhumaLinhaSome'
  <2>1. PICK a : a = corridas[i]
    OBVIOUS
  <2>2. a.membro = "em_execucao"
    BY <1>0, <1>7, <2>1, ConcluiCorrida
  <2>3. PICK c : /\ BemFeita(c) /\ Muda(i, c) /\ c.versao = a.versao
                 /\ c.promove = a.promove /\ c.quarentena = QuarentenaFinal(a)
    BY <1>0, <1>7, <2>1, ConcluiCorrida
  <2>4. i = Len(corridas)
    BY <1>0, <2>1, <2>2, Unica
  <2>5. corridas'[Len(corridas')] = c
    BY <1>0, <2>3, <2>4, MudaCorrida
  <2>6. ASSUME c.promove, Arquivos[c.versao].cabecalho, NEW l \in 1..Total(c)
        PROVE  IF Linha(c, l).valor = Ruim THEN l \in c.quarentena
               ELSE \/ canonica'[Linha(c, l).chave] # Vazio
                    \/ \E m \in c.quarentena : Linha(c, m).chave = Linha(c, l).chave
    <3>1. Total(c) = Total(a) /\ \A m : Linha(c, m) = Linha(a, m)
      BY <2>3 DEF Total, Linha
    <3>2. c.quarentena = a.quarentena
      BY <2>3, <2>6 DEF QuarentenaFinal
    <3>3. a.promove /\ Arquivos[a.versao].cabecalho /\ l \in 1..Total(a)
      BY <2>3, <2>6, <3>1
    <3>4. IF Linha(a, l).valor = Ruim THEN l \in a.quarentena
          ELSE \/ canonica'[Linha(a, l).chave] # Vazio
               \/ \E m \in a.quarentena : Linha(a, m).chave = Linha(a, l).chave
      BY <1>0, <1>7, <2>1, <3>3, SucessoConta
    <3> QED BY <3>1, <3>2, <3>4
  <2> QED BY <2>5, <2>6 DEF NenhumaLinhaSome, Total, Linha
<1>8. ASSUME NEW i \in Ids, Finaliza(i)
      PROVE  NenhumaLinhaSome'
  <2>1. PICK c : /\ BemFeita(c) /\ Muda(i, c) /\ c.membro = corridas[i].membro
                 /\ c.versao = corridas[i].versao /\ c.promove = corridas[i].promove
                 /\ c.quarentena = corridas[i].quarentena
    BY <1>0, <1>8, FinalizaCorrida
  <2>2. /\ Ids' = Ids /\ Len(corridas') = Len(corridas) /\ corridas'[i] = c
        /\ \A n \in Ids : n # i => corridas'[n] = corridas[n]
    BY <1>0, <2>1, MudaCorrida
  <2>3. /\ UNCHANGED canonica
        /\ \A n \in Ids : /\ corridas'[n].membro = corridas[n].membro
                          /\ corridas'[n].versao = corridas[n].versao
                          /\ corridas'[n].promove = corridas[n].promove
                          /\ corridas'[n].quarentena = corridas[n].quarentena
    BY <1>8, <2>1, <2>2 DEF Finaliza
  <2>4. PICK p, q : p = corridas[Len(corridas)] /\ q = corridas'[Len(corridas')]
    OBVIOUS
  <2>5. /\ corridas # <<>> /\ Len(corridas) \in Ids
        /\ p.membro = q.membro /\ p.versao = q.versao /\ p.promove = q.promove
        /\ p.quarentena = q.quarentena
    <3>1. corridas # <<>> /\ Len(corridas) \in Ids
      BY <1>0, CorridasTipo DEF Ids
    <3> QED BY <2>2, <2>3, <2>4, <3>1
  <2>6. Total(p) = Total(q) /\ \A m : Linha(p, m) = Linha(q, m)
    BY <2>5 DEF Total, Linha
  <2>7. ASSUME \A n \in Ids : corridas[n].membro \in Encerrado,
               p.membro = "sucesso", p.promove, Arquivos[p.versao].cabecalho,
               NEW l \in 1..Total(p)
        PROVE  LET x == Linha(p, l)
               IN IF x.valor = Ruim THEN l \in p.quarentena
                  ELSE \/ canonica[x.chave] # Vazio
                       \/ \E m \in p.quarentena : Linha(p, m).chave = x.chave
    BY <1>0, <2>4, <2>5, <2>7 DEF NenhumaLinhaSome
  <2>8. ASSUME \A n \in Ids' : corridas'[n].membro \in Encerrado,
               q.membro = "sucesso", q.promove, Arquivos[q.versao].cabecalho,
               NEW l \in 1..Total(q)
        PROVE  IF Linha(q, l).valor = Ruim THEN l \in q.quarentena
               ELSE \/ canonica'[Linha(q, l).chave] # Vazio
                    \/ \E m \in q.quarentena : Linha(q, m).chave = Linha(q, l).chave
    BY <2>2, <2>3, <2>5, <2>6, <2>7, <2>8
  <2>9. corridas'[Len(corridas')] = q
    BY <2>4
  <2> HIDE <2>4
  <2> QED BY <2>8, <2>9 DEF NenhumaLinhaSome, Total, Linha
<1> QED BY <1>0, <1>1, <1>2, <1>4, <1>5, <1>6, <1>7, <1>8, ReplayConta DEF Next

LEMMA PassoIInv == IInv /\ [Next]_vars => IInv'
<1>1. ASSUME IInv, Next PROVE IInv'
  <2>1. TipoPromocao' /\ UmaPorVez'
    BY <1>1, PassoTipo, NovaUmaPorVez DEF IInv
  <2>2. LinhasContadas'
    BY <1>1, <2>1, NovaLinhasContadas
  <2>3. SemReplay' => \A j \in Ids' : EmDia(corridas[j])'
    BY <1>1, NovaEmDia
  <2> QED BY <2>1, <2>2, <2>3 DEF IInv
<1>2. ASSUME IInv, UNCHANGED vars PROVE IInv'
  <2>1. UNCHANGED fonte /\ UNCHANGED corridas /\ UNCHANGED canonica /\ UNCHANGED gasto
    BY <1>2 DEF vars
  <2>2. TipoPromocao' /\ UmaPorVez' /\ LinhasContadas'
    <3>1. TipoPromocao'
      BY <1>2, PassoTipo DEF IInv
    <3>2. UmaPorVez'
      BY <1>2, <2>1 DEF IInv, UmaPorVez, SemReplay, Ids
    <3>3. LinhasContadas'
      BY <1>2, <2>1 DEF IInv, LinhasContadas, NenhumaLinhaSome, SemReplay, Ids
    <3> QED BY <3>1, <3>2, <3>3
  <2>3. ASSUME SemReplay', NEW j \in Ids'
        PROVE  EmDia(corridas[j])'
    <3>1. PICK c : c = corridas[j]
      OBVIOUS
    <3>2. EmDia(c) /\ corridas'[j] = c
      BY <1>2, <2>1, <2>3, <3>1 DEF IInv, SemReplay, Ids
    <3>3. EmDia(c)'
      BY <2>1, <3>2, EmDiaFixo
    <3> QED BY <3>2, <3>3, EmDiaDe
  <2> QED BY <2>2, <2>3 DEF IInv
<1> QED BY <1>1, <1>2

LEMMA InicioIInv == Init => IInv
<1> SUFFICES ASSUME Init PROVE IInv
  OBVIOUS
<1>1. corridas = <<>> /\ Ids = {}
  BY DEF Init, Ids
<1>2. TipoPromocao
  BY InicioTipo
<1> QED BY <1>1, <1>2 DEF IInv, UmaPorVez, LinhasContadas, NenhumaLinhaSome

(* The invariant the theorems below rest on.                               *)
THEOREM IndutivoPromocao == Spec => []IInv
BY InicioIInv, PassoIInv, PTL DEF Spec

(* When nothing is at work, each line of the file of the newest import, if *)
(* it succeeded, is in the table or in quarantine.                         *)
THEOREM NadaSePerde == Spec => []LinhasContadas
<1>1. IInv => LinhasContadas
  BY DEF IInv
<1> QED BY <1>1, IndutivoPromocao, PTL

(* No import brings back a value of an earlier file.                       *)
THEOREM ValoresNovos == Spec => SemRegresso
<1>1. IInv /\ [Next]_vars
      => [SemReplay' =>
            \A k \in Chaves :
               canonica'[k] \notin {canonica[k], Vazio} =>
                  LET c == corridas[Len(corridas)]
                  IN \E l \in 1..Total(c) : Linha(c, l) = [chave |-> k,
                                                           valor |-> canonica'[k]]]_vars
  BY PassoRegresso DEF IInv
<1> QED BY <1>1, IndutivoPromocao, PTL DEF Spec, SemRegresso

-----------------------------------------------------------------------------
(* The value that the last of a set of lines gives.                        *)
LEMMA EsperadoUltima ==
    ASSUME NEW c, NEW k, Boas(c, k) \in SUBSET Nat, NEW x, Ultima(c, Boas(c, k), x)
    PROVE  Esperado(c, k) = x
<1> DEFINE S == Boas(c, k)
           u == CHOOSE l \in S : \A m \in S : m <= l
<1>1. PICK l \in S : Linha(c, l).valor = x /\ \A m \in S : m <= l
  BY DEF Ultima
<1>2. u \in S /\ \A m \in S : m <= u
  BY <1>1
<1> HIDE DEF u
<1>3. u = l
  <2>1. u \in Nat /\ l \in Nat /\ u <= l /\ l <= u
    BY <1>1, <1>2
  <2> QED BY <2>1
<1>4. Esperado(c, k) = IF S = {} THEN Vazio ELSE Linha(c, u).valor
  BY DEF Esperado, u
<1> QED BY <1>1, <1>3, <1>4

(* Reconcile is left out of a success with promotion only in the sources   *)
(* that ask for an earlier snapshot, or for a good line.                   *)
LEMMA SoPedemAnterior ==
    ASSUME TipoPromocao, NEW c, BemFeita(c), c.promove, Arquivos[c.versao].cabecalho,
           Total(c) # 0, ~Reconcilia(c), Promovidas(c),
           \A k \in Chaves : Boas(c, k) # {} => Mantida(c, k)
    PROVE  SemReconcile(c)
<1>0. Total(c) \in Nat /\ Total(c) > 0
  BY CorridaTipo
<1>1. fonte \in {"dfp", "itr", "fre", "fca", "ipe", "vlmo", "cgvn"}
  BY ConstantesPromocao DEF TipoPromocao
<1>2. CASE fonte = "fre"
  BY <1>0, <1>2 DEF Reconcilia, ReconciliaFre, SemReconcile, PedemAnterior
<1>3. CASE fonte = "fca"
  BY <1>0, <1>3 DEF Reconcilia, ReconciliaFca
<1>4. CASE fonte = "ipe"
  BY <1>4 DEF Reconcilia, ReconciliaIpe
<1>5. CASE fonte = "vlmo"
  BY <1>5 DEF Reconcilia, ReconciliaVlmo
<1>6. CASE fonte = "cgvn"
  BY <1>6 DEF Reconcilia, ReconciliaCgvn
<1>7. CASE fonte \in {"dfp", "itr"}
  <2>1. ~ReconciliaFinanceiro(c)
    BY <1>7 DEF Reconcilia
  <2>2. CASE ~legado
    BY <1>7, <2>2 DEF SemReconcile, PedemAnterior
  <2>3. CASE legado
    <3>1. \A l \in 1..Total(c) : c.situacao[l] # "valid"
      BY <2>1, <2>3 DEF ReconciliaFinanceiro
    <3>2. \A k \in Chaves : Boas(c, k) = {}
      BY <3>1 DEF Mantida
    <3> QED BY <1>7, <3>2 DEF SemReconcile, PedemAnterior
  <2> QED BY <2>2, <2>3
<1> QED BY <1>1, <1>2, <1>3, <1>4, <1>5, <1>6, <1>7

(* What a success leaves of a key.                                         *)
LEMMA PassoEspelho ==
    ASSUME IInv, Next, SemReplay', NEW i \in Ids, Sucede(i), NEW a, a = corridas[i],
           a.promove, Arquivos[a.versao].cabecalho, ZeroPorUltimo(a), NEW k \in Chaves
    PROVE  canonica'[k] = Esperado(a, k) \/ (Boas(a, k) = {} /\ SemReconcile(a))
<1>1. TipoPromocao /\ SemReplay /\ EmDia(a) /\ BemFeita(a)
  BY ReplayConta, CorridasTipo DEF IInv
<1>2. Conclui(i)
  BY <1>1, ReplayConta, SucedeConclui
<1>3. a.membro = "em_execucao" /\ a.feitas = Total(a)
  BY <1>1, <1>2, ConcluiCorrida
<1>4. Promovidas(a) /\ Espelhadas(a)
  BY <1>1, <1>3 DEF EmDia
<1>5. Total(a) # 0
  <2>1. PICK c : BemFeita(c) /\ Muda(i, c) /\ c.membro = Veredito(a)
    BY <1>1, <1>2, ConcluiCorrida
  <2>2. Veredito(a) = "sucesso"
    BY <1>1, <2>1, MudaCorrida DEF Sucede
  <2> QED BY <2>2 DEF Veredito
<1>6. ASSUME NEW x \in Chaves
      PROVE  /\ Boas(a, x) \in SUBSET Nat
             /\ Boas(a, x) # {} => Ultima(a, Boas(a, x), canonica[x]) /\ Mantida(a, x)
             /\ Boas(a, x) = {} => ~Mantida(a, x)
  <2>0. Total(a) \in Nat
    BY <1>1, CorridaTipo
  <2>1. Aceitas(a, x) \subseteq 1..Total(a)
    BY DEF Aceitas
  <2>2. BoasAte(a, x) = Boas(a, x)
    <3>1. Aceitas(a, x) \cap 1..a.feitas = Aceitas(a, x)
      BY <1>3, <2>1
    <3> QED BY <3>1 DEF BoasAte, Boas
  <2>3. Aceitas(a, x) \in SUBSET Nat
    BY <2>0, <2>1
  <2>4. /\ Boas(a, x) \subseteq Aceitas(a, x)
        /\ Boas(a, x) = {} => Aceitas(a, x) = {}
    BY NulasParte DEF Boas
  <2>5. Boas(a, x) # {} => Ultima(a, Boas(a, x), canonica[x]) /\ Mantida(a, x)
    BY <1>4, <2>2 DEF Espelhadas, Espelhada
  <2>6. Boas(a, x) = {} => ~Mantida(a, x)
    BY <1>4, <2>4 DEF Espelhadas, Mantida
  <2> QED BY <2>3, <2>4, <2>5, <2>6
<1>7. CASE Boas(a, k) # {}
  <2>1. canonica'[k] = canonica[k]
    BY <1>1, <1>2, <1>6, <1>7, ConcluiTabela
  <2> QED BY <1>6, <1>7, <2>1, EsperadoUltima
<1>8. CASE Boas(a, k) = {} /\ Reconcilia(a)
  <2>1. canonica'[k] = Vazio
    BY <1>1, <1>2, <1>6, <1>8, ConcluiTabela
  <2> QED BY <1>8, <2>1 DEF Esperado
<1>9. CASE Boas(a, k) = {} /\ ~Reconcilia(a)
  BY <1>1, <1>4, <1>5, <1>6, <1>9, SoPedemAnterior
<1> QED BY <1>7, <1>8, <1>9

(* Without replays, a run of the member that ends in success leaves the    *)
(* table a mirror of its file, whatever was promoted by the runs that were *)
(* lost or failed before.                                                  *)
THEOREM TabelaEspelhada == Spec => Espelho
<1>1. IInv /\ [Next]_vars
      => [\A i \in Ids :
            LET c == corridas[i]
            IN (/\ Sucede(i)
                /\ c.promove
                /\ Arquivos[c.versao].cabecalho
                /\ ZeroPorUltimo(c)
                /\ SemReplay')
               => \A k \in Chaves : \/ canonica'[k] = Esperado(c, k)
                                    \/ Boas(c, k) = {} /\ SemReconcile(c)]_vars
  BY PassoEspelho
<1> QED BY <1>1, IndutivoPromocao, PTL DEF Spec, Espelho
=============================================================================
