-------------------------- MODULE Fidelidade_proofs --------------------------
(***************************************************************************)
(* The proof that the series of Revisoes is faithful, for every value of   *)
(* its constants: once the work is done, every date is answered as if it   *)
(* were computed then and there.                                           *)
(***************************************************************************)
EXTENDS Revisoes_proofs

-----------------------------------------------------------------------------
(* What was known at a date.                                               *)

(* Of documents received there is a last version.                          *)
LEMMA UltimaPertence ==
    ASSUME NEW D \in SUBSET Documentos, D # {}
    PROVE  Ultima(D) \in D
<1> DEFINE T == {MaiorVersao - d.versao : d \in D}
<1>1. \A d \in D : d.versao \in Nat /\ MaiorVersao - d.versao \in Nat
  BY ConstantesRevisoes
<1>2. T \in SUBSET Nat /\ T # {}
  BY <1>1
<1> HIDE DEF T
<1>3. Menor(T) \in T /\ \A n \in T : Menor(T) <= n
  BY <1>2, MenorPertence
<1>4. PICK d \in D : Menor(T) = MaiorVersao - d.versao
  BY <1>3 DEF T
<1>5. \A e \in D : MaiorVersao - d.versao <= MaiorVersao - e.versao
  BY <1>3, <1>4 DEF T
<1>6. \A e \in D : e.versao <= d.versao
  BY <1>1, <1>5, ConstantesRevisoes
<1> QED BY <1>6 DEF Ultima

(* What counts of a period with statements was received for that period.   *)
LEMMA VigentePertence ==
    ASSUME NEW p, NEW t, NEW f \in Recebidos(t), f.periodo = p
    PROVE  Vigente(p, t) \in Recebidos(t) /\ Vigente(p, t).periodo = p
<1> DEFINE D == {d \in Recebidos(t) : d.periodo = p}
<1>1. D \in SUBSET Documentos /\ D # {}
  BY DEF Recebidos, Ingeridos
<1> HIDE DEF D
<1>2. Ultima(D) \in D
  BY <1>1, UltimaPertence
<1> QED BY <1>2 DEF D, Vigente

(* Two dates with the same documents have the same snapshot.               *)
LEMMA MesmoInstantaneo ==
    ASSUME NEW t, NEW u, Recebidos(t) = Recebidos(u)
    PROVE  Instantaneo(t) = Instantaneo(u)
<1>1. \A p : Vigente(p, t) = Vigente(p, u)
  BY DEF Vigente
<1>2. ComDados(t) = ComDados(u)
  BY <1>1 DEF ComDados
<1>3. Contextual(t) = Contextual(u)
  BY <1>1, <1>2 DEF Contextual
<1>4. \A p : Observado(p, t) = Observado(p, u)
  BY <1>1, <1>2 DEF Observado
<1> QED BY <1>2, <1>3, <1>4 DEF Instantaneo

(* A step after which the same documents count has the same snapshot.      *)
LEMMA InstantaneoMantem ==
    ASSUME NEW t,
           \A p \in Periodos : p \in ComDados(t)' <=> p \in ComDados(t),
           \A p \in ComDados(t) :
              /\ Vigente(p, t)' = Vigente(p, t)
              /\ documentos'[Vigente(p, t)].valor = documentos[Vigente(p, t)].valor
    PROVE  ComDados(t)' = ComDados(t) /\ Instantaneo(t)' = Instantaneo(t)
<1>1. ComDados(t)' = ComDados(t)
  BY DEF ComDados
<1>2. Contextual(t)' = Contextual(t)
  BY <1>1 DEF Contextual
<1>3. \A p : Observado(p, t)' = Observado(p, t)
  BY <1>1 DEF Observado
<1>4. Instantaneo(t)' = Instantaneo(t)
  BY <1>1, <1>2, <1>3 DEF Instantaneo
<1> QED BY <1>1, <1>4

(* A step that leaves the documents alone.                                 *)
LEMMA DocumentosMantem ==
    ASSUME UNCHANGED documentos
    PROVE  /\ \A t : ComDados(t)' = ComDados(t) /\ Instantaneo(t)' = Instantaneo(t)
           /\ \A g : TemDados(g)' = TemDados(g) /\ Invalidada(g)' = Invalidada(g)
           /\ \A R, t : Correta(R, t)' = Correta(R, t)
<1>1. Ingeridos' = Ingeridos
  BY DEF Ingeridos
<1>2. \A t : Recebidos(t)' = Recebidos(t)
  BY <1>1 DEF Recebidos
<1>3. \A p, t : Vigente(p, t)' = Vigente(p, t)
  BY <1>2 DEF Vigente
<1>4. \A t : ComDados(t)' = ComDados(t)
  BY <1>2, <1>3 DEF ComDados
<1>5. \A t : ComDados(t)' = ComDados(t) /\ Instantaneo(t)' = Instantaneo(t)
  BY <1>3, <1>4, InstantaneoMantem
<1>6. \A g : TemDados(g)' = TemDados(g)
  BY <1>1 DEF TemDados
<1>7. \A g : Invalidada(g)' = Invalidada(g)
  BY <1>1 DEF Invalidada, DatasDe
<1>8. \A R, t : Correta(R, t)' = Correta(R, t)
  BY <1>5 DEF Correta
<1> QED BY <1>5, <1>6, <1>7, <1>8

-----------------------------------------------------------------------------
(* Order, and who owes a date.                                             *)

LEMMA SomaNula ==
    ASSUME NEW a \in Nat, NEW b \in Nat, NEW c \in Nat, NEW d \in Nat
    PROVE  a + b + c + d = 0 <=> a = 0 /\ b = 0 /\ c = 0 /\ d = 0
OBVIOUS

LEMMA GastoTipo ==
    ASSUME gasto \in [Eventos -> Nat]
    PROVE  /\ gasto["atrasos"] \in Nat /\ gasto["avulsas"] \in Nat
           /\ gasto["dobras"] \in Nat /\ gasto["correcoes"] \in Nat
           /\ EmOrdem <=> /\ gasto["atrasos"] = 0 /\ gasto["avulsas"] = 0
                          /\ gasto["dobras"] = 0 /\ gasto["correcoes"] = 0
<1>1. /\ gasto["atrasos"] \in Nat /\ gasto["avulsas"] \in Nat
      /\ gasto["dobras"] \in Nat /\ gasto["correcoes"] \in Nat
  BY DEF Eventos
<1>2. PICK a \in Nat, b \in Nat, c \in Nat, d \in Nat :
         /\ a = gasto["atrasos"] /\ b = gasto["avulsas"]
         /\ c = gasto["dobras"] /\ d = gasto["correcoes"]
  BY <1>1
<1>3. EmOrdem <=> a + b + c + d = 0
  BY <1>2 DEF EmOrdem
<1>4. a + b + c + d = 0 <=> a = 0 /\ b = 0 /\ c = 0 /\ d = 0
  BY SomaNula
<1> QED BY <1>1, <1>2, <1>3, <1>4

(* Order is lost with the first event that disturbs it, and for good.      *)
LEMMA UsaOrdem ==
    ASSUME gasto \in [Eventos -> Nat], NEW x \in Eventos, NEW max, Usa(x, max), EmOrdem'
    PROVE  EmOrdem /\ x \notin {"atrasos", "avulsas", "dobras", "correcoes"}
<1>1. gasto' = [gasto EXCEPT ![x] = @ + 1] /\ gasto[x] \in Nat
  BY DEF Usa
<1>2. gasto' \in [Eventos -> Nat]
  BY <1>1
<1>3. {"atrasos", "avulsas", "dobras", "correcoes"} \subseteq Eventos
  BY DEF Eventos
<1>4. /\ gasto'["atrasos"] = 0 /\ gasto'["avulsas"] = 0
      /\ gasto'["dobras"] = 0 /\ gasto'["correcoes"] = 0
  <2>1. PICK a \in Nat, b \in Nat, c \in Nat, d \in Nat :
           /\ a = gasto'["atrasos"] /\ b = gasto'["avulsas"]
           /\ c = gasto'["dobras"] /\ d = gasto'["correcoes"]
    BY <1>2, <1>3
  <2>2. a + b + c + d = 0
    BY <2>1 DEF EmOrdem
  <2>3. a = 0 /\ b = 0 /\ c = 0 /\ d = 0
    BY <2>2, SomaNula
  <2> QED BY <2>1, <2>3
<1>5. \A y \in Eventos : gasto'[y] = IF y = x THEN gasto[x] + 1 ELSE gasto[y]
  BY <1>1
<1>6. x \notin {"atrasos", "avulsas", "dobras", "correcoes"}
  <2>1. gasto'[x] # 0
    BY <1>1, <1>5
  <2> QED BY <1>4, <2>1
<1>7. /\ gasto["atrasos"] = 0 /\ gasto["avulsas"] = 0
      /\ gasto["dobras"] = 0 /\ gasto["correcoes"] = 0
  BY <1>3, <1>4, <1>5, <1>6
<1> QED BY <1>6, <1>7, GastoTipo

(* What kind of thing the items and executions are.                        *)
LEMMA Formas ==
    ASSUME IInv
    PROVE  /\ Len(itens) \in Nat /\ Len(execs) \in Nat
           /\ DOMAIN itens = 1..Len(itens) /\ DOMAIN execs = Ids
           /\ Ids = 1..Len(execs)
           /\ gasto \in [Eventos -> Nat]
           /\ \A i \in 1..Len(itens) : Item0(itens[i]) /\ itens[i].inv \in Nat
           /\ \A e \in Ids : Execucao0(execs[e]) /\ execs[e].item \in 0..Len(itens)
BY LenProperties, DatasOrdenadas DEF IInv, Tipos, Ids, Item0, Execucao0

(* There is at most one active item, and an execution that runs has it.    *)
LEMMA UmAtivo ==
    ASSUME IInv, UmDeCadaVez, NEW i \in Ativos, NEW j \in Ativos
    PROVE  i = j
<1>1. i \in Nat /\ j \in Nat /\ i \in 1..Len(itens) /\ j \in 1..Len(itens)
  BY Formas DEF Ativos
<1>2. itens[i].status # "skipped" /\ itens[j].status # "skipped"
  BY DEF Ativos, Ativo
<1>3. ~(i < j) /\ ~(j < i)
  <2>1. i < j => j \in (i + 1)..Len(itens)
    BY <1>1, Formas
  <2>2. j < i => i \in (j + 1)..Len(itens)
    BY <1>1, Formas
  <2> QED BY <1>2, <2>1, <2>2 DEF UmDeCadaVez
<1> QED BY <1>1, <1>3

LEMMA ItemDaExecucao ==
    ASSUME IInv, UmDeCadaVez, NEW e \in Ids, execs[e].status = "running"
    PROVE  /\ execs[e].item \in 1..Len(itens) /\ execs[e].item \in Ativos
           /\ itens[execs[e].item].status = "running"
           /\ \A i \in Ativos : i = execs[e].item
<1>1. execs[e].item \in 1..Len(itens) /\ itens[execs[e].item].status = "running"
  BY Formas DEF UmDeCadaVez
<1>2. execs[e].item \in Ativos
  BY <1>1 DEF Ativos, Ativo
<1> QED BY <1>1, <1>2, UmAtivo

(* An active item was not made good.                                       *)
LEMMA AtivoDeve ==
    ASSUME IInv, UmDeCadaVez, NEW i \in Ativos
    PROVE  ~Reposto(i)
<1>1. ~itens[i].cobre
  BY DEF UmDeCadaVez
<1>2. ASSUME NEW j \in i..Len(itens) PROVE itens[j].status # "success"
  <2>1. CASE j = i
    BY <2>1 DEF Ativos, Ativo
  <2>2. CASE j # i
    <3>1. j \in (i + 1)..Len(itens)
      BY <2>2, Formas DEF Ativos
    <3> QED BY <3>1 DEF UmDeCadaVez
  <2> QED BY <2>1, <2>2
<1> QED BY <1>1, <1>2 DEF Reposto

(* Items that only change between states without success.                  *)
LEMMA RepostoMantem ==
    ASSUME Len(itens') = Len(itens),
           \A j \in 1..Len(itens) :
              /\ itens'[j].inv = itens[j].inv /\ itens'[j].cobre = itens[j].cobre
              /\ itens'[j].status = "success" =>
                    itens[j].status = "success" /\ itens'[j].desde = itens[j].desde,
           NEW i \in 1..Len(itens), Len(itens) \in Nat, Reposto(i)'
    PROVE  Reposto(i)
<1>1. \A j \in i..Len(itens) : j \in 1..Len(itens)
  OBVIOUS
<1> QED BY <1>1 DEF Reposto

(* An item that is added and is not a success makes nothing good.          *)
LEMMA RepostoAnexa ==
    ASSUME IInv, NEW x, itens' = Append(itens, x), x.status # "success",
           NEW i \in 1..Len(itens)
    PROVE  itens'[i] = itens[i] /\ (Reposto(i)' => Reposto(i))
<1>1. PICK T : itens \in Seq(T)
  BY DEF IInv, Tipos
<1>2. /\ Len(itens') = Len(itens) + 1 /\ Len(itens) \in Nat
      /\ \A j \in 1..Len(itens) : itens'[j] = itens[j]
      /\ itens'[Len(itens) + 1] = x
  BY <1>1, Acrescenta, LenProperties
<1>3. ASSUME NEW j \in i..Len(itens'), itens'[j].status = "success"
      PROVE  j \in i..Len(itens) /\ j \in 1..Len(itens)
  BY <1>2, <1>3
<1> QED BY <1>2, <1>3 DEF Reposto

(* A date stays owed while each of those who owe it still does.            *)
LEMMA DevidaMantem ==
    ASSUME Len(itens) \in Nat, Len(itens') \in Nat, Len(itens) <= Len(itens'),
           \A i \in 1..Len(itens) : itens'[i].inv = itens[i].inv
                                    /\ (Reposto(i)' => Reposto(i)),
           NEW t, NEW n \in Nat, Devida(t, n),
           \A g \in Grupos : DeveGrupo(g, t) => DeveGrupo(g, t)'
    PROVE  Devida(t, n)'
<1>1. CASE \E g \in Grupos : DeveGrupo(g, t)
  BY <1>1 DEF Devida
<1>2. CASE \E i \in (n + 1)..Len(itens) : DeveItem(i, t)
  <2>1. PICK i \in (n + 1)..Len(itens) : DeveItem(i, t)
    BY <1>2
  <2>2. i \in 1..Len(itens) /\ i \in (n + 1)..Len(itens')
    BY <2>1
  <2>3. DeveItem(i, t)'
    BY <2>1, <2>2 DEF DeveItem
  <2> QED BY <2>2, <2>3 DEF Devida
<1> QED BY <1>1, <1>2 DEF Devida

(* The documents and the series stay, and so do debts.                     *)
LEMMA SerieMantem ==
    ASSUME SerieDevida, UNCHANGED <<documentos, revisoes>>,
           \A t \in Datas : Devida(t, 0) => Devida(t, 0)'
    PROVE  SerieDevida'
<1>1. \A t : Correta(revisoes, t)' = Correta(revisoes, t)
  BY DocumentosMantem
<1> QED BY <1>1 DEF SerieDevida

LEMMA ExecucaoMantem ==
    ASSUME NEW x, Computado(x), Bastante(x), UNCHANGED documentos,
           \A t \in Datas : Devida(t, x.item) => Devida(t, x.item)'
    PROVE  Computado(x)' /\ Bastante(x)'
<1>1. /\ \A R, t : Correta(R, t)' = Correta(R, t)
      /\ \A t : Instantaneo(t)' = Instantaneo(t)
  BY DocumentosMantem
<1>2. Computado(x)'
  BY <1>1 DEF Computado
<1>3. Bastante(x)'
  BY <1>1 DEF Bastante
<1> QED BY <1>2, <1>3

(* The executions that still run are those that ran, as they were.         *)
LEMMA ExecucoesMantem ==
    ASSUME IInv, ExecucoesDevidas, UNCHANGED documentos,
           \A e \in Ids' : execs'[e].status = "running" =>
              e \in Ids /\ execs'[e] = execs[e],
           \A t \in Datas, n \in Nat : Devida(t, n) => Devida(t, n)'
    PROVE  ExecucoesDevidas'
<1> SUFFICES ASSUME NEW e \in Ids', execs'[e].status = "running"
             PROVE  (Computado(execs[e]) /\ Bastante(execs[e]))'
  BY DEF ExecucoesDevidas
<1>1. PICK x : x = execs[e]
  OBVIOUS
<1>2. execs'[e] = x /\ Computado(x) /\ Bastante(x) /\ x.item \in Nat
  BY <1>1, Formas DEF ExecucoesDevidas
<1>3. Computado(x)' /\ Bastante(x)'
  BY <1>2, ExecucaoMantem
<1> QED BY <1>2, <1>3

-----------------------------------------------------------------------------
(* The ingestion of a form and year begins, fails or ends: it owes what it *)
(* owed.                                                                   *)
LEMMA IngestaoFiel ==
    ASSUME IInv, UmDeCadaVez, SerieDevida, ExecucoesDevidas, NEW g \in Grupos,
           IngestaoComeca(g) \/ IngestaoFalha(g) \/ IngestaoTermina(g)
    PROVE  UmDeCadaVez' /\ SerieDevida' /\ ExecucoesDevidas'
<1>1. UNCHANGED <<documentos, revisoes, itens, execs>>
  BY DEF IngestaoComeca, IngestaoFalha, IngestaoTermina
<1>2. ASSUME NEW h \in Grupos, NEW t, DeveGrupo(h, t)
      PROVE  DeveGrupo(h, t)'
  <2>1. TemDados(h)' = TemDados(h) /\ Invalidada(h)' = Invalidada(h)
    BY <1>1, DocumentosMantem
  <2>2. (h \in suja \/ ingestoes[h] \in {"promovendo", "terminada", "livre", "encoberta"})'
    BY <1>2 DEF DeveGrupo, IngestaoComeca, IngestaoFalha, IngestaoTermina, Ingestao,
       IInv, Tipos
  <2> QED BY <1>2, <2>1, <2>2 DEF DeveGrupo
<1>3. \A t \in Datas, n \in Nat : Devida(t, n) => Devida(t, n)'
  <2>1. \A i \in 1..Len(itens) : Reposto(i)' => Reposto(i)
    BY <1>1 DEF Reposto
  <2> QED BY <1>1, <1>2, <2>1, Formas, DevidaMantem
<1>4. UmDeCadaVez'
  BY <1>1 DEF UmDeCadaVez, Ativos, Ids
<1>5. SerieDevida'
  BY <1>1, <1>3, SerieMantem
<1>6. ExecucoesDevidas'
  <2>1. \A e \in Ids' : execs'[e].status = "running" => e \in Ids /\ execs'[e] = execs[e]
    BY <1>1 DEF Ids
  <2> QED BY <1>1, <1>3, <2>1, ExecucoesMantem
<1> QED BY <1>4, <1>5, <1>6

(* The campaign of a success finds an item that covers it: that item, not  *)
(* begun yet, now owes what the form and year owed.                        *)
LEMMA CampanhaLeFiel ==
    ASSUME IInv, UmDeCadaVez, SerieDevida, ExecucoesDevidas, NEW g \in Grupos,
           CampanhaLe(g)
    PROVE  UmDeCadaVez' /\ SerieDevida' /\ ExecucoesDevidas'
<1>1. UNCHANGED <<documentos, revisoes, itens, execs, suja, gasto>>
  BY DEF CampanhaLe
<1>2. UmDeCadaVez'
  BY <1>1 DEF UmDeCadaVez, Ativos, Ids
<1>3. \A i \in 1..Len(itens) : itens'[i].inv = itens[i].inv /\ Reposto(i)' = Reposto(i)
  BY <1>1 DEF Reposto
<1>4. ASSUME NEW h \in Grupos, NEW t, DeveGrupo(h, t), ~DeveGrupo(h, t)'
      PROVE  h = g /\ Ativos # {} /\ Cobre(g)
  <2>1. TemDados(h)' = TemDados(h) /\ Invalidada(h)' = Invalidada(h)
    BY <1>1, DocumentosMantem
  <2>2. /\ h \notin suja /\ TemDados(h)
        /\ ingestoes'[h] \notin {"promovendo", "terminada", "livre", "encoberta"}
    BY <1>1, <1>4, <2>1 DEF DeveGrupo
  <2>3. ingestoes \in [Grupos -> {"parada", "promovendo", "terminada", "livre",
                                  "coberta", "encoberta"}]
    BY DEF IInv, Tipos
  <2>4. h = g
    BY <1>4, <2>2, <2>3 DEF CampanhaLe, Ingestao, DeveGrupo
  <2> QED BY <2>2, <2>3, <2>4 DEF CampanhaLe, Ingestao
<1>5. CASE \E i \in Ativos : itens[i].status = "pending" /\ itens[i].inv <= Invalidada(g)
  <2>1. PICK i \in Ativos : itens[i].status = "pending" /\ itens[i].inv <= Invalidada(g)
    BY <1>5
  <2>2. i \in 1..Len(itens) /\ ~Reposto(i)
    BY AtivoDeve DEF Ativos
  <2>3. ASSUME NEW t \in Datas, Devida(t, 0)
        PROVE  Devida(t, 0)'
    <3>1. CASE \A h \in Grupos : DeveGrupo(h, t) => DeveGrupo(h, t)'
      BY <1>1, <1>3, <2>3, <3>1, Formas, DevidaMantem
    <3>2. CASE \E h \in Grupos : DeveGrupo(h, t) /\ ~DeveGrupo(h, t)'
      <4>1. Invalidada(g) <= t
        BY <1>4, <3>2 DEF DeveGrupo
      <4>2. itens[i].inv <= t
        <5>1. itens[i].inv \in Nat /\ t \in Nat
          BY <2>2, Formas, DatasOrdenadas
        <5>2. Invalidada(g) \in Nat
          <6> DEFINE D == {d \in Documentos : d.grupo = g}
          <6>1. DatasDe(D) # {}
            BY <1>4, <3>2 DEF DeveGrupo, TemDados, DatasDe, Ingeridos
          <6>2. D \in SUBSET Documentos /\ Tipos
            BY DEF IInv
          <6> HIDE DEF D
          <6>3. Menor(DatasDe(D)) \in Datas
            BY <6>1, <6>2, DatasDeDatas
          <6> QED BY <6>3, DatasOrdenadas DEF Invalidada, D
        <5> QED BY <2>1, <4>1, <5>1, <5>2
      <4>3. DeveItem(i, t)'
        BY <1>1, <1>3, <2>2, <4>2 DEF DeveItem
      <4>4. i \in (0 + 1)..Len(itens')
        BY <1>1, <2>2, Formas
      <4> QED BY <4>3, <4>4 DEF Devida
    <3> QED BY <3>1, <3>2
  <2>4. SerieDevida'
    BY <1>1, <2>3, SerieMantem
  <2>5. \A e \in Ids : execs[e].status # "running"
    <3> SUFFICES ASSUME NEW e \in Ids, execs[e].status = "running" PROVE FALSE
      OBVIOUS
    <3>1. i = execs[e].item /\ itens[execs[e].item].status = "running"
      BY ItemDaExecucao
    <3> QED BY <2>1, <3>1
  <2>6. ExecucoesDevidas'
    BY <1>1, <2>5 DEF ExecucoesDevidas, Ids
  <2> QED BY <1>2, <2>4, <2>6
<1>6. CASE ~Cobre(g)
  <2>1. \A h \in Grupos, t \in Datas : DeveGrupo(h, t) => DeveGrupo(h, t)'
    BY <1>4, <1>6
  <2>2. \A t \in Datas, n \in Nat : Devida(t, n) => Devida(t, n)'
    BY <1>1, <1>3, <2>1, Formas, DevidaMantem
  <2>3. SerieDevida'
    BY <1>1, <2>2, SerieMantem
  <2>4. \A e \in Ids' : execs'[e].status = "running" => e \in Ids /\ execs'[e] = execs[e]
    BY <1>1 DEF Ids
  <2>5. ExecucoesDevidas'
    BY <1>1, <2>2, <2>4, ExecucoesMantem
  <2> QED BY <1>2, <2>3, <2>5
<1> QED BY <1>5, <1>6 DEF Cobre

(* An item is added, and with it goes no debt.                             *)
LEMMA AnexaFiel ==
    ASSUME IInv, UmDeCadaVez, SerieDevida, ExecucoesDevidas,
           UNCHANGED <<documentos, revisoes, execs>>,
           NEW x, itens' = Append(itens, x), ~x.cobre \/ x.status \notin Ativo,
           x.status # "success",
           x.status = "skipped" \/ Ativos = {},
           \A g \in Grupos, t \in Datas : DeveGrupo(g, t) =>
              DeveGrupo(g, t)' \/ (~x.cobre /\ x.inv <= t)
    PROVE  UmDeCadaVez' /\ SerieDevida' /\ ExecucoesDevidas'
<1>1. /\ Len(itens') = Len(itens) + 1 /\ Len(itens) \in Nat
      /\ \A j \in 1..Len(itens) : itens'[j] = itens[j]
      /\ itens'[Len(itens) + 1] = x
  <2>1. PICK T : itens \in Seq(T)
    BY DEF IInv, Tipos
  <2> QED BY <2>1, Acrescenta, Formas
<1> PICK k : k = Len(itens) + 1
  OBVIOUS
<1>2. \A j \in 1..Len(itens) : itens'[j].inv = itens[j].inv /\ (Reposto(j)' => Reposto(j))
  BY <1>1, RepostoAnexa
<1>3. ASSUME ~x.cobre PROVE ~Reposto(k)'
  <2>1. \A j \in k..Len(itens') : itens'[j] = x
    BY <1>1
  <2> QED BY <1>1, <1>3, <2>1 DEF Reposto
<1>4. ASSUME NEW t \in Datas, NEW n \in 0..Len(itens), Devida(t, n)
      PROVE  Devida(t, n)'
  <2>1. CASE \A g \in Grupos : DeveGrupo(g, t) => DeveGrupo(g, t)'
    BY <1>1, <1>2, <1>4, <2>1, DevidaMantem
  <2>2. CASE \E g \in Grupos : DeveGrupo(g, t) /\ ~DeveGrupo(g, t)'
    <3>1. ~x.cobre /\ x.inv <= t
      BY <2>2
    <3>2. DeveItem(k, t)'
      BY <1>1, <1>3, <3>1 DEF DeveItem
    <3>3. k \in (n + 1)..Len(itens')
      BY <1>1
    <3> QED BY <3>2, <3>3 DEF Devida
  <2> QED BY <2>1, <2>2
<1>5. SerieDevida'
  <2>1. 0 \in 0..Len(itens)
    BY <1>1
  <2> QED BY <1>4, <2>1, SerieMantem
<1>6. ExecucoesDevidas'
  <2> SUFFICES ASSUME NEW e \in Ids', execs'[e].status = "running"
               PROVE  (Computado(execs[e]) /\ Bastante(execs[e]))'
    BY DEF ExecucoesDevidas
  <2>1. PICK y : y = execs[e]
    OBVIOUS
  <2>2. e \in Ids /\ execs'[e] = y /\ y.status = "running"
    BY <2>1 DEF Ids
  <2>3. Computado(y) /\ Bastante(y) /\ y.item \in 0..Len(itens)
    BY <2>1, <2>2, Formas DEF ExecucoesDevidas
  <2>4. Computado(y)' /\ Bastante(y)'
    BY <1>4, <2>3, ExecucaoMantem
  <2> QED BY <2>2, <2>4
<1>7. UmDeCadaVez'
  <2>1. \A i \in Ativos' : i \in Ativos \/ (i = Len(itens) + 1 /\ x.status \in Ativo)
    BY <1>1 DEF Ativos
  <2>2. ASSUME NEW i \in Ativos'
        PROVE  ~itens'[i].cobre
               /\ \A j \in (i + 1)..Len(itens') : itens'[j].status = "skipped"
    <3>1. CASE i \in Ativos
      <4>1. i \in 1..Len(itens) /\ x.status = "skipped"
        BY <3>1 DEF Ativos
      <4>2. \A j \in (i + 1)..Len(itens) : itens[j].status = "skipped" /\ j \in 1..Len(itens)
        BY <1>1, <3>1, <4>1 DEF UmDeCadaVez
      <4>3. \A j \in (i + 1)..Len(itens') : j \in (i + 1)..Len(itens) \/ j = Len(itens) + 1
        BY <1>1, <4>1
      <4>4. \A j \in (i + 1)..Len(itens') : itens'[j].status = "skipped"
        BY <1>1, <4>1, <4>2, <4>3
      <4> QED BY <1>1, <3>1, <4>1, <4>4 DEF UmDeCadaVez
    <3>2. CASE i = Len(itens) + 1 /\ x.status \in Ativo
      <4>1. \A j \in (i + 1)..Len(itens') : FALSE
        BY <1>1, <3>2
      <4> QED BY <1>1, <3>2, <4>1
    <3> QED BY <2>1, <3>1, <3>2
  <2>3. ASSUME NEW e \in Ids, execs[e].status = "running"
        PROVE  itens'[execs[e].item] = itens[execs[e].item]
    BY <1>1, <2>3, ItemDaExecucao
  <2>4. \A e \in Ids' : execs'[e].status = "running" =>
          /\ execs'[e].item # 0
          /\ itens'[execs'[e].item].status = "running"
          /\ \A f \in Ids' : execs'[f].status = "running" => f = e
    BY <2>3 DEF UmDeCadaVez, Ids
  <2> QED BY <2>2, <2>4 DEF UmDeCadaVez
<1> QED BY <1>5, <1>6, <1>7

(* The item of a campaign owes what its form and year owed; one that is    *)
(* skipped as covered owes nothing, and its form and year no longer did.   *)
LEMMA CampanhaCriaFiel ==
    ASSUME IInv, UmDeCadaVez, SerieDevida, ExecucoesDevidas, EmOrdem', NEW g \in Grupos,
           CampanhaCria(g)
    PROVE  UmDeCadaVez' /\ SerieDevida' /\ ExecucoesDevidas'
<1>1. PICK x : x = Item(Invalidada(g), IF ingestoes[g] = "livre" THEN "pending" ELSE "skipped",
                        ingestoes[g] = "coberta")
  OBVIOUS
<1>2. /\ x.inv = Invalidada(g)
      /\ x.status = IF ingestoes[g] = "livre" THEN "pending" ELSE "skipped"
      /\ x.cobre = (ingestoes[g] = "coberta")
  BY <1>1 DEF Item
<1>3. /\ UNCHANGED <<documentos, revisoes, execs, suja>> /\ itens' = Append(itens, x)
      /\ Ingestao(g, "parada") /\ ingestoes[g] \in {"livre", "coberta", "encoberta"}
  BY <1>1 DEF CampanhaCria
<1>4. ~x.cobre \/ x.status \notin Ativo
  BY <1>2 DEF Ativo
<1>5. x.status # "success"
  BY <1>2
<1>6. x.status = "skipped" \/ Ativos = {}
  <2>1. ASSUME ingestoes[g] = "livre", Ativos # {} PROVE FALSE
    <3>1. Usa("dobras", MaxDobras) /\ "dobras" \in Eventos /\ gasto \in [Eventos -> Nat]
      BY <2>1, Formas DEF CampanhaCria, Eventos
    <3> QED BY <3>1, UsaOrdem
  <2> QED BY <1>2, <2>1
<1>7. ASSUME NEW h \in Grupos, NEW t \in Datas, DeveGrupo(h, t)
      PROVE  DeveGrupo(h, t)' \/ (~x.cobre /\ x.inv <= t)
  <2>1. TemDados(h)' = TemDados(h) /\ Invalidada(h)' = Invalidada(h)
    BY <1>3, DocumentosMantem
  <2>2. CASE h \in suja
    BY <1>3, <1>7, <2>1, <2>2 DEF DeveGrupo
  <2>3. CASE h # g
    <3>1. ingestoes'[h] = ingestoes[h]
      BY <1>3, <2>3 DEF IInv, Tipos, Ingestao
    <3> QED BY <1>3, <1>7, <2>1, <3>1 DEF DeveGrupo
  <2>4. CASE h = g /\ h \notin suja
    BY <1>2, <1>7, <2>4 DEF DeveGrupo
  <2> QED BY <2>2, <2>3, <2>4
<1> QED BY <1>3, <1>4, <1>5, <1>6, <1>7, AnexaFiel

LEMMA ReparaFiel ==
    ASSUME IInv, UmDeCadaVez, SerieDevida, ExecucoesDevidas, NEW P \in SUBSET Periodos,
           Repara(P)
    PROVE  UmDeCadaVez' /\ SerieDevida' /\ ExecucoesDevidas'
<1>1. PICK x : x = Item(Menor(DatasDe({d \in Ingeridos : d.periodo \in P})), "pending", FALSE)
  OBVIOUS
<1>2. ~x.cobre /\ x.status = "pending" /\ x.status # "success"
  BY <1>1 DEF Item
<1>3. /\ UNCHANGED <<documentos, revisoes, execs, ingestoes, suja>>
      /\ itens' = Append(itens, x) /\ Ativos = {}
  BY <1>1 DEF Repara
<1>4. \A h \in Grupos, t \in Datas : DeveGrupo(h, t) => DeveGrupo(h, t)'
  BY <1>3, DocumentosMantem DEF DeveGrupo
<1> QED BY <1>2, <1>3, <1>4, AnexaFiel

-----------------------------------------------------------------------------
(* A step of an execution: documents and ingestions stay, and items only   *)
(* change between states without success.                                  *)
LEMMA DevidaExecucao ==
    ASSUME IInv, UNCHANGED <<documentos, ingestoes, suja>>,
           Len(itens') = Len(itens),
           \A j \in 1..Len(itens) :
              /\ itens'[j].inv = itens[j].inv /\ itens'[j].cobre = itens[j].cobre
              /\ itens'[j].status = "success" =>
                    itens[j].status = "success" /\ itens'[j].desde = itens[j].desde
    PROVE  \A t \in Datas, n \in Nat : Devida(t, n) => Devida(t, n)'
<1>1. \A h \in Grupos, t \in Datas : DeveGrupo(h, t) => DeveGrupo(h, t)'
  BY DocumentosMantem DEF DeveGrupo
<1>2. Len(itens) \in Nat
  BY Formas
<1>3. \A i \in 1..Len(itens) : itens'[i].inv = itens[i].inv /\ (Reposto(i)' => Reposto(i))
  BY <1>2, RepostoMantem
<1> QED BY <1>1, <1>2, <1>3, DevidaMantem

(* A worker takes the item: it has every date of the documents before it,  *)
(* and what is before the first of them has no documents.                  *)
LEMMA IniciaFiel ==
    ASSUME IInv, UmDeCadaVez, SerieDevida, ExecucoesDevidas, EmOrdem,
           NEW i \in 1..Len(itens), Inicia(i)
    PROVE  UmDeCadaVez' /\ SerieDevida' /\ ExecucoesDevidas'
<1>1. /\ UNCHANGED <<documentos, revisoes, ingestoes, suja, gasto>>
      /\ itens[i].status = "pending" /\ i \in Ativos
      /\ execs' = Nova(i, Desde(itens[i].inv))
      /\ itens' = [itens EXCEPT ![i].status = "running"]
  BY DEF Inicia, Ativos, Ativo
<1>2. \A e \in Ids : execs[e].status # "running"
  <2> SUFFICES ASSUME NEW e \in Ids, execs[e].status = "running" PROVE FALSE
    OBVIOUS
  <2>1. i = execs[e].item /\ itens[execs[e].item].status = "running"
    BY <1>1, ItemDaExecucao
  <2> QED BY <1>1, <2>1
<1>3. /\ Len(itens') = Len(itens)
      /\ \A j \in 1..Len(itens) :
           /\ itens'[j].inv = itens[j].inv /\ itens'[j].cobre = itens[j].cobre
           /\ itens'[j].desde = itens[j].desde
           /\ itens'[j].status = IF j = i THEN "running" ELSE itens[j].status
  <2>1. PICK T : itens \in Seq(T)
    BY DEF IInv, Tipos
  <2>2. PICK x : x = [itens[i] EXCEPT !.status = "running"] /\ itens' = [itens EXCEPT ![i] = x]
    BY <1>1
  <2>3. x.inv = itens[i].inv /\ x.cobre = itens[i].cobre /\ x.desde = itens[i].desde
        /\ x.status = "running"
    BY <2>2, Formas DEF Item0
  <2>4. /\ Len(itens') = Len(itens) /\ itens'[i] = x
        /\ \A j \in 1..Len(itens) : j # i => itens'[j] = itens[j]
    BY <2>1, <2>2, Troca
  <2> QED BY <2>3, <2>4
<1>4. \A t \in Datas, n \in Nat : Devida(t, n) => Devida(t, n)'
  BY <1>1, <1>3, DevidaExecucao
<1>5. SerieDevida'
  BY <1>1, <1>4, SerieMantem
<1>6. PICK x : x = [item |-> i, status |-> "running", desde |-> Desde(itens[i].inv),
                    datas |-> Janela(Desde(itens[i].inv)), novas |-> {}]
  OBVIOUS
<1>7. /\ Len(execs') = Len(execs) + 1 /\ Len(execs) \in Nat
      /\ \A e \in Ids : execs'[e] = execs[e]
      /\ execs'[Len(execs) + 1] = x
      /\ Ids' = Ids \cup {Len(execs) + 1}
  <2>1. PICK T : execs \in Seq(T)
    BY DEF IInv, Tipos
  <2>2. execs' = Append(execs, x)
    BY <1>1, <1>6 DEF Nova
  <2>3. /\ Len(execs') = Len(execs) + 1 /\ Len(execs) \in Nat
        /\ \A e \in 1..Len(execs) : execs'[e] = execs[e]
        /\ execs'[Len(execs) + 1] = x
    BY <2>1, <2>2, Acrescenta, Formas
  <2> QED BY <2>3 DEF Ids
<1>8. UmDeCadaVez'
  <2>1. Ativos' = Ativos
    BY <1>1, <1>3 DEF Ativos, Ativo
  <2>2. ASSUME NEW k \in Ativos
        PROVE  ~itens'[k].cobre
               /\ \A j \in (k + 1)..Len(itens') : itens'[j].status = "skipped"
    <3>1. k = i /\ k \in 1..Len(itens) /\ k \in Nat
      BY <1>1, UmAtivo, Formas DEF Ativos
    <3>2. \A j \in (k + 1)..Len(itens) : j \in 1..Len(itens) /\ j # i
      BY <3>1
    <3>3. /\ ~itens[k].cobre
          /\ \A j \in (k + 1)..Len(itens) : itens[j].status = "skipped"
      BY DEF UmDeCadaVez
    <3>4. ~itens'[k].cobre
      BY <1>3, <3>1, <3>3
    <3>5. \A j \in (k + 1)..Len(itens') : itens'[j].status = "skipped"
      BY <1>3, <3>2, <3>3
    <3> QED BY <3>4, <3>5
  <2>3. \A e \in Ids' : execs'[e].status = "running" =>
          /\ execs'[e].item # 0
          /\ itens'[execs'[e].item].status = "running"
          /\ \A f \in Ids' : execs'[f].status = "running" => f = e
    <3>1. \A e \in Ids' : execs'[e].status = "running" =>
            e = Len(execs) + 1 /\ execs'[e] = x
      BY <1>2, <1>7
    <3>2. x.item = i /\ i # 0 /\ itens'[i].status = "running"
      BY <1>3, <1>6
    <3> QED BY <3>1, <3>2
  <2> QED BY <2>1, <2>2, <2>3 DEF UmDeCadaVez
<1>9. Computado(x) /\ Bastante(x)
  <2>1. /\ x.desde \in {0, itens[i].inv} /\ x.novas = {} /\ x.datas = Janela(x.desde)
        /\ x.item = i /\ x.desde \in Nat
    BY <1>6, Formas DEF Desde
  <2>2. itens[i].inv \in DatasDe(Documentos)
    BY GastoTipo, Formas DEF IInv, SemCorrecao
  <2>3. DatasDe(Documentos) \subseteq Nat /\ Datas \subseteq Nat
    BY DatasDeDatas, DatasOrdenadas DEF IInv
  <2>4. \A t : \A f \in Recebidos(t) :
           documentos[f].data \in DatasDe(Documentos) /\ documentos[f].data <= t
    BY DEF Recebidos, DatasDe, Ingeridos
  <2>5. ASSUME NEW t \in Datas, x.desde <= t, \A u \in x.datas : t < u
        PROVE  Correta(x.novas, t)
    <3>1. x.desde = 0
      <4>1. ASSUME x.desde # 0 PROVE FALSE
        <5>1. x.desde \in x.datas
          BY <2>1, <2>2, <2>3, <4>1 DEF Janela
        <5> QED BY <2>1, <2>3, <2>5, <5>1
      <4> QED BY <4>1
    <3>2. Recebidos(t) = {}
      <4> SUFFICES ASSUME NEW f \in Recebidos(t) PROVE FALSE
        OBVIOUS
      <4>1. documentos[f].data \in DatasDe(Documentos) /\ documentos[f].data <= t
        BY <2>4
      <4>2. documentos[f].data \in x.datas
        BY <2>1, <2>3, <3>1, <4>1 DEF Janela
      <4> QED BY <2>3, <2>5, <4>1, <4>2
    <3> QED BY <3>2 DEF Correta, ComDados
  <2>6. ASSUME NEW u \in x.datas, NEW t \in Datas, u <= t,
               \A s \in x.datas : s <= u \/ t < s
        PROVE  Instantaneo(t) = Instantaneo(u)
    <3>1. u \in Nat /\ x.desde <= u
      BY <2>1, <2>3 DEF Janela
    <3>2. ASSUME NEW f \in Recebidos(t) PROVE documentos[f].data <= u
      <4>1. documentos[f].data \in DatasDe(Documentos) /\ documentos[f].data <= t
        BY <2>4
      <4>2. CASE x.desde <= documentos[f].data
        <5>1. documentos[f].data \in x.datas
          BY <2>1, <2>3, <4>1, <4>2 DEF Janela
        <5> QED BY <2>3, <2>6, <4>1, <5>1
      <4>3. CASE ~(x.desde <= documentos[f].data)
        BY <2>1, <2>3, <3>1, <4>1, <4>3
      <4> QED BY <4>2, <4>3
    <3>3. ASSUME NEW f \in Recebidos(u) PROVE documentos[f].data <= t
      BY <2>3, <2>4, <2>6, <3>1
    <3>4. Recebidos(t) = Recebidos(u)
      BY <3>2, <3>3 DEF Recebidos
    <3> QED BY <3>4, MesmoInstantaneo
  <2>7. Computado(x)
    BY <2>5 DEF Computado
  <2>8. Bastante(x)
    BY <2>6 DEF Bastante
  <2> QED BY <2>7, <2>8
<1>10. ExecucoesDevidas'
  <2> SUFFICES ASSUME NEW e \in Ids', execs'[e].status = "running"
               PROVE  (Computado(execs[e]) /\ Bastante(execs[e]))'
    BY DEF ExecucoesDevidas
  <2>1. execs'[e] = x /\ x.item \in Nat
    BY <1>2, <1>6, <1>7
  <2>2. Computado(x)' /\ Bastante(x)'
    BY <1>1, <1>4, <1>9, <2>1, ExecucaoMantem
  <2> QED BY <2>1, <2>2
<1> QED BY <1>5, <1>8, <1>10

-----------------------------------------------------------------------------
(* Where revisions of one key do not overlap, all that are known are read. *)
LEMMA RespostaSimples ==
    ASSUME NEW R, Disjuntas(R), \A r \in R : Revisao(r), NEW t \in Datas
    PROVE  Lidas(R, t) = {r \in R : Vale(r, t)}
<1>1. /\ t \in Nat
      /\ \A r \in R : r.de \in Nat /\ r.ate \in Nat
  BY DatasOrdenadas DEF Revisao
<1>2. \A r, s \in R : r.chave = Contexto /\ s.chave = Contexto /\ Vale(r, t) /\ Vale(s, t)
        => r = s
  BY <1>1 DEF Disjuntas, Vale
<1>3. \A r \in R : Vale(r, t) => r \in Lidas(R, t)
  BY <1>1, <1>2 DEF Lidas
<1> QED BY <1>3 DEF Lidas

(* What an execution has computed answers, before the date it is carried   *)
(* to, as it did, and from that date on what the snapshot says.            *)
LEMMA AvancaAntes ==
    ASSUME NEW N, NEW A, NEW S, NEW u \in Datas, NEW e,
           \A r \in N : Revisao(r) /\ r.de < u /\ (r.ate = Sempre \/ r.ate < u),
           Avancado(N, A, S, u, e), NEW t \in Datas, t < u
    PROVE  Resposta(A, t) = Resposta(N, t)
<1>1. /\ t \in Nat /\ u \in Nat /\ Sempre \in Nat /\ t < Sempre
      /\ \A r \in N : r = Campos(r) /\ r.de \in Nat /\ r.ate \in Nat
  BY DatasOrdenadas DEF Revisao
<1>2. ASSUME NEW r \in N, Vale(r, t)
      PROVE  \E s \in A : /\ Vale(s, t) /\ r.chave = s.chave /\ r.de = s.de
                          /\ r.valor = s.valor
  <2>1. CASE r \in A
    BY <1>2, <2>1
  <2>2. CASE r.ate = Sempre /\ [r EXCEPT !.ate = u] \in A
    <3>1. PICK s \in A : s = [r EXCEPT !.ate = u]
      BY <2>2
    <3>2. s.chave = r.chave /\ s.de = r.de /\ s.ate = u /\ s.valor = r.valor
      BY <1>1, <3>1, Cortada
    <3> QED BY <1>1, <1>2, <3>2 DEF Vale
  <2> QED BY <2>1, <2>2 DEF Avancado
<1>3. ASSUME NEW s \in A, Vale(s, t)
      PROVE  \E r \in N : /\ Vale(r, t) /\ r.chave = s.chave /\ r.de = s.de
                          /\ r.valor = s.valor
  <2>1. CASE s \in N
    BY <1>3, <2>1
  <2>2. CASE \E r \in N : r.ate = Sempre /\ s = [r EXCEPT !.ate = u]
    <3>1. PICK r \in N : r.ate = Sempre /\ s = [r EXCEPT !.ate = u]
      BY <2>2
    <3>2. s.chave = r.chave /\ s.de = r.de /\ s.ate = u /\ s.valor = r.valor
      BY <1>1, <3>1, Cortada
    <3> QED BY <1>1, <1>3, <3>1, <3>2 DEF Vale
  <2>3. CASE s = [chave |-> s.chave, de |-> u, ate |-> Sempre, valor |-> S[s.chave], exec |-> e]
    <3>1. s.de = u
      BY <2>3
    <3> QED BY <1>1, <1>3, <3>1 DEF Vale
  <2> QED BY <2>1, <2>2, <2>3 DEF Avancado
<1>4. Resposta(N, t) \subseteq Resposta(A, t)
  BY <1>2, <1>3, RespostaDe
<1>5. Resposta(A, t) \subseteq Resposta(N, t)
  <2>1. /\ \A s \in A : Vale(s, t) =>
              \E r \in N : /\ Vale(r, t) /\ r.chave = s.chave /\ r.de = s.de
                           /\ r.valor = s.valor
        /\ \A r \in N : Vale(r, t) =>
              \E s \in A : /\ Vale(s, t) /\ s.chave = r.chave /\ s.de = r.de
                           /\ s.valor = r.valor
    BY <1>2, <1>3
  <2>2. /\ \A s \in A : Vale(s, t) =>
              \E r \in N : /\ Vale(r, t) /\ r.chave = s.chave /\ r.de = s.de
                           /\ r.valor = s.valor
        /\ \A r \in N : Vale(r, t) =>
              \E s \in A : /\ Vale(s, t) /\ r.chave = s.chave /\ r.de = s.de
                           /\ r.valor = s.valor
    BY <2>1
  <2> QED BY <2>2, RespostaDe
<1> QED BY <1>4, <1>5

LEMMA AvancaDepois ==
    ASSUME NEW N, NEW A, NEW S, NEW u \in Datas, NEW e,
           \A r \in N : Revisao(r) /\ r.de < u /\ (r.ate = Sempre \/ r.ate < u),
           Avancado(N, A, S, u, e),
           Disjuntas(A), \A r \in A : Revisao(r), NEW t \in Datas, u <= t
    PROVE  Resposta(A, t) = {<<c, S[c]>> : c \in DOMAIN S}
<1>1. /\ t \in Nat /\ u \in Nat /\ Sempre \in Nat /\ t < Sempre
      /\ \A r \in N : r = Campos(r) /\ r.de \in Nat /\ r.ate \in Nat
  BY DatasOrdenadas DEF Revisao
<1>2. ASSUME NEW s \in A, Vale(s, t)
      PROVE  s.chave \in DOMAIN S /\ s.valor = S[s.chave]
  <2>1. CASE s \in N /\ (s.ate = Sempre => Repete(s, S))
    <3>1. s.ate = Sempre
      BY <1>1, <1>2, <2>1 DEF Vale
    <3> QED BY <2>1, <3>1 DEF Repete
  <2>2. CASE \E r \in N : r.ate = Sempre /\ s = [r EXCEPT !.ate = u]
    <3>1. s.ate = u
      BY <1>1, <2>2, Cortada
    <3> QED BY <1>1, <1>2, <3>1 DEF Vale
  <2>3. CASE /\ s.chave \in DOMAIN S
             /\ s = [chave |-> s.chave, de |-> u, ate |-> Sempre, valor |-> S[s.chave], exec |-> e]
    BY <2>3
  <2> QED BY <2>1, <2>2, <2>3 DEF Avancado
<1>3. ASSUME NEW c \in DOMAIN S
      PROVE  \E s \in A : Vale(s, t) /\ s.chave = c /\ s.valor = S[c]
  <2>1. CASE \E r \in N : r.ate = Sempre /\ Repete(r, S) /\ r.chave = c
    <3>1. PICK r \in N : r.ate = Sempre /\ Repete(r, S) /\ r.chave = c
      BY <2>1
    <3>2. r \in A
      BY <3>1 DEF Avancado
    <3> QED BY <1>1, <3>1, <3>2 DEF Vale, Repete
  <2>2. CASE [chave |-> c, de |-> u, ate |-> Sempre, valor |-> S[c], exec |-> e] \in A
    <3>1. PICK s \in A : s = [chave |-> c, de |-> u, ate |-> Sempre, valor |-> S[c], exec |-> e]
      BY <2>2
    <3>2. s.chave = c /\ s.de = u /\ s.ate = Sempre /\ s.valor = S[c]
      BY <3>1
    <3> QED BY <1>1, <3>2 DEF Vale
  <2> QED BY <2>1, <2>2 DEF Avancado
<1>4. Lidas(A, t) = {r \in A : Vale(r, t)}
  BY RespostaSimples
<1>5. \A x : x \in Resposta(A, t) <=> \E s \in A : Vale(s, t) /\ x = <<s.chave, s.valor>>
  BY <1>4 DEF Resposta
<1>6. \A x : x \in Resposta(A, t) => x \in {<<c, S[c]>> : c \in DOMAIN S}
  BY <1>2, <1>5
<1>7. \A x : x \in {<<c, S[c]>> : c \in DOMAIN S} => x \in Resposta(A, t)
  <2> SUFFICES ASSUME NEW c \in DOMAIN S PROVE <<c, S[c]>> \in Resposta(A, t)
    OBVIOUS
  <2>1. PICK s \in A : Vale(s, t) /\ s.chave = c /\ s.valor = S[c]
    BY <1>3
  <2> QED BY <1>5, <2>1
<1> QED BY <1>6, <1>7

(* One date more: the answers of before stay, those from it on are those   *)
(* of now, or owed.                                                        *)
LEMMA CalculaComputa ==
    ASSUME IInv, NEW e \in Ids, Calcula(e), NEW x, x = execs[e],
           Computado(x), Bastante(x), NEW u, u = Menor(x.datas),
           NEW y, y.item = x.item, y.desde = x.desde, y.datas = x.datas \ {u},
           y.novas = Avanca(x.novas, u, e)
    PROVE  Computado(y) /\ Bastante(y)
<1>1. Execucao0(x) /\ Calculo(x) /\ x.datas \subseteq Datas /\ x.desde \in Nat
  BY DatasOrdenadas DEF IInv, Tipos, Execucao0, Calcula
<1>2. u \in x.datas /\ u \in Datas /\ \A s \in x.datas : u <= s
  <2>1. x.datas \in SUBSET Nat /\ x.datas # {}
    BY <1>1, DatasOrdenadas DEF Calcula
  <2> QED BY <1>1, <2>1, MenorPertence
<1>3. /\ u \in Nat /\ \A t \in Datas : t \in Nat
      /\ \A r \in x.novas : Revisao(r) /\ x.desde <= r.de
                            /\ r.de < u /\ (r.ate = Sempre \/ r.ate < u)
      /\ x.desde <= u /\ Disjuntas(x.novas) /\ Contextuada(x.novas)
  BY <1>1, <1>2, DatasOrdenadas DEF Calculo
<1>4. PICK N, A, S, inv :
         /\ N = x.novas /\ A = y.novas /\ S = Instantaneo(u)
         /\ inv = x.desde /\ inv \in Nat
  BY <1>1
<1>5. Avancado(N, A, S, u, e)
  <2>1. \A r \in N : r = Campos(r)
    BY <1>3, <1>4 DEF Revisao
  <2> QED BY <1>4, <2>1, AvancaAvanca
<1>6. Contexto \in DOMAIN S /\ DOMAIN S \subseteq Chaves
  BY <1>4, InstantaneoDe
<1>7. Disjuntas(A) /\ \A r \in A : Revisao(r)
  <2>1. \A r \in N : /\ Revisao(r) /\ inv <= r.de
                     /\ r.de < u /\ (r.ate = Sempre \/ r.ate < u)
    BY <1>3, <1>4
  <2>2. inv <= u /\ Disjuntas(N) /\ Contextuada(N)
    BY <1>3, <1>4
  <2>3. u \in Datas /\ inv \in Nat
    BY <1>2, <1>4
  <2>4. /\ \A s \in A : /\ Revisao(s) /\ inv <= s.de /\ s.de <= u
                        /\ (s.ate = Sempre \/ s.ate <= u)
        /\ Disjuntas(A)
        /\ Contextuada(A)
    BY <1>5, <1>6, <2>1, <2>2, <2>3, AvancaPasso
  <2> QED BY <2>4
<1>12. \A r \in N : Revisao(r) /\ r.de < u /\ (r.ate = Sempre \/ r.ate < u)
  BY <1>3, <1>4
<1>8. ASSUME NEW t \in Datas, y.desde <= t, \A s \in y.datas : t < s
      PROVE  Correta(y.novas, t) \/ Devida(t, y.item)
  <2>1. CASE t < u
    <3>1. \A s \in x.datas : t < s
      <4> SUFFICES ASSUME NEW s \in x.datas PROVE t < s
        OBVIOUS
      <4>1. u <= s /\ s \in Nat /\ t \in Nat
        BY <1>1, <1>2, <1>3
      <4> QED BY <1>3, <2>1, <4>1
    <3>2. Correta(x.novas, t) \/ Devida(t, x.item)
      BY <1>8, <3>1 DEF Computado
    <3>3. Resposta(A, t) = Resposta(x.novas, t)
      BY <1>2, <1>4, <1>5, <1>12, <2>1, AvancaAntes
    <3> QED BY <1>4, <3>2, <3>3 DEF Correta
  <2>2. CASE u <= t
    <3>1. \A s \in x.datas : s <= u \/ t < s
      BY <1>3, <1>8
    <3>2. Instantaneo(t) = S \/ Devida(t, x.item)
      BY <1>2, <1>4, <2>2, <3>1 DEF Bastante
    <3>3. Resposta(A, t) = {<<c, S[c]>> : c \in DOMAIN S}
      BY <1>2, <1>5, <1>7, <1>12, <2>2, AvancaDepois
    <3> QED BY <1>4, <3>2, <3>3 DEF Correta
  <2> QED BY <1>3, <2>1, <2>2
<1>9. ASSUME NEW s \in y.datas, NEW t \in Datas, s <= t,
             \A w \in y.datas : w <= s \/ t < w
      PROVE  Instantaneo(t) = Instantaneo(s) \/ Devida(t, y.item)
  <2>1. \A w \in x.datas : w <= s \/ t < w
    BY <1>2, <1>9
  <2> QED BY <1>9, <2>1 DEF Bastante
<1>10. Computado(y)
  BY <1>8 DEF Computado
<1>11. Bastante(y)
  BY <1>9 DEF Bastante
<1> QED BY <1>10, <1>11

LEMMA CalculaFiel ==
    ASSUME IInv, UmDeCadaVez, SerieDevida, ExecucoesDevidas, NEW e \in Ids, Calcula(e)
    PROVE  UmDeCadaVez' /\ SerieDevida' /\ ExecucoesDevidas'
<1>1. /\ UNCHANGED <<documentos, revisoes, itens, ingestoes, suja, gasto>>
      /\ execs[e].status = "running"
  BY DEF Calcula
<1>2. PICK x, u : x = execs[e] /\ u = Menor(x.datas)
  OBVIOUS
<1>3. PICK y : /\ y = [x EXCEPT !.datas = @ \ {u}, !.novas = Avanca(@, u, e)]
               /\ execs' = [execs EXCEPT ![e] = y]
  BY <1>2 DEF Calcula, Execucao
<1>4. /\ y.item = x.item /\ y.desde = x.desde /\ y.datas = x.datas \ {u}
      /\ y.novas = Avanca(x.novas, u, e) /\ y.status = "running"
  <2>1. Execucao0(x) /\ x.status = "running"
    BY <1>1, <1>2, Formas
  <2> QED BY <1>3, <2>1 DEF Execucao0
<1>5. Computado(y) /\ Bastante(y)
  <2>1. Computado(x) /\ Bastante(x)
    BY <1>1, <1>2 DEF ExecucoesDevidas
  <2> QED BY <1>2, <1>4, <2>1, CalculaComputa
<1>6. Ids' = Ids /\ execs'[e] = y /\ \A f \in Ids : f # e => execs'[f] = execs[f]
  <2>1. PICK T : execs \in Seq(T)
    BY DEF IInv, Tipos
  <2>2. /\ Len(execs') = Len(execs) /\ execs'[e] = y
        /\ \A f \in 1..Len(execs) : f # e => execs'[f] = execs[f]
    BY <1>3, <2>1, Troca DEF Ids
  <2> QED BY <2>2 DEF Ids
<1>7. \A t \in Datas, n \in Nat : Devida(t, n) => Devida(t, n)'
  BY <1>1, DevidaExecucao
<1>8. SerieDevida'
  BY <1>1, <1>7, SerieMantem
<1>9. UmDeCadaVez'
  <2>1. \A f \in Ids : execs'[f].item = execs[f].item /\ execs'[f].status = execs[f].status
    BY <1>1, <1>2, <1>4, <1>6
  <2>2. Ativos' = Ativos
    BY <1>1 DEF Ativos
  <2> QED BY <1>1, <1>6, <2>1, <2>2 DEF UmDeCadaVez
<1>10. ExecucoesDevidas'
  <2> SUFFICES ASSUME NEW f \in Ids', execs'[f].status = "running"
               PROVE  (Computado(execs[f]) /\ Bastante(execs[f]))'
    BY DEF ExecucoesDevidas
  <2>1. f = e
    <3>1. f # e => execs[f].status = "running" /\ f \in Ids
      BY <1>6
    <3> QED BY <1>1, <3>1 DEF UmDeCadaVez
  <2>2. y.item \in Nat
    BY <1>2, <1>4, Formas
  <2>3. Computado(y)' /\ Bastante(y)'
    BY <1>1, <1>5, <1>7, <2>2, ExecucaoMantem
  <2> QED BY <1>6, <2>1, <2>3
<1> QED BY <1>8, <1>9, <1>10

-----------------------------------------------------------------------------
(* An execution that ends, the only one, leaves the item it was at in      *)
(* another state, and no other item is active.                             *)
LEMMA ItemAcaba ==
    ASSUME IInv, UmDeCadaVez, NEW e \in Ids, execs[e].status = "running",
           NEW s \in {"success", "failed", "perdida"},
           Execucao(e, Fim(e, s)),
           NEW w \in {"success", "failed", "pending"}, NEW desde,
           itens' = [itens EXCEPT ![execs[e].item].status = w, ![execs[e].item].desde = desde]
    PROVE  /\ Len(itens') = Len(itens)
           /\ \A j \in 1..Len(itens) :
                /\ itens'[j].inv = itens[j].inv /\ itens'[j].cobre = itens[j].cobre
                /\ j # execs[e].item => itens'[j] = itens[j]
           /\ itens'[execs[e].item].status = w /\ itens'[execs[e].item].desde = desde
           /\ \A f \in Ids' : execs'[f].status # "running"
           /\ UmDeCadaVez'
<1>1. PICK i : i = execs[e].item
  OBVIOUS
<1>2. i \in 1..Len(itens) /\ itens[i].status = "running" /\ \A k \in Ativos : k = i
  BY <1>1, ItemDaExecucao
<1>3. PICK x : x = [itens[i] EXCEPT !.status = w, !.desde = desde]
               /\ itens' = [itens EXCEPT ![i] = x]
  BY <1>1
<1>4. /\ x.status = w /\ x.desde = desde
      /\ x.inv = itens[i].inv /\ x.cobre = itens[i].cobre
  BY <1>2, <1>3, Formas DEF Item0
<1>5. /\ Len(itens') = Len(itens) /\ itens'[i] = x
      /\ \A j \in 1..Len(itens) : j # i => itens'[j] = itens[j]
  <2>1. PICK T : itens \in Seq(T)
    BY DEF IInv, Tipos
  <2> QED BY <1>2, <1>3, <2>1, Troca
<1>6. \A f \in Ids' : execs'[f].status # "running"
  <2>1. PICK T : execs \in Seq(T)
    BY DEF IInv, Tipos
  <2>2. PICK y : y = Fim(e, s) /\ execs' = [execs EXCEPT ![e] = y]
    BY DEF Execucao
  <2>3. /\ Len(execs') = Len(execs) /\ execs'[e] = y
        /\ \A f \in 1..Len(execs) : f # e => execs'[f] = execs[f]
    BY <2>1, <2>2, Troca DEF Ids
  <2>4. y.status # "running"
    BY <2>2 DEF Fim
  <2> QED BY <2>3, <2>4 DEF UmDeCadaVez, Ids
<1>7. UmDeCadaVez'
  <2>1. \A k \in Ativos' : k = i
    BY <1>2, <1>5 DEF Ativos
  <2>2. i \in Nat /\ \A j \in (i + 1)..Len(itens) : j \in 1..Len(itens) /\ j # i
    BY <1>2
  <2>3. /\ ~itens[i].cobre
        /\ \A j \in (i + 1)..Len(itens) : itens[j].status = "skipped"
    BY <1>1, <1>2, ItemDaExecucao DEF UmDeCadaVez
  <2>4. /\ ~itens'[i].cobre
        /\ \A j \in (i + 1)..Len(itens') : itens'[j].status = "skipped"
    BY <1>4, <1>5, <2>2, <2>3
  <2> QED BY <1>6, <2>1, <2>4 DEF UmDeCadaVez
<1> QED BY <1>1, <1>2, <1>4, <1>5, <1>6, <1>7

(* A failure or a loss leaves the item owing what it owed.                 *)
LEMMA FalhaQuedaFiel ==
    ASSUME IInv, UmDeCadaVez, SerieDevida, ExecucoesDevidas, NEW e \in Ids,
           Falha(e) \/ Queda(e)
    PROVE  UmDeCadaVez' /\ SerieDevida' /\ ExecucoesDevidas'
<1>1. /\ execs[e].status = "running"
      /\ UNCHANGED <<documentos, revisoes, ingestoes, suja>>
  BY DEF Falha, Queda
<1>2. PICK i : i = execs[e].item
  OBVIOUS
<1>3. i \in 1..Len(itens) /\ i # 0 /\ itens[i].status = "running"
  BY <1>1, <1>2, ItemDaExecucao
<1>4. PICK w, s, desde :
         /\ w \in {"failed", "pending"} /\ s \in {"failed", "perdida"}
         /\ Execucao(e, Fim(e, s))
         /\ itens' = [itens EXCEPT ![i].status = w, ![i].desde = desde]
  <2>1. CASE Falha(e)
    <3>1. /\ Execucao(e, Fim(e, "failed"))
          /\ itens' = [itens EXCEPT ![i].status = "failed", ![i].desde = Sempre]
      BY <1>2, <1>3, <2>1 DEF Falha, Concluido
    <3> QED BY <3>1
  <2>2. CASE Queda(e)
    <3>1. /\ Execucao(e, Fim(e, "perdida"))
          /\ itens' = [itens EXCEPT ![i].status = "pending"]
      BY <1>2, <1>3, <2>2 DEF Queda, Devolvido
    <3>2. DOMAIN itens = 1..Len(itens) /\ Item0(itens[i])
      BY <1>3, Formas
    <3>3. [itens[i] EXCEPT !.status = "pending"]
            = [itens[i] EXCEPT !.status = "pending", !.desde = itens[i].desde]
      BY <3>2 DEF Item0
    <3>4. itens' = [itens EXCEPT ![i].status = "pending", ![i].desde = itens[i].desde]
      BY <3>1, <3>2, <3>3
    <3> QED BY <3>1, <3>4
  <2> QED BY <2>1, <2>2
<1>5. /\ Len(itens') = Len(itens)
      /\ \A j \in 1..Len(itens) :
           /\ itens'[j].inv = itens[j].inv /\ itens'[j].cobre = itens[j].cobre
           /\ j # i => itens'[j] = itens[j]
      /\ itens'[i].status = w
      /\ \A f \in Ids' : execs'[f].status # "running"
      /\ UmDeCadaVez'
  <2>1. /\ w \in {"success", "failed", "pending"} /\ s \in {"success", "failed", "perdida"}
        /\ Execucao(e, Fim(e, s))
        /\ itens' = [itens EXCEPT ![execs[e].item].status = w, ![execs[e].item].desde = desde]
    BY <1>2, <1>4
  <2>2. /\ Len(itens') = Len(itens)
        /\ \A j \in 1..Len(itens) :
             /\ itens'[j].inv = itens[j].inv /\ itens'[j].cobre = itens[j].cobre
             /\ j # execs[e].item => itens'[j] = itens[j]
        /\ itens'[execs[e].item].status = w
        /\ \A f \in Ids' : execs'[f].status # "running"
        /\ UmDeCadaVez'
    BY <1>1, <2>1, ItemAcaba
  <2> QED BY <1>2, <2>2
<1>6. \A t \in Datas, n \in Nat : Devida(t, n) => Devida(t, n)'
  <2>1. \A j \in 1..Len(itens) : itens'[j].status = "success" =>
          itens[j].status = "success" /\ itens'[j].desde = itens[j].desde
    BY <1>4, <1>5
  <2> QED BY <1>1, <1>5, <2>1, DevidaExecucao
<1>7. SerieDevida'
  BY <1>1, <1>6, SerieMantem
<1>8. ExecucoesDevidas'
  BY <1>5 DEF ExecucoesDevidas
<1> QED BY <1>5, <1>7, <1>8

-----------------------------------------------------------------------------
(* From its first date on, what is stored answers what the execution       *)
(* computed.                                                               *)
LEMMA GravaNova ==
    ASSUME NEW R, NEW inv, NEW N, NEW Q, Gravada(R, inv, N, Q),
           NEW t \in Datas, inv <= t
    PROVE  Resposta(Q, t) = Resposta(N, t)
<1>1. /\ \A r \in R : Revisao(r)
      /\ inv \in {0} \cup Datas
      /\ \A q : q \in Q <=> q \in Prefixo(R, inv) \/ q \in N
  BY DEF Gravada
<1>2. inv \in Nat /\ t \in Nat
  BY <1>1, DatasOrdenadas
<1>3. \A q \in Prefixo(R, inv) : ~Vale(q, t)
  <2>1. \A q \in Prefixo(R, inv) : q.ate \in Nat /\ q.ate <= inv
    BY <1>1, PrefixoDe
  <2> QED BY <1>2, <2>1 DEF Vale
<1>4. \A q \in Q : Vale(q, t) => q \in N
  BY <1>1, <1>3
<1>5. \A q \in N : q \in Q
  BY <1>1
<1>6. Resposta(Q, t) \subseteq Resposta(N, t)
  BY <1>4, <1>5, RespostaDe
<1>7. Resposta(N, t) \subseteq Resposta(Q, t)
  BY <1>4, <1>5, RespostaDe
<1> QED BY <1>6, <1>7

(* The last transaction: from its first date on, what was computed is      *)
(* correct or owed by an item that comes later; before it the series is as *)
(* it was, and what is made good there was not owed.                       *)
LEMMA GravaFiel ==
    ASSUME IInv, UmDeCadaVez, SerieDevida, ExecucoesDevidas, NEW e \in Ids, Grava(e)
    PROVE  UmDeCadaVez' /\ SerieDevida' /\ ExecucoesDevidas'
<1>1. /\ execs[e].status = "running"
      /\ UNCHANGED <<documentos, ingestoes, suja, gasto>>
      /\ Execucao(e, Fim(e, "success"))
  BY DEF Grava
<1>2. PICK i, desde, x : i = execs[e].item /\ desde = execs[e].desde /\ x = execs[e]
  OBVIOUS
<1>3. i \in 1..Len(itens) /\ i # 0
  BY <1>1, <1>2, ItemDaExecucao
<1>4. /\ Len(itens') = Len(itens)
      /\ \A j \in 1..Len(itens) :
           /\ itens'[j].inv = itens[j].inv /\ itens'[j].cobre = itens[j].cobre
           /\ j # i => itens'[j] = itens[j]
      /\ itens'[i].desde = desde
      /\ \A f \in Ids' : execs'[f].status # "running"
      /\ UmDeCadaVez'
  <2>1. itens' = [itens EXCEPT ![execs[e].item].status = "success",
                               ![execs[e].item].desde = desde]
    BY <1>2, <1>3 DEF Grava, Concluido
  <2>2. /\ Len(itens') = Len(itens)
        /\ \A j \in 1..Len(itens) :
             /\ itens'[j].inv = itens[j].inv /\ itens'[j].cobre = itens[j].cobre
             /\ j # execs[e].item => itens'[j] = itens[j]
        /\ itens'[execs[e].item].status = "success"
        /\ itens'[execs[e].item].desde = desde
        /\ \A f \in Ids' : execs'[f].status # "running"
        /\ UmDeCadaVez'
    BY <1>1, <2>1, ItemAcaba
  <2> QED BY <1>2, <2>2
<1>5. ExecucoesDevidas'
  BY <1>4 DEF ExecucoesDevidas
<1>6. /\ x.datas = {} /\ x.item = i /\ x.desde = desde /\ desde \in Nat
      /\ Computado(x)
      /\ Gravada(revisoes, desde, x.novas, revisoes')
  <2>1. Execucao0(x) /\ Calculo(x) /\ Computado(x)
    BY <1>1, <1>2, Formas DEF IInv, ExecucoesDevidas
  <2>2. desde \in {0} \cup Datas
    BY <1>2, <2>1 DEF Execucao0
  <2>3. \A r \in revisoes : Revisao(r)
    BY DEF IInv, Tipos
  <2>4. revisoes' = Prefixo(revisoes, desde) \cup x.novas /\ x.datas = {}
    BY <1>2 DEF Grava
  <2>5. Gravada(revisoes, desde, x.novas, revisoes')
    BY <1>2, <2>1, <2>2, <2>3, <2>4 DEF Gravada, Calculo
  <2>6. desde \in Nat
    BY <2>2, DatasOrdenadas
  <2> QED BY <1>2, <2>1, <2>4, <2>5, <2>6
<1>7. ASSUME NEW k \in 1..Len(itens), NEW t \in Datas, DeveItem(k, t),
             t < desde \/ i < k
      PROVE  DeveItem(k, t)'
  <2>1. ~Reposto(k) /\ itens[k].inv <= t /\ itens[k].inv \in Nat /\ t \in Nat
    BY <1>7, Formas, DatasOrdenadas DEF DeveItem
  <2>2. ~itens'[k].cobre /\ itens'[k].inv = itens[k].inv
    BY <1>4, <2>1 DEF Reposto
  <2>3. ASSUME NEW j \in k..Len(itens), itens'[j].status = "success",
               itens'[j].desde <= itens[k].inv
        PROVE  FALSE
    <3>1. j \in 1..Len(itens) /\ k <= j
      BY Formas
    <3>2. CASE j # i
      BY <1>4, <2>1, <2>3, <3>1, <3>2 DEF Reposto
    <3>3. CASE j = i
      <4>1. desde <= itens[k].inv
        BY <1>4, <2>3, <3>3
      <4>2. ~(t < desde)
        BY <1>6, <2>1, <4>1
      <4>3. ~(i < k)
        BY <1>3, <3>1, <3>3
      <4> QED BY <1>7, <4>2, <4>3
    <3> QED BY <3>2, <3>3
  <2>4. ~Reposto(k)'
    BY <1>4, <2>2, <2>3 DEF Reposto
  <2> QED BY <2>1, <2>2, <2>4 DEF DeveItem
<1>8. \A h \in Grupos, t \in Datas : DeveGrupo(h, t) => DeveGrupo(h, t)'
  BY <1>1, DocumentosMantem DEF DeveGrupo
<1>9. ASSUME NEW t \in Datas, NEW n \in {0, i}, Devida(t, n), t < desde \/ n = i
      PROVE  Devida(t, 0)'
  <2>1. CASE \E h \in Grupos : DeveGrupo(h, t)
    BY <1>8, <2>1 DEF Devida
  <2>2. CASE \E k \in (n + 1)..Len(itens) : DeveItem(k, t)
    <3>1. PICK k \in (n + 1)..Len(itens) : DeveItem(k, t)
      BY <2>2
    <3>2. k \in 1..Len(itens) /\ k \in (0 + 1)..Len(itens') /\ (t < desde \/ i < k)
      BY <1>3, <1>4, <1>9, Formas
    <3>3. DeveItem(k, t)'
      BY <1>7, <3>1, <3>2
    <3> QED BY <3>2, <3>3 DEF Devida
  <2> QED BY <1>9, <2>1, <2>2 DEF Devida
<1>10. PICK Q : Q = revisoes'
  OBVIOUS
<1>11. ASSUME NEW t \in Datas
       PROVE  Correta(Q, t) \/ Devida(t, 0)'
  <2>1. CASE t < desde
    <3>1. Resposta(Q, t) = Resposta(revisoes, t)
      BY <1>6, <1>10, <2>1, GravaResposta
    <3>2. Correta(revisoes, t) \/ Devida(t, 0)
      BY DEF SerieDevida
    <3> QED BY <1>9, <2>1, <3>1, <3>2 DEF Correta
  <2>2. CASE desde <= t
    <3>1. Resposta(Q, t) = Resposta(x.novas, t)
      BY <1>6, <1>10, <2>2, GravaNova
    <3>2. Correta(x.novas, t) \/ Devida(t, i)
      BY <1>6, <2>2 DEF Computado
    <3> QED BY <1>9, <3>1, <3>2 DEF Correta
  <2>3. t \in Nat
    BY DatasOrdenadas
  <2> QED BY <1>6, <2>1, <2>2, <2>3
<1>12. SerieDevida'
  <2>1. \A t : Correta(Q, t)' = Correta(Q, t)
    BY <1>1, DocumentosMantem
  <2> QED BY <1>10, <1>11, <2>1 DEF SerieDevida
<1> QED BY <1>4, <1>5, <1>12

-----------------------------------------------------------------------------
(* A document is promoted: what its form and year, or another, owed is     *)
(* owed still, and what changes of the snapshots is owed by it.            *)
LEMMA PromoveDeve ==
    ASSUME IInv, EmOrdem', NEW d \in Documentos, NEW t \in Recebimentos[d],
           NEW v \in Valores \cup {Nada}, Promove(d, t, v)
    PROVE  /\ \A h \in Grupos, u \in Datas : DeveGrupo(h, u) => DeveGrupo(h, u)'
           /\ \A u \in Datas :
                \/ DeveGrupo(d.grupo, u)'
                \/ \A w \in Datas : w <= u =>
                     ComDados(w)' = ComDados(w) /\ Instantaneo(w)' = Instantaneo(w)
<1>1. /\ UNCHANGED <<revisoes, itens, execs, ingestoes, suja>>
      /\ ingestoes[d.grupo] = "promovendo"
      /\ documentos' = [documentos EXCEPT ![d] = [data |-> t, valor |-> v]]
      /\ d \in Ingeridos => (v = Nada => documentos[d].valor = Nada)
  BY DEF Promove
<1>2. t \in Datas /\ t \in Nat /\ t # Sempre
  BY ConstantesRevisoes, DatasOrdenadas
<1>3. d \in Ingeridos => documentos[d].data = t
  <2>1. Usa("correcoes", MaxCorrecoes) => FALSE
    <3>1. "correcoes" \in Eventos /\ gasto \in [Eventos -> Nat]
      BY Formas DEF Eventos
    <3> QED BY <3>1, UsaOrdem
  <2> QED BY <2>1 DEF Promove
<1>4. /\ documentos'[d].data = t /\ documentos'[d].valor = v
      /\ \A f \in Documentos : f # d => documentos'[f] = documentos[f]
  BY <1>1 DEF IInv, Tipos
<1>5. Ingeridos' = Ingeridos \cup {d} /\ Ingeridos \subseteq Documentos
  BY <1>2, <1>4 DEF Ingeridos
<1>6. \A f \in Ingeridos : documentos'[f].data = documentos[f].data
  BY <1>3, <1>4, <1>5
<1>7. \A h : TemDados(h) => TemDados(h)'
  BY <1>1, <1>4, <1>5 DEF TemDados
<1>8. ASSUME NEW D \in SUBSET Documentos
      PROVE  /\ DatasDe(D) \in SUBSET Nat /\ DatasDe(D)' \in SUBSET Nat
             /\ DatasDe(D) \subseteq DatasDe(D)'
             /\ d \in D => t \in DatasDe(D)'
  <2>1. \A f \in Ingeridos : documentos[f].data \in Datas
    BY <1>5 DEF IInv, Tipos, Ingeridos
  <2>2. \A f \in Ingeridos' : documentos'[f].data \in Datas
    BY <1>2, <1>4, <1>5, <1>6, <2>1
  <2> QED BY <1>4, <1>5, <1>6, <2>1, <2>2, DatasOrdenadas DEF DatasDe
<1>9. ASSUME NEW h, TemDados(h)
      PROVE  Invalidada(h)' <= Invalidada(h) /\ Invalidada(h) \in Nat /\ Invalidada(h)' \in Nat
  <2>1. PICK D \in SUBSET Documentos : D = {f \in Documentos : f.grupo = h}
    OBVIOUS
  <2>2. PICK S, T : S = DatasDe(D) /\ T = DatasDe(D)'
    OBVIOUS
  <2>3. S \in SUBSET Nat /\ T \in SUBSET Nat /\ S \subseteq T /\ S # {}
    <3>1. S # {}
      BY <1>5, <1>9, <2>1, <2>2 DEF TemDados, DatasDe
    <3> QED BY <1>8, <2>2, <3>1
  <2>4. Menor(S) \in S /\ Menor(T) \in T /\ \A n \in T : Menor(T) <= n
    BY <2>3, MenorPertence
  <2>5. Invalidada(h) = Menor(S) /\ Invalidada(h)' = Menor(T)
    BY <2>1, <2>2 DEF Invalidada
  <2> QED BY <2>3, <2>4, <2>5
<1>10. ASSUME NEW h \in Grupos, NEW u \in Datas, DeveGrupo(h, u)
       PROVE  DeveGrupo(h, u)'
  <2>1. TemDados(h) /\ Invalidada(h) <= u /\ u \in Nat
    BY <1>10, DatasOrdenadas DEF DeveGrupo
  <2>2. Invalidada(h)' <= u
    BY <1>9, <2>1
  <2> QED BY <1>1, <1>7, <1>10, <2>1, <2>2 DEF DeveGrupo
<1>11. Invalidada(d.grupo)' <= t /\ Invalidada(d.grupo)' \in Nat
  <2>1. PICK D \in SUBSET Documentos : D = {f \in Documentos : f.grupo = d.grupo}
    OBVIOUS
  <2>2. PICK T : T = DatasDe(D)'
    OBVIOUS
  <2>3. T \in SUBSET Nat /\ t \in T
    BY <1>8, <2>1, <2>2
  <2>4. Menor(T) \in T /\ \A n \in T : Menor(T) <= n
    BY <2>3, MenorPertence
  <2>5. Invalidada(d.grupo)' = Menor(T)
    BY <2>1, <2>2 DEF Invalidada
  <2> QED BY <2>3, <2>4, <2>5
<1>12. ASSUME NEW u \in Datas, t <= u, TemDados(d.grupo)'
       PROVE  DeveGrupo(d.grupo, u)'
  <2>1. Invalidada(d.grupo)' <= u
    BY <1>2, <1>11, <1>12, DatasOrdenadas
  <2> QED BY <1>1, <1>12, <2>1 DEF DeveGrupo
<1>13. ASSUME NEW w \in Datas, w < t \/ ~TemDados(d.grupo)'
       PROVE  ComDados(w)' = ComDados(w) /\ Instantaneo(w)' = Instantaneo(w)
  <2>1. w \in Nat
    BY DatasOrdenadas
  <2>2. \A f \in Documentos : f # d =>
           (f \in Recebidos(w)' <=> f \in Recebidos(w))
    BY <1>4, <1>5 DEF Recebidos
  <2>3. CASE w < t
    <3>1. d \notin Recebidos(w) /\ d \notin Recebidos(w)'
      BY <1>2, <1>3, <1>4, <2>1, <2>3 DEF Recebidos
    <3>2. Recebidos(w)' = Recebidos(w) /\ Recebidos(w) \subseteq Documentos
      BY <1>5, <2>2, <3>1 DEF Recebidos
    <3>3. \A p : Vigente(p, w)' = Vigente(p, w)
      BY <3>2 DEF Vigente
    <3>4. ASSUME NEW p, NEW f \in Recebidos(w), f.periodo = p
          PROVE  documentos'[Vigente(p, w)] = documentos[Vigente(p, w)]
      <4>1. Vigente(p, w) \in Recebidos(w)
        BY <3>4, VigentePertence
      <4> QED BY <1>4, <3>1, <3>2, <4>1
    <3>5. \A p \in Periodos : p \in ComDados(w)' <=> p \in ComDados(w)
      BY <3>2, <3>3, <3>4 DEF ComDados
    <3>6. \A p \in ComDados(w) :
             /\ Vigente(p, w)' = Vigente(p, w)
             /\ documentos'[Vigente(p, w)].valor = documentos[Vigente(p, w)].valor
      BY <3>3, <3>4 DEF ComDados
    <3> QED BY <3>5, <3>6, InstantaneoMantem
  <2>4. CASE ~TemDados(d.grupo)'
    <3>1. /\ \A f \in Ingeridos' : f.grupo = d.grupo => documentos'[f].valor = Nada
          /\ \A f \in Ingeridos : f.grupo = d.grupo => documentos[f].valor = Nada
      BY <1>7, <2>4 DEF TemDados
    <3>2. ASSUME NEW p, p # d.periodo
          PROVE  {f \in Recebidos(w) : f.periodo = p}' = {f \in Recebidos(w) : f.periodo = p}
      BY <1>5, <2>2, <3>2 DEF Recebidos
    <3>3. \A p : p # d.periodo => Vigente(p, w)' = Vigente(p, w)
      BY <3>2 DEF Vigente
    <3>4. ASSUME NEW p, p # d.periodo, NEW f \in Recebidos(w), f.periodo = p
          PROVE  documentos'[Vigente(p, w)] = documentos[Vigente(p, w)]
      <4>1. Vigente(p, w) \in Recebidos(w) /\ Vigente(p, w).periodo = p
        BY <3>4, VigentePertence
      <4> QED BY <1>4, <1>5, <3>4, <4>1 DEF Recebidos
    <3>5. d.periodo \notin ComDados(w)
      <4> SUFFICES ASSUME NEW f \in Recebidos(w), f.periodo = d.periodo
                   PROVE  documentos[Vigente(d.periodo, w)].valor = Nada
        BY DEF ComDados
      <4>1. /\ Vigente(d.periodo, w) \in Recebidos(w)
            /\ Vigente(d.periodo, w).periodo = d.periodo
        BY VigentePertence
      <4> QED BY <1>5, <3>1, <4>1, ConstantesRevisoes DEF Recebidos
    <3>6. d.periodo \notin ComDados(w)'
      <4>1. PICK R : R = Recebidos(w)'
        OBVIOUS
      <4>2. PICK D : D = {f \in R : f.periodo = d.periodo}
        OBVIOUS
      <4>3. D \in SUBSET Documentos /\ R \subseteq Ingeridos'
        BY <1>5, <4>1, <4>2 DEF Recebidos
      <4>4. D # {} => documentos'[Ultima(D)].valor = Nada
        <5> SUFFICES ASSUME D # {} PROVE documentos'[Ultima(D)].valor = Nada
          OBVIOUS
        <5>1. Ultima(D) \in D
          BY <4>3, UltimaPertence
        <5>2. /\ Ultima(D) \in Ingeridos' /\ Ultima(D) \in Documentos
              /\ Ultima(D).periodo = d.periodo
          BY <4>2, <4>3, <5>1
        <5> QED BY <3>1, <5>2, ConstantesRevisoes
      <4>5. Vigente(d.periodo, w)' = Ultima(D)
        BY <4>1, <4>2 DEF Vigente
      <4> QED BY <4>1, <4>2, <4>4, <4>5 DEF ComDados
    <3>7. \A p : p # d.periodo =>
             ((\E f \in Recebidos(w)' : f.periodo = p) <=> \E f \in Recebidos(w) : f.periodo = p)
      BY <1>5, <2>2 DEF Recebidos
    <3>8. \A p \in Periodos : p \in ComDados(w)' <=> p \in ComDados(w)
      <4> SUFFICES ASSUME NEW p \in Periodos, p # d.periodo
                   PROVE  p \in ComDados(w)' <=> p \in ComDados(w)
        BY <3>5, <3>6
      <4> QED BY <3>3, <3>4, <3>7 DEF ComDados
    <3>9. \A p \in ComDados(w) :
             /\ Vigente(p, w)' = Vigente(p, w)
             /\ documentos'[Vigente(p, w)].valor = documentos[Vigente(p, w)].valor
      BY <3>3, <3>4, <3>5 DEF ComDados
    <3> QED BY <3>8, <3>9, InstantaneoMantem
  <2> QED BY <1>13, <2>3, <2>4
<1>14. ASSUME NEW u \in Datas, ~DeveGrupo(d.grupo, u)', NEW w \in Datas, w <= u
       PROVE  ComDados(w)' = ComDados(w) /\ Instantaneo(w)' = Instantaneo(w)
  <2>1. u < t \/ ~TemDados(d.grupo)'
    BY <1>2, <1>12, <1>14, DatasOrdenadas
  <2>2. w < t \/ ~TemDados(d.grupo)'
    BY <1>2, <1>14, <2>1, DatasOrdenadas
  <2> QED BY <1>13, <2>2
<1> QED BY <1>10, <1>14

LEMMA PromoveFiel ==
    ASSUME IInv, UmDeCadaVez, SerieDevida, ExecucoesDevidas, EmOrdem',
           NEW d \in Documentos, NEW t \in Recebimentos[d],
           NEW v \in Valores \cup {Nada}, Promove(d, t, v)
    PROVE  UmDeCadaVez' /\ SerieDevida' /\ ExecucoesDevidas'
<1>1. UNCHANGED <<revisoes, itens, execs, ingestoes, suja>> /\ d.grupo \in Grupos
  BY DEF Promove, Grupos
<1>2. /\ \A h \in Grupos, u \in Datas : DeveGrupo(h, u) => DeveGrupo(h, u)'
      /\ \A u \in Datas :
           \/ DeveGrupo(d.grupo, u)'
           \/ \A w \in Datas : w <= u =>
                ComDados(w)' = ComDados(w) /\ Instantaneo(w)' = Instantaneo(w)
  BY PromoveDeve
<1>3. \A u \in Datas, n \in Nat : Devida(u, n) => Devida(u, n)'
  <2>1. \A j \in 1..Len(itens) : itens'[j].inv = itens[j].inv /\ (Reposto(j)' => Reposto(j))
    BY <1>1 DEF Reposto
  <2> QED BY <1>1, <1>2, <2>1, Formas, DevidaMantem
<1>4. \A u \in Datas, n \in Nat : DeveGrupo(d.grupo, u)' => Devida(u, n)'
  BY <1>1 DEF Devida, Grupos
<1>5. ASSUME NEW R, NEW u \in Datas, NEW n \in Nat, Correta(R, u)
      PROVE  Correta(R, u)' \/ Devida(u, n)'
  <2>1. CASE DeveGrupo(d.grupo, u)'
    BY <1>4, <2>1
  <2>2. CASE ComDados(u)' = ComDados(u) /\ Instantaneo(u)' = Instantaneo(u)
    BY <1>5, <2>2 DEF Correta
  <2>3. u <= u
    BY DatasOrdenadas
  <2> QED BY <1>2, <2>1, <2>2, <2>3
<1>6. UmDeCadaVez'
  BY <1>1 DEF UmDeCadaVez, Ativos, Ids
<1>7. SerieDevida'
  <2>1. PICK R : R = revisoes
    OBVIOUS
  <2>2. \A u \in Datas : Correta(R, u)' \/ Devida(u, 0)'
    <3>1. \A u \in Datas : Correta(R, u) \/ Devida(u, 0)
      BY <2>1 DEF SerieDevida
    <3>2. 0 \in Nat
      OBVIOUS
    <3> QED BY <1>3, <1>5, <3>1, <3>2
  <2>3. revisoes' = R
    BY <1>1, <2>1
  <2> QED BY <2>2, <2>3 DEF SerieDevida
<1>8. ASSUME NEW x, x.item \in Nat, x.datas \subseteq Datas, Computado(x), Bastante(x)
      PROVE  Computado(x)' /\ Bastante(x)'
  <2>1. ASSUME NEW u \in Datas, x.desde <= u, \A s \in x.datas : u < s
        PROVE  Correta(x.novas, u)' \/ Devida(u, x.item)'
    BY <1>3, <1>5, <1>8, <2>1 DEF Computado
  <2>2. ASSUME NEW s \in x.datas, NEW u \in Datas, s <= u,
               \A w \in x.datas : w <= s \/ u < w
        PROVE  Instantaneo(u)' = Instantaneo(s)' \/ Devida(u, x.item)'
    <3>1. Instantaneo(u) = Instantaneo(s) \/ Devida(u, x.item)
      BY <1>8, <2>2 DEF Bastante
    <3>2. CASE Devida(u, x.item) \/ DeveGrupo(d.grupo, u)'
      BY <1>3, <1>4, <1>8, <3>2
    <3>3. CASE \A w \in Datas : w <= u =>
                 ComDados(w)' = ComDados(w) /\ Instantaneo(w)' = Instantaneo(w)
      <4>1. u <= u /\ s \in Datas
        BY <1>8, DatasOrdenadas
      <4>2. Instantaneo(u)' = Instantaneo(u) /\ Instantaneo(s)' = Instantaneo(s)
        BY <2>2, <3>3, <4>1
      <4> QED BY <3>1, <3>2, <4>2
    <3> QED BY <1>2, <3>2, <3>3
  <2>3. Computado(x)'
    BY <2>1 DEF Computado
  <2>4. Bastante(x)'
    BY <2>2 DEF Bastante
  <2> QED BY <2>3, <2>4
<1>9. ExecucoesDevidas'
  <2> SUFFICES ASSUME NEW e \in Ids', execs'[e].status = "running"
               PROVE  (Computado(execs[e]) /\ Bastante(execs[e]))'
    BY DEF ExecucoesDevidas
  <2>1. PICK x : x = execs[e]
    OBVIOUS
  <2>2. e \in Ids /\ execs'[e] = x /\ x.status = "running"
    BY <1>1, <2>1 DEF Ids
  <2>3. /\ x.item \in Nat /\ x.datas \subseteq Datas
        /\ Computado(x) /\ Bastante(x)
    BY <2>1, <2>2, Formas DEF ExecucoesDevidas, Execucao0
  <2>4. Computado(x)' /\ Bastante(x)'
    BY <1>8, <2>3
  <2> QED BY <2>2, <2>4
<1> QED BY <1>6, <1>7, <1>9

-----------------------------------------------------------------------------
(* Where order holds it always did: nobody ran the command line, and no    *)
(* item was given back to a worker that was still at it.                   *)
LEMMA OrdemAntes ==
    ASSUME IInv, Next, EmOrdem'
    PROVE  EmOrdem /\ ~Avulsa /\ \A e \in Ids : ~Atrasa(e)
<1>1. gasto \in [Eventos -> Nat]
  BY Formas
<1>2. /\ "ingestoes" \in Eventos /\ "reparos" \in Eventos /\ "correcoes" \in Eventos
      /\ "falhas" \in Eventos /\ "quedas" \in Eventos /\ "atrasos" \in Eventos
      /\ "avulsas" \in Eventos /\ "dobras" \in Eventos
  BY DEF Eventos
<1>3. \A x, max : x \in Eventos /\ Usa(x, max) =>
        EmOrdem /\ x \notin {"atrasos", "avulsas", "dobras", "correcoes"}
  BY <1>1, UsaOrdem
<1>4. UNCHANGED gasto => EmOrdem
  BY DEF EmOrdem
<1>5. ~Avulsa /\ \A e \in Ids : ~Atrasa(e)
  BY <1>2, <1>3 DEF Avulsa, Atrasa
<1>6. ASSUME NEW g \in Grupos,
             \/ IngestaoComeca(g) \/ IngestaoFalha(g) \/ IngestaoTermina(g)
             \/ CampanhaLe(g) \/ CampanhaCria(g)
      PROVE  EmOrdem
  BY <1>2, <1>3, <1>4, <1>6 DEF IngestaoComeca, IngestaoFalha, IngestaoTermina,
     CampanhaLe, CampanhaCria
<1>7. ASSUME NEW d \in Documentos, NEW t, NEW v, Promove(d, t, v)
      PROVE  EmOrdem
  BY <1>2, <1>3, <1>4, <1>7 DEF Promove
<1>8. ASSUME NEW P, Repara(P)
      PROVE  EmOrdem
  BY <1>2, <1>3, <1>8 DEF Repara
<1>9. ASSUME NEW i, Inicia(i)
      PROVE  EmOrdem
  BY <1>4, <1>9 DEF Inicia
<1>10. ASSUME NEW e \in Ids, Calcula(e) \/ Grava(e) \/ Falha(e) \/ Queda(e)
       PROVE  EmOrdem
  BY <1>2, <1>3, <1>4, <1>10 DEF Calcula, Grava, Falha, Queda
<1> QED BY <1>5, <1>6, <1>7, <1>8, <1>9, <1>10 DEF Next

LEMMA InicioFidelidade == Init => Fidelidade
<1> SUFFICES ASSUME Init PROVE Fidelidade
  OBVIOUS
<1>1. /\ Ids = {} /\ 1..Len(itens) = {} /\ revisoes = {}
      /\ \A d \in Documentos : documentos[d].data = Sempre
  BY DEF Init, Ids
<1>2. \A t : Recebidos(t) = {}
  BY <1>1 DEF Recebidos, Ingeridos
<1>3. \A t : ComDados(t) = {}
  BY <1>2 DEF ComDados
<1>4. SerieDevida
  BY <1>3 DEF SerieDevida, Correta
<1>5. UmDeCadaVez /\ ExecucoesDevidas
  BY <1>1 DEF UmDeCadaVez, Ativos, ExecucoesDevidas
<1> QED BY <1>4, <1>5 DEF Fidelidade

LEMMA PassoFidelidade == IInv /\ Fidelidade /\ [Next]_vars => Fidelidade'
<1> SUFFICES ASSUME IInv, Fidelidade, [Next]_vars, EmOrdem'
             PROVE  UmDeCadaVez' /\ SerieDevida' /\ ExecucoesDevidas'
  BY DEF Fidelidade
<1>1. CASE UNCHANGED vars
  <2>1. UNCHANGED <<documentos, revisoes, itens, execs, ingestoes, suja, gasto>>
    BY <1>1 DEF vars
  <2>2. UmDeCadaVez /\ SerieDevida /\ ExecucoesDevidas
    BY <2>1 DEF EmOrdem, Fidelidade
  <2>3. \A t \in Datas, n \in Nat : Devida(t, n) => Devida(t, n)'
    BY <2>1, Formas, DevidaExecucao
  <2>4. SerieDevida'
    BY <2>1, <2>2, <2>3, SerieMantem
  <2>5. \A e \in Ids' : execs'[e].status = "running" => e \in Ids /\ execs'[e] = execs[e]
    BY <2>1 DEF Ids
  <2>6. ExecucoesDevidas'
    BY <2>1, <2>2, <2>3, <2>5, ExecucoesMantem
  <2>7. UmDeCadaVez'
    BY <2>1, <2>2 DEF UmDeCadaVez, Ativos, Ids
  <2> QED BY <2>4, <2>6, <2>7
<1>2. CASE Next
  <2>1. EmOrdem /\ ~Avulsa /\ \A e \in Ids : ~Atrasa(e)
    BY <1>2, OrdemAntes
  <2>2. UmDeCadaVez /\ SerieDevida /\ ExecucoesDevidas
    BY <2>1 DEF Fidelidade
  <2>3. CASE \E g \in Grupos : \/ IngestaoComeca(g) \/ IngestaoFalha(g) \/ IngestaoTermina(g)
                               \/ CampanhaLe(g) \/ CampanhaCria(g)
    BY <2>2, <2>3, IngestaoFiel, CampanhaLeFiel, CampanhaCriaFiel
  <2>4. CASE \E d \in Documentos : \E t \in Recebimentos[d], v \in Valores \cup {Nada} :
                Promove(d, t, v)
    BY <2>2, <2>4, PromoveFiel
  <2>5. CASE \E P \in SUBSET Periodos : Repara(P)
    BY <2>2, <2>5, ReparaFiel
  <2>6. CASE \E i \in 1..Len(itens) : Inicia(i)
    BY <2>1, <2>2, <2>6, IniciaFiel
  <2>7. CASE \E e \in Ids : Calcula(e) \/ Grava(e) \/ Falha(e) \/ Queda(e)
    BY <2>2, <2>7, CalculaFiel, GravaFiel, FalhaQuedaFiel
  <2> QED BY <1>2, <2>1, <2>3, <2>4, <2>5, <2>6, <2>7 DEF Next
<1> QED BY <1>1, <1>2

(* A date that is not answered correctly is always owed by somebody, as    *)
(* long as no two executions run at once and no date of receipt is         *)
(* corrected.                                                              *)
THEOREM DividaIndutiva == Spec => []Fidelidade
BY InicioFidelidade, PassoFidelidade, Indutivo, PTL DEF Spec

(* Once the work is done, nobody owes anything, and so every date is       *)
(* answered as if the series were computed then and there                  *)
(* (materializar_analise_companhia, criar_materializacao_campanha).        *)
THEOREM SerieSempreFiel == Spec => []SerieFiel
<1>1. IInv /\ Fidelidade => SerieFiel
  <2> SUFFICES ASSUME IInv, Fidelidade, Quieto, EmOrdem, NEW t \in Datas
               PROVE  Correta(revisoes, t)
    BY DEF SerieFiel
  <2>1. \A g \in Grupos : ~DeveGrupo(g, t)
    BY DEF Quieto, DeveGrupo
  <2>2. \A i \in (0 + 1)..Len(itens) : ~DeveItem(i, t)
    BY Formas DEF Quieto, DeveItem
  <2>3. ~Devida(t, 0)
    BY <2>1, <2>2 DEF Devida
  <2> QED BY <2>3 DEF Fidelidade, SerieDevida
<1> QED BY <1>1, Indutivo, DividaIndutiva, PTL
=============================================================================
