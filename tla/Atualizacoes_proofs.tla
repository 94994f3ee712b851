------------------------- MODULE Atualizacoes_proofs -------------------------
(***************************************************************************)
(* Proofs about Atualizacoes, for every value of its constants: the types, *)
(* and that an update is linked to its own runs and ingested by one that   *)
(* succeeded (Vinculo).  Both come from the inductive invariant IInv,      *)
(* whose heart is Donas: a synchronization has its run for itself, and     *)
(* leaves it succeeded only at its last step.  `QuadroLivre' and           *)
(* `QuadroDe' say what a step has to show to keep it.                      *)
(***************************************************************************)
EXTENDS Atualizacoes, FiniteSetTheorems, WellFoundedInduction, TLAPS

-----------------------------------------------------------------------------
(* The greatest element of a set of run numbers is one of them.            *)
LEMMA MaiorPertence ==
    ASSUME NEW n \in Nat, NEW S \in SUBSET (0..n), S # {}
    PROVE  Max(S) \in S
<1> DEFINE R == OpToRel(<, Nat)
           T == {n - x : x \in S}
<1>1. T \in SUBSET Nat /\ T # {}
  <2>1. \A x \in S : n - x \in Nat
    OBVIOUS
  <2> QED BY <2>1
<1>2. \A x \in Nat, y \in Nat : x < y => <<x, y>> \in R
  BY DEF OpToRel
<1>3. IsWellFoundedOn(R, Nat)
  BY NatLessThanWellFounded
<1> HIDE DEF R, T
<1>4. PICK m \in T : \A y \in T : ~(<<y, m>> \in R)
  BY <1>1, <1>3, WFMin
<1>5. \A y \in T : ~(y < m)
  BY <1>1, <1>2, <1>4
<1>6. PICK s \in S : m = n - s
  BY DEF T
<1>7. ASSUME NEW x \in S PROVE s >= x
  <2>1. n - x \in T
    BY DEF T
  <2> QED BY <1>5, <1>6, <2>1
<1> QED BY <1>7 DEF Max

LEMMA UltimaTipo == Ultima \in 0..MaxCorridas
<1>1. {0} \cup ComArquivo \in SUBSET (0..MaxCorridas)
  BY LimitesAtualizacoes DEF ComArquivo, Corridas
<1> QED BY <1>1, MaiorPertence, LimitesAtualizacoes DEF Ultima

-----------------------------------------------------------------------------
(* What a process becomes.                                                 *)
LEMMA OciosoTipo == Ocioso \in Processo /\ Ocioso.pc = "livre" /\ Ocioso.r = 0
BY LimitesAtualizacoes DEF Ocioso, Processo, Passos, StatusPendencia

LEMMA LargaProc ==
    ASSUME TipoAtualizacoes, NEW w \in Processos, Larga(w)
    PROVE  /\ proc' \in [Processos -> Processo]
           /\ proc'[w].pc = "livre" /\ proc'[w].r = 0
           /\ \A v \in Processos \ {w} : proc'[v] = proc[v]
BY OciosoTipo DEF TipoAtualizacoes, Larga

LEMMA PassaProc ==
    ASSUME TipoAtualizacoes, NEW w \in Processos, NEW pc \in Passos,
           NEW p \in 0..MaxPendencias, NEW st \in StatusPendencia,
           NEW base \in 0..MaxCorridas, NEW etag \in 0..MaxVersoes,
           Passa(w, pc, p, st, base, etag)
    PROVE  /\ proc' \in [Processos -> Processo]
           /\ proc'[w].pc = pc /\ proc'[w].p = p /\ proc'[w].r = 0
           /\ \A v \in Processos \ {w} : proc'[v] = proc[v]
<1> DEFINE X == [pc |-> pc, p |-> p, st |-> st, base |-> base, etag |-> etag,
                 r |-> 0]
<1>3. X \in Processo /\ X.pc = pc /\ X.p = p /\ X.r = 0
  <2>1. 0 \in 0..MaxCorridas
    BY LimitesAtualizacoes
  <2> QED BY <2>1 DEF Processo
<1>1. PICK x \in Processo : x = X /\ x.pc = pc /\ x.p = p /\ x.r = 0
  BY <1>3
<1>2. proc' = [proc EXCEPT ![w] = x]
  BY <1>1 DEF Passa
<1> QED BY <1>1, <1>2 DEF TipoAtualizacoes

LEMMA SegueProc ==
    ASSUME TipoAtualizacoes, NEW w \in Processos, NEW pc \in Passos, Segue(w, pc)
    PROVE  /\ proc' \in [Processos -> Processo]
           /\ proc'[w].pc = pc /\ proc'[w].p = proc[w].p /\ proc'[w].r = proc[w].r
           /\ \A v \in Processos \ {w} : proc'[v] = proc[v]
<1>1. PICK x : x = [proc[w] EXCEPT !.pc = pc]
  OBVIOUS
<1>2. proc[w] \in Processo
  BY DEF TipoAtualizacoes
<1>3. x \in Processo /\ x.pc = pc /\ x.p = proc[w].p /\ x.r = proc[w].r
  BY <1>1, <1>2 DEF Processo
<1>4. proc' = [proc EXCEPT ![w] = x]
  BY <1>1 DEF Segue
<1> QED BY <1>3, <1>4 DEF TipoAtualizacoes

(* What is counted besides publications.                                   *)
LEMMA SemPublicar ==
    ASSUME IInv, remoto' = remoto,
           usados' = usados \/ \E b \in Eventos, max \in Nat : Usa(b, max)
    PROVE  /\ usados' \in [Eventos -> Nat]
           /\ remoto'.versao - 1 <= usados'["publicacoes"]
<1>1. /\ usados \in [Eventos -> Nat] /\ remoto.versao \in Nat
      /\ "publicacoes" \in Eventos /\ remoto.versao - 1 <= usados["publicacoes"]
  BY DEF IInv, TipoAtualizacoes, Formas, Eventos
<1>2. /\ usados' \in [Eventos -> Nat]
      /\ usados["publicacoes"] <= usados'["publicacoes"]
  BY <1>1 DEF Usa
<1> QED BY <1>1, <1>2

-----------------------------------------------------------------------------
(* What a step does to the runs and to the updates.  Runs keep the update  *)
(* they were made for, their success and their content.                    *)
CorridasSeguem ==
    \A r \in Corridas :
      /\ corrida[r].de # 0 => corrida'[r].de = corrida[r].de
      /\ corrida[r].st \in Sucesso => corrida'[r].st \in Sucesso
      /\ corrida[r].conteudo # 0 => corrida'[r].conteudo # 0
      /\ corrida'[r].st = "nenhuma" => corrida'[r].de = 0 /\ corrida'[r].conteudo = 0

(* An update keeps its link or gets one of its own, and becomes ingested   *)
(* only by a success.                                                      *)
PendSegue(p) ==
    /\ \/ pend'[p].run = pend[p].run \/ pend'[p].run = 0
       \/ corrida'[pend'[p].run].de = p
    /\ pend'[p].st = "ingested" =>
         \/ pend[p].st = "ingested" /\ pend'[p].base = pend[p].base
         \/ pend'[p].base # 0 /\ corrida'[pend'[p].base].st \in Sucesso

LEMMA VinculoSegue ==
    ASSUME IInv, TipoAtualizacoes', CorridasSeguem, \A p \in Pendencias : PendSegue(p)
    PROVE  Vinculo'
<1> SUFFICES ASSUME NEW p \in Pendencias
             PROVE  /\ pend'[p].run # 0 => corrida'[pend'[p].run].de = p
                    /\ pend'[p].st = "ingested" =>
                         /\ pend'[p].base # 0
                         /\ corrida'[pend'[p].base].st \in Sucesso
  BY DEF Vinculo
<1>1. p # 0
  BY DEF Pendencias
<1>2. /\ pend[p].run # 0 => pend[p].run \in Corridas
      /\ pend[p].base # 0 => pend[p].base \in Corridas
  <2>1. pend[p] \in Pendencia
    BY DEF IInv, TipoAtualizacoes
  <2> QED BY <2>1, LimitesAtualizacoes DEF Pendencia, Corridas
<1>3. Vinculo /\ PendSegue(p)
  BY DEF IInv
<1>4. pend'[p].run # 0 => corrida'[pend'[p].run].de = p
  BY <1>1, <1>2, <1>3 DEF Vinculo, PendSegue, CorridasSeguem
<1>5. pend'[p].st = "ingested" => /\ pend'[p].base # 0
                                  /\ corrida'[pend'[p].base].st \in Sucesso
  BY <1>2, <1>3 DEF Vinculo, PendSegue, CorridasSeguem
<1> QED BY <1>4, <1>5

(* A synchronization whose run still is the same one and has not           *)
(* succeeded in the meantime.                                              *)
LEMMA RunDela ==
    ASSUME IInv, NEW w \in Processos, proc[w].r # 0
    PROVE  /\ proc[w].r \in Corridas /\ proc[w].p \in Pendencias
           /\ corrida[proc[w].r].de # 0 /\ proc[w].pc \in PcIngestao
<1>1. proc[w] \in Processo /\ Dona(w)
  BY DEF IInv, TipoAtualizacoes, Donas
<1>2. proc[w].pc \in PcIngestao
  BY <1>1 DEF Dona
<1>3. proc[w].p # 0
  BY <1>2 DEF IInv, Formas, PcBaixado, PcIngestao
<1> QED BY <1>1, <1>2, <1>3, LimitesAtualizacoes
        DEF Processo, Corridas, Pendencias, Dona

(* Steps that no process takes.                                            *)
LEMMA QuadroLivre ==
    ASSUME IInv, TipoAtualizacoes', CorridasSeguem, proc' = proc,
           remoto'.versao - 1 <= usados'["publicacoes"],
           \A p \in Pendencias : PendSegue(p),
           \A r \in Corridas : corrida'[r].st \in Sucesso => corrida[r].st \in Sucesso
    PROVE  IInv'
<1>1. Formas'
  BY DEF Formas, IInv, CorridasSeguem
<1>2. ASSUME NEW w \in Processos PROVE Dona(w)'
  <2>1. Dona(w)
    BY DEF IInv, Donas
  <2>2. PICK r : r = proc[w].r /\ r = proc'[w].r
    OBVIOUS
  <2>3. r # 0 => /\ corrida'[r].de = corrida[r].de
                 /\ corrida'[r].st \in Sucesso => corrida[r].st \in Sucesso
                 /\ corrida[r].conteudo # 0 => corrida'[r].conteudo # 0
    BY <2>2, RunDela DEF CorridasSeguem
  <2> QED BY <2>1, <2>2, <2>3 DEF Dona
<1> QED BY <1>1, <1>2, VinculoSegue DEF IInv, Donas

(* Steps of process w: nobody else brings a run to success, and if it has  *)
(* a run afterwards that is its own, or one made for nobody so far.        *)
LEMMA QuadroDe ==
    ASSUME IInv, TipoAtualizacoes', CorridasSeguem, NEW w \in Processos,
           \A v \in Processos \ {w} : proc'[v] = proc[v],
           remoto'.versao - 1 <= usados'["publicacoes"],
           \A p \in Pendencias : PendSegue(p),
           \A r \in Corridas : corrida'[r].st \in Sucesso =>
                                  corrida[r].st \in Sucesso \/ proc[w].r = r,
           proc'[w].pc \notin {"livre", "sonda", "inserir"} => proc'[w].p # 0,
           proc'[w].r # 0 <=> proc'[w].pc \in PcIngestao,
           proc'[w].r # 0 =>
              /\ corrida'[proc'[w].r].de = proc'[w].p
              /\ corrida'[proc'[w].r].st \in Sucesso => proc'[w].pc = "fechar"
              /\ proc'[w].pc \in PcBaixado => corrida'[proc'[w].r].conteudo # 0
              /\ proc'[w].r = proc[w].r \/ corrida[proc'[w].r].de = 0
    PROVE  IInv'
<1>1. Formas'
  <2>1. \A v \in Processos : proc'[v].pc \notin {"livre", "sonda", "inserir"}
                                => proc'[v].p # 0
    BY DEF IInv, Formas
  <2> QED BY <2>1 DEF Formas, CorridasSeguem
<1>2. ASSUME NEW v \in Processos, v # w, proc[v].r # 0
      PROVE  proc'[w].r # proc[v].r
  <2>1. Dona(v)
    BY DEF IInv, Donas
  <2>2. proc[w].r # proc[v].r
    BY <1>2, <2>1 DEF Dona
  <2>3. corrida[proc[v].r].de # 0
    BY <1>2, RunDela
  <2> QED BY <1>2, <2>2, <2>3
<1>3. ASSUME NEW v \in Processos, v # w PROVE Dona(v)'
  <2>1. Dona(v)
    BY DEF IInv, Donas
  <2>2. PICK x : x = proc[v] /\ x = proc'[v]
    BY <1>3
  <2>3. PICK r : r = x.r
    OBVIOUS
  <2>4. r # 0 => /\ r \in Corridas
                 /\ corrida'[r].de = corrida[r].de
                 /\ corrida'[r].st \in Sucesso => corrida[r].st \in Sucesso
                 /\ corrida[r].conteudo # 0 => corrida'[r].conteudo # 0
    <3> SUFFICES ASSUME r # 0
                 PROVE  /\ r \in Corridas
                        /\ corrida'[r].de = corrida[r].de
                        /\ corrida'[r].st \in Sucesso => corrida[r].st \in Sucesso
                        /\ corrida[r].conteudo # 0 => corrida'[r].conteudo # 0
      OBVIOUS
    <3>1. r \in Corridas /\ corrida[r].de # 0
      BY <2>2, <2>3, RunDela
    <3>2. proc[w].r # r
      BY <1>3, <2>1, <2>2, <2>3 DEF Dona
    <3> QED BY <3>1, <3>2 DEF CorridasSeguem
  <2>5. r # 0 => \A u \in Processos \ {v} : proc'[u].r # r
    <3> SUFFICES ASSUME r # 0, NEW u \in Processos \ {v} PROVE proc'[u].r # r
      OBVIOUS
    <3>1. CASE u = w
      BY <1>2, <1>3, <2>2, <2>3, <3>1
    <3>2. CASE u # w
      <4>1. proc'[u] = proc[u] /\ proc[u].r # r
        BY <2>1, <2>2, <2>3, <3>2 DEF Dona
      <4> QED BY <4>1
    <3> QED BY <3>1, <3>2
  <2> QED BY <2>1, <2>2, <2>3, <2>4, <2>5 DEF Dona
<1>4. Dona(w)'
  <2>1. proc'[w].r # 0 => \A v \in Processos \ {w} : proc'[v].r # proc'[w].r
    <3> SUFFICES ASSUME proc'[w].r # 0, NEW v \in Processos \ {w}
                 PROVE  proc'[v].r # proc'[w].r
      OBVIOUS
    <3> QED BY <1>2
  <2> QED BY <2>1 DEF Dona
<1> QED BY <1>1, <1>3, <1>4, VinculoSegue DEF IInv, Donas

-----------------------------------------------------------------------------
(* What is written to a row of each table.                                 *)
LEMMA MesmaPend ==
    ASSUME pend' = pend
    PROVE  \A p \in Pendencias : PendSegue(p)
BY DEF PendSegue

LEMMA LinhaPend ==
    ASSUME TipoAtualizacoes, NEW p \in Pendencias, NEW u \in Pendencia,
           pend' = [pend EXCEPT ![p] = u],
           u.run = pend[p].run \/ u.run = 0 \/ corrida'[u.run].de = p,
           u.st = "ingested" =>
              \/ pend[p].st = "ingested" /\ u.base = pend[p].base
              \/ u.base # 0 /\ corrida'[u.base].st \in Sucesso
    PROVE  /\ pend' \in [Pendencias -> Pendencia]
           /\ \A q \in Pendencias : PendSegue(q)
<1>1. pend \in [Pendencias -> Pendencia]
  BY DEF TipoAtualizacoes
<1>2. /\ pend' \in [Pendencias -> Pendencia] /\ pend'[p] = u
      /\ \A q \in Pendencias \ {p} : pend'[q] = pend[q]
  BY <1>1
<1>3. ASSUME NEW q \in Pendencias PROVE PendSegue(q)
  <2>1. CASE q = p
    BY <1>2, <2>1 DEF PendSegue
  <2>2. CASE q # p
    BY <1>2, <2>2 DEF PendSegue
  <2> QED BY <2>1, <2>2
<1> QED BY <1>2, <1>3

(* Another status, not that of an update that was ingested.                *)
LEMMA PoeTipo ==
    ASSUME TipoAtualizacoes, NEW p \in Pendencias,
           NEW s \in StatusPendencia \ {"ingested"}, PoeStatus(p, s)
    PROVE  /\ pend' \in [Pendencias -> Pendencia]
           /\ \A q \in Pendencias : PendSegue(q)
<1>1. PICK u : u = [pend[p] EXCEPT !.st = s]
  OBVIOUS
<1>2. pend[p] \in Pendencia
  BY DEF TipoAtualizacoes
<1>3. u \in Pendencia /\ u.st = s /\ u.run = pend[p].run
  BY <1>1, <1>2 DEF Pendencia
<1>4. pend' = [pend EXCEPT ![p] = u]
  BY <1>1 DEF PoeStatus
<1>5. u.st # "ingested"
  BY <1>3
<1> QED BY <1>3, <1>4, <1>5, LinhaPend

(* finalize_pending_update_for_run, with a status that the run has.        *)
LEMMA FinalizadaTipo ==
    ASSUME TipoAtualizacoes, NEW p \in Pendencias, NEW r \in Corridas, NEW st,
           NEW retry \in BOOLEAN,
           pend' = [pend EXCEPT ![p] = Finalizada(@, r, st, retry)],
           st \in Sucesso => corrida'[r].st \in Sucesso
    PROVE  /\ pend' \in [Pendencias -> Pendencia]
           /\ \A q \in Pendencias : PendSegue(q)
<1>1. PICK u : u = Finalizada(pend[p], r, st, retry)
  OBVIOUS
<1>2. pend[p] \in Pendencia /\ r \in 0..MaxCorridas /\ r # 0 /\ 0 \in 0..MaxCorridas
  BY LimitesAtualizacoes DEF TipoAtualizacoes, Corridas
<1>3. pend' = [pend EXCEPT ![p] = u]
  BY <1>1
<1>4. CASE st \in Sucesso
  <2>1. u = [pend[p] EXCEPT !.st = "ingested", !.base = r, !.run = 0]
    BY <1>1, <1>4 DEF Finalizada
  <2>2. u \in Pendencia /\ u.run = 0 /\ u.base = r
    BY <1>2, <2>1 DEF Pendencia, StatusPendencia, Reconciliaveis
  <2> QED BY <1>2, <1>3, <1>4, <2>2, LinhaPend
<1>5. CASE st \notin Sucesso /\ st \in Fracasso
  <2>1. u = [pend[p] EXCEPT !.st = "ingestion_failed", !.run = 0, !.retry = retry]
    BY <1>1, <1>5 DEF Finalizada
  <2>2. u \in Pendencia /\ u.run = 0 /\ u.st = "ingestion_failed"
    BY <1>2, <2>1 DEF Pendencia, StatusPendencia, Reconciliaveis
  <2>3. u.st # "ingested"
    BY <2>2
  <2> QED BY <1>3, <2>2, <2>3, LinhaPend
<1>6. CASE st \notin Sucesso /\ st \notin Fracasso
  <2>1. u = pend[p]
    BY <1>1, <1>6 DEF Finalizada
  <2> QED BY <1>2, <1>3, <2>1, LinhaPend
<1> QED BY <1>4, <1>5, <1>6

LEMMA MesmasCorridas ==
    ASSUME IInv, corrida' = corrida
    PROVE  CorridasSeguem
BY DEF CorridasSeguem, IInv, Formas

LEMMA LinhaCorrida ==
    ASSUME IInv, NEW r \in Corridas, NEW x \in Corrida,
           corrida' = [corrida EXCEPT ![r] = x],
           x.de = corrida[r].de \/ corrida[r].de = 0,
           x.st # "nenhuma",
           corrida[r].st \in Sucesso => x.st \in Sucesso,
           corrida[r].conteudo # 0 => x.conteudo # 0
    PROVE  /\ corrida' \in [Corridas -> Corrida] /\ CorridasSeguem
           /\ corrida'[r] = x
           /\ \A q \in Corridas \ {r} : corrida'[q] = corrida[q]
<1>1. corrida \in [Corridas -> Corrida]
  BY DEF IInv, TipoAtualizacoes
<1>2. /\ corrida' \in [Corridas -> Corrida] /\ corrida'[r] = x
      /\ \A q \in Corridas \ {r} : corrida'[q] = corrida[q]
  BY <1>1
<1>3. ASSUME NEW q \in Corridas
      PROVE  /\ corrida[q].de # 0 => corrida'[q].de = corrida[q].de
             /\ corrida[q].st \in Sucesso => corrida'[q].st \in Sucesso
             /\ corrida[q].conteudo # 0 => corrida'[q].conteudo # 0
             /\ corrida'[q].st = "nenhuma" =>
                   corrida'[q].de = 0 /\ corrida'[q].conteudo = 0
  <2>1. CASE q = r
    BY <1>2, <2>1
  <2>2. CASE q # r
    BY <1>2, <2>2 DEF IInv, Formas
  <2> QED BY <2>1, <2>2
<1> QED BY <1>2, <1>3 DEF CorridasSeguem

-----------------------------------------------------------------------------
(* The publisher, the operator and the sweeps.                             *)
LEMMA PublicarPreserva ==
    ASSUME IInv, NEW c \in Conteudos, Publicar(c)
    PROVE  IInv'
<1>1. "publicacoes" \in Eventos
  BY DEF Eventos
<1>2. PICK n \in Nat : n = usados["publicacoes"] /\ n < MaxVersoes - 1
  BY <1>1 DEF IInv, TipoAtualizacoes, Publicar, Usa
<1>3. /\ usados' \in [Eventos -> Nat] /\ usados'["publicacoes"] = n + 1
  BY <1>1, <1>2 DEF IInv, TipoAtualizacoes, Publicar, Usa
<1>4. PICK v \in 1..MaxVersoes : v = remoto.versao /\ v - 1 <= n
  BY <1>2 DEF IInv, TipoAtualizacoes, Formas
<1>5. remoto' = [versao |-> v + 1, conteudo |-> c]
  BY <1>4 DEF Publicar
<1>6. v + 1 \in 1..MaxVersoes /\ v + 1 - 1 <= n + 1
  BY <1>2, <1>4, LimitesAtualizacoes
<1>7. remoto' \in [versao: 1..MaxVersoes, conteudo: Conteudos] /\ remoto'.versao = v + 1
  BY <1>5, <1>6
<1>8. /\ TipoAtualizacoes' /\ proc' = proc /\ pend' = pend /\ corrida' = corrida
  BY <1>3, <1>7 DEF IInv, TipoAtualizacoes, Publicar, filas
<1> QED BY <1>3, <1>6, <1>7, <1>8, MesmaPend, MesmasCorridas, QuadroLivre

(* The operator and the sweeps publish nothing.                            *)
LEMMA ReconhecerPreserva ==
    ASSUME IInv, NEW p \in Pendencias, Reconhecer(p)
    PROVE  IInv'
<1>1. /\ PoeStatus(p, "reference_updated") /\ corrida' = corrida /\ proc' = proc
      /\ refs' = [refs EXCEPT ![pend[p].base] = pend[p].comparado]
      /\ UNCHANGED <<fora, filas, usados>>
  BY DEF Reconhecer
<1>2. pend[p] \in Pendencia /\ refs \in [Corridas -> 0..MaxVersoes]
  BY DEF IInv, TipoAtualizacoes
<1>3. refs' \in [Corridas -> 0..MaxVersoes]
  BY <1>1, <1>2 DEF Pendencia
<1>4. "reference_updated" \in StatusPendencia \ {"ingested"}
  BY DEF StatusPendencia
<1>5. pend' \in [Pendencias -> Pendencia] /\ \A q \in Pendencias : PendSegue(q)
  BY <1>1, <1>4, PoeTipo DEF IInv
<1>6. TipoAtualizacoes'
  BY <1>1, <1>3, <1>5 DEF IInv, TipoAtualizacoes, fora, filas
<1> QED BY <1>1, <1>5, <1>6, MesmasCorridas, QuadroLivre DEF IInv, Formas, fora

LEMMA DescartarPreserva ==
    ASSUME IInv, NEW p \in Pendencias, Descartar(p)
    PROVE  IInv'
<1>1. /\ PoeStatus(p, "discarded") /\ corrida' = corrida /\ proc' = proc
      /\ Usa("descartes", MaxDescartes) /\ UNCHANGED <<fora, filas, refs>>
  BY DEF Descartar
<1>2. usados' \in [Eventos -> Nat] /\ remoto'.versao - 1 <= usados'["publicacoes"]
  BY <1>1, SemPublicar, LimitesAtualizacoes DEF Eventos, fora
<1>3. "discarded" \in StatusPendencia \ {"ingested"}
  BY DEF StatusPendencia
<1>4. pend' \in [Pendencias -> Pendencia] /\ \A q \in Pendencias : PendSegue(q)
  BY <1>1, <1>3, PoeTipo DEF IInv
<1>5. TipoAtualizacoes'
  BY <1>1, <1>2, <1>4 DEF IInv, TipoAtualizacoes, fora, filas
<1> QED BY <1>1, <1>2, <1>4, <1>5, MesmasCorridas, QuadroLivre

(* Read-repair finalizes with the run that the row names.                  *)
LEMMA ReconciliarPreserva ==
    ASSUME IInv, NEW p \in Pendencias, Reconciliar(p)
    PROVE  IInv'
<1>1. pend[p] \in Pendencia /\ corrida \in [Corridas -> Corrida]
  BY DEF IInv, TipoAtualizacoes
<1>2. PICK r : /\ r \in {pend[p].run, pend[p].base} /\ r # 0
               /\ pend' = [pend EXCEPT ![p] =
                              Finalizada(@, r, corrida[r].st, corrida[r].retry)]
  BY DEF Reconciliar
<1>3. r \in Corridas
  BY <1>1, <1>2, LimitesAtualizacoes DEF Pendencia, Corridas
<1>4. PICK st \in StatusCorrida, retry \in BOOLEAN :
         st = corrida[r].st /\ retry = corrida[r].retry
  <2>1. corrida[r] \in Corrida
    BY <1>1, <1>3
  <2>2. corrida[r].retry \in BOOLEAN /\ corrida[r].st \in StatusCorrida
    BY <2>1 DEF Corrida
  <2> QED BY <2>2
<1>5. corrida' = corrida /\ proc' = proc /\ UNCHANGED <<fora, refs, filas, usados>>
  BY DEF Reconciliar
<1>6. pend' = [pend EXCEPT ![p] = Finalizada(@, r, st, retry)]
  BY <1>2, <1>4
<1>7. pend' \in [Pendencias -> Pendencia] /\ \A q \in Pendencias : PendSegue(q)
  BY <1>3, <1>4, <1>5, <1>6, FinalizadaTipo DEF IInv
<1>8. TipoAtualizacoes'
  BY <1>5, <1>7 DEF IInv, TipoAtualizacoes, fora, filas
<1>9. remoto'.versao - 1 <= usados'["publicacoes"]
  BY <1>5 DEF IInv, Formas, fora
<1> QED BY <1>5, <1>7, <1>8, <1>9, MesmasCorridas, QuadroLivre

(* A cancellation or a sweep ends a run that had not succeeded.            *)
LEMMA EncerraPreserva ==
    ASSUME IInv, NEW r \in Corridas, corrida[r].st \in {"ativa", "aguardando"},
           NEW x \in Corrida, x.de = corrida[r].de, x.st \in Fracasso,
           x.conteudo = corrida[r].conteudo,
           corrida' = [corrida EXCEPT ![r] = x],
           usados' = usados \/ \E b \in Eventos, max \in Nat : Usa(b, max),
           UNCHANGED <<fora, pend, refs, filas, proc>>
    PROVE  IInv'
<1>1. corrida[r].st \notin Sucesso /\ x.st \notin Sucesso /\ x.st # "nenhuma"
  BY DEF Sucesso, Fracasso
<1>2. /\ corrida' \in [Corridas -> Corrida] /\ CorridasSeguem /\ corrida'[r] = x
      /\ \A q \in Corridas \ {r} : corrida'[q] = corrida[q]
  BY <1>1, LinhaCorrida
<1>3. \A q \in Corridas : corrida'[q].st \in Sucesso => corrida[q].st \in Sucesso
  BY <1>1, <1>2
<1>4. usados' \in [Eventos -> Nat] /\ remoto'.versao - 1 <= usados'["publicacoes"]
  BY SemPublicar DEF fora
<1>5. TipoAtualizacoes' /\ proc' = proc /\ pend' = pend
  BY <1>2, <1>4 DEF IInv, TipoAtualizacoes, fora, filas
<1> QED BY <1>2, <1>3, <1>4, <1>5, MesmaPend, QuadroLivre

LEMMA CancelarCorridaPreserva ==
    ASSUME IInv, NEW r \in Corridas, CancelarCorrida(r)
    PROVE  IInv'
<1>1. PICK x : x = [corrida[r] EXCEPT !.st = "cancelada"]
  OBVIOUS
<1>2. corrida[r] \in Corrida
  BY DEF IInv, TipoAtualizacoes
<1>3. /\ x \in Corrida /\ x.de = corrida[r].de /\ x.st \in Fracasso
      /\ x.conteudo = corrida[r].conteudo
  BY <1>1, <1>2 DEF Corrida, StatusCorrida, Fracasso
<1>4. corrida' = [corrida EXCEPT ![r] = x]
  BY <1>1 DEF CancelarCorrida
<1>5. \E b \in Eventos, max \in Nat : Usa(b, max)
  BY LimitesAtualizacoes DEF CancelarCorrida, Eventos
<1>6. /\ corrida[r].st \in {"ativa", "aguardando"}
      /\ UNCHANGED <<fora, pend, refs, filas, proc>>
  BY DEF CancelarCorrida
<1> QED BY <1>3, <1>4, <1>5, <1>6, EncerraPreserva

LEMMA VarrerPreserva ==
    ASSUME IInv, NEW r \in Corridas, Varrer(r)
    PROVE  IInv'
<1>1. PICK retry \in BOOLEAN :
         corrida' = [corrida EXCEPT ![r].st = "falha", ![r].retry = retry]
  BY DEF Varrer
<1>2. PICK x : x = [corrida[r] EXCEPT !.st = "falha", !.retry = retry]
  OBVIOUS
<1>3. corrida[r] \in Corrida
  BY DEF IInv, TipoAtualizacoes
<1>4. /\ x \in Corrida /\ x.de = corrida[r].de /\ x.st \in Fracasso
      /\ x.conteudo = corrida[r].conteudo
  BY <1>2, <1>3 DEF Corrida, StatusCorrida, Fracasso
<1>5. corrida' = [corrida EXCEPT ![r] = x]
  <2>1. corrida \in [Corridas -> Corrida]
    BY DEF IInv, TipoAtualizacoes
  <2> QED BY <1>1, <1>2, <2>1
<1>6. usados' = usados \/ \E b \in Eventos, max \in Nat : Usa(b, max)
  BY LimitesAtualizacoes DEF Varrer, Eventos
<1>7. /\ corrida[r].st \in {"ativa", "aguardando"}
      /\ UNCHANGED <<fora, pend, refs, filas, proc>>
  BY DEF Varrer
<1> QED BY <1>4, <1>5, <1>6, <1>7, EncerraPreserva

-----------------------------------------------------------------------------
(* The scanner and the analysis: process w has no run before or after.     *)
LEMMA SemRun ==
    ASSUME IInv, NEW w \in Processos, proc' \in [Processos -> Processo],
           \A v \in Processos \ {w} : proc'[v] = proc[v],
           proc'[w].r = 0, proc'[w].pc \in Passos \ PcIngestao,
           proc'[w].pc \notin {"livre", "sonda", "inserir"} => proc'[w].p # 0,
           corrida' = corrida, UNCHANGED <<fora, refs>>,
           analises' \subseteq Pendencias, ingestoes' \in [Pendencias -> Nat],
           usados' = usados \/ \E b \in Eventos, max \in Nat : Usa(b, max),
           pend' \in [Pendencias -> Pendencia], \A p \in Pendencias : PendSegue(p)
    PROVE  IInv'
<1>1. usados' \in [Eventos -> Nat] /\ remoto'.versao - 1 <= usados'["publicacoes"]
  BY SemPublicar DEF fora
<1>2. TipoAtualizacoes'
  BY <1>1 DEF IInv, TipoAtualizacoes, fora
<1>3. CorridasSeguem
  BY MesmasCorridas
<1>4. \A r \in Corridas : corrida'[r].st \in Sucesso =>
                              corrida[r].st \in Sucesso \/ proc[w].r = r
  OBVIOUS
<1> QED BY <1>1, <1>2, <1>3, <1>4, QuadroDe

(* The same when the rows of updates are left alone.                       *)
LEMMA SemRunNemPend ==
    ASSUME IInv, NEW w \in Processos, proc' \in [Processos -> Processo],
           \A v \in Processos \ {w} : proc'[v] = proc[v],
           proc'[w].r = 0, proc'[w].pc \in Passos \ PcIngestao,
           proc'[w].pc \notin {"livre", "sonda", "inserir"} => proc'[w].p # 0,
           corrida' = corrida, pend' = pend, UNCHANGED <<fora, refs>>,
           analises' \subseteq Pendencias, ingestoes' \in [Pendencias -> Nat],
           usados' = usados \/ \E b \in Eventos, max \in Nat : Usa(b, max)
    PROVE  IInv'
<1>1. pend' \in [Pendencias -> Pendencia]
  BY DEF IInv, TipoAtualizacoes
<1> QED BY <1>1, MesmaPend, SemRun

(* What the row of an update and a process hold.                           *)
LEMMA Zeros ==
    /\ "nenhuma" \in StatusPendencia
    /\ 0 \in 0..MaxPendencias /\ 0 \in 0..MaxCorridas /\ 0 \in 0..MaxVersoes
BY LimitesAtualizacoes DEF StatusPendencia

LEMMA CamposPend ==
    ASSUME TipoAtualizacoes, NEW p \in Pendencias
    PROVE  /\ p \in 0..MaxPendencias /\ p # 0
           /\ pend[p] \in Pendencia /\ pend[p].st \in StatusPendencia
           /\ pend[p].base \in 0..MaxCorridas /\ pend[p].etag \in 0..MaxVersoes
<1>1. pend[p] \in Pendencia
  BY DEF TipoAtualizacoes
<1> QED BY <1>1, LimitesAtualizacoes DEF Pendencias, Pendencia

LEMMA CamposProc ==
    ASSUME TipoAtualizacoes, NEW w \in Processos
    PROVE  /\ proc[w] \in Processo /\ proc[w].p \in 0..MaxPendencias
           /\ proc[w].st \in StatusPendencia
           /\ proc[w].base \in 0..MaxCorridas /\ proc[w].etag \in 0..MaxVersoes
           /\ proc[w].p # 0 => proc[w].p \in Pendencias
<1>1. proc[w] \in Processo
  BY DEF TipoAtualizacoes
<1> QED BY <1>1, LimitesAtualizacoes DEF Pendencias, Processo

LEMMA CamposFila ==
    ASSUME TipoAtualizacoes
    PROVE  /\ analises \subseteq Pendencias /\ ingestoes \in [Pendencias -> Nat]
           /\ remoto.versao \in 0..MaxVersoes /\ remoto.conteudo \in Conteudos
BY LimitesAtualizacoes DEF TipoAtualizacoes

(* The facts above, of a state of the invariant.                           *)
LEMMA Campos ==
    ASSUME IInv
    PROVE  /\ analises \subseteq Pendencias /\ ingestoes \in [Pendencias -> Nat]
           /\ 0 \in 0..MaxPendencias /\ 0 \in 0..MaxCorridas /\ 0 \in 0..MaxVersoes
BY Zeros, CamposFila DEF IInv

LEMMA ScanLePreserva ==
    ASSUME IInv, NEW w \in Processos, ScanLe(w)
    PROVE  IInv'
<1>1. PICK p \in 0..MaxPendencias, st \in StatusPendencia, etag \in 0..MaxVersoes :
         Passa(w, "sonda", p, st, Ultima, etag)
  BY Zeros, CamposPend DEF ScanLe, IInv
<1>2. Ultima \in 0..MaxCorridas /\ "sonda" \in Passos \ PcIngestao
  BY UltimaTipo DEF Passos, PcBaixado, PcIngestao
<1>3. PICK u \in 0..MaxCorridas : u = Ultima
  BY <1>2
<1>4. Passa(w, "sonda", p, st, u, etag)
  BY <1>1, <1>3
<1>5. /\ proc' \in [Processos -> Processo]
      /\ proc'[w].pc = "sonda" /\ proc'[w].r = 0
      /\ \A v \in Processos \ {w} : proc'[v] = proc[v]
  BY <1>2, <1>4, PassaProc DEF IInv
<1>6. UNCHANGED <<fora, corrida, pend, refs, filas, usados>>
  BY DEF ScanLe
<1> QED BY <1>2, <1>5, <1>6, Campos, SemRunNemPend DEF filas

(* Steps that end a task and leave the rows alone.                         *)
LEMMA LargaPreserva ==
    ASSUME IInv, NEW w \in Processos, Larga(w), corrida' = corrida, pend' = pend,
           UNCHANGED <<fora, refs>>,
           analises' \subseteq Pendencias, ingestoes' \in [Pendencias -> Nat],
           usados' = usados \/ \E b \in Eventos, max \in Nat : Usa(b, max)
    PROVE  IInv'
<1>1. /\ proc' \in [Processos -> Processo]
      /\ proc'[w].pc = "livre" /\ proc'[w].r = 0
      /\ \A v \in Processos \ {w} : proc'[v] = proc[v]
  BY LargaProc DEF IInv
<1>2. "livre" \in Passos \ PcIngestao
  BY DEF Passos, PcBaixado, PcIngestao
<1> QED BY <1>1, <1>2, SemRunNemPend

(* ... and write the row p of an update.                                   *)
LEMMA LargaPend ==
    ASSUME IInv, NEW w \in Processos, Larga(w), corrida' = corrida,
           UNCHANGED <<fora, refs, filas>>,
           usados' = usados \/ \E b \in Eventos, max \in Nat : Usa(b, max),
           pend' \in [Pendencias -> Pendencia], \A p \in Pendencias : PendSegue(p)
    PROVE  IInv'
<1>1. /\ proc' \in [Processos -> Processo]
      /\ proc'[w].pc = "livre" /\ proc'[w].r = 0
      /\ \A v \in Processos \ {w} : proc'[v] = proc[v]
  BY LargaProc DEF IInv
<1>2. "livre" \in Passos \ PcIngestao
  BY DEF Passos, PcBaixado, PcIngestao
<1> QED BY <1>1, <1>2, Campos, SemRun DEF filas

(* A task that goes on to another of its steps.                            *)
LEMMA PassaPend ==
    ASSUME IInv, NEW w \in Processos, NEW pc \in Passos \ PcIngestao,
           NEW p \in 0..MaxPendencias, NEW st \in StatusPendencia,
           NEW base \in 0..MaxCorridas, NEW etag \in 0..MaxVersoes,
           Passa(w, pc, p, st, base, etag),
           pc = "inserir" \/ p # 0,
           corrida' = corrida, UNCHANGED <<fora, refs>>,
           analises' \subseteq Pendencias, ingestoes' \in [Pendencias -> Nat],
           usados' = usados \/ \E b \in Eventos, max \in Nat : Usa(b, max),
           pend' \in [Pendencias -> Pendencia], \A q \in Pendencias : PendSegue(q)
    PROVE  IInv'
<1>1. /\ proc' \in [Processos -> Processo]
      /\ proc'[w].pc = pc /\ proc'[w].p = p /\ proc'[w].r = 0
      /\ \A v \in Processos \ {w} : proc'[v] = proc[v]
  BY PassaProc DEF IInv
<1> QED BY <1>1, SemRun

(* What the scan commits: a row that was not there, ...                    *)
LEMMA Nova ==
    ASSUME IInv, NEW p \in NovaPendencia, NEW st \in StatusPendencia \ {"ingested"},
           NEW base \in 0..MaxCorridas, NEW etag \in 0..MaxVersoes,
           pend' = [pend EXCEPT ![p] =
                      [SemPendencia EXCEPT !.st = st, !.base = base, !.etag = etag]]
    PROVE  /\ p \in Pendencias
           /\ pend' \in [Pendencias -> Pendencia]
           /\ \A q \in Pendencias : PendSegue(q)
<1>1. p \in Pendencias
  BY DEF NovaPendencia
<1>2. PICK u : u = [SemPendencia EXCEPT !.st = st, !.base = base, !.etag = etag]
  OBVIOUS
<1>3. u = [st |-> st, run |-> 0, base |-> base, etag |-> etag,
           comparado |-> 0, igual |-> FALSE, retry |-> FALSE]
  BY <1>2 DEF SemPendencia
<1>4. u \in Pendencia /\ u.run = 0 /\ u.st = st
  BY <1>3, Zeros DEF Pendencia
<1>5. u.st # "ingested"
  BY <1>4
<1>6. pend' = [pend EXCEPT ![p] = u]
  BY <1>2
<1> QED BY <1>1, <1>4, <1>5, <1>6, LinhaPend DEF IInv

(* ... or the row p refreshed, which keeps its run and base.               *)
LEMMA Refeita ==
    ASSUME IInv, NEW p \in Pendencias, NEW st \in StatusPendencia,
           st # "ingested" \/ st = pend[p].st,
           NEW etag \in 0..MaxVersoes, NEW cmp \in 0..MaxVersoes,
           NEW igual \in BOOLEAN,
           pend' = [pend EXCEPT ![p] =
              [pend[p] EXCEPT !.st = st, !.etag = etag, !.comparado = cmp,
                              !.igual = igual]]
    PROVE  /\ pend' \in [Pendencias -> Pendencia]
           /\ \A q \in Pendencias : PendSegue(q)
<1>1. PICK u : u = [pend[p] EXCEPT !.st = st, !.etag = etag, !.comparado = cmp,
                                   !.igual = igual]
  OBVIOUS
<1>2. pend[p] \in Pendencia
  BY CamposPend DEF IInv
<1>3. u \in Pendencia /\ u.run = pend[p].run /\ u.st = st /\ u.base = pend[p].base
  BY <1>1, <1>2 DEF Pendencia
<1>4. pend' = [pend EXCEPT ![p] = u]
  BY <1>1
<1>5. u.st = "ingested" => pend[p].st = "ingested" /\ u.base = pend[p].base
  BY <1>3
<1> QED BY <1>3, <1>4, <1>5, LinhaPend DEF IInv

LEMMA ScanInalteradoPreserva ==
    ASSUME IInv, NEW w \in Processos, ScanInalterado(w)
    PROVE  IInv'
<1>1. UNCHANGED <<fora, corrida, pend, refs, filas, usados>>
  BY DEF ScanInalterado
<1>2. CASE Larga(w)
  BY <1>1, <1>2, Campos, LargaPreserva DEF filas
<1>3. CASE proc[w].p # 0 /\ Passa(w, "marcar", proc[w].p, "nenhuma", 0, 0)
  <2>1. "marcar" \in Passos \ PcIngestao
    BY DEF Passos, PcBaixado, PcIngestao
  <2>2. PICK p \in 0..MaxPendencias, st \in StatusPendencia :
           p = proc[w].p /\ st = "nenhuma"
    <3>1. proc[w].p \in 0..MaxPendencias /\ "nenhuma" \in StatusPendencia
      BY Zeros, CamposProc DEF IInv
    <3> QED BY <3>1
  <2>3. Passa(w, "marcar", p, st, 0, 0) /\ p # 0
    BY <1>3, <2>2
  <2>4. pend' \in [Pendencias -> Pendencia] /\ \A q \in Pendencias : PendSegue(q)
    BY <1>1, MesmaPend DEF IInv, TipoAtualizacoes
  <2> QED BY <1>1, <2>1, <2>3, <2>4, Campos, PassaPend DEF filas
<1> QED BY <1>2, <1>3 DEF ScanInalterado

LEMMA ScanDetectaPreserva ==
    ASSUME IInv, NEW w \in Processos, ScanDetecta(w)
    PROVE  IInv'
<1>1. UNCHANGED <<fora, corrida, refs, filas>>
  BY DEF ScanDetecta
<1>2. PICK b \in 0..MaxCorridas, v \in 0..MaxVersoes, st \in StatusPendencia :
         b = proc[w].base /\ v = remoto.versao /\ st = "nenhuma"
  <2>1. /\ proc[w].base \in 0..MaxCorridas /\ remoto.versao \in 0..MaxVersoes
        /\ "nenhuma" \in StatusPendencia
    BY Zeros, CamposProc, CamposFila DEF IInv
  <2> QED BY <2>1
<1>3. "comparar" \in Passos \ PcIngestao /\ "inserir" \in Passos \ PcIngestao
  BY DEF Passos, PcBaixado, PcIngestao
<1>4. ASSUME NEW p \in NovaPendencia, Detectada(p, b, "analyzing"),
             Usa("deteccoes", MaxPendencias), Passa(w, "comparar", p, st, b, v)
      PROVE  IInv'
  <2>1. "analyzing" \in StatusPendencia \ {"ingested"}
    BY DEF StatusPendencia, Abertas
  <2>2. /\ p \in Pendencias /\ pend' \in [Pendencias -> Pendencia]
        /\ \A q \in Pendencias : PendSegue(q)
    BY <1>2, <1>4, <2>1, Nova DEF Detectada
  <2>3. \E x \in Eventos, max \in Nat : Usa(x, max)
    BY <1>4, LimitesAtualizacoes DEF Eventos
  <2>4. p \in 0..MaxPendencias /\ p # 0
    BY <2>2, CamposPend DEF IInv
  <2> QED BY <1>1, <1>3, <1>4, <2>2, <2>3, <2>4, Campos, PassaPend DEF filas
<1>5. CASE Larga(w) /\ UNCHANGED <<pend, usados>>
  BY <1>1, <1>5, Campos, LargaPreserva DEF filas
<1>6. CASE Passa(w, "inserir", 0, st, b, v) /\ UNCHANGED <<pend, usados>>
  <2>1. pend' \in [Pendencias -> Pendencia] /\ \A q \in Pendencias : PendSegue(q)
    BY <1>6, MesmaPend DEF IInv, TipoAtualizacoes
  <2> QED BY <1>1, <1>3, <1>6, <2>1, Campos, PassaPend DEF filas
<1> QED BY <1>2, <1>4, <1>5, <1>6 DEF ScanDetecta

(* A row that the scan refreshes, with the status its session holds: an    *)
(* update ingested meanwhile keeps its last successful run.                *)
LEMMA ScanAcompanhaPreserva ==
    ASSUME IInv, NEW w \in Processos, ScanAcompanha(w)
    PROVE  IInv'
<1>1. UNCHANGED <<fora, corrida, refs, filas, usados>> /\ proc[w].p # 0
  BY DEF ScanAcompanha
<1>2. /\ proc[w].p \in Pendencias /\ remoto.versao \in 0..MaxVersoes
      /\ proc[w].st \in StatusPendencia /\ "nenhuma" \in StatusPendencia
      /\ 0 \in 0..MaxCorridas
  BY <1>1, Zeros, CamposProc, CamposFila DEF IInv
<1>3. PICK p \in Pendencias, v \in 0..MaxVersoes, st \in StatusPendencia,
           nao \in StatusPendencia :
         p = proc[w].p /\ v = remoto.versao /\ st = proc[w].st /\ nao = "nenhuma"
  BY <1>2
<1>4. /\ p \in 0..MaxPendencias /\ p # 0 /\ pend[p].base \in 0..MaxCorridas
      /\ pend[p] \in Pendencia
  BY CamposPend DEF IInv
<1>5. CASE Larga(w) /\ UNCHANGED pend
  BY <1>1, <1>5, Campos, LargaPreserva DEF filas
<1>6. CASE /\ pend' = [pend EXCEPT ![p] = [pend[p] EXCEPT !.etag = v, !.igual = FALSE,
                                                         !.st = "analyzing"]]
           /\ Passa(w, "comparar", p, nao, pend[p].base, v)
  <2>1. PICK s \in StatusPendencia, cmp \in 0..MaxVersoes :
           s = "analyzing" /\ cmp = pend[p].comparado
    <3>1. "analyzing" \in StatusPendencia /\ pend[p].comparado \in 0..MaxVersoes
      BY <1>4 DEF StatusPendencia, Abertas, Pendencia
    <3> QED BY <3>1
  <2>2. pend' = [pend EXCEPT ![p] = [pend[p] EXCEPT !.st = s, !.etag = v,
                                        !.comparado = cmp, !.igual = FALSE]]
    <3>1. [pend[p] EXCEPT !.etag = v, !.igual = FALSE, !.st = "analyzing"]
            = [pend[p] EXCEPT !.st = s, !.etag = v, !.comparado = cmp, !.igual = FALSE]
      BY <1>4, <2>1 DEF Pendencia
    <3> QED BY <1>6, <3>1
  <2>3. pend' \in [Pendencias -> Pendencia] /\ \A q \in Pendencias : PendSegue(q)
    BY <2>1, <2>2, Refeita
  <2>4. "comparar" \in Passos \ PcIngestao
    BY DEF Passos, PcBaixado, PcIngestao
  <2> QED BY <1>1, <1>4, <1>6, <2>3, <2>4, Campos, PassaPend DEF filas
<1>7. CASE Passa(w, "atualizar", p, st, 0, v) /\ UNCHANGED pend
  <2>1. pend' \in [Pendencias -> Pendencia] /\ \A q \in Pendencias : PendSegue(q)
    BY <1>7, MesmaPend DEF IInv, TipoAtualizacoes
  <2>2. "atualizar" \in Passos \ PcIngestao
    BY DEF Passos, PcBaixado, PcIngestao
  <2> QED BY <1>1, <1>2, <1>4, <1>7, <2>1, <2>2, Campos, PassaPend DEF filas
<1> QED BY <1>3, <1>5, <1>6, <1>7 DEF ScanAcompanha

LEMMA ScanErroPreserva ==
    ASSUME IInv, NEW w \in Processos, ScanErro(w)
    PROVE  IInv'
<1>1. \E b \in Eventos, max \in Nat : Usa(b, max)
  BY LimitesAtualizacoes DEF ScanErro, Eventos
<1>2. Larga(w) /\ UNCHANGED <<fora, corrida, pend, refs, filas>>
  BY DEF ScanErro
<1> QED BY <1>1, <1>2, Campos, LargaPreserva DEF filas

LEMMA ScanInserePreserva ==
    ASSUME IInv, NEW w \in Processos, ScanInsere(w)
    PROVE  IInv'
<1>1. Larga(w) /\ UNCHANGED <<fora, corrida, refs, filas>>
  BY DEF ScanInsere
<1>2. ASSUME NEW p \in NovaPendencia, Usa("deteccoes", MaxPendencias),
             pend' = [pend EXCEPT ![p] =
                 [SemPendencia EXCEPT !.st = "change_detected",
                                      !.base = proc[w].base,
                                      !.etag = proc[w].etag]]
      PROVE  IInv'
  <2>1. /\ "change_detected" \in StatusPendencia \ {"ingested"}
        /\ proc[w].base \in 0..MaxCorridas /\ proc[w].etag \in 0..MaxVersoes
    BY CamposProc DEF StatusPendencia, Abertas, IInv
  <2>2. pend' \in [Pendencias -> Pendencia] /\ \A q \in Pendencias : PendSegue(q)
    BY <1>2, <2>1, Nova
  <2>3. \E x \in Eventos, max \in Nat : Usa(x, max)
    BY <1>2, LimitesAtualizacoes DEF Eventos
  <2> QED BY <1>1, <2>2, <2>3, LargaPend
<1>3. CASE UNCHANGED <<pend, usados>>
  BY <1>1, <1>3, Campos, LargaPreserva DEF filas
<1> QED BY <1>2, <1>3 DEF ScanInsere

LEMMA ScanAtualizaPreserva ==
    ASSUME IInv, NEW w \in Processos, ScanAtualiza(w)
    PROVE  IInv'
<1>1. proc[w].pc = "atualizar" /\ Larga(w)
      /\ UNCHANGED <<fora, corrida, refs, filas, usados>>
  BY DEF ScanAtualiza
<1>2. proc[w].p \in Pendencias /\ proc[w].etag \in 0..MaxVersoes
  BY <1>1, CamposProc DEF IInv, Formas
<1>3. PICK p \in Pendencias, v \in 0..MaxVersoes : p = proc[w].p /\ v = proc[w].etag
  BY <1>2
<1>4. PICK s : s = IF proc[w].st = "content_unchanged" THEN "change_detected"
                                                      ELSE pend[p].st
  OBVIOUS
<1>5. /\ pend[p] \in Pendencia /\ pend[p].comparado \in 0..MaxVersoes
      /\ pend \in [Pendencias -> Pendencia]
      /\ s \in StatusPendencia /\ (s # "ingested" \/ s = pend[p].st)
  <2>1. pend[p] \in Pendencia /\ pend \in [Pendencias -> Pendencia]
    BY DEF IInv, TipoAtualizacoes
  <2> QED BY <1>4, <2>1 DEF Pendencia, StatusPendencia, Abertas
<1>6. PICK cmp \in 0..MaxVersoes : cmp = pend[p].comparado
  BY <1>5
<1>7. pend' = [pend EXCEPT ![p] = [pend[p] EXCEPT !.st = s, !.etag = v,
                                      !.comparado = cmp, !.igual = FALSE]]
  <2>1. pend' = [pend EXCEPT ![p].etag = v, ![p].igual = FALSE, ![p].st = s]
    <3>1. pend' = [pend EXCEPT ![p].etag = v, ![p].igual = FALSE,
                     ![p].st = IF proc[w].st = "content_unchanged"
                               THEN "change_detected" ELSE @]
      BY <1>3 DEF ScanAtualiza
    <3> QED BY <1>4, <1>5, <3>1 DEF Pendencia
  <2>2. [pend EXCEPT ![p].etag = v, ![p].igual = FALSE, ![p].st = s]
          = [pend EXCEPT ![p] = [pend[p] EXCEPT !.st = s, !.etag = v,
                                      !.comparado = cmp, !.igual = FALSE]]
    BY <1>5, <1>6 DEF Pendencia
  <2> QED BY <2>1, <2>2
<1>8. pend' \in [Pendencias -> Pendencia] /\ \A q \in Pendencias : PendSegue(q)
  BY <1>5, <1>7, Refeita
<1> QED BY <1>1, <1>8, LargaPend

LEMMA ScanMarcaPreserva ==
    ASSUME IInv, NEW w \in Processos, ScanMarca(w)
    PROVE  IInv'
<1>1. /\ proc[w].pc = "marcar" /\ PoeStatus(proc[w].p, "stale") /\ Larga(w)
      /\ UNCHANGED <<fora, corrida, refs, filas, usados>>
  BY DEF ScanMarca
<1>2. proc[w].p \in Pendencias /\ "stale" \in StatusPendencia \ {"ingested"}
  BY <1>1, CamposProc DEF IInv, Formas, StatusPendencia
<1>3. pend' \in [Pendencias -> Pendencia] /\ \A q \in Pendencias : PendSegue(q)
  BY <1>1, <1>2, PoeTipo DEF IInv
<1> QED BY <1>1, <1>3, LargaPend

-----------------------------------------------------------------------------
(* The deep analysis, the trigger and the retry.                           *)

(* A task that takes row p to the status s and goes on to its step pc.     *)
LEMMA Encaminha ==
    ASSUME IInv, NEW w \in Processos, NEW p \in Pendencias,
           NEW s \in StatusPendencia \ {"ingested"}, PoeStatus(p, s),
           NEW pc \in Passos \ PcIngestao,
           NEW base \in 0..MaxCorridas, NEW etag \in 0..MaxVersoes,
           Passa(w, pc, p, "nenhuma", base, etag),
           UNCHANGED <<fora, corrida, refs, ingestoes, usados>>,
           analises' \subseteq Pendencias
    PROVE  IInv'
<1>1. p \in 0..MaxPendencias /\ p # 0
  BY CamposPend DEF IInv
<1>2. pend' \in [Pendencias -> Pendencia] /\ \A q \in Pendencias : PendSegue(q)
  BY PoeTipo DEF IInv
<1>3. ingestoes' \in [Pendencias -> Nat]
  BY CamposFila DEF IInv
<1>4. PICK nao \in StatusPendencia : nao = "nenhuma"
  BY Zeros
<1>5. Passa(w, pc, p, nao, base, etag)
  BY <1>4
<1> QED BY <1>1, <1>2, <1>3, <1>5, PassaPend

LEMMA PedirAnalisePreserva ==
    ASSUME IInv, NEW w \in Processos, NEW p \in Pendencias, PedirAnalise(w, p)
    PROVE  IInv'
<1>1. /\ "analysis_queued" \in StatusPendencia \ {"ingested"}
      /\ "publicar" \in Passos \ PcIngestao
  BY DEF StatusPendencia, Abertas, Passos, PcBaixado, PcIngestao
<1>2. /\ PoeStatus(p, "analysis_queued") /\ Passa(w, "publicar", p, "nenhuma", 0, 0)
      /\ UNCHANGED <<fora, corrida, refs, ingestoes, usados>> /\ analises' = analises
  BY DEF PedirAnalise, filas
<1> QED BY <1>1, <1>2, Campos, Encaminha

LEMMA PublicaAnalisePreserva ==
    ASSUME IInv, NEW w \in Processos, PublicaAnalise(w)
    PROVE  IInv'
<1>1. /\ proc[w].pc = "publicar" /\ analises' = analises \cup {proc[w].p} /\ Larga(w)
      /\ UNCHANGED <<fora, corrida, pend, refs, ingestoes, usados>>
  BY DEF PublicaAnalise
<1>2. proc[w].p \in Pendencias
  BY <1>1, CamposProc DEF IInv, Formas
<1> QED BY <1>1, <1>2, Campos, LargaPreserva

LEMMA AnaliseComecaPreserva ==
    ASSUME IInv, NEW w \in Processos, NEW p \in Pendencias, AnaliseComeca(w, p)
    PROVE  IInv'
<1>1. /\ UNCHANGED <<fora, corrida, refs, ingestoes, usados>>
      /\ analises' \subseteq Pendencias
  BY Campos DEF AnaliseComeca
<1>2. CASE /\ PoeStatus(p, "analyzing")
           /\ Passa(w, "comparar", p, "nenhuma", pend[p].base, pend[p].etag)
  <2>1. /\ "analyzing" \in StatusPendencia \ {"ingested"}
        /\ "comparar" \in Passos \ PcIngestao
    BY DEF StatusPendencia, Abertas, Passos, PcBaixado, PcIngestao
  <2>2. pend[p].base \in 0..MaxCorridas /\ pend[p].etag \in 0..MaxVersoes
    BY CamposPend DEF IInv
  <2> QED BY <1>1, <1>2, <2>1, <2>2, Encaminha
<1>3. CASE UNCHANGED <<pend, proc>>
  <2>1. TipoAtualizacoes'
    BY <1>1, <1>3 DEF IInv, TipoAtualizacoes, fora
  <2>2. remoto'.versao - 1 <= usados'["publicacoes"]
    BY <1>1 DEF IInv, Formas, fora
  <2> QED BY <1>1, <1>3, <2>1, <2>2, MesmaPend, MesmasCorridas, QuadroLivre
<1> QED BY <1>2, <1>3 DEF AnaliseComeca

(* The verdict is not that the update was ingested.                        *)
LEMMA AnaliseTerminaPreserva ==
    ASSUME IInv, NEW w \in Processos, AnaliseTermina(w)
    PROVE  IInv'
<1>1. proc[w].pc = "comparar" /\ Larga(w)
      /\ UNCHANGED <<fora, corrida, refs, filas, usados>>
  BY DEF AnaliseTermina
<1>2. proc[w].p \in Pendencias /\ proc[w].etag \in 0..MaxVersoes
  BY <1>1, CamposProc DEF IInv, Formas
<1>3. PICK p \in Pendencias, v \in 0..MaxVersoes : p = proc[w].p /\ v = proc[w].etag
  BY <1>2
<1>4. PICK igual \in BOOLEAN :
         igual = /\ proc[w].base # 0
                 /\ corrida[proc[w].base].conteudo = remoto.conteudo
  OBVIOUS
<1>5. PICK s : s = IF igual THEN "content_unchanged" ELSE "ready_for_ingestion"
  OBVIOUS
<1>6. s \in StatusPendencia /\ s # "ingested"
  BY <1>5 DEF StatusPendencia, Abertas
<1>7. pend' = [pend EXCEPT ![p].st = s, ![p].igual = igual, ![p].comparado = v]
  BY <1>3, <1>4, <1>5 DEF AnaliseTermina
<1>8. pend[p] \in Pendencia /\ pend \in [Pendencias -> Pendencia]
  BY DEF IInv, TipoAtualizacoes
<1>9. PICK etag \in 0..MaxVersoes : etag = pend[p].etag
  BY <1>8 DEF Pendencia
<1>10. pend' = [pend EXCEPT ![p] = [pend[p] EXCEPT !.st = s, !.etag = etag,
                                       !.comparado = v, !.igual = igual]]
  BY <1>7, <1>8, <1>9 DEF Pendencia
<1>11. pend' \in [Pendencias -> Pendencia] /\ \A q \in Pendencias : PendSegue(q)
  BY <1>6, <1>10, Refeita
<1> QED BY <1>1, <1>11, LargaPend

LEMMA AnaliseFalhaPreserva ==
    ASSUME IInv, NEW w \in Processos, AnaliseFalha(w)
    PROVE  IInv'
<1>1. proc[w].pc = "comparar" /\ Larga(w) /\ Usa("erros", MaxErros)
      /\ UNCHANGED <<fora, corrida, refs, filas>>
  BY DEF AnaliseFalha
<1>2. PICK p \in Pendencias : p = proc[w].p
  BY <1>1, CamposProc DEF IInv, Formas
<1>3. pend[p] \in Pendencia /\ pend \in [Pendencias -> Pendencia]
  BY DEF IInv, TipoAtualizacoes
<1>4. PICK s \in StatusPendencia, etag \in 0..MaxVersoes, cmp \in 0..MaxVersoes :
         s = "analysis_failed" /\ etag = pend[p].etag /\ cmp = pend[p].comparado
  <2>1. "analysis_failed" \in StatusPendencia
    BY DEF StatusPendencia
  <2> QED BY <1>3, <2>1 DEF Pendencia
<1>5. pend' = [pend EXCEPT ![p].st = s, ![p].igual = FALSE]
  BY <1>2, <1>4 DEF AnaliseFalha
<1>6. pend' = [pend EXCEPT ![p] = [pend[p] EXCEPT !.st = s, !.etag = etag,
                                      !.comparado = cmp, !.igual = FALSE]]
  BY <1>3, <1>4, <1>5 DEF Pendencia
<1>7. pend' \in [Pendencias -> Pendencia] /\ \A q \in Pendencias : PendSegue(q)
  BY <1>4, <1>6, Refeita
<1>8. \E x \in Eventos, max \in Nat : Usa(x, max)
  BY <1>1, LimitesAtualizacoes DEF Eventos
<1> QED BY <1>1, <1>7, <1>8, LargaPend

LEMMA DispararPublicaPreserva ==
    ASSUME IInv, NEW w \in Processos, NEW p \in Pendencias, DispararPublica(w, p)
    PROVE  IInv'
<1>1. /\ Usa("disparos", MaxDisparos) /\ Passa(w, "disparar", p, "nenhuma", 0, 0)
      /\ ingestoes' = [ingestoes EXCEPT ![p] = @ + 1]
      /\ UNCHANGED <<fora, corrida, pend, refs, analises>>
  BY DEF DispararPublica
<1>2. p \in 0..MaxPendencias /\ p # 0 /\ "disparar" \in Passos \ PcIngestao
  BY CamposPend DEF IInv, Passos, PcBaixado, PcIngestao
<1>3. /\ ingestoes' \in [Pendencias -> Nat] /\ analises' \subseteq Pendencias
      /\ pend' \in [Pendencias -> Pendencia] /\ \A q \in Pendencias : PendSegue(q)
  BY <1>1, Campos, MesmaPend DEF IInv, TipoAtualizacoes
<1>4. \E x \in Eventos, max \in Nat : Usa(x, max)
  BY <1>1, LimitesAtualizacoes DEF Eventos
<1>5. PICK nao \in StatusPendencia : nao = "nenhuma"
  BY Zeros
<1>6. Passa(w, "disparar", p, nao, 0, 0)
  BY <1>1, <1>5
<1> QED BY <1>1, <1>2, <1>3, <1>4, <1>6, Zeros, PassaPend

LEMMA DisparaPreserva ==
    ASSUME IInv, NEW w \in Processos, Dispara(w)
    PROVE  IInv'
<1>1. /\ proc[w].pc = "disparar" /\ PoeStatus(proc[w].p, "triggered") /\ Larga(w)
      /\ UNCHANGED <<fora, corrida, refs, filas, usados>>
  BY DEF Dispara
<1>2. proc[w].p \in Pendencias
  BY <1>1, CamposProc DEF IInv, Formas
<1>3. "triggered" \in StatusPendencia \ {"ingested"}
  BY DEF StatusPendencia, Reconciliaveis
<1>4. pend' \in [Pendencias -> Pendencia] /\ \A q \in Pendencias : PendSegue(q)
  BY <1>1, <1>2, <1>3, PoeTipo DEF IInv
<1> QED BY <1>1, <1>4, LargaPend

LEMMA ReapresentaPreserva ==
    ASSUME IInv, NEW w \in Processos, NEW p \in Pendencias, Reapresenta(w, p)
    PROVE  IInv'
<1>1. /\ "ready_for_ingestion" \in StatusPendencia \ {"ingested"}
      /\ "republicar" \in Passos \ PcIngestao
  BY DEF StatusPendencia, Abertas, Passos, PcBaixado, PcIngestao
<1>2. /\ PoeStatus(p, "ready_for_ingestion")
      /\ Passa(w, "republicar", p, "nenhuma", 0, 0)
      /\ UNCHANGED <<fora, corrida, refs, ingestoes, usados>> /\ analises' = analises
  BY DEF Reapresenta, filas
<1> QED BY <1>1, <1>2, Campos, Encaminha

LEMMA RepublicaPreserva ==
    ASSUME IInv, NEW w \in Processos, Republica(w)
    PROVE  IInv'
<1>1. /\ proc[w].pc = "republicar" /\ Segue(w, "disparar")
      /\ ingestoes' = [ingestoes EXCEPT ![proc[w].p] = @ + 1]
      /\ UNCHANGED <<fora, corrida, pend, refs, analises, usados>>
  BY DEF Republica
<1>2. "disparar" \in Passos \ PcIngestao /\ "republicar" \notin PcIngestao
  BY DEF Passos, PcBaixado, PcIngestao
<1>3. proc[w].p \in Pendencias /\ proc[w].p # 0 /\ proc[w].r = 0
  BY <1>1, <1>2, CamposProc DEF IInv, Formas, Donas, Dona
<1>4. /\ proc' \in [Processos -> Processo]
      /\ proc'[w].pc = "disparar" /\ proc'[w].p # 0 /\ proc'[w].r = 0
      /\ \A v \in Processos \ {w} : proc'[v] = proc[v]
  BY <1>1, <1>2, <1>3, SegueProc DEF IInv
<1>5. ingestoes' \in [Pendencias -> Nat] /\ analises' \subseteq Pendencias
  BY <1>1, <1>3, Campos
<1> QED BY <1>1, <1>2, <1>4, <1>5, SemRunNemPend
-----------------------------------------------------------------------------
(* The synchronization: process w acts on its run.                         *)

(* It goes on to another of its steps, ...                                 *)
LEMMA AvancaIng ==
    ASSUME IInv, NEW w \in Processos, proc[w].r # 0,
           NEW pc \in PcIngestao, Segue(w, pc),
           UNCHANGED <<fora, refs, filas, usados>>,
           corrida' \in [Corridas -> Corrida], CorridasSeguem,
           \A r \in Corridas : corrida'[r].st \in Sucesso =>
                                  corrida[r].st \in Sucesso \/ proc[w].r = r,
           corrida'[proc[w].r].st \in Sucesso => pc = "fechar",
           pc \in PcBaixado => corrida'[proc[w].r].conteudo # 0,
           pend' \in [Pendencias -> Pendencia], \A p \in Pendencias : PendSegue(p)
    PROVE  IInv'
<1>1. pc \in Passos
  BY DEF Passos, PcBaixado, PcIngestao
<1>2. /\ proc' \in [Processos -> Processo]
      /\ proc'[w].pc = pc /\ proc'[w].p = proc[w].p /\ proc'[w].r = proc[w].r
      /\ \A v \in Processos \ {w} : proc'[v] = proc[v]
  BY <1>1, SegueProc DEF IInv
<1>3. TipoAtualizacoes'
  BY <1>2 DEF IInv, TipoAtualizacoes, fora, filas
<1>4. remoto'.versao - 1 <= usados'["publicacoes"]
  BY DEF IInv, Formas, fora
<1>5. /\ proc[w].r \in Corridas /\ proc[w].p \in Pendencias
      /\ corrida[proc[w].r].de # 0
  BY RunDela
<1>6. corrida[proc[w].r].de = proc[w].p
  BY DEF IInv, Donas, Dona
<1>7. PICK r \in Corridas, p \in Pendencias : r = proc[w].r /\ p = proc[w].p
  BY <1>5
<1>8. corrida'[r].de = p /\ p # 0
  BY <1>5, <1>6, <1>7 DEF CorridasSeguem, Pendencias
<1>9. proc'[w].r = r /\ proc'[w].p = p
  BY <1>2, <1>7
<1> QED BY <1>2, <1>3, <1>4, <1>7, <1>8, <1>9, QuadroDe

(* ... or ends, whatever the run has become.                               *)
LEMMA EncerraIng ==
    ASSUME IInv, NEW w \in Processos, Larga(w),
           UNCHANGED <<auto, remoto, refs>>, canonico' \in Conteudos,
           analises' \subseteq Pendencias, ingestoes' \in [Pendencias -> Nat],
           usados' = usados \/ \E b \in Eventos, max \in Nat : Usa(b, max),
           corrida' \in [Corridas -> Corrida], CorridasSeguem,
           \A r \in Corridas : corrida'[r].st \in Sucesso =>
                                  corrida[r].st \in Sucesso \/ proc[w].r = r,
           pend' \in [Pendencias -> Pendencia], \A p \in Pendencias : PendSegue(p)
    PROVE  IInv'
<1>1. /\ proc' \in [Processos -> Processo]
      /\ proc'[w].pc = "livre" /\ proc'[w].r = 0
      /\ \A v \in Processos \ {w} : proc'[v] = proc[v]
  BY LargaProc DEF IInv
<1>2. usados' \in [Eventos -> Nat] /\ remoto'.versao - 1 <= usados'["publicacoes"]
  BY SemPublicar
<1>3. TipoAtualizacoes'
  BY <1>1, <1>2 DEF IInv, TipoAtualizacoes
<1>4. "livre" \notin PcIngestao
  BY DEF PcBaixado, PcIngestao
<1> QED BY <1>1, <1>2, <1>3, <1>4, QuadroDe

(* The run and the update of a synchronization at one of its steps.        *)
LEMMA DaIngestao ==
    ASSUME IInv, NEW w \in Processos, proc[w].pc \in PcIngestao
    PROVE  /\ proc[w].r # 0 /\ proc[w].r \in Corridas /\ proc[w].p \in Pendencias
           /\ corrida[proc[w].r] \in Corrida
           /\ corrida[proc[w].r].de = proc[w].p
           /\ corrida[proc[w].r].de # 0
           /\ corrida[proc[w].r].st # "nenhuma"
           /\ corrida[proc[w].r].st \in Sucesso => proc[w].pc = "fechar"
           /\ proc[w].pc \in PcBaixado => corrida[proc[w].r].conteudo \in Conteudos
<1>1. proc[w].r # 0 /\ Dona(w)
  BY DEF IInv, Donas, Dona
<1>2. /\ proc[w].r \in Corridas /\ proc[w].p \in Pendencias
      /\ corrida[proc[w].r].de # 0
  BY <1>1, RunDela
<1>3. corrida[proc[w].r] \in Corrida
  BY <1>2 DEF IInv, TipoAtualizacoes
<1>4. corrida[proc[w].r].st # "nenhuma"
  BY <1>2 DEF IInv, Formas
<1>5. corrida[proc[w].r].conteudo \in Conteudos \cup {0}
  BY <1>3 DEF Corrida
<1>6. proc[w].pc \in PcBaixado => corrida[proc[w].r].conteudo \in Conteudos
  BY <1>1, <1>5 DEF Dona
<1> QED BY <1>1, <1>2, <1>3, <1>4, <1>6 DEF Dona

(* A new run is of no update before.                                       *)
LEMMA IngCriaPreserva ==
    ASSUME IInv, NEW w \in Processos, NEW p \in Pendencias, IngCria(w, p)
    PROVE  IInv'
<1>1. PICK r \in NovaCorrida :
         /\ corrida' = [corrida EXCEPT ![r] =
                          [SemCorrida EXCEPT !.st = "ativa", !.de = p]]
         /\ proc' = [proc EXCEPT ![w] =
                       [Ocioso EXCEPT !.pc = "ligar", !.p = p, !.r = r]]
  BY DEF IngCria
<1>2. r \in Corridas /\ r \in 0..MaxCorridas /\ r # 0 /\ corrida[r].st = "nenhuma"
  BY <1>1, LimitesAtualizacoes DEF NovaCorrida, Corridas
<1>3. corrida[r].de = 0 /\ corrida[r].st \notin Sucesso
  BY <1>2 DEF IInv, Formas, Sucesso
<1>4. p \in 0..MaxPendencias /\ p # 0
  BY CamposPend DEF IInv
<1>5. PICK x : x = [SemCorrida EXCEPT !.st = "ativa", !.de = p]
  OBVIOUS
<1>6. x \in Corrida /\ x.st = "ativa" /\ x.de = p
  <2>1. x = [st |-> "ativa", de |-> p, retry |-> FALSE, conteudo |-> 0, visto |-> 0]
    BY <1>5 DEF SemCorrida
  <2>2. "ativa" \in StatusCorrida /\ FALSE \in BOOLEAN /\ 0 \in Conteudos \cup {0}
    BY DEF StatusCorrida
  <2> QED BY <1>4, <2>1, <2>2, Zeros DEF Corrida
<1>7. corrida' = [corrida EXCEPT ![r] = x]
  BY <1>1, <1>5
<1>8. corrida[r].conteudo = 0
  BY <1>2 DEF IInv, Formas
<1>9. x.st # "nenhuma" /\ x.st \notin Sucesso
  BY <1>6 DEF Sucesso
<1>10. /\ corrida' \in [Corridas -> Corrida] /\ CorridasSeguem /\ corrida'[r] = x
       /\ \A q \in Corridas \ {r} : corrida'[q] = corrida[q]
  BY <1>2, <1>3, <1>6, <1>7, <1>8, <1>9, LinhaCorrida
<1>11. PICK y : y = [Ocioso EXCEPT !.pc = "ligar", !.p = p, !.r = r]
  OBVIOUS
<1>12. y \in Processo /\ y.pc = "ligar" /\ y.p = p /\ y.r = r
  <2>1. y = [pc |-> "ligar", p |-> p, st |-> "nenhuma", base |-> 0, etag |-> 0,
             r |-> r]
    BY <1>11 DEF Ocioso
  <2>2. "ligar" \in Passos
    BY DEF Passos
  <2> QED BY <1>2, <1>4, <2>1, <2>2, Zeros DEF Processo
<1>13. /\ proc' \in [Processos -> Processo] /\ proc'[w] = y
       /\ \A v \in Processos \ {w} : proc'[v] = proc[v]
  BY <1>1, <1>11, <1>12 DEF IInv, TipoAtualizacoes
<1>14. /\ ingestoes' \in [Pendencias -> Nat]
       /\ UNCHANGED <<fora, pend, refs, analises, usados>>
  <2>1. ingestoes' = [ingestoes EXCEPT ![p] = @ - 1] /\ ingestoes[p] > 0
    BY DEF IngCria
  <2>2. ingestoes \in [Pendencias -> Nat]
    BY Campos
  <2>3. ingestoes[p] - 1 \in Nat
    BY <2>1, <2>2
  <2> QED BY <2>1, <2>2, <2>3 DEF IngCria
<1>15. TipoAtualizacoes'
  BY <1>10, <1>13, <1>14 DEF IInv, TipoAtualizacoes, fora
<1>16. remoto'.versao - 1 <= usados'["publicacoes"] /\ pend' = pend
  BY <1>14 DEF IInv, Formas, fora
<1>17. "ligar" \in PcIngestao \ PcBaixado
  BY DEF PcBaixado, PcIngestao
<1>18. \A q \in Corridas : corrida'[q].st \in Sucesso => corrida[q].st \in Sucesso
  BY <1>9, <1>10
<1>19. /\ proc'[w].pc = "ligar" /\ proc'[w].p = p /\ proc'[w].r = r
       /\ corrida'[r].de = p /\ corrida'[r].st \notin Sucesso
  BY <1>6, <1>9, <1>10, <1>12, <1>13
<1> QED BY <1>2, <1>3, <1>4, <1>10, <1>13, <1>15, <1>16, <1>17, <1>18, <1>19,
           MesmaPend, QuadroDe
LEMMA IngLigaPreserva ==
    ASSUME IInv, NEW w \in Processos, IngLiga(w)
    PROVE  IInv'
<1>1. /\ proc[w].pc = "ligar" /\ Segue(w, "baixar")
      /\ UNCHANGED <<fora, corrida, refs, filas, usados>>
  BY DEF IngLiga
<1>2. "ligar" \in PcIngestao \ {"fechar"} /\ "baixar" \in PcIngestao \ PcBaixado
  BY DEF PcBaixado, PcIngestao
<1>3. /\ proc[w].r # 0 /\ proc[w].r \in Corridas /\ proc[w].p \in Pendencias
      /\ corrida[proc[w].r].de = proc[w].p /\ corrida[proc[w].r].st \notin Sucesso
  BY <1>1, <1>2, DaIngestao
<1>4. PICK r \in Corridas, p \in Pendencias : r = proc[w].r /\ p = proc[w].p
  BY <1>3
<1>5. pend[p] \in Pendencia /\ pend \in [Pendencias -> Pendencia]
  BY DEF IInv, TipoAtualizacoes
<1>6. PICK u : u = [pend[p] EXCEPT !.st = "triggered", !.run = r]
  OBVIOUS
<1>7. u \in Pendencia /\ u.st = "triggered" /\ u.run = r
  <2>1. "triggered" \in StatusPendencia /\ r \in 0..MaxCorridas
    BY LimitesAtualizacoes DEF StatusPendencia, Reconciliaveis, Corridas
  <2> QED BY <1>5, <1>6, <2>1 DEF Pendencia
<1>8. pend' = [pend EXCEPT ![p] = u]
  <2>1. pend' = [pend EXCEPT ![p].st = "triggered", ![p].run = r]
    BY <1>4 DEF IngLiga
  <2> QED BY <1>5, <1>6, <2>1
<1>9. u.st # "ingested" /\ corrida'[u.run].de = p
  BY <1>1, <1>3, <1>4, <1>7
<1>10. pend' \in [Pendencias -> Pendencia] /\ \A q \in Pendencias : PendSegue(q)
  BY <1>7, <1>8, <1>9, LinhaPend DEF IInv
<1>11. /\ CorridasSeguem /\ corrida' \in [Corridas -> Corrida]
       /\ corrida'[proc[w].r].st \notin Sucesso
       /\ \A q \in Corridas : corrida'[q].st \in Sucesso => corrida[q].st \in Sucesso
  BY <1>1, <1>3, MesmasCorridas DEF IInv, TipoAtualizacoes
<1> QED BY <1>1, <1>2, <1>3, <1>10, <1>11, AvancaIng

(* Steps that write only the run.                                          *)
LEMMA AvancaRun ==
    ASSUME IInv, NEW w \in Processos, proc[w].pc \in PcIngestao,
           NEW pc \in PcIngestao, Segue(w, pc),
           UNCHANGED <<fora, pend, refs, filas, usados>>,
           NEW x \in Corrida, x.de = corrida[proc[w].r].de, x.st # "nenhuma",
           corrida' = [corrida EXCEPT ![proc[w].r] = x],
           corrida[proc[w].r].conteudo # 0 => x.conteudo # 0,
           corrida[proc[w].r].st \in Sucesso => x.st \in Sucesso,
           x.st \in Sucesso => pc = "fechar",
           pc \in PcBaixado => x.conteudo # 0
    PROVE  IInv'
<1>1. proc[w].r # 0 /\ proc[w].r \in Corridas
  BY DaIngestao
<1>2. PICK r \in Corridas : r = proc[w].r
  BY <1>1
<1>3. /\ x.de = corrida[r].de /\ corrida' = [corrida EXCEPT ![r] = x]
      /\ corrida[r].conteudo # 0 => x.conteudo # 0
      /\ corrida[r].st \in Sucesso => x.st \in Sucesso
  BY <1>2
<1>4. /\ corrida' \in [Corridas -> Corrida] /\ CorridasSeguem /\ corrida'[r] = x
      /\ \A q \in Corridas \ {r} : corrida'[q] = corrida[q]
  BY <1>3, LinhaCorrida
<1>5. corrida'[proc[w].r] = x
  BY <1>2, <1>4
<1>6. \A q \in Corridas : corrida'[q].st \in Sucesso =>
                             corrida[q].st \in Sucesso \/ proc[w].r = q
  BY <1>2, <1>4
<1>7. pend' \in [Pendencias -> Pendencia] /\ \A q \in Pendencias : PendSegue(q)
  BY MesmaPend DEF IInv, TipoAtualizacoes
<1> QED BY <1>1, <1>4, <1>5, <1>6, <1>7, AvancaIng

LEMMA IngBaixaPreserva ==
    ASSUME IInv, NEW w \in Processos, IngBaixa(w)
    PROVE  IInv'
<1>1. /\ proc[w].pc = "baixar" /\ Segue(w, "registrar")
      /\ UNCHANGED <<fora, pend, refs, filas, usados>>
      /\ corrida' = [corrida EXCEPT ![proc[w].r].conteudo = remoto.conteudo]
  BY DEF IngBaixa
<1>2. "baixar" \in PcIngestao \ {"fechar"} /\ "registrar" \in PcIngestao
  BY DEF PcBaixado, PcIngestao
<1>3. /\ corrida[proc[w].r] \in Corrida /\ corrida[proc[w].r].st # "nenhuma"
      /\ corrida[proc[w].r].st \notin Sucesso
  BY <1>1, <1>2, DaIngestao
<1>4. remoto.conteudo \in Conteudos /\ remoto.conteudo # 0
  BY CamposFila, LimitesAtualizacoes DEF IInv
<1>5. PICK x : x = [corrida[proc[w].r] EXCEPT !.conteudo = remoto.conteudo]
  OBVIOUS
<1>6. /\ x \in Corrida /\ x.de = corrida[proc[w].r].de
      /\ x.st = corrida[proc[w].r].st /\ x.conteudo # 0
  BY <1>3, <1>4, <1>5 DEF Corrida
<1>7. corrida' = [corrida EXCEPT ![proc[w].r] = x]
  BY <1>1, <1>5
<1> QED BY <1>1, <1>2, <1>3, <1>6, <1>7, AvancaRun

LEMMA IngPulaPreserva ==
    ASSUME IInv, NEW w \in Processos, IngPula(w)
    PROVE  IInv'
<1>1. /\ proc[w].pc = "registrar" /\ Segue(w, "fechar")
      /\ UNCHANGED <<fora, pend, refs, filas, usados>>
      /\ corrida' = [corrida EXCEPT ![proc[w].r].st = "skipped"]
  BY DEF IngPula
<1>2. "registrar" \in PcIngestao /\ "fechar" \in PcIngestao \ PcBaixado
  BY DEF PcBaixado, PcIngestao
<1>3. corrida[proc[w].r] \in Corrida
  BY <1>1, <1>2, DaIngestao
<1>4. PICK x : x = [corrida[proc[w].r] EXCEPT !.st = "skipped"]
  OBVIOUS
<1>5. /\ x \in Corrida /\ x.de = corrida[proc[w].r].de
      /\ x.st = "skipped" /\ x.conteudo = corrida[proc[w].r].conteudo
  <2>1. "skipped" \in StatusCorrida
    BY DEF StatusCorrida, Sucesso
  <2> QED BY <1>3, <1>4, <2>1 DEF Corrida
<1>6. corrida' = [corrida EXCEPT ![proc[w].r] = x]
  BY <1>1, <1>4
<1>7. x.st # "nenhuma" /\ x.st \in Sucesso
  BY <1>5 DEF Sucesso
<1> QED BY <1>1, <1>2, <1>5, <1>6, <1>7, AvancaRun

LEMMA IngRegistraPreserva ==
    ASSUME IInv, NEW w \in Processos, IngRegistra(w)
    PROVE  IInv'
<1>1. /\ proc[w].pc = "registrar" /\ Segue(w, "aguardar")
      /\ UNCHANGED <<fora, pend, refs, filas, usados>>
      /\ corrida' = [corrida EXCEPT ![proc[w].r].st = "aguardando",
                                    ![proc[w].r].visto = remoto.versao]
  BY DEF IngRegistra
<1>2. "registrar" \in (PcIngestao \cap PcBaixado) \ {"fechar"} /\ "aguardar" \in PcIngestao
  BY DEF PcBaixado, PcIngestao
<1>3. /\ corrida[proc[w].r] \in Corrida /\ corrida[proc[w].r].st \notin Sucesso
      /\ corrida[proc[w].r].conteudo \in Conteudos /\ proc[w].r \in Corridas
  BY <1>1, <1>2, DaIngestao
<1>4. PICK x : x = [corrida[proc[w].r] EXCEPT !.st = "aguardando",
                                              !.visto = remoto.versao]
  OBVIOUS
<1>5. /\ x \in Corrida /\ x.de = corrida[proc[w].r].de
      /\ x.st = "aguardando" /\ x.conteudo = corrida[proc[w].r].conteudo
  <2>1. "aguardando" \in StatusCorrida /\ remoto.versao \in 0..MaxVersoes
    BY CamposFila DEF StatusCorrida, IInv
  <2> QED BY <1>3, <1>4, <2>1 DEF Corrida
<1>6. corrida' = [corrida EXCEPT ![proc[w].r] = x]
  <2>1. corrida \in [Corridas -> Corrida]
    BY DEF IInv, TipoAtualizacoes
  <2> QED BY <1>1, <1>3, <1>4, <2>1
<1>7. x.st # "nenhuma" /\ x.st \notin Sucesso /\ x.conteudo # 0
  BY <1>3, <1>5, LimitesAtualizacoes DEF Sucesso
<1> QED BY <1>1, <1>2, <1>3, <1>5, <1>6, <1>7, AvancaRun

(* The second phase takes the run back to active only while it waits.      *)
LEMMA IngIngerePreserva ==
    ASSUME IInv, NEW w \in Processos, IngIngere(w)
    PROVE  IInv'
<1>1. proc[w].pc = "aguardar" /\ UNCHANGED <<fora, pend, refs, filas, usados>>
  BY DEF IngIngere
<1>2. /\ "aguardar" \in (PcIngestao \cap PcBaixado) \ {"fechar"}
      /\ "promover" \in PcIngestao \ {"fechar"}
  BY DEF PcBaixado, PcIngestao
<1>3. /\ corrida[proc[w].r] \in Corrida /\ corrida[proc[w].r].st \notin Sucesso
      /\ corrida[proc[w].r].conteudo \in Conteudos
  BY <1>1, <1>2, DaIngestao
<1>4. CASE corrida' = [corrida EXCEPT ![proc[w].r].st = "ativa"] /\ Segue(w, "promover")
  <2>1. PICK x : x = [corrida[proc[w].r] EXCEPT !.st = "ativa"]
    OBVIOUS
  <2>2. /\ x \in Corrida /\ x.de = corrida[proc[w].r].de
        /\ x.st = "ativa" /\ x.conteudo = corrida[proc[w].r].conteudo
    <3>1. "ativa" \in StatusCorrida
      BY DEF StatusCorrida
    <3> QED BY <1>3, <2>1, <3>1 DEF Corrida
  <2>3. corrida' = [corrida EXCEPT ![proc[w].r] = x]
    BY <1>4, <2>1
  <2>4. x.st # "nenhuma" /\ x.st \notin Sucesso /\ x.conteudo # 0
    BY <1>3, <2>2, LimitesAtualizacoes DEF Sucesso
  <2> QED BY <1>1, <1>2, <1>3, <1>4, <2>2, <2>3, <2>4, AvancaRun
<1>5. CASE Larga(w) /\ UNCHANGED corrida
  BY <1>1, <1>5, Campos, LargaPreserva DEF filas
<1> QED BY <1>4, <1>5 DEF IngIngere

(* The skipped run finalizes its update.                                   *)
LEMMA IngFechaPreserva ==
    ASSUME IInv, NEW w \in Processos, IngFecha(w)
    PROVE  IInv'
<1>1. /\ proc[w].pc = "fechar" /\ Larga(w)
      /\ UNCHANGED <<fora, corrida, refs, filas, usados>>
  BY DEF IngFecha
<1>2. "fechar" \in PcIngestao
  BY DEF PcIngestao
<1>3. /\ proc[w].r \in Corridas /\ proc[w].p \in Pendencias
      /\ corrida[proc[w].r] \in Corrida
  BY <1>1, <1>2, DaIngestao
<1>4. PICK r \in Corridas, p \in Pendencias : r = proc[w].r /\ p = proc[w].p
  BY <1>3
<1>5. PICK st \in StatusCorrida, retry \in BOOLEAN :
         st = corrida[r].st /\ retry = corrida[r].retry
  <2>1. corrida[r].retry \in BOOLEAN /\ corrida[r].st \in StatusCorrida
    BY <1>3, <1>4 DEF Corrida
  <2> QED BY <2>1
<1>6. pend' = [pend EXCEPT ![p] = Finalizada(@, r, st, retry)]
  BY <1>4, <1>5 DEF IngFecha
<1>7. pend' \in [Pendencias -> Pendencia] /\ \A q \in Pendencias : PendSegue(q)
  BY <1>1, <1>5, <1>6, FinalizadaTipo DEF IInv
<1> QED BY <1>1, <1>7, LargaPend
(* The end of a run that had not succeeded: its status and its update are  *)
(* written together.                                                       *)
LEMMA FimDaCorrida ==
    ASSUME IInv, NEW w \in Processos, proc[w].pc \in PcIngestao \ {"fechar"},
           NEW st \in {"sucesso", "falha", "cancelada"}, Larga(w),
           UNCHANGED <<auto, remoto, refs>>, canonico' \in Conteudos,
           analises' \subseteq Pendencias, ingestoes' \in [Pendencias -> Nat],
           usados' = usados \/ \E b \in Eventos, max \in Nat : Usa(b, max),
           corrida' = [corrida EXCEPT ![proc[w].r].st = st],
           pend' = [pend EXCEPT ![proc[w].p] = Finalizada(@, proc[w].r, st, FALSE)]
    PROVE  IInv'
<1>1. /\ proc[w].r \in Corridas /\ proc[w].p \in Pendencias
      /\ corrida[proc[w].r] \in Corrida /\ corrida[proc[w].r].st \notin Sucesso
  BY DaIngestao
<1>2. PICK r \in Corridas, p \in Pendencias : r = proc[w].r /\ p = proc[w].p
  BY <1>1
<1>3. PICK x : x = [corrida[r] EXCEPT !.st = st]
  OBVIOUS
<1>4. /\ x \in Corrida /\ x.de = corrida[r].de
      /\ x.st = st /\ x.conteudo = corrida[r].conteudo
  <2>1. st \in StatusCorrida
    BY DEF StatusCorrida, Sucesso, Fracasso
  <2> QED BY <1>1, <1>2, <1>3, <2>1 DEF Corrida
<1>5. corrida' = [corrida EXCEPT ![r] = x]
  BY <1>2, <1>3
<1>6. x.st # "nenhuma" /\ corrida[r].st \notin Sucesso
  BY <1>1, <1>2, <1>4
<1>7. /\ corrida' \in [Corridas -> Corrida] /\ CorridasSeguem /\ corrida'[r] = x
      /\ \A q \in Corridas \ {r} : corrida'[q] = corrida[q]
  BY <1>4, <1>5, <1>6, LinhaCorrida
<1>8. \A q \in Corridas : corrida'[q].st \in Sucesso =>
                             corrida[q].st \in Sucesso \/ proc[w].r = q
  BY <1>2, <1>7
<1>9. pend' = [pend EXCEPT ![p] = Finalizada(@, r, st, FALSE)]
  BY <1>2
<1>10. corrida'[r].st = st
  BY <1>4, <1>7
<1>11. pend' \in [Pendencias -> Pendencia] /\ \A q \in Pendencias : PendSegue(q)
  BY <1>9, <1>10, FinalizadaTipo DEF IInv
<1> QED BY <1>7, <1>8, <1>11, EncerraIng

LEMMA IngTerminaPreserva ==
    ASSUME IInv, NEW w \in Processos, IngTermina(w)
    PROVE  IInv'
<1>1. /\ proc[w].pc = "promover" /\ Larga(w)
      /\ UNCHANGED <<auto, remoto, refs, filas>>
  BY DEF IngTermina
<1>2. "promover" \in (PcIngestao \cap PcBaixado) \ {"fechar"}
  BY DEF PcBaixado, PcIngestao
<1>3. corrida[proc[w].r].conteudo \in Conteudos
  BY <1>1, <1>2, DaIngestao
<1>4. canonico' \in Conteudos
  <2>1. canonico \in Conteudos
    BY DEF IInv, TipoAtualizacoes
  <2> QED BY <1>3, <2>1 DEF IngTermina
<1>5. usados' = usados \/ \E b \in Eventos, max \in Nat : Usa(b, max)
  BY LimitesAtualizacoes DEF IngTermina, Eventos
<1>6. PICK st \in {"sucesso", "falha", "cancelada"} :
         /\ corrida' = [corrida EXCEPT ![proc[w].r].st = st]
         /\ pend' = [pend EXCEPT ![proc[w].p] =
                        Finalizada(@, proc[w].r, st, FALSE)]
  BY DEF IngTermina
<1> QED BY <1>1, <1>2, <1>4, <1>5, <1>6, Campos, FimDaCorrida DEF filas

LEMMA IngErroPreserva ==
    ASSUME IInv, NEW w \in Processos, IngErro(w)
    PROVE  IInv'
<1>1. /\ proc[w].pc \in {"baixar", "registrar"} /\ Larga(w)
      /\ UNCHANGED <<fora, refs, analises>> /\ Usa("erros", MaxErros)
      /\ corrida' = [corrida EXCEPT ![proc[w].r].st = "falha"]
      /\ pend' = [pend EXCEPT ![proc[w].p] =
                     Finalizada(@, proc[w].r, "falha", FALSE)]
  BY DEF IngErro
<1>2. {"baixar", "registrar"} \subseteq PcIngestao \ {"fechar"}
  BY DEF PcBaixado, PcIngestao
<1>3. proc[w].p \in Pendencias
  BY <1>1, <1>2, DaIngestao
<1>4. ingestoes' \in [Pendencias -> Nat] /\ analises' \subseteq Pendencias
  BY <1>1, <1>3, Campos DEF IngErro
<1>5. canonico' \in Conteudos /\ UNCHANGED <<auto, remoto, refs>>
  BY <1>1 DEF IInv, TipoAtualizacoes, fora
<1>6. \E b \in Eventos, max \in Nat : Usa(b, max)
  BY <1>1, LimitesAtualizacoes DEF Eventos
<1> QED BY <1>1, <1>2, <1>4, <1>5, <1>6, FimDaCorrida

(* A process that is lost leaves its run as it is.                         *)
LEMMA QuedaPreserva ==
    ASSUME IInv, NEW w \in Processos, Queda(w)
    PROVE  IInv'
<1>1. Larga(w) /\ UNCHANGED <<fora, corrida, pend, refs>> /\ Usa("quedas", MaxQuedas)
  BY DEF Queda
<1>2. proc[w].pc \in PcIngestao \cup {"comparar"} => proc[w].p \in Pendencias
  BY CamposProc DEF IInv, Formas, PcBaixado, PcIngestao
<1>3. ingestoes' \in [Pendencias -> Nat]
  BY <1>2, Campos DEF Queda, PcBaixado, PcIngestao
<1>4. analises' \subseteq Pendencias
  BY <1>2, Campos DEF Queda
<1>5. \E b \in Eventos, max \in Nat : Usa(b, max)
  BY <1>1, LimitesAtualizacoes DEF Eventos
<1> QED BY <1>1, <1>3, <1>4, <1>5, LargaPreserva

-----------------------------------------------------------------------------
(* The specification.                                                      *)
LEMMA InicioAtualizacoes == InitAtualizacoes => IInv
<1> SUFFICES ASSUME InitAtualizacoes PROVE IInv
  OBVIOUS
<1>1. PICK c \in Conteudos : /\ remoto = [versao |-> 1, conteudo |-> c]
                             /\ canonico = c
                             /\ corrida = [r \in Corridas |->
                                  IF r = 1 THEN [SemCorrida EXCEPT !.st = "sucesso",
                                                   !.conteudo = c, !.visto = 1]
                                  ELSE SemCorrida]
  BY LimitesAtualizacoes DEF InitAtualizacoes
<1>2. PICK x, y : /\ x = [SemCorrida EXCEPT !.st = "sucesso", !.conteudo = c, !.visto = 1]
                  /\ y = SemCorrida
  OBVIOUS
<1>3. /\ x = [st |-> "sucesso", de |-> 0, retry |-> FALSE, conteudo |-> c, visto |-> 1]
      /\ y = [st |-> "nenhuma", de |-> 0, retry |-> FALSE, conteudo |-> 0, visto |-> 0]
  BY <1>2 DEF SemCorrida
<1>4. /\ x \in Corrida /\ x.st = "sucesso" /\ x.de = 0
      /\ y \in Corrida /\ y.de = 0 /\ y.conteudo = 0
  <2>1. 1 \in 0..MaxVersoes
    BY LimitesAtualizacoes
  <2>2. "sucesso" \in StatusCorrida /\ "nenhuma" \in StatusCorrida
    BY DEF StatusCorrida, Sucesso
  <2> QED BY <1>3, <2>1, <2>2, Zeros DEF Corrida
<1>5. /\ corrida \in [Corridas -> Corrida]
      /\ \A r \in Corridas : corrida[r] = x \/ corrida[r] = y
  BY <1>1, <1>2, <1>4
<1>6. SemPendencia \in Pendencia /\ SemPendencia.run = 0 /\ SemPendencia.st = "nenhuma"
  BY Zeros DEF SemPendencia, Pendencia
<1>7. /\ pend \in [Pendencias -> Pendencia]
      /\ \A p \in Pendencias : pend[p].run = 0 /\ pend[p].st = "nenhuma"
  BY <1>6 DEF InitAtualizacoes
<1>8. /\ proc \in [Processos -> Processo]
      /\ \A w \in Processos : proc[w].pc = "livre" /\ proc[w].r = 0
  BY OciosoTipo DEF InitAtualizacoes
<1>9. /\ auto \in BOOLEAN /\ refs \in [Corridas -> 0..MaxVersoes] /\ analises = {}
      /\ ingestoes \in [Pendencias -> Nat] /\ usados \in [Eventos -> Nat]
  BY Zeros, LimitesAtualizacoes DEF InitAtualizacoes
<1>10. /\ remoto \in [versao: 1..MaxVersoes, conteudo: Conteudos]
       /\ remoto.versao = 1 /\ canonico \in Conteudos
  BY <1>1, LimitesAtualizacoes
<1>11. TipoAtualizacoes
  BY <1>5, <1>7, <1>8, <1>9, <1>10 DEF TipoAtualizacoes
<1>12. Formas
  <2>1. usados["publicacoes"] \in Nat
    BY <1>9 DEF Eventos
  <2>2. remoto.versao - 1 <= usados["publicacoes"]
    BY <1>10, <2>1
  <2>3. \A r \in Corridas : corrida[r].st = "nenhuma" =>
                               corrida[r].de = 0 /\ corrida[r].conteudo = 0
    BY <1>4, <1>5
  <2> QED BY <1>8, <2>2, <2>3 DEF Formas
<1>13. Donas
  <2>1. "livre" \notin PcIngestao
    BY DEF PcBaixado, PcIngestao
  <2> QED BY <1>8, <2>1 DEF Donas, Dona
<1>14. Vinculo
  BY <1>7 DEF Vinculo
<1> QED BY <1>11, <1>12, <1>13, <1>14 DEF IInv

LEMMA PassoAtualizacoes == IInv /\ [NextAtualizacoes]_varsAtualizacoes => IInv'
<1> SUFFICES ASSUME IInv, [NextAtualizacoes]_varsAtualizacoes PROVE IInv'
  OBVIOUS
<1>1. ASSUME NEW c \in Conteudos, Publicar(c) PROVE IInv'
  BY <1>1, PublicarPreserva
<1>2. ASSUME NEW w \in Processos, ScanLe(w) \/ ScanErro(w) PROVE IInv'
  BY <1>2, ScanLePreserva, ScanErroPreserva
<1>3. ASSUME NEW w \in Processos, Passo(w) PROVE IInv'
  BY <1>3, ScanInalteradoPreserva, ScanDetectaPreserva, ScanAcompanhaPreserva,
     ScanInserePreserva, ScanAtualizaPreserva, ScanMarcaPreserva,
     PublicaAnalisePreserva, AnaliseTerminaPreserva, DisparaPreserva,
     RepublicaPreserva, IngLigaPreserva, IngBaixaPreserva, IngPulaPreserva,
     IngFechaPreserva, IngRegistraPreserva, IngIngerePreserva,
     IngTerminaPreserva DEF Passo
<1>4. ASSUME NEW w \in Processos, AnaliseFalha(w) \/ IngErro(w) \/ Queda(w)
      PROVE  IInv'
  BY <1>4, AnaliseFalhaPreserva, IngErroPreserva, QuedaPreserva
<1>5. ASSUME NEW w \in Processos, NEW p \in Pendencias,
             \/ PedirAnalise(w, p) \/ AnaliseComeca(w, p) \/ DispararPublica(w, p)
             \/ Reapresenta(w, p) \/ IngCria(w, p)
      PROVE  IInv'
  BY <1>5, PedirAnalisePreserva, AnaliseComecaPreserva, DispararPublicaPreserva,
     ReapresentaPreserva, IngCriaPreserva
<1>6. ASSUME NEW p \in Pendencias, Reconhecer(p) \/ Descartar(p) \/ Reconciliar(p)
      PROVE  IInv'
  BY <1>6, ReconhecerPreserva, DescartarPreserva, ReconciliarPreserva
<1>7. ASSUME NEW r \in Corridas, CancelarCorrida(r) \/ Varrer(r) PROVE IInv'
  BY <1>7, CancelarCorridaPreserva, VarrerPreserva
<1>8. CASE UNCHANGED varsAtualizacoes
  BY <1>8 DEF varsAtualizacoes, IInv, TipoAtualizacoes, Formas, Donas, Dona, Vinculo
<1> QED BY <1>1, <1>2, <1>3, <1>4, <1>5, <1>6, <1>7, <1>8 DEF NextAtualizacoes

(* The invariant holds of every behaviour: whatever the interleaving of    *)
(* scans, analyses, triggers, synchronizations, cancellations and lost     *)
(* workers, each synchronization has a run of its own.                     *)
THEOREM IndutivoAtualizacoes == SpecAtualizacoes => []IInv
<1> QED BY InicioAtualizacoes, PassoAtualizacoes, PTL DEF SpecAtualizacoes

(* Types of the updates service, for any number of processes, rows, runs   *)
(* and publications.                                                       *)
THEOREM TipoCorretoAtualizacoes == SpecAtualizacoes => []TipoAtualizacoes
<1>1. IInv => TipoAtualizacoes
  BY DEF IInv
<1> QED BY <1>1, IndutivoAtualizacoes, PTL

(* An update is linked only to runs that were made for it, and what says   *)
(* it was ingested names a run that succeeded: link_pending_update_to_run, *)
(* finalize_pending_update_for_run and reconcile_pending_updates of        *)
(* app/updates/lifecycle.py.                                               *)
THEOREM VinculoMantido == SpecAtualizacoes => []Vinculo
<1>1. IInv => Vinculo
  BY DEF IInv
<1> QED BY <1>1, IndutivoAtualizacoes, PTL
=============================================================================
