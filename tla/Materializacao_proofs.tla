----------------------- MODULE Materializacao_proofs -----------------------
(***************************************************************************)
(* Proofs about Materializacao, for every value of its constants: the      *)
(* types, that no running item is orphaned and that a closed chunk stays   *)
(* closed.  All three come from the inductive invariant IInv.  `Moldura'   *)
(* says what an action has to show to keep it when it creates no chunk;    *)
(* `ReservarPreserva' is about the one that does; then there is one lemma  *)
(* per action, named after it, and the theorems are at the end.            *)
(***************************************************************************)
EXTENDS Materializacao, FiniteSetTheorems, WellFoundedInduction, TLAPS

-----------------------------------------------------------------------------
(* A set of naturals that is not empty has a least element.                *)
LEMMA MenorNatural ==
    ASSUME NEW T \in SUBSET Nat, T # {}
    PROVE  \E m \in T : \A n \in T : m <= n
<1> DEFINE R == OpToRel(<, Nat)
<1>1. \A n \in Nat, q \in Nat : n < q => <<n, q>> \in R
  BY DEF OpToRel
<1>2. IsWellFoundedOn(R, Nat)
  BY NatLessThanWellFounded
<1> HIDE DEF R
<1>3. PICK m \in T : \A n \in T : ~(<<n, m>> \in R)
  BY <1>2, WFMin
<1>4. ASSUME NEW n \in T PROVE m <= n
  <2>1. m \in Nat /\ n \in Nat
    OBVIOUS
  <2>2. ~(n < m)
    BY <1>1, <1>3, <2>1
  <2> QED BY <2>1, <2>2
<1> QED BY <1>4

(* The item taken by a worker is one of those it has left.                 *)
LEMMA ProximoPertence ==
    ASSUME NEW S \in SUBSET Itens, S # {}
    PROVE  Proximo(S) \in S
<1>1. {i[2] : i \in S} \in SUBSET Nat /\ {i[2] : i \in S} # {}
  BY ConstantesOk DEF Itens
<1>2. \E m \in {i[2] : i \in S} : \A n \in {i[2] : i \in S} : m <= n
  BY <1>1, MenorNatural
<1>3. \E i \in S : \A j \in S : i[2] <= j[2]
  BY <1>2
<1> QED BY <1>3 DEF Proximo

(* The sets the tasks count are finite.                                    *)
LEMMA CampanhasFinitas ==
    ASSUME NEW c
    PROVE  /\ IsFiniteSet(ComLease(c)) /\ Cardinality(ComLease(c)) \in Nat
           /\ Cardinality(Pendentes(c)) \in Nat
           /\ Cardinality(Outras(c)) \in Nat
<1>1. IsFiniteSet(ComLease(c))
  <2>1. IsFiniteSet(Chunks)
    BY ConstantesOk, FS_Interval DEF Chunks
  <2> QED BY <2>1, FS_Subset DEF ComLease, AtivosDe
<1>2. IsFiniteSet(Pendentes(c))
  <2>1. IsFiniteSet(Itens)
    BY ConstantesOk, FS_Product DEF Itens
  <2> QED BY <2>1, FS_Subset DEF Pendentes, ItensDe
<1>3. IsFiniteSet(Outras(c))
  BY ConstantesOk, FS_Subset DEF Outras
<1> QED BY <1>1, <1>2, <1>3, FS_CardinalityType

(* A recomputed status is one of the enumeration.                          *)
LEMMA RecalculadoTipo ==
    ASSUME NEW c, NEW it, NEW ch
    PROVE  Recalculado(c, it, ch) \in CampStatus
BY DEF Recalculado, CampStatus, CampTerminal
(* A status written through a session is a status of the enumeration.      *)
LEMMA GravaTipo ==
    ASSUME TypeOK, NEW p \in Processos, NEW c, NEW s \in CampStatus,
           Grava(p, c, s)
    PROVE  camp' \in [Campanhas -> CampStatus]
BY DEF TypeOK, Sessao, Grava, Gravado, CampVista

(* The broker never holds more than MaxMensagens copies.                   *)
LEMMA MaisUmTipo ==
    ASSUME NEW n \in 0..MaxMensagens
    PROVE  MaisUm(n) \in 0..MaxMensagens /\ MaisUm(n) > 0
BY ConstantesOk DEF MaisUm, Menor

(* Nor does a queue that gained a message, or lost one it had.             *)
LEMMA FilaTipo ==
    ASSUME NEW D, NEW f \in [D -> 0..MaxMensagens], NEW x
    PROVE  /\ Enfileira(f, x) \in [D -> 0..MaxMensagens]
           /\ Reagenda(f, x) \in [D -> 0..MaxMensagens]
           /\ x \in D /\ f[x] > 0 => Retira(f, x) \in [D -> 0..MaxMensagens]
<1>1. \A n \in 0..MaxMensagens : MaisUm(n) \in 0..MaxMensagens
  BY MaisUmTipo
<1>2. Enfileira(f, x) \in [D -> 0..MaxMensagens]
  BY <1>1 DEF Enfileira
<1>3. ASSUME x \in D, f[x] > 0
      PROVE  Retira(f, x) \in [D -> 0..MaxMensagens]
  BY <1>3, ConstantesOk DEF Retira
<1> QED BY <1>2, <1>3 DEF Reagenda

(* The session of process p, and nobody else's, becomes the record s.      *)
LEMMA MudaTipo ==
    ASSUME TypeOK, NEW p \in Processos, NEW s \in Sessao, Muda(p, s)
    PROVE  /\ ses' \in [Processos -> Sessao]
           /\ ses'[p] = s
           /\ \A q \in Processos \ {p} : ses'[q] = ses[q]
BY DEF TypeOK, Muda

(* What a session remembers of the campaigns keeps its type.               *)
LEMMA VistaTipo ==
    ASSUME TypeOK, NEW p \in Processos, NEW c, NEW s \in CampStatus
    PROVE  Vista(p, c, s) \in [Campanhas -> CampStatus \cup {"ausente"}]
BY DEF TypeOK, Sessao, Vista

(* What an action has to show when it creates no chunk and touches the     *)
(* session of process p only: it makes no item run, and one that stays     *)
(* running keeps an active chunk.                                          *)
LEMMA Moldura ==
    ASSUME IInv, TypeOK', NEW p \in Processos,
           criados' = criados,
           dono' = dono,
           \A q \in Processos \ {p} : ses'[q] = ses[q],
           \A i \in Itens : lote'[i] \in {lote[i], Nenhum},
           \A k \in Chunks : chunk'[k] = "nenhum" <=> chunk[k] = "nenhum",
           \A k \in Chunks : msgChunk'[k] > 0 => k <= criados,
           \A k \in ses'[p].lista : k <= criados,
           \A i \in Itens : item'[i] = "running"
              => item[i] = "running" /\ lote'[i] = lote[i] /\ chunk'[lote[i]] \in ChunkAtivo,
           SessaoOk(p)', RestoDe(p)'
    PROVE  IInv'
<1>1. ChunksCriados'
  BY DEF IInv, ChunksCriados
<1>2. SessoesOk'
  BY DEF IInv, SessoesOk, SessaoOk
<1>3. \A k \in Chunks : Correm(k)' \subseteq Correm(k)
  BY ConstantesOk DEF IInv, RunningSobChunkAtivo, Correm, ItensDoChunk, Chunks
<1>4. RestoCobre'
  <2> SUFFICES ASSUME NEW q \in Processos \ {p}
               PROVE  RestoDe(q)'
    BY DEF RestoCobre
  <2>1. ses'[q] = ses[q] /\ RestoDe(q) /\ SessaoOk(q)
    BY DEF IInv, RestoCobre, SessoesOk
  <2>2. CASE ses[q].pc \in {"iterar", "materializar", "cancelar", "rec_fim"}
    <3>1. ses[q].chunk \in Chunks
      BY <2>1, <2>2 DEF SessaoOk, PcChunk
    <3>2. Correm(ses[q].chunk)' \subseteq Correm(ses[q].chunk)
      BY <2>1, <3>1, <1>3
    <3> QED BY <2>1, <3>2 DEF RestoDe
  <2>3. CASE ses[q].pc \notin {"iterar", "materializar", "cancelar", "rec_fim"}
    BY <2>1, <2>3 DEF RestoDe
  <2> QED BY <2>2, <2>3
<1>5. RunningSobChunkAtivo'
  BY DEF IInv, RunningSobChunkAtivo
<1> QED BY <1>1, <1>2, <1>4, <1>5 DEF IInv
-----------------------------------------------------------------------------
(* Creation, dispatch and the campaign task.                               *)

(* A new item is "pending" or "skipped", never running.                    *)
LEMMA CriarCampanhaPreserva ==
    ASSUME IInv, NEW c \in Campanhas, NEW S \in SUBSET Alvos, NEW d \in BOOLEAN,
           CriarCampanha(c, S, d)
    PROVE  IInv'
<1>1. item' \in [Itens -> ItemStatus]
  BY DEF IInv, TypeOK, CriarCampanha, ItemStatus, ItemAtivo
<1>2. camp' \in [Campanhas -> CampStatus]
  BY RecalculadoTipo DEF IInv, TypeOK, CriarCampanha
<1>3. quedas' \in 0..MaxQuedas
  BY ConstantesOk DEF IInv, TypeOK, CriarCampanha
<1>4. TypeOK'
  BY <1>1, <1>2, <1>3 DEF IInv, TypeOK, CriarCampanha, gate, Verde
<1>5. \A i \in Itens : item'[i] = "running" => item[i] = "running"
  BY DEF CriarCampanha
<1>6. SessaoOk(Varredor)' /\ RestoDe(Varredor)'
  <2>1. \A k : Correm(k)' \subseteq Correm(k)
    BY <1>5 DEF Correm, ItensDoChunk, CriarCampanha
  <2>2. SessaoOk(Varredor) /\ RestoDe(Varredor)
    BY DEF IInv, SessoesOk, RestoCobre, Processos
  <2> QED BY <2>1, <2>2 DEF CriarCampanha, SessaoOk, RestoDe
<1> QED
  BY <1>4, <1>5, <1>6, Moldura
  DEF IInv, TypeOK, ChunksCriados, RunningSobChunkAtivo, CriarCampanha, Processos

(* An action that leaves items, chunks, messages for chunks and sessions   *)
(* alone keeps everything but the types, which remain to be shown.         *)
LEMMA SoCampanhas ==
    ASSUME IInv, TypeOK',
           UNCHANGED <<item, lote, chunk, dono, criados, msgChunk, ses>>
    PROVE  IInv'
<1>1. SessaoOk(Varredor)' /\ RestoDe(Varredor)'
  BY DEF IInv, SessoesOk, RestoCobre, Processos, SessaoOk, RestoDe, Correm, ItensDoChunk
<1> QED
  BY <1>1, Moldura DEF IInv, ChunksCriados, RunningSobChunkAtivo, Processos

(* The dispatcher only sends messages.                                     *)
LEMMA DespacharPreserva ==
    ASSUME IInv, Despachar
    PROVE  IInv'
<1>1. msgCamp' \in [Campanhas -> 0..MaxMensagens]
  <2>1. \A n \in 0..MaxMensagens : MaisUm(n) \in 0..MaxMensagens
    BY MaisUmTipo
  <2>2. msgCamp' = msgCamp \/ \E S : msgCamp' = [c \in Campanhas |->
           IF c \in S THEN MaisUm(msgCamp[c]) ELSE msgCamp[c]]
    BY DEF Despachar
  <2> QED BY <2>1, <2>2 DEF IInv, TypeOK
<1>2. TypeOK'
  BY <1>1 DEF IInv, TypeOK, Despachar, banco, gate, gasto
<1> QED BY <1>2, SoCampanhas DEF Despachar, banco

(* The returns of the campaign task that leave its session empty.          *)
LEMMA CampanhaSemSessao ==
    ASSUME IInv, NEW w \in Workers, NEW c \in Campanhas,
           CampanhaEncerrada(w, c) \/ CampanhaEspera(w, c) \/ CampanhaSemVaga(w, c)
    PROVE  IInv'
<1>1. camp' \in [Campanhas -> CampStatus]
  BY RecalculadoTipo
  DEF IInv, TypeOK, CampanhaEncerrada, CampanhaEspera, CampanhaSemVaga, CampStatus
<1>2. msgCamp' \in [Campanhas -> 0..MaxMensagens]
  <2>1. Retira(msgCamp, c) \in [Campanhas -> 0..MaxMensagens]
    BY FilaTipo
    DEF IInv, TypeOK, CampanhaEncerrada, CampanhaEspera, CampanhaSemVaga, RecebeCampanha
  <2>2. Reagenda(Retira(msgCamp, c), c) \in [Campanhas -> 0..MaxMensagens]
    BY <2>1, FilaTipo
  <2> QED
    BY <2>1, <2>2 DEF CampanhaEncerrada, CampanhaEspera, CampanhaSemVaga
<1>3. TypeOK'
  BY <1>1, <1>2
  DEF IInv, TypeOK, CampanhaEncerrada, CampanhaEspera, CampanhaSemVaga, gate, gasto
<1> QED
  BY <1>3, SoCampanhas DEF CampanhaEncerrada, CampanhaEspera, CampanhaSemVaga

(* A task that keeps items, chunks and messages for chunks and only moves  *)
(* its own session, to a state where it holds no chunk.                    *)
LEMMA SoSessao ==
    ASSUME IInv, TypeOK', NEW p \in Processos,
           UNCHANGED <<item, lote, chunk, dono, criados, msgChunk>>,
           \A q \in Processos \ {p} : ses'[q] = ses[q],
           \A k \in ses'[p].lista : k <= criados,
           SessaoOk(p)',
           ses'[p].pc \notin PcChunk \cup {"rec_fim"}
    PROVE  IInv'
<1>1. RestoDe(p)'
  BY DEF RestoDe, PcChunk
<1> QED
  BY <1>1, Moldura DEF IInv, ChunksCriados, RunningSobChunkAtivo

(* The list of a recovery names chunks that exist.                         *)
LEMMA CampanhaRecuperaPreserva ==
    ASSUME IInv, NEW w \in Workers, NEW c \in Campanhas, CampanhaRecupera(w, c)
    PROVE  IInv'
<1> DEFINE nova == [ses[w] EXCEPT !.pc = "rec", !.camp = c, !.alcance = {c},
                       !.lista = StaleDe(c),
                       !.campVista = Vista(w, c, Recalculado(c, item, chunk))]
<1>1. TypeOK /\ w \in Processos /\ ses[w] \in Sessao
  BY DEF IInv, TypeOK, Processos
<1>2. StaleDe(c) \in SUBSET Chunks /\ \A k \in StaleDe(c) : k <= criados
  BY DEF IInv, ChunksCriados, StaleDe, AtivosDe, ChunkAtivo
<1>3. nova \in Sessao
  BY <1>1, <1>2, RecalculadoTipo, VistaTipo DEF Sessao, Pcs, PcRec
<1>4. /\ ses' \in [Processos -> Sessao]
      /\ ses'[w] = nova
      /\ \A q \in Processos \ {w} : ses'[q] = ses[q]
  BY <1>1, <1>3, MudaTipo DEF CampanhaRecupera
<1>5. camp' \in [Campanhas -> CampStatus] /\ msgCamp' \in [Campanhas -> 0..MaxMensagens]
  BY RecalculadoTipo, FilaTipo DEF IInv, TypeOK, CampanhaRecupera, RecebeCampanha
<1>6. TypeOK'
  BY <1>4, <1>5 DEF IInv, TypeOK, CampanhaRecupera, gate, gasto
<1>7. ses'[w].pc = "rec" /\ ses'[w].lista = StaleDe(c)
  BY <1>1, <1>4 DEF Sessao
<1>8. SessaoOk(w)'
  BY <1>7 DEF SessaoOk, PcChunk
<1> QED
  BY <1>1, <1>2, <1>4, <1>6, <1>7, <1>8, SoSessao DEF CampanhaRecupera, PcChunk

(* The decision to claim touches the campaign and the session only.        *)
LEMMA CampanhaDecidePreserva ==
    ASSUME IInv, NEW w \in Workers, NEW c \in Campanhas, CampanhaDecide(w, c)
    PROVE  IInv'
<1> DEFINE livres == MaxActiveChunks - Cardinality(ComLease(c))
           nova == [ses[w] EXCEPT !.pc = "reservar", !.camp = c,
                       !.campVista = Vista(w, c, Recalculado(c, item, chunk)),
                       !.slots = livres]
<1>1. TypeOK /\ w \in Processos /\ ses[w] \in Sessao
  BY DEF IInv, TypeOK, Processos
<1>2. livres \in Int
  BY CampanhasFinitas, ConstantesOk
<1>3. nova \in Sessao
  BY <1>1, <1>2, RecalculadoTipo, VistaTipo DEF Sessao, Pcs
<1>4. /\ ses' \in [Processos -> Sessao]
      /\ ses'[w] = nova
      /\ \A q \in Processos \ {w} : ses'[q] = ses[q]
  BY <1>1, <1>3, MudaTipo DEF CampanhaDecide
<1>5. camp' \in [Campanhas -> CampStatus] /\ msgCamp' \in [Campanhas -> 0..MaxMensagens]
  BY RecalculadoTipo, FilaTipo DEF IInv, TypeOK, CampanhaDecide, RecebeCampanha
<1>6. TypeOK'
  BY <1>4, <1>5 DEF IInv, TypeOK, CampanhaDecide, gate, gasto
<1>7. ses'[w].pc = "reservar" /\ ses'[w].camp = c /\ ses'[w].lista = ses[w].lista
  BY <1>1, <1>4 DEF Sessao
<1>8. SessaoOk(w)' /\ \A k \in ses'[w].lista : k <= criados
  BY <1>1, <1>7 DEF SessaoOk, PcChunk, IInv, ChunksCriados
<1> QED
  BY <1>1, <1>4, <1>6, <1>7, <1>8, SoSessao DEF CampanhaDecide, PcChunk
-----------------------------------------------------------------------------
(* The claim of chunks and their messages.                                 *)

(* The session of an idle process is a session.                            *)
LEMMA VaziaTipo == SessaoVazia \in Sessao
BY DEF SessaoVazia, Sessao, NaoVistas, Pcs, ChunkStatus, ItemStatus

(* The end of a task leaves a session about which nothing is asked.        *)
LEMMA EncerraTipo ==
    ASSUME TypeOK, NEW p \in Processos, Encerra(p)
    PROVE  /\ ses' \in [Processos -> Sessao]
           /\ \A q \in Processos \ {p} : ses'[q] = ses[q]
           /\ \A k \in ses'[p].lista : k <= criados
           /\ ses'[p].pc = "livre"
           /\ SessaoOk(p)' /\ RestoDe(p)'
<1>1. ses' \in [Processos -> Sessao] /\ ses'[p] = SessaoVazia
      /\ \A q \in Processos \ {p} : ses'[q] = ses[q]
  BY VaziaTipo, MudaTipo DEF Encerra
<1>2. ses'[p].pc = "livre" /\ ses'[p].lista = {}
  BY <1>1 DEF SessaoVazia
<1> QED BY <1>1, <1>2 DEF SessaoOk, RestoDe, PcChunk

(* The chunks of a claim are new, and they exist after it.  The items it   *)
(* makes run are theirs, and were nobody's to run before.                  *)
LEMMA ReservarPreserva ==
    ASSUME IInv, NEW w \in Workers, Reservar(w)
    PROVE  IInv'
<1> DEFINE c     == ses[w].camp
           fila0 == Pendentes(c)
           n     == Menor(Vagas(w), (Cardinality(fila0) + ChunkSize - 1) \div ChunkSize)
           novos == (criados + 1)..(criados + n)
           parte(i) == criados + 1 + (Posicao(fila0, i) \div ChunkSize)
           meus  == {i \in fila0 : parte(i) \in novos}
           nova  == [SessaoVazia EXCEPT !.pc = "enfileirar", !.camp = c, !.lista = novos]
<1>1. /\ TypeOK /\ w \in Processos /\ ses[w] \in Sessao
      /\ c \in Campanhas /\ criados \in 0..MaxChunks
  BY DEF Reservar, IInv, SessoesOk, SessaoOk, TypeOK, Processos
<1>2. n \in Nat /\ n > 0 /\ criados + n \in 0..MaxChunks
  <2>1. n \in Int
    BY <1>1, ConstantesOk, CampanhasFinitas DEF Vagas, Menor, Sessao
  <2> QED BY <1>1, <2>1, ConstantesOk DEF Reservar
<1>3. /\ novos \in SUBSET Chunks /\ novos # {}
      /\ \A k \in Chunks : k \in novos <=> criados < k /\ k <= criados + n
  <2> HIDE DEF n
  <2> QED BY <1>1, <1>2, ConstantesOk DEF Chunks
<1>4. meus \in SUBSET Itens /\ \A i \in meus : parte(i) \in novos /\ i[1] = c
  BY DEF Pendentes, ItensDe
<1>5. /\ criados' = criados + n
      /\ item'  = [i \in Itens |-> IF i \in meus THEN "running" ELSE item[i]]
      /\ lote'  = [i \in Itens |-> IF i \in meus THEN parte(i) ELSE lote[i]]
      /\ chunk' = [k \in Chunks |-> IF k \in novos THEN "queued" ELSE chunk[k]]
      /\ dono'  = [k \in Chunks |-> IF k \in novos THEN c ELSE dono[k]]
      /\ lease' = [k \in Chunks |-> IF k \in novos THEN "valido" ELSE lease[k]]
      /\ Grava(w, c, "running")
      /\ Muda(w, nova)
      /\ UNCHANGED <<execs, gate, fila, gasto>>
  BY DEF Reservar
<1> HIDE DEF n, novos, parte, meus
<1>6. nova \in Sessao
  BY <1>1, <1>3, VaziaTipo DEF Sessao, Pcs
<1>7. /\ ses' \in [Processos -> Sessao]
      /\ ses'[w] = nova
      /\ \A q \in Processos \ {w} : ses'[q] = ses[q]
  BY <1>1, <1>5, <1>6, MudaTipo
<1>8. ses'[w].pc = "enfileirar" /\ ses'[w].camp = c /\ ses'[w].lista = novos
  BY <1>7 DEF SessaoVazia
<1>9. TypeOK'
  <2>1. camp' \in [Campanhas -> CampStatus]
    BY <1>1, <1>5, GravaTipo DEF CampStatus
  <2>2. /\ item' \in [Itens -> ItemStatus]
        /\ lote' \in [Itens -> Chunks \cup {Nenhum}]
    BY <1>1, <1>3, <1>4, <1>5 DEF TypeOK, ItemStatus, ItemAtivo
  <2>3. /\ chunk' \in [Chunks -> ChunkStatus]
        /\ dono' \in [Chunks -> Campanhas \cup {Nenhum}]
        /\ lease' \in [Chunks -> {"valido", "vencido", "stale"}]
    BY <1>1, <1>3, <1>5 DEF TypeOK, ChunkStatus, ChunkAtivo
  <2> QED
    BY <1>1, <1>2, <1>5, <1>7, <2>1, <2>2, <2>3 DEF TypeOK, gate, fila, gasto
<1>10. ChunksCriados'
  <2>1. \A k \in Chunks : (k <= criados') <=> (k <= criados \/ k \in novos)
    BY <1>1, <1>2, <1>3, <1>5 DEF Chunks
  <2>2. \A k \in Chunks : k <= criados' <=> chunk'[k] # "nenhum"
    BY <1>3, <1>5, <2>1 DEF IInv, ChunksCriados
  <2>3. \A k \in Chunks : k <= criados' => dono'[k] \in Campanhas
    BY <1>1, <1>3, <1>5, <2>1 DEF IInv, ChunksCriados
  <2>4. \A i \in Itens : lote'[i] # Nenhum => lote'[i] <= criados'
    <3> SUFFICES ASSUME NEW i \in Itens, lote'[i] # Nenhum
                 PROVE  lote'[i] \in Chunks /\ (lote'[i] <= criados \/ lote'[i] \in novos)
      BY <2>1
    <3>1. CASE i \in meus
      BY <1>3, <1>4, <1>5, <3>1
    <3>2. CASE i \notin meus
      BY <1>1, <1>5, <3>2 DEF IInv, ChunksCriados, TypeOK
    <3> QED BY <3>1, <3>2
  <2>5. \A k \in Chunks : msgChunk'[k] > 0 => k <= criados'
    BY <1>5, <2>1 DEF IInv, ChunksCriados, fila
  <2>6. \A q \in Processos : \A k \in ses'[q].lista : k <= criados'
    <3> SUFFICES ASSUME NEW q \in Processos, NEW k \in ses'[q].lista
                 PROVE  k \in Chunks /\ (k <= criados \/ k \in novos)
      BY <2>1
    <3>1. CASE q = w
      BY <1>3, <1>8, <3>1
    <3>2. CASE q # w
      BY <1>7, <3>2 DEF IInv, ChunksCriados, Sessao
    <3> QED BY <3>1, <3>2
  <2> QED BY <2>2, <2>3, <2>4, <2>5, <2>6 DEF ChunksCriados
<1>11. SessoesOk'
  <2> SUFFICES ASSUME NEW q \in Processos PROVE SessaoOk(q)'
    BY DEF SessoesOk
  <2>1. CASE q = w
    BY <1>1, <1>3, <1>8, <2>1 DEF SessaoOk, PcChunk
  <2>2. CASE q # w
    <3>1. SessaoOk(q) /\ ses'[q] = ses[q]
      BY <1>7, <2>2 DEF IInv, SessoesOk
    <3>2. \A k \in Chunks : k <= criados => k <= criados'
      BY <1>1, <1>2, <1>5 DEF Chunks
    <3> QED BY <3>1, <3>2 DEF SessaoOk
  <2> QED BY <2>1, <2>2
<1>12. \A k \in Chunks : k <= criados => Correm(k)' = Correm(k)
  <2> SUFFICES ASSUME NEW k \in Chunks, k <= criados, NEW i \in Itens
               PROVE  (lote'[i] = k /\ item'[i] = "running")
                         <=> (lote[i] = k /\ item[i] = "running")
    BY DEF Correm, ItensDoChunk
  <2>1. CASE i \in meus
    <3>1. lote'[i] # k
      BY <1>1, <1>3, <1>4, <1>5, <2>1 DEF Chunks
    <3>2. item[i] = "pending"
      BY <2>1 DEF meus, Pendentes
    <3> QED BY <3>1, <3>2
  <2>2. CASE i \notin meus
    BY <1>5, <2>2
  <2> QED BY <2>1, <2>2
<1>13. RestoCobre'
  <2> SUFFICES ASSUME NEW q \in Processos PROVE RestoDe(q)'
    BY DEF RestoCobre
  <2>1. CASE q = w
    BY <1>8, <2>1 DEF RestoDe
  <2>2. CASE q # w
    <3>1. RestoDe(q) /\ SessaoOk(q) /\ ses'[q] = ses[q]
      BY <1>7, <2>2 DEF IInv, SessoesOk, RestoCobre
    <3>2. ses[q].pc \in {"iterar", "materializar", "cancelar", "rec_fim"}
             => Correm(ses[q].chunk)' = Correm(ses[q].chunk)
      BY <1>12, <3>1 DEF SessaoOk, PcChunk
    <3> QED BY <3>1, <3>2 DEF RestoDe
  <2> QED BY <2>1, <2>2
<1>14. RunningSobChunkAtivo'
  <2> SUFFICES ASSUME NEW i \in Itens, item'[i] = "running"
               PROVE  /\ lote'[i] \in Chunks
                      /\ chunk'[lote'[i]] \in ChunkAtivo
                      /\ dono'[lote'[i]] = i[1]
    BY DEF RunningSobChunkAtivo
  <2>1. CASE i \in meus
    BY <1>3, <1>4, <1>5, <2>1 DEF ChunkAtivo
  <2>2. CASE i \notin meus
    <3>1. item[i] = "running" /\ lote'[i] = lote[i]
      BY <1>5, <2>2
    <3>2. lote[i] \in Chunks /\ chunk[lote[i]] \in ChunkAtivo /\ dono[lote[i]] = i[1]
      BY <3>1 DEF IInv, RunningSobChunkAtivo
    <3>3. lote[i] \notin novos
      BY <1>1, <1>3, <3>2 DEF IInv, ChunksCriados, ChunkAtivo, Chunks
    <3> QED BY <1>5, <3>1, <3>2, <3>3
  <2> QED BY <2>1, <2>2
<1> QED BY <1>9, <1>10, <1>11, <1>13, <1>14 DEF IInv

(* A claim that finds nothing ends the task.                               *)
LEMMA ReservarNadaPreserva ==
    ASSUME IInv, NEW w \in Workers, ReservarNada(w)
    PROVE  IInv'
<1>1. TypeOK /\ w \in Processos
  BY DEF IInv, Processos
<1>2. camp' \in [Campanhas -> CampStatus]
  BY <1>1, GravaTipo, RecalculadoTipo DEF ReservarNada
<1>3. TypeOK'
  BY <1>1, <1>2, EncerraTipo DEF TypeOK, ReservarNada, gate, fila, gasto
<1> QED
  BY <1>1, <1>3, EncerraTipo, SoSessao DEF ReservarNada, fila, PcChunk

(* The messages of a claim name chunks that exist.                         *)
LEMMA EnfileirarPreserva ==
    ASSUME IInv, NEW w \in Workers, Enfileirar(w)
    PROVE  IInv'
<1> DEFINE k == CHOOSE k \in ses[w].lista : \A j \in ses[w].lista : k <= j
           nova == [ses[w] EXCEPT !.lista = @ \ {k}]
<1>1. TypeOK /\ w \in Processos /\ ses[w] \in Sessao /\ ses[w].pc = "enfileirar"
  BY DEF IInv, TypeOK, Processos, Enfileirar
<1>2. k \in Chunks /\ k <= criados
  <2>1. ses[w].lista \in SUBSET Nat /\ ses[w].lista # {}
    BY <1>1 DEF IInv, SessoesOk, SessaoOk, Sessao, Chunks
  <2>2. k \in ses[w].lista
    BY <2>1, MenorNatural
  <2> QED BY <1>1, <2>2 DEF IInv, ChunksCriados, Sessao
<1>3. /\ msgChunk' = Enfileira(msgChunk, k)
      /\ \/ Encerra(w)
         \/ ses[w].lista # {k} /\ Muda(w, nova)
      /\ UNCHANGED <<banco, gate, msgCamp, msgDisp, gasto>>
  BY DEF Enfileirar
<1> HIDE DEF k
<1>4. nova \in Sessao
  BY <1>1 DEF Sessao
<1>5. /\ ses' \in [Processos -> Sessao]
      /\ \A q \in Processos \ {w} : ses'[q] = ses[q]
  BY <1>1, <1>3, <1>4, MudaTipo, EncerraTipo
<1>6. TypeOK'
  BY <1>1, <1>3, <1>5, FilaTipo DEF TypeOK, banco, gate, gasto
<1>7. \A j \in Chunks : msgChunk'[j] > 0 => j <= criados
  BY <1>1, <1>2, <1>3 DEF IInv, TypeOK, ChunksCriados, Enfileira
<1>8. SessaoOk(w)' /\ RestoDe(w)' /\ \A j \in ses'[w].lista : j <= criados
  <2>1. CASE Encerra(w)
    BY <1>1, <2>1, EncerraTipo
  <2>2. CASE ses[w].lista # {k} /\ Muda(w, nova)
    <3>1. /\ ses'[w].pc = "enfileirar" /\ ses'[w].camp = ses[w].camp
          /\ ses'[w].lista = ses[w].lista \ {k}
      BY <1>1, <1>4, <2>2, MudaTipo DEF Sessao
    <3>2. SessaoOk(w) /\ \A j \in ses[w].lista : j <= criados
      BY <1>1 DEF IInv, SessoesOk, ChunksCriados
    <3> QED BY <1>1, <2>2, <3>1, <3>2 DEF SessaoOk, RestoDe, PcChunk
  <2> QED BY <1>3, <2>1, <2>2
<1> QED
  BY <1>1, <1>3, <1>5, <1>6, <1>7, <1>8, Moldura
  DEF IInv, RunningSobChunkAtivo, banco
-----------------------------------------------------------------------------
(* The chunk task.                                                         *)

(* Items that go back to "pending" leave their chunk, and no other item    *)
(* starts to run.                                                          *)
LEMMA DevolveTipo ==
    ASSUME IInv, NEW p \in Processos, NEW c, NEW R \in SUBSET Itens,
           Devolve(p, c, R)
    PROVE  /\ camp' \in [Campanhas -> CampStatus]
           /\ item' \in [Itens -> ItemStatus]
           /\ lote' \in [Itens -> Chunks \cup {Nenhum}]
           /\ \A i \in R : item'[i] = "pending"
           /\ \A i \in Itens : item'[i] = "running"
                 => item[i] = "running" /\ lote'[i] = lote[i]
           /\ \A i \in Itens : lote'[i] \in {lote[i], Nenhum}
           /\ \A k : Correm(k)' \subseteq Correm(k) \ R
           /\ VistaDevolvida(p, c, R) \in [Campanhas -> CampStatus \cup {"ausente"}]
<1>1. TypeOK /\ ses[p] \in Sessao
  BY DEF IInv, TypeOK
<1>2. camp' \in [Campanhas -> CampStatus]
  BY <1>1, GravaTipo, RecalculadoTipo DEF Devolve, TypeOK
<1>3. VistaDevolvida(p, c, R) \in [Campanhas -> CampStatus \cup {"ausente"}]
  BY <1>1, VistaTipo, RecalculadoTipo DEF VistaDevolvida, Sessao
<1>4. /\ item' = [i \in Itens |-> IF i \in R THEN "pending" ELSE item[i]]
      /\ lote' = [i \in Itens |-> IF i \in R THEN Nenhum ELSE lote[i]]
  BY DEF Devolve
<1>5. \A k : Correm(k)' \subseteq Correm(k) \ R
  BY <1>4 DEF Correm, ItensDoChunk
<1> QED
  BY <1>1, <1>2, <1>3, <1>4, <1>5 DEF TypeOK, ItemStatus, ItemAtivo

(* The message of a closed chunk is dropped.                               *)
LEMMA ChunkIgnoradoPreserva ==
    ASSUME IInv, NEW w \in Workers, NEW k \in Chunks, ChunkIgnorado(w, k)
    PROVE  IInv'
<1>1. /\ msgChunk' \in [Chunks -> 0..MaxMensagens]
      /\ msgCamp' \in [Campanhas -> 0..MaxMensagens]
  BY FilaTipo DEF IInv, TypeOK, ChunkIgnorado, RecebeChunk
<1>2. TypeOK'
  BY <1>1 DEF IInv, TypeOK, ChunkIgnorado, banco, gate, gasto
<1>3. \A j \in Chunks : msgChunk'[j] > 0 => j <= criados
  BY ConstantesOk
  DEF IInv, TypeOK, ChunksCriados, ChunkIgnorado, RecebeChunk, Retira
<1>4. SessaoOk(Varredor)' /\ RestoDe(Varredor)'
  BY DEF IInv, SessoesOk, RestoCobre, Processos, SessaoOk, RestoDe, Correm,
         ItensDoChunk, ChunkIgnorado, banco
<1> QED
  BY <1>2, <1>3, <1>4, Moldura
  DEF IInv, ChunksCriados, RunningSobChunkAtivo, Processos, ChunkIgnorado, banco

(* A chunk stopped before its first item leaves none running.              *)
LEMMA ChunkBarradoPreserva ==
    ASSUME IInv, NEW w \in Workers, NEW k \in Chunks, ChunkBarrado(w, k)
    PROVE  IInv'
<1> DEFINE c == dono[k]
           R == ItensDoChunk(k)
           nova == [ses[w] EXCEPT !.pc = "cancelar", !.camp = c, !.chunk = k,
                       !.chunkVisto = chunk[k]]
<1>1. /\ TypeOK /\ w \in Processos /\ ses[w] \in Sessao /\ R \in SUBSET Itens
      /\ chunk[k] \in ChunkAtivo /\ msgChunk[k] > 0
      /\ k <= criados /\ c \in Campanhas
  BY DEF IInv, TypeOK, ChunksCriados, Processos, ItensDoChunk, ChunkBarrado, RecebeChunk
<1>2. /\ Devolve(w, c, R) /\ Muda(w, nova) /\ msgChunk' = Retira(msgChunk, k)
      /\ UNCHANGED <<chunk, dono, lease, criados, execs, gate, msgCamp, msgDisp, gasto>>
  BY DEF ChunkBarrado, RecebeChunk
<1>3. nova \in Sessao
  BY <1>1 DEF Sessao, Pcs, PcChunk, ChunkStatus
<1>4. /\ ses' \in [Processos -> Sessao]
      /\ ses'[w] = nova
      /\ \A q \in Processos \ {w} : ses'[q] = ses[q]
  BY <1>1, <1>2, <1>3, MudaTipo
<1>5. msgChunk' \in [Chunks -> 0..MaxMensagens]
      /\ \A j \in Chunks : msgChunk'[j] > 0 => j <= criados
  BY <1>1, <1>2, ConstantesOk, FilaTipo DEF IInv, TypeOK, ChunksCriados, Retira
<1>6. TypeOK'
  BY <1>1, <1>2, <1>4, <1>5, DevolveTipo DEF TypeOK, gate, gasto
<1>7. /\ ses'[w].pc = "cancelar" /\ ses'[w].camp = c /\ ses'[w].chunk = k
      /\ ses'[w].lista = ses[w].lista
  BY <1>1, <1>4 DEF Sessao
<1>8. SessaoOk(w)' /\ \A j \in ses'[w].lista : j <= criados
  BY <1>1, <1>2, <1>7 DEF SessaoOk, PcChunk, IInv, ChunksCriados
<1>9. RestoDe(w)'
  <2>1. Correm(k)' = {}
    BY <1>1, <1>2, DevolveTipo DEF Correm
  <2> QED BY <1>7, <2>1 DEF RestoDe
<1> QED
  BY <1>1, <1>2, <1>4, <1>5, <1>6, <1>8, <1>9, DevolveTipo, Moldura
  DEF IInv, RunningSobChunkAtivo

(* The loop starts with all the items of the chunk before it.              *)
LEMMA ChunkIniciaPreserva ==
    ASSUME IInv, NEW w \in Workers, NEW k \in Chunks, ChunkInicia(w, k)
    PROVE  IInv'
<1> DEFINE nova == [ses[w] EXCEPT !.pc = "iterar", !.camp = dono[k], !.chunk = k,
                       !.resto = ItensDoChunk(k), !.chunkVisto = "running"]
<1>1. /\ TypeOK /\ w \in Processos /\ ses[w] \in Sessao
      /\ chunk[k] \in ChunkAtivo /\ msgChunk[k] > 0
      /\ k <= criados /\ dono[k] \in Campanhas /\ ItensDoChunk(k) \in SUBSET Itens
  BY DEF IInv, TypeOK, ChunksCriados, Processos, ItensDoChunk, ChunkInicia, RecebeChunk
<1>2. nova \in Sessao
  BY <1>1 DEF Sessao, Pcs, PcChunk, ChunkStatus, ChunkAtivo
<1>3. /\ ses' \in [Processos -> Sessao]
      /\ ses'[w] = nova
      /\ \A q \in Processos \ {w} : ses'[q] = ses[q]
  BY <1>1, <1>2, MudaTipo DEF ChunkInicia
<1>4. msgChunk' \in [Chunks -> 0..MaxMensagens]
      /\ \A j \in Chunks : msgChunk'[j] > 0 => j <= criados
  BY <1>1, ConstantesOk, FilaTipo
  DEF IInv, TypeOK, ChunksCriados, ChunkInicia, RecebeChunk, Retira
<1>5. TypeOK'
  BY <1>1, <1>3, <1>4 DEF TypeOK, ChunkInicia, ChunkStatus, ChunkAtivo, gate, gasto
<1>6. /\ ses'[w].pc = "iterar" /\ ses'[w].camp = dono[k] /\ ses'[w].chunk = k
      /\ ses'[w].resto = ItensDoChunk(k) /\ ses'[w].lista = ses[w].lista
  BY <1>1, <1>3 DEF Sessao
<1>7. SessaoOk(w)' /\ \A j \in ses'[w].lista : j <= criados
  BY <1>1, <1>6 DEF SessaoOk, PcChunk, IInv, ChunksCriados, ChunkInicia
<1>8. RestoDe(w)'
  BY <1>6 DEF RestoDe, Correm, ItensDoChunk, ChunkInicia
<1> QED
  BY <1>1, <1>3, <1>4, <1>5, <1>7, <1>8, Moldura
  DEF IInv, TypeOK, RunningSobChunkAtivo, ChunkInicia, ChunkAtivo

(* A worker that sees its chunk closed lets go of it.                      *)
LEMMA IterarAbortaPreserva ==
    ASSUME IInv, NEW w \in Workers, IterarAborta(w)
    PROVE  IInv'
<1>1. TypeOK /\ w \in Processos
  BY DEF IInv, Processos
<1>2. TypeOK'
  BY <1>1, EncerraTipo, FilaTipo DEF TypeOK, IterarAborta, banco, gate, gasto
<1> QED
  BY <1>1, <1>2, EncerraTipo, SoSessao DEF IterarAborta, banco, PcChunk

(* A loop stopped by the gate returns whatever still ran.                  *)
LEMMA IterarBarradoPreserva ==
    ASSUME IInv, NEW w \in Workers, IterarBarrado(w)
    PROVE  IInv'
<1> DEFINE c == ses[w].camp
           R == ses[w].resto
           nova == [SessaoVazia EXCEPT !.pc = "cancelar", !.camp = c,
                       !.chunk = ses[w].chunk, !.chunkVisto = ses[w].chunkVisto]
<1>1. /\ TypeOK /\ w \in Processos /\ ses[w] \in Sessao /\ R \in SUBSET Itens
      /\ ses[w].pc = "iterar" /\ SessaoOk(w) /\ RestoDe(w)
  BY DEF IInv, TypeOK, SessoesOk, RestoCobre, Processos, Sessao, IterarBarrado, IterarContinua
<1>2. /\ Devolve(w, c, R) /\ Muda(w, nova)
      /\ lease' = [lease EXCEPT ![ses[w].chunk] = "valido"]
      /\ UNCHANGED <<chunk, dono, criados, execs, gate, fila, gasto>>
  BY DEF IterarBarrado, IterarContinua
<1>3. nova \in Sessao
  BY <1>1, VaziaTipo DEF Sessao, Pcs, PcChunk
<1>4. /\ ses' \in [Processos -> Sessao]
      /\ ses'[w] = nova
      /\ \A q \in Processos \ {w} : ses'[q] = ses[q]
  BY <1>1, <1>2, <1>3, MudaTipo
<1>5. TypeOK'
  BY <1>1, <1>2, <1>4, DevolveTipo DEF TypeOK, gate, fila, gasto
<1>6. /\ ses'[w].pc = "cancelar" /\ ses'[w].camp = c /\ ses'[w].chunk = ses[w].chunk
      /\ ses'[w].lista = {}
  BY <1>4 DEF SessaoVazia
<1>7. SessaoOk(w)' /\ \A j \in ses'[w].lista : j <= criados
  BY <1>1, <1>2, <1>6 DEF SessaoOk, PcChunk, IInv, ChunksCriados
<1>8. RestoDe(w)'
  <2>1. Correm(ses[w].chunk) \subseteq R
    BY <1>1 DEF RestoDe
  <2>2. \A k : k = ses[w].chunk => Correm(k)' = {}
    BY <1>1, <1>2, <2>1, DevolveTipo
  <2> QED BY <1>6, <2>2 DEF RestoDe
<1> QED
  BY <1>1, <1>2, <1>4, <1>5, <1>7, <1>8, DevolveTipo, Moldura
  DEF IInv, RunningSobChunkAtivo, ChunksCriados, fila

(* An item taken in hand stays among those left.                           *)
LEMMA IterarComecaPreserva ==
    ASSUME IInv, NEW w \in Workers, IterarComeca(w)
    PROVE  IInv'
<1> DEFINE i == Proximo(ses[w].resto)
           nova == [ses[w] EXCEPT !.pc = "materializar", !.itemVisto = item[i]]
<1>1. /\ TypeOK /\ w \in Processos /\ ses[w] \in Sessao
      /\ ses[w].pc = "iterar" /\ ses[w].resto # {} /\ SessaoOk(w) /\ RestoDe(w)
  BY DEF IInv, TypeOK, SessoesOk, RestoCobre, Processos, IterarComeca, IterarContinua
<1>2. i \in Itens
  BY <1>1, ProximoPertence DEF Sessao
<1>3. nova \in Sessao
  BY <1>1, <1>2 DEF Sessao, Pcs, PcChunk, TypeOK
<1>4. /\ ses' \in [Processos -> Sessao]
      /\ ses'[w] = nova
      /\ \A q \in Processos \ {w} : ses'[q] = ses[q]
  BY <1>1, <1>3, MudaTipo DEF IterarComeca
<1>5. TypeOK'
  <2>1. execs' \in SUBSET (Itens \X (Workers \cup {Nenhum}) \X Chunks)
    BY <1>1, <1>2 DEF TypeOK, IterarComeca, SessaoOk, PcChunk
  <2>2. lease' \in [Chunks -> {"valido", "vencido", "stale"}]
    BY <1>1 DEF TypeOK, IterarComeca, IterarContinua
  <2> QED
    BY <1>1, <1>4, <2>1, <2>2 DEF TypeOK, IterarComeca, gate, fila, gasto
<1>6. /\ ses'[w].pc = "materializar" /\ ses'[w].camp = ses[w].camp
      /\ ses'[w].chunk = ses[w].chunk /\ ses'[w].resto = ses[w].resto
      /\ ses'[w].itemVisto = item[i] /\ ses'[w].lista = ses[w].lista
  BY <1>1, <1>4 DEF Sessao
<1>7. SessaoOk(w)' /\ \A j \in ses'[w].lista : j <= criados
  BY <1>1, <1>6 DEF SessaoOk, PcChunk, IInv, ChunksCriados, IterarComeca
<1>8. RestoDe(w)'
  <2>1. item[i] \in ItemFeito => i \notin Correm(ses[w].chunk)
    BY DEF Correm, ItemFeito
  <2> QED
    BY <1>1, <1>6, <2>1 DEF RestoDe, Correm, ItensDoChunk, IterarComeca
<1> QED
  BY <1>1, <1>4, <1>5, <1>7, <1>8, Moldura
  DEF IInv, RunningSobChunkAtivo, ChunksCriados, IterarComeca, fila
(* The result of an item never makes it run, and a worker that stored it   *)
(* has one item less before it: the item is done, or was no longer its     *)
(* chunk's to run.                                                         *)
LEMMA RegistraTipo ==
    ASSUME IInv, NEW w \in Workers, NEW r \in ItemFeito, NEW visto,
           ses[w].resto # {}, ses[w].pc \in {"iterar", "materializar"},
           Registra(w, r, visto),
           visto \in ItemFeito
              => Proximo(ses[w].resto) \notin Correm(ses[w].chunk),
           lote' = lote
    PROVE  /\ Proximo(ses[w].resto) \in Itens
           /\ camp' \in [Campanhas -> CampStatus]
           /\ item' \in [Itens -> ItemStatus]
           /\ \A j \in Itens : item'[j] = "running" => item[j] = "running"
           /\ \A k : k = ses[w].chunk =>
                 Correm(k)' \subseteq ses[w].resto \ {Proximo(ses[w].resto)}
<1> DEFINE i == Proximo(ses[w].resto)
<1>1. TypeOK /\ w \in Processos /\ ses[w] \in Sessao /\ RestoDe(w)
  BY DEF IInv, TypeOK, Processos, RestoCobre
<1>2. i \in Itens
  BY <1>1, ProximoPertence DEF Sessao
<1>3. camp' \in [Campanhas -> CampStatus]
  BY <1>1, GravaTipo, RecalculadoTipo DEF Registra
<1>4. item' = [item EXCEPT ![i] = IF visto = r THEN @ ELSE r]
  BY DEF Registra
<1> HIDE DEF i
<1>5. item' \in [Itens -> ItemStatus]
  BY <1>1, <1>4 DEF TypeOK, ItemStatus
<1>6. \A j \in Itens : item'[j] = "running" => item[j] = "running"
  BY <1>1, <1>4 DEF TypeOK, ItemFeito
<1>7. ASSUME NEW k, k = ses[w].chunk, NEW j \in Correm(k)'
      PROVE  j \in ses[w].resto /\ j # i
  <2>1. j \in Itens /\ lote[j] = k /\ item'[j] = "running"
    BY <1>7 DEF Correm, ItensDoChunk
  <2>2. j \in Correm(k)
    BY <1>6, <2>1 DEF Correm, ItensDoChunk
  <2>3. j \in ses[w].resto
    BY <1>1, <1>7, <2>2 DEF RestoDe
  <2>4. ASSUME j = i PROVE FALSE
    <3>1. visto = r
      BY <1>1, <1>4, <2>1, <2>4 DEF TypeOK, ItemFeito
    <3> QED BY <1>7, <2>2, <2>4, <3>1 DEF i
  <2> QED BY <2>3, <2>4
<1> QED BY <1>2, <1>3, <1>5, <1>6, <1>7 DEF i

(* A materialized item runs no more.                                       *)
LEMMA MaterializarPreserva ==
    ASSUME IInv, NEW w \in Workers, NEW r \in ItemFeito, Materializar(w, r)
    PROVE  IInv'
<1> DEFINE c == ses[w].camp
           k == ses[w].chunk
           i == Proximo(ses[w].resto)
           nova == [ses[w] EXCEPT !.pc = "iterar", !.resto = @ \ {i},
                       !.falhou = @ \/ r = "failed", !.chunkVisto = chunk[k],
                       !.itemVisto = "nenhum"]
<1>1. /\ TypeOK /\ w \in Processos /\ ses[w] \in Sessao
      /\ ses[w].pc = "materializar" /\ SessaoOk(w) /\ RestoDe(w)
  BY DEF IInv, TypeOK, SessoesOk, RestoCobre, Processos, Materializar
<1>2. k \in Chunks /\ ses[w].resto # {}
  BY <1>1 DEF SessaoOk, PcChunk
<1>3. /\ Registra(w, r, ses[w].itemVisto) /\ Muda(w, nova)
      /\ execs' = execs \ {<<i, w, k>>} /\ lease' = [lease EXCEPT ![k] = "valido"]
      /\ UNCHANGED <<lote, chunk, dono, criados, gate, fila, gasto>>
  BY DEF Materializar
<1>4. /\ camp' \in [Campanhas -> CampStatus]
      /\ item' \in [Itens -> ItemStatus]
      /\ \A j \in Itens : item'[j] = "running" => item[j] = "running"
      /\ \A q : q = k => Correm(q)' \subseteq ses[w].resto \ {i}
  BY <1>1, <1>2, <1>3, RegistraTipo DEF RestoDe
<1>5. nova \in Sessao
  <2>1. (ses[w].falhou \/ r = "failed") \in BOOLEAN
    BY ZenonT(10)
  <2>2. ses[w].resto \ {i} \in SUBSET Itens /\ chunk[k] \in ChunkStatus
    BY <1>1, <1>2 DEF Sessao, TypeOK
  <2> QED BY <1>1, <2>1, <2>2 DEF Sessao, Pcs, PcChunk, ItemStatus
<1>6. /\ ses' \in [Processos -> Sessao]
      /\ ses'[w] = nova
      /\ \A q \in Processos \ {w} : ses'[q] = ses[q]
  BY <1>1, <1>3, <1>5, MudaTipo
<1>7. TypeOK'
  BY <1>1, <1>2, <1>3, <1>4, <1>6 DEF TypeOK, gate, fila, gasto
<1>8. /\ ses'[w].pc = "iterar" /\ ses'[w].camp = c /\ ses'[w].chunk = k
      /\ ses'[w].resto = ses[w].resto \ {i} /\ ses'[w].lista = ses[w].lista
  BY <1>1, <1>6 DEF Sessao
<1>9. SessaoOk(w)' /\ \A j \in ses'[w].lista : j <= criados
  BY <1>1, <1>3, <1>8 DEF SessaoOk, PcChunk, IInv, ChunksCriados
<1>10. RestoDe(w)'
  BY <1>4, <1>8 DEF RestoDe
<1> QED
  BY <1>1, <1>3, <1>4, <1>6, <1>7, <1>9, <1>10, Moldura
  DEF IInv, TypeOK, RunningSobChunkAtivo, ChunksCriados, fila

(* An item without a company runs no more.                                 *)
LEMMA ItemSemCompanhiaPreserva ==
    ASSUME IInv, NEW w \in Workers, ItemSemCompanhia(w)
    PROVE  IInv'
<1> DEFINE c == ses[w].camp
           k == ses[w].chunk
           i == Proximo(ses[w].resto)
           nova == [ses[w] EXCEPT !.resto = @ \ {i}, !.falhou = TRUE]
<1>1. /\ TypeOK /\ w \in Processos /\ ses[w] \in Sessao /\ ses[w].resto # {}
      /\ ses[w].pc = "iterar" /\ SessaoOk(w) /\ RestoDe(w)
  BY DEF IInv, TypeOK, SessoesOk, RestoCobre, Processos, ItemSemCompanhia, IterarContinua
<1>2. k \in Chunks
  BY <1>1 DEF SessaoOk, PcChunk
<1>3. /\ Registra(w, "failed", item[i]) /\ Muda(w, nova)
      /\ lease' = [lease EXCEPT ![k] = "valido"]
      /\ UNCHANGED <<lote, chunk, dono, criados, execs, gate, fila, gasto>>
  BY DEF ItemSemCompanhia, IterarContinua
<1>4. /\ camp' \in [Campanhas -> CampStatus]
      /\ item' \in [Itens -> ItemStatus]
      /\ \A j \in Itens : item'[j] = "running" => item[j] = "running"
      /\ \A q : q = k => Correm(q)' \subseteq ses[w].resto \ {i}
  <2>1. item[i] \in ItemFeito => i \notin Correm(k)
    BY DEF ItemFeito, Correm
  <2> QED BY <1>1, <1>3, <2>1, RegistraTipo DEF ItemFeito
<1>5. nova \in Sessao
  BY <1>1 DEF Sessao
<1>6. /\ ses' \in [Processos -> Sessao]
      /\ ses'[w] = nova
      /\ \A q \in Processos \ {w} : ses'[q] = ses[q]
  BY <1>1, <1>3, <1>5, MudaTipo
<1>7. TypeOK'
  BY <1>1, <1>2, <1>3, <1>4, <1>6 DEF TypeOK, gate, fila, gasto
<1>8. /\ ses'[w].pc = "iterar" /\ ses'[w].camp = c /\ ses'[w].chunk = k
      /\ ses'[w].resto = ses[w].resto \ {i} /\ ses'[w].lista = ses[w].lista
  BY <1>1, <1>6 DEF Sessao
<1>9. SessaoOk(w)' /\ \A j \in ses'[w].lista : j <= criados
  BY <1>1, <1>3, <1>8 DEF SessaoOk, PcChunk, IInv, ChunksCriados
<1>10. RestoDe(w)'
  BY <1>4, <1>8 DEF RestoDe
<1> QED
  BY <1>1, <1>3, <1>4, <1>6, <1>7, <1>9, <1>10, Moldura
  DEF IInv, TypeOK, RunningSobChunkAtivo, ChunksCriados, fila

(* A chunk is closed only when none of its items runs.                     *)
LEMMA ConcluiPreserva ==
    ASSUME IInv, NEW w \in Workers, NEW st \in ChunkTerminal, Conclui(w, st),
           ses[w].pc \in PcChunk, Correm(ses[w].chunk) = {}
    PROVE  IInv'
<1> DEFINE k == ses[w].chunk
<1>1. TypeOK /\ w \in Processos /\ k \in Chunks /\ k <= criados
  BY DEF IInv, TypeOK, Processos, SessoesOk, SessaoOk
<1>2. /\ chunk' = [chunk EXCEPT ![k] = IF ses[w].chunkVisto = st THEN @ ELSE st]
      /\ lease' = [lease EXCEPT ![k] = "vencido"]
      /\ msgCamp' = Reagenda(msgCamp, ses[w].camp)
      /\ Encerra(w)
      /\ UNCHANGED <<camp, item, lote, dono, criados, execs, gate, msgChunk, msgDisp, gasto>>
  BY DEF Conclui
<1>3. chunk' \in [Chunks -> ChunkStatus] /\ chunk[k] # "nenhum"
  BY <1>1, <1>2 DEF IInv, TypeOK, ChunksCriados, ChunkStatus
<1>4. TypeOK'
  BY <1>1, <1>2, <1>3, EncerraTipo, FilaTipo DEF TypeOK, gate, gasto
<1>5. \A i \in Itens : item'[i] = "running"
         => item[i] = "running" /\ lote'[i] = lote[i] /\ chunk'[lote[i]] \in ChunkAtivo
  <2> SUFFICES ASSUME NEW i \in Itens, item[i] = "running"
               PROVE  chunk'[lote[i]] \in ChunkAtivo
    BY <1>2
  <2>1. lote[i] # k
    BY DEF Correm, ItensDoChunk
  <2> QED BY <1>1, <1>2, <2>1 DEF IInv, TypeOK, RunningSobChunkAtivo
<1>6. \A j \in Chunks : chunk'[j] = "nenhum" <=> chunk[j] = "nenhum"
  BY <1>1, <1>2, <1>3 DEF TypeOK, ChunkTerminal
<1> QED
  BY <1>1, <1>2, <1>4, <1>5, <1>6, EncerraTipo, Moldura DEF IInv, ChunksCriados

(* A loop that ends has no item left before it.                            *)
LEMMA FinalizarPreserva ==
    ASSUME IInv, NEW w \in Workers, Finalizar(w)
    PROVE  IInv'
<1>1. ses[w].pc \in PcChunk /\ Correm(ses[w].chunk) = {}
  BY DEF IInv, RestoCobre, RestoDe, Processos, PcChunk, Finalizar
<1> QED BY <1>1, ConcluiPreserva DEF Finalizar, ChunkTerminal

(* A stopped chunk had its items returned before.                          *)
LEMMA CancelarPreserva ==
    ASSUME IInv, NEW w \in Workers, Cancelar(w)
    PROVE  IInv'
<1>1. ses[w].pc \in PcChunk /\ Correm(ses[w].chunk) = {}
  BY DEF IInv, RestoCobre, RestoDe, Processos, PcChunk, Cancelar
<1> QED BY <1>1, ConcluiPreserva DEF Cancelar, ChunkTerminal
-----------------------------------------------------------------------------
(* The recovery of stale chunks, the sweeps and the environment.           *)

(* The recovery leaves no item of the stale chunk running.                 *)
LEMMA RecRevertePreserva ==
    ASSUME IInv, NEW p \in Processos, RecReverte(p)
    PROVE  IInv'
<1>1. PICK k \in ses[p].lista :
         LET R == {i \in ItensDoChunk(k) : item[i] = "running"} IN
         /\ ses[p].pc = "rec"
         /\ Devolve(p, dono[k], R)
         /\ execs' = {e \in execs : e[1] \notin R}
         /\ Muda(p, [ses[p] EXCEPT !.pc = "rec_fim", !.chunk = k,
                                   !.campVista = VistaDevolvida(p, dono[k], R)])
         /\ UNCHANGED <<chunk, dono, lease, criados, gate, fila, gasto>>
  BY DEF RecReverte
<1> DEFINE c == dono[k]
           R == {i \in ItensDoChunk(k) : item[i] = "running"}
           nova == [ses[p] EXCEPT !.pc = "rec_fim", !.chunk = k,
                                  !.campVista = VistaDevolvida(p, c, R)]
<1>2. /\ TypeOK /\ ses[p] \in Sessao /\ R \in SUBSET Itens
      /\ k \in Chunks /\ k <= criados
  BY DEF IInv, TypeOK, ChunksCriados, Sessao, ItensDoChunk
<1>3. VistaDevolvida(p, c, R) \in [Campanhas -> CampStatus \cup {"ausente"}]
  BY <1>1, <1>2, DevolveTipo
<1>4. nova \in Sessao
  BY <1>2, <1>3 DEF Sessao, Pcs, PcRec
<1>5. /\ ses' \in [Processos -> Sessao]
      /\ ses'[p] = nova
      /\ \A q \in Processos \ {p} : ses'[q] = ses[q]
  BY <1>1, <1>2, <1>4, MudaTipo
<1>6. TypeOK'
  BY <1>1, <1>2, <1>5, DevolveTipo DEF TypeOK, gate, fila, gasto
<1>7. ses'[p].pc = "rec_fim" /\ ses'[p].chunk = k /\ ses'[p].lista = ses[p].lista
  BY <1>2, <1>5 DEF Sessao
<1>8. SessaoOk(p)' /\ \A j \in ses'[p].lista : j <= criados
  BY <1>1, <1>2, <1>7 DEF SessaoOk, PcChunk, IInv, ChunksCriados
<1>9. RestoDe(p)'
  <2>1. Correm(k)' = {}
    BY <1>1, <1>2, DevolveTipo DEF Correm
  <2> QED BY <1>7, <2>1 DEF RestoDe
<1> QED
  BY <1>1, <1>2, <1>5, <1>6, <1>8, <1>9, DevolveTipo, Moldura
  DEF IInv, RunningSobChunkAtivo, ChunksCriados, fila

(* The stale chunk it closes had its items returned before.                *)
LEMMA RecFinalizaPreserva ==
    ASSUME IInv, NEW p \in Processos, RecFinaliza(p)
    PROVE  IInv'
<1> DEFINE k == ses[p].chunk
           c == dono[k]
           s == Recalculado(c, item, chunk')
           nova == [ses[p] EXCEPT !.pc = "rec", !.chunk = Nenhum, !.lista = @ \ {k},
                       !.afetadas = @ \cup {c}, !.campVista = [NaoVistas EXCEPT ![c] = s]]
<1>1. /\ TypeOK /\ ses[p] \in Sessao /\ ses[p].pc = "rec_fim"
      /\ k \in Chunks /\ k <= criados /\ c \in Campanhas /\ Correm(k) = {}
  BY DEF IInv, TypeOK, ChunksCriados, SessoesOk, SessaoOk, RestoCobre, RestoDe, RecFinaliza
<1>2. /\ chunk' = [chunk EXCEPT ![k] = "stale"]
      /\ lease' = [lease EXCEPT ![k] = "vencido"]
      /\ Grava(p, c, s) /\ Muda(p, nova)
      /\ UNCHANGED <<item, lote, dono, criados, execs, gate, fila, gasto>>
  BY DEF RecFinaliza
<1>3. s \in CampStatus
  BY RecalculadoTipo
<1>4. nova \in Sessao
  <2> HIDE DEF s
  <2>1. [NaoVistas EXCEPT ![c] = s] \in [Campanhas -> CampStatus \cup {"ausente"}]
    BY <1>1, <1>3 DEF NaoVistas
  <2> QED BY <1>1, <2>1 DEF Sessao, Pcs, PcRec
<1>5. /\ ses' \in [Processos -> Sessao]
      /\ ses'[p] = nova
      /\ \A q \in Processos \ {p} : ses'[q] = ses[q]
  BY <1>1, <1>2, <1>4, MudaTipo
<1>6. TypeOK'
  <2>1. camp' \in [Campanhas -> CampStatus]
    BY <1>1, <1>2, <1>3, GravaTipo
  <2>2. chunk' \in [Chunks -> ChunkStatus]
    BY <1>1, <1>2 DEF TypeOK, ChunkStatus, ChunkTerminal
  <2> QED BY <1>1, <1>2, <1>5, <2>1, <2>2 DEF TypeOK, gate, fila, gasto
<1>7. ses'[p].pc = "rec" /\ ses'[p].lista = ses[p].lista \ {k}
  BY <1>1, <1>5 DEF Sessao
<1>8. SessaoOk(p)' /\ RestoDe(p)' /\ \A j \in ses'[p].lista : j <= criados
  BY <1>1, <1>7 DEF SessaoOk, RestoDe, PcChunk, IInv, ChunksCriados
<1>9. \A i \in Itens : item'[i] = "running"
         => item[i] = "running" /\ lote'[i] = lote[i] /\ chunk'[lote[i]] \in ChunkAtivo
  <2> SUFFICES ASSUME NEW i \in Itens, item[i] = "running"
               PROVE  chunk'[lote[i]] \in ChunkAtivo
    BY <1>2
  <2>1. lote[i] # k
    BY <1>1 DEF Correm, ItensDoChunk
  <2> QED BY <1>1, <1>2, <2>1 DEF IInv, TypeOK, RunningSobChunkAtivo
<1>10. \A j \in Chunks : chunk'[j] = "nenhum" <=> chunk[j] = "nenhum"
  BY <1>1, <1>2 DEF IInv, TypeOK, ChunksCriados
<1> QED
  BY <1>1, <1>2, <1>5, <1>6, <1>8, <1>9, <1>10, Moldura DEF IInv, ChunksCriados, fila

(* A campaign without active chunks loses its running items.               *)
LEMMA RecPresasPreserva ==
    ASSUME IInv, NEW p \in Processos, RecPresas(p)
    PROVE  IInv'
<1> DEFINE presas == Presas(ses[p].alcance)
           R == {i \in Itens : i[1] \in presas /\ item[i] = "running"}
           nova == [SessaoVazia EXCEPT !.pc = "publicar", !.camp = ses[p].camp,
                       !.afetadas = ses[p].afetadas \cup presas]
<1>1. /\ TypeOK /\ ses[p] \in Sessao /\ R \in SUBSET Itens
      /\ presas \in SUBSET Campanhas
  BY DEF IInv, TypeOK, Presas, Sessao
<1>2. /\ item' = [i \in Itens |-> IF i \in R THEN "pending" ELSE item[i]]
      /\ lote' = [i \in Itens |-> IF i \in R THEN Nenhum ELSE lote[i]]
      /\ execs' = {e \in execs : e[1] \notin R}
      /\ camp' = [c \in Campanhas |->
            IF c \in presas THEN Gravado(p, c, Recalculado(c, item', chunk))
                            ELSE camp[c]]
      /\ Muda(p, nova)
      /\ UNCHANGED <<chunk, dono, lease, criados, gate, fila, gasto>>
  BY DEF RecPresas
<1> HIDE DEF presas, R
<1>3. nova \in Sessao
  BY <1>1, VaziaTipo DEF Sessao, Pcs, PcRec
<1>4. /\ ses' \in [Processos -> Sessao]
      /\ ses'[p] = nova
      /\ \A q \in Processos \ {p} : ses'[q] = ses[q]
  BY <1>1, <1>2, <1>3, MudaTipo
<1>5. TypeOK'
  <2>1. \A c : Recalculado(c, item', chunk) \in CampStatus
    BY RecalculadoTipo
  <2>2. camp' \in [Campanhas -> CampStatus]
    BY <1>1, <1>2, <2>1 DEF TypeOK, Gravado
  <2>3. item' \in [Itens -> ItemStatus] /\ lote' \in [Itens -> Chunks \cup {Nenhum}]
    BY <1>1, <1>2 DEF TypeOK, ItemStatus, ItemAtivo
  <2> QED BY <1>1, <1>2, <1>4, <2>2, <2>3 DEF TypeOK, gate, fila, gasto
<1>6. ses'[p].pc = "publicar" /\ ses'[p].lista = {}
  BY <1>4 DEF SessaoVazia
<1>7. SessaoOk(p)' /\ RestoDe(p)' /\ \A j \in ses'[p].lista : j <= criados
  BY <1>1, <1>6 DEF SessaoOk, RestoDe, PcChunk, IInv, ChunksCriados
<1> QED
  BY <1>1, <1>2, <1>4, <1>5, <1>7, Moldura
  DEF IInv, RunningSobChunkAtivo, ChunksCriados, fila

(* The recovery ends with messages to campaigns.                           *)
LEMMA PublicarPreserva ==
    ASSUME IInv, NEW p \in Processos, Publicar(p)
    PROVE  IInv'
<1>1. TypeOK
  BY DEF IInv
<1>2. msgCamp' \in [Campanhas -> 0..MaxMensagens]
  <2>1. \A n \in 0..MaxMensagens : MaisUm(n) \in 0..MaxMensagens
    BY MaisUmTipo
  <2>2. PICK S : msgCamp' = [c \in Campanhas |->
                               IF c \in S THEN MaisUm(msgCamp[c]) ELSE msgCamp[c]]
    BY DEF Publicar
  <2> QED BY <1>1, <2>1, <2>2 DEF TypeOK
<1>3. TypeOK'
  BY <1>1, <1>2, EncerraTipo DEF TypeOK, Publicar, banco, gate, gasto
<1> QED
  BY <1>1, <1>3, EncerraTipo, SoSessao DEF Publicar, banco, PcChunk

(* The list of the sweep names chunks that exist.                          *)
LEMMA VarreStalePreserva ==
    ASSUME IInv, VarreStale
    PROVE  IInv'
<1> DEFINE stale == UNION {StaleDe(c) : c \in Campanhas}
           nova  == [ses[Varredor] EXCEPT !.pc = "rec", !.alcance = Campanhas,
                                          !.lista = stale]
<1>1. TypeOK /\ Varredor \in Processos /\ ses[Varredor] \in Sessao
  BY DEF IInv, TypeOK, Processos
<1>2. stale \in SUBSET Chunks /\ \A k \in stale : k <= criados
  BY DEF IInv, ChunksCriados, StaleDe, AtivosDe, ChunkAtivo
<1>3. nova \in Sessao
  BY <1>1, <1>2 DEF Sessao, Pcs, PcRec
<1>4. /\ ses' \in [Processos -> Sessao]
      /\ ses'[Varredor] = nova
      /\ \A q \in Processos \ {Varredor} : ses'[q] = ses[q]
  BY <1>1, <1>3, MudaTipo DEF VarreStale
<1>5. TypeOK'
  BY <1>1, <1>4 DEF TypeOK, VarreStale, banco, gate, fila, gasto
<1>6. ses'[Varredor].pc = "rec" /\ ses'[Varredor].lista = stale
  BY <1>1, <1>4 DEF Sessao
<1>7. SessaoOk(Varredor)'
  BY <1>6 DEF SessaoOk, PcChunk
<1> QED
  BY <1>1, <1>2, <1>4, <1>5, <1>6, <1>7, SoSessao DEF VarreStale, banco, fila, PcChunk

(* The other sweep, or an operator, whatever reason it finds.              *)
LEMMA ReativaPreserva ==
    ASSUME IInv, NEW c \in Campanhas, Reativa(c)
    PROVE  IInv'
<1> DEFINE s == Recalculado(c, item, chunk)
           nova == [ses[Varredor] EXCEPT !.pc = "rec", !.alcance = {c},
                       !.lista = StaleDe(c), !.campVista = Vista(Varredor, c, s)]
<1>1. TypeOK /\ Varredor \in Processos /\ ses[Varredor] \in Sessao
  BY DEF IInv, TypeOK, Processos
<1>2. s \in CampStatus
  BY RecalculadoTipo
<1>3. /\ camp' = [camp EXCEPT ![c] = s]
      /\ \/ Muda(Varredor, nova) /\ UNCHANGED msgCamp
         \/ ses' = ses /\ (msgCamp' = msgCamp \/ msgCamp' = Enfileira(msgCamp, c))
      /\ UNCHANGED <<item, lote, chunk, dono, lease, criados, execs, gate,
                     msgChunk, msgDisp>>
      /\ UNCHANGED gasto
  BY DEF Reativa
<1>4. StaleDe(c) \in SUBSET Chunks /\ \A k \in StaleDe(c) : k <= criados
  BY DEF IInv, ChunksCriados, StaleDe, AtivosDe, ChunkAtivo
<1> HIDE DEF s
<1>5. camp' \in [Campanhas -> CampStatus] /\ msgCamp' \in [Campanhas -> 0..MaxMensagens]
  <2>1. camp' \in [Campanhas -> CampStatus]
    BY <1>1, <1>2, <1>3 DEF TypeOK
  <2>2. msgCamp' = msgCamp \/ msgCamp' = Enfileira(msgCamp, c)
    BY <1>3
  <2>3. msgCamp \in [Campanhas -> 0..MaxMensagens]
        /\ Enfileira(msgCamp, c) \in [Campanhas -> 0..MaxMensagens]
    BY <1>1, FilaTipo DEF TypeOK
  <2> QED BY <2>1, <2>2, <2>3
<1>6. CASE ses' = ses
  <2>1. TypeOK'
    BY <1>1, <1>3, <1>5, <1>6 DEF TypeOK, gate, gasto
  <2> QED BY <1>3, <1>6, <2>1, SoCampanhas
<1>7. CASE Muda(Varredor, nova)
  <2>1. nova \in Sessao
    BY <1>1, <1>2, <1>4, VistaTipo DEF Sessao, Pcs, PcRec
  <2>2. /\ ses' \in [Processos -> Sessao]
        /\ ses'[Varredor] = nova
        /\ \A q \in Processos \ {Varredor} : ses'[q] = ses[q]
    BY <1>1, <1>7, <2>1, MudaTipo
  <2>3. TypeOK'
    BY <1>1, <1>3, <1>5, <2>2 DEF TypeOK, gate, gasto
  <2>4. ses'[Varredor].pc = "rec" /\ ses'[Varredor].lista = StaleDe(c)
    BY <1>1, <2>2 DEF Sessao
  <2>5. SessaoOk(Varredor)'
    BY <2>4 DEF SessaoOk, PcChunk
  <2> QED
    BY <1>1, <1>3, <1>4, <2>2, <2>3, <2>4, <2>5, SoSessao DEF PcChunk
<1> QED BY <1>3, <1>6, <1>7

(* The recovery of one campaign, which an operator asks for.               *)
LEMMA RecuperarPreserva ==
    ASSUME IInv, NEW c \in Campanhas, Recuperar(c)
    PROVE  IInv'
<1> DEFINE nova == [ses[Varredor] EXCEPT !.pc = "rec", !.alcance = {c},
                                         !.lista = StaleDe(c)]
<1>1. TypeOK /\ Varredor \in Processos /\ ses[Varredor] \in Sessao
  BY DEF IInv, TypeOK, Processos
<1>2. StaleDe(c) \in SUBSET Chunks /\ \A k \in StaleDe(c) : k <= criados
  BY DEF IInv, ChunksCriados, StaleDe, AtivosDe, ChunkAtivo
<1>3. nova \in Sessao
  BY <1>1, <1>2 DEF Sessao, Pcs, PcRec
<1>4. /\ ses' \in [Processos -> Sessao]
      /\ ses'[Varredor] = nova
      /\ \A q \in Processos \ {Varredor} : ses'[q] = ses[q]
  BY <1>1, <1>3, MudaTipo DEF Recuperar
<1>5. TypeOK'
  BY <1>1, <1>4 DEF TypeOK, Recuperar, banco, gate, fila, gasto
<1>6. ses'[Varredor].pc = "rec" /\ ses'[Varredor].lista = StaleDe(c)
  BY <1>1, <1>4 DEF Sessao
<1>7. SessaoOk(Varredor)'
  BY <1>6 DEF SessaoOk, PcChunk
<1> QED
  BY <1>1, <1>2, <1>4, <1>5, <1>6, <1>7, SoSessao DEF Recuperar, banco, fila, PcChunk

(* An item that is declared ended runs no more, whoever works at it.       *)
LEMMA ReconciliaPreserva ==
    ASSUME IInv, NEW e \in execs, NEW r \in ItemFeito, Reconcilia(e, r)
    PROVE  IInv'
<1>1. TypeOK /\ Varredor \in Processos
  BY DEF IInv, Processos
<1>2. /\ execs' = execs \ {e}
      /\ item' = item \/ item' = [item EXCEPT ![e[1]] = r]
      /\ camp' = camp \/ camp' = [camp EXCEPT ![e[1][1]] =
                                      Recalculado(e[1][1], item, chunk)]
      /\ UNCHANGED <<lote, chunk, dono, lease, criados, gate, fila, ses, gasto>>
  BY DEF Reconcilia
<1>3. r \in ItemStatus /\ r # "running"
  BY DEF ItemStatus, ItemFeito
<1>4. TypeOK'
  <2>1. camp' \in [Campanhas -> CampStatus]
    BY <1>1, <1>2, RecalculadoTipo DEF TypeOK
  <2>2. item' \in [Itens -> ItemStatus]
    BY <1>1, <1>2, <1>3 DEF TypeOK
  <2> QED BY <1>1, <1>2, <2>1, <2>2 DEF TypeOK, gate, fila, gasto
<1>5. \A i \in Itens : item'[i] = "running" => item[i] = "running"
  BY <1>1, <1>2, <1>3 DEF TypeOK
<1>6. SessaoOk(Varredor)' /\ RestoDe(Varredor)'
  <2>1. \A k : Correm(k)' \subseteq Correm(k)
    BY <1>2, <1>5 DEF Correm, ItensDoChunk
  <2>2. SessaoOk(Varredor) /\ RestoDe(Varredor)
    BY <1>1 DEF IInv, SessoesOk, RestoCobre
  <2> QED BY <1>2, <2>1, <2>2 DEF SessaoOk, RestoDe
<1> QED
  BY <1>1, <1>2, <1>4, <1>5, <1>6, Moldura
  DEF IInv, TypeOK, ChunksCriados, RunningSobChunkAtivo, fila

(* Time only moves leases.                                                 *)
LEMMA TempoPreserva ==
    ASSUME IInv, NEW k \in Chunks, LeaseVence(k) \/ LeaseAtrasa(k)
    PROVE  IInv'
<1>1. TypeOK'
  BY ConstantesOk
  DEF IInv, TypeOK, LeaseVence, LeaseAtrasa, LeaseEnvelhece, gate, fila
<1> QED
  BY <1>1, SoCampanhas DEF LeaseVence, LeaseAtrasa, LeaseEnvelhece, fila

(* The gate moves nothing else.                                            *)
LEMMA GatePreserva ==
    ASSUME IInv, FechaGate \/ AbreGate
    PROVE  IInv'
<1>1. verde' \in BOOLEAN
  BY DEF FechaGate, AbreGate
<1>2. trocas' \in 0..MaxTrocas
  BY ConstantesOk DEF IInv, TypeOK, FechaGate, AbreGate, gasto
<1>3. UNCHANGED <<banco, fila, ses, quedas, atrasos, reentregas>>
  BY DEF FechaGate, AbreGate, gasto
<1>4. TypeOK'
  BY <1>1, <1>2, <1>3 DEF IInv, TypeOK, banco, fila
<1> QED
  BY <1>3, <1>4, SoCampanhas DEF banco, fila

(* Only the message of a chunk that exists is put back in the queue.       *)
LEMMA DevolvidaTipo ==
    ASSUME IInv, NEW w \in Workers, Devolvida(w)
    PROVE  /\ msgCamp' \in [Campanhas -> 0..MaxMensagens]
           /\ msgChunk' \in [Chunks -> 0..MaxMensagens]
           /\ msgDisp' = msgDisp
           /\ \A k \in Chunks : msgChunk'[k] > 0 => k <= criados
<1>1. ses[w].pc \in PcChunk => ses[w].chunk \in Chunks /\ ses[w].chunk <= criados
  BY DEF IInv, SessoesOk, SessaoOk, Processos
<1>2. \A k \in Chunks : msgChunk'[k] > 0 => k <= criados
  BY <1>1 DEF IInv, TypeOK, ChunksCriados, Devolvida, Enfileira
<1> QED BY <1>2, FilaTipo DEF IInv, TypeOK, Devolvida

(* A worker that dies loses its session; its message comes back.           *)
LEMMA QuedaPreserva ==
    ASSUME IInv, NEW w \in Workers, Queda(w)
    PROVE  IInv'
<1>1. TypeOK /\ w \in Processos
  BY DEF IInv, Processos
<1>2. execs' \in SUBSET (Itens \X (Workers \cup {Nenhum}) \X Chunks)
  BY <1>1 DEF TypeOK, Queda, Orfas
<1>3. TypeOK'
  BY <1>1, <1>2, EncerraTipo, DevolvidaTipo, ConstantesOk DEF TypeOK, Queda, gate
<1> QED
  BY <1>1, <1>3, EncerraTipo, DevolvidaTipo, Moldura
  DEF Queda, IInv, RunningSobChunkAtivo

(* A sweep that dies loses its session.                                    *)
LEMMA QuedaVarredorPreserva ==
    ASSUME IInv, QuedaVarredor
    PROVE  IInv'
<1>1. TypeOK /\ Varredor \in Processos
  BY DEF IInv, Processos
<1>2. TypeOK'
  BY <1>1, EncerraTipo, ConstantesOk DEF TypeOK, QuedaVarredor, banco, gate, fila
<1> QED
  BY <1>1, <1>2, EncerraTipo, SoSessao DEF QuedaVarredor, banco, fila, PcChunk

(* A redelivery only adds the message that is being handled.               *)
LEMMA ReentregaPreserva ==
    ASSUME IInv, NEW w \in Workers, Reentrega(w)
    PROVE  IInv'
<1>1. TypeOK'
  BY DevolvidaTipo, ConstantesOk DEF IInv, TypeOK, Reentrega, banco, gate
<1>2. SessaoOk(Varredor)' /\ RestoDe(Varredor)'
  BY DEF IInv, SessoesOk, RestoCobre, Processos, SessaoOk, RestoDe, Correm,
         ItensDoChunk, Reentrega, banco
<1> QED
  BY <1>1, <1>2, DevolvidaTipo, Moldura
  DEF Reentrega, IInv, ChunksCriados, RunningSobChunkAtivo, Processos, banco
-----------------------------------------------------------------------------
(* The invariant holds at the start.                                       *)
LEMMA InitIInv == Init => IInv
<1> SUFFICES ASSUME Init PROVE IInv
  OBVIOUS
<1> USE ConstantesOk
<1>1. TypeOK
  <2>1. /\ camp \in [Campanhas -> CampStatus]
        /\ item \in [Itens -> ItemStatus]
        /\ lote \in [Itens -> Chunks \cup {Nenhum}]
        /\ chunk \in [Chunks -> ChunkStatus]
        /\ dono \in [Chunks -> Campanhas \cup {Nenhum}]
        /\ lease \in [Chunks -> {"valido", "vencido", "stale"}]
    BY DEF Init, CampStatus, ItemStatus, ChunkStatus
  <2>2. ses \in [Processos -> Sessao]
    BY VaziaTipo DEF Init
  <2>3. /\ msgCamp \in [Campanhas -> 0..MaxMensagens]
        /\ msgChunk \in [Chunks -> 0..MaxMensagens]
        /\ criados \in 0..MaxChunks
        /\ quedas \in 0..MaxQuedas /\ trocas \in 0..MaxTrocas
        /\ atrasos \in 0..MaxAtrasos /\ reentregas \in 0..MaxReentregas
    BY DEF Init
  <2> QED BY <2>1, <2>2, <2>3 DEF Init, TypeOK
<1>2. ChunksCriados
  BY DEF Init, ChunksCriados, SessaoVazia, Chunks
<1>3. SessoesOk /\ RestoCobre
  BY DEF Init, SessoesOk, SessaoOk, RestoCobre, RestoDe, SessaoVazia, PcChunk
<1>4. RunningSobChunkAtivo
  BY DEF Init, RunningSobChunkAtivo
<1> QED BY <1>1, <1>2, <1>3, <1>4 DEF IInv

(* Every step of a task in progress keeps the invariant.                   *)
LEMMA ProssegueTodos ==
    ASSUME IInv, NEW w \in Workers, Prossegue(w)
    PROVE  IInv'
<1>1. w \in Processos
  BY DEF Processos
<1>2. CASE Recuperacao(w)
  BY <1>1, <1>2, RecRevertePreserva, RecFinalizaPreserva, RecPresasPreserva,
     PublicarPreserva DEF Recuperacao
<1>3. CASE \E r \in ItemFeito : Materializar(w, r)
  BY <1>3, MaterializarPreserva
<1> QED
  BY <1>2, <1>3, ReservarPreserva, ReservarNadaPreserva, EnfileirarPreserva,
     IterarAbortaPreserva, IterarBarradoPreserva, IterarComecaPreserva,
     ItemSemCompanhiaPreserva, FinalizarPreserva, CancelarPreserva
  DEF Prossegue

(* Every step keeps the invariant.                                         *)
LEMMA NextIInv == IInv /\ [Next]_vars => IInv'
<1> SUFFICES ASSUME IInv, [Next]_vars PROVE IInv'
  OBVIOUS
<1>1. CASE \E c \in Campanhas, S \in SUBSET Alvos, d \in BOOLEAN : CriarCampanha(c, S, d)
  BY <1>1, CriarCampanhaPreserva
<1>2. CASE Despachar
  BY <1>2, DespacharPreserva
<1>3. CASE \E w \in Workers, c \in Campanhas : CampanhaTask(w, c)
  BY <1>3, CampanhaSemSessao, CampanhaRecuperaPreserva, CampanhaDecidePreserva
  DEF CampanhaTask
<1>4. CASE \E w \in Workers, k \in Chunks : ChunkTask(w, k)
  BY <1>4, ChunkIgnoradoPreserva, ChunkBarradoPreserva, ChunkIniciaPreserva DEF ChunkTask
<1>5. CASE \E w \in Workers : Prossegue(w)
  BY <1>5, ProssegueTodos
<1>6. CASE Recuperacao(Varredor)
  BY <1>6, RecRevertePreserva, RecFinalizaPreserva, RecPresasPreserva,
     PublicarPreserva DEF Recuperacao, Processos
<1>7. CASE VarreStale
  BY <1>7, VarreStalePreserva
<1>8. CASE \E c \in Campanhas : VarrePendente(c) \/ Reativar(c) \/ Recuperar(c)
  BY <1>8, ReativaPreserva, RecuperarPreserva DEF VarrePendente, Reativar
<1>11. CASE \E e \in execs, r \in ItemFeito : Reconcilia(e, r)
  BY <1>11, ReconciliaPreserva
<1>9. CASE Ambiente
  BY <1>9, GatePreserva, QuedaVarredorPreserva, TempoPreserva, QuedaPreserva,
     ReentregaPreserva DEF Ambiente
<1>10. CASE UNCHANGED vars
  <2>1. TypeOK'
    BY <1>10 DEF IInv, TypeOK, vars, banco, gate, fila, gasto
  <2> QED BY <1>10, <2>1, SoCampanhas DEF vars, banco, fila
<1> QED
  BY <1>1, <1>2, <1>3, <1>4, <1>5, <1>6, <1>7, <1>8, <1>9, <1>10, <1>11 DEF Next

(* The inductive invariant holds of every behavior.                        *)
THEOREM Invariante == Spec => []IInv
<1> QED BY InitIInv, NextIInv, PTL DEF Spec

(* Every column keeps a value of its enumeration, every count its bound    *)
(* and every session its shape.                                            *)
THEOREM TipoCorreto == Spec => []TypeOK
<1>1. IInv => TypeOK
  BY DEF IInv
<1> QED BY <1>1, Invariante, PTL

(* No item is orphaned: whatever workers crash, leases lapse, messages are *)
(* delivered twice or gates close, an item that is "running" belongs to a  *)
(* chunk of its campaign that is still queued or running.                  *)
THEOREM SemOrfaos == Spec => []RunningSobChunkAtivo
<1>1. IInv => RunningSobChunkAtivo
  BY DEF IInv
<1> QED BY <1>1, Invariante, PTL

(* No step reopens a chunk: those that write its status look at it first,  *)
(* give it a new id, or close it.                                          *)
LEMMA PassoDeChunk ==
    ASSUME IInv, [Next]_vars, NEW k \in Chunks, chunk[k] \in ChunkTerminal
    PROVE  chunk'[k] \in ChunkTerminal
<1>1. chunk \in [Chunks -> ChunkStatus]
  BY DEF IInv, TypeOK
<1>2. ASSUME NEW w \in Workers, Reservar(w)
      PROVE  chunk'[k] \in ChunkTerminal
  <2>1. chunk'[k] = chunk[k] \/ ~(k <= criados)
    <3>1. criados \in Int /\ k \in Int
      BY DEF IInv, TypeOK, Chunks
    <3> QED BY <1>2, <3>1 DEF Reservar
  <2>2. k <= criados
    BY DEF IInv, ChunksCriados, ChunkTerminal
  <2> QED BY <2>1, <2>2
<1>3. ASSUME NEW w \in Workers, NEW j \in Chunks, ChunkInicia(w, j)
      PROVE  chunk'[k] \in ChunkTerminal
  BY <1>1, <1>3 DEF ChunkInicia, ChunkAtivo, ChunkTerminal
<1>4. ASSUME NEW w \in Workers, NEW st \in ChunkTerminal, Conclui(w, st)
      PROVE  chunk'[k] \in ChunkTerminal
  BY <1>1, <1>4 DEF Conclui
<1>5. ASSUME NEW p \in Processos, RecFinaliza(p)
      PROVE  chunk'[k] \in ChunkTerminal
  BY <1>1, <1>5 DEF RecFinaliza, ChunkTerminal
<1>6. ASSUME NEW p \in Processos, Recuperacao(p)
      PROVE  chunk'[k] \in ChunkTerminal
  BY <1>5, <1>6 DEF Recuperacao, RecReverte, RecPresas, Publicar, banco
<1>7. ASSUME NEW w \in Workers, Prossegue(w)
      PROVE  chunk'[k] \in ChunkTerminal
  <2>1. w \in Processos
    BY DEF Processos
  <2>2. CASE Recuperacao(w)
    BY <1>6, <2>1, <2>2
  <2>3. CASE Finalizar(w) \/ Cancelar(w)
    BY <1>4, <2>3 DEF Finalizar, Cancelar, ChunkTerminal
  <2>4. CASE Reservar(w)
    BY <1>2, <2>4
  <2>5. CASE \/ ReservarNada(w) \/ Enfileirar(w) \/ IterarAborta(w)
             \/ IterarBarrado(w) \/ IterarComeca(w) \/ ItemSemCompanhia(w)
             \/ \E r \in ItemFeito : Materializar(w, r)
    BY <2>5 DEF ReservarNada, Enfileirar, IterarAborta, IterarBarrado, IterarComeca,
                ItemSemCompanhia, Materializar, banco
  <2> QED BY <1>7, <2>2, <2>3, <2>4, <2>5 DEF Prossegue
<1>8. CASE \/ \E c \in Campanhas, S \in SUBSET Alvos, d \in BOOLEAN : CriarCampanha(c, S, d)
           \/ Despachar \/ VarreStale
           \/ \E c \in Campanhas : VarrePendente(c) \/ Reativar(c) \/ Recuperar(c)
           \/ \E e \in execs, r \in ItemFeito : Reconcilia(e, r)
           \/ Ambiente
  BY <1>8
  DEF CriarCampanha, Despachar, VarreStale, VarrePendente, Reativar, Reativa,
      Recuperar, Reconcilia, Ambiente, FechaGate, AbreGate,
      QuedaVarredor, LeaseVence, LeaseAtrasa, LeaseEnvelhece, Queda, Reentrega, banco
<1>9. CASE \E w \in Workers, c \in Campanhas : CampanhaTask(w, c)
  BY <1>9
  DEF CampanhaTask, CampanhaEncerrada, CampanhaRecupera, CampanhaEspera,
      CampanhaSemVaga, CampanhaDecide
<1>10. CASE \E w \in Workers, j \in Chunks : ChunkTask(w, j)
  BY <1>3, <1>10 DEF ChunkTask, ChunkIgnorado, ChunkBarrado, banco
<1>11. CASE UNCHANGED vars
  BY <1>11 DEF vars, banco
<1> QED
  BY <1>6, <1>7, <1>8, <1>9, <1>10, <1>11 DEF Next, Processos

(* A chunk that was closed stays closed: no late message, recovery or      *)
(* worker that lost its lease queues it or runs it again.                  *)
THEOREM ChunkFechado == Spec => ChunkNaoRevive
<1>1. IInv /\ [Next]_vars
        => [\A k \in Chunks : chunk[k] \in ChunkTerminal => chunk'[k] \in ChunkTerminal]_vars
  BY PassoDeChunk
<1> QED BY <1>1, Invariante, PTL DEF Spec, ChunkNaoRevive
=============================================================================
