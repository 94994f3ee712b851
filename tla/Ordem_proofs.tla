----------------------------- MODULE Ordem_proofs -----------------------------
(***************************************************************************)
(* What crashes do not disturb in the materialization queue, for every     *)
(* value of the constants: as long as no message comes twice and no chunk  *)
(* somebody works at is recovered, a chunk has one bearer at most, and so  *)
(* two workers never share an item, a campaign keeps to its limit of       *)
(* chunks, and what chunks and campaigns say of their items is true.       *)
(*                                                                         *)
(* The invariant is Ordem, with IInv and Historia.  It is proved in three  *)
(* parts, each of which rests on the ones before it: who bears a chunk     *)
(* (Portadores), what a worker has done and has left (Obra), and what is   *)
(* stored of the campaigns (Contas).                                       *)
(***************************************************************************)
EXTENDS Lotes_proofs

Portadores == /\ \A k \in Chunks : UmPortador(k)
              /\ \A p \in Processos : Recolhe(p)

Obra == /\ \A w \in Workers : Trabalha(w)
        /\ \A i \in Itens : EmSeuLote(i)
        /\ \A k \in Chunks : SucessoInteiro(k)

Contas == \A c \in Campanhas : Encerrada(c) /\ CabeNoLimite(c)

LEMMA OrdemEmPartes == Ordem <=> Portadores /\ Obra /\ Contas
BY DEF Ordem, Portadores, Obra, Contas

-----------------------------------------------------------------------------
(* Who bears a chunk.                                                      *)

Portado(k) == ~SemPortador(k)

(* A chunk with a bearer is active and its lease has not run out.          *)
LEMMA PortadoAtivo ==
    ASSUME Portadores, TypeOK, NEW k \in Chunks, Portado(k)
    PROVE  chunk[k] \in ChunkAtivo /\ lease[k] = "valido"
BY ConstantesOk DEF Portadores, UmPortador, Portado, SemPortador, TypeOK

(* What a recovery finds stale has no bearer.                              *)
LEMMA StaleSemPortador ==
    ASSUME Portadores, TypeOK, NEW c, NEW k \in StaleDe(c)
    PROVE  k \in Chunks /\ SemPortador(k)
<1>1. k \in Chunks /\ lease[k] = "stale"
  BY DEF StaleDe, AtivosDe
<1> QED BY <1>1, PortadoAtivo DEF Portado

(* No chunk that exists finds a bearer that had none.                      *)
Herda == \A k \in Chunks : k <= criados /\ SemPortador(k) => SemPortador(k)'

(* What process p recovers after a step had no bearer before it.           *)
RecolheLivres(p) ==
    /\ ses'[p].pc \in {"rec", "rec_fim"} =>
          \A k \in ses'[p].lista : k \in Chunks /\ k <= criados /\ SemPortador(k)
    /\ ses'[p].pc = "rec_fim" =>
          /\ ses'[p].chunk \in Chunks /\ ses'[p].chunk <= criados
          /\ SemPortador(ses'[p].chunk)

LEMMA RecolheSempre ==
    ASSUME IInv, Portadores, Herda, NEW p \in Processos,
           \A q \in Processos \ {p} : ses'[q] = ses[q],
           RecolheLivres(p)
    PROVE  \A q \in Processos : Recolhe(q)'
<1>1. ASSUME NEW q \in Processos \ {p}
      PROVE  Recolhe(q)'
  <2>1. PICK s \in Sessao : s = ses[q] /\ s = ses'[q]
    BY DEF IInv, TypeOK
  <2>2. \A k \in s.lista : k \in Chunks /\ k <= criados
    BY <2>1 DEF IInv, ChunksCriados, Sessao
  <2>3. s.pc = "rec_fim" => s.chunk \in Chunks /\ s.chunk <= criados
    BY <2>1 DEF IInv, SessoesOk, SessaoOk
  <2>4. /\ s.pc \in {"rec", "rec_fim"} => \A k \in s.lista : SemPortador(k)
        /\ s.pc = "rec_fim" => SemPortador(s.chunk)
    BY <2>1 DEF Portadores, Recolhe
  <2>5. s.pc \in {"rec", "rec_fim"} => \A k \in s.lista : SemPortador(k)'
    BY <2>2, <2>4 DEF Herda
  <2>6. PICK j : j = s.chunk
    OBVIOUS
  <2>7. s.pc = "rec_fim" => SemPortador(j)'
    BY <2>3, <2>4, <2>6 DEF Herda
  <2> QED BY <2>1, <2>5, <2>6, <2>7 DEF Recolhe
<1>2. Recolhe(p)'
  <2>1. PICK s : s = ses'[p]
    OBVIOUS
  <2>2. s.pc \in {"rec", "rec_fim"} => \A k \in s.lista : SemPortador(k)'
    BY <2>1 DEF Herda, RecolheLivres
  <2>3. PICK j : j = s.chunk
    OBVIOUS
  <2>4. s.pc = "rec_fim" => SemPortador(j)'
    BY <2>1, <2>3 DEF Herda, RecolheLivres
  <2> QED BY <2>1, <2>2, <2>3, <2>4 DEF Recolhe
<1> QED BY <1>1, <1>2

(* A step that moves no message, in which process p takes no chunk it did  *)
(* not bear, and that closes or lets lapse only chunks without a bearer.   *)
LEMMA MolduraPortador ==
    ASSUME IInv, Portadores, NEW p \in Processos,
           \A q \in Processos \ {p} : ses'[q] = ses[q],
           msgChunk' = msgChunk,
           \A k \in Chunks : p \in Workers /\ Leva(p, k)' => Leva(p, k),
           \A k \in Chunks : Portado(k)' =>
              /\ chunk'[k] = chunk[k] \/ chunk'[k] \in ChunkAtivo
              /\ lease'[k] = lease[k] \/ lease'[k] = "valido",
           RecolheLivres(p)
    PROVE  Portadores'
<1>1. \A w \in Workers, k \in Chunks : Leva(w, k)' => Leva(w, k)
  <2> SUFFICES ASSUME NEW w \in Workers, w # p, NEW k \in Chunks
               PROVE  Leva(w, k)' => Leva(w, k)
    OBVIOUS
  <2>1. ses'[w] = ses[w]
    BY DEF Processos
  <2> QED BY <2>1 DEF Leva
<1>2. \A k \in Chunks : SemPortador(k) => SemPortador(k)'
  BY <1>1 DEF SemPortador
<1>3. ASSUME NEW k \in Chunks
      PROVE  UmPortador(k)'
  <2>1. Portado(k)' => chunk'[k] \in ChunkAtivo /\ lease'[k] = "valido"
    BY <1>2, PortadoAtivo DEF Portado, IInv
  <2>2. UmPortador(k)
    BY DEF Portadores
  <2>3. msgChunk'[k] <= 1
    BY <2>2 DEF UmPortador
  <2>4. \A w \in Workers : Leva(w, k)' =>
           msgChunk'[k] = 0 /\ \A v \in Workers \ {w} : ~Leva(v, k)'
    BY <1>1, <2>2 DEF UmPortador
  <2>5. msgChunk'[k] > 0 \/ (\E w \in Workers : Leva(w, k)') => Portado(k)'
    BY ConstantesOk DEF Portado, SemPortador
  <2> QED BY <2>1, <2>3, <2>4, <2>5 DEF UmPortador
<1>4. Herda
  BY <1>2 DEF Herda
<1> QED BY <1>3, <1>4, RecolheSempre DEF Portadores

(* A session that stays as it is recovers nothing new.                     *)
LEMMA MesmaLista ==
    ASSUME IInv, Portadores, NEW p \in Processos,
           ses'[p].lista \subseteq ses[p].lista, ses[p].pc \in {"rec", "rec_fim"},
           ses'[p].pc = "rec_fim" =>
              /\ ses'[p].chunk \in Chunks /\ ses'[p].chunk <= criados
              /\ SemPortador(ses'[p].chunk)
    PROVE  RecolheLivres(p)
<1>1. PICK s \in Sessao : s = ses[p]
  BY DEF IInv, TypeOK
<1>2. \A k \in s.lista : k \in Chunks /\ k <= criados
  BY <1>1 DEF IInv, ChunksCriados, Sessao
<1>3. \A k \in s.lista : SemPortador(k)
  BY <1>1 DEF Portadores, Recolhe
<1> QED BY <1>1, <1>2, <1>3 DEF RecolheLivres

LEMMA SessaoIgual ==
    ASSUME IInv, Portadores, NEW p \in Processos, ses'[p] = ses[p]
    PROVE  RecolheLivres(p) /\ \A k : Leva(p, k)' => Leva(p, k)
<1>1. \A k : Leva(p, k)' => Leva(p, k)
  BY DEF Leva
<1>2. RecolheLivres(p)
  <2>1. CASE ses[p].pc \in {"rec", "rec_fim"}
    <3>1. ses[p].pc = "rec_fim" =>
              /\ ses[p].chunk \in Chunks /\ ses[p].chunk <= criados
              /\ SemPortador(ses[p].chunk)
      BY DEF Portadores, Recolhe, IInv, SessoesOk, SessaoOk
    <3> QED BY <2>1, <3>1, MesmaLista
  <2>2. CASE ses[p].pc \notin {"rec", "rec_fim"}
    BY <2>2 DEF RecolheLivres
  <2> QED BY <2>1, <2>2
<1> QED BY <1>1, <1>2

(* A step of the broker's campaign messages, the campaigns or the items.   *)
LEMMA SessoesIguais ==
    ASSUME IInv, Portadores, UNCHANGED <<chunk, msgChunk, ses>>,
           \A k \in Chunks : Portado(k) => lease'[k] = lease[k]
    PROVE  Portadores'
<1>1. Varredor \in Processos
  BY DEF Processos
<1>2. \A k \in Chunks : Portado(k)' => Portado(k)
  BY DEF Portado, SemPortador, Leva
<1> QED BY <1>1, <1>2, SessaoIgual, MolduraPortador

(* A session that bears no chunk and has nothing to recover.               *)
LEMMA SemCarga ==
    ASSUME IInv, Portadores, NEW p \in Processos, NEW s, Muda(p, s),
           s.pc \notin PcChunk \cup {"enfileirar"},
           s.pc \in {"rec", "rec_fim"} =>
              \A k \in s.lista : k \in Chunks /\ SemPortador(k),
           s.pc = "rec_fim" => s.chunk \in Chunks /\ SemPortador(s.chunk),
           s.pc = "rec_fim" => s.chunk <= criados,
           \A k \in s.lista : s.pc \in {"rec", "rec_fim"} => k <= criados,
           msgChunk' = msgChunk,
           \A k \in Chunks : Portado(k)' =>
              /\ chunk'[k] = chunk[k] \/ chunk'[k] \in ChunkAtivo
              /\ lease'[k] = lease[k] \/ lease'[k] = "valido"
    PROVE  Portadores'
<1>1. ses'[p] = s /\ \A q \in Processos \ {p} : ses'[q] = ses[q]
  BY DEF IInv, TypeOK, Muda
<1>2. \A k : ~Leva(p, k)'
  BY <1>1 DEF Leva
<1>3. RecolheLivres(p)
  BY <1>1 DEF RecolheLivres
<1> QED BY <1>1, <1>2, <1>3, MolduraPortador

LEMMA EncerraSemCarga ==
    ASSUME IInv, Portadores, NEW p \in Processos, Encerra(p),
           msgChunk' = msgChunk,
           \A k \in Chunks : Portado(k)' =>
              /\ chunk'[k] = chunk[k] \/ chunk'[k] \in ChunkAtivo
              /\ lease'[k] = lease[k] \/ lease'[k] = "valido"
    PROVE  Portadores'
<1>1. SessaoVazia.pc = "livre"
  BY DEF SessaoVazia
<1>2. Muda(p, SessaoVazia)
  BY DEF Encerra
<1> QED BY <1>1, <1>2, SemCarga DEF PcChunk

(* A recovery that begins: its list is of stale chunks.                    *)
LEMMA ComecaRec ==
    ASSUME IInv, Portadores, NEW p \in Processos, NEW s, Muda(p, s),
           s.pc = "rec",
           \A k \in s.lista : \E c \in Campanhas : k \in StaleDe(c),
           UNCHANGED <<chunk, lease, msgChunk>>
    PROVE  Portadores'
<1>1. \A k \in s.lista : k \in Chunks /\ SemPortador(k) /\ k <= criados
  <2> SUFFICES ASSUME NEW k \in s.lista
               PROVE  k \in Chunks /\ SemPortador(k) /\ k <= criados
    OBVIOUS
  <2>1. k \in Chunks /\ SemPortador(k)
    BY StaleSemPortador DEF IInv
  <2>2. chunk[k] \in ChunkAtivo
    BY DEF StaleDe, AtivosDe
  <2> QED BY <2>1, <2>2 DEF IInv, ChunksCriados, ChunkAtivo
<1> QED BY <1>1, SemCarga DEF PcChunk

-----------------------------------------------------------------------------
(* One lemma per action or group of actions.                               *)
LEMMA CampanhaTaskPortador ==
    ASSUME IInv, Portadores, NEW w \in Workers, NEW c \in Campanhas,
           CampanhaTask(w, c)
    PROVE  Portadores'
<1> w \in Processos /\ ses[w] \in Sessao
  BY DEF Processos, IInv, TypeOK
<1>1. CASE CampanhaEncerrada(w, c) \/ CampanhaEspera(w, c) \/ CampanhaSemVaga(w, c)
  BY <1>1, SessoesIguais DEF CampanhaEncerrada, CampanhaEspera, CampanhaSemVaga
<1>2. CASE CampanhaRecupera(w, c)
  <2> DEFINE s == [ses[w] EXCEPT !.pc = "rec", !.camp = c, !.alcance = {c},
                       !.lista = StaleDe(c),
                       !.campVista = Vista(w, c, Recalculado(c, item, chunk))]
  <2>1. Muda(w, s) /\ UNCHANGED <<chunk, lease, msgChunk>>
    BY <1>2 DEF CampanhaRecupera
  <2>2. s.pc = "rec" /\ s.lista = StaleDe(c)
    BY DEF Sessao
  <2> QED BY <2>1, <2>2, ComecaRec
<1>3. CASE CampanhaDecide(w, c)
  <2> DEFINE s == [ses[w] EXCEPT !.pc = "reservar", !.camp = c,
                       !.campVista = Vista(w, c, Recalculado(c, item, chunk)),
                       !.slots = MaxActiveChunks - Cardinality(ComLease(c))]
  <2>1. Muda(w, s) /\ UNCHANGED <<chunk, lease, msgChunk>>
    BY <1>3 DEF CampanhaDecide
  <2>2. s.pc = "reservar"
    BY DEF Sessao
  <2> QED BY <2>1, <2>2, SemCarga DEF PcChunk
<1> QED BY <1>1, <1>2, <1>3 DEF CampanhaTask

LEMMA SimplesPortador ==
    ASSUME IInv, Portadores,
           \/ \E c \in Campanhas, S \in SUBSET Alvos, d \in BOOLEAN : CriarCampanha(c, S, d)
           \/ Despachar
           \/ \E e \in execs, r \in ItemFeito : Reconcilia(e, r)
           \/ FechaGate \/ AbreGate
           \/ UNCHANGED vars
    PROVE  Portadores'
<1>1. UNCHANGED <<chunk, lease, msgChunk, ses>>
  BY DEF CriarCampanha, Despachar, Reconcilia, FechaGate, AbreGate, banco, fila, vars
<1> QED BY <1>1, SessoesIguais

LEMMA EncerraPortador ==
    ASSUME IInv, Portadores, NEW p \in Processos,
           \/ p \in Workers /\ (ReservarNada(p) \/ IterarAborta(p))
           \/ Publicar(p)
           \/ p = Varredor /\ QuedaVarredor
    PROVE  Portadores'
<1>1. Encerra(p) /\ UNCHANGED <<chunk, lease, msgChunk>>
  BY DEF ReservarNada, IterarAborta, Publicar, QuedaVarredor, banco, fila
<1> QED BY <1>1, EncerraSemCarga

LEMMA VarrePortador ==
    ASSUME IInv, Portadores,
           VarreStale \/ \E c \in Campanhas : Reativa(c) \/ Recuperar(c)
    PROVE  Portadores'
<1> Varredor \in Processos /\ ses[Varredor] \in Sessao
  BY DEF Processos, IInv, TypeOK
<1>1. UNCHANGED <<chunk, lease, msgChunk>>
  BY DEF VarreStale, Reativa, Recuperar, banco, fila
<1>2. CASE ses' = ses
  BY <1>1, <1>2, SessoesIguais
<1>3. CASE VarreStale
  <2> DEFINE L == UNION {StaleDe(c) : c \in Campanhas}
             s == [ses[Varredor] EXCEPT !.pc = "rec", !.alcance = Campanhas,
                                        !.lista = L]
  <2>1. Muda(Varredor, s)
    BY <1>3 DEF VarreStale
  <2>2. s.pc = "rec" /\ s.lista = L
    BY DEF Sessao
  <2>3. \A k \in L : \E c \in Campanhas : k \in StaleDe(c)
    OBVIOUS
  <2> HIDE DEF s, L
  <2> QED BY <1>1, <2>1, <2>2, <2>3, ComecaRec
<1>4. ASSUME NEW c \in Campanhas, Reativa(c), ses' # ses
      PROVE  Portadores'
  <2> DEFINE s == [ses[Varredor] EXCEPT
                 !.pc = "rec", !.alcance = {c}, !.lista = StaleDe(c),
                 !.campVista = Vista(Varredor, c, Recalculado(c, item, chunk))]
  <2>1. Muda(Varredor, s)
    BY <1>4 DEF Reativa
  <2>2. s.pc = "rec" /\ s.lista = StaleDe(c)
    BY DEF Sessao
  <2> HIDE DEF s
  <2> QED BY <1>1, <2>1, <2>2, ComecaRec
<1>5. ASSUME NEW c \in Campanhas, Recuperar(c)
      PROVE  Portadores'
  <2> DEFINE s == [ses[Varredor] EXCEPT !.pc = "rec", !.alcance = {c},
                                        !.lista = StaleDe(c)]
  <2>1. Muda(Varredor, s)
    BY <1>5 DEF Recuperar
  <2>2. s.pc = "rec" /\ s.lista = StaleDe(c)
    BY DEF Sessao
  <2> HIDE DEF s
  <2> QED BY <1>1, <2>1, <2>2, ComecaRec
<1> QED BY <1>2, <1>3, <1>4, <1>5

(* The lease that runs out is of a chunk nobody bears.                     *)
LEMMA LeaseVencePortador ==
    ASSUME IInv, Portadores, NEW k \in Chunks, LeaseVence(k)
    PROVE  Portadores'
<1>1. UNCHANGED <<chunk, msgChunk, ses>>
  BY DEF LeaseVence, LeaseEnvelhece, fila
<1>2. SemPortador(k)
  BY ConstantesOk
  DEF LeaseVence, Atendido, ComWorker, SemPortador, Leva, IInv, TypeOK
<1>3. \A j \in Chunks : j # k => lease'[j] = lease[j]
  BY DEF LeaseVence, LeaseEnvelhece, IInv, TypeOK
<1> QED BY <1>1, <1>2, <1>3, SessoesIguais DEF Portado

(* Inside the loop a worker goes on bearing its chunk, and renews its      *)
(* lease.                                                                  *)
LEMMA LacoPortador ==
    ASSUME IInv, Portadores, NEW w \in Workers,
           \/ IterarBarrado(w) \/ IterarComeca(w) \/ ItemSemCompanhia(w)
           \/ \E r \in ItemFeito : Materializar(w, r)
    PROVE  Portadores'
<1> w \in Processos /\ ses[w] \in Sessao /\ ses \in [Processos -> Sessao]
  BY DEF Processos, IInv, TypeOK
<1>1. /\ UNCHANGED <<chunk, msgChunk>>
      /\ lease' = [lease EXCEPT ![ses[w].chunk] = "valido"]
      /\ ses[w].pc \in PcChunk
  BY DEF IterarBarrado, IterarComeca, ItemSemCompanhia, Materializar,
         IterarContinua, PcChunk, fila
<1>2. PICK s \in Sessao : /\ Muda(w, s) /\ s.chunk = ses[w].chunk
                          /\ s.pc \in PcChunk
  <2>1. CASE IterarBarrado(w)
    <3> DEFINE s == [SessaoVazia EXCEPT !.pc = "cancelar", !.camp = ses[w].camp,
                        !.chunk = ses[w].chunk, !.chunkVisto = ses[w].chunkVisto]
    <3>1. Muda(w, s)
      BY <2>1 DEF IterarBarrado
    <3>2. s \in Sessao /\ s.chunk = ses[w].chunk /\ s.pc \in PcChunk
      BY VaziaTipo DEF Sessao, PcChunk, Pcs
    <3> QED BY <3>1, <3>2
  <2>2. CASE IterarComeca(w)
    <3> DEFINE i == Proximo(ses[w].resto)
               s == [ses[w] EXCEPT !.pc = "materializar", !.itemVisto = item[i]]
    <3>1. Muda(w, s)
      BY <2>2 DEF IterarComeca
    <3>2. item[i] \in ItemStatus
      BY <2>2, ProximoPertence DEF IterarComeca, IterarContinua, Sessao, IInv, TypeOK
    <3> HIDE DEF i
    <3>3. s \in Sessao /\ s.chunk = ses[w].chunk /\ s.pc \in PcChunk
      BY <3>2 DEF Sessao, PcChunk, Pcs
    <3> QED BY <3>1, <3>3
  <2>3. CASE ItemSemCompanhia(w)
    <3> DEFINE i == Proximo(ses[w].resto)
               s == [ses[w] EXCEPT !.resto = @ \ {i}, !.falhou = TRUE]
    <3>1. Muda(w, s)
      BY <2>3 DEF ItemSemCompanhia
    <3> HIDE DEF i
    <3>2. s \in Sessao /\ s.chunk = ses[w].chunk /\ s.pc = ses[w].pc
      BY DEF Sessao
    <3> QED BY <1>1, <3>1, <3>2
  <2>4. ASSUME NEW r \in ItemFeito, Materializar(w, r)
        PROVE  \E s \in Sessao : /\ Muda(w, s) /\ s.chunk = ses[w].chunk
                                 /\ s.pc \in PcChunk
    <3> DEFINE i == Proximo(ses[w].resto)
               s == [ses[w] EXCEPT
                       !.pc = "iterar", !.resto = @ \ {i},
                       !.falhou = @ \/ r = "failed", !.chunkVisto = chunk[ses[w].chunk],
                       !.itemVisto = "nenhum"]
    <3>1. Muda(w, s)
      BY <2>4 DEF Materializar
    <3>2. chunk[ses[w].chunk] \in ChunkStatus
      BY <1>1 DEF IInv, TypeOK, SessoesOk, SessaoOk
    <3> HIDE DEF i
    <3>3. s \in Sessao /\ s.chunk = ses[w].chunk /\ s.pc \in PcChunk
      BY <3>2 DEF Sessao, PcChunk, Pcs, ItemStatus
    <3> QED BY <3>1, <3>3
  <2> QED BY <2>1, <2>2, <2>3, <2>4
<1>3. ses'[w] = s /\ \A q \in Processos \ {w} : ses'[q] = ses[q]
  BY <1>2 DEF Muda
<1>4. \A k \in Chunks : Leva(w, k)' => Leva(w, k)
  BY <1>1, <1>2, <1>3 DEF Leva, PcChunk
<1>5. RecolheLivres(w)
  BY <1>2, <1>3 DEF RecolheLivres, PcChunk
<1>6. \A k \in Chunks : lease'[k] = lease[k] \/ lease'[k] = "valido"
  BY <1>1 DEF IInv, TypeOK
<1> QED BY <1>1, <1>3, <1>4, <1>5, <1>6, MolduraPortador

(* The worker that closes a chunk was its only bearer, and leaves it.      *)
LEMMA ConcluiPortador ==
    ASSUME IInv, Portadores, NEW w \in Workers, NEW st, Conclui(w, st),
           ses[w].pc \in PcChunk
    PROVE  Portadores'
<1>1. PICK k \in Chunks : k = ses[w].chunk
  BY DEF Processos, IInv, SessoesOk, SessaoOk
<1>2. Encerra(w) /\ msgChunk' = msgChunk /\ w \in Processos
  BY DEF Conclui, Processos
<1>3. \A j \in Chunks : j # k => chunk'[j] = chunk[j] /\ lease'[j] = lease[j]
  BY <1>1 DEF Conclui, IInv, TypeOK
<1>4. SemPortador(k)'
  <2>1. Leva(w, k)
    BY <1>1 DEF Leva
  <2>2. msgChunk[k] = 0 /\ \A v \in Workers \ {w} : ~Leva(v, k)
    BY <2>1 DEF Portadores, UmPortador
  <2>3. ses'[w].pc = "livre" /\ \A q \in Processos \ {w} : ses'[q] = ses[q]
    BY <1>2, EncerraTipo DEF IInv
  <2>4. ~Leva(w, k)'
    BY <2>3 DEF Leva, PcChunk
  <2>5. \A v \in Workers \ {w} : ~Leva(v, k)'
    BY <2>2, <2>3 DEF Leva, Processos
  <2> QED BY <1>2, <2>2, <2>4, <2>5 DEF SemPortador
<1> QED BY <1>2, <1>3, <1>4, EncerraSemCarga DEF Portado

(* Only what nobody bears is recovered.                                    *)
LEMMA RecReverteP ==
    ASSUME IInv, Portadores, NEW p \in Processos, RecReverte(p)
    PROVE  Portadores'
<1> PICK k \in ses[p].lista :
        LET c == dono[k]
            R == {i \in ItensDoChunk(k) : item[i] = "running"}
        IN  /\ ses[p].pc = "rec"
            /\ Muda(p, [ses[p] EXCEPT !.pc = "rec_fim", !.chunk = k,
                                  !.campVista = VistaDevolvida(p, c, R)])
            /\ UNCHANGED <<chunk, lease, msgChunk>>
  BY DEF RecReverte, fila
<1> DEFINE V == VistaDevolvida(p, dono[k],
                     {i \in ItensDoChunk(k) : item[i] = "running"})
           s == [ses[p] EXCEPT !.pc = "rec_fim", !.chunk = k, !.campVista = V]
<1>1. ses[p] \in Sessao /\ ses[p].pc = "rec" /\ Muda(p, s)
  BY DEF IInv, TypeOK
<1> HIDE DEF V
<1>2. s.pc = "rec_fim" /\ s.chunk = k /\ s.lista = ses[p].lista
  BY <1>1 DEF Sessao
<1> HIDE DEF s
<1>3. \A j \in ses[p].lista : j \in Chunks /\ j <= criados /\ SemPortador(j)
  BY <1>1 DEF IInv, ChunksCriados, Portadores, Recolhe, Sessao
<1> QED BY <1>1, <1>2, <1>3, SemCarga DEF PcChunk

LEMMA RecFinalizaP ==
    ASSUME IInv, Portadores, NEW p \in Processos, RecFinaliza(p)
    PROVE  Portadores'
<1>1. PICK k \in Chunks : k = ses[p].chunk /\ SemPortador(k) /\ k <= criados
  BY DEF RecFinaliza, IInv, SessoesOk, SessaoOk, Portadores, Recolhe
<1> DEFINE c == dono[k]
           a == Recalculado(c, item, chunk')
           V == [NaoVistas EXCEPT ![c] = a]
           A == ses[p].afetadas \cup {c}
           s == [ses[p] EXCEPT
                   !.pc = "rec", !.chunk = Nenhum, !.lista = @ \ {k},
                   !.afetadas = A, !.campVista = V]
<1>2. /\ ses[p] \in Sessao /\ ses[p].pc = "rec_fim" /\ ses \in [Processos -> Sessao]
      /\ Muda(p, s)
      /\ msgChunk' = msgChunk
      /\ chunk' = [chunk EXCEPT ![k] = "stale"]
      /\ lease' = [lease EXCEPT ![k] = "vencido"]
  BY <1>1 DEF RecFinaliza, IInv, TypeOK, fila
<1> HIDE DEF a, V, A
<1>3. s.pc = "rec" /\ s.lista = ses[p].lista \ {k}
  BY <1>2 DEF Sessao
<1> HIDE DEF s
<1>4. ses'[p] = s /\ \A q \in Processos \ {p} : ses'[q] = ses[q]
  BY <1>2 DEF Muda
<1>5. SemPortador(k)'
  <2>1. \A w \in Workers : Leva(w, k)' => Leva(w, k)
    BY <1>3, <1>4 DEF Leva, Processos, PcChunk
  <2> QED BY <1>1, <1>2, <2>1 DEF SemPortador
<1>6. \A j \in Chunks : j # k => chunk'[j] = chunk[j] /\ lease'[j] = lease[j]
  BY <1>2 DEF IInv, TypeOK
<1>7. RecolheLivres(p)
  BY <1>2, <1>3, <1>4, MesmaLista
<1>8. \A j \in Chunks : ~Leva(p, j)'
  BY <1>3, <1>4 DEF Leva, PcChunk
<1> QED BY <1>2, <1>4, <1>5, <1>6, <1>7, <1>8, MolduraPortador DEF Portado

LEMMA RecPresasP ==
    ASSUME IInv, Portadores, NEW p \in Processos, RecPresas(p)
    PROVE  Portadores'
<1>1. PICK A, c : Muda(p, [SessaoVazia EXCEPT !.pc = "publicar", !.camp = c,
                               !.afetadas = A])
  BY DEF RecPresas
<1>2. [SessaoVazia EXCEPT !.pc = "publicar", !.camp = c, !.afetadas = A].pc
         = "publicar"
  BY DEF SessaoVazia
<1>3. UNCHANGED <<chunk, lease, msgChunk>>
  BY DEF RecPresas, fila
<1> QED BY <1>1, <1>2, <1>3, SemCarga DEF PcChunk

-----------------------------------------------------------------------------
(* Steps that pass a chunk from one bearer to another.                     *)

(* The messages and the workers' sessions pass chunk k, and no other, from *)
(* one bearer to the next.                                                 *)
LEMMA Passa ==
    ASSUME IInv, Portadores, NEW w \in Workers, NEW k \in Chunks, k <= criados,
           \A q \in Processos \ {w} : ses'[q] = ses[q],
           \A j \in Chunks : j # k => /\ msgChunk'[j] = msgChunk[j]
                                      /\ Leva(w, j)' => Leva(w, j)
                                      /\ chunk'[j] = chunk[j] /\ lease'[j] = lease[j],
           chunk'[k] \in ChunkAtivo, lease'[k] = "valido",
           \/ msgChunk[k] = 1 /\ msgChunk'[k] = 0
           \/ Leva(w, k) /\ msgChunk'[k] = 1 /\ ~Leva(w, k)',
           ses'[w].pc \notin {"rec", "rec_fim"}
    PROVE  Portadores'
<1> w \in Processos
  BY DEF Processos
<1>1. \A v \in Workers \ {w} : \A j \in Chunks : Leva(v, j)' <=> Leva(v, j)
  <2> SUFFICES ASSUME NEW v \in Workers \ {w}, NEW j \in Chunks
               PROVE  Leva(v, j)' <=> Leva(v, j)
    OBVIOUS
  <2>1. ses'[v] = ses[v]
    BY DEF Processos
  <2> QED BY <2>1 DEF Leva
<1>2. Portado(k) /\ \A v \in Workers \ {w} : ~Leva(v, k)
  <2>1. UmPortador(k)
    BY DEF Portadores
  <2> QED BY <2>1 DEF UmPortador, Portado, SemPortador
<1>3. ASSUME NEW j \in Chunks, j # k
      PROVE  UmPortador(j)' /\ (SemPortador(j) => SemPortador(j)')
  <2>1. UmPortador(j)
    BY DEF Portadores
  <2>2. \A v \in Workers : Leva(v, j)' => Leva(v, j)
    BY <1>1, <1>3
  <2>3. UmPortador(j)'
    BY <1>3, <2>1, <2>2 DEF UmPortador
  <2> QED BY <1>3, <2>2, <2>3 DEF SemPortador
<1>4. UmPortador(k)'
  <2>1. \A v \in Workers \ {w} : ~Leva(v, k)'
    BY <1>1, <1>2
  <2>2. msgChunk'[k] <= 1 /\ (Leva(w, k)' => msgChunk'[k] = 0)
    OBVIOUS
  <2> QED BY <2>1, <2>2 DEF UmPortador
<1>5. Herda
  BY <1>2, <1>3 DEF Herda, Portado
<1>6. RecolheLivres(w)
  BY DEF RecolheLivres
<1>7. \A j \in Chunks : UmPortador(j)'
  BY <1>3, <1>4
<1> QED BY <1>5, <1>6, <1>7, RecolheSempre DEF Portadores

(* A copy more of a message that was not there is one copy.                *)
LEMMA Unica == MaisUm(0) = 1
BY ConstantesOk DEF MaisUm, Menor

LEMMA EnfileirarPortador ==
    ASSUME IInv, Portadores, NEW w \in Workers, Enfileirar(w)
    PROVE  Portadores'
<1>1. w \in Processos /\ ses[w] \in Sessao /\ ses[w].pc = "enfileirar"
  BY DEF IInv, TypeOK, Processos, Enfileirar
<1>2. PICK k : k = CHOOSE m \in ses[w].lista : \A j \in ses[w].lista : m <= j
  OBVIOUS
<1>3. k \in ses[w].lista
  <2>1. ses[w].lista \in SUBSET Nat /\ ses[w].lista # {}
    BY <1>1 DEF IInv, SessoesOk, SessaoOk, Sessao, Chunks
  <2> QED BY <1>2, <2>1, MenorNatural
<1>4. k \in Chunks /\ k <= criados /\ Leva(w, k)
  BY <1>1, <1>3 DEF IInv, ChunksCriados, Sessao, Leva
<1>5. /\ msgChunk' = Enfileira(msgChunk, k)
      /\ \/ Encerra(w)
         \/ Muda(w, [ses[w] EXCEPT !.lista = @ \ {k}])
      /\ UNCHANGED <<chunk, lease>>
  BY <1>2 DEF Enfileirar, banco
<1>6. msgChunk[k] = 0 /\ chunk[k] \in ChunkAtivo /\ lease[k] = "valido"
  BY <1>4 DEF Portadores, UmPortador
<1>7. msgChunk'[k] = 1 /\ \A j \in Chunks : j # k => msgChunk'[j] = msgChunk[j]
  BY <1>4, <1>5, <1>6, Unica DEF IInv, TypeOK, Enfileira
<1>8. /\ \A q \in Processos \ {w} : ses'[q] = ses[q]
      /\ ses'[w].pc \notin PcChunk \cup {"rec", "rec_fim"}
      /\ ses'[w].pc = "enfileirar" => ses'[w].lista = ses[w].lista \ {k}
  <2>1. CASE Encerra(w)
    BY <1>1, <2>1, EncerraTipo DEF PcChunk, IInv
  <2>2. CASE Muda(w, [ses[w] EXCEPT !.lista = @ \ {k}])
    <3> DEFINE s == [ses[w] EXCEPT !.lista = @ \ {k}]
    <3>1. s.pc = "enfileirar" /\ s.lista = ses[w].lista \ {k}
      BY <1>1 DEF Sessao
    <3>2. Muda(w, s)
      BY <2>2
    <3> HIDE DEF s
    <3>3. ses'[w] = s /\ \A q \in Processos \ {w} : ses'[q] = ses[q]
      BY <1>1, <3>2 DEF Muda, IInv, TypeOK
    <3> QED BY <3>1, <3>3 DEF PcChunk
  <2> QED BY <1>5, <2>1, <2>2
<1>9. ~Leva(w, k)' /\ \A j \in Chunks : Leva(w, j)' => Leva(w, j)
  BY <1>1, <1>8 DEF Leva
<1> QED BY <1>4, <1>5, <1>6, <1>7, <1>8, <1>9, Passa

(* A message that is received becomes the task that handles it.            *)
LEMMA RecebePortador ==
    ASSUME IInv, Portadores, NEW w \in Workers, NEW k \in Chunks,
           ChunkBarrado(w, k) \/ ChunkInicia(w, k)
    PROVE  Portadores'
<1>1. /\ w \in Processos /\ ses[w] \in Sessao /\ ses[w].pc = "livre"
      /\ msgChunk[k] > 0 /\ msgChunk' = Retira(msgChunk, k)
  BY DEF IInv, TypeOK, Processos, ChunkBarrado, ChunkInicia, RecebeChunk
<1>2. /\ k <= criados /\ msgChunk[k] = 1
      /\ chunk[k] \in ChunkAtivo /\ lease[k] = "valido"
  BY <1>1, ConstantesOk DEF Portadores, UmPortador, IInv, TypeOK, ChunksCriados
<1>3. msgChunk'[k] = 0 /\ \A j \in Chunks : j # k => msgChunk'[j] = msgChunk[j]
  BY <1>1, <1>2 DEF IInv, TypeOK, Retira
<1>4. /\ chunk'[k] \in ChunkAtivo /\ lease'[k] = "valido"
      /\ \A j \in Chunks : j # k => chunk'[j] = chunk[j] /\ lease'[j] = lease[j]
  BY <1>2 DEF ChunkBarrado, ChunkInicia, ChunkAtivo, IInv, TypeOK
<1>5. PICK s : Muda(w, s) /\ s.chunk = k /\ s.pc \in PcChunk
  <2>1. CASE ChunkBarrado(w, k)
    <3> DEFINE s == [ses[w] EXCEPT !.pc = "cancelar", !.camp = dono[k], !.chunk = k,
                              !.chunkVisto = chunk[k]]
    <3>1. Muda(w, s)
      BY <2>1 DEF ChunkBarrado
    <3>2. s.chunk = k /\ s.pc \in PcChunk
      BY <1>1 DEF Sessao, PcChunk
    <3> QED BY <3>1, <3>2
  <2>2. CASE ChunkInicia(w, k)
    <3> DEFINE s == [ses[w] EXCEPT
                        !.pc = "iterar", !.camp = dono[k], !.chunk = k,
                        !.resto = ItensDoChunk(k), !.chunkVisto = "running"]
    <3>1. Muda(w, s)
      BY <2>2 DEF ChunkInicia
    <3>2. s.chunk = k /\ s.pc \in PcChunk
      BY <1>1 DEF Sessao, PcChunk
    <3> QED BY <3>1, <3>2
  <2> QED BY <2>1, <2>2
<1>6. ses'[w] = s /\ \A q \in Processos \ {w} : ses'[q] = ses[q]
  BY <1>1, <1>5 DEF Muda, IInv, TypeOK
<1>7. \A j \in Chunks : j # k => ~Leva(w, j)'
  BY <1>5, <1>6 DEF Leva, PcChunk
<1>8. ses'[w].pc \notin {"rec", "rec_fim"}
  BY <1>5, <1>6 DEF PcChunk
<1> QED BY <1>2, <1>3, <1>4, <1>6, <1>7, <1>8, Passa

(* No message is of a closed chunk.                                        *)
LEMMA NadaIgnorado ==
    ASSUME Portadores, NEW w, NEW k \in Chunks
    PROVE  ~ChunkIgnorado(w, k)
<1>1. msgChunk[k] > 0 => chunk[k] \in ChunkAtivo
  BY DEF Portadores, UmPortador
<1>2. chunk[k] \in ChunkAtivo => chunk[k] \notin ChunkTerminal
  BY DEF ChunkAtivo, ChunkTerminal
<1> QED BY <1>1, <1>2 DEF ChunkIgnorado, RecebeChunk

(* The message of a worker that dies is in the queue again; the chunks it  *)
(* had not sent are left to the recovery.                                  *)
LEMMA QuedaPortador ==
    ASSUME IInv, Portadores, NEW w \in Workers, Queda(w)
    PROVE  Portadores'
<1>1. /\ w \in Processos /\ Encerra(w) /\ Devolvida(w)
      /\ UNCHANGED <<chunk, lease>>
  BY DEF Queda, Processos
<1>2. ses'[w].pc = "livre" /\ \A q \in Processos \ {w} : ses'[q] = ses[q]
  BY <1>1, EncerraTipo DEF IInv
<1>3. \A j \in Chunks : ~Leva(w, j)'
  BY <1>2 DEF Leva, PcChunk
<1>4. CASE ses[w].pc \in PcChunk
  <2>1. PICK k \in Chunks : k = ses[w].chunk /\ k <= criados
    BY <1>1, <1>4 DEF IInv, SessoesOk, SessaoOk
  <2>2. Leva(w, k)
    BY <1>4, <2>1 DEF Leva
  <2>3. msgChunk[k] = 0 /\ chunk[k] \in ChunkAtivo /\ lease[k] = "valido"
    BY <2>2 DEF Portadores, UmPortador
  <2>4. msgChunk'[k] = 1 /\ \A j \in Chunks : j # k => msgChunk'[j] = msgChunk[j]
    BY <1>1, <1>4, <2>1, <2>3, Unica DEF IInv, TypeOK, Devolvida, Enfileira
  <2> QED BY <1>1, <1>2, <1>3, <2>1, <2>2, <2>3, <2>4, Passa
<1>5. CASE ses[w].pc \notin PcChunk
  BY <1>1, <1>5, EncerraSemCarga DEF Devolvida
<1> QED BY <1>4, <1>5

(* What a claim does, as the lemmas below use it: campaign c gets the n    *)
(* new chunks `novos', and `meus' of its pending items are put in them.    *)
Reserva(w, c, n, novos, meus) ==
    /\ ses[w].pc = "reservar" /\ c = ses[w].camp
    /\ n <= Vagas(w) /\ Pendentes(c) # {}
    /\ IsFiniteSet(novos) /\ Cardinality(novos) = n
    /\ \A k \in novos : chunk[k] = "nenhum"
    /\ meus \subseteq Pendentes(c)
    /\ \A i \in Itens : IF i \in meus
                        THEN item'[i] = "running" /\ lote'[i] \in novos
                        ELSE item'[i] = item[i] /\ lote'[i] = lote[i]
    /\ chunk' = [k \in Chunks |-> IF k \in novos THEN "queued" ELSE chunk[k]]
    /\ dono'  = [k \in Chunks |-> IF k \in novos THEN c ELSE dono[k]]
    /\ lease' = [k \in Chunks |-> IF k \in novos THEN "valido" ELSE lease[k]]
    /\ Grava(w, c, "running")
    /\ Muda(w, [SessaoVazia EXCEPT !.pc = "enfileirar", !.camp = c, !.lista = novos])
    /\ msgChunk' = msgChunk
    /\ \A k \in Chunks : k <= criados' => k <= criados \/ k \in novos

(* No item fills no chunk.                                                 *)
LEMMA PartesDeNada ==
    ASSUME NEW b \in Nat \ {0}
    PROVE  ~((0 + b - 1) \div b > 0)
<1>1. PICK q \in Int : q = (b - 1) \div b
  OBVIOUS
<1>2. b * q <= b - 1
  BY <1>1, Z3
<1> QED BY <1>1, <1>2, Z3

LEMMA ReservaForma ==
    ASSUME IInv, NEW w \in Workers, Reservar(w)
    PROVE  \E c \in Campanhas, n \in Nat, novos \in SUBSET Chunks,
              meus \in SUBSET Itens : Reserva(w, c, n, novos, meus)
<1> DEFINE c     == ses[w].camp
           fila0 == Pendentes(c)
           n     == Menor(Vagas(w), (Cardinality(fila0) + ChunkSize - 1) \div ChunkSize)
           novos == (criados + 1)..(criados + n)
           parte(i) == criados + 1 + (Posicao(fila0, i) \div ChunkSize)
           meus  == {i \in fila0 : parte(i) \in novos}
<1>1. /\ w \in Processos /\ c \in Campanhas /\ criados \in 0..MaxChunks
      /\ ses[w] \in Sessao
  BY DEF Reservar, IInv, SessoesOk, SessaoOk, TypeOK, Processos
<1>2. /\ n \in Nat /\ n > 0 /\ criados + n \in 0..MaxChunks /\ n <= Vagas(w)
      /\ (Cardinality(fila0) + ChunkSize - 1) \div ChunkSize > 0
  <2>1. /\ n \in Int /\ Vagas(w) \in Int
        /\ (Cardinality(fila0) + ChunkSize - 1) \div ChunkSize \in Int
    BY <1>1, ConstantesOk, CampanhasFinitas DEF Vagas, Menor, Sessao, IInv
  <2> QED BY <1>1, <2>1, ConstantesOk DEF Reservar, Menor
<1>3. fila0 # {}
  <2>1. Cardinality({}) = 0
    BY FS_EmptySet
  <2>2. ~((0 + ChunkSize - 1) \div ChunkSize > 0)
    BY ConstantesOk, PartesDeNada
  <2> QED BY <1>2, <2>1, <2>2
<1>4. IsFiniteSet(novos) /\ Cardinality(novos) = n
  <2> HIDE DEF n
  <2>1. criados + 1 \in Int /\ criados + n \in Int
    BY <1>1, <1>2
  <2> QED BY <1>1, <1>2, <2>1, FS_Interval
<1>5. novos \in SUBSET Chunks /\ \A k \in novos : chunk[k] = "nenhum"
  <2> HIDE DEF n
  <2>1. \A k \in novos : k \in Chunks /\ ~(k <= criados)
    BY <1>1, <1>2, ConstantesOk DEF Chunks
  <2> QED BY <2>1 DEF IInv, ChunksCriados
<1>6. /\ meus \in SUBSET Itens /\ meus \subseteq Pendentes(c)
      /\ \A i \in meus : parte(i) \in novos
  BY DEF Pendentes, ItensDe
<1>7. /\ item'  = [i \in Itens |-> IF i \in meus THEN "running" ELSE item[i]]
      /\ lote'  = [i \in Itens |-> IF i \in meus THEN parte(i) ELSE lote[i]]
      /\ chunk' = [k \in Chunks |-> IF k \in novos THEN "queued" ELSE chunk[k]]
      /\ dono'  = [k \in Chunks |-> IF k \in novos THEN c ELSE dono[k]]
      /\ lease' = [k \in Chunks |-> IF k \in novos THEN "valido" ELSE lease[k]]
      /\ Grava(w, c, "running") /\ ses[w].pc = "reservar"
      /\ Muda(w, [SessaoVazia EXCEPT !.pc = "enfileirar", !.camp = c, !.lista = novos])
      /\ msgChunk' = msgChunk /\ criados' = criados + n
  BY DEF Reservar, fila
<1> HIDE DEF n, novos, parte, meus, fila0
<1>8. \A i \in Itens : IF i \in meus
                       THEN item'[i] = "running" /\ lote'[i] \in novos
                       ELSE item'[i] = item[i] /\ lote'[i] = lote[i]
  BY <1>6, <1>7
<1>9. \A k \in Chunks : k <= criados' => k <= criados \/ k \in novos
  BY <1>1, <1>2, <1>7 DEF novos, Chunks
<1>10. Reserva(w, c, n, novos, meus)
  BY <1>2, <1>3, <1>4, <1>5, <1>6, <1>7, <1>8, <1>9 DEF Reserva, fila0
<1> QED BY <1>1, <1>2, <1>5, <1>6, <1>10

(* Nobody bore the chunks of a claim; its worker does now.                 *)
LEMMA ReservarPortador ==
    ASSUME IInv, Portadores, NEW w \in Workers, Reservar(w)
    PROVE  Portadores'
<1>1. PICK c \in Campanhas, n \in Nat, novos \in SUBSET Chunks,
           meus \in SUBSET Itens : Reserva(w, c, n, novos, meus)
  BY ReservaForma
<1>2. w \in Processos /\ ses \in [Processos -> Sessao]
  BY DEF Processos, IInv, TypeOK
<1>3. ses'[w].pc = "enfileirar" /\ ses'[w].lista = novos
      /\ \A q \in Processos \ {w} : ses'[q] = ses[q]
  BY <1>1, <1>2 DEF Reserva, Muda, SessaoVazia
<1>4. /\ \A k \in Chunks : k \notin novos
            => chunk'[k] = chunk[k] /\ lease'[k] = lease[k]
      /\ \A k \in novos : chunk'[k] = "queued" /\ lease'[k] = "valido"
      /\ msgChunk' = msgChunk
  BY <1>1 DEF Reserva
<1>5. \A k \in novos : k \in Chunks /\ ~(k <= criados) /\ SemPortador(k)
  <2> SUFFICES ASSUME NEW k \in novos
               PROVE  k \in Chunks /\ ~(k <= criados) /\ SemPortador(k)
    OBVIOUS
  <2>1. k \in Chunks /\ chunk[k] = "nenhum"
    BY <1>1 DEF Reserva
  <2>2. chunk[k] \notin ChunkAtivo
    BY <2>1 DEF ChunkAtivo
  <2> QED BY <2>1, <2>2, PortadoAtivo DEF IInv, ChunksCriados, Portado
<1>6. \A v \in Workers \ {w} : \A k \in Chunks : Leva(v, k)' <=> Leva(v, k)
  <2> SUFFICES ASSUME NEW v \in Workers \ {w}, NEW k \in Chunks
               PROVE  Leva(v, k)' <=> Leva(v, k)
    OBVIOUS
  <2>1. ses'[v] = ses[v]
    BY <1>3 DEF Processos
  <2> QED BY <2>1 DEF Leva
<1>7. \A k \in Chunks : Leva(w, k)' <=> k \in novos
  BY <1>3 DEF Leva, PcChunk
<1>8. ASSUME NEW k \in Chunks
      PROVE  UmPortador(k)'
  <2>1. CASE k \in novos
    <3>1. msgChunk'[k] = 0 /\ \A v \in Workers \ {w} : ~Leva(v, k)'
      BY <1>4, <1>5, <1>6, <2>1 DEF SemPortador
    <3>2. chunk'[k] \in ChunkAtivo /\ lease'[k] = "valido"
      BY <1>4, <2>1 DEF ChunkAtivo
    <3> QED BY <3>1, <3>2 DEF UmPortador
  <2>2. CASE k \notin novos
    <3>1. UmPortador(k)
      BY DEF Portadores
    <3>2. \A v \in Workers : Leva(v, k)' => Leva(v, k)
      BY <1>6, <1>7, <2>2
    <3> QED BY <1>4, <2>2, <3>1, <3>2 DEF UmPortador
  <2> QED BY <2>1, <2>2
<1>9. Herda
  BY <1>4, <1>5, <1>6, <1>7 DEF Herda, SemPortador
<1>10. RecolheLivres(w)
  BY <1>3 DEF RecolheLivres
<1> QED BY <1>2, <1>3, <1>8, <1>9, <1>10, RecolheSempre DEF Portadores

-----------------------------------------------------------------------------
(* The counters of redeliveries and of late leases only grow.              *)
LEMMA SemCruzarAntes ==
    ASSUME TypeOK, [Next]_vars, NinguemSeCruza'
    PROVE  /\ NinguemSeCruza
           /\ ~\E w \in Workers : Reentrega(w)
           /\ ~\E k \in Chunks : LeaseAtrasa(k)
<1>1. reentregas \in Nat /\ atrasos \in Nat
  BY ConstantesOk DEF TypeOK
<1>2. ASSUME NEW w \in Workers PROVE ~Reentrega(w)
  BY <1>1 DEF Reentrega, NinguemSeCruza
<1>3. ASSUME NEW k \in Chunks PROVE ~LeaseAtrasa(k)
  BY <1>1 DEF LeaseAtrasa, NinguemSeCruza
<1>4. reentregas' = reentregas /\ atrasos' = atrasos
  <2>1. ASSUME NEW w \in Workers, Prossegue(w)
        PROVE  UNCHANGED <<reentregas, atrasos>>
    BY <2>1 DEF Prossegue, Recuperacao, RecReverte, RecFinaliza, RecPresas, Publicar,
       Reservar, ReservarNada, Enfileirar, IterarAborta, IterarBarrado,
       IterarComeca, ItemSemCompanhia, Finalizar, Cancelar, Conclui, Materializar,
       gasto
  <2>2. ASSUME NEW w \in Workers, NEW c \in Campanhas, CampanhaTask(w, c)
        PROVE  UNCHANGED <<reentregas, atrasos>>
    BY <2>2 DEF CampanhaTask, CampanhaEncerrada, CampanhaRecupera, CampanhaEspera,
       CampanhaSemVaga, CampanhaDecide, gasto
  <2>3. ASSUME NEW w \in Workers, NEW k \in Chunks, ChunkTask(w, k)
        PROVE  UNCHANGED <<reentregas, atrasos>>
    BY <2>3 DEF ChunkTask, ChunkIgnorado, ChunkBarrado, ChunkInicia, gasto
  <2>4. ASSUME NEW c \in Campanhas, VarrePendente(c) \/ Reativar(c) \/ Recuperar(c)
        PROVE  UNCHANGED <<reentregas, atrasos>>
    BY <2>4 DEF VarrePendente, Reativar, Reativa, Recuperar, gasto
  <2>5. CASE Ambiente
    BY <1>2, <1>3, <2>5 DEF Ambiente, FechaGate, AbreGate, QuedaVarredor,
       LeaseVence, LeaseEnvelhece, Queda, gasto
  <2>6. CASE \/ Despachar \/ VarreStale \/ Recuperacao(Varredor) \/ UNCHANGED vars
             \/ \E c \in Campanhas, S \in SUBSET Alvos, d \in BOOLEAN : CriarCampanha(c, S, d)
             \/ \E e \in execs, r \in ItemFeito : Reconcilia(e, r)
    BY <2>6 DEF Despachar, VarreStale, Recuperacao, RecReverte, RecFinaliza,
       RecPresas, Publicar, CriarCampanha, Reconcilia, vars, gasto
  <2> QED BY <2>1, <2>2, <2>3, <2>4, <2>5, <2>6 DEF Next
<1> QED BY <1>2, <1>3, <1>4 DEF NinguemSeCruza

(* Every step keeps one bearer at most for each chunk.                     *)
LEMMA NextPortadores ==
    ASSUME IInv, Portadores, [Next]_vars, NinguemSeCruza'
    PROVE  Portadores'
<1>1. ASSUME NEW w \in Workers, Prossegue(w)
      PROVE  Portadores'
  <2>1. w \in Processos
    BY DEF Processos
  <2>2. CASE Finalizar(w) \/ Cancelar(w)
    BY <2>2, ConcluiPortador DEF Finalizar, Cancelar, PcChunk
  <2>3. CASE Recuperacao(w)
    BY <2>1, <2>3, RecReverteP, RecFinalizaP, RecPresasP, EncerraPortador
    DEF Recuperacao
  <2> QED BY <1>1, <2>1, <2>2, <2>3, ReservarPortador, EncerraPortador,
             EnfileirarPortador, LacoPortador DEF Prossegue
<1>2. CASE Recuperacao(Varredor)
  BY <1>2, RecReverteP, RecFinalizaP, RecPresasP, EncerraPortador
  DEF Recuperacao, Processos
<1>3. CASE \E w \in Workers, k \in Chunks : ChunkTask(w, k)
  BY <1>3, RecebePortador, NadaIgnorado DEF ChunkTask
<1>4. CASE VarreStale \/ \E c \in Campanhas : VarrePendente(c) \/ Reativar(c) \/ Recuperar(c)
  BY <1>4, VarrePortador DEF VarrePendente, Reativar
<1>5. CASE Ambiente
  <2>1. /\ ~\E w \in Workers : Reentrega(w)
        /\ ~\E k \in Chunks : LeaseAtrasa(k)
    BY SemCruzarAntes DEF IInv
  <2>2. CASE QuedaVarredor
    BY <2>2, EncerraPortador DEF Processos
  <2> QED BY <1>5, <2>1, <2>2, SimplesPortador, LeaseVencePortador, QuedaPortador
          DEF Ambiente
<1> QED
  BY <1>1, <1>2, <1>3, <1>4, <1>5, SimplesPortador, CampanhaTaskPortador DEF Next

-----------------------------------------------------------------------------
(* What a worker has done and has left.                                    *)

(* Chunk k keeps its items, and those that ended stay as they were.        *)
Intocado(k) ==
    \A i \in Itens : /\ lote'[i] = k <=> lote[i] = k
                     /\ lote[i] = k /\ item[i] \in ItemFeito => item'[i] = item[i]

(* A step of process p that touches items of the chunks K only, none of    *)
(* which another worker has.                                               *)
LEMMA MolduraObra ==
    ASSUME IInv, Obra, NEW p \in Processos, NEW K \in SUBSET Chunks,
           \A q \in Processos \ {p} : ses'[q] = ses[q],
           \A q \in Workers \ {p} : ses[q].pc \in PcChunk => ses[q].chunk \notin K,
           \A k \in Chunks \ K :
              Intocado(k) /\ (chunk'[k] = "success" => chunk[k] = "success"),
           \A k \in K : SucessoInteiro(k)',
           \A k \in Chunks : k <= criados => dono'[k] = dono[k],
           p \in Workers => Trabalha(p)',
           \A i \in Itens : EmSeuLote(i)'
    PROVE  Obra'
<1>1. \A k \in Chunks \ K : ItensDoChunk(k)' = ItensDoChunk(k)
  BY DEF ItensDoChunk, Intocado
<1>2. ASSUME NEW q \in Workers, q # p
      PROVE  Trabalha(q)'
  <2>1. PICK s \in Sessao : s = ses[q] /\ s = ses'[q]
    BY <1>2 DEF IInv, TypeOK, Processos
  <2>2. CASE s.pc \in PcChunk
    <3>1. PICK k \in Chunks \ K : k = s.chunk /\ k <= criados
      BY <1>2, <2>1, <2>2 DEF IInv, SessoesOk, SessaoOk, Processos
    <3>2. /\ s.camp = dono[k]
          /\ s.pc \in {"iterar", "materializar"} =>
                /\ s.resto \subseteq ItensDoChunk(k)
                /\ s.falhou \/ \A i \in ItensDoChunk(k) \ s.resto : item[i] = "success"
          /\ s.pc = "materializar" /\ s.itemVisto \in ItemFeito =>
                item[Proximo(s.resto)] = s.itemVisto
          /\ s.pc # "reservar"
      <4>1. Trabalha(q)
        BY DEF Obra
      <4>2. s.pc # "reservar"
        BY <2>2 DEF PcChunk
      <4> HIDE DEF PcChunk
      <4> QED BY <2>1, <2>2, <3>1, <4>1, <4>2, Zenon DEF Trabalha
    <3>3. ItensDoChunk(k)' = ItensDoChunk(k) /\ dono'[k] = dono[k]
      BY <1>1, <3>1
    <3>4. \A i \in ItensDoChunk(k) : item[i] \in ItemFeito => item'[i] = item[i]
      BY <3>1 DEF ItensDoChunk, Intocado
    <3>5. \A i \in ItensDoChunk(k) : item[i] = "success" => item'[i] = "success"
      BY <3>4 DEF ItemFeito
    <3>6. s.pc = "materializar" /\ s.itemVisto \in ItemFeito =>
                item'[Proximo(s.resto)] = s.itemVisto
      <4> SUFFICES ASSUME s.pc = "materializar", s.itemVisto \in ItemFeito
                   PROVE  item'[Proximo(s.resto)] = s.itemVisto
        OBVIOUS
      <4>1. s.resto \in SUBSET Itens /\ s.resto # {}
        BY <1>2, <2>1 DEF Sessao, IInv, SessoesOk, SessaoOk, Processos
      <4>2. Proximo(s.resto) \in ItensDoChunk(k)
        BY <3>2, <4>1, ProximoPertence
      <4> QED BY <3>2, <3>4, <4>2
    <3>7. \A i \in (ItensDoChunk(k))' \ s.resto :
             s.pc \in {"iterar", "materializar"} => s.falhou \/ item'[i] = "success"
      BY <3>2, <3>3, <3>5
    <3>8. s.pc \in {"iterar", "materializar"} => s.resto \subseteq ItensDoChunk(k)'
      BY <3>2, <3>3
    <3> HIDE DEF PcChunk
    <3> QED BY <2>1, <3>1, <3>2, <3>3, <3>6, <3>7, <3>8 DEF Trabalha
  <2>3. CASE s.pc \notin PcChunk
    BY <1>2, <2>1, <2>3 DEF Obra, Trabalha, PcChunk
  <2> QED BY <2>2, <2>3
<1>3. ASSUME NEW k \in Chunks \ K
      PROVE  SucessoInteiro(k)'
  <2>1. SucessoInteiro(k) /\ Intocado(k)
    BY DEF Obra
  <2> QED BY <1>1, <2>1 DEF SucessoInteiro, Intocado, ItensDoChunk, ItemFeito
<1>4. \A k \in Chunks : SucessoInteiro(k)'
  BY <1>3
<1> QED BY <1>2, <1>4 DEF Obra

(* An item that becomes pending leaves its chunk.                          *)
LEMMA MesmoLote ==
    ASSUME IInv, Obra,
           \A i \in Itens : lote'[i] = lote[i] \/ lote'[i] = Nenhum,
           \A i \in Itens : item'[i] = "pending"
                               => lote'[i] = Nenhum \/ item[i] = "pending",
           \A k \in Chunks : k <= criados => dono'[k] = dono[k]
    PROVE  \A i \in Itens : EmSeuLote(i)'
<1> SUFFICES ASSUME NEW i \in Itens PROVE EmSeuLote(i)'
  OBVIOUS
<1>1. EmSeuLote(i) /\ (lote[i] # Nenhum => lote[i] \in Chunks /\ lote[i] <= criados)
  BY DEF Obra, IInv, TypeOK, ChunksCriados
<1>2. PICK k : k = lote'[i]
  OBVIOUS
<1>3. k # Nenhum => k = lote[i] /\ dono'[k] = dono[k]
  BY <1>1, <1>2
<1>4. item'[i] = "pending" => k = Nenhum
  BY <1>1, <1>2 DEF EmSeuLote
<1> QED BY <1>1, <1>2, <1>3, <1>4 DEF EmSeuLote

(* No other worker has a chunk without a bearer, or the chunk of this one. *)
LEMMA OutroChunk ==
    ASSUME IInv, Portadores, NEW w \in Workers, NEW q \in Workers, q # w,
           ses[w].pc \in PcChunk, ses[q].pc \in PcChunk
    PROVE  ses[q].chunk # ses[w].chunk
<1>1. ses[w].chunk \in Chunks
  BY DEF IInv, SessoesOk, SessaoOk, Processos
<1>2. PICK k \in Chunks : k = ses[w].chunk
  BY <1>1
<1>3. Leva(w, k)
  BY <1>2 DEF Leva
<1>4. ~Leva(q, k)
  BY <1>3 DEF Portadores, UmPortador
<1> QED BY <1>2, <1>4 DEF Leva

LEMMA ChunkLivre ==
    ASSUME NEW k, SemPortador(k), NEW q \in Workers, ses[q].pc \in PcChunk
    PROVE  ses[q].chunk # k
BY DEF SemPortador, Leva

(* The worker of a chunk has one that is active.                           *)
LEMMA ChunkProprio ==
    ASSUME IInv, Portadores, NEW w \in Workers, ses[w].pc \in PcChunk
    PROVE  /\ ses[w].chunk \in Chunks /\ ses[w].chunk <= criados
           /\ chunk[ses[w].chunk] \in ChunkAtivo
<1>1. PICK k \in Chunks : k = ses[w].chunk /\ k <= criados
  BY DEF IInv, SessoesOk, SessaoOk, Processos
<1>2. Leva(w, k)
  BY <1>1 DEF Leva
<1>3. chunk[k] \in ChunkAtivo
  BY <1>2 DEF Portadores, UmPortador
<1> QED BY <1>1, <1>3

(* An active chunk is not a closed one.                                    *)
LEMMA AtivoAberto ==
    ASSUME NEW s \in ChunkAtivo
    PROVE  s \notin ChunkTerminal /\ s # "success" /\ s # "nenhum"
BY DEF ChunkAtivo, ChunkTerminal

(* A step that leaves items and chunks alone.                              *)
LEMMA ObraIgual ==
    ASSUME IInv, Obra, NEW p \in Processos,
           \A q \in Processos \ {p} : ses'[q] = ses[q],
           item' = item, lote' = lote, dono' = dono,
           \A k \in Chunks : chunk'[k] = "success" => chunk[k] = "success",
           p \in Workers => Trabalha(p)'
    PROVE  Obra'
<1>1. PICK K \in SUBSET Chunks : K = {}
  OBVIOUS
<1>2. \A k \in Chunks \ K :
         Intocado(k) /\ (chunk'[k] = "success" => chunk[k] = "success")
  BY DEF Intocado
<1>3. \A q \in Workers \ {p} : ses[q].pc \in PcChunk => ses[q].chunk \notin K
  BY <1>1
<1>4. \A k \in K : SucessoInteiro(k)'
  BY <1>1
<1>5. \A i \in Itens : EmSeuLote(i)'
  BY MesmoLote
<1>6. \A k \in Chunks : k <= criados => dono'[k] = dono[k]
  OBVIOUS
<1> QED BY <1>2, <1>3, <1>4, <1>5, <1>6, MolduraObra

(* A session that holds no chunk and claims none.                          *)
LEMMA SemObra ==
    ASSUME NEW p, ses'[p].pc \notin PcChunk \cup {"reservar"}
    PROVE  Trabalha(p)'
BY DEF Trabalha, PcChunk

LEMMA MudaObra ==
    ASSUME IInv, Obra, NEW p \in Processos, NEW s, Muda(p, s),
           s.pc \notin PcChunk \cup {"reservar"},
           item' = item, lote' = lote, dono' = dono,
           \A k \in Chunks : chunk'[k] = "success" => chunk[k] = "success"
    PROVE  Obra'
<1>1. ses'[p] = s /\ \A q \in Processos \ {p} : ses'[q] = ses[q]
  BY DEF Muda, IInv, TypeOK
<1>2. Trabalha(p)'
  BY <1>1, SemObra
<1> QED BY <1>1, <1>2, ObraIgual

LEMMA EncerraObra ==
    ASSUME IInv, Obra, NEW p \in Processos, Encerra(p),
           item' = item, lote' = lote, dono' = dono,
           \A k \in Chunks : chunk'[k] = "success" => chunk[k] = "success"
    PROVE  Obra'
<1>1. SessaoVazia.pc \notin PcChunk \cup {"reservar"}
  BY DEF SessaoVazia, PcChunk
<1>2. Muda(p, SessaoVazia)
  BY DEF Encerra
<1> QED BY <1>1, <1>2, MudaObra

LEMMA SessoesObra ==
    ASSUME IInv, Obra, ses' = ses, item' = item, lote' = lote, dono' = dono,
           chunk' = chunk
    PROVE  Obra'
<1> Varredor \in Processos /\ Varredor \notin Workers
  BY ConstantesOk DEF Processos
<1> QED BY ObraIgual

-----------------------------------------------------------------------------
LEMMA CampanhaTaskObra ==
    ASSUME IInv, Obra, NEW w \in Workers, NEW c \in Campanhas, CampanhaTask(w, c)
    PROVE  Obra'
<1> w \in Processos /\ ses[w] \in Sessao
  BY DEF Processos, IInv, TypeOK
<1>1. UNCHANGED <<item, lote, dono, chunk>>
  BY DEF CampanhaTask, CampanhaEncerrada, CampanhaRecupera, CampanhaEspera,
         CampanhaSemVaga, CampanhaDecide
<1>2. CASE ses' = ses
  BY <1>1, <1>2, SessoesObra
<1>3. CASE CampanhaRecupera(w, c)
  <2> DEFINE s == [ses[w] EXCEPT !.pc = "rec", !.camp = c, !.alcance = {c},
                       !.lista = StaleDe(c),
                       !.campVista = Vista(w, c, Recalculado(c, item, chunk))]
  <2>1. Muda(w, s)
    BY <1>3 DEF CampanhaRecupera
  <2>2. s.pc = "rec"
    BY DEF Sessao
  <2> HIDE DEF s
  <2> QED BY <1>1, <2>1, <2>2, MudaObra DEF PcChunk
<1>4. CASE CampanhaDecide(w, c)
  <2> DEFINE n == Cardinality(ComLease(c))
             s == [ses[w] EXCEPT !.pc = "reservar", !.camp = c,
                       !.campVista = Vista(w, c, Recalculado(c, item, chunk)),
                       !.slots = MaxActiveChunks - n]
  <2>1. Muda(w, s)
    BY <1>4 DEF CampanhaDecide
  <2>2. n \in Nat
    BY CampanhasFinitas
  <2> HIDE DEF n
  <2>3. s.pc = "reservar" /\ s.slots = MaxActiveChunks - n
    BY DEF Sessao
  <2> HIDE DEF s
  <2>4. ses'[w] = s /\ \A q \in Processos \ {w} : ses'[q] = ses[q]
    BY <2>1 DEF Muda, IInv, TypeOK
  <2>5. s.slots <= MaxActiveChunks
    BY <2>2, <2>3, ConstantesOk
  <2>6. Trabalha(w)'
    BY <2>3, <2>4, <2>5 DEF Trabalha, PcChunk
  <2> QED BY <1>1, <2>4, <2>6, ObraIgual
<1> QED BY <1>2, <1>3, <1>4 DEF CampanhaTask, CampanhaEncerrada, CampanhaEspera,
           CampanhaSemVaga

LEMMA SimplesObra ==
    ASSUME IInv, Obra,
           \/ Despachar \/ FechaGate \/ AbreGate \/ UNCHANGED vars
           \/ \E k \in Chunks : LeaseVence(k)
    PROVE  Obra'
<1>1. UNCHANGED <<item, lote, dono, chunk, ses>>
  BY DEF Despachar, FechaGate, AbreGate, LeaseVence, LeaseEnvelhece, banco, vars
<1> QED BY <1>1, SessoesObra

LEMMA FimDeTarefaObra ==
    ASSUME IInv, Obra, NEW p \in Processos,
           \/ p \in Workers /\ (ReservarNada(p) \/ IterarAborta(p) \/ Queda(p))
           \/ Publicar(p)
           \/ p = Varredor /\ QuedaVarredor
    PROVE  Obra'
<1>1. Encerra(p) /\ UNCHANGED <<item, lote, dono, chunk>>
  BY DEF ReservarNada, IterarAborta, Publicar, QuedaVarredor, Queda, banco
<1> QED BY <1>1, EncerraObra

LEMMA VarreObra ==
    ASSUME IInv, Obra,
           VarreStale \/ \E c \in Campanhas : Reativa(c) \/ Recuperar(c)
    PROVE  Obra'
<1> Varredor \in Processos /\ ses[Varredor] \in Sessao /\ Varredor \notin Workers
  BY ConstantesOk DEF Processos, IInv, TypeOK
<1>1. UNCHANGED <<item, lote, dono, chunk>>
  BY DEF VarreStale, Reativa, Recuperar, banco
<1>2. ses' = ses \/ \E s : Muda(Varredor, s)
  BY DEF VarreStale, Reativa, Recuperar
<1>3. \A q \in Processos \ {Varredor} : ses'[q] = ses[q]
  BY <1>2 DEF Muda, IInv, TypeOK
<1> QED BY <1>1, <1>3, ObraIgual

LEMMA EnfileirarObra ==
    ASSUME IInv, Obra, NEW w \in Workers, Enfileirar(w)
    PROVE  Obra'
<1>1. w \in Processos /\ ses[w] \in Sessao /\ ses[w].pc = "enfileirar"
      /\ UNCHANGED <<item, lote, dono, chunk>>
  BY DEF Enfileirar, Processos, IInv, TypeOK, banco
<1>2. CASE Encerra(w)
  BY <1>1, <1>2, EncerraObra
<1>3. CASE ~Encerra(w)
  <2>1. PICK L : Muda(w, [ses[w] EXCEPT !.lista = L])
    BY <1>3 DEF Enfileirar
  <2>2. [ses[w] EXCEPT !.lista = L].pc = "enfileirar"
    BY <1>1 DEF Sessao
  <2> QED BY <1>1, <2>1, <2>2, MudaObra DEF PcChunk
<1> QED BY <1>2, <1>3

(* The item that a worker is about to materialize is as it saw it.         *)
LEMMA IterarComecaObra ==
    ASSUME IInv, Obra, NEW w \in Workers, IterarComeca(w)
    PROVE  Obra'
<1> DEFINE i == Proximo(ses[w].resto)
           s == [ses[w] EXCEPT !.pc = "materializar", !.itemVisto = item[i]]
<1>1. /\ w \in Processos /\ ses[w] \in Sessao /\ ses[w].pc = "iterar"
      /\ UNCHANGED <<item, lote, dono, chunk>> /\ Muda(w, s)
  BY DEF IterarComeca, IterarContinua, Processos, IInv, TypeOK
<1>2. Trabalha(w)
  BY DEF Obra
<1>3. PICK j : j = i
  OBVIOUS
<1>4. /\ s.pc = "materializar" /\ s.itemVisto = item[j]
      /\ s.resto = ses[w].resto /\ s.camp = ses[w].camp
      /\ s.chunk = ses[w].chunk /\ s.falhou = ses[w].falhou
  BY <1>1, <1>3 DEF Sessao
<1>5. j = Proximo(s.resto)
  BY <1>3, <1>4
<1> HIDE DEF s, i
<1>6. PICK a : a = s
  OBVIOUS
<1>7. ses'[w] = a /\ \A q \in Processos \ {w} : ses'[q] = ses[q]
  BY <1>1, <1>6 DEF Muda, IInv, TypeOK
<1>8. PICK k : k = ses[w].chunk
  OBVIOUS
<1>9. a.pc = "materializar" /\ a.itemVisto = item[j] /\ a.chunk = k
      /\ j = Proximo(a.resto)
  BY <1>4, <1>5, <1>6, <1>8
<1>10. /\ a.camp = dono[k] /\ a.resto \subseteq ItensDoChunk(k)
       /\ a.falhou \/ \A x \in ItensDoChunk(k) \ a.resto : item[x] = "success"
  BY <1>1, <1>2, <1>4, <1>6, <1>8, Zenon DEF Trabalha, PcChunk
<1>11. ItensDoChunk(k)' = ItensDoChunk(k) /\ dono'[k] = dono[k] /\ item' = item
  BY <1>1 DEF ItensDoChunk
<1>12. Trabalha(w)'
  <2>1. "materializar" # "reservar"
    OBVIOUS
  <2> QED BY <1>7, <1>9, <1>10, <1>11, <2>1, Zenon DEF Trabalha
<1> QED BY <1>1, <1>7, <1>12, ObraIgual

(* A chunk starts with all its items before it.                            *)
LEMMA ChunkIniciaObra ==
    ASSUME IInv, Obra, NEW w \in Workers, NEW k \in Chunks, ChunkInicia(w, k)
    PROVE  Obra'
<1> DEFINE s == [ses[w] EXCEPT
                    !.pc = "iterar", !.camp = dono[k], !.chunk = k,
                    !.resto = ItensDoChunk(k), !.chunkVisto = "running"]
<1>1. /\ w \in Processos /\ ses[w] \in Sessao
      /\ UNCHANGED <<item, lote, dono>> /\ Muda(w, s)
      /\ chunk' = [chunk EXCEPT ![k] = "running"]
  BY DEF ChunkInicia, Processos, IInv, TypeOK
<1>2. /\ s.pc = "iterar" /\ s.resto = ItensDoChunk(k)
      /\ s.camp = dono[k] /\ s.chunk = k
  BY <1>1 DEF Sessao
<1> HIDE DEF s
<1>3. ses'[w] = s /\ \A q \in Processos \ {w} : ses'[q] = ses[q]
  BY <1>1 DEF Muda, IInv, TypeOK
<1>4. /\ ses'[w].pc = "iterar" /\ ses'[w].resto = ItensDoChunk(k)
      /\ ses'[w].camp = dono[k] /\ ses'[w].chunk = k
  BY <1>2, <1>3
<1>5. ItensDoChunk(k)' = ItensDoChunk(k) /\ dono' = dono
  BY <1>1 DEF ItensDoChunk
<1>6. Trabalha(w)'
  BY <1>4, <1>5 DEF Trabalha
<1>7. \A j \in Chunks : chunk'[j] = "success" => chunk[j] = "success"
  BY <1>1 DEF IInv, TypeOK
<1> QED BY <1>1, <1>3, <1>6, <1>7, ObraIgual

(* A worker stopped by the gate returns items of its own chunk.            *)
LEMMA BarradoObra ==
    ASSUME IInv, Obra, NEW w \in Workers, NEW k \in Chunks, NEW c, NEW R, NEW s,
           Devolve(w, c, R), R \subseteq ItensDoChunk(k), Muda(w, s),
           s.pc = "cancelar", s.chunk = k, s.camp = dono[k],
           chunk' = chunk, dono' = dono, chunk[k] \in ChunkAtivo,
           \A q \in Workers \ {w} : ses[q].pc \in PcChunk => ses[q].chunk # k
    PROVE  Obra'
<1>1. w \in Processos /\ ses'[w] = s /\ \A q \in Processos \ {w} : ses'[q] = ses[q]
  BY DEF Processos, Muda, IInv, TypeOK
<1>2. /\ item' = [i \in Itens |-> IF i \in R THEN "pending" ELSE item[i]]
      /\ lote' = [i \in Itens |-> IF i \in R THEN Nenhum ELSE lote[i]]
      /\ \A i \in R : lote[i] = k
  BY DEF Devolve, ItensDoChunk
<1>3. PICK K \in SUBSET Chunks : K = {k}
  OBVIOUS
<1>4. \A j \in Chunks \ K :
         Intocado(j) /\ (chunk'[j] = "success" => chunk[j] = "success")
  BY <1>2, <1>3, ConstantesOk DEF Intocado, Chunks
<1>5. \A q \in Workers \ {w} : ses[q].pc \in PcChunk => ses[q].chunk \notin K
  BY <1>3
<1>6. \A j \in K : SucessoInteiro(j)'
  BY <1>3, AtivoAberto DEF SucessoInteiro
<1>7. \A j \in Chunks : j <= criados => dono'[j] = dono[j]
  OBVIOUS
<1>8. \A i \in Itens : EmSeuLote(i)'
  BY <1>2, <1>7, MesmoLote
<1>9. Trabalha(w)'
  BY <1>1 DEF Trabalha, PcChunk
<1> QED BY <1>1, <1>4, <1>5, <1>6, <1>7, <1>8, <1>9, MolduraObra

LEMMA ChunkBarradoObra ==
    ASSUME IInv, Portadores, Obra, NEW w \in Workers, NEW k \in Chunks,
           ChunkBarrado(w, k)
    PROVE  Obra'
<1> DEFINE s == [ses[w] EXCEPT !.pc = "cancelar", !.camp = dono[k], !.chunk = k,
                          !.chunkVisto = chunk[k]]
<1>1. /\ ses[w] \in Sessao /\ Muda(w, s) /\ msgChunk[k] > 0
      /\ Devolve(w, dono[k], ItensDoChunk(k))
      /\ chunk' = chunk /\ dono' = dono /\ chunk[k] \in ChunkAtivo
  BY DEF ChunkBarrado, RecebeChunk, Processos, IInv, TypeOK
<1>2. s.pc = "cancelar" /\ s.chunk = k /\ s.camp = dono[k]
  BY <1>1 DEF Sessao
<1> HIDE DEF s
<1>3. \A q \in Workers : ~Leva(q, k)
  BY <1>1 DEF Portadores, UmPortador
<1>4. \A q \in Workers \ {w} : ses[q].pc \in PcChunk => ses[q].chunk # k
  BY <1>3 DEF Leva
<1> QED BY <1>1, <1>2, <1>4, BarradoObra

LEMMA IterarBarradoObra ==
    ASSUME IInv, Portadores, Obra, NEW w \in Workers, IterarBarrado(w)
    PROVE  Obra'
<1> DEFINE s == [SessaoVazia EXCEPT !.pc = "cancelar", !.camp = ses[w].camp,
                        !.chunk = ses[w].chunk, !.chunkVisto = ses[w].chunkVisto]
<1>1. /\ ses[w].pc = "iterar" /\ Muda(w, s)
      /\ Devolve(w, ses[w].camp, ses[w].resto)
      /\ chunk' = chunk /\ dono' = dono
  BY DEF IterarBarrado, IterarContinua
<1>2. s.pc = "cancelar" /\ s.chunk = ses[w].chunk /\ s.camp = ses[w].camp
  BY DEF SessaoVazia
<1> HIDE DEF s
<1>3. ses[w].pc \in PcChunk
  BY <1>1 DEF PcChunk
<1>4. PICK k \in Chunks : k = ses[w].chunk /\ chunk[k] \in ChunkAtivo
  BY <1>3, ChunkProprio
<1>5. \A q \in Workers \ {w} : ses[q].pc \in PcChunk => ses[q].chunk # k
  BY <1>3, <1>4, OutroChunk
<1>6. ses[w].camp = dono[k] /\ ses[w].resto \subseteq ItensDoChunk(k)
  BY <1>1, <1>3, <1>4 DEF Obra, Trabalha
<1> QED BY <1>1, <1>2, <1>4, <1>5, <1>6, BarradoObra

(* A worker stores the result r of the item in hand, which is of its       *)
(* chunk.                                                                  *)
Anota(w, i, r, s) ==
    /\ ses[w].pc \in {"iterar", "materializar"}
    /\ i \in ses[w].resto
    /\ item' = [item EXCEPT ![i] = r]
    /\ UNCHANGED <<lote, chunk, dono>>
    /\ Muda(w, s)
    /\ s.pc = "iterar" /\ s.resto = ses[w].resto \ {i}
    /\ s.camp = ses[w].camp /\ s.chunk = ses[w].chunk
    /\ s.falhou \/ (r = "success" /\ ~ses[w].falhou)

LEMMA RegistraObra ==
    ASSUME IInv, Portadores, Obra, NEW w \in Workers, NEW i, NEW r \in ItemFeito,
           NEW s, Anota(w, i, r, s)
    PROVE  Obra'
<1> USE DEF Anota
<1>1. /\ w \in Processos /\ ses'[w] = s /\ item \in [Itens -> ItemStatus]
      /\ \A q \in Processos \ {w} : ses'[q] = ses[q]
  BY DEF Processos, Muda, IInv, TypeOK
<1>2. ses[w].pc \in PcChunk
  BY DEF PcChunk
<1>3. PICK k \in Chunks : k = ses[w].chunk /\ chunk[k] \in ChunkAtivo
  BY <1>2, ChunkProprio
<1>4. /\ ses[w].camp = dono[k] /\ ses[w].resto \subseteq ItensDoChunk(k)
      /\ ses[w].falhou \/ \A x \in ItensDoChunk(k) \ ses[w].resto : item[x] = "success"
  <2>1. Trabalha(w)
    BY DEF Obra
  <2> QED BY <1>2, <1>3, <2>1, Zenon DEF Trabalha
<1>5. i \in Itens /\ lote[i] = k
  BY <1>4 DEF ItensDoChunk
<1>6. \A x \in Itens : item'[x] = IF x = i THEN r ELSE item[x]
  BY <1>1
<1>7. PICK K \in SUBSET Chunks : K = {k}
  OBVIOUS
<1>8. \A j \in Chunks \ K :
         Intocado(j) /\ (chunk'[j] = "success" => chunk[j] = "success")
  BY <1>5, <1>6, <1>7 DEF Intocado
<1>9. \A q \in Workers \ {w} : ses[q].pc \in PcChunk => ses[q].chunk \notin K
  BY <1>2, <1>3, <1>7, OutroChunk
<1>10. \A j \in K : SucessoInteiro(j)'
  BY <1>3, <1>7, AtivoAberto DEF SucessoInteiro
<1>11. \A j \in Chunks : j <= criados => dono'[j] = dono[j]
  OBVIOUS
<1>12. \A x \in Itens : EmSeuLote(x)'
  <2>1. r # "pending"
    BY DEF ItemFeito
  <2> QED BY <1>6, <1>11, <2>1, MesmoLote
<1>13. Trabalha(w)'
  <2>1. ItensDoChunk(k)' = ItensDoChunk(k) /\ dono'[k] = dono[k]
    BY DEF ItensDoChunk
  <2>2. s.resto \subseteq ItensDoChunk(k)'
    BY <1>4, <2>1
  <2>3. s.falhou \/ \A x \in ItensDoChunk(k)' \ s.resto : item'[x] = "success"
    <3> SUFFICES ASSUME r = "success", ~ses[w].falhou,
                        NEW x \in ItensDoChunk(k), x \notin s.resto
                 PROVE  item'[x] = "success"
      BY <2>1
    <3>1. \A y \in ItensDoChunk(k) \ ses[w].resto : item[y] = "success"
      BY <1>4
    <3>2. x \in Itens
      BY DEF ItensDoChunk
    <3> QED BY <1>6, <3>1, <3>2
  <2>4. "iterar" # "reservar" /\ "iterar" # "materializar"
    OBVIOUS
  <2>5. s.camp = dono'[k] /\ s.chunk = k
    BY <1>3, <1>4, <2>1
  <2> QED BY <1>1, <2>2, <2>3, <2>4, <2>5, Zenon DEF Trabalha
<1> QED BY <1>1, <1>8, <1>9, <1>10, <1>11, <1>12, <1>13, MolduraObra

(* The attribute already has the value when the cached one does, because   *)
(* nobody else writes to the items of the chunk.                           *)
LEMMA MaterializarObra ==
    ASSUME IInv, Portadores, Obra, NEW w \in Workers, NEW r \in ItemFeito,
           Materializar(w, r)
    PROVE  Obra'
<1>1. PICK i : i = Proximo(ses[w].resto)
  OBVIOUS
<1> DEFINE v == chunk[ses[w].chunk]
           s == [ses[w] EXCEPT
                       !.pc = "iterar", !.resto = @ \ {i},
                       !.falhou = @ \/ r = "failed", !.chunkVisto = v,
                       !.itemVisto = "nenhum"]
<1>2. /\ ses[w] \in Sessao /\ ses[w].pc = "materializar" /\ Muda(w, s)
      /\ item' = [item EXCEPT ![i] = IF ses[w].itemVisto = r THEN @ ELSE r]
      /\ UNCHANGED <<lote, chunk, dono>>
  BY <1>1 DEF Materializar, Registra, Processos, IInv, TypeOK
<1>3. i \in ses[w].resto /\ i \in Itens
  <2>1. ses[w].resto \in SUBSET Itens /\ ses[w].resto # {}
    BY <1>2 DEF Sessao, IInv, SessoesOk, SessaoOk, Processos
  <2> QED BY <1>1, <2>1, ProximoPertence
<1>4. ses[w].itemVisto = r => item[i] = r
  BY <1>1, <1>2 DEF Obra, Trabalha
<1>5. item' = [item EXCEPT ![i] = r]
  BY <1>2, <1>4
<1> HIDE DEF v
<1>6. /\ s.pc = "iterar" /\ s.resto = ses[w].resto \ {i}
      /\ s.camp = ses[w].camp /\ s.chunk = ses[w].chunk
  BY <1>2 DEF Sessao
<1>7. s.falhou = (ses[w].falhou \/ r = "failed")
  BY <1>2 DEF Sessao
<1> HIDE DEF s
<1>8. s.falhou \/ (r = "success" /\ ~ses[w].falhou)
  BY <1>7 DEF ItemFeito
<1>9. ses[w].pc \in {"iterar", "materializar"} /\ i \in ses[w].resto /\ Muda(w, s)
  BY <1>2, <1>3
<1>10. Anota(w, i, r, s)
  BY <1>2, <1>5, <1>6, <1>8, <1>9, Zenon DEF Anota
<1> QED BY <1>10, RegistraObra

LEMMA ItemSemCompanhiaObra ==
    ASSUME IInv, Portadores, Obra, NEW w \in Workers, ItemSemCompanhia(w)
    PROVE  Obra'
<1>1. PICK i : i = Proximo(ses[w].resto)
  OBVIOUS
<1> DEFINE s == [ses[w] EXCEPT !.resto = @ \ {i}, !.falhou = TRUE]
<1>2. /\ ses[w] \in Sessao /\ ses[w].pc = "iterar" /\ Muda(w, s)
      /\ item' = [item EXCEPT ![i] = IF item[i] = "failed" THEN @ ELSE "failed"]
      /\ UNCHANGED <<lote, chunk, dono>> /\ ses[w].resto # {}
  BY <1>1 DEF ItemSemCompanhia, IterarContinua, Registra, Processos, IInv, TypeOK
<1>3. i \in ses[w].resto
  BY <1>1, <1>2, ProximoPertence DEF Sessao
<1>4. item' = [item EXCEPT ![i] = "failed"]
  BY <1>2
<1>5. /\ s.pc = "iterar" /\ s.resto = ses[w].resto \ {i}
      /\ s.camp = ses[w].camp /\ s.chunk = ses[w].chunk
  BY <1>2 DEF Sessao
<1>6. s.falhou
  BY <1>2 DEF Sessao
<1> HIDE DEF s
<1>7. PICK r \in ItemFeito : r = "failed"
  BY DEF ItemFeito
<1>8. /\ ses[w].pc \in {"iterar", "materializar"} /\ Muda(w, s)
      /\ item' = [item EXCEPT ![i] = r]
      /\ s.falhou \/ (r = "success" /\ ~ses[w].falhou)
  BY <1>2, <1>4, <1>6, <1>7
<1>9. Anota(w, i, r, s)
  BY <1>2, <1>3, <1>5, <1>8, Zenon DEF Anota
<1> QED BY <1>9, RegistraObra

(* A loop that ends without a failure has only successes behind it.        *)
LEMMA ConcluiObra ==
    ASSUME IInv, Portadores, Obra, NEW w \in Workers,
           Finalizar(w) \/ Cancelar(w)
    PROVE  Obra'
<1>1. ses[w].pc \in PcChunk /\ w \in Processos
  BY DEF Finalizar, Cancelar, PcChunk, Processos
<1>2. PICK k \in Chunks : k = ses[w].chunk /\ chunk[k] \in ChunkAtivo
  BY <1>1, ChunkProprio
<1>3. /\ Encerra(w) /\ UNCHANGED <<item, lote, dono>>
      /\ \A j \in Chunks : j # k => chunk'[j] = chunk[j]
  BY <1>2 DEF Finalizar, Cancelar, Conclui, IInv, TypeOK
<1>4. ses'[w].pc = "livre" /\ \A q \in Processos \ {w} : ses'[q] = ses[q]
  BY <1>1, <1>3, EncerraTipo DEF IInv
<1>5. chunk'[k] = "success" => \A i \in ItensDoChunk(k) : item[i] = "success"
  <2>1. chunk[k] # "success"
    BY <1>2, AtivoAberto
  <2>2. CASE Cancelar(w)
    BY <1>2, <2>1, <2>2 DEF Cancelar, Conclui, IInv, TypeOK
  <2>3. CASE Finalizar(w)
    <3>1. chunk'[k] = "success" => ~ses[w].falhou
      BY <1>2, <2>1, <2>3 DEF Finalizar, Conclui, IInv, TypeOK
    <3>2. ses[w].pc = "iterar" /\ ses[w].resto = {}
      BY <2>3 DEF Finalizar
    <3> QED BY <1>2, <3>1, <3>2 DEF Obra, Trabalha
  <2> QED BY <2>2, <2>3
<1>6. PICK K \in SUBSET Chunks : K = {k}
  OBVIOUS
<1>7. \A j \in Chunks \ K :
         Intocado(j) /\ (chunk'[j] = "success" => chunk[j] = "success")
  BY <1>3, <1>6 DEF Intocado
<1>8. \A q \in Workers \ {w} : ses[q].pc \in PcChunk => ses[q].chunk \notin K
  BY <1>1, <1>2, <1>6, OutroChunk
<1>9. \A j \in K : SucessoInteiro(j)'
  BY <1>3, <1>5, <1>6 DEF SucessoInteiro, ItensDoChunk
<1>10. \A j \in Chunks : j <= criados => dono'[j] = dono[j]
  BY <1>3
<1>11. \A i \in Itens : EmSeuLote(i)'
  BY <1>3, <1>10, MesmoLote
<1>12. Trabalha(w)'
  BY <1>4 DEF Trabalha, PcChunk
<1> QED BY <1>1, <1>4, <1>7, <1>8, <1>9, <1>10, <1>11, <1>12, MolduraObra

-----------------------------------------------------------------------------
(* The recovery returns running items of a chunk that nobody has.          *)
LEMMA RecReverteObra ==
    ASSUME IInv, Portadores, Obra, NEW p \in Processos, RecReverte(p)
    PROVE  Obra'
<1> PICK k \in ses[p].lista :
        LET c == dono[k]
            R == {i \in ItensDoChunk(k) : item[i] = "running"}
        IN  /\ ses[p].pc = "rec"
            /\ Devolve(p, c, R)
            /\ Muda(p, [ses[p] EXCEPT !.pc = "rec_fim", !.chunk = k,
                                  !.campVista = VistaDevolvida(p, c, R)])
            /\ UNCHANGED <<chunk, dono>>
  BY DEF RecReverte
<1> DEFINE R == {i \in ItensDoChunk(k) : item[i] = "running"}
           V == VistaDevolvida(p, dono[k], R)
           s == [ses[p] EXCEPT !.pc = "rec_fim", !.chunk = k, !.campVista = V]
<1>1. /\ ses[p] \in Sessao /\ Muda(p, s) /\ Devolve(p, dono[k], R)
      /\ ses[p].pc = "rec" /\ UNCHANGED <<chunk, dono>>
  BY DEF IInv, TypeOK
<1> HIDE DEF V
<1>2. s.pc = "rec_fim"
  BY <1>1 DEF Sessao
<1> HIDE DEF s
<1>3. k \in Chunks /\ SemPortador(k)
  BY <1>1 DEF Sessao, Portadores, Recolhe
<1>4. ses'[p] = s /\ \A q \in Processos \ {p} : ses'[q] = ses[q]
  BY <1>1 DEF Muda, IInv, TypeOK
<1>5. /\ item' = [i \in Itens |-> IF i \in R THEN "pending" ELSE item[i]]
      /\ lote' = [i \in Itens |-> IF i \in R THEN Nenhum ELSE lote[i]]
      /\ \A i \in R : lote[i] = k /\ item[i] = "running"
  BY <1>1 DEF Devolve, ItensDoChunk
<1>6. PICK K \in SUBSET Chunks : K = {k}
  BY <1>3
<1>7. \A j \in Chunks \ K :
         Intocado(j) /\ (chunk'[j] = "success" => chunk[j] = "success")
  BY <1>1, <1>5, <1>6, ConstantesOk DEF Intocado, Chunks
<1>8. \A q \in Workers \ {p} : ses[q].pc \in PcChunk => ses[q].chunk \notin K
  BY <1>3, <1>6, ChunkLivre
<1>9. \A j \in K : SucessoInteiro(j)'
  <2> SUFFICES SucessoInteiro(k)'
    BY <1>6
  <2>1. SucessoInteiro(k)
    BY <1>3 DEF Obra
  <2>2. \A i \in Itens : lote'[i] = k => lote[i] = k /\ item'[i] = item[i]
    BY <1>3, <1>5, ConstantesOk DEF Chunks
  <2> QED BY <1>1, <2>1, <2>2 DEF SucessoInteiro, ItensDoChunk
<1>10. \A j \in Chunks : j <= criados => dono'[j] = dono[j]
  BY <1>1
<1>11. \A i \in Itens : EmSeuLote(i)'
  BY <1>5, <1>10, MesmoLote
<1>12. Trabalha(p)'
  BY <1>2, <1>4, SemObra DEF PcChunk
<1> QED BY <1>4, <1>7, <1>8, <1>9, <1>10, <1>11, <1>12, MolduraObra

LEMMA RecFinalizaObra ==
    ASSUME IInv, Obra, NEW p \in Processos, RecFinaliza(p)
    PROVE  Obra'
<1> DEFINE k == ses[p].chunk
           c == dono[k]
           a == Recalculado(c, item, chunk')
           V == [NaoVistas EXCEPT ![c] = a]
           A == ses[p].afetadas \cup {c}
           s == [ses[p] EXCEPT
                   !.pc = "rec", !.chunk = Nenhum, !.lista = @ \ {k},
                   !.afetadas = A, !.campVista = V]
<1>1. /\ ses[p] \in Sessao /\ Muda(p, s)
      /\ chunk' = [chunk EXCEPT ![k] = "stale"]
      /\ item' = item /\ lote' = lote /\ dono' = dono
  BY DEF RecFinaliza, IInv, TypeOK
<1>2. \A j \in Chunks : chunk'[j] = "success" => chunk[j] = "success"
  BY <1>1 DEF IInv, TypeOK
<1> HIDE DEF k, c, a, V, A
<1>3. s.pc = "rec"
  BY <1>1 DEF Sessao
<1> HIDE DEF s
<1> QED BY <1>1, <1>2, <1>3, MudaObra DEF PcChunk

(* No campaign has a running item and no active chunk.                     *)
LEMMA PresasVazias ==
    ASSUME IInv, NEW S
    PROVE  {i \in Itens : i[1] \in Presas(S) /\ item[i] = "running"} = {}
<1> SUFFICES ASSUME NEW i \in Itens, i[1] \in Presas(S), item[i] = "running"
             PROVE  FALSE
  OBVIOUS
<1>1. lote[i] \in Chunks /\ chunk[lote[i]] \in ChunkAtivo /\ dono[lote[i]] = i[1]
  BY DEF IInv, RunningSobChunkAtivo
<1>2. lote[i] \in AtivosDe(i[1])
  BY <1>1 DEF AtivosDe
<1> QED BY <1>2 DEF Presas

LEMMA RecPresasIguais ==
    ASSUME IInv, NEW p \in Processos, RecPresas(p)
    PROVE  item' = item /\ lote' = lote /\ chunk' = chunk /\ dono' = dono
<1>1. PICK R : R = {i \in Itens : i[1] \in Presas(ses[p].alcance) /\ item[i] = "running"}
  OBVIOUS
<1>2. R = {}
  BY <1>1, PresasVazias
<1>3. /\ item' = [i \in Itens |-> IF i \in R THEN "pending" ELSE item[i]]
      /\ lote' = [i \in Itens |-> IF i \in R THEN Nenhum ELSE lote[i]]
      /\ chunk' = chunk /\ dono' = dono
  BY <1>1 DEF RecPresas
<1> QED BY <1>2, <1>3 DEF IInv, TypeOK

LEMMA RecPresasObra ==
    ASSUME IInv, Obra, NEW p \in Processos, RecPresas(p)
    PROVE  Obra'
<1>1. PICK A, c : Muda(p, [SessaoVazia EXCEPT !.pc = "publicar", !.camp = c,
                               !.afetadas = A])
  BY DEF RecPresas
<1>2. [SessaoVazia EXCEPT !.pc = "publicar", !.camp = c, !.afetadas = A].pc
         = "publicar"
  BY DEF SessaoVazia
<1> QED BY <1>1, <1>2, RecPresasIguais, MudaObra DEF PcChunk

(* A claim puts pending items, which were in no chunk, in chunks that did  *)
(* not exist.                                                              *)
LEMMA ReservarObra ==
    ASSUME IInv, Obra, NEW w \in Workers, Reservar(w)
    PROVE  Obra'
<1>1. PICK c \in Campanhas, n \in Nat, novos \in SUBSET Chunks,
           meus \in SUBSET Itens : Reserva(w, c, n, novos, meus)
  BY ReservaForma
<1>2. w \in Processos /\ ses \in [Processos -> Sessao]
  BY DEF Processos, IInv, TypeOK
<1>3. ses'[w].pc = "enfileirar" /\ \A q \in Processos \ {w} : ses'[q] = ses[q]
  BY <1>1, <1>2 DEF Reserva, Muda, SessaoVazia
<1>4. \A i \in meus : i \in Itens /\ item[i] = "pending" /\ i[1] = c /\ lote[i] = Nenhum
  BY <1>1 DEF Reserva, Pendentes, ItensDe, Obra, EmSeuLote
<1>5. \A i \in Itens : IF i \in meus
                       THEN item'[i] = "running" /\ lote'[i] \in novos
                       ELSE item'[i] = item[i] /\ lote'[i] = lote[i]
  BY <1>1 DEF Reserva
<1>6. /\ \A k \in Chunks \ novos : chunk'[k] = chunk[k] /\ dono'[k] = dono[k]
      /\ \A k \in novos : chunk'[k] = "queued" /\ dono'[k] = c
  BY <1>1 DEF Reserva
<1>7. \A k \in novos : k \in Chunks /\ ~(k <= criados)
  BY <1>1 DEF Reserva, IInv, ChunksCriados
<1>8. \A k \in Chunks \ novos :
         Intocado(k) /\ (chunk'[k] = "success" => chunk[k] = "success")
  BY <1>4, <1>5, <1>6, ConstantesOk DEF Intocado, Chunks
<1>9. \A q \in Workers \ {w} : ses[q].pc \in PcChunk => ses[q].chunk \notin novos
  BY <1>7 DEF IInv, SessoesOk, SessaoOk, Processos
<1>10. \A k \in novos : SucessoInteiro(k)'
  BY <1>6 DEF SucessoInteiro
<1>11. \A k \in Chunks : k <= criados => dono'[k] = dono[k]
  BY <1>6, <1>7
<1>12. ASSUME NEW i \in Itens
       PROVE  EmSeuLote(i)'
  <2>1. CASE i \in meus
    <3>1. PICK k \in novos : k = lote'[i] /\ dono'[k] = c
      BY <1>5, <1>6, <2>1
    <3> QED BY <1>4, <1>5, <2>1, <3>1 DEF EmSeuLote
  <2>2. CASE i \notin meus
    <3>1. EmSeuLote(i) /\ item'[i] = item[i] /\ lote'[i] = lote[i]
      BY <1>5, <2>2 DEF Obra
    <3>2. lote[i] # Nenhum => lote[i] \in Chunks /\ lote[i] <= criados
      BY DEF IInv, TypeOK, ChunksCriados
    <3>3. PICK k : k = lote'[i]
      OBVIOUS
    <3>4. k # Nenhum => dono'[k] = dono[k]
      BY <1>11, <3>1, <3>2, <3>3
    <3> QED BY <3>1, <3>3, <3>4 DEF EmSeuLote
  <2> QED BY <2>1, <2>2
<1>13. Trabalha(w)'
  BY <1>3, SemObra DEF PcChunk
<1> QED BY <1>2, <1>3, <1>8, <1>9, <1>10, <1>11, <1>12, <1>13, MolduraObra

(* The items of a new campaign are in no chunk.                            *)
LEMMA CriarCampanhaObra ==
    ASSUME IInv, Historia, Obra, NEW c \in Campanhas, NEW S \in SUBSET Alvos,
           NEW d \in BOOLEAN, CriarCampanha(c, S, d)
    PROVE  Obra'
<1> Varredor \in Processos /\ Varredor \notin Workers
  BY ConstantesOk DEF Processos
<1>1. /\ camp[c] = "nenhuma" /\ UNCHANGED <<lote, chunk, dono, ses>>
      /\ \A i \in Itens : item'[i] = item[i] \/ i[1] = c
  BY DEF CriarCampanha
<1>2. \A i \in Itens : item'[i] = item[i] \/ lote[i] = Nenhum
  <2>1. "nenhum" \notin Trabalhado
    BY DEF Trabalhado, ItemAtivo, ItemFeito
  <2> QED BY <1>1, <2>1 DEF Historia
<1>3. PICK K \in SUBSET Chunks : K = {}
  OBVIOUS
<1>4. \A k \in Chunks \ K :
         Intocado(k) /\ (chunk'[k] = "success" => chunk[k] = "success")
  BY <1>1, <1>2, ConstantesOk DEF Intocado, Chunks
<1>5. \A q \in Workers \ {Varredor} : ses[q].pc \in PcChunk => ses[q].chunk \notin K
  BY <1>3
<1>6. \A k \in K : SucessoInteiro(k)'
  BY <1>3
<1>7. \A k \in Chunks : k <= criados => dono'[k] = dono[k]
  BY <1>1
<1>8. \A i \in Itens : EmSeuLote(i)'
  BY <1>1, <1>2, <1>7, MesmoLote
<1> QED BY <1>1, <1>4, <1>5, <1>6, <1>7, <1>8, MolduraObra

(* What is declared ended was open.                                        *)
LEMMA ReconciliaObra ==
    ASSUME IInv, Obra, NEW e \in execs, NEW r \in ItemFeito, Reconcilia(e, r)
    PROVE  Obra'
<1> Varredor \in Processos /\ Varredor \notin Workers
  BY ConstantesOk DEF Processos
<1>1. /\ UNCHANGED <<lote, chunk, dono, ses>>
      /\ \/ item' = item
         \/ item[e[1]] \in ItemAtivo /\ item' = [item EXCEPT ![e[1]] = r]
  BY DEF Reconcilia
<1>2. \A i \in Itens : \/ item'[i] = item[i]
                       \/ item[i] \notin ItemFeito /\ item'[i] \in ItemFeito
  BY <1>1 DEF IInv, TypeOK, ItemAtivo, ItemFeito
<1>3. PICK K \in SUBSET Chunks : K = {}
  OBVIOUS
<1>4. \A k \in Chunks \ K :
         Intocado(k) /\ (chunk'[k] = "success" => chunk[k] = "success")
  BY <1>1, <1>2 DEF Intocado
<1>5. \A q \in Workers \ {Varredor} : ses[q].pc \in PcChunk => ses[q].chunk \notin K
  BY <1>3
<1>6. \A k \in K : SucessoInteiro(k)'
  BY <1>3
<1>7. \A k \in Chunks : k <= criados => dono'[k] = dono[k]
  BY <1>1
<1>8. \A i \in Itens : EmSeuLote(i)'
  <2>1. "pending" \notin ItemFeito
    BY DEF ItemFeito
  <2> QED BY <1>1, <1>2, <1>7, <2>1, MesmoLote
<1> QED BY <1>1, <1>4, <1>5, <1>6, <1>7, <1>8, MolduraObra

LEMMA NextObra ==
    ASSUME IInv, Historia, Portadores, Obra, [Next]_vars, NinguemSeCruza'
    PROVE  Obra'
<1>1. ASSUME NEW w \in Workers, Prossegue(w)
      PROVE  Obra'
  <2>1. w \in Processos
    BY DEF Processos
  <2>2. CASE Recuperacao(w)
    BY <2>1, <2>2, RecReverteObra, RecFinalizaObra, RecPresasObra, FimDeTarefaObra
    DEF Recuperacao
  <2> QED BY <1>1, <2>1, <2>2, ReservarObra, FimDeTarefaObra, EnfileirarObra,
             IterarBarradoObra, IterarComecaObra, ItemSemCompanhiaObra,
             ConcluiObra, MaterializarObra DEF Prossegue
<1>2. CASE Recuperacao(Varredor)
  BY <1>2, RecReverteObra, RecFinalizaObra, RecPresasObra, FimDeTarefaObra
  DEF Recuperacao, Processos
<1>3. CASE \E w \in Workers, k \in Chunks : ChunkTask(w, k)
  BY <1>3, ChunkBarradoObra, ChunkIniciaObra, NadaIgnorado DEF ChunkTask
<1>4. CASE VarreStale \/ \E c \in Campanhas : VarrePendente(c) \/ Reativar(c) \/ Recuperar(c)
  BY <1>4, VarreObra DEF VarrePendente, Reativar
<1>5. CASE Ambiente
  <2>1. /\ ~\E w \in Workers : Reentrega(w)
        /\ ~\E k \in Chunks : LeaseAtrasa(k)
    BY SemCruzarAntes DEF IInv
  <2>2. CASE QuedaVarredor \/ \E w \in Workers : Queda(w)
    BY <2>2, FimDeTarefaObra DEF Processos
  <2> QED BY <1>5, <2>1, <2>2, SimplesObra DEF Ambiente
<1>6. CASE \E c \in Campanhas, S \in SUBSET Alvos, d \in BOOLEAN : CriarCampanha(c, S, d)
  BY <1>6, CriarCampanhaObra
<1>7. CASE \E e \in execs, r \in ItemFeito : Reconcilia(e, r)
  BY <1>7, ReconciliaObra
<1> QED
  BY <1>1, <1>2, <1>3, <1>4, <1>5, <1>6, <1>7, SimplesObra, CampanhaTaskObra DEF Next

-----------------------------------------------------------------------------
(* What is stored of the campaigns.                                        *)

(* A chunk is claimed for a campaign that has items, and items stay.       *)
ChunksComItens == \A k \in Chunks : k <= criados => ItensDe(dono[k]) # {}

LEMMA DonoFixo ==
    ASSUME [Next]_vars
    PROVE  \/ dono' = dono /\ criados' = criados
           \/ \E w \in Workers : Reservar(w)
<1>1. ASSUME NEW w \in Workers, Prossegue(w), ~Reservar(w)
      PROVE  UNCHANGED <<dono, criados>>
  BY <1>1 DEF Prossegue, Recuperacao, RecReverte, RecFinaliza, RecPresas, Publicar,
       ReservarNada, Enfileirar, IterarAborta, IterarBarrado,
       IterarComeca, ItemSemCompanhia, Finalizar, Cancelar, Conclui, Materializar,
       banco
<1>2. ASSUME NEW w \in Workers, NEW c \in Campanhas, CampanhaTask(w, c)
      PROVE  UNCHANGED <<dono, criados>>
  BY <1>2 DEF CampanhaTask, CampanhaEncerrada, CampanhaRecupera, CampanhaEspera,
     CampanhaSemVaga, CampanhaDecide
<1>3. ASSUME NEW w \in Workers, NEW k \in Chunks, ChunkTask(w, k)
      PROVE  UNCHANGED <<dono, criados>>
  BY <1>3 DEF ChunkTask, ChunkIgnorado, ChunkBarrado, ChunkInicia, banco
<1>4. ASSUME NEW c \in Campanhas, VarrePendente(c) \/ Reativar(c) \/ Recuperar(c)
      PROVE  UNCHANGED <<dono, criados>>
  BY <1>4 DEF VarrePendente, Reativar, Reativa, Recuperar, banco
<1>5. CASE Ambiente
  BY <1>5 DEF Ambiente, FechaGate, AbreGate, QuedaVarredor, Reentrega,
     LeaseVence, LeaseAtrasa, LeaseEnvelhece, Queda, banco
<1>6. CASE \/ Despachar \/ VarreStale \/ Recuperacao(Varredor) \/ UNCHANGED vars
           \/ \E c \in Campanhas, S \in SUBSET Alvos, d \in BOOLEAN : CriarCampanha(c, S, d)
           \/ \E e \in execs, r \in ItemFeito : Reconcilia(e, r)
  BY <1>6 DEF Despachar, VarreStale, Recuperacao, RecReverte, RecFinaliza,
     RecPresas, Publicar, CriarCampanha, Reconcilia, vars, banco
<1> QED BY <1>1, <1>2, <1>3, <1>4, <1>5, <1>6 DEF Next

(* That an item exists is what the pool of Lotes never takes back.         *)
LEMMA ItensFicam ==
    ASSUME PassoAbstrato, NEW i \in Itens, item[i] # "nenhum"
    PROVE  item'[i] # "nenhum"
<1>1. CASE Abstrata!NextLotes
  BY <1>1 DEF Abstrata!NextLotes, Abstrata!Oferece, Abstrata!Toma, Abstrata!Solta,
     Abstrata!Fecha, Abstrata!Livres
<1>2. CASE UNCHANGED Abstrata!varsLotes
  BY <1>2 DEF Abstrata!varsLotes
<1> QED BY <1>1, <1>2 DEF PassoAbstrato

LEMMA NextComItens ==
    ASSUME IInv, ChunksComItens, PassoAbstrato, [Next]_vars
    PROVE  ChunksComItens'
<1>1. \A c : ItensDe(c) # {} => ItensDe(c)' # {}
  BY ItensFicam DEF ItensDe
<1>2. CASE dono' = dono /\ criados' = criados
  BY <1>1, <1>2 DEF ChunksComItens
<1>3. ASSUME NEW w \in Workers, Reservar(w)
      PROVE  ChunksComItens'
  <2>1. PICK c \in Campanhas, n \in Nat, novos \in SUBSET Chunks,
             meus \in SUBSET Itens : Reserva(w, c, n, novos, meus)
    BY <1>3, ReservaForma
  <2>2. ItensDe(c) # {}
    BY <2>1 DEF Reserva, Pendentes
  <2>3. \A k \in Chunks : k <= criados' => k <= criados \/ k \in novos
    BY <2>1 DEF Reserva
  <2>4. \A k \in Chunks : dono'[k] = IF k \in novos THEN c ELSE dono[k]
    BY <2>1 DEF Reserva
  <2> SUFFICES ASSUME NEW k \in Chunks, k <= criados'
               PROVE  ItensDe(dono[k])' # {}
    BY DEF ChunksComItens
  <2>5. PICK d : d = dono'[k]
    OBVIOUS
  <2>6. ItensDe(d) # {}
    BY <2>2, <2>3, <2>4, <2>5 DEF ChunksComItens
  <2> QED BY <1>1, <2>5, <2>6
<1> QED BY <1>2, <1>3, DonoFixo

(* A recomputed status is terminal only when nothing of the campaign is    *)
(* open.                                                                   *)
LEMMA Corrente ==
    ASSUME NEW c, NEW k \in AtivosDe(c), NEW i \in ItensDe(c)
    PROVE  Recalculado(c, item, chunk) \notin CampTerminal
<1>1. \E j \in Chunks : dono[j] = c /\ chunk[j] \in ChunkAtivo
  BY DEF AtivosDe
<1>2. {j \in Itens : j[1] = c /\ item[j] # "nenhum"} # {}
  BY DEF ItensDe
<1>3. Recalculado(c, item, chunk) = "running"
  BY <1>1, <1>2 DEF Recalculado
<1> QED BY <1>3 DEF CampTerminal

LEMMA Aberta ==
    ASSUME IInv, NEW i \in Itens, item[i] \in ItemAtivo
    PROVE  Recalculado(i[1], item, chunk) \notin CampTerminal
<1>1. i \in ItensDe(i[1])
  BY DEF ItensDe, ItemAtivo
<1>2. CASE item[i] = "running"
  <2>1. lote[i] \in AtivosDe(i[1])
    BY <1>2 DEF IInv, RunningSobChunkAtivo, AtivosDe
  <2> QED BY <1>1, <2>1, Corrente
<1>3. CASE item[i] = "pending"
  <2>1. i \in {j \in Itens : j[1] = i[1] /\ item[j] # "nenhum"}
    BY <1>3
  <2>2. Recalculado(i[1], item, chunk) \in {"running", "pending"}
    BY <1>3, <2>1 DEF Recalculado
  <2> QED BY <2>2 DEF CampTerminal
<1> QED BY <1>2, <1>3 DEF ItemAtivo

(* A campaign stored with the status that its items and chunks have after  *)
(* the step has ended if it says so.                                       *)
LEMMA FimExato ==
    ASSUME IInv', ChunksComItens', dono' = dono, NEW c \in Campanhas,
           camp'[c] = Recalculado(c, item', chunk')
    PROVE  Encerrada(c)'
<1> SUFFICES ASSUME camp'[c] \in CampTerminal
             PROVE  AtivosDe(c)' = {} /\ Confere(c)'
  BY DEF Encerrada
<1> DEFINE meus == {i \in Itens : i[1] = c /\ item'[i] # "nenhum"}
           s == Recalculado(c, item', chunk')
<1>1. ItensDe(c)' = meus
  BY DEF ItensDe
<1>2. AtivosDe(c)' = {}
  <2> SUFFICES ASSUME NEW k \in AtivosDe(c)'
               PROVE  FALSE
    OBVIOUS
  <2>1. k \in Chunks /\ dono[k] = c /\ dono'[k] = c /\ chunk'[k] \in ChunkAtivo
    BY DEF AtivosDe
  <2>2. k <= criados'
    BY <2>1, AtivoAberto DEF IInv, ChunksCriados
  <2>3. meus # {}
    BY <1>1, <2>1, <2>2 DEF ChunksComItens
  <2>4. s = "running"
    BY <2>1, <2>3 DEF Recalculado
  <2> QED BY <2>4 DEF CampTerminal
<1>3. \A i \in meus : item'[i] # "running"
  <2> SUFFICES ASSUME NEW i \in meus, item'[i] = "running" PROVE FALSE
    OBVIOUS
  <2>1. /\ lote'[i] \in Chunks /\ chunk'[lote'[i]] \in ChunkAtivo
        /\ dono'[lote'[i]] = c
    BY DEF IInv, RunningSobChunkAtivo
  <2>2. lote'[i] \in AtivosDe(c)'
    BY <2>1 DEF AtivosDe
  <2> QED BY <1>2, <2>2
<1>4. ~\E k \in Chunks : dono[k] = c /\ chunk'[k] \in ChunkAtivo
  BY <1>2 DEF AtivosDe
<1>5. \A i \in meus : item'[i] # "pending"
  <2> SUFFICES ASSUME NEW i \in meus, item'[i] = "pending" PROVE FALSE
    OBVIOUS
  <2>1. s = "pending"
    BY <1>4 DEF Recalculado
  <2> QED BY <2>1 DEF CampTerminal
<1>6. item' \in [Itens -> ItemStatus]
  BY DEF IInv, TypeOK
<1>7. \A i \in meus : item'[i] \in {"success", "failed", "skipped"}
  BY <1>3, <1>5, <1>6 DEF ItemStatus, ItemAtivo, ItemFeito
<1>8. PICK F : F = {i \in meus : item'[i] = "failed"}
  OBVIOUS
<1>9. /\ s = "success" <=> F = {}
      /\ s = "failed" => F = meus
      /\ s = "partial" => F # meus
  <2>1. CASE F = {}
    <3>1. s = "success"
      BY <1>4, <1>5, <1>8, <2>1 DEF Recalculado
    <3> QED BY <2>1, <3>1
  <2>2. CASE F # {} /\ F = meus
    <3>1. ~\E i \in meus : item'[i] = "success" \/ item'[i] = "skipped"
      BY <1>8, <2>2
    <3>2. s = "failed"
      BY <1>4, <1>5, <1>8, <2>2, <3>1 DEF Recalculado
    <3> QED BY <2>2, <3>2
  <2>3. CASE F # {} /\ F # meus
    <3>1. PICK i \in meus : item'[i] \in {"success", "skipped"}
      BY <1>7, <1>8, <2>3
    <3>2. s = "partial"
      BY <1>4, <1>5, <1>8, <2>3, <3>1 DEF Recalculado
    <3> QED BY <2>3, <3>2
  <2> QED BY <2>1, <2>2, <2>3
<1>10. Confere(c)'
  <2>1. \A i \in meus : item'[i] \notin ItemAtivo
    BY <1>3, <1>5 DEF ItemAtivo
  <2> HIDE DEF meus, s
  <2> QED BY <1>1, <1>8, <1>9, <2>1 DEF Confere, s
<1> QED BY <1>2, <1>10

(* An active chunk, or an open item, is of a campaign that goes on.        *)
LEMMA EmAndamento ==
    ASSUME Contas, NEW k \in Chunks, chunk[k] \in ChunkAtivo, dono[k] \in Campanhas
    PROVE  camp[dono[k]] \notin CampTerminal
<1>1. k \in AtivosDe(dono[k])
  BY DEF AtivosDe
<1> QED BY <1>1 DEF Contas, Encerrada

LEMMA ItemAbertoEmAndamento ==
    ASSUME Contas, NEW i \in Itens, item[i] \in ItemAtivo
    PROVE  i[1] \in Campanhas /\ camp[i[1]] \notin CampTerminal
<1>1. i[1] \in Campanhas
  BY DEF Itens
<1>2. i \in ItensDe(i[1])
  BY DEF ItensDe, ItemAtivo
<1> QED BY <1>1, <1>2 DEF Contas, Encerrada, Confere

(* A step that claims no chunk, touches no item of a campaign that has     *)
(* ended, and stores as ended only what has.                               *)
LEMMA MolduraContas ==
    ASSUME IInv, IInv', ChunksComItens', Contas, dono' = dono,
           \A i \in Itens : camp[i[1]] \in CampTerminal => item'[i] = item[i],
           \A k \in Chunks : chunk'[k] \in ChunkAtivo => chunk[k] \in ChunkAtivo,
           \A k \in Chunks : chunk'[k] \in ChunkAtivo /\ lease'[k] = "valido"
                                => lease[k] = "valido",
           \A c \in Campanhas : camp'[c] \in CampTerminal =>
              camp'[c] = camp[c] \/ camp'[c] = Recalculado(c, item', chunk')
    PROVE  Contas'
<1> SUFFICES ASSUME NEW c \in Campanhas
             PROVE  Encerrada(c)' /\ CabeNoLimite(c)'
  BY DEF Contas
<1>1. AtivosDe(c)' \subseteq AtivosDe(c) /\ ComLease(c)' \subseteq ComLease(c)
  BY DEF AtivosDe, ComLease
<1>2. CabeNoLimite(c)'
  <2>1. IsFiniteSet(ComLease(c)) /\ Cardinality(ComLease(c)) \in Nat
    BY CampanhasFinitas
  <2>2. PICK S : S = ComLease(c)'
    OBVIOUS
  <2>3. Cardinality(S) <= Cardinality(ComLease(c)) /\ Cardinality(S) \in Nat
    BY <1>1, <2>1, <2>2, FS_Subset, FS_CardinalityType
  <2>4. Cardinality(ComLease(c)) <= MaxActiveChunks
    BY DEF Contas, CabeNoLimite
  <2>5. Cardinality(S) <= MaxActiveChunks
    BY <2>1, <2>3, <2>4, ConstantesOk
  <2> QED BY <2>2, <2>5 DEF CabeNoLimite
<1>3. CASE camp'[c] \notin CampTerminal
  BY <1>2, <1>3 DEF Encerrada
<1>4. CASE camp'[c] = Recalculado(c, item', chunk')
  BY <1>2, <1>4, FimExato
<1>5. CASE camp'[c] \in CampTerminal /\ camp'[c] = camp[c]
  <2>1. AtivosDe(c) = {} /\ Confere(c)
    BY <1>5 DEF Contas, Encerrada
  <2>2. \A i \in Itens : i[1] = c => item'[i] = item[i]
    BY <1>5
  <2>3. ItensDe(c)' = ItensDe(c)
    BY <2>2 DEF ItensDe
  <2>4. \A i \in ItensDe(c) : item'[i] = item[i]
    BY <2>2 DEF ItensDe
  <2>5. {i \in ItensDe(c) : item'[i] = "failed"} = {i \in ItensDe(c) : item[i] = "failed"}
    BY <2>4
  <2>6. Confere(c)'
    BY <1>5, <2>1, <2>3, <2>4, <2>5 DEF Confere
  <2> QED BY <1>1, <1>2, <2>1, <2>6 DEF Encerrada
<1> QED BY <1>3, <1>4, <1>5

(* What each step but a claim does with that: it gives no chunk more life, *)
(* leaves the items of ended campaigns, and stores no false ending.        *)
SoMenos == \A k \in Chunks : chunk'[k] \in ChunkAtivo =>
              chunk[k] \in ChunkAtivo /\ (lease'[k] = "valido" => lease[k] = "valido")
NaoMexe == \A i \in Itens : camp[i[1]] \in CampTerminal => item'[i] = item[i]
Finda(c) == camp'[c] \in CampTerminal =>
               camp'[c] = camp[c] \/ camp'[c] = Recalculado(c, item', chunk')
Prudente == SoMenos /\ NaoMexe /\ \A c \in Campanhas : Finda(c)

LEMMA PrudenteContas ==
    ASSUME IInv, IInv', ChunksComItens', Contas, dono' = dono, Prudente
    PROVE  Contas'
BY MolduraContas DEF Prudente, SoMenos, NaoMexe, Finda

(* A step that does not assign to the campaigns, or only to one.           *)
LEMMA NaoGrava ==
    ASSUME camp' = camp
    PROVE  \A c \in Campanhas : Finda(c)
BY DEF Finda

LEMMA AtribuiFinda ==
    ASSUME TypeOK, NEW c \in Campanhas, NEW s, camp' = [camp EXCEPT ![c] = s],
           s = camp[c] \/ s \notin CampTerminal \/ s = Recalculado(c, item', chunk')
    PROVE  \A d \in Campanhas : Finda(d)
BY DEF TypeOK, Finda

LEMMA GravaFinda ==
    ASSUME TypeOK, NEW p, NEW c \in Campanhas, NEW s, Grava(p, c, s),
           s \notin CampTerminal \/ s = Recalculado(c, item', chunk')
    PROVE  \A d \in Campanhas : Finda(d)
<1>1. PICK g : g = Gravado(p, c, s) /\ camp' = [camp EXCEPT ![c] = g]
  BY DEF Grava
<1>2. g = camp[c] \/ g = s
  BY <1>1 DEF Gravado
<1> QED BY <1>1, <1>2, AtribuiFinda

(* The same, where items and chunks do not change.                         *)
LEMMA ExataFinda ==
    ASSUME TypeOK, NEW c \in Campanhas, item' = item, chunk' = chunk,
           NEW s, s \notin CampTerminal \/ s = Recalculado(c, item, chunk),
           camp' = [camp EXCEPT ![c] = s] \/ \E p \in Processos : Grava(p, c, s)
    PROVE  \A d \in Campanhas : Finda(d)
<1>1. Recalculado(c, item', chunk') = Recalculado(c, item, chunk)
  OBVIOUS
<1> QED BY <1>1, AtribuiFinda, GravaFinda

(* Nothing of the chunks changes.                                          *)
LEMMA MesmosChunks ==
    ASSUME chunk' = chunk, lease' = lease
    PROVE  SoMenos
BY DEF SoMenos

LEMMA MesmosItens ==
    ASSUME item' = item
    PROVE  NaoMexe
BY DEF NaoMexe

(* The steps that only read, or pass messages.                             *)
LEMMA QuietaPrudente ==
    ASSUME camp' = camp, item' = item, chunk' = chunk, lease' = lease
    PROVE  Prudente
BY NaoGrava, MesmosChunks, MesmosItens DEF Prudente

LEMMA CampanhaTaskPrudente ==
    ASSUME TypeOK, NEW w \in Workers, NEW c \in Campanhas, CampanhaTask(w, c)
    PROVE  Prudente /\ dono' = dono
<1>1. UNCHANGED <<item, chunk, lease, dono>>
  BY DEF CampanhaTask, CampanhaEncerrada, CampanhaRecupera, CampanhaEspera,
     CampanhaSemVaga, CampanhaDecide
<1>2. PICK s : /\ camp' = [camp EXCEPT ![c] = s]
               /\ s = "pending" \/ s = Recalculado(c, item, chunk)
  BY DEF CampanhaTask, CampanhaEncerrada, CampanhaRecupera, CampanhaEspera,
     CampanhaSemVaga, CampanhaDecide
<1>3. "pending" \notin CampTerminal
  BY DEF CampTerminal
<1>4. \A d \in Campanhas : Finda(d)
  BY <1>1, <1>2, <1>3, ExataFinda
<1> QED BY <1>1, <1>4, MesmosChunks, MesmosItens DEF Prudente

LEMMA ReservarNadaPrudente ==
    ASSUME IInv, NEW w \in Workers, ReservarNada(w)
    PROVE  Prudente /\ dono' = dono
<1>1. /\ w \in Processos /\ ses[w].camp \in Campanhas
      /\ UNCHANGED <<item, chunk, lease, dono>>
  BY DEF ReservarNada, IInv, SessoesOk, SessaoOk, Processos
<1>2. PICK c, s : c \in Campanhas /\ s = Recalculado(c, item, chunk) /\ Grava(w, c, s)
  BY <1>1 DEF ReservarNada
<1>3. \A d \in Campanhas : Finda(d)
  BY <1>1, <1>2, ExataFinda DEF IInv
<1> QED BY <1>1, <1>3, MesmosChunks, MesmosItens DEF Prudente

LEMMA ReativaPrudente ==
    ASSUME TypeOK, NEW c \in Campanhas, Reativa(c)
    PROVE  Prudente /\ dono' = dono
<1>1. UNCHANGED <<item, chunk, lease, dono>>
  BY DEF Reativa
<1>2. PICK s : s = Recalculado(c, item, chunk) /\ camp' = [camp EXCEPT ![c] = s]
  BY DEF Reativa
<1>3. \A d \in Campanhas : Finda(d)
  BY <1>1, <1>2, ExataFinda
<1> QED BY <1>1, <1>3, MesmosChunks, MesmosItens DEF Prudente

(* The campaigns that the recovery found stuck are stored as they are.     *)
LEMMA RecPresasPrudente ==
    ASSUME IInv, NEW p \in Processos, RecPresas(p)
    PROVE  Prudente /\ dono' = dono
<1>1. item' = item /\ chunk' = chunk /\ dono' = dono /\ lease' = lease
  BY RecPresasIguais DEF RecPresas
<1>2. PICK S : camp' = [c \in Campanhas |->
                   IF c \in S THEN Gravado(p, c, Recalculado(c, item', chunk))
                              ELSE camp[c]]
  BY DEF RecPresas
<1>3. ASSUME NEW c \in Campanhas
      PROVE  Finda(c)
  <2>1. PICK s : s = Recalculado(c, item', chunk) /\ s = Recalculado(c, item', chunk')
    BY <1>1
  <2>2. camp'[c] = camp[c] \/ camp'[c] = Gravado(p, c, s)
    BY <1>2, <2>1
  <2>3. Gravado(p, c, s) = camp[c] \/ Gravado(p, c, s) = s
    BY DEF Gravado
  <2> QED BY <2>1, <2>2, <2>3 DEF Finda
<1> QED BY <1>1, <1>3, MesmosChunks, MesmosItens DEF Prudente

(* A new campaign takes no item of another.                                *)
LEMMA CriarCampanhaPrudente ==
    ASSUME TypeOK, NEW c \in Campanhas, NEW S \in SUBSET Alvos, NEW d \in BOOLEAN,
           CriarCampanha(c, S, d)
    PROVE  Prudente /\ dono' = dono
<1>1. /\ camp[c] = "nenhuma" /\ UNCHANGED <<chunk, lease, dono>>
      /\ camp' = [camp EXCEPT ![c] = Recalculado(c, item', chunk)]
  BY DEF CriarCampanha
<1>2. \A i \in Itens : i[1] # c => item'[i] = item[i]
  BY DEF CriarCampanha
<1>3. NaoMexe
  BY <1>1, <1>2 DEF NaoMexe, CampTerminal
<1>4. PICK s : s = Recalculado(c, item', chunk) /\ s = Recalculado(c, item', chunk')
  BY <1>1
<1>5. \A e \in Campanhas : Finda(e)
  BY <1>1, <1>4, AtribuiFinda
<1> QED BY <1>1, <1>3, <1>5, MesmosChunks DEF Prudente

(* The items of an active chunk are of a campaign that goes on.            *)
LEMMA DoChunk ==
    ASSUME IInv, Historia, Obra, Contas, NEW k \in Chunks, chunk[k] \in ChunkAtivo,
           NEW i \in ItensDoChunk(k)
    PROVE  /\ i \in Itens /\ i[1] = dono[k] /\ dono[k] \in Campanhas
           /\ camp[dono[k]] \notin CampTerminal
           /\ Recalculado(dono[k], item, chunk) \notin CampTerminal
<1>1. i \in Itens /\ lote[i] = k /\ lote[i] # Nenhum
  BY ConstantesOk DEF ItensDoChunk, Chunks
<1>2. i[1] = dono[k] /\ dono[k] \in Campanhas
  BY <1>1 DEF Obra, EmSeuLote, Itens
<1>3. item[i] # "nenhum"
  BY <1>1 DEF Historia, Trabalhado, ItemAtivo, ItemFeito
<1>4. i \in ItensDe(dono[k])
  BY <1>1, <1>2, <1>3 DEF ItensDe
<1>5. k \in AtivosDe(dono[k])
  BY DEF AtivosDe
<1> QED BY <1>1, <1>2, <1>4, <1>5, Corrente, EmAndamento

(* Items of an active chunk that are returned to the queue.                *)
LEMMA DevolvePrudente ==
    ASSUME IInv, Historia, Obra, Contas, NEW p \in Processos, NEW k \in Chunks,
           NEW R, R \subseteq ItensDoChunk(k), R # {} => chunk[k] \in ChunkAtivo,
           Devolve(p, dono[k], R), SoMenos
    PROVE  Prudente
<1>1. item' = [i \in Itens |-> IF i \in R THEN "pending" ELSE item[i]]
  BY DEF Devolve
<1>2. CASE R = {}
  <2>1. camp' = camp /\ \A i \in Itens : item'[i] = item[i]
    BY <1>1, <1>2 DEF Devolve
  <2> QED BY <2>1, NaoGrava DEF Prudente, NaoMexe
<1>3. CASE R # {}
  <2>1. PICK c, s : /\ c \in Campanhas /\ c = dono[k]
                    /\ s = Recalculado(c, item, chunk)
                    /\ camp[c] \notin CampTerminal
                    /\ s \notin CampTerminal
    BY <1>3, DoChunk
  <2>2. Grava(p, c, s)
    BY <1>3, <2>1 DEF Devolve
  <2>3. \A d \in Campanhas : Finda(d)
    BY <2>1, <2>2, GravaFinda DEF IInv
  <2>4. \A i \in R : i[1] = c
    BY <1>3, <2>1, DoChunk
  <2>5. NaoMexe
    BY <1>1, <2>1, <2>4 DEF NaoMexe
  <2> QED BY <2>3, <2>5 DEF Prudente
<1> QED BY <1>2, <1>3

(* A worker renews a lease that has not run out.                           *)
LEMMA RenovaSemVida ==
    ASSUME IInv, Portadores, NEW w \in Workers, ses[w].pc \in PcChunk,
           chunk' = chunk,
           lease' = lease \/ lease' = [lease EXCEPT ![ses[w].chunk] = "valido"]
    PROVE  SoMenos
<1>1. PICK k \in Chunks : k = ses[w].chunk
  BY ChunkProprio
<1>2. Leva(w, k)
  BY <1>1 DEF Leva
<1>3. lease[k] = "valido"
  BY <1>2 DEF Portadores, UmPortador
<1> QED BY <1>1, <1>3 DEF SoMenos, IInv, TypeOK

LEMMA ChunkIniciaPrudente ==
    ASSUME IInv, Portadores, NEW w \in Workers, NEW k \in Chunks, ChunkInicia(w, k)
    PROVE  Prudente /\ dono' = dono
<1>1. /\ msgChunk[k] > 0 /\ chunk[k] \in ChunkAtivo
      /\ chunk' = [chunk EXCEPT ![k] = "running"]
      /\ lease' = [lease EXCEPT ![k] = "valido"]
      /\ UNCHANGED <<camp, item, dono>>
  BY DEF ChunkInicia, RecebeChunk
<1>2. lease[k] = "valido"
  BY <1>1 DEF Portadores, UmPortador
<1>3. SoMenos
  BY <1>1, <1>2 DEF SoMenos, IInv, TypeOK
<1> QED BY <1>1, <1>3, NaoGrava, MesmosItens DEF Prudente

LEMMA ChunkBarradoPrudente ==
    ASSUME IInv, Historia, Obra, Contas, NEW w \in Workers, NEW k \in Chunks,
           ChunkBarrado(w, k)
    PROVE  Prudente /\ dono' = dono
<1>1. /\ w \in Processos /\ chunk[k] \in ChunkAtivo
      /\ Devolve(w, dono[k], ItensDoChunk(k)) /\ UNCHANGED <<chunk, lease, dono>>
  BY DEF ChunkBarrado, Processos
<1> QED BY <1>1, MesmosChunks, DevolvePrudente

LEMMA IterarBarradoPrudente ==
    ASSUME IInv, Historia, Portadores, Obra, Contas, NEW w \in Workers, IterarBarrado(w)
    PROVE  Prudente /\ dono' = dono
<1>1. /\ w \in Processos /\ ses[w].pc = "iterar" /\ ses[w].pc \in PcChunk
      /\ lease' = [lease EXCEPT ![ses[w].chunk] = "valido"]
      /\ Devolve(w, ses[w].camp, ses[w].resto) /\ UNCHANGED <<chunk, dono>>
  BY DEF IterarBarrado, IterarContinua, Processos, PcChunk
<1>2. SoMenos
  BY <1>1, RenovaSemVida
<1>3. PICK k \in Chunks : k = ses[w].chunk /\ chunk[k] \in ChunkAtivo
  BY <1>1, ChunkProprio
<1>4. ses[w].camp = dono[k] /\ ses[w].resto \subseteq ItensDoChunk(k)
  BY <1>1, <1>3 DEF Obra, Trabalha
<1>5. Devolve(w, dono[k], ses[w].resto)
  BY <1>1, <1>4
<1> QED BY <1>1, <1>2, <1>3, <1>4, <1>5, DevolvePrudente

LEMMA RecRevertePrudente ==
    ASSUME IInv, Historia, Obra, Contas, NEW p \in Processos, RecReverte(p)
    PROVE  Prudente /\ dono' = dono
<1>1. PICK k \in ses[p].lista :
         /\ Devolve(p, dono[k], {i \in ItensDoChunk(k) : item[i] = "running"})
         /\ UNCHANGED <<chunk, lease, dono>>
  BY DEF RecReverte
<1>2. PICK R : R = {i \in ItensDoChunk(k) : item[i] = "running"}
  OBVIOUS
<1>3. k \in Chunks
  BY DEF IInv, TypeOK, Sessao
<1>4. R # {} => chunk[k] \in ChunkAtivo
  BY <1>2 DEF IInv, RunningSobChunkAtivo, ItensDoChunk
<1> QED BY <1>1, <1>2, <1>3, <1>4, MesmosChunks, DevolvePrudente

(* The result of an item of the chunk a worker has.                        *)
LEMMA RegistraPrudente ==
    ASSUME IInv, Historia, Portadores, Obra, Contas, NEW w \in Workers,
           ses[w].pc \in {"iterar", "materializar"}, ses[w].resto # {},
           NEW r, NEW visto, Registra(w, r, visto), SoMenos
    PROVE  Prudente
<1>1. w \in Processos /\ ses[w] \in Sessao /\ ses[w].pc \in PcChunk
  BY DEF Processos, IInv, TypeOK, PcChunk
<1>2. PICK k \in Chunks : k = ses[w].chunk /\ chunk[k] \in ChunkAtivo
  BY <1>1, ChunkProprio
<1>3. ses[w].camp = dono[k] /\ ses[w].resto \subseteq ItensDoChunk(k)
  BY <1>1, <1>2 DEF Obra, Trabalha
<1>4. PICK i \in ItensDoChunk(k) : i = Proximo(ses[w].resto)
  BY <1>1, <1>3, ProximoPertence DEF Sessao
<1>5. PICK c, s : /\ c \in Campanhas /\ c = dono[k] /\ i[1] = c
                  /\ s = Recalculado(c, item, chunk)
                  /\ camp[c] \notin CampTerminal
                  /\ s \notin CampTerminal
  BY <1>2, DoChunk
<1>6. Grava(w, c, s) /\ \A j \in Itens : j # i => item'[j] = item[j]
  BY <1>3, <1>4, <1>5 DEF Registra, IInv, TypeOK
<1>7. \A d \in Campanhas : Finda(d)
  BY <1>5, <1>6, GravaFinda DEF IInv
<1>8. NaoMexe
  BY <1>5, <1>6 DEF NaoMexe
<1> QED BY <1>7, <1>8 DEF Prudente

LEMMA MaterializarPrudente ==
    ASSUME IInv, Historia, Portadores, Obra, Contas, NEW w \in Workers,
           NEW r, Materializar(w, r)
    PROVE  Prudente /\ dono' = dono
<1>1. /\ ses[w].pc = "materializar" /\ ses[w].pc \in PcChunk
      /\ Registra(w, r, ses[w].itemVisto)
      /\ lease' = [lease EXCEPT ![ses[w].chunk] = "valido"]
      /\ UNCHANGED <<chunk, dono>>
  BY DEF Materializar, PcChunk
<1>2. ses[w].resto # {}
  BY <1>1 DEF IInv, SessoesOk, SessaoOk, Processos
<1> QED BY <1>1, <1>2, RenovaSemVida, RegistraPrudente

LEMMA ItemSemCompanhiaPrudente ==
    ASSUME IInv, Historia, Portadores, Obra, Contas, NEW w \in Workers,
           ItemSemCompanhia(w)
    PROVE  Prudente /\ dono' = dono
<1>1. PICK v : v = item[Proximo(ses[w].resto)]
  OBVIOUS
<1>2. /\ ses[w].pc = "iterar" /\ ses[w].pc \in PcChunk /\ ses[w].resto # {}
      /\ Registra(w, "failed", v)
      /\ lease' = [lease EXCEPT ![ses[w].chunk] = "valido"]
      /\ UNCHANGED <<chunk, dono>>
  BY <1>1 DEF ItemSemCompanhia, IterarContinua, PcChunk
<1> QED BY <1>2, RenovaSemVida, RegistraPrudente

LEMMA IterarComecaPrudente ==
    ASSUME IInv, Portadores, NEW w \in Workers, IterarComeca(w)
    PROVE  Prudente /\ dono' = dono
<1>1. /\ ses[w].pc \in PcChunk
      /\ lease' = [lease EXCEPT ![ses[w].chunk] = "valido"]
      /\ UNCHANGED <<camp, item, chunk, dono>>
  BY DEF IterarComeca, IterarContinua, PcChunk
<1> QED BY <1>1, RenovaSemVida, NaoGrava, MesmosItens DEF Prudente

(* A chunk that is closed has no lease.                                    *)
LEMMA ConcluiPrudente ==
    ASSUME IInv, NEW w \in Workers, Finalizar(w) \/ Cancelar(w)
    PROVE  Prudente /\ dono' = dono
<1>1. PICK st \in {"success", "failed", "cancelled"} : Conclui(w, st)
  BY DEF Finalizar, Cancelar
<1>2. PICK k : k = ses[w].chunk
  OBVIOUS
<1>3. /\ \/ chunk' = [chunk EXCEPT ![k] = st] \/ chunk' = [chunk EXCEPT ![k] = @]
      /\ lease' = [lease EXCEPT ![k] = "vencido"]
      /\ UNCHANGED <<camp, item, dono>>
  BY <1>1, <1>2 DEF Conclui
<1>4. st \notin ChunkAtivo
  BY DEF ChunkAtivo
<1>5. SoMenos
  BY <1>3, <1>4 DEF SoMenos, IInv, TypeOK
<1> QED BY <1>3, <1>5, NaoGrava, MesmosItens DEF Prudente

LEMMA RecFinalizaPrudente ==
    ASSUME IInv, NEW p \in Processos, RecFinaliza(p)
    PROVE  Prudente /\ dono' = dono
<1>1. PICK k \in Chunks : k = ses[p].chunk /\ dono[k] \in Campanhas
  BY DEF RecFinaliza, IInv, SessoesOk, SessaoOk, ChunksCriados
<1>2. PICK c, s : /\ c \in Campanhas /\ c = dono[k]
                  /\ s = Recalculado(c, item, chunk')
  BY <1>1
<1>3. /\ chunk' = [chunk EXCEPT ![k] = "stale"]
      /\ lease' = [lease EXCEPT ![k] = "vencido"]
      /\ Grava(p, c, s) /\ item' = item /\ dono' = dono
  BY <1>1, <1>2 DEF RecFinaliza
<1>4. s = Recalculado(c, item', chunk')
  BY <1>2, <1>3
<1>5. \A d \in Campanhas : Finda(d)
  BY <1>2, <1>3, <1>4, GravaFinda DEF IInv
<1>6. SoMenos
  BY <1>3 DEF SoMenos, IInv, TypeOK, ChunkAtivo
<1> QED BY <1>3, <1>5, <1>6, MesmosItens DEF Prudente

(* A reconciled item was open, and so was its campaign.                    *)
LEMMA ReconciliaPrudente ==
    ASSUME IInv, Contas, NEW e \in execs, NEW r, Reconcilia(e, r)
    PROVE  Prudente /\ dono' = dono
<1>1. PICK i \in Itens : i = e[1]
  BY DEF IInv, TypeOK
<1>2. UNCHANGED <<chunk, lease, dono>>
  BY DEF Reconcilia
<1>3. CASE item[i] \in ItemAtivo
  <2>1. PICK c, s : /\ c \in Campanhas /\ c = i[1] /\ camp[c] \notin CampTerminal
                    /\ s = Recalculado(c, item, chunk)
                    /\ s \notin CampTerminal
    BY <1>3, Aberta, ItemAbertoEmAndamento
  <2>2. item' = [item EXCEPT ![i] = r] /\ camp' = [camp EXCEPT ![c] = s]
    BY <1>1, <1>3, <2>1 DEF Reconcilia
  <2>3. \A d \in Campanhas : Finda(d)
    BY <2>1, <2>2, AtribuiFinda DEF IInv
  <2>4. NaoMexe
    BY <2>1, <2>2 DEF NaoMexe, IInv, TypeOK
  <2> QED BY <1>2, <2>3, <2>4, MesmosChunks DEF Prudente
<1>4. CASE item[i] \notin ItemAtivo
  BY <1>1, <1>2, <1>4, QuietaPrudente DEF Reconcilia
<1> QED BY <1>3, <1>4

(* Time only takes from a lease.                                           *)
LEMMA LeaseVencePrudente ==
    ASSUME IInv, NEW k \in Chunks, LeaseVence(k)
    PROVE  Prudente /\ dono' = dono
<1>1. PICK l \in {"vencido", "stale"} : /\ lease' = [lease EXCEPT ![k] = l]
                                        /\ UNCHANGED <<camp, item, chunk, dono>>
  BY DEF LeaseVence, LeaseEnvelhece
<1>2. SoMenos
  BY <1>1 DEF SoMenos, IInv, TypeOK
<1> QED BY <1>1, <1>2, NaoGrava, MesmosItens DEF Prudente

(* A claim counts the chunks again: with its n new ones the campaign has   *)
(* no more than the limit.  It has pending items, so it had not ended.     *)
LEMMA ReservarContas ==
    ASSUME IInv, Obra, Contas, NEW w \in Workers, Reservar(w)
    PROVE  Contas'
<1>1. PICK c \in Campanhas, n \in Nat, novos \in SUBSET Chunks,
           meus \in SUBSET Itens : Reserva(w, c, n, novos, meus)
  BY ReservaForma
<1>2. /\ \A k \in Chunks : k \notin novos => /\ chunk'[k] = chunk[k]
                                             /\ dono'[k] = dono[k]
                                             /\ lease'[k] = lease[k]
      /\ \A k \in novos : dono'[k] = c
  BY <1>1 DEF Reserva
<1>3. camp[c] \notin CampTerminal
  <2>1. PICK i \in Itens : i[1] = c /\ item[i] = "pending"
    BY <1>1 DEF Reserva, Pendentes, ItensDe
  <2> QED BY <2>1, ItemAbertoEmAndamento DEF ItemAtivo
<1>4. /\ camp'[c] \notin CampTerminal
      /\ \A d \in Campanhas : d # c => camp'[d] = camp[d]
  <2>1. Grava(w, c, "running")
    BY <1>1 DEF Reserva
  <2>2. camp'[c] \in {camp[c], "running"} /\ \A d \in Campanhas : d # c => camp'[d] = camp[d]
    BY <2>1 DEF Grava, Gravado, IInv, TypeOK
  <2> QED BY <1>3, <2>2 DEF CampTerminal
<1>5. ASSUME NEW d \in Campanhas, d # c
      PROVE  /\ Encerrada(d)'
             /\ CabeNoLimite(d)'
  <2>1. \A i \in Itens : i[1] = d => item'[i] = item[i]
    BY <1>1, <1>5 DEF Reserva, Pendentes, ItensDe
  <2>2. AtivosDe(d)' = AtivosDe(d) /\ ComLease(d)' = ComLease(d)
    <3>1. \A k \in novos : (dono'[k] # d /\ dono[k] # d) \/ chunk[k] = "nenhum"
      BY <1>1 DEF Reserva
    <3>2. \A k \in novos : dono'[k] # d /\ chunk[k] \notin ChunkAtivo
      BY <1>1, <1>2, <1>5 DEF Reserva, ChunkAtivo
    <3>3. \A k \in Chunks : k \in AtivosDe(d)' <=> k \in AtivosDe(d)
      BY <1>2, <3>2 DEF AtivosDe
    <3>4. \A k \in Chunks : k \in AtivosDe(d) => lease'[k] = lease[k]
      BY <1>2, <3>2 DEF AtivosDe
    <3> QED BY <3>3, <3>4 DEF AtivosDe, ComLease
  <2>3. ItensDe(d)' = ItensDe(d) /\ \A i \in ItensDe(d) : item'[i] = item[i]
    BY <2>1 DEF ItensDe
  <2>4. {i \in ItensDe(d) : item'[i] = "failed"} = {i \in ItensDe(d) : item[i] = "failed"}
    BY <2>3
  <2>5. Confere(d) => Confere(d)'
    BY <1>4, <1>5, <2>3, <2>4 DEF Confere
  <2> QED BY <1>4, <1>5, <2>2, <2>5 DEF Contas, Encerrada, CabeNoLimite
<1>6. CabeNoLimite(c)'
  <2>1. PICK S, T : S = ComLease(c) /\ T = ComLease(c)'
    OBVIOUS
  <2>2. T \subseteq S \cup novos
    BY <1>2, <2>1 DEF ComLease, AtivosDe
  <2>3. IsFiniteSet(S) /\ IsFiniteSet(novos) /\ Cardinality(novos) = n
    BY <1>1, <2>1, CampanhasFinitas DEF Reserva
  <2>4. IsFiniteSet(S \cup novos)
    BY <2>3, FS_Union
  <2>5. Cardinality(S \cup novos) = Cardinality(S) + n - Cardinality(S \cap novos)
    BY <2>3, FS_Union
  <2>6. Cardinality(S \cap novos) \in Nat /\ Cardinality(S) \in Nat
    BY <2>3, FS_Subset, FS_CardinalityType
  <2>7. Cardinality(T) <= Cardinality(S \cup novos) /\ Cardinality(T) \in Nat
    BY <2>2, <2>4, FS_Subset, FS_CardinalityType
  <2>8. Cardinality(S) + n <= MaxActiveChunks
    <3>1. PICK slots \in Int : slots = ses[w].slots
      BY DEF IInv, TypeOK, Sessao, Processos
    <3>2. n <= slots - Cardinality(S)
      BY <1>1, <2>1, <3>1 DEF Reserva, Vagas
    <3>3. slots <= MaxActiveChunks
      BY <1>1, <3>1 DEF Reserva, Obra, Trabalha
    <3> QED BY <2>6, <3>2, <3>3, ConstantesOk
  <2>9. Cardinality(T) <= MaxActiveChunks
    BY <2>5, <2>6, <2>7, <2>8, ConstantesOk
  <2> QED BY <2>1, <2>9 DEF CabeNoLimite
<1>7. Encerrada(c)'
  BY <1>4 DEF Encerrada
<1> QED BY <1>5, <1>6, <1>7 DEF Contas

LEMMA NextContas ==
    ASSUME IInv, IInv', Historia, ChunksComItens', Portadores, Obra, Contas,
           [Next]_vars, NinguemSeCruza'
    PROVE  Contas'
<1>1. ASSUME NEW w \in Workers, Prossegue(w), ~Reservar(w)
      PROVE  Prudente /\ dono' = dono
  <2>1. w \in Processos
    BY DEF Processos
  <2>2. CASE Enfileirar(w) \/ IterarAborta(w) \/ Publicar(w)
    BY <2>2, QuietaPrudente DEF Enfileirar, IterarAborta, Publicar, banco
  <2>3. CASE Recuperacao(w)
    BY <2>1, <2>2, <2>3, RecRevertePrudente, RecFinalizaPrudente, RecPresasPrudente
    DEF Recuperacao
  <2> QED BY <1>1, <2>2, <2>3, ReservarNadaPrudente, IterarBarradoPrudente,
             IterarComecaPrudente, ItemSemCompanhiaPrudente, ConcluiPrudente,
             MaterializarPrudente DEF Prossegue
<1>2. CASE Recuperacao(Varredor)
  <2>1. CASE Publicar(Varredor)
    <3>1. UNCHANGED <<camp, item, chunk, lease, dono>>
      BY <2>1 DEF Publicar, banco
    <3> QED BY <3>1, QuietaPrudente, PrudenteContas
  <2> QED BY <1>2, <2>1, RecRevertePrudente, RecFinalizaPrudente, RecPresasPrudente,
             PrudenteContas DEF Recuperacao, Processos
<1>3. CASE \E w \in Workers, k \in Chunks : ChunkTask(w, k)
  BY <1>3, ChunkBarradoPrudente, ChunkIniciaPrudente, NadaIgnorado, PrudenteContas
  DEF ChunkTask
<1>4. CASE VarreStale \/ \E c \in Campanhas : VarrePendente(c) \/ Reativar(c) \/ Recuperar(c)
  <2>1. CASE VarreStale \/ \E c \in Campanhas : Recuperar(c)
    <3>1. UNCHANGED <<camp, item, chunk, lease, dono>>
      BY <2>1 DEF VarreStale, Recuperar, banco
    <3> QED BY <3>1, QuietaPrudente, PrudenteContas
  <2>2. ASSUME NEW c \in Campanhas, Reativa(c)
        PROVE  Contas'
    BY <2>2, ReativaPrudente, PrudenteContas DEF IInv
  <2> QED BY <1>4, <2>1, <2>2 DEF VarrePendente, Reativar
<1>5. CASE Ambiente
  <2>1. /\ ~\E w \in Workers : Reentrega(w)
        /\ ~\E k \in Chunks : LeaseAtrasa(k)
    BY SemCruzarAntes DEF IInv
  <2>2. CASE FechaGate \/ AbreGate \/ QuedaVarredor \/ \E w \in Workers : Queda(w)
    <3>1. UNCHANGED <<camp, item, chunk, lease, dono>>
      BY <2>2 DEF FechaGate, AbreGate, QuedaVarredor, Queda, banco
    <3> QED BY <3>1, QuietaPrudente, PrudenteContas
  <2>3. CASE \E k \in Chunks : LeaseVence(k)
    BY <2>3, LeaseVencePrudente, PrudenteContas
  <2> QED BY <1>5, <2>1, <2>2, <2>3 DEF Ambiente
<1>6. CASE \E c \in Campanhas, S \in SUBSET Alvos, d \in BOOLEAN : CriarCampanha(c, S, d)
  BY <1>6, CriarCampanhaPrudente, PrudenteContas DEF IInv
<1>7. CASE \E e \in execs, r \in ItemFeito : Reconcilia(e, r)
  BY <1>7, ReconciliaPrudente, PrudenteContas
<1>8. CASE Despachar \/ UNCHANGED vars
  <2>1. UNCHANGED <<camp, item, chunk, lease, dono>>
    BY <1>8 DEF Despachar, vars, banco
  <2> QED BY <2>1, QuietaPrudente, PrudenteContas
<1>9. CASE \E w \in Workers, c \in Campanhas : CampanhaTask(w, c)
  BY <1>9, CampanhaTaskPrudente, PrudenteContas DEF IInv
<1>10. CASE \E w \in Workers : Prossegue(w)
  BY <1>1, <1>10, ReservarContas, PrudenteContas
<1> QED
  BY <1>2, <1>3, <1>4, <1>5, <1>6, <1>7, <1>8, <1>9, <1>10 DEF Next

-----------------------------------------------------------------------------
(* The invariant.                                                          *)

InvOrdem == IInv /\ Historia /\ ChunksComItens /\ OrdemSemCruzar

(* At the start there is nothing to bear, to do or to count.               *)
LEMMA InitOrdem == Init => InvOrdem
<1> SUFFICES ASSUME Init PROVE InvOrdem
  OBVIOUS
<1>1. IInv /\ Historia
  BY InitIInv, InitAbstrato
<1>2. ChunksComItens
  BY ConstantesOk DEF Init, ChunksComItens, Chunks
<1>3. /\ \A p \in Processos : ses[p].pc = "livre" /\ ses[p].lista = {}
      /\ \A k \in Chunks : msgChunk[k] = 0 /\ chunk[k] = "nenhum"
      /\ \A i \in Itens : item[i] = "nenhum" /\ lote[i] = Nenhum
      /\ \A c \in Campanhas : camp[c] = "nenhuma"
  BY DEF Init, SessaoVazia
<1>4. \A w \in Workers : ses[w].pc = "livre"
  BY <1>3 DEF Processos
<1>5. Portadores
  BY <1>3, <1>4 DEF Portadores, UmPortador, Recolhe, Leva, PcChunk
<1>6. Obra
  BY <1>3, <1>4 DEF Obra, Trabalha, EmSeuLote, SucessoInteiro, PcChunk
<1>7. Contas
  <2> SUFFICES ASSUME NEW c \in Campanhas PROVE Encerrada(c) /\ CabeNoLimite(c)
    BY DEF Contas
  <2>1. ComLease(c) = {}
    BY <1>3 DEF ComLease, AtivosDe, ChunkAtivo
  <2>2. PICK S : S = ComLease(c)
    OBVIOUS
  <2>3. Cardinality(S) = 0
    BY <2>1, <2>2, FS_EmptySet
  <2>4. CabeNoLimite(c)
    BY <2>2, <2>3, ConstantesOk DEF CabeNoLimite
  <2> QED BY <1>3, <2>4 DEF Encerrada, CampTerminal
<1> QED BY <1>1, <1>2, <1>5, <1>6, <1>7, OrdemEmPartes DEF InvOrdem, OrdemSemCruzar

LEMMA NextOrdem == InvOrdem /\ [Next]_vars => InvOrdem'
<1> SUFFICES ASSUME InvOrdem, [Next]_vars PROVE InvOrdem'
  OBVIOUS
<1>1. IInv /\ Historia /\ ChunksComItens
  BY DEF InvOrdem
<1>2. IInv' /\ Historia' /\ PassoAbstrato
  BY <1>1, NextIInv, NextAbstrato
<1>3. ChunksComItens'
  BY <1>1, <1>2, NextComItens
<1>4. ASSUME NinguemSeCruza'
      PROVE  Ordem'
  <2>1. NinguemSeCruza
    BY <1>1, <1>4, SemCruzarAntes DEF IInv
  <2>2. Portadores /\ Obra /\ Contas
    BY <2>1, OrdemEmPartes DEF InvOrdem, OrdemSemCruzar
  <2>3. Portadores'
    BY <1>1, <1>4, <2>2, NextPortadores
  <2>4. Obra'
    BY <1>1, <1>4, <2>2, NextObra
  <2>5. Contas'
    BY <1>1, <1>2, <1>3, <1>4, <2>2, NextContas
  <2> QED BY <2>3, <2>4, <2>5 DEF Ordem, Portadores, Obra, Contas
<1> QED BY <1>2, <1>3, <1>4 DEF InvOrdem, OrdemSemCruzar

(* Crashes alone never disturb the order of the queue: unless a message    *)
(* came twice or a chunk somebody works at was recovered, a chunk has one  *)
(* bearer at most, what is recovered has none, a worker holds items of its *)
(* own chunk only, and chunks and campaigns are stored as ended with what  *)
(* their items say.                                                        *)
THEOREM OrdemMantida == Spec => []OrdemSemCruzar
<1>1. InvOrdem => OrdemSemCruzar
  BY DEF InvOrdem
<1> QED BY <1>1, InitOrdem, NextOrdem, PTL DEF Spec

(* A campaign stored as "success", "failed" or "partial" has no item left  *)
(* to do, and the status tells whether none, all or some of them failed.   *)
THEOREM CampanhaTerminada == Spec => []CampanhaConfere
<1>1. InvOrdem => CampanhaConfere
  BY DEF InvOrdem, OrdemSemCruzar, Ordem, Encerrada, CampanhaConfere
<1> QED BY <1>1, InitOrdem, NextOrdem, PTL DEF Spec

(* A chunk that finalizar_chunk_execucao stored as "success" holds only    *)
(* items that succeeded.                                                   *)
THEOREM ChunkComSucesso == Spec => []ResultadoConfere
<1>1. InvOrdem => ResultadoConfere
  BY DEF InvOrdem, OrdemSemCruzar, Ordem, ResultadoConfere
<1> QED BY <1>1, InitOrdem, NextOrdem, PTL DEF Spec

(* Whatever campaign tasks run at the same time, no campaign has more      *)
(* leased chunks than analise_materializacao_max_active_chunks_per_campaign. *)
THEOREM LimiteRespeitado == Spec => []LimiteComLease
<1>1. InvOrdem => LimiteComLease
  BY DEF InvOrdem, OrdemSemCruzar, Ordem, LimiteComLease
<1> QED BY <1>1, InitOrdem, NextOrdem, PTL DEF Spec

(* Two workers never materialize the same company and scope at once: they  *)
(* have different chunks, and an item is in one chunk.                     *)
THEOREM ItensSeparados == Spec => []ItemExclusivo
<1>1. InvOrdem => ItemExclusivo
  <2> SUFFICES ASSUME InvOrdem, NinguemSeCruza, NEW v \in Workers, NEW w \in Workers,
                      v # w, ses[v].pc = "materializar", ses[w].pc = "materializar"
               PROVE  Proximo(ses[v].resto) # Proximo(ses[w].resto)
    BY DEF ItemExclusivo
  <2>1. IInv /\ Portadores /\ Obra
    BY OrdemEmPartes DEF InvOrdem, OrdemSemCruzar
  <2>2. ASSUME NEW q \in Workers, ses[q].pc = "materializar"
        PROVE  Proximo(ses[q].resto) \in ItensDoChunk(ses[q].chunk)
    <3>1. ses[q].resto \in SUBSET Itens /\ ses[q].resto # {}
      BY <2>1, <2>2 DEF IInv, TypeOK, Sessao, SessoesOk, SessaoOk, Processos
    <3>2. ses[q].resto \subseteq ItensDoChunk(ses[q].chunk)
      BY <2>1, <2>2 DEF Obra, Trabalha
    <3> QED BY <3>1, <3>2, ProximoPertence
  <2>3. ses[v].chunk # ses[w].chunk
    BY <2>1, OutroChunk DEF PcChunk
  <2> QED BY <2>2, <2>3 DEF ItensDoChunk
<1> QED BY <1>1, InitOrdem, NextOrdem, PTL DEF Spec
=============================================================================
