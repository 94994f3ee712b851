--------------------------- MODULE Materializacao ---------------------------
(***************************************************************************)
(* Materialization campaigns: app/worker/tasks.py (the campaign, chunk,    *)
(* dispatcher and sweep tasks) and app/services/analise.py (campaigns,     *)
(* items, chunks and leases).                                              *)
(*                                                                         *)
(* A step of this module runs from one database commit of a task to the    *)
(* next, together with the reads between them.  `ses[p]' is the Celery     *)
(* task that process p is executing: its program counter and what its      *)
(* SQLAlchemy session has cached, because sessions are opened with         *)
(* autoflush=False and expire_on_commit=False (app/db/session.py): an      *)
(* object that the task still refers to keeps the attributes it was loaded *)
(* with (the identity map is weak, so any other is read again), a COUNT    *)
(* does not see the changes the session has not flushed, and an UPDATE is  *)
(* sent only for the attributes that differ from the loaded ones.          *)
(*                                                                         *)
(* Time: the lease of an active chunk is "valido", then "vencido" (past    *)
(* lease_expires_at) and then "stale" (past the grace period too).         *)
(***************************************************************************)
EXTENDS Integers, FiniteSets

CONSTANTS
    Campanhas,          \* campaign ids
    Alvos,              \* company and scope pairs, numbered as in `ordem'
    Workers,            \* Celery worker slots on the materialization queue
    Varredor,           \* the process of the sweeps and of the operator's endpoints
    Nenhum,             \* SQL NULL / Python None
    ChunkSize,          \* analise_materializacao_chunk_size
    MaxActiveCampaigns, \* analise_materializacao_max_active_campaigns
    MaxActiveChunks,    \* analise_materializacao_max_active_chunks_per_campaign
    ItemCabeNoLease,    \* timing assumption: no item outlives its lease
    MaxChunks,          \* bound: chunks ever created
    MaxMensagens,       \* bound: copies of one message kept by the broker
    MaxQuedas,          \* bound: worker crashes
    MaxTrocas,          \* bound: times the gate is closed
    MaxAtrasos,         \* bound: leases that lapse on a chunk still attended
    MaxReentregas,      \* bound: redeliveries by the visibility timeout
    MaxFalhas,          \* bound: crashes, late leases and redeliveries together
    MaxEventos          \* bound: these and the closings of the gate together

ASSUME ConstantesOk ==
    /\ IsFiniteSet(Campanhas)
    /\ Alvos \subseteq Nat
    /\ IsFiniteSet(Alvos)
    /\ Varredor \notin Workers
    /\ Nenhum \notin Campanhas \cup Nat
    /\ Nenhum \notin Workers
    /\ ChunkSize \in Nat \ {0}
    /\ MaxActiveCampaigns \in Nat
    /\ MaxActiveChunks \in Nat
    /\ ItemCabeNoLease \in BOOLEAN
    /\ MaxChunks \in Nat
    /\ MaxMensagens \in Nat \ {0}
    /\ {MaxQuedas, MaxTrocas, MaxAtrasos, MaxReentregas, MaxFalhas,
        MaxEventos} \subseteq Nat

VARIABLES
    camp,     \* analise_materializacao_campanhas.status
    item,     \* analise_materializacao_campanha_itens.status
    lote,     \* the items' chunk_execucao_id
    chunk,    \* analise_materializacao_chunk_execucoes.status
    dono,     \* the chunks' campanha_id
    lease,    \* the chunks' lease_expires_at, relative to now
    criados,  \* how many chunks exist: ids 1..criados
    execs,    \* analise_materializacao_execucoes rows still `running': item,
              \* worker (Nenhum if lost) and chunk
    verde,    \* the gate: no manual pause (analise_materializacao_controle.mode)
              \* and no ExecucaoSincronizacao in a blocking status
    msgCamp, msgChunk, msgDisp,              \* the Celery queue
    ses,                                     \* the task each process runs
    quedas, trocas, atrasos, reentregas      \* how much of each bound is used

banco == <<camp, item, lote, chunk, dono, lease, criados, execs>>
gate  == <<verde>>
fila  == <<msgCamp, msgChunk, msgDisp>>
gasto == <<quedas, trocas, atrasos, reentregas>>
vars  == <<banco, gate, fila, ses, gasto>>

-----------------------------------------------------------------------------
Processos == Workers \cup {Varredor}
Itens     == Campanhas \X Alvos
Chunks    == 1..MaxChunks

CampTerminal  == {"success", "failed", "partial"}
CampStatus    == {"nenhuma", "pending", "running"} \cup CampTerminal
ItemAtivo     == {"pending", "running"}
ItemFeito     == {"success", "failed"}
ItemStatus    == {"nenhum", "skipped"} \cup ItemAtivo \cup ItemFeito
ChunkAtivo    == {"queued", "running"}
ChunkTerminal == {"success", "failed", "stale", "cancelled"}
ChunkStatus   == {"nenhum"} \cup ChunkAtivo \cup ChunkTerminal

PcChunk == {"iterar", "materializar", "cancelar"}
PcRec   == {"rec", "rec_fim", "publicar"}
Pcs     == {"livre", "reservar", "enfileirar"} \cup PcChunk \cup PcRec

NaoVistas   == [c \in Campanhas |-> "ausente"]
SessaoVazia == [pc |-> "livre", camp |-> Nenhum, chunk |-> Nenhum,
                resto |-> {}, lista |-> {}, alcance |-> {}, afetadas |-> {},
                slots |-> 0, falhou |-> FALSE, campVista |-> NaoVistas,
                chunkVisto |-> "nenhum", itemVisto |-> "nenhum"]

Verde == verde

Menor(a, b) == IF a <= b THEN a ELSE b
Proximo(S)  == CHOOSE i \in S : \A j \in S : i[2] <= j[2]

ItensDe(c)      == {i \in Itens : i[1] = c /\ item[i] # "nenhum"}
ItensDoChunk(k) == {i \in Itens : lote[i] = k}
AtivosDe(c)     == {k \in Chunks : dono[k] = c /\ chunk[k] \in ChunkAtivo}
ComLease(c)     == {k \in AtivosDe(c) : lease[k] = "valido"}
StaleDe(c)      == {k \in AtivosDe(c) : lease[k] = "stale"}
Presas_Cega(S)  == {}      \* mutant: no campaign is ever found stuck
Presas(S)       == {c \in S : camp[c] = "running" /\ AtivosDe(c) = {}}

(* Mutant: a queued chunk is not counted as active.                        *)
Recalculado_SemFila(c, it, ch) ==
    LET meus == {i \in Itens : i[1] = c /\ it[i] # "nenhum"}
        tem(st) == \E i \in meus : it[i] = st
    IN  IF meus = {} THEN "success"
        ELSE IF \E k \in Chunks : dono[k] = c /\ ch[k] = "running" THEN "running"
        ELSE IF tem("pending") THEN "pending"
        ELSE IF ~tem("failed") THEN "success"
        ELSE IF tem("success") \/ tem("skipped") THEN "partial"
        ELSE "failed"

(* The status that the counts `it' and `ch', as the database shows them,   *)
(* give a campaign.                                                        *)
Recalculado(c, it, ch) ==
    LET meus == {i \in Itens : i[1] = c /\ it[i] # "nenhum"}
        tem(st) == \E i \in meus : it[i] = st
    IN  IF meus = {} THEN "success"
        ELSE IF \E k \in Chunks : dono[k] = c /\ ch[k] \in ChunkAtivo THEN "running"
        ELSE IF tem("pending") THEN "pending"
        ELSE IF ~tem("failed") THEN "success"
        ELSE IF tem("success") \/ tem("skipped") THEN "partial"
        ELSE "failed"

(* The column after a session assigns `s' to the status of campaign c: no  *)
(* UPDATE is sent when the cached attribute already has that value.        *)
CampVista(p, c) ==
    IF ses[p].campVista[c] = "ausente" THEN camp[c] ELSE ses[p].campVista[c]
Gravado(p, c, s) == IF CampVista(p, c) = s THEN camp[c] ELSE s

Grava(p, c, s) == camp' = [camp EXCEPT ![c] = Gravado(p, c, s)]

-----------------------------------------------------------------------------
(* The broker.  Beyond MaxMensagens copies a duplicate is merged.          *)
MaisUm(n)         == Menor(n + 1, MaxMensagens)
Enfileira(f, x)   == [f EXCEPT ![x] = MaisUm(@)]
Retira(f, x)      == [f EXCEPT ![x] = @ - 1]
Reagenda(f, c)    == IF Verde THEN Enfileira(f, c) ELSE f

(* The session of process p becomes s; `Vista' is its record of the        *)
(* campaigns after it assigns the status s to campaign c.                  *)
Muda(p, s)     == ses' = [ses EXCEPT ![p] = s]
Encerra(p)     == Muda(p, SessaoVazia)
Vista(p, c, s) == [ses[p].campVista EXCEPT ![c] = s]

-----------------------------------------------------------------------------
(* criar_materializacao_campanha for the targets S and then the dispatcher *)
(* message, which a crash of the caller can lose and a red gate withholds. *)
CriarCampanha(c, S, despacha) ==
    LET coberto(a) == \E d \in Campanhas :
                         /\ camp[d] \in {"pending", "running"}
                         /\ item[<<d, a>>] \in ItemAtivo
        novo(a) == IF coberto(a) THEN "skipped" ELSE "pending"
    IN  /\ camp[c] = "nenhuma"
        /\ despacha \/ quedas < MaxQuedas
        /\ item' = [i \in Itens |-> IF i[1] = c /\ i[2] \in S
                                    THEN novo(i[2]) ELSE item[i]]
        /\ camp' = [camp EXCEPT ![c] = Recalculado(c, item', chunk)]
        /\ msgDisp' = (msgDisp \/ (despacha /\ Verde))
        /\ quedas' = IF despacha THEN quedas ELSE quedas + 1
        /\ UNCHANGED <<lote, chunk, dono, lease, criados, execs, gate, msgCamp,
                       msgChunk, ses, trocas, atrasos, reentregas>>

(* despachar_materializacao_pendente_task: the oldest pending campaigns,   *)
(* as many as there are free slots; the order of creation is left open.    *)
Despachar ==
    LET livres    == MaxActiveCampaigns
                       - Cardinality({c \in Campanhas : camp[c] = "running"})
        pendentes == {c \in Campanhas : camp[c] = "pending"}
    IN  /\ msgDisp
        /\ msgDisp' = FALSE
        /\ \/ /\ ~Verde \/ livres <= 0
              /\ UNCHANGED msgCamp
           \/ /\ Verde /\ livres > 0
              /\ \E S \in SUBSET pendentes :
                    /\ Cardinality(S) = Menor(livres, Cardinality(pendentes))
                    /\ msgCamp' = [c \in Campanhas |->
                          IF c \in S THEN MaisUm(msgCamp[c]) ELSE msgCamp[c]]
        /\ UNCHANGED <<banco, gate, msgChunk, ses, gasto>>

-----------------------------------------------------------------------------
(* materializar_analise_campanha_task.  Its first commit stores the        *)
(* recomputed status; the branches below are its returns, in their order.  *)
Outras(c) == {d \in Campanhas \ {c} : camp[d] = "running"}

RecebeCampanha(w, c) ==
    /\ ses[w].pc = "livre"
    /\ camp[c] # "nenhuma"
    /\ msgCamp[c] > 0

CampanhaEncerrada(w, c) ==
    /\ RecebeCampanha(w, c)
    /\ Recalculado(c, item, chunk) \in CampTerminal
    /\ camp' = [camp EXCEPT ![c] = Recalculado(c, item, chunk)]
    /\ msgCamp' = Retira(msgCamp, c)
    /\ UNCHANGED <<item, lote, chunk, dono, lease, criados, execs, gate, msgChunk,
                   msgDisp, ses, gasto>>

CampanhaRecupera(w, c) ==
    LET s == Recalculado(c, item, chunk) IN
    /\ RecebeCampanha(w, c)
    /\ StaleDe(c) # {}
    /\ camp' = [camp EXCEPT ![c] = s]
    /\ msgCamp' = Retira(msgCamp, c)
    /\ Muda(w, [ses[w] EXCEPT !.pc = "rec", !.camp = c, !.alcance = {c},
                          !.lista = StaleDe(c), !.campVista = Vista(w, c, s)])
    /\ UNCHANGED <<item, lote, chunk, dono, lease, criados, execs, gate, msgChunk,
                   msgDisp, gasto>>

(* Red gate, or every campaign slot taken: back to "pending"; only the     *)
(* second case sends the campaign to the queue again.                      *)
CampanhaEspera(w, c) ==
    /\ RecebeCampanha(w, c)
    /\ Recalculado(c, item, chunk) \notin CampTerminal
    /\ StaleDe(c) = {}
    /\ ~Verde \/ Cardinality(Outras(c)) >= MaxActiveCampaigns
    /\ camp' = [camp EXCEPT ![c] = "pending"]
    /\ msgCamp' = Reagenda(Retira(msgCamp, c), c)
    /\ UNCHANGED <<item, lote, chunk, dono, lease, criados, execs, gate, msgChunk,
                   msgDisp, ses, gasto>>

CampanhaSemVaga(w, c) ==
    /\ RecebeCampanha(w, c)
    /\ Recalculado(c, item, chunk) \notin CampTerminal
    /\ StaleDe(c) = {}
    /\ Verde
    /\ Cardinality(Outras(c)) < MaxActiveCampaigns
    /\ Cardinality(ComLease(c)) >= MaxActiveChunks
    /\ camp' = [camp EXCEPT ![c] = Recalculado(c, item, chunk)]
    /\ msgCamp' = Retira(msgCamp, c)
    /\ UNCHANGED <<item, lote, chunk, dono, lease, criados, execs, gate, msgChunk,
                   msgDisp, ses, gasto>>

CampanhaDecide(w, c) ==
    LET s == Recalculado(c, item, chunk) IN
    /\ RecebeCampanha(w, c)
    /\ s \notin CampTerminal
    /\ StaleDe(c) = {}
    /\ Verde
    /\ Cardinality(Outras(c)) < MaxActiveCampaigns
    /\ Cardinality(ComLease(c)) < MaxActiveChunks
    /\ camp' = [camp EXCEPT ![c] = s]
    /\ msgCamp' = Retira(msgCamp, c)
    /\ Muda(w, [ses[w] EXCEPT
          !.pc = "reservar", !.camp = c, !.campVista = Vista(w, c, s),
          !.slots = MaxActiveChunks - Cardinality(ComLease(c))])
    /\ UNCHANGED <<item, lote, chunk, dono, lease, criados, execs, gate, msgChunk,
                   msgDisp, gasto>>

(* claim_materializacao_campanha_chunks, under the lock of the campaign    *)
(* row: it subtracts the active chunks again from the slots the task had   *)
(* computed, and cuts the pending items into chunks in their order.        *)
Vagas_DaTask(w)   == ses[w].slots   \* mutant: the slots are not counted again
Pendentes_Abertos(c) ==             \* mutant: open items, not pending ones
    {i \in ItensDe(c) : item[i] \in ItemAtivo}
Vagas(w)     == ses[w].slots - Cardinality(ComLease(ses[w].camp))
Pendentes(c) == {i \in ItensDe(c) : item[i] = "pending"}
Posicao(S, i) == Cardinality({j \in S : j[2] < i[2]})

Reservar(w) ==
    LET c     == ses[w].camp
        fila0 == Pendentes(c)
        n     == Menor(Vagas(w), (Cardinality(fila0) + ChunkSize - 1) \div ChunkSize)
        novos == (criados + 1)..(criados + n)
        parte(i) == criados + 1 + (Posicao(fila0, i) \div ChunkSize)
        meus  == {i \in fila0 : parte(i) \in novos}
    IN  /\ ses[w].pc = "reservar"
        /\ n > 0
        /\ criados + n <= MaxChunks
        /\ criados' = criados + n
        /\ item'  = [i \in Itens |-> IF i \in meus THEN "running" ELSE item[i]]
        /\ lote'  = [i \in Itens |-> IF i \in meus THEN parte(i) ELSE lote[i]]
        /\ chunk' = [k \in Chunks |-> IF k \in novos THEN "queued" ELSE chunk[k]]
        /\ dono'  = [k \in Chunks |-> IF k \in novos THEN c ELSE dono[k]]
        /\ lease' = [k \in Chunks |-> IF k \in novos THEN "valido" ELSE lease[k]]
        /\ Grava(w, c, "running")
        /\ Muda(w, [SessaoVazia EXCEPT !.pc = "enfileirar", !.camp = c, !.lista = novos])
        /\ UNCHANGED <<execs, gate, fila, gasto>>

ReservarNada(w) ==
    LET c == ses[w].camp IN
    /\ ses[w].pc = "reservar"
    /\ Vagas(w) <= 0 \/ Pendentes(c) = {}
    /\ Grava(w, c, Recalculado(c, item, chunk))
    /\ Encerra(w)
    /\ UNCHANGED <<item, lote, chunk, dono, lease, criados, execs, gate, fila, gasto>>

(* The chunk messages go out one by one after the commit.                  *)
Enfileirar(w) ==
    LET k == CHOOSE k \in ses[w].lista : \A j \in ses[w].lista : k <= j IN
    /\ ses[w].pc = "enfileirar"
    /\ msgChunk' = Enfileira(msgChunk, k)
    /\ IF ses[w].lista = {k} THEN Encerra(w)
       ELSE Muda(w, [ses[w] EXCEPT !.lista = @ \ {k}])
    /\ UNCHANGED <<banco, gate, msgCamp, msgDisp, gasto>>

-----------------------------------------------------------------------------
(* reverter_itens_materializacao_para_pending: the campaign is recomputed  *)
(* before the items are flushed, so from the old counts.                   *)
Devolve(p, c, R) ==
    /\ item' = [i \in Itens |-> IF i \in R THEN "pending" ELSE item[i]]
    /\ lote' = [i \in Itens |-> IF i \in R THEN Nenhum ELSE lote[i]]
    /\ IF R = {} THEN UNCHANGED camp
       ELSE Grava(p, c, Recalculado(c, item, chunk))

(* What the session keeps of the campaign after Devolve: only a campaign   *)
(* the task refers to is kept.                                             *)
VistaDevolvida(p, c, R) ==
    IF R = {} \/ ses[p].campVista[c] = "ausente" THEN ses[p].campVista
    ELSE Vista(p, c, Recalculado(c, item, chunk))

-----------------------------------------------------------------------------
(* materializar_analise_chunk_task *)
RecebeChunk(w, k) ==
    /\ ses[w].pc = "livre"
    /\ msgChunk[k] > 0
    /\ msgChunk' = Retira(msgChunk, k)

ChunkIgnorado(w, k) ==
    /\ RecebeChunk(w, k)
    /\ chunk[k] \in ChunkTerminal
    /\ msgCamp' = IF chunk[k] \in {"stale", "cancelled"}
                  THEN Reagenda(msgCamp, dono[k]) ELSE msgCamp
    /\ UNCHANGED <<banco, gate, msgDisp, ses, gasto>>

(* Red gate before the first item: every item that still points at the     *)
(* chunk goes back to "pending", finished ones included.                   *)
ChunkBarrado(w, k) ==
    LET c == dono[k]
        R == ItensDoChunk(k)
    IN  /\ RecebeChunk(w, k)
        /\ chunk[k] \in ChunkAtivo
        /\ ~Verde
        /\ Devolve(w, c, R)
        /\ Muda(w, [ses[w] EXCEPT !.pc = "cancelar", !.camp = c, !.chunk = k,
                              !.chunkVisto = chunk[k]])
        /\ UNCHANGED <<chunk, dono, lease, criados, execs, gate, msgCamp, msgDisp, gasto>>

(* Mutant: the message of a chunk already closed starts it again.          *)
ChunkInicia_SemStatus(w, k) ==
    /\ RecebeChunk(w, k)
    /\ Verde
    /\ chunk' = [chunk EXCEPT ![k] = "running"]
    /\ lease' = [lease EXCEPT ![k] = "valido"]
    /\ Muda(w, [ses[w] EXCEPT
          !.pc = "iterar", !.camp = dono[k], !.chunk = k,
          !.resto = ItensDoChunk(k), !.chunkVisto = "running"])
    /\ UNCHANGED <<camp, item, lote, dono, criados, execs, gate, msgCamp, msgDisp, gasto>>

ChunkInicia(w, k) ==
    /\ RecebeChunk(w, k)
    /\ chunk[k] \in ChunkAtivo
    /\ Verde
    /\ chunk' = [chunk EXCEPT ![k] = "running"]
    /\ lease' = [lease EXCEPT ![k] = "valido"]
    /\ Muda(w, [ses[w] EXCEPT
          !.pc = "iterar", !.camp = dono[k], !.chunk = k,
          !.resto = ItensDoChunk(k), !.chunkVisto = "running"])
    /\ UNCHANGED <<camp, item, lote, dono, criados, execs, gate, msgCamp, msgDisp, gasto>>

(* The top of the loop looks at the cached status of the chunk.            *)
IterarAborta(w) ==
    /\ ses[w].pc = "iterar"
    /\ ses[w].resto # {}
    /\ ses[w].chunkVisto \in {"stale", "cancelled"}
    /\ msgCamp' = Reagenda(msgCamp, ses[w].camp)
    /\ Encerra(w)
    /\ UNCHANGED <<banco, gate, msgChunk, msgDisp, gasto>>

IterarContinua(w) ==
    /\ ses[w].pc = "iterar"
    /\ ses[w].resto # {}
    /\ ses[w].chunkVisto \notin {"stale", "cancelled"}
    /\ lease' = [lease EXCEPT ![ses[w].chunk] = "valido"]

(* Mutant: only the item in hand is returned.                              *)
IterarBarrado_SoUm(w) ==
    LET c == ses[w].camp
        R == {Proximo(ses[w].resto)}
    IN  /\ IterarContinua(w)
        /\ ~Verde
        /\ Devolve(w, c, R)
        /\ Muda(w, [ses[w] EXCEPT !.pc = "cancelar"])
        /\ UNCHANGED <<chunk, dono, criados, execs, gate, fila, gasto>>

(* Red gate between items: the items of the snapshot not yet processed go  *)
(* back to "pending", whoever owns them now.                               *)
IterarBarrado(w) ==
    LET c == ses[w].camp
        R == ses[w].resto
    IN  /\ IterarContinua(w)
        /\ ~Verde
        /\ Devolve(w, c, R)
        /\ Muda(w, [SessaoVazia EXCEPT !.pc = "cancelar", !.camp = c,
                        !.chunk = ses[w].chunk, !.chunkVisto = ses[w].chunkVisto])
        /\ UNCHANGED <<chunk, dono, criados, execs, gate, fila, gasto>>

IterarComeca(w) ==
    LET i == Proximo(ses[w].resto) IN
    /\ IterarContinua(w)
    /\ Verde
    /\ execs' = execs \cup {<<i, w, ses[w].chunk>>}
    /\ Muda(w, [ses[w] EXCEPT !.pc = "materializar", !.itemVisto = item[i]])
    /\ UNCHANGED <<camp, item, lote, chunk, dono, criados, gate, fila, gasto>>

(* registrar_resultado_materializacao_campanha_item for the item in hand:  *)
(* no check of who owns the item by now, and the campaign recomputed from  *)
(* the counts of before.                                                   *)
Registra(w, r, visto) ==
    LET i == Proximo(ses[w].resto)
        c == ses[w].camp
    IN  /\ item' = [item EXCEPT ![i] = IF visto = r THEN @ ELSE r]
        /\ Grava(w, c, Recalculado(c, item, chunk))

(* materializar_analise_companhia with its result r, the result stored and *)
(* registrar_progresso_chunk_execucao, which renews the lease and reads    *)
(* the chunk again.                                                        *)
Materializar(w, r) ==
    LET k == ses[w].chunk
        i == Proximo(ses[w].resto)
    IN  /\ ses[w].pc = "materializar"
        /\ Registra(w, r, ses[w].itemVisto)
        /\ execs' = execs \ {<<i, w, k>>}
        /\ lease' = [lease EXCEPT ![k] = "valido"]
        /\ Muda(w, [ses[w] EXCEPT
              !.pc = "iterar", !.resto = @ \ {i},
              !.falhou = @ \/ r = "failed", !.chunkVisto = chunk[k],
              !.itemVisto = "nenhum"])
        /\ UNCHANGED <<lote, chunk, dono, criados, gate, fila, gasto>>

(* An item whose company is missing fails at once; the loop goes on with   *)
(* the chunk as it was read before.                                        *)
ItemSemCompanhia(w) ==
    LET i == Proximo(ses[w].resto)
    IN  /\ IterarContinua(w)
        /\ Verde
        /\ Registra(w, "failed", item[i])
        /\ Muda(w, [ses[w] EXCEPT !.resto = @ \ {i}, !.falhou = TRUE])
        /\ UNCHANGED <<lote, chunk, dono, criados, execs, gate, fila, gasto>>

(* finalizar_chunk_execucao after the loop or after a red gate, and the    *)
(* message for the campaign.                                               *)
Conclui(w, st) ==
    LET k == ses[w].chunk IN
    /\ chunk' = [chunk EXCEPT ![k] = IF ses[w].chunkVisto = st THEN @ ELSE st]
    /\ lease' = [lease EXCEPT ![k] = "vencido"]
    /\ msgCamp' = Reagenda(msgCamp, ses[w].camp)
    /\ Encerra(w)
    /\ UNCHANGED <<camp, item, lote, dono, criados, execs, gate, msgChunk, msgDisp, gasto>>

(* Mutants: the failures of the loop are forgotten; a status out of the    *)
(* enumeration is stored.                                                  *)
Finalizar_SemFalha(w) ==
    /\ ses[w].pc = "iterar"
    /\ ses[w].resto = {}
    /\ Conclui(w, "success")

Cancelar_Grafia(w) ==
    /\ ses[w].pc = "cancelar"
    /\ Conclui(w, "canceled")

Finalizar(w) ==
    /\ ses[w].pc = "iterar"
    /\ ses[w].resto = {}
    /\ Conclui(w, IF ses[w].falhou THEN "failed" ELSE "success")

Cancelar(w) ==
    /\ ses[w].pc = "cancelar"
    /\ Conclui(w, "cancelled")

-----------------------------------------------------------------------------
(* Mutant: the stale chunk will be closed, its items stay as they are.     *)
RecReverte_SemItens(p) ==
    \E k \in ses[p].lista :
        /\ ses[p].pc = "rec"
        /\ Devolve(p, dono[k], {})
        /\ Muda(p, [ses[p] EXCEPT !.pc = "rec_fim", !.chunk = k])
        /\ UNCHANGED <<chunk, dono, lease, criados, execs, gate, fila, gasto>>

(* recuperar_chunks_materializacao_stale, by a campaign task or a sweep.   *)
(* First, for each stale chunk of the list read at the start: its running  *)
(* items go back to "pending" and their open executions fail ...           *)
RecReverte(p) ==
    \E k \in ses[p].lista :
        LET c == dono[k]
            R == {i \in ItensDoChunk(k) : item[i] = "running"}
        IN  /\ ses[p].pc = "rec"
            /\ Devolve(p, c, R)
            /\ execs' = {e \in execs : e[1] \notin R}
            /\ Muda(p, [ses[p] EXCEPT !.pc = "rec_fim", !.chunk = k,
                                  !.campVista = VistaDevolvida(p, c, R)])
            /\ UNCHANGED <<chunk, dono, lease, criados, gate, fila, gasto>>

(* ... then the chunk is closed as stale and its campaign, the last one the *)
(* task refers to, recomputed.                                             *)
RecFinaliza(p) ==
    LET k == ses[p].chunk
        c == dono[k]
        s == Recalculado(c, item, chunk')
    IN  /\ ses[p].pc = "rec_fim"
        /\ chunk' = [chunk EXCEPT ![k] = "stale"]
        /\ lease' = [lease EXCEPT ![k] = "vencido"]
        /\ Grava(p, c, s)
        /\ Muda(p, [ses[p] EXCEPT
              !.pc = "rec", !.chunk = Nenhum, !.lista = @ \ {k},
              !.afetadas = @ \cup {c}, !.campVista = [NaoVistas EXCEPT ![c] = s]])
        /\ UNCHANGED <<item, lote, dono, criados, execs, gate, fila, gasto>>

(* Second part: campaigns "running" without an active chunk.               *)
RecPresas(p) ==
    LET presas == Presas(ses[p].alcance)
        R == {i \in Itens : i[1] \in presas /\ item[i] = "running"}
    IN  /\ ses[p].pc = "rec"
        /\ ses[p].lista = {}
        /\ item' = [i \in Itens |-> IF i \in R THEN "pending" ELSE item[i]]
        /\ lote' = [i \in Itens |-> IF i \in R THEN Nenhum ELSE lote[i]]
        /\ execs' = {e \in execs : e[1] \notin R}
        /\ camp' = [c \in Campanhas |->
              IF c \in presas THEN Gravado(p, c, Recalculado(c, item', chunk))
                              ELSE camp[c]]
        /\ Muda(p, [SessaoVazia EXCEPT !.pc = "publicar", !.camp = ses[p].camp,
                        !.afetadas = ses[p].afetadas \cup presas])
        /\ UNCHANGED <<chunk, dono, lease, criados, gate, fila, gasto>>

(* The caller sends the affected campaigns to the queue: a task if the     *)
(* gate lets it, an endpoint always.                                       *)
Publicar(p) ==
    /\ ses[p].pc = "publicar"
    /\ \E S \in {ses[p].afetadas, {}} :
          /\ Verde => S = ses[p].afetadas
          /\ ~Verde /\ p \in Workers => S = {}
          /\ msgCamp' = [c \in Campanhas |->
                IF c \in S THEN MaisUm(msgCamp[c]) ELSE msgCamp[c]]
    /\ Encerra(p)
    /\ UNCHANGED <<banco, gate, msgChunk, msgDisp, gasto>>

-----------------------------------------------------------------------------
(* reconciliar_materializacao_stale_task, each time it finds work.         *)
VarreStale ==
    LET stale == UNION {StaleDe(c) : c \in Campanhas} IN
    /\ ses[Varredor].pc = "livre"
    /\ stale # {} \/ Presas(Campanhas) # {}
    /\ Muda(Varredor, [ses[Varredor] EXCEPT !.pc = "rec", !.alcance = Campanhas,
                                            !.lista = stale])
    /\ UNCHANGED <<banco, gate, fila, gasto>>

(* recuperar_materializacao_pendente_task, one campaign of its scan.  The  *)
(* reason PENDING_UNDISPATCHED: pending items, nothing active, no open     *)
(* execution, green gate and a free campaign slot.                         *)
ExecucaoAberta(c) == \E e \in execs : e[1][1] = c

(* Mutant: the sweep does not know a campaign that was never dispatched.   *)
Despachavel_Nunca(c) == FALSE

Despachavel(c) ==
    /\ Pendentes(c) # {}
    /\ Recalculado(c, item, chunk) = "pending"
    /\ ~\E i \in ItensDe(c) : item[i] = "running"
    /\ ~ExecucaoAberta(c)
    /\ Verde
    /\ Cardinality(Outras(c)) < MaxActiveCampaigns

Reativa(c) ==
    LET s == Recalculado(c, item, chunk)
        recupera == Pendentes(c) # {} /\ StaleDe(c) # {}
    IN  /\ ses[Varredor].pc = "livre"
        /\ camp' = [camp EXCEPT ![c] = s]
        /\ \/ /\ recupera              \* STALE_CHUNK
              /\ Muda(Varredor, [ses[Varredor] EXCEPT
                    !.pc = "rec", !.alcance = {c},
                    !.lista = StaleDe(c), !.campVista = Vista(Varredor, c, s)])
              /\ UNCHANGED msgCamp
           \/ /\ ~recupera
              /\ Despachavel(c)        \* PENDING_UNDISPATCHED
              /\ msgCamp' = Enfileira(msgCamp, c)
              /\ UNCHANGED ses
           \/ /\ ~recupera             \* any other reason
              /\ ~Despachavel(c)
              /\ UNCHANGED <<msgCamp, ses>>
        /\ UNCHANGED <<item, lote, chunk, dono, lease, criados, execs, gate,
                       msgChunk, msgDisp>>
        /\ UNCHANGED gasto

(* The sweep looks at the pending campaigns, reativar at any.              *)
VarrePendente(c) == camp[c] = "pending" /\ Reativa(c)
Reativar(c)      == camp[c] # "nenhuma" /\ Reativa(c)

(* The endpoint recuperar: the recovery of one campaign.                   *)
Recuperar(c) ==
    /\ ses[Varredor].pc = "livre"
    /\ StaleDe(c) # {} \/ Presas({c}) # {}
    /\ Muda(Varredor, [ses[Varredor] EXCEPT !.pc = "rec", !.alcance = {c},
                                            !.lista = StaleDe(c)])
    /\ UNCHANGED <<banco, gate, fila, gasto>>

(* reconcile_materialization_execution, of an execution still "running"    *)
(* whose chunk has no valid lease: as "success" by the sweep, if its       *)
(* progress was complete, and as either by an operator.  The inspection of *)
(* the workers waits half a second and may miss one that is still at it;   *)
(* whether the item is in another chunk by now is not asked.  The campaign *)
(* is recomputed from the counts of before.                                *)
Reconcilia(e, r) ==
    LET i == e[1]
        c == i[1]
    IN  /\ ~(chunk[e[3]] \in ChunkAtivo /\ lease[e[3]] = "valido")
        /\ r = "success" => Verde
        /\ execs' = execs \ {e}
        /\ \/ /\ item[i] \in ItemAtivo
              /\ item' = [item EXCEPT ![i] = r]
              /\ camp' = [camp EXCEPT ![c] = Recalculado(c, item, chunk)]
           \/ /\ item[i] \notin ItemAtivo
              /\ UNCHANGED <<item, camp>>
        /\ UNCHANGED <<lote, chunk, dono, lease, criados, gate, fila, ses, gasto>>

-----------------------------------------------------------------------------
(* The environment: the operator, the ingestion pipeline, time, crashes.   *)
(* The faults of one behaviour share a bound, and another with the         *)
(* closings of the gate, in which a late lease weighs two.                 *)
Falhas  == quedas + atrasos + reentregas
Eventos == quedas + 2 * atrasos + reentregas + trocas
Falta   == Falhas < MaxFalhas /\ Eventos < MaxEventos

FechaGate ==
    /\ verde
    /\ trocas < MaxTrocas /\ Eventos < MaxEventos
    /\ trocas' = trocas + 1
    /\ verde' = FALSE
    /\ UNCHANGED <<banco, fila, ses, quedas, atrasos, reentregas>>

AbreGate ==
    /\ ~verde
    /\ verde' = TRUE
    /\ UNCHANGED <<banco, fila, ses, gasto>>

ComWorker(k) == \E w \in Workers : ses[w].pc \in PcChunk /\ ses[w].chunk = k
Atendido(k)  == \/ ComWorker(k)
                \/ msgChunk[k] > 0
                \/ \E w \in Workers : ses[w].pc = "enfileirar" /\ k \in ses[w].lista

(* Time passes the lease, or the grace period too, of a chunk that no      *)
(* message or worker holds ...                                             *)
LeaseEnvelhece(k) ==
    /\ chunk[k] \in ChunkAtivo
    /\ \E l \in {"vencido", "stale"} \ {lease[k]} :
         /\ lease[k] # "stale"
         /\ lease' = [lease EXCEPT ![k] = l]
    /\ UNCHANGED <<camp, item, lote, chunk, dono, criados, execs, gate, fila, ses,
                   quedas, trocas, reentregas>>

LeaseVence(k) ==
    /\ ~Atendido(k)
    /\ LeaseEnvelhece(k)
    /\ UNCHANGED atrasos

(* ... or of one that waits in the queue or whose item takes too long.     *)
LeaseAtrasa(k) ==
    /\ Atendido(k)
    /\ ItemCabeNoLease => ~ComWorker(k)
    /\ LeaseEnvelhece(k)
    /\ atrasos < MaxAtrasos /\ Falta /\ Eventos + 1 < MaxEventos
    /\ atrasos' = atrasos + 1

(* task_acks_late with task_reject_on_worker_lost: the message of a task   *)
(* that dies goes back to the queue.  A sweep is simply fired again.       *)
Devolvida(w) ==
    /\ msgCamp'  = IF ses[w].pc \in PcChunk THEN msgCamp
                   ELSE Enfileira(msgCamp, ses[w].camp)
    /\ msgChunk' = IF ses[w].pc \in PcChunk
                   THEN Enfileira(msgChunk, ses[w].chunk) ELSE msgChunk
    /\ UNCHANGED msgDisp

Orfas(w) == {<<e[1], IF e[2] = w THEN Nenhum ELSE e[2], e[3]>> : e \in execs}

Queda(w) ==
    /\ ses[w].pc # "livre"
    /\ quedas < MaxQuedas /\ Falta
    /\ quedas' = quedas + 1
    /\ Devolvida(w)
    /\ execs' = Orfas(w)
    /\ Encerra(w)
    /\ UNCHANGED <<camp, item, lote, chunk, dono, lease, criados, gate, trocas, atrasos,
                   reentregas>>

QuedaVarredor ==
    /\ ses[Varredor].pc # "livre"
    /\ quedas < MaxQuedas /\ Falta
    /\ quedas' = quedas + 1
    /\ Encerra(Varredor)
    /\ UNCHANGED <<banco, gate, fila, trocas, atrasos, reentregas>>

(* Redis gives out again a message unacknowledged past the visibility      *)
(* timeout, while the first worker is still at it.                         *)
Reentrega(w) ==
    /\ ses[w].pc # "livre"
    /\ reentregas < MaxReentregas /\ Falta
    /\ reentregas' = reentregas + 1
    /\ Devolvida(w)
    /\ UNCHANGED <<banco, gate, ses, quedas, trocas, atrasos>>

-----------------------------------------------------------------------------
Init ==
    /\ camp = [c \in Campanhas |-> "nenhuma"]
    /\ item = [i \in Itens |-> "nenhum"]
    /\ lote = [i \in Itens |-> Nenhum]
    /\ chunk = [k \in Chunks |-> "nenhum"]
    /\ dono = [k \in Chunks |-> Nenhum]
    /\ lease = [k \in Chunks |-> "vencido"]
    /\ criados = 0
    /\ execs = {}
    /\ verde = TRUE
    /\ msgCamp = [c \in Campanhas |-> 0]
    /\ msgChunk = [k \in Chunks |-> 0]
    /\ msgDisp = FALSE
    /\ ses = [p \in Processos |-> SessaoVazia]
    /\ quedas = 0 /\ trocas = 0 /\ atrasos = 0 /\ reentregas = 0

CampanhaTask(w, c) ==
    \/ CampanhaEncerrada(w, c) \/ CampanhaRecupera(w, c)
    \/ CampanhaEspera(w, c) \/ CampanhaSemVaga(w, c) \/ CampanhaDecide(w, c)

ChunkTask(w, k) == ChunkIgnorado(w, k) \/ ChunkBarrado(w, k) \/ ChunkInicia(w, k)

Recuperacao(p) == RecReverte(p) \/ RecFinaliza(p) \/ RecPresas(p) \/ Publicar(p)

Prossegue(w) ==
    \/ Reservar(w) \/ ReservarNada(w) \/ Enfileirar(w)
    \/ IterarAborta(w) \/ IterarBarrado(w) \/ IterarComeca(w)
    \/ ItemSemCompanhia(w) \/ Finalizar(w) \/ Cancelar(w)
    \/ \E r \in ItemFeito : Materializar(w, r)
    \/ Recuperacao(w)

Ambiente ==
    \/ FechaGate \/ AbreGate \/ QuedaVarredor
    \/ \E k \in Chunks : LeaseVence(k) \/ LeaseAtrasa(k)
    \/ \E w \in Workers : Queda(w) \/ Reentrega(w)

Next ==
    \/ \E c \in Campanhas, S \in SUBSET Alvos, d \in BOOLEAN : CriarCampanha(c, S, d)
    \/ Despachar
    \/ \E w \in Workers, c \in Campanhas : CampanhaTask(w, c)
    \/ \E w \in Workers, k \in Chunks : ChunkTask(w, k)
    \/ \E w \in Workers : Prossegue(w)
    \/ Recuperacao(Varredor)
    \/ VarreStale
    \/ \E c \in Campanhas : VarrePendente(c) \/ Reativar(c) \/ Recuperar(c)
    \/ \E e \in execs, r \in ItemFeito : Reconcilia(e, r)
    \/ Ambiente

Spec == Init /\ [][Next]_vars

(* Every live worker goes on; the queue is first in, first out, so no      *)
(* message waits forever; beat fires both sweeps every minute; time        *)
(* passes.  Nothing obliges the gate to open.                              *)
Justica ==
    /\ \A w \in Workers : WF_vars(Prossegue(w))
    /\ \A c \in Campanhas : SF_vars(\E w \in Workers : CampanhaTask(w, c))
    /\ \A k \in Chunks : SF_vars(\E w \in Workers : ChunkTask(w, k))
    /\ WF_vars(Despachar)
    /\ WF_vars(Recuperacao(Varredor))
    /\ SF_vars(VarreStale)
    /\ \A c \in Campanhas : SF_vars(VarrePendente(c))
    /\ \A k \in Chunks : WF_vars(LeaseVence(k))

FairSpec == Spec /\ Justica

-----------------------------------------------------------------------------
Sessao ==
    [pc : Pcs, camp : Campanhas \cup {Nenhum}, chunk : Chunks \cup {Nenhum},
     resto : SUBSET Itens, lista : SUBSET Chunks,
     alcance : SUBSET Campanhas, afetadas : SUBSET Campanhas,
     slots : Int, falhou : BOOLEAN,
     campVista : [Campanhas -> CampStatus \cup {"ausente"}],
     chunkVisto : ChunkStatus, itemVisto : ItemStatus]

TypeOK ==
    /\ camp \in [Campanhas -> CampStatus]
    /\ item \in [Itens -> ItemStatus]
    /\ lote \in [Itens -> Chunks \cup {Nenhum}]
    /\ chunk \in [Chunks -> ChunkStatus]
    /\ dono \in [Chunks -> Campanhas \cup {Nenhum}]
    /\ lease \in [Chunks -> {"valido", "vencido", "stale"}]
    /\ criados \in 0..MaxChunks
    /\ execs \in SUBSET (Itens \X (Workers \cup {Nenhum}) \X Chunks)
    /\ verde \in BOOLEAN
    /\ msgCamp \in [Campanhas -> 0..MaxMensagens]
    /\ msgChunk \in [Chunks -> 0..MaxMensagens]
    /\ msgDisp \in BOOLEAN
    /\ ses \in [Processos -> Sessao]
    /\ quedas \in 0..MaxQuedas /\ trocas \in 0..MaxTrocas
    /\ atrasos \in 0..MaxAtrasos /\ reentregas \in 0..MaxReentregas

(* An item is never orphaned: while it is "running" it belongs to a queued *)
(* or running chunk of its own campaign, so that a worker or the recovery  *)
(* of stale chunks will still reach it.                                    *)
RunningSobChunkAtivo ==
    \A i \in Itens : item[i] = "running" =>
        /\ lote[i] \in Chunks
        /\ chunk[lote[i]] \in ChunkAtivo
        /\ dono[lote[i]] = i[1]

(* The inductive invariant behind RunningSobChunkAtivo, in named parts.    *)

(* Chunk ids are given out in order; a chunk that exists has a campaign,   *)
(* and messages, lists and items name only chunks that exist.              *)
ChunksCriados ==
    /\ \A k \in Chunks : k <= criados <=> chunk[k] # "nenhum"
    /\ \A k \in Chunks : k <= criados => dono[k] \in Campanhas
    /\ \A i \in Itens : lote[i] # Nenhum => lote[i] <= criados
    /\ \A k \in Chunks : msgChunk[k] > 0 => k <= criados
    /\ \A p \in Processos : \A k \in ses[p].lista : k <= criados

(* What a task in progress knows of its campaign and chunk.                *)
SessaoOk(p) ==
    /\ ses[p].pc \in PcChunk \cup {"reservar", "enfileirar"}
          => ses[p].camp \in Campanhas
    /\ ses[p].pc \in PcChunk \cup {"rec_fim"}
          => ses[p].chunk \in Chunks /\ ses[p].chunk <= criados
    /\ ses[p].pc = "enfileirar" => ses[p].lista # {}
    /\ ses[p].pc = "materializar" => ses[p].resto # {}

SessoesOk == \A p \in Processos : SessaoOk(p)

Correm(k) == {i \in ItensDoChunk(k) : item[i] = "running"}

(* A worker in the loop still has before it every running item of its      *)
(* chunk, also when the chunk was given to another worker; one about to    *)
(* close the chunk leaves none behind.                                     *)
RestoDe(p) ==
    /\ ses[p].pc \in {"iterar", "materializar"}
          => Correm(ses[p].chunk) \subseteq ses[p].resto
    /\ ses[p].pc = "materializar" /\ ses[p].itemVisto \in ItemFeito
          => Proximo(ses[p].resto) \notin Correm(ses[p].chunk)
    /\ ses[p].pc \in {"cancelar", "rec_fim"} => Correm(ses[p].chunk) = {}

RestoCobre == \A p \in Processos : RestoDe(p)

IInv == TypeOK /\ ChunksCriados /\ SessoesOk /\ RestoCobre /\ RunningSobChunkAtivo

(* No message came twice, and no chunk somebody works at was recovered.    *)
NinguemSeCruza == reentregas = 0 /\ atrasos = 0

(* A campaign that says it has ended has ended: none of its items is open, *)
(* and the stored status tells whether some, all or none of them failed.   *)
Confere(c) ==
    LET falhas == {i \in ItensDe(c) : item[i] = "failed"} IN
    /\ \A i \in ItensDe(c) : item[i] \notin ItemAtivo
    /\ camp[c] = "success" <=> falhas = {}
    /\ camp[c] = "failed"  => falhas = ItensDe(c)
    /\ camp[c] = "partial" => falhas # ItensDe(c)

CampanhaConfere ==
    NinguemSeCruza => \A c \in Campanhas : camp[c] \in CampTerminal => Confere(c)

(* A chunk closed as "success" leaves only successful items behind.        *)
SucessoInteiro(k) ==
    chunk[k] = "success" => \A i \in ItensDoChunk(k) : item[i] = "success"

ResultadoConfere == NinguemSeCruza => \A k \in Chunks : SucessoInteiro(k)

(* The chunks of a campaign with an unexpired lease never exceed the       *)
(* limit, whatever workers crash and whatever the campaign tasks that run  *)
(* at the same time.                                                       *)
CabeNoLimite(c) == Cardinality(ComLease(c)) <= MaxActiveChunks

LimiteComLease == NinguemSeCruza => \A c \in Campanhas : CabeNoLimite(c)

(* Two workers never materialize the same item at the same time, whatever  *)
(* crashes and is recovered.                                               *)
ItemExclusivo ==
    NinguemSeCruza =>
        \A v, w \in Workers :
            v # w /\ ses[v].pc = "materializar" /\ ses[w].pc = "materializar"
            => Proximo(ses[v].resto) # Proximo(ses[w].resto)

(* The order behind these four, which crashes do not disturb.  A chunk has *)
(* at most one bearer: a message, the worker that runs it or the claim     *)
(* that will send it; while it has one it is active, with a valid lease.   *)
Leva(w, k) == \/ ses[w].pc \in PcChunk /\ ses[w].chunk = k
              \/ ses[w].pc = "enfileirar" /\ k \in ses[w].lista

UmPortador(k) ==
    /\ msgChunk[k] <= 1
    /\ \A w \in Workers : Leva(w, k) =>
          msgChunk[k] = 0 /\ \A v \in Workers \ {w} : ~Leva(v, k)
    /\ msgChunk[k] > 0 \/ (\E w \in Workers : Leva(w, k)) =>
          chunk[k] \in ChunkAtivo /\ lease[k] = "valido"

SemPortador(k) == msgChunk[k] = 0 /\ \A w \in Workers : ~Leva(w, k)

(* What is recovered has no bearer.                                        *)
Recolhe(p) ==
    /\ ses[p].pc \in {"rec", "rec_fim"} => \A k \in ses[p].lista : SemPortador(k)
    /\ ses[p].pc = "rec_fim" => SemPortador(ses[p].chunk)

(* What a worker has left is of its chunk, and what it has done succeeded, *)
(* unless it recalls a failure.                                            *)
Trabalha(w) ==
    /\ ses[w].pc \in PcChunk => ses[w].camp = dono[ses[w].chunk]
    /\ ses[w].pc \in {"iterar", "materializar"} =>
          /\ ses[w].resto \subseteq ItensDoChunk(ses[w].chunk)
          /\ ses[w].falhou \/ \A i \in ItensDoChunk(ses[w].chunk) \ ses[w].resto :
                                 item[i] = "success"
    /\ ses[w].pc = "materializar" /\ ses[w].itemVisto \in ItemFeito =>
          item[Proximo(ses[w].resto)] = ses[w].itemVisto
    /\ ses[w].pc = "reservar" => ses[w].slots <= MaxActiveChunks

(* A pending item is in no chunk; the others are in one of their campaign. *)
EmSeuLote(i) == /\ item[i] = "pending" => lote[i] = Nenhum
                /\ lote[i] # Nenhum => dono[lote[i]] = i[1]

Encerrada(c) == camp[c] \in CampTerminal => AtivosDe(c) = {} /\ Confere(c)

Ordem == /\ \A k \in Chunks : UmPortador(k) /\ SucessoInteiro(k)
         /\ \A p \in Processos : Recolhe(p)
         /\ \A w \in Workers : Trabalha(w)
         /\ \A i \in Itens : EmSeuLote(i)
         /\ \A c \in Campanhas : Encerrada(c) /\ CabeNoLimite(c)

OrdemSemCruzar == NinguemSeCruza => Ordem

(* A chunk that was closed is never queued or running again.               *)
ChunkNaoRevive ==
    [][\A k \in Chunks : chunk[k] \in ChunkTerminal => chunk'[k] \in ChunkTerminal]_vars

(* No campaign holds a campaign slot forever, whether or not the gate      *)
(* opens again and whatever worker or message was lost.                    *)
VagaDevolvida ==
    \A c \in Campanhas : camp[c] = "running" ~> camp[c] # "running"

(* If the gate stays open from some time on, every campaign comes to its   *)
(* end, however often its work was cut short before.                       *)
RetomadaQuandoVerde ==
    <>[]Verde =>
        \A c \in Campanhas : camp[c] # "nenhuma" ~> camp[c] \in CampTerminal

(* The same while no worker is lost.                                       *)
RetomadaSemQueda ==
    <>[](Verde /\ quedas = 0) =>
        \A c \in Campanhas : camp[c] # "nenhuma" ~> camp[c] \in CampTerminal

-----------------------------------------------------------------------------
(* The queue as a pool of items that are worked at in batches (Lotes): an  *)
(* item is in its chunk while it runs, and a chunk is open until it is     *)
(* closed, whoever closes it.                                              *)
Posse   == [i \in Itens |-> IF item[i] = "running" THEN lote[i] ELSE Nenhum]
Estagio == [k \in Chunks |-> IF chunk[k] = "nenhum" THEN "nova"
                            ELSE IF chunk[k] \in ChunkAtivo THEN "aberto"
                            ELSE "fechado"]

Abstrata == INSTANCE Lotes WITH Tarefas <- Itens, Grupos <- Chunks,
                                Ninguem <- Nenhum, tarefa <- item,
                                posse <- Posse, grupo <- Estagio

(* What that rests on besides IInv: an item with a chunk, or before a      *)
(* worker, was taken once, and a campaign not yet created has no items.    *)
Trabalhado == ItemAtivo \cup ItemFeito
Historia ==
    /\ \A i \in Itens : lote[i] # Nenhum => item[i] \in Trabalhado
    /\ \A p \in Processos : \A i \in ses[p].resto : item[i] \in Trabalhado
    /\ \A i \in Itens : camp[i[1]] = "nenhuma" => item[i] = "nenhum"

(* Whatever crashes, late leases, redeliveries and sweeps do, every step   *)
(* of the queue is a step of that pool: no item is in two batches, none is *)
(* left in a batch that closed, none that was skipped is ever worked at,   *)
(* and no batch opens twice.                                               *)
EmLotes == Abstrata!SpecLotes
=============================================================================
