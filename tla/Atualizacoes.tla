---------------------------- MODULE Atualizacoes ----------------------------
(***************************************************************************)
(* The updates service for one scope, that is one annual source and year:  *)
(* app/updates/service.py (scanner, deep analysis, acknowledgement of a    *)
(* remote reference, trigger, discard), app/updates/lifecycle.py (link,    *)
(* finalization and read-repair), app/updates/router.py, and what the      *)
(* synchronization of app/worker/tasks.py does to a pending update.        *)
(*                                                                         *)
(* The scanner reads the open update of the scope, probes the publisher,   *)
(* and writes what it decided only when it commits: at the deep analysis   *)
(* or at the end of the scan.  Sessions keep the row they loaded           *)
(* (expire_on_commit=False), their writes are unconditional.               *)
(***************************************************************************)
EXTENDS Integers, FiniteSets, FiniteSetsExt

CONSTANTS
    Processos,        \* Celery worker slots and API requests under way
    Conteudos,        \* contents that the artifact may have
    MesmoTamanho,     \* all contents have one length
    MaxPendencias,    \* bound: rows of pending_updates
    MaxCorridas,      \* bound: ingestion runs, the first baseline included
    MaxVersoes,       \* bound: publications of the artifact
    MaxDisparos,      \* bound: triggers
    MaxDescartes,     \* bound: discards
    MaxCancelamentos, \* bound: runs cancelled
    MaxErros,         \* bound: exceptions
    MaxQuedas,        \* bound: workers lost
    Gastos            \* bound: what is used of these bounds at the start, a
                      \* set of scenarios

(* What the bounds count.                                                  *)
Eventos == {"deteccoes", "publicacoes", "disparos", "descartes",
            "cancelamentos", "erros", "quedas"}

ASSUME LimitesAtualizacoes ==
    /\ IsFiniteSet(Processos)
    /\ Conteudos # {}
    /\ 0 \notin Conteudos
    /\ MesmoTamanho \in BOOLEAN
    /\ {MaxPendencias, MaxCorridas, MaxVersoes} \subseteq Nat \ {0}
    /\ {MaxDisparos, MaxDescartes, MaxCancelamentos, MaxErros, MaxQuedas}
          \subseteq Nat
    /\ Gastos \subseteq [Eventos -> Nat]

VARIABLES
    auto,      \* settings.auto_analyze_on_detect
    remoto,    \* the artifact at the publisher: publication and content
    canonico,  \* the content that was last promoted
    corrida,   \* ingestion_runs of the scope, with their file
    pend,      \* pending_updates
    refs,      \* latest acknowledged reference of each baseline run
    analises,  \* deep analyses waiting in the broker
    ingestoes, \* synchronizations waiting in the broker, per pending update
    proc,      \* what each process is in the middle of
    usados     \* how many events of each bounded kind there have been

varsAtualizacoes == <<auto, remoto, canonico, corrida, pend, refs, analises,
                      ingestoes, proc, usados>>

(* Most steps touch only the rows, the broker or the process.              *)
fora  == <<auto, remoto, canonico>>
filas == <<analises, ingestoes>>

Pendencias == 1..MaxPendencias
Corridas   == 1..MaxCorridas

-----------------------------------------------------------------------------
(* Statuses.                                                               *)
Abertas == {"change_detected", "analysis_queued", "analyzing",
            "ready_for_ingestion", "content_unchanged"}
Analisaveis == {"change_detected", "analysis_queued", "content_unchanged"}
Reconciliaveis == {"triggered", "ingested", "ingestion_failed"}
StatusPendencia == Abertas \cup Reconciliaveis
                   \cup {"nenhuma", "analysis_failed", "stale",
                         "reference_updated", "discarded"}

Sucesso == {"sucesso", "skipped"}
Fracasso == {"falha", "cancelada"}
StatusCorrida == {"nenhuma", "ativa", "aguardando"} \cup Sucesso \cup Fracasso

(* igual: the summary proves total_changes = 0; etag: the probed           *)
(* publication; comparado: the one recorded by the analysis.               *)
Pendencia == [st: StatusPendencia, run: 0..MaxCorridas, base: 0..MaxCorridas,
              etag: 0..MaxVersoes, comparado: 0..MaxVersoes, igual: BOOLEAN,
              retry: BOOLEAN]
SemPendencia == [st |-> "nenhuma", run |-> 0, base |-> 0, etag |-> 0,
                 comparado |-> 0, igual |-> FALSE, retry |-> FALSE]

(* visto: the publication that was current when the file was registered    *)
(* (downloaded_at), 0 for a run without a file.                            *)
Corrida == [st: StatusCorrida, de: 0..MaxPendencias, retry: BOOLEAN,
            conteudo: Conteudos \cup {0}, visto: 0..MaxVersoes]
SemCorrida == [st |-> "nenhuma", de |-> 0, retry |-> FALSE, conteudo |-> 0,
               visto |-> 0]

Passos == {"livre", "sonda", "inserir", "atualizar", "marcar", "publicar",
           "comparar", "republicar", "disparar", "ligar", "baixar",
           "registrar", "aguardar", "promover", "fechar"}
Processo == [pc: Passos, p: 0..MaxPendencias, st: StatusPendencia,
             base: 0..MaxCorridas, etag: 0..MaxVersoes, r: 0..MaxCorridas]
Ocioso == [pc |-> "livre", p |-> 0, st |-> "nenhuma", base |-> 0, etag |-> 0,
           r |-> 0]

Desocupado(w) == proc[w].pc = "livre"
Larga(w)      == proc' = [proc EXCEPT ![w] = Ocioso]
Passa(w, pc, p, st, base, etag) ==
    proc' = [proc EXCEPT ![w] = [pc |-> pc, p |-> p, st |-> st, base |-> base,
                                 etag |-> etag, r |-> 0]]
Segue(w, pc)  == proc' = [proc EXCEPT ![w].pc = pc]
Usa(b, max)   == /\ usados[b] < max
                 /\ usados' = [usados EXCEPT ![b] = @ + 1]

PoeStatus(p, s) == pend' = [pend EXCEPT ![p].st = s]
NovaPendencia   == {p \in Pendencias : /\ usados["deteccoes"] < MaxPendencias
                                       /\ pend[p].st = "nenhuma"
                                       /\ \A q \in 1..(p - 1) :
                                            pend[q].st # "nenhuma"}
NovaCorrida     == {r \in Corridas : /\ corrida[r].st = "nenhuma"
                                     /\ \A q \in 1..(r - 1) :
                                          corrida[q].st # "nenhuma"}

(* The last successful run that has a file; 0 for none.                    *)
ComArquivo == {r \in Corridas : /\ corrida[r].st \in Sucesso
                               /\ corrida[r].visto # 0}
Ultima == Max({0} \cup ComArquivo)

-----------------------------------------------------------------------------
(* The publisher replaces the artifact, with other content or the same.    *)
Publicar(c) ==
    /\ Usa("publicacoes", MaxVersoes - 1)
    /\ remoto' = [versao |-> remoto.versao + 1, conteudo |-> c]
    /\ UNCHANGED <<auto, canonico, corrida, pend, refs, filas, proc>>

-----------------------------------------------------------------------------
(* The scanner.                                                            *)

(* Mutant of ScanLe: a discarded update is still taken for the open one.   *)
ScanLe_ComDescartadas(w) ==
    /\ Desocupado(w)
    /\ LET abertas == {p \in Pendencias :
                         pend[p].st \in Abertas \cup {"discarded"}}
       IN  \/ abertas = {} /\ Passa(w, "sonda", 0, "nenhuma", Ultima, 0)
           \/ \E p \in abertas :
                Passa(w, "sonda", p, pend[p].st, Ultima, pend[p].etag)
    /\ UNCHANGED <<fora, corrida, pend, refs, filas, usados>>

(* Last run and open update are read before the probe, which may be slow.  *)
ScanLe(w) ==
    /\ Desocupado(w)
    /\ LET abertas == {p \in Pendencias : pend[p].st \in Abertas}
       IN  \/ abertas = {} /\ Passa(w, "sonda", 0, "nenhuma", Ultima, 0)
           \/ \E p \in abertas :
                Passa(w, "sonda", p, pend[p].st, Ultima, pend[p].etag)
    /\ UNCHANGED <<fora, corrida, pend, refs, filas, usados>>

(* Mutant of MetadadosIguais: the length is not looked at.                 *)
MetadadosIguais_SemTamanho ==
    /\ Ultima # 0
    /\ remoto.versao <= corrida[Ultima].visto

(* probe_remote_source: the file of the last run has no ETag nor           *)
(* Last-Modified on record, only its length and when it was registered.    *)
MetadadosIguais ==
    /\ Ultima # 0
    /\ MesmoTamanho \/ remoto.conteudo = corrida[Ultima].conteudo
    /\ remoto.versao <= corrida[Ultima].visto

(* A reference acknowledged for that baseline overrides the comparison.    *)
SemMudanca(base) == IF base # 0 /\ refs[base] # 0
                    THEN refs[base] = remoto.versao
                    ELSE MetadadosIguais

(* An open update whose artifact is back at the baseline will be marked    *)
(* stale, whatever it has become by the time the scan commits.             *)
ScanInalterado(w) ==
    /\ proc[w].pc = "sonda"
    /\ SemMudanca(proc[w].base)
    /\ IF proc[w].p = 0 THEN Larga(w)
       ELSE Passa(w, "marcar", proc[w].p, "nenhuma", 0, 0)
    /\ UNCHANGED <<fora, corrida, pend, refs, filas, usados>>

Detectada(p, b, st) == pend' = [pend EXCEPT ![p] =
    [SemPendencia EXCEPT !.st = st, !.base = b, !.etag = remoto.versao]]

(* A change without an open update: a new row, analyzed at once or         *)
(* committed at the end of the scan (no row left: a bound, the scan ends). *)
ScanDetecta(w) ==
    /\ proc[w].pc = "sonda"
    /\ ~SemMudanca(proc[w].base)
    /\ proc[w].p = 0
    /\ IF auto
       THEN \/ \E p \in NovaPendencia :
                 /\ Detectada(p, proc[w].base, "analyzing")
                 /\ Usa("deteccoes", MaxPendencias)
                 /\ Passa(w, "comparar", p, "nenhuma", proc[w].base,
                          remoto.versao)
            \/ NovaPendencia = {} /\ Larga(w) /\ UNCHANGED <<pend, usados>>
       ELSE /\ Passa(w, "inserir", 0, "nenhuma", proc[w].base, remoto.versao)
            /\ UNCHANGED <<pend, usados>>
    /\ UNCHANGED <<fora, corrida, refs, filas>>

(* A change already being followed: the row is refreshed with the probe,   *)
(* unless it is the one that waits for its reference; what the session     *)
(* holds decides whether it is analyzed now.                               *)
ScanAcompanha(w) ==
    LET p    == proc[w].p
        st   == IF proc[w].st = "content_unchanged" THEN "change_detected"
                ELSE proc[w].st
        novo == [pend[p] EXCEPT !.etag = remoto.versao, !.igual = FALSE]
        aguarda == /\ proc[w].st = "content_unchanged"
                   /\ proc[w].etag = remoto.versao
    IN  /\ proc[w].pc = "sonda"
        /\ ~SemMudanca(proc[w].base)
        /\ p # 0
        /\ \/ /\ aguarda
              /\ Larga(w)
              /\ UNCHANGED pend
           \/ /\ ~aguarda
              /\ auto /\ st \in Analisaveis
              /\ pend' = [pend EXCEPT ![p] = [novo EXCEPT !.st = "analyzing"]]
              /\ Passa(w, "comparar", p, "nenhuma", pend[p].base,
                       remoto.versao)
           \/ /\ ~aguarda
              /\ ~auto \/ st \notin Analisaveis
              /\ Passa(w, "atualizar", p, proc[w].st, 0, remoto.versao)
              /\ UNCHANGED pend
        /\ UNCHANGED <<fora, corrida, refs, filas, usados>>

ScanErro(w) ==
    /\ proc[w].pc = "sonda"
    /\ Usa("erros", MaxErros)
    /\ Larga(w)
    /\ UNCHANGED <<fora, corrida, pend, refs, filas>>

(* The commit at the end of the scan.                                      *)
ScanInsere(w) ==
    /\ proc[w].pc = "inserir"
    /\ \/ \E p \in NovaPendencia :
            /\ pend' = [pend EXCEPT ![p] =
                 [SemPendencia EXCEPT !.st = "change_detected",
                                      !.base = proc[w].base,
                                      !.etag = proc[w].etag]]
            /\ Usa("deteccoes", MaxPendencias)
       \/ NovaPendencia = {} /\ UNCHANGED <<pend, usados>>
    /\ Larga(w)
    /\ UNCHANGED <<fora, corrida, refs, filas>>

ScanAtualiza(w) ==
    LET p == proc[w].p
    IN  /\ proc[w].pc = "atualizar"
        /\ pend' = [pend EXCEPT
              ![p].etag = proc[w].etag,
              ![p].igual = FALSE,
              ![p].st = IF proc[w].st = "content_unchanged"
                        THEN "change_detected" ELSE @]
        /\ Larga(w)
        /\ UNCHANGED <<fora, corrida, refs, filas, usados>>

ScanMarca(w) ==
    /\ proc[w].pc = "marcar"
    /\ PoeStatus(proc[w].p, "stale")
    /\ Larga(w)
    /\ UNCHANGED <<fora, corrida, refs, filas, usados>>

-----------------------------------------------------------------------------
(* The deep analysis.                                                      *)

(* The request is committed before its task is published; the API process  *)
(* may be lost in between (Queda).                                         *)
PedirAnalise(w, p) ==
    /\ Desocupado(w)
    /\ pend[p].st \in Analisaveis
    /\ PoeStatus(p, "analysis_queued")
    /\ Passa(w, "publicar", p, "nenhuma", 0, 0)
    /\ UNCHANGED <<fora, corrida, refs, filas, usados>>

PublicaAnalise(w) ==
    /\ proc[w].pc = "publicar"
    /\ analises' = analises \cup {proc[w].p}
    /\ Larga(w)
    /\ UNCHANGED <<fora, corrida, pend, refs, ingestoes, usados>>

(* run_deep_analysis in its own task; any other status ends it.            *)
AnaliseComeca(w, p) ==
    /\ Desocupado(w)
    /\ p \in analises
    /\ analises' = analises \ {p}
    /\ IF pend[p].st \in Analisaveis
       THEN /\ PoeStatus(p, "analyzing")
            /\ Passa(w, "comparar", p, "nenhuma", pend[p].base, pend[p].etag)
       ELSE UNCHANGED <<pend, proc>>
    /\ UNCHANGED <<fora, corrida, refs, ingestoes, usados>>

(* The download is compared with the baseline of the row.  The verdict is  *)
(* written over whatever status the row has by then, and the reference     *)
(* kept is the one the probe saw, not the file that was compared.          *)
AnaliseTermina(w) ==
    LET p     == proc[w].p
        igual == /\ proc[w].base # 0
                 /\ corrida[proc[w].base].conteudo = remoto.conteudo
    IN  /\ proc[w].pc = "comparar"
        /\ pend' = [pend EXCEPT
              ![p].st = IF igual THEN "content_unchanged"
                        ELSE "ready_for_ingestion",
              ![p].igual = igual,
              ![p].comparado = proc[w].etag]
        /\ Larga(w)
        /\ UNCHANGED <<fora, corrida, refs, filas, usados>>

AnaliseFalha(w) ==
    LET p == proc[w].p
    IN  /\ proc[w].pc = "comparar"
        /\ Usa("erros", MaxErros)
        /\ pend' = [pend EXCEPT ![p].st = "analysis_failed",
                                ![p].igual = FALSE]
        /\ Larga(w)
        /\ UNCHANGED <<fora, corrida, refs, filas>>

(* acknowledge_artifact_reference                                          *)
Reconhecer(p) ==
    /\ pend[p].st \in {"content_unchanged", "ready_for_ingestion"}
    /\ pend[p].igual
    /\ pend[p].base # 0
    /\ refs' = [refs EXCEPT ![pend[p].base] = pend[p].comparado]
    /\ PoeStatus(p, "reference_updated")
    /\ UNCHANGED <<fora, corrida, filas, proc, usados>>

-----------------------------------------------------------------------------
(* Trigger, retry, discard.                                                *)

(* The task is published first, the status is committed afterwards.        *)
DispararPublica(w, p) ==
    /\ Desocupado(w)
    /\ pend[p].st = "ready_for_ingestion"
    /\ Usa("disparos", MaxDisparos)
    /\ ingestoes' = [ingestoes EXCEPT ![p] = @ + 1]
    /\ Passa(w, "disparar", p, "nenhuma", 0, 0)
    /\ UNCHANGED <<fora, corrida, pend, refs, analises>>

Dispara(w) ==
    /\ proc[w].pc = "disparar"
    /\ PoeStatus(proc[w].p, "triggered")
    /\ Larga(w)
    /\ UNCHANGED <<fora, corrida, refs, filas, usados>>

(* retry-ingestion: back to ready in a commit of its own, then triggered   *)
(* from the status that the session holds.                                 *)
Reapresenta(w, p) ==
    /\ Desocupado(w)
    /\ pend[p].st = "ingestion_failed"
    /\ pend[p].retry
    /\ PoeStatus(p, "ready_for_ingestion")
    /\ Passa(w, "republicar", p, "nenhuma", 0, 0)
    /\ UNCHANGED <<fora, corrida, refs, filas, usados>>

Republica(w) ==
    /\ proc[w].pc = "republicar"
    /\ ingestoes' = [ingestoes EXCEPT ![proc[w].p] = @ + 1]
    /\ Segue(w, "disparar")
    /\ UNCHANGED <<fora, corrida, pend, refs, analises, usados>>

Descartar(p) ==
    /\ pend[p].st \notin {"nenhuma", "triggered", "discarded"}
    /\ Usa("descartes", MaxDescartes)
    /\ PoeStatus(p, "discarded")
    /\ UNCHANGED <<fora, corrida, refs, filas, proc>>

-----------------------------------------------------------------------------
(* Link and finalization.                                                  *)

Terminada(st) == st \in Sucesso \cup Fracasso

(* Mutant of Finalizada: the status of the run is stored as it is.         *)
Finalizada_Copia(u, r, st, retry) ==
    IF st \in Sucesso
    THEN [u EXCEPT !.st = "ingested", !.base = r, !.run = 0]
    ELSE IF st \in Fracasso
         THEN [u EXCEPT !.st = st, !.run = 0, !.retry = retry]
         ELSE u

(* finalize_pending_update_for_run: whatever status the row has.           *)
Finalizada(u, r, st, retry) ==
    IF st \in Sucesso
    THEN [u EXCEPT !.st = "ingested", !.base = r, !.run = 0]
    ELSE IF st \in Fracasso
         THEN [u EXCEPT !.st = "ingestion_failed", !.run = 0, !.retry = retry]
         ELSE u

(* Mutant of Reconciliar: only rows that are not linked are looked at.     *)
Reconciliar_SoLegado(p) ==
    /\ pend[p].st = "triggered"
    /\ pend[p].run = 0
    /\ pend[p].base # 0
    /\ pend' = [pend EXCEPT ![p] =
                   Finalizada(@, pend[p].base, "sucesso", FALSE)]
    /\ UNCHANGED <<fora, corrida, refs, filas, proc, usados>>

(* Mutant of Reconciliar: a run that has ended is taken as successful.      *)
Reconciliar_SemStatus(p) ==
    LET r == IF pend[p].run # 0 THEN pend[p].run
             ELSE IF pend[p].st = "triggered" THEN pend[p].base ELSE 0
    IN  /\ pend[p].st \in Reconciliaveis
        /\ r # 0
        /\ Terminada(corrida[r].st)
        /\ pend' = [pend EXCEPT ![p] = Finalizada(@, r, "sucesso", FALSE)]
        /\ UNCHANGED <<fora, corrida, refs, filas, proc, usados>>

(* reconcile_pending_updates, on every GET: the run that is linked, or, for *)
(* a triggered row without one, the last successful run on record.          *)
Reconciliar(p) ==
    LET r == IF pend[p].run # 0 THEN pend[p].run
             ELSE IF pend[p].st = "triggered" THEN pend[p].base ELSE 0
    IN  /\ pend[p].st \in Reconciliaveis
        /\ r # 0
        /\ Terminada(corrida[r].st)
        /\ pend' = [pend EXCEPT ![p] =
                       Finalizada(@, r, corrida[r].st, corrida[r].retry)]
        /\ UNCHANGED <<fora, corrida, refs, filas, proc, usados>>

-----------------------------------------------------------------------------
(* The synchronization that a trigger starts.                              *)

(* The run exists before the update is linked to it.                       *)
IngCria(w, p) ==
    /\ Desocupado(w)
    /\ ingestoes[p] > 0
    /\ \E r \in NovaCorrida :
         /\ corrida' = [corrida EXCEPT ![r] =
                          [SemCorrida EXCEPT !.st = "ativa", !.de = p]]
         /\ proc' = [proc EXCEPT ![w] =
                       [Ocioso EXCEPT !.pc = "ligar", !.p = p, !.r = r]]
    /\ ingestoes' = [ingestoes EXCEPT ![p] = @ - 1]
    /\ UNCHANGED <<fora, pend, refs, analises, usados>>

IngLiga(w) ==
    /\ proc[w].pc = "ligar"
    /\ pend' = [pend EXCEPT ![proc[w].p].st = "triggered",
                            ![proc[w].p].run = proc[w].r]
    /\ Segue(w, "baixar")
    /\ UNCHANGED <<fora, corrida, refs, filas, usados>>

IngBaixa(w) ==
    /\ proc[w].pc = "baixar"
    /\ corrida' = [corrida EXCEPT ![proc[w].r].conteudo = remoto.conteudo]
    /\ Segue(w, "registrar")
    /\ UNCHANGED <<fora, pend, refs, filas, usados>>

(* buscar_execucao_hash_existente: any earlier success with that hash.     *)
MesmoHash(r) == \E q \in Corridas \ {r} :
                   /\ corrida[q].st \in Sucesso
                   /\ corrida[q].conteudo = corrida[r].conteudo

(* Skipped: no file is registered, the update is finalized in a commit of  *)
(* its own.                                                                *)
IngPula(w) ==
    /\ proc[w].pc = "registrar"
    /\ MesmoHash(proc[w].r)
    /\ corrida' = [corrida EXCEPT ![proc[w].r].st = "skipped"]
    /\ Segue(w, "fechar")
    /\ UNCHANGED <<fora, pend, refs, filas, usados>>

IngFecha(w) ==
    LET r == proc[w].r
    IN  /\ proc[w].pc = "fechar"
        /\ pend' = [pend EXCEPT ![proc[w].p] =
                       Finalizada(@, r, corrida[r].st, corrida[r].retry)]
        /\ Larga(w)
        /\ UNCHANGED <<fora, corrida, refs, filas, usados>>

(* The file is registered without its ETag; the status of the run is       *)
(* written over a cancellation or a sweep.                                 *)
IngRegistra(w) ==
    /\ proc[w].pc = "registrar"
    /\ ~MesmoHash(proc[w].r)
    /\ corrida' = [corrida EXCEPT ![proc[w].r].st = "aguardando",
                                  ![proc[w].r].visto = remoto.versao]
    /\ Segue(w, "aguardar")
    /\ UNCHANGED <<fora, pend, refs, filas, usados>>

(* The second phase starts only from aguardando_ingestao; otherwise the    *)
(* task ends and the update stays as it is.                                *)
IngIngere(w) ==
    LET r == proc[w].r
    IN  /\ proc[w].pc = "aguardar"
        /\ IF corrida[r].st = "aguardando"
           THEN /\ corrida' = [corrida EXCEPT ![r].st = "ativa"]
                /\ Segue(w, "promover")
           ELSE /\ Larga(w)
                /\ UNCHANGED corrida
        /\ UNCHANGED <<fora, pend, refs, filas, usados>>

(* The end of the pipeline (module SincronizacaoZip): the members have been *)
(* promoted, or some failed after others were promoted; the update is       *)
(* finalized in the same commit.                                            *)
IngTermina(w) ==
    LET r == proc[w].r
        Fim(st) == /\ corrida' = [corrida EXCEPT ![r].st = st]
                   /\ pend' = [pend EXCEPT ![proc[w].p] =
                                 Finalizada(@, r, st, FALSE)]
    IN  /\ proc[w].pc = "promover"
        /\ \/ /\ corrida[r].st = "cancelada"
              /\ Fim("cancelada")
              /\ canonico' \in {canonico, corrida[r].conteudo}
              /\ UNCHANGED usados
           \/ /\ corrida[r].st # "cancelada"
              /\ Fim("sucesso")
              /\ canonico' = corrida[r].conteudo
              /\ UNCHANGED usados
           \/ /\ corrida[r].st # "cancelada"
              /\ Usa("erros", MaxErros)
              /\ Fim("falha")
              /\ canonico' \in {canonico, corrida[r].conteudo}
        /\ Larga(w)
        /\ UNCHANGED <<auto, remoto, refs, filas>>

(* An exception before the second phase: run failed and update finalized   *)
(* together; Celery may retry the task.                                    *)
IngErro(w) ==
    LET r == proc[w].r
        p == proc[w].p
    IN  /\ proc[w].pc \in {"baixar", "registrar"}
        /\ Usa("erros", MaxErros)
        /\ corrida' = [corrida EXCEPT ![r].st = "falha"]
        /\ pend' = [pend EXCEPT ![p] = Finalizada(@, r, "falha", FALSE)]
        /\ \/ ingestoes' = [ingestoes EXCEPT ![p] = @ + 1]
           \/ UNCHANGED ingestoes
        /\ Larga(w)
        /\ UNCHANGED <<fora, refs, analises>>

-----------------------------------------------------------------------------
(* Cancellation, recovery sweep, loss of a process.                        *)

CancelarCorrida(r) ==
    /\ corrida[r].st \in {"ativa", "aguardando"}
    /\ Usa("cancelamentos", MaxCancelamentos)
    /\ corrida' = [corrida EXCEPT ![r].st = "cancelada"]
    /\ UNCHANGED <<fora, pend, refs, filas, proc>>

EmCurso(r) == \E w \in Processos : proc[w].r = r

(* reconcile_stale_ingestion_phase_executions: a running phase without     *)
(* heartbeat, abandoned or only slow.  The update is not touched.          *)
Varrer(r) ==
    /\ corrida[r].st = "ativa"
    /\ IF EmCurso(r) THEN Usa("erros", MaxErros) ELSE UNCHANGED usados
    /\ \E retry \in BOOLEAN :
         corrida' = [corrida EXCEPT ![r].st = "falha", ![r].retry = retry]
    /\ UNCHANGED <<fora, pend, refs, filas, proc>>

(* The broker delivers again what a lost worker had not acknowledged: a    *)
(* synchronization before its second phase is started, an analysis that    *)
(* came from the queue.  A scan or a request is not repeated.              *)
Queda(w) ==
    LET p == proc[w].p
    IN  /\ ~Desocupado(w)
        /\ Usa("quedas", MaxQuedas)
        /\ ingestoes' = IF proc[w].pc \in {"ligar", "baixar", "registrar",
                                            "aguardar", "fechar"}
                        THEN [ingestoes EXCEPT ![p] = @ + 1] ELSE ingestoes
        /\ \/ proc[w].pc = "comparar" /\ analises' = analises \cup {p}
           \/ UNCHANGED analises
        /\ Larga(w)
        /\ UNCHANGED <<fora, corrida, pend, refs>>

-----------------------------------------------------------------------------
(* The specification.                                                      *)

InitAtualizacoes ==
    LET c == CHOOSE x \in Conteudos : TRUE IN
      /\ auto \in BOOLEAN
      /\ remoto = [versao |-> 1, conteudo |-> c]
      /\ canonico = c
      /\ corrida = [r \in Corridas |->
                      IF r = 1 THEN [SemCorrida EXCEPT !.st = "sucesso",
                                       !.conteudo = c, !.visto = 1]
                      ELSE SemCorrida]
      /\ pend = [p \in Pendencias |-> SemPendencia]
      /\ refs = [r \in Corridas |-> 0]
      /\ analises = {}
      /\ ingestoes = [p \in Pendencias |-> 0]
      /\ proc = [w \in Processos |-> Ocioso]
      /\ usados \in Gastos

(* What a process does once it has started, except to fail.                *)
Passo(w) ==
    \/ ScanInalterado(w)
    \/ ScanDetecta(w)
    \/ ScanAcompanha(w)
    \/ ScanInsere(w)
    \/ ScanAtualiza(w)
    \/ ScanMarca(w)
    \/ PublicaAnalise(w)
    \/ AnaliseTermina(w)
    \/ Dispara(w)
    \/ Republica(w)
    \/ IngLiga(w)
    \/ IngBaixa(w)
    \/ IngPula(w)
    \/ IngFecha(w)
    \/ IngRegistra(w)
    \/ IngIngere(w)
    \/ IngTermina(w)

NextAtualizacoes ==
    \/ \E c \in Conteudos : Publicar(c)
    \/ \E w \in Processos :
         \/ ScanLe(w)
         \/ Passo(w)
         \/ ScanErro(w)
         \/ AnaliseFalha(w)
         \/ IngErro(w)
         \/ Queda(w)
         \/ \E p \in Pendencias :
              \/ PedirAnalise(w, p)
              \/ AnaliseComeca(w, p)
              \/ DispararPublica(w, p)
              \/ Reapresenta(w, p)
              \/ IngCria(w, p)
    \/ \E p \in Pendencias : Reconhecer(p) \/ Descartar(p) \/ Reconciliar(p)
    \/ \E r \in Corridas : CancelarCorrida(r) \/ Varrer(r)

(* A process that has started goes on, a message is delivered, the beat     *)
(* scans and sweeps, and somebody lists the updates (every GET reconciles). *)
JusticaAtualizacoes ==
    /\ \A w \in Processos : WF_varsAtualizacoes(Passo(w))
    /\ WF_varsAtualizacoes(\E w \in Processos : ScanLe(w))
    /\ WF_varsAtualizacoes(\E p \in Pendencias : Reconciliar(p))
    /\ WF_varsAtualizacoes(\E r \in Corridas : ~EmCurso(r) /\ Varrer(r))
    /\ SF_varsAtualizacoes(\E w \in Processos, p \in Pendencias : IngCria(w, p))

SpecAtualizacoes == /\ InitAtualizacoes
                    /\ [][NextAtualizacoes]_varsAtualizacoes
                    /\ JusticaAtualizacoes

-----------------------------------------------------------------------------
(* Properties.                                                             *)

(* Types of the updates service: rows, runs, processes and counters.       *)
TipoAtualizacoes ==
    /\ auto \in BOOLEAN
    /\ remoto \in [versao: 1..MaxVersoes, conteudo: Conteudos]
    /\ canonico \in Conteudos
    /\ corrida \in [Corridas -> Corrida]
    /\ pend \in [Pendencias -> Pendencia]
    /\ refs \in [Corridas -> 0..MaxVersoes]
    /\ analises \subseteq Pendencias
    /\ ingestoes \in [Pendencias -> Nat]
    /\ proc \in [Processos -> Processo]
    /\ usados \in [Eventos -> Nat]

(* An update is linked only to a run that was made for it, and one that    *)
(* says it was ingested keeps, as its last successful run, a run that did  *)
(* succeed: whoever finalizes it, worker or read-repair, and whatever runs *)
(* are cancelled, swept or repeated in the meantime.                       *)
Vinculo ==
    \A p \in Pendencias :
      /\ pend[p].run # 0 => corrida[pend[p].run].de = p
      /\ pend[p].st = "ingested" => /\ pend[p].base # 0
                                    /\ corrida[pend[p].base].st \in Sucesso

(* The inductive invariant behind both.                                    *)

PcBaixado  == {"registrar", "aguardar", "promover"}
PcIngestao == PcBaixado \cup {"ligar", "baixar", "fechar"}

(* The bound on publications is what numbers them, a run that does not     *)
(* exist is of no update and has no content, and a process knows the row   *)
(* it is about.                                                            *)
Formas ==
    /\ remoto.versao - 1 <= usados["publicacoes"]
    /\ \A r \in Corridas : corrida[r].st = "nenhuma" =>
                              corrida[r].de = 0 /\ corrida[r].conteudo = 0
    /\ \A w \in Processos :
         proc[w].pc \notin {"livre", "sonda", "inserir"} => proc[w].p # 0

(* A synchronization has a run of its own, made for its update, that has   *)
(* not succeeded before its last step and has its content once downloaded. *)
Dona(w) ==
    LET r == proc[w].r IN
    /\ r # 0 <=> proc[w].pc \in PcIngestao
    /\ r # 0 => /\ corrida[r].de = proc[w].p
                /\ corrida[r].st \in Sucesso => proc[w].pc = "fechar"
                /\ proc[w].pc \in PcBaixado => corrida[r].conteudo # 0
                /\ \A v \in Processos \ {w} : proc[v].r # r

Donas == \A w \in Processos : Dona(w)

IInv == TipoAtualizacoes /\ Formas /\ Donas /\ Vinculo

(* A scan that judges the artifact unchanged by its metadata alone, with   *)
(* runs ending and files being replaced between its reads, is right about  *)
(* the content (given contents of different lengths).                      *)
DecisaoCerta ==
    [][\A w \in Processos :
         ScanInalterado(w) /\ (proc[w].base = 0 \/ refs[proc[w].base] = 0)
           => corrida[Ultima].conteudo = remoto.conteudo]_varsAtualizacoes

(* An acknowledged reference never vouches for a content that its baseline *)
(* run did not ingest, whatever was published, analyzed or ingested        *)
(* between the probe and the acknowledgement.                              *)
ReferenciaIgual ==
    \A r \in Corridas :
      refs[r] = remoto.versao => corrida[r].conteudo = remoto.conteudo

(* While the artifact differs from the last content that was ingested, some *)
(* update of the scope keeps being open or under synchronization: no change *)
(* is lost between scans, analyses, stale marks and discards (unless an     *)
(* acknowledged reference says that nothing changed, or the bound on rows   *)
(* is reached).                                                             *)
MudancaVista ==
    []<>(\/ remoto.conteudo = corrida[Ultima].conteudo
         \/ refs[Ultima] = remoto.versao
         \/ \E p \in Pendencias : pend[p].st \in Abertas \cup {"triggered"}
         \/ NovaPendencia = {})

(* A triggered update does not stay triggered: its run, or the read-repair *)
(* of every GET, ends it even when a worker is lost (unless the bound on   *)
(* runs is reached).                                                       *)
Resolve == \A p \in Pendencias :
             pend[p].st = "triggered"
               ~> pend[p].st # "triggered" \/ NovaCorrida = {}
=============================================================================
