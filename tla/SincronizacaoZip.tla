-------------------------- MODULE SincronizacaoZip --------------------------
(***************************************************************************)
(* Synchronization of one annual ZIP source of one year:                   *)
(* app/worker/tasks.py (pre-process, ingest, member, dispatch of           *)
(* dependents, finalization), the administrative endpoints that start and  *)
(* cancel it (app/api/routers/admin.py) and the sweep of stale phases      *)
(* (app/services/ingestion/operational.py).                                *)
(*                                                                         *)
(* A step of this module runs from one database commit, or publication of  *)
(* messages, of a task to the next, together with the reads in between;    *)
(* ingest, dispatch and finalization, which other tasks of the same        *)
(* execution may race, have a step of their own for what they read.        *)
(* Assignments are blind: the session holds the row it loaded, and the     *)
(* UPDATE has no condition on the status that is being replaced.           *)
(*                                                                         *)
(* A member's content is a version number, its hash the same number: two   *)
(* ZIPs have one hash when they agree on every member.                     *)
(***************************************************************************)
EXTENDS Integers, FiniteSets

CONSTANTS
    Membros,          \* CSV members of the ZIP
    Cabecalho,        \* the member that carries the document headers
    Workers,          \* Celery worker slots on the ingestion queues
    Nenhum,           \* no member
    Financeiro,       \* the source is dfp or itr
    Janela,           \* ingestion_max_active_members_per_parent
    Versoes,          \* contents that a member may have at the publisher
    Vazias,           \* ... those with no row to process
    PaiLento,         \* a parent may outlive its heartbeat with tasks alive
    MaxPedidos,       \* bound: synchronizations requested
    MaxPosts,         \* bound: requests to ingest what was pre-processed
    MaxQuedas,        \* bound: workers lost
    MaxErros,         \* bound: exceptions
    MaxReentregas,    \* bound: redeliveries by the visibility timeout
    MaxCancelamentos, \* bound: cancellations
    MaxMudancas,      \* bound: changes at the publisher
    Gastos            \* how much of each bound is used up from the start

ASSUME ConstantesOk ==
    /\ IsFiniteSet(Membros)
    /\ Cabecalho \in Membros
    /\ Nenhum \notin Membros
    /\ Financeiro \in BOOLEAN
    /\ Janela \in Nat \ {0}
    /\ Versoes \subseteq Nat \ {0}
    /\ Versoes # {}
    /\ Vazias \subseteq Versoes
    /\ PaiLento \in BOOLEAN
    /\ {MaxPedidos, MaxPosts, MaxQuedas, MaxErros, MaxReentregas,
        MaxCancelamentos, MaxMudancas} \subseteq Nat
    /\ Gastos \subseteq [{"pedidos", "posts", "quedas", "erros", "reentregas",
                          "cancelamentos", "mudancas"} -> Nat]

VARIABLES
    fonte,      \* the members' content at the publisher
    pai,        \* execucoes_sincronizacao.status of each parent
    corrida,    \* ingestion_runs.status of each parent
    filho,      \* execucoes_sincronizacao.status of each parent's members
    zip,        \* the content each parent downloaded (hash_arquivo)
    promovidos, \* every content of a member that was ever processed
    campanhas,  \* parents that created a materialization campaign
    fila,       \* messages waiting in the broker
    coros,      \* chords with members still to return
    ses,        \* the task each worker runs
    gasto       \* how much of each bound is used

banco  == <<pai, corrida, filho, zip>>
dados  == <<promovidos, campanhas>>
celery == <<fila, coros, ses>>
vars   == <<fonte, banco, dados, celery, gasto>>

-----------------------------------------------------------------------------
(* Every request has a row of its own, and so has every delivery of one    *)
(* whose row is no longer "agendada": this many rows always suffice.       *)
Execs == 1..(MaxPedidos + MaxQuedas + MaxErros + MaxReentregas
             + MaxCancelamentos)

Dependentes     == Membros \ {Cabecalho}
Final           == {"sucesso", "skipped", "falha", "cancelada"}
Aproveitavel    == {"sucesso", "skipped"}
Ativo           == {"agendada", "em_execucao"}

(* sem_alteracao, sucesso_com_alerta and falha_qualidade, which the code   *)
(* knows, are never stored for this pipeline (see Veredito).               *)
StatusExecucao  == Final \cup Ativo \cup {"nenhuma", "aguardando_ingestao"}

SemZip == [x \in Membros |-> 0]

Mensagem == [tipo  : {"sinc", "pre", "ingerir", "membro", "disparar",
                      "finalizar"},
             exec  : Execs \cup {0},
             membro: Membros \cup {Nenhum},
             coro  : SUBSET Dependentes]

Msg(t, e)         == [tipo |-> t, exec |-> e, membro |-> Nenhum, coro |-> {}]
MsgMembro(e, x, S) == [tipo |-> "membro", exec |-> e, membro |-> x, coro |-> S]

PcPai == {"correr", "baixar", "preparar", "ing_ler", "ing_gravar",
          "cabecalho", "publicar"}
PcFim == {"disp_gravar", "disp_publicar", "fin_gravar", "campanha"}
Pcs   == {"livre", "processar"} \cup PcPai \cup PcFim

SessaoLivre == [pc |-> "livre", msg |-> Msg("pre", 0), exec |-> 0,
                eleitos |-> {}, lido |-> "nenhuma", fim |-> "nenhuma"]

Sessao(pc, m, e) == [SessaoLivre EXCEPT !.pc = pc, !.msg = m, !.exec = e]

Livre(w)   == ses[w].pc = "livre"
Vai(w, pc) == ses' = [ses EXCEPT ![w].pc = pc]
Solta(w)   == ses' = [ses EXCEPT ![w] = SessaoLivre]

Gasta(b, max) == /\ gasto[b] < max
                 /\ gasto' = [gasto EXCEPT ![b] = @ + 1]

(* Celery puts the message of a task that asked for a retry back in the    *)
(* queue, until the exception or the attempts leave no retry.              *)
Repete(w) == \/ fila' = fila \cup {ses[w].msg}
             \/ UNCHANGED fila

-----------------------------------------------------------------------------
(* Reuse of earlier results, by the hash of the ZIP and by member.         *)
MesmoZip(e) ==
    \E f \in Execs \ {e} : pai[f] \in Aproveitavel /\ zip[f] = fonte

(* Mutant of Reusa: any earlier attempt at the same content is reused.     *)
Reusa_QualquerFim(e, x) ==
    \E f \in Execs \ {e} : /\ filho[f][x] \in Final
                          /\ zip[f][x] = zip[e][x]

Reusa(e, x) ==
    \E f \in Execs \ {e} :
        /\ filho[f][x] # "nenhuma"
        /\ zip[f][x] = zip[e][x]
        /\ corrida[f] \in Aproveitavel \/ filho[f][x] \in Aproveitavel

Nova(e) == /\ pai[e] = "nenhuma"
           /\ \A f \in Execs : f < e => pai[f] # "nenhuma"

-----------------------------------------------------------------------------
(* Requests of the operator.                                               *)

(* The row is committed before the message is published: publication may   *)
(* fail, or the API process may be lost in between.                        *)
Agendar ==
    /\ Gasta("pedidos", MaxPedidos)
    /\ \E e \in Execs :
        /\ Nova(e)
        /\ \/ /\ pai' = [pai EXCEPT ![e] = "agendada"]
              /\ fila' \in {fila, fila \cup {Msg("sinc", e)}}
           \/ /\ pai' = [pai EXCEPT ![e] = "falha"]
              /\ UNCHANGED fila
    /\ UNCHANGED <<fonte, corrida, filho, zip, dados, coros, ses>>

(* Two-step dispatch: only the first phase, with no row of its own yet.    *)
PedirPreProcesso ==
    /\ MaxPosts > 0
    /\ Gasta("pedidos", MaxPedidos)
    /\ fila' = fila \cup {Msg("pre", 0)}
    /\ UNCHANGED <<fonte, banco, dados, coros, ses>>

PedirIngestao(e) ==
    /\ pai[e] = "aguardando_ingestao"
    /\ Gasta("posts", MaxPosts)
    /\ fila' = fila \cup {Msg("ingerir", e)}
    /\ UNCHANGED <<fonte, banco, dados, coros, ses>>

(* The tasks of an execution whose ids its rows record.                    *)
Revogaveis(e, S) ==
    {w \in Workers : /\ ses[w].exec = e
                     /\ \/ ses[w].pc \in PcPai /\ Nenhum \in S
                        \/ ses[w].pc = "processar" /\ ses[w].msg.membro \in S}

(* Revocation is best effort: it may stop any of the known tasks, or none. *)
Revoga(e, S) ==
    \E mortos \in SUBSET Revogaveis(e, S) :
        ses' = [w \in Workers |-> IF w \in mortos THEN SessaoLivre ELSE ses[w]]

Cancelar(e) ==
    /\ pai[e] \notin Final \cup {"nenhuma"}
    /\ Gasta("cancelamentos", MaxCancelamentos)
    /\ pai' = [pai EXCEPT ![e] = "cancelada"]
    /\ filho' = [filho EXCEPT ![e] =
          [x \in Membros |-> IF @[x] \in Final \cup {"nenhuma"}
                             THEN @[x] ELSE "cancelada"]]
    /\ corrida' = IF corrida[e] \in Final \cup {"nenhuma"} THEN corrida
                  ELSE [corrida EXCEPT ![e] = "cancelada"]
    /\ Revoga(e, Membros \cup {Nenhum})
    /\ fila' \in {fila, fila \ {Msg("sinc", e)}}
    /\ UNCHANGED <<fonte, zip, dados, coros>>

CancelarMembro(e, x) ==
    /\ filho[e][x] \notin Final \cup {"nenhuma"}
    /\ Gasta("cancelamentos", MaxCancelamentos)
    /\ filho' = [filho EXCEPT ![e][x] = "cancelada"]
    /\ Revoga(e, {x})
    /\ UNCHANGED <<fonte, pai, corrida, zip, dados, fila, coros>>

(* The publisher replaces a member.                                        *)
FonteMuda(x, v) ==
    /\ fonte[x] # v
    /\ Gasta("mudancas", MaxMudancas)
    /\ fonte' = [fonte EXCEPT ![x] = v]
    /\ UNCHANGED <<banco, dados, celery>>

-----------------------------------------------------------------------------
(* First phase: pre_processar_sincronizacao_zip.                           *)

(* The row with this task's id is adopted only while "agendada"; a retry   *)
(* and a redelivery get a new one.                                         *)
Adotada(m) == IF m.tipo = "sinc" /\ pai[m.exec] = "agendada"
              THEN {m.exec} ELSE {e \in Execs : Nova(e)}

Adotar(w, m) ==
    /\ Livre(w)
    /\ m \in fila
    /\ m.tipo \in {"sinc", "pre"}
    /\ \E e \in Adotada(m) :
        /\ pai' = [pai EXCEPT ![e] = "em_execucao"]
        /\ ses' = [ses EXCEPT ![w] = Sessao("correr", m, e)]
    /\ fila' = fila \ {m}
    /\ UNCHANGED <<fonte, corrida, filho, zip, dados, coros, gasto>>

CriarCorrida(w) ==
    /\ ses[w].pc = "correr"
    /\ corrida' = [corrida EXCEPT ![ses[w].exec] = "em_execucao"]
    /\ Vai(w, "baixar")
    /\ UNCHANGED <<fonte, pai, filho, zip, dados, fila, coros, gasto>>

BaixarIgual(w) ==
    LET e == ses[w].exec
    IN  /\ ses[w].pc = "baixar"
        /\ MesmoZip(e)
        /\ zip' = [zip EXCEPT ![e] = fonte]
        /\ pai' = [pai EXCEPT ![e] = "skipped"]
        /\ corrida' = [corrida EXCEPT ![e] = "skipped"]
        /\ Solta(w)
        /\ UNCHANGED <<fonte, filho, dados, fila, coros, gasto>>

BaixarNovo(w) ==
    /\ ses[w].pc = "baixar"
    /\ ~MesmoZip(ses[w].exec)
    /\ zip' = [zip EXCEPT ![ses[w].exec] = fonte]
    /\ Vai(w, "preparar")
    /\ UNCHANGED <<fonte, pai, corrida, filho, dados, fila, coros, gasto>>

Preparar(w) ==
    LET e == ses[w].exec
    IN  /\ ses[w].pc = "preparar"
        /\ filho' = [filho EXCEPT ![e] =
              [x \in Membros |-> IF Reusa(e, x) THEN "skipped"
                                 ELSE "aguardando_ingestao"]]
        /\ pai' = [pai EXCEPT ![e] = "aguardando_ingestao"]
        /\ corrida' = [corrida EXCEPT ![e] = "aguardando_ingestao"]
        /\ IF ses[w].msg.tipo = "sinc" THEN Vai(w, "ing_ler") ELSE Solta(w)
        /\ UNCHANGED <<fonte, zip, dados, fila, coros, gasto>>

-----------------------------------------------------------------------------
(* Second phase: ingerir_sincronizacao_zip.                                *)

PegarIngestao(w, m) ==
    /\ Livre(w)
    /\ m \in fila
    /\ m.tipo = "ingerir"
    /\ fila' = fila \ {m}
    /\ IF pai[m.exec] = "cancelada" THEN UNCHANGED ses
       ELSE ses' = [ses EXCEPT ![w] = Sessao("ing_ler", m, m.exec)]
    /\ UNCHANGED <<fonte, banco, dados, coros, gasto>>

IngerirLe(w) ==
    /\ ses[w].pc = "ing_ler"
    /\ IF pai[ses[w].exec] = "aguardando_ingestao" THEN Vai(w, "ing_gravar")
       ELSE Solta(w)
    /\ UNCHANGED <<fonte, banco, dados, fila, coros, gasto>>

IngerirGrava(w) ==
    LET e == ses[w].exec
    IN  /\ ses[w].pc = "ing_gravar"
        /\ pai' = [pai EXCEPT ![e] = "em_execucao"]
        /\ corrida' = [corrida EXCEPT ![e] = "em_execucao"]
        /\ Vai(w, "cabecalho")
        /\ UNCHANGED <<fonte, filho, zip, dados, fila, coros, gasto>>

AgendarCabecalho(w) ==
    LET e == ses[w].exec
    IN  /\ ses[w].pc = "cabecalho"
        /\ IF filho[e][Cabecalho] = "skipped"
           THEN ses' = [ses EXCEPT ![w].pc = "publicar"] /\ UNCHANGED filho
           ELSE /\ filho' = [filho EXCEPT ![e][Cabecalho] = "agendada"]
                /\ ses' = [ses EXCEPT ![w].pc = "publicar",
                                      ![w].eleitos = {Cabecalho}]
        /\ UNCHANGED <<fonte, pai, corrida, zip, dados, fila, coros, gasto>>

(* Mutant of PublicarFase2: the two tasks are published apart, unchained.  *)
PublicarFase2_SemChain(w) ==
    LET e == ses[w].exec
    IN  /\ ses[w].pc = "publicar"
        /\ fila' = fila \cup {Msg("disparar", e)} \cup
                   {MsgMembro(e, x, {}) : x \in ses[w].eleitos}
        /\ Solta(w)
        /\ UNCHANGED <<fonte, banco, dados, coros, gasto>>

(* A chain of the header's task and the dispatch of the dependents.        *)
PublicarFase2(w) ==
    LET e == ses[w].exec
    IN  /\ ses[w].pc = "publicar"
        /\ fila' = fila \cup {IF ses[w].eleitos = {} THEN Msg("disparar", e)
                              ELSE MsgMembro(e, Cabecalho, {})}
        /\ Solta(w)
        /\ UNCHANGED <<fonte, banco, dados, coros, gasto>>

(* An exception that the handlers of the two phases turn into "falha" ...  *)
ErroComStatus(w) ==
    LET e == ses[w].exec
    IN  /\ ses[w].pc \in {"baixar", "preparar", "cabecalho", "publicar"}
        /\ Gasta("erros", MaxErros)
        /\ pai' = [pai EXCEPT ![e] = "falha"]
        /\ corrida' = [corrida EXCEPT ![e] = "falha"]
        /\ Repete(w)
        /\ Solta(w)
        /\ UNCHANGED <<fonte, filho, zip, dados, coros>>

(* ... and DependencyNotReady, raised before ingerir has a handler.        *)
DependenciaAusente(w) ==
    /\ ses[w].pc = "ing_ler"
    /\ Gasta("erros", MaxErros)
    /\ Repete(w)
    /\ Solta(w)
    /\ UNCHANGED <<fonte, banco, dados, coros>>

-----------------------------------------------------------------------------
(* Members: sincronizar_member_internal, in a chain or in a chord.         *)

CoroDe(m)    == {c \in coros : c.exec = m.exec /\ c.membros = m.coro}
Completo(c)  == c.prontos = c.membros
ComPronto(m) == {[c EXCEPT !.prontos = @ \cup {m.membro}] : c \in CoroDe(m)}

(* A member task returned: the chain goes on, or the chord counts it and   *)
(* runs its body when it was the last.  Results are kept by task, so a     *)
(* second return of one task is not counted twice.                         *)
Retorna(m, f) ==
    LET contados == ComPronto(m)
        segue    == m.coro = {} \/ \E c \in contados : Completo(c)
    IN  /\ coros' = (coros \ CoroDe(m)) \cup {c \in contados : ~Completo(c)}
        /\ fila' = IF segue THEN f \cup {Msg("disparar", m.exec)} ELSE f

MembroBarrado(w, m) ==
    LET e == m.exec
        x == m.membro
    IN  /\ Livre(w)
        /\ m \in fila
        /\ m.tipo = "membro"
        /\ "cancelada" \in {pai[e], filho[e][x]}
        /\ filho' = IF filho[e][x] \in Final THEN filho
                    ELSE [filho EXCEPT ![e][x] = "cancelada"]
        /\ Retorna(m, fila \ {m})
        /\ UNCHANGED <<fonte, pai, corrida, zip, dados, ses, gasto>>

(* Any other status is overwritten, a final one included.                  *)
MembroComeca(w, m) ==
    /\ Livre(w)
    /\ m \in fila
    /\ m.tipo = "membro"
    /\ "cancelada" \notin {pai[m.exec], filho[m.exec][m.membro]}
    /\ filho' = [filho EXCEPT ![m.exec][m.membro] = "em_execucao"]
    /\ ses' = [ses EXCEPT ![w] = Sessao("processar", m, m.exec)]
    /\ fila' = fila \ {m}
    /\ UNCHANGED <<fonte, pai, corrida, zip, dados, coros, gasto>>

(* The quality gate.  The summary it is given counts the rows, but not the *)
(* reasons of the rejected ones (build_contadores_quality_summary), so     *)
(* only a member with no row at all can fail it.                           *)
Veredito(v) == IF v \in Vazias THEN "falha" ELSE "sucesso"

(* The rows are promoted before the gate is asked.                         *)
MembroTermina(w) ==
    LET m == ses[w].msg
        v == zip[m.exec][m.membro]
    IN  /\ ses[w].pc = "processar"
        /\ filho' = [filho EXCEPT ![m.exec][m.membro] = Veredito(v)]
        /\ promovidos' = IF v \in Vazias THEN promovidos
                         ELSE promovidos \cup {<<m.membro, v>>}
        /\ Retorna(m, fila)
        /\ Solta(w)
        /\ UNCHANGED <<fonte, pai, corrida, zip, campanhas, gasto>>

(* An exception breaks the chain or the chord, unless it is retried.       *)
MembroErra(w) ==
    LET m == ses[w].msg
    IN  /\ ses[w].pc = "processar"
        /\ Gasta("erros", MaxErros)
        /\ filho' = [filho EXCEPT ![m.exec][m.membro] = "falha"]
        /\ Repete(w)
        /\ Solta(w)
        /\ UNCHANGED <<fonte, pai, corrida, zip, dados, coros>>

-----------------------------------------------------------------------------
(* Dispatch of the dependents: disparar_dependentes_task.                  *)

(* Mutant of Pendentes: a failed member is dispatched again.               *)
Pendentes_ComFalha(e) ==
    {x \in Dependentes :
       filho[e][x] \notin (Final \ {"falha"}) \cup Ativo}

EmAtividade(e) == {x \in Dependentes : filho[e][x] \in Ativo}
Pendentes(e)   == {x \in Dependentes :
                     filho[e][x] \notin Final \cup Ativo}
Menor(a, b)    == IF a <= b THEN a ELSE b

(* Mutant of Vaga: the window has one place too many.                      *)
Vaga_MaisUma(e) == IF Financeiro
                   THEN Menor(Janela + 1, Cardinality(Pendentes(e)))
                   ELSE Cardinality(Pendentes(e))

Vaga(e) == IF Financeiro THEN Menor(Janela, Cardinality(Pendentes(e)))
           ELSE Cardinality(Pendentes(e))

(* Mutant of Barrado: members still active do not hold the dispatch.       *)
Barrado_SemEspera(e) == \/ pai[e] = "cancelada"
                        \/ filho[e][Cabecalho] = "falha"

Barrado(e) == \/ pai[e] = "cancelada"
              \/ filho[e][Cabecalho] = "falha"      \* RuntimeError
              \/ EmAtividade(e) # {}                \* waiting_active_members

DespachoBarrado(w, m) ==
    /\ Livre(w)
    /\ m \in fila
    /\ m.tipo = "disparar"
    /\ Barrado(m.exec)
    /\ fila' = fila \ {m}
    /\ UNCHANGED <<fonte, banco, dados, coros, ses, gasto>>

DespachoLe(w, m) ==
    /\ Livre(w)
    /\ m \in fila
    /\ m.tipo = "disparar"
    /\ ~Barrado(m.exec)
    /\ fila' = fila \ {m}
    /\ \E S \in SUBSET Pendentes(m.exec) :
        /\ Cardinality(S) = Vaga(m.exec)
        /\ ses' = [ses EXCEPT ![w] =
              [Sessao("disp_gravar", m, m.exec) EXCEPT !.eleitos = S]]
    /\ UNCHANGED <<fonte, banco, dados, coros, gasto>>

DespachoGrava(w) ==
    LET e == ses[w].exec
    IN  /\ ses[w].pc = "disp_gravar"
        /\ filho' = [filho EXCEPT ![e] =
              [x \in Membros |-> IF x \in ses[w].eleitos THEN "agendada"
                                 ELSE @[x]]]
        /\ Vai(w, "disp_publicar")
        /\ UNCHANGED <<fonte, pai, corrida, zip, dados, fila, coros, gasto>>

(* A chord of the chosen members whose body is this dispatch again, or,    *)
(* when nothing is left to choose, the finalization.                       *)
DespachoPublica(w) ==
    LET e == ses[w].exec
        S == ses[w].eleitos
    IN  /\ ses[w].pc = "disp_publicar"
        /\ IF S = {}
           THEN fila' = fila \cup {Msg("finalizar", e)} /\ UNCHANGED coros
           ELSE /\ fila' = fila \cup {MsgMembro(e, x, S) : x \in S}
                /\ coros' = coros \cup
                     {[exec |-> e, membros |-> S, prontos |-> {}]}
        /\ Solta(w)
        /\ UNCHANGED <<fonte, banco, dados, gasto>>

-----------------------------------------------------------------------------
(* finalizar_sincronizacao_zip_task.                                       *)

(* Mutants of Desfecho: a status that is not one of an execution's, and a  *)
(* failed member forgotten.                                                *)
Desfecho_Grafia(e) ==
    IF pai[e] = "cancelada" THEN "cancelada"
    ELSE IF \E x \in Membros : filho[e][x] \in Ativo \cup {"falha"}
         THEN "falhou" ELSE "sucesso"

Desfecho_SemFalha(e) ==
    IF pai[e] = "cancelada" THEN "cancelada"
    ELSE IF \E x \in Membros : filho[e][x] \in Ativo THEN "falha" ELSE "sucesso"

Desfecho(e) ==
    IF pai[e] = "cancelada" THEN "cancelada"
    ELSE IF \E x \in Membros : filho[e][x] \in Ativo \cup {"falha"}
         THEN "falha" ELSE "sucesso"

(* Mutant of FinalizaLe: what was already finalized is not done again.     *)
FinalizaLe_UmaVez(w, m) ==
    /\ Livre(w)
    /\ m \in fila
    /\ m.tipo = "finalizar"
    /\ fila' = fila \ {m}
    /\ IF pai[m.exec] \in Final THEN UNCHANGED ses
       ELSE ses' = [ses EXCEPT ![w] =
               [Sessao("fin_gravar", m, m.exec) EXCEPT
                  !.lido = pai[m.exec], !.fim = Desfecho(m.exec)]]
    /\ UNCHANGED <<fonte, banco, dados, coros, gasto>>

FinalizaLe(w, m) ==
    /\ Livre(w)
    /\ m \in fila
    /\ m.tipo = "finalizar"
    /\ fila' = fila \ {m}
    /\ ses' = [ses EXCEPT ![w] =
          [Sessao("fin_gravar", m, m.exec) EXCEPT
             !.lido = pai[m.exec], !.fim = Desfecho(m.exec)]]
    /\ UNCHANGED <<fonte, banco, dados, coros, gasto>>

(* No UPDATE is sent for a status equal to the one that was read.          *)
FinalizaGrava(w) ==
    LET e == ses[w].exec
        s == ses[w].fim
    IN  /\ ses[w].pc = "fin_gravar"
        /\ pai' = IF s = ses[w].lido THEN pai ELSE [pai EXCEPT ![e] = s]
        /\ corrida' = [corrida EXCEPT ![e] = s]
        /\ IF s = "sucesso" /\ Financeiro THEN Vai(w, "campanha") ELSE Solta(w)
        /\ UNCHANGED <<fonte, filho, zip, dados, fila, coros, gasto>>

TemDemonstracoes == \E p \in promovidos : p[1] \in Dependentes

CriarCampanha(w) ==
    /\ ses[w].pc = "campanha"
    /\ campanhas' = IF TemDemonstracoes THEN campanhas \cup {ses[w].exec}
                    ELSE campanhas
    /\ Solta(w)
    /\ UNCHANGED <<fonte, banco, promovidos, fila, coros, gasto>>

-----------------------------------------------------------------------------
(* The sweep of stale phases: reconcile_stale_ingestion_phase_executions.  *)
(* A parent's heartbeat is written when ingestion starts and never again;  *)
(* a member's, only on the financial path, while its task is at work.      *)

Trabalhando(e, x) == \E w \in Workers : /\ ses[w].pc = "processar"
                                        /\ ses[w].exec = e
                                        /\ ses[w].msg.membro = x

Vivo(e) == \/ \E w \in Workers : ses[w].exec = e
           \/ \E m \in fila : m.exec = e /\ m.tipo # "sinc"

(* Mutant of PaisParados: only a parent with a member at work is swept.    *)
PaisParados_ComMembro ==
    {e \in Execs : /\ corrida[e] = "em_execucao"
                   /\ PaiLento \/ ~Vivo(e)
                   /\ \E x \in Membros : filho[e][x] = "em_execucao"}

PaisParados == {e \in Execs : /\ corrida[e] = "em_execucao"
                              /\ PaiLento \/ ~Vivo(e)}

MembrosParados == {ex \in Execs \X Membros :
                     /\ Financeiro
                     /\ filho[ex[1]][ex[2]] = "em_execucao"
                     /\ ~Trabalhando(ex[1], ex[2])}

Varrer ==
    \E P \in SUBSET PaisParados, C \in SUBSET MembrosParados :
        /\ P # {} \/ C # {}
        /\ corrida' = [e \in Execs |-> IF e \in P THEN "falha" ELSE corrida[e]]
        /\ pai' = [e \in Execs |-> IF e \in P /\ pai[e] \notin Final
                                   THEN "falha" ELSE pai[e]]
        /\ filho' = [e \in Execs |-> [x \in Membros |->
              IF <<e, x>> \in C THEN "falha" ELSE filho[e][x]]]
        /\ UNCHANGED <<fonte, zip, dados, celery, gasto>>

(* A lost worker, or an exception that no handler turns into a status: the *)
(* message is delivered again.                                             *)
Queda(w) ==
    /\ ~Livre(w)
    /\ Gasta("quedas", MaxQuedas)
    /\ fila' = fila \cup {ses[w].msg}
    /\ Solta(w)
    /\ UNCHANGED <<fonte, banco, dados, coros>>

(* The visibility timeout delivers again the message of a task at work.    *)
Reentrega(w) ==
    /\ ~Livre(w)
    /\ ses[w].msg \notin fila
    /\ Gasta("reentregas", MaxReentregas)
    /\ fila' = fila \cup {ses[w].msg}
    /\ UNCHANGED <<fonte, banco, dados, coros, ses>>

-----------------------------------------------------------------------------
Init ==
    /\ fonte \in [Membros -> Versoes]
    /\ pai = [e \in Execs |-> "nenhuma"]
    /\ corrida = [e \in Execs |-> "nenhuma"]
    /\ filho = [e \in Execs |-> [x \in Membros |-> "nenhuma"]]
    /\ zip = [e \in Execs |-> SemZip]
    /\ promovidos = {}
    /\ campanhas = {}
    /\ fila = {}
    /\ coros = {}
    /\ ses = [w \in Workers |-> SessaoLivre]
    /\ gasto \in Gastos

(* A free worker takes message m.                                          *)
Pega(m) ==
    \E w \in Workers :
        \/ Adotar(w, m)
        \/ PegarIngestao(w, m)
        \/ MembroBarrado(w, m)
        \/ MembroComeca(w, m)
        \/ DespachoBarrado(w, m)
        \/ DespachoLe(w, m)
        \/ FinalizaLe(w, m)

(* A busy worker goes on with its task.                                    *)
Prossegue(w) ==
    \/ CriarCorrida(w)
    \/ BaixarIgual(w)
    \/ BaixarNovo(w)
    \/ Preparar(w)
    \/ IngerirLe(w)
    \/ IngerirGrava(w)
    \/ AgendarCabecalho(w)
    \/ PublicarFase2(w)
    \/ MembroTermina(w)
    \/ DespachoGrava(w)
    \/ DespachoPublica(w)
    \/ FinalizaGrava(w)
    \/ CriarCampanha(w)

Falha(w) ==
    \/ ErroComStatus(w)
    \/ DependenciaAusente(w)
    \/ MembroErra(w)
    \/ Queda(w)
    \/ Reentrega(w)

Operador ==
    \/ Agendar
    \/ PedirPreProcesso
    \/ \E e \in Execs : PedirIngestao(e)
    \/ \E e \in Execs : Cancelar(e)
    \/ \E e \in Execs, x \in Membros : CancelarMembro(e, x)

Next ==
    \/ \E m \in fila : Pega(m)
    \/ \E w \in Workers : Prossegue(w)
    \/ \E w \in Workers : Falha(w)
    \/ Operador
    \/ Varrer
    \/ \E x \in Membros, v \in Versoes : FonteMuda(x, v)

Spec == Init /\ [][Next]_vars

(* A task that was taken goes on, a free worker takes some message, beat   *)
(* fires the sweep.                                                        *)
Justica ==
    /\ \A w \in Workers : WF_vars(Prossegue(w))
    /\ WF_vars(\E m \in fila : Pega(m))
    /\ WF_vars(Varrer)

FairSpec == Spec /\ Justica

-----------------------------------------------------------------------------
Coro   == [exec: Execs, membros: SUBSET Dependentes, prontos: SUBSET Dependentes]
Tarefa == [pc: Pcs, msg: Mensagem, exec: Execs \cup {0}, eleitos: SUBSET Membros,
           lido: StatusExecucao, fim: StatusExecucao]

(* The domain of every variable.                                           *)
TypeOK ==
    /\ fonte \in [Membros -> Versoes]
    /\ pai \in [Execs -> StatusExecucao]
    /\ corrida \in [Execs -> StatusExecucao]
    /\ filho \in [Execs -> [Membros -> StatusExecucao]]
    /\ zip \in [Execs -> [Membros -> Versoes \cup {0}]]
    /\ promovidos \subseteq Membros \X Versoes
    /\ campanhas \subseteq Execs
    /\ fila \subseteq Mensagem
    /\ coros \subseteq Coro
    /\ ses \in [Workers -> Tarefa]
    /\ gasto \in [{"pedidos", "posts", "quedas", "erros", "reentregas",
                   "cancelamentos", "mudancas"} -> Nat]

(* A parent finalized as success has every member processed, by itself or  *)
(* by an earlier execution: finalizar_sincronizacao_zip_task looks only    *)
(* for failed and active members, at a moment that other tasks choose.     *)
SucessoPleno ==
    \A e \in Execs : pai[e] = "sucesso" =>
        \A x \in Membros : filho[e][x] \in {"sucesso", "skipped"}

(* No financial ZIP has more dependents scheduled or running than the      *)
(* window: each dispatch counts what it reads before it writes.            *)
JanelaRespeitada ==
    Financeiro => \A e \in Execs : Cardinality(EmAtividade(e)) <= Janela

(* A dependent is scheduled or running only when the header's member has   *)
(* ended: the chain, the chord's body and the retries keep this order.     *)
CabecalhoPrimeiro ==
    \A e \in Execs : EmAtividade(e) # {} => filho[e][Cabecalho] \in Final

(* What is skipped as reused was processed once: find_reusable_member_match*)
(* and buscar_execucao_hash_existente trust statuses of earlier executions.*)
ReusoJustificado ==
    \A e \in Execs, x \in Membros :
        "skipped" \in {pai[e], filho[e][x]} => <<x, zip[e][x]>> \in promovidos

(* A cancelled parent is never anything else afterwards: no task in        *)
(* progress writes over the cancellation.                                  *)
CancelamentoDuravel ==
    [][\A e \in Execs : pai[e] = "cancelada" => pai'[e] = "cancelada"]_vars

(* However often workers are lost, messages come twice or members are      *)
(* cancelled, there comes again a moment when no parent whose run exists   *)
(* and no member is em_execucao.                                           *)
CorridasAcabam ==
    []<>(\A e \in Execs :
            /\ pai[e] = "em_execucao" => corrida[e] = "nenhuma"
            /\ \A x \in Membros : filho[e][x] # "em_execucao")

(* The chain of dispatches and chords comes to an end.                     *)
Sossega == <>[](fila = {} /\ \A w \in Workers : Livre(w))

(* When the success of a financial ZIP is stored and there are statements, *)
(* the campaign is created, though its commit comes after the outcome's,   *)
(* unless a later finalization takes the success back.                     *)
CampanhaCriada ==
    \A e \in Execs :
        (\E w \in Workers : /\ ses[w].pc = "campanha"
                            /\ ses[w].exec = e
                            /\ TemDemonstracoes)
            ~> (e \in campanhas \/ pai[e] # "sucesso")
-----------------------------------------------------------------------------
(* The inductive invariant.  First what the types need in any behaviour: a *)
(* member is only processed once its ZIP was downloaded, and a message of  *)
(* a member names the header alone or one of its chord.                    *)
Cheio(e) == zip[e] \in [Membros -> Versoes]

MsgForma(m) ==
    /\ m.tipo # "pre" => m.exec \in Execs
    /\ m.tipo \notin {"pre", "sinc"} => Cheio(m.exec)
    /\ m.tipo = "membro" => \/ m.coro = {} /\ m.membro = Cabecalho
                            \/ m.membro \in m.coro

SesForma(s) ==
    /\ MsgForma(s.msg)
    /\ IF s.pc = "livre" THEN s.exec = 0 ELSE s.exec \in Execs
    /\ s.pc \notin {"livre", "correr", "baixar"} => Cheio(s.exec)
    /\ s.pc = "processar" => s.msg.tipo = "membro"
    /\ s.pc \in {"disp_gravar", "disp_publicar"} => s.eleitos \subseteq Dependentes

Formas ==
    /\ \A e \in Execs : pai[e] = "aguardando_ingestao" => Cheio(e)
    /\ \A m \in fila : MsgForma(m)
    /\ \A w \in Workers : SesForma(ses[w])
    /\ \A c \in coros : c.membros # {}

(* Then, with no redelivery and no request to ingest apart (lost workers,  *)
(* exceptions, retries, cancellations and the sweep remain), who may act   *)
(* for an execution: nobody, one task, one message, or one chord with the  *)
(* tasks and the messages of its members.                                  *)
SemDobra        == MaxPosts = 0 /\ MaxReentregas = 0
SemCancelamento == MaxCancelamentos = 0

Sessoes(e)   == {w \in Workers : ses[w].exec = e}
Mensagens(e) == {m \in fila : m.exec = e /\ m.tipo # "sinc"}
Coros(e)     == {c \in coros : c.exec = e}

Intocada(e) == \A x \in Membros : filho[e][x] = "nenhuma"
Acabada(e)  == \A x \in Membros : filho[e][x] \in Final
Completa(e) == \A x \in Membros : filho[e][x] \in Aproveitavel
CabeNaJanela(S) == /\ S \subseteq Dependentes
                   /\ Financeiro => Cardinality(S) <= Janela

(* A task lost between its commit and its publication leaves the members   *)
(* that it chose scheduled, with nobody to run them.                       *)
Contida(e) == /\ CabeNaJanela(EmAtividade(e))
              /\ EmAtividade(e) # {} => filho[e][Cabecalho] \in Final

Parada(e) == /\ Sessoes(e) = {}
             /\ Mensagens(e) = {}
             /\ Coros(e) = {}
             /\ Contida(e)

(* What the task of session s may count on.                                *)
Etapa(e, s) ==
    /\ s.pc \in PcPai => s.msg.tipo = "sinc" /\ EmAtividade(e) = {}
    /\ s.pc \in {"correr", "baixar", "preparar"} => Intocada(e)
    /\ s.pc = "publicar" /\ s.eleitos = {} => filho[e][Cabecalho] = "skipped"
    /\ s.pc = "processar" => /\ s.msg = MsgMembro(e, Cabecalho, {})
                             /\ EmAtividade(e) = {}
    /\ s.pc \in {"disp_gravar", "disp_publicar"} =>
          /\ s.msg = Msg("disparar", e)
          /\ filho[e][Cabecalho] \in Final
          /\ CabeNaJanela(s.eleitos)
          /\ s.eleitos = {} => Acabada(e)
          /\ EmAtividade(e) \subseteq IF s.pc = "disp_publicar" THEN s.eleitos ELSE {}
    /\ s.pc \in {"fin_gravar", "campanha"} => /\ s.msg = Msg("finalizar", e)
                                              /\ Acabada(e)
    /\ s.pc = "fin_gravar" =>
          /\ s.fim \in {"sucesso", "falha", "cancelada"}
          /\ SemCancelamento => /\ s.fim # "cancelada"
                                /\ s.fim = "sucesso" => Completa(e)

NaTarefa(e) == \E w \in Workers : /\ Sessoes(e) = {w}
                                  /\ Mensagens(e) = {}
                                  /\ Coros(e) = {}
                                  /\ Etapa(e, ses[w])

(* What the message m promises to the task that takes it.                  *)
Promessa(e, m) ==
    \/ m = MsgMembro(e, Cabecalho, {}) /\ EmAtividade(e) = {}
    \/ m = Msg("disparar", e) /\ filho[e][Cabecalho] \in Final /\ Contida(e)
    \/ m = Msg("finalizar", e) /\ Acabada(e)

NaFila(e) == \E m \in fila : /\ Sessoes(e) = {}
                             /\ Mensagens(e) = {m}
                             /\ Coros(e) = {}
                             /\ Promessa(e, m)

(* Message m is of a member that chord c still waits for.                  *)
Esperada(m, c) == /\ m = MsgMembro(c.exec, m.membro, c.membros)
                  /\ m.membro \in c.membros \ c.prontos

Coral(e, c) ==
    /\ Coros(e) = {c}
    /\ filho[e][Cabecalho] \in Final
    /\ CabeNaJanela(c.membros)
    /\ EmAtividade(e) \subseteq c.membros \ c.prontos
    /\ \A m \in Mensagens(e) : Esperada(m, c)
    /\ \A w \in Sessoes(e) : /\ ses[w].pc = "processar"
                             /\ Esperada(ses[w].msg, c)
                             /\ ses[w].msg \notin fila
                             /\ \A v \in Sessoes(e) \ {w} : ses[v].msg # ses[w].msg

NoCoro(e) == \E c \in coros : Coral(e, c)

(* Nobody acts for a row that no task has adopted.  When nothing is ever   *)
(* cancelled, what the statuses say of the members and of those who may    *)
(* still act.                                                              *)
Guardada(e) == /\ Parada(e)
               /\ Intocada(e)
               /\ corrida[e] = "nenhuma"

Encerrada(e) == /\ Mensagens(e) \subseteq {Msg("finalizar", e)}
                /\ Coros(e) = {}
                /\ \A w \in Sessoes(e) : ses[w].pc \in {"fin_gravar", "campanha"}

Processados(e) ==
    \A x \in Membros : /\ filho[e][x] # "cancelada"
                       /\ filho[e][x] \in Aproveitavel =>
                              <<x, zip[e][x]>> \in promovidos

Resultados(e) ==
    /\ "sucesso" \in {pai[e], corrida[e]} => Completa(e) /\ Encerrada(e)
    /\ pai[e] = "skipped" =>
          Parada(e) /\ \A x \in Membros : <<x, zip[e][x]>> \in promovidos
    /\ corrida[e] = "skipped" => Parada(e) /\ Intocada(e)
    /\ pai[e] # "cancelada"
    /\ Processados(e)

Historia(e) == /\ pai[e] \in {"nenhuma", "agendada"} => Guardada(e)
               /\ SemCancelamento => Resultados(e)

Certa(e) == /\ Parada(e) \/ NaTarefa(e) \/ NaFila(e) \/ NoCoro(e)
            /\ Historia(e)

SemPre == \A m \in fila : m.tipo # "pre"

(* It implies that the types are right and, where nothing comes twice, the *)
(* window and the order of the header; the success and the reuse as well,  *)
(* where nothing is cancelled.                                             *)
IInv == /\ TypeOK
        /\ Formas
        /\ SemDobra => SemPre /\ \A e \in Execs : Certa(e)
=============================================================================
