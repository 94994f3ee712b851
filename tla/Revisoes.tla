------------------------------ MODULE Revisoes ------------------------------
(***************************************************************************)
(* The canonical series of one company and scope: revisions, each known    *)
(* from one knowledge date to another, that materializar_analise_companhia *)
(* of app/services/analise.py rewrites in full or from a date on, while    *)
(* ingestions change the documents they are computed from; and the items   *)
(* of campaigns that say from which date (criar_materializacao_campanha,   *)
(* criar_repair_materializacao_companhia).                                 *)
(*                                                                         *)
(* A step runs from one commit to the next: the materialization commits    *)
(* after each knowledge date it computes, for which it reads the documents *)
(* once.  Its last transaction, which deletes and inserts, is one step.    *)
(* Key 0 is the context revision, a period stands for the facts of the     *)
(* period; what is observed of a period depends on it and on those before  *)
(* it (comparables, moving sums).                                          *)
(***************************************************************************)
EXTENDS Integers, Sequences, FiniteSets

CONSTANTS
    Datas,         \* knowledge dates
    Sempre,        \* known_to NULL: after all dates
    Documentos,    \* documents of the company: form and year, period, version
    Recebimentos,  \* per document, the dates of receipt CVM may give it
    Valores,       \* what a document says of its period
    Nada,          \* a document without a statement in the scope
    MaiorVersao,   \* the largest version: an Integer column
    MaxIngestoes,  \* bound: ingestions of a form and year
    MaxReparos,    \* bound: repairs asked for
    MaxCorrecoes,  \* bound: dates of receipt that change
    MaxFalhas,     \* bound: ingestions and executions that fail
    MaxQuedas,     \* bound: workers lost
    MaxAtrasos,    \* bound: items given back while a worker is at them
    MaxAvulsas,    \* bound: executions of the command line
    MaxDobras,     \* bound: items created side by side
    MaxEventos     \* bound: all of these together

(* The publisher files the documents of a form and reference date, which   *)
(* is what a period is here, in the file of one year.                      *)
ASSUME ConstantesRevisoes ==
    /\ Datas \subseteq Nat \ {0}
    /\ Sempre \in Nat
    /\ MaiorVersao \in Nat
    /\ \A t \in Datas : t < Sempre
    /\ \A d \in Documentos : /\ d.periodo \in Nat \ {0}
                             /\ d.versao \in 0..MaiorVersao
                             /\ Recebimentos[d] \subseteq Datas
    /\ \A d, e \in Documentos : d.periodo = e.periodo => d.grupo = e.grupo
    /\ {MaxIngestoes, MaxReparos, MaxCorrecoes, MaxFalhas, MaxQuedas,
        MaxAtrasos, MaxAvulsas, MaxDobras, MaxEventos} \subseteq Nat

VARIABLES
    documentos, \* documentos_financeiros: date of receipt (Sempre: none yet), statement
    revisoes,   \* analise_contexto_revisions and analise_fato_revisions
    itens,      \* campaign items of the company and scope, in order
    execs,      \* analise_materializacao_execucoes
    ingestoes,  \* how far the ingestion of each form and year is
    suja,       \* groups whose last ingestion failed
    gasto       \* how much of each bound is used

vars == <<documentos, revisoes, itens, execs, ingestoes, suja, gasto>>

-----------------------------------------------------------------------------
Grupos   == {d.grupo : d \in Documentos}
Periodos == {d.periodo : d \in Documentos}
Contexto == 0
Chaves   == {Contexto} \cup Periodos

Eventos == {"ingestoes", "reparos", "correcoes", "falhas", "quedas",
            "atrasos", "avulsas", "dobras"}
Gasto == gasto["ingestoes"] + gasto["reparos"] + gasto["correcoes"] + gasto["falhas"]
         + gasto["quedas"] + gasto["atrasos"] + gasto["avulsas"] + gasto["dobras"]

Usa(x, max) == /\ gasto[x] < max
               /\ Gasto < MaxEventos
               /\ gasto' = [gasto EXCEPT ![x] = @ + 1]

Menor(S) == CHOOSE x \in S : \A y \in S : x <= y

-----------------------------------------------------------------------------
(* What was known at date t: of each period the last version received.     *)
Ingeridos     == {d \in Documentos : documentos[d].data # Sempre}
DatasDe(D)    == {documentos[d].data : d \in D \cap Ingeridos}
Recebidos(t)  == {d \in Ingeridos : documentos[d].data <= t}
Ultima(D)     == CHOOSE d \in D : \A e \in D : e.versao <= d.versao
Vigente(p, t) == Ultima({d \in Recebidos(t) : d.periodo = p})

ComDados(t) ==
    {p \in Periodos : /\ \E d \in Recebidos(t) : d.periodo = p
                      /\ documentos[Vigente(p, t)].valor # Nada}

Contextual(t)   == [p \in ComDados(t) |-> Vigente(p, t).versao]
Observado(p, t) == [q \in {r \in ComDados(t) : r <= p} |->
                      documentos[Vigente(q, t)].valor]

(* The snapshot computed at date t: the context, and the observed periods. *)
Instantaneo(t) ==
    [c \in {Contexto} \cup ComDados(t) |->
        IF c = Contexto THEN Contextual(t) ELSE Observado(c, t)]

(* What a reader is answered for the date: the context known last, and the *)
(* facts that are known.                                                   *)
Vale(r, t) == r.de <= t /\ t < r.ate

Lidas(R, t) ==
    LET ctx == {r \in R : r.chave = Contexto /\ Vale(r, t)}
    IN {r \in ctx : \A s \in ctx : s.de <= r.de}
       \cup {r \in R : r.chave # Contexto /\ Vale(r, t)}

Resposta(R, t) == {<<r.chave, r.valor>> : r \in Lidas(R, t)}

-----------------------------------------------------------------------------
Ids    == 1..Len(execs)
Ativo  == {"pending", "running"}
Ativos == {i \in 1..Len(itens) : itens[i].status \in Ativo}
Verde  == \A g \in Grupos : ingestoes[g] # "promovendo"

Item(inv, status, cobre) ==
    [inv |-> inv, status |-> status, desde |-> Sempre, cobre |-> cobre]

Ingestao(g, s) == ingestoes' = [ingestoes EXCEPT ![g] = s]
Execucao(e, x) == execs' = [execs EXCEPT ![e] = x]

(* What an ended execution leaves behind.                                  *)
Fim(e, s) == [item |-> execs[e].item, status |-> s, desde |-> execs[e].desde,
              datas |-> {}, novas |-> {}]

Init ==
    /\ documentos = [d \in Documentos |-> [data |-> Sempre, valor |-> Nada]]
    /\ revisoes = {}
    /\ itens = <<>>
    /\ execs = <<>>
    /\ ingestoes = [g \in Grupos |-> "parada"]
    /\ suja = {}
    /\ gasto = [x \in Eventos |-> 0]

-----------------------------------------------------------------------------
(* The ingestion of a form and year.  Promotion inserts or updates, and    *)
(* removes nothing.                                                        *)
IngestaoComeca(g) ==
    /\ ingestoes[g] = "parada"
    /\ Usa("ingestoes", MaxIngestoes)
    /\ Ingestao(g, "promovendo")
    /\ UNCHANGED <<documentos, revisoes, itens, execs, suja>>

Promove(d, t, v) ==
    /\ ingestoes[d.grupo] = "promovendo"
    /\ documentos[d] # [data |-> t, valor |-> v]
    /\ IF d \in Ingeridos
       THEN /\ v = Nada => documentos[d].valor = Nada
            /\ IF documentos[d].data = t THEN UNCHANGED gasto
               ELSE Usa("correcoes", MaxCorrecoes)
       ELSE UNCHANGED gasto
    /\ documentos' = [documentos EXCEPT ![d] = [data |-> t, valor |-> v]]
    /\ UNCHANGED <<revisoes, itens, execs, ingestoes, suja>>

IngestaoFalha(g) ==
    /\ ingestoes[g] = "promovendo"
    /\ Usa("falhas", MaxFalhas)
    /\ Ingestao(g, "parada")
    /\ suja' = suja \cup {g}
    /\ UNCHANGED <<documentos, revisoes, itens, execs>>

IngestaoTermina(g) ==
    /\ ingestoes[g] = "promovendo"
    /\ Ingestao(g, "terminada")
    /\ suja' = suja \ {g}
    /\ UNCHANGED <<documentos, revisoes, itens, execs, gasto>>

(* The first date a campaign must recompute: that of the first document of *)
(* the form and year.                                                      *)
Invalidada(g) == Menor(DatasDe({d \in Documentos : d.grupo = g}))

(* An active item covers the change when it has not begun and begins early *)
(* enough.  The code only asks whether there is one.                       *)
Cobre(g) == \E i \in Ativos : /\ itens[i].status = "pending"
                              /\ itens[i].inv <= Invalidada(g)

TemDados(g) == \E d \in Ingeridos : d.grupo = g /\ documentos[d].valor # Nada

(* The campaign of a success: whether an item is active is read first ...  *)
CampanhaLe(g) ==
    /\ ingestoes[g] = "terminada"
    /\ Ingestao(g, IF ~TemDados(g) THEN "parada"
                   ELSE IF Ativos = {} THEN "livre"
                   ELSE IF Cobre(g) THEN "coberta" ELSE "encoberta")
    /\ UNCHANGED <<documentos, revisoes, itens, execs, suja, gasto>>

(* ... and the item committed after it, as skipped if there was one.       *)
CampanhaCria(g) ==
    /\ ingestoes[g] \in {"livre", "coberta", "encoberta"}
    /\ itens' = Append(itens,
                       Item(Invalidada(g),
                            IF ingestoes[g] = "livre" THEN "pending" ELSE "skipped",
                            ingestoes[g] = "coberta"))
    /\ Ingestao(g, "parada")
    /\ IF ingestoes[g] = "livre" /\ Ativos # {} THEN Usa("dobras", MaxDobras)
       ELSE UNCHANGED gasto
    /\ UNCHANGED <<documentos, revisoes, execs, suja>>

(* A repair of some periods, refused while an item is active.              *)
Repara(P) ==
    LET D == {d \in Ingeridos : d.periodo \in P}
    IN /\ Usa("reparos", MaxReparos)
       /\ Ativos = {}
       /\ D # {}
       /\ itens' = Append(itens, Item(Menor(DatasDe(D)), "pending", FALSE))
       /\ UNCHANGED <<documentos, revisoes, execs, ingestoes, suja>>

-----------------------------------------------------------------------------
Coberta == \E e \in Ids : execs[e].status = "success"

(* The mode: 0 is full, otherwise the date from which the series is        *)
(* computed anew.                                                          *)
Desde(inv) == IF ~Coberta \/ inv <= Menor(DatasDe(Documentos)) THEN 0 ELSE inv

(* Mutant of Janela: the date the change came with is left out.            *)
Janela_Exclusiva(desde) == {t \in DatasDe(Documentos) : t > desde}

Janela(desde) == {t \in DatasDe(Documentos) : t >= desde}

Nova(i, desde) == Append(execs, [item |-> i, status |-> "running", desde |-> desde,
                                 datas |-> Janela(desde), novas |-> {}])

(* A worker takes the item, the gate being open.                           *)
Inicia(i) ==
    /\ itens[i].status = "pending"
    /\ Verde
    /\ execs' = Nova(i, Desde(itens[i].inv))
    /\ itens' = [itens EXCEPT ![i].status = "running"]
    /\ UNCHANGED <<documentos, revisoes, ingestoes, suja, gasto>>

(* The command line, which knows no gate and no items, in full; without a  *)
(* document it ends at once.                                               *)
Avulsa ==
    /\ Usa("avulsas", MaxAvulsas)
    /\ Ingeridos # {}
    /\ execs' = Nova(0, 0)
    /\ UNCHANGED <<documentos, revisoes, itens, ingestoes, suja>>

(* The revisions so far, carried to date t: those that the snapshot does   *)
(* not repeat end there, those it changes or adds begin.                   *)
Abertas(R)     == {r \in R : r.ate = Sempre}
Repete(r, S)   == r.chave \in DOMAIN S /\ S[r.chave] = r.valor

Avanca(R, t, e) ==
    LET S     == Instantaneo(t)
        ficam == {r \in Abertas(R) : Repete(r, S)}
        novas == {c \in DOMAIN S : \A r \in ficam : r.chave # c}
    IN (R \ Abertas(R)) \cup ficam
       \cup {[r EXCEPT !.ate = t] : r \in Abertas(R) \ ficam}
       \cup {[chave |-> c, de |-> t, ate |-> Sempre, valor |-> S[c], exec |-> e] :
               c \in novas}

(* One knowledge date of the loop, with its commit.                        *)
Calcula(e) ==
    /\ execs[e].status = "running"
    /\ execs[e].datas # {}
    /\ LET t == Menor(execs[e].datas)
       IN Execucao(e, [execs[e] EXCEPT !.datas = @ \ {t},
                                       !.novas = Avanca(@, t, e)])
    /\ UNCHANGED <<documentos, revisoes, itens, ingestoes, suja, gasto>>

(* Mutant of Prefixo: rows that ended before the date are stretched to it. *)
Prefixo_Estica(R, inv) == {[r EXCEPT !.ate = inv] : r \in {s \in R : s.de < inv}}

(* Mutant of Prefixo: rows that begin at the date or after are cut, not     *)
(* deleted.                                                                *)
Prefixo_SemRemover(R, inv) == {[r EXCEPT !.ate = IF @ > inv THEN inv ELSE @] : r \in R}

(* Mutant of Prefixo: the rows that begin at the date are left.            *)
Prefixo_UmAMais(R, inv) ==
    {[r EXCEPT !.ate = IF @ > inv /\ r.de < inv THEN inv ELSE @] :
        r \in {s \in R : s.de <= inv}}

(* What stays of the series before the date: rows that reach it end there, *)
(* rows that begin at it or after are deleted.  In full mode nothing.      *)
Prefixo(R, inv) ==
    {[r EXCEPT !.ate = IF @ > inv THEN inv ELSE @] : r \in {s \in R : s.de < inv}}

Concluido(i, s, desde) ==
    IF i = 0 THEN itens
    ELSE [itens EXCEPT ![i].status = s, ![i].desde = desde]

(* The last transaction, and the result of the item after it, whatever the *)
(* item has become.                                                        *)
Grava(e) ==
    /\ execs[e].status = "running"
    /\ execs[e].datas = {}
    /\ revisoes' = Prefixo(revisoes, execs[e].desde) \cup execs[e].novas
    /\ Execucao(e, Fim(e, "success"))
    /\ itens' = Concluido(execs[e].item, "success", execs[e].desde)
    /\ UNCHANGED <<documentos, ingestoes, suja, gasto>>

(* An exception before the last transaction.                               *)
Falha(e) ==
    /\ execs[e].status = "running"
    /\ Usa("falhas", MaxFalhas)
    /\ Execucao(e, Fim(e, "failed"))
    /\ itens' = Concluido(execs[e].item, "failed", Sempre)
    /\ UNCHANGED <<documentos, revisoes, ingestoes, suja>>

Devolvido(i) == IF i = 0 THEN itens ELSE [itens EXCEPT ![i].status = "pending"]

(* The worker is lost: its row stays running, and the recovery gives the   *)
(* item back.                                                              *)
Queda(e) ==
    /\ execs[e].status = "running"
    /\ Usa("quedas", MaxQuedas)
    /\ Execucao(e, Fim(e, "perdida"))
    /\ itens' = Devolvido(execs[e].item)
    /\ UNCHANGED <<documentos, revisoes, ingestoes, suja>>

(* The item is given back although the worker is still at it.              *)
Atrasa(e) ==
    /\ execs[e].status = "running"
    /\ execs[e].item # 0
    /\ itens[execs[e].item].status = "running"
    /\ Usa("atrasos", MaxAtrasos)
    /\ itens' = Devolvido(execs[e].item)
    /\ UNCHANGED <<documentos, revisoes, execs, ingestoes, suja>>

Next ==
    \/ \E g \in Grupos : \/ IngestaoComeca(g) \/ IngestaoFalha(g)
                         \/ IngestaoTermina(g)
                         \/ CampanhaLe(g) \/ CampanhaCria(g)
    \/ \E d \in Documentos : \E t \in Recebimentos[d], v \in Valores \cup {Nada} :
          Promove(d, t, v)
    \/ \E P \in SUBSET Periodos : Repara(P)
    \/ \E i \in 1..Len(itens) : Inicia(i)
    \/ Avulsa
    \/ \E e \in Ids : Calcula(e) \/ Grava(e) \/ Falha(e) \/ Queda(e) \/ Atrasa(e)

Spec == Init /\ [][Next]_vars

-----------------------------------------------------------------------------
(* Types.  A revision is known for at least a day.                         *)
TipoRevisoes ==
    /\ \A d \in Ingeridos : /\ documentos[d].data \in Datas
                            /\ documentos[d].valor \in Valores \cup {Nada}
    /\ \A r \in revisoes : /\ r.chave \in Chaves
                           /\ r.de \in Datas
                           /\ r.ate \in Datas \cup {Sempre}
                           /\ r.de < r.ate
                           /\ r.exec \in Ids
    /\ \A i \in 1..Len(itens) :
          /\ itens[i].status \in Ativo \cup {"success", "failed", "skipped"}
          /\ itens[i].inv \in Datas
    /\ \A e \in Ids : /\ execs[e].item \in 0..Len(itens)
                      /\ execs[e].status \in {"running", "success", "failed", "perdida"}
                      /\ execs[e].datas \subseteq Datas
    /\ ingestoes \in [Grupos -> {"parada", "promovendo", "terminada", "livre",
                                 "coberta", "encoberta"}]
    /\ gasto \in [Eventos -> Nat]

(* Every date from the first one on has exactly one context, and at most   *)
(* one revision of each period: no gap, no overlap, one open end, although *)
(* executions compute side by side and each rewrites what another stored.  *)
(* A date of receipt that is corrected between the creation of an item and *)
(* its execution can leave an incremental window without a date.           *)
Particao ==
    gasto["correcoes"] = 0 =>
        \A t \in Datas :
            /\ \A c \in Periodos :
                 Cardinality({r \in revisoes : r.chave = c /\ Vale(r, t)}) <= 1
            /\ Cardinality({r \in revisoes : r.chave = Contexto /\ Vale(r, t)}) =
                 IF \E r \in revisoes : r.de <= t THEN 1 ELSE 0

(* An incremental execution answers for the dates before its first one     *)
(* what was answered before: docusaurus/docs/api-endpoints/                *)
(* analise-materializacoes.md:74.                                          *)
PrefixoPreservado ==
    [][\A e \in Ids :
         execs[e].status = "running" /\ execs'[e].status = "success" =>
           \A t \in Datas : t < execs[e].desde =>
              Resposta(revisoes', t) = Resposta(revisoes, t)]_vars

-----------------------------------------------------------------------------
(* What Particao and TipoRevisoes rest on.                                 *)
Campos(r) == [chave |-> r.chave, de |-> r.de, ate |-> r.ate,
              valor |-> r.valor, exec |-> r.exec]

Revisao(r) == /\ r = Campos(r)
              /\ r.chave \in Chaves
              /\ r.de \in Datas
              /\ r.ate \in Datas \cup {Sempre}
              /\ r.de < r.ate
              /\ r.exec \in Ids

(* Revisions of one key do not overlap.                                    *)
Disjuntas(R) ==
    \A r, s \in R : r.chave = s.chave /\ r # s => r.ate <= s.de \/ s.ate <= r.de

(* From the first date of a set of revisions on there is a context.        *)
Contextuada(R) ==
    \A r \in R : \A t \in Datas : r.de <= t =>
        \E c \in R : c.chave = Contexto /\ Vale(c, t)

(* A running execution: what it has computed lies from its first date on   *)
(* and before what it has left, and is well formed as far as it goes.      *)
Calculo(x) ==
    /\ \A r \in x.novas : Revisao(r) /\ x.desde <= r.de
    /\ \A t \in x.datas : /\ x.desde <= t
                          /\ \A r \in x.novas :
                                r.de < t /\ (r.ate = Sempre \/ r.ate < t)
    /\ Disjuntas(x.novas)
    /\ Contextuada(x.novas)

Item0(i) ==
    /\ i = [inv |-> i.inv, status |-> i.status, desde |-> i.desde, cobre |-> i.cobre]
    /\ i.inv \in Datas
    /\ i.status \in Ativo \cup {"success", "failed", "skipped"}
    /\ i.desde \in {0, Sempre} \cup Datas
    /\ i.cobre \in BOOLEAN

Execucao0(x) ==
    /\ x = [item |-> x.item, status |-> x.status, desde |-> x.desde,
            datas |-> x.datas, novas |-> x.novas]
    /\ x.item \in 0..Len(itens)
    /\ x.status \in {"running", "success", "failed", "perdida"}
    /\ x.desde \in {0} \cup Datas
    /\ x.datas \subseteq Datas

Tipos ==
    /\ documentos \in [Documentos -> [data  : Datas \cup {Sempre},
                                     valor : Valores \cup {Nada}]]
    /\ \A r \in revisoes : Revisao(r)
    /\ itens \in Seq({itens[i] : i \in 1..Len(itens)})
    /\ execs \in Seq({execs[e] : e \in Ids})
    /\ \A i \in 1..Len(itens) : Item0(itens[i])
    /\ \A e \in Ids : Execucao0(execs[e])
    /\ ingestoes \in [Grupos -> {"parada", "promovendo", "terminada", "livre",
                                 "coberta", "encoberta"}]
    /\ suja \subseteq Grupos
    /\ gasto \in [Eventos -> Nat]

(* A campaign is created for a form and year with documents, from the date *)
(* of one of them; unless dates of receipt are corrected, that date stays  *)
(* one of those of the documents, so that the execution begins with it.    *)
ComDocumentos ==
    \A g \in Grupos : ingestoes[g] \in {"livre", "coberta", "encoberta"} =>
        DatasDe({d \in Documentos : d.grupo = g}) # {}

Inicial(x) ==
    x.desde # 0 => x.desde \in x.datas \/ \E r \in x.novas : r.de = x.desde

SemCorrecao ==
    gasto["correcoes"] = 0 =>
        /\ \A i \in 1..Len(itens) : itens[i].inv \in DatasDe(Documentos)
        /\ \A e \in Ids : execs[e].status = "running" => Inicial(execs[e])
        /\ Disjuntas(revisoes)
        /\ Contextuada(revisoes)

(* The invariant that the theorems of Revisoes_proofs rest on: what an     *)
(* execution has computed so far is a partition of its own, from its first *)
(* date on and before the dates it has left; and, unless a date of receipt *)
(* is corrected, revisions of one key never overlap and from the first on  *)
(* there is a context, though each execution cuts and replaces the rows    *)
(* of others (materializar_analise_companhia).                             *)
IInv ==
    /\ Tipos
    /\ \A e \in Ids : execs[e].status = "running" => Calculo(execs[e])
    /\ ComDocumentos
    /\ SemCorrecao

(* A change was made good when a later success reaches back to it; a       *)
(* skipped item also when what covered it had not begun and begins early   *)
(* enough.                                                                 *)
Reposto(i) ==
    \/ itens[i].cobre
    \/ \E j \in i..Len(itens) : /\ itens[j].status = "success"
                                /\ itens[j].desde <= itens[i].inv

Quieto == /\ \A g \in Grupos : ingestoes[g] = "parada"
          /\ Ativos = {}
          /\ suja = {}
          /\ \A i \in 1..Len(itens) : Reposto(i)

(* What is stored answers for the date as if it were computed now.         *)
Correta(R, t) ==
    ComDados(t) # {} =>
        Resposta(R, t) = {<<c, Instantaneo(t)[c]>> : c \in DOMAIN Instantaneo(t)}

(* No two executions at once, and no date of receipt corrected.            *)
EmOrdem == gasto["atrasos"] + gasto["avulsas"] + gasto["dobras"] + gasto["correcoes"] = 0

(* Once the work is done, every date is answered as if the series were     *)
(* computed then and there, although documents changed while executions    *)
(* were reading them, items failed and workers were lost: docusaurus/docs/ *)
(* schemas/analise.md:142.  Two executions at once, or a date of receipt   *)
(* that is corrected to a later one, break it.                             *)
SerieFiel == Quieto /\ EmOrdem => \A t \in Datas : Coberta => Correta(revisoes, t)

-----------------------------------------------------------------------------
(* What SerieFiel rests on: a date that is not answered correctly is owed, *)
(* by a form and year whose changes have no item yet, or by an item that   *)
(* was not made good.                                                      *)
DeveGrupo(g, t) ==
    /\ g \in suja \/ ingestoes[g] \in {"promovendo", "terminada", "livre", "encoberta"}
    /\ TemDados(g)
    /\ Invalidada(g) <= t

DeveItem(i, t) == ~Reposto(i) /\ itens[i].inv <= t

(* Owed even after item n succeeds.                                        *)
Devida(t, n) == \/ \E g \in Grupos : DeveGrupo(g, t)
                \/ \E i \in (n + 1)..Len(itens) : DeveItem(i, t)

(* An item that is active is the last one to have been anything else than  *)
(* skipped, and an execution that runs is that item's.                     *)
UmDeCadaVez ==
    /\ \A i \in Ativos : /\ ~itens[i].cobre
                         /\ \A j \in (i + 1)..Len(itens) : itens[j].status = "skipped"
    /\ \A e \in Ids : execs[e].status = "running" =>
          /\ execs[e].item # 0
          /\ itens[execs[e].item].status = "running"
          /\ \A f \in Ids : execs[f].status = "running" => f = e

(* What an execution has computed, up to the dates it has left, is correct *)
(* or owed by somebody else.                                               *)
Computado(x) ==
    \A t \in Datas : x.desde <= t /\ (\A u \in x.datas : t < u) =>
        Correta(x.novas, t) \/ Devida(t, x.item)

(* What it has left is enough: between two of its dates nothing changes    *)
(* that is not owed by somebody else.                                      *)
Bastante(x) ==
    \A u \in x.datas : \A t \in Datas :
        u <= t /\ (\A s \in x.datas : s <= u \/ t < s) =>
            Instantaneo(t) = Instantaneo(u) \/ Devida(t, x.item)

(* The invariant that the theorem SerieSempreFiel rests on: documents      *)
(* change while an execution reads them, and the items of those changes    *)
(* come later, may be skipped, fail, or be given back                      *)
(* (criar_materializacao_campanha, materializar_analise_companhia).        *)
SerieDevida == \A t \in Datas : Correta(revisoes, t) \/ Devida(t, 0)

ExecucoesDevidas ==
    \A e \in Ids : execs[e].status = "running" =>
                      Computado(execs[e]) /\ Bastante(execs[e])

Fidelidade == EmOrdem => UmDeCadaVez /\ SerieDevida /\ ExecucoesDevidas
=============================================================================
