------------------------------ MODULE Promocao ------------------------------
(***************************************************************************)
(* What the imports of one CSV member of one source and year do to its     *)
(* domain table: staging, judgement line by line, promotion in chunks,     *)
(* reconcile, purge (sincronizar_member_internal of app/worker/tasks.py    *)
(* with _process_<source>_member of app/services/ingestion), quarantine,   *)
(* and the two replays (app/services/ingestion/replay.py), which run in    *)
(* the API process while workers import.                                   *)
(*                                                                         *)
(* A step runs from one commit to the next, with chunks of one line        *)
(* (ingestion_promote_batch_size 1): a larger chunk is several steps with  *)
(* nothing in between, a rollback of one a loss at its first line.  A line *)
(* is its natural key with the rest of it, "valor"; two lines have one     *)
(* hash when they agree on both.                                           *)
(***************************************************************************)
EXTENDS Integers, Sequences, FiniteSets

CONSTANTS
    Chaves,         \* natural keys
    Arquivos,       \* contents that the publisher gives the member, in turn
    Fontes,         \* sources
    Ruim,           \* a value the normalizer refuses
    Estouro,        \* a value the database refuses
    Zero,           \* the amount zero
    Vazio,          \* no row
    MaxCorridas,    \* bound: synchronizations of the source and year
    MaxPublicacoes, \* bound: changes of the file
    MaxConfigs,     \* bound: changes of INGESTION_PROMOTE_ENABLED
    MaxCadastros,   \* bound: changes of the registered identities
    MaxQuedas,      \* bound: members lost or ended by an exception
    MaxReplays,     \* bound: replays of a quarantined line
    MaxRefeitas,    \* bound: replays of a member's run
    MaxImprevistos  \* bound: all of these but the changes of the file

ASSUME ConstantesPromocao ==
    /\ Fontes \subseteq {"dfp", "itr", "fre", "fca", "ipe", "vlmo", "cgvn"}
    /\ 1 \in DOMAIN Arquivos
    /\ \A v \in DOMAIN Arquivos :
         LET linhas == Arquivos[v].linhas
         IN /\ Arquivos[v].cabecalho \in BOOLEAN
            /\ linhas \in Seq({linhas[l] : l \in DOMAIN linhas})
            /\ \A l \in DOMAIN linhas :
                 /\ linhas[l] = [chave |-> linhas[l].chave, valor |-> linhas[l].valor]
                 /\ linhas[l].chave \in Chaves
                 /\ linhas[l].valor # Vazio
    /\ Zero \notin {Ruim, Estouro}
    /\ {MaxCorridas, MaxPublicacoes, MaxConfigs, MaxCadastros, MaxQuedas,
        MaxReplays, MaxRefeitas, MaxImprevistos} \subseteq Nat

VARIABLES
    fonte,     \* the source
    legado,    \* a snapshot of the member, left by the synchronizers that
               \* came before the member task
    promove,   \* INGESTION_PROMOTE_ENABLED
    conhecidas,\* keys whose company the resolver settles: in dfp and itr those
               \* of no ambiguous identity, the unknown get a provisional one
    publicado, \* the file at the publisher
    corridas,  \* the synchronizations, each with its run of the member
    canonica,  \* the domain table: the value of each key
    gasto      \* how much of each bound is used

vars == <<fonte, legado, promove, conhecidas, publicado, corridas, canonica, gasto>>

-----------------------------------------------------------------------------
Versoes  == DOMAIN Arquivos
Linhas(v) == Arquivos[v].linhas
Valores  == UNION {{Linhas(v)[l].valor : l \in DOMAIN Linhas(v)} : v \in Versoes}

Eventos  == {"publicacoes", "configs", "cadastros", "quedas", "replays",
             "refeitas"}
Imprevistos == gasto["configs"] + gasto["cadastros"] + gasto["quedas"]
               + gasto["replays"] + gasto["refeitas"]

Usa(x, max) == /\ gasto[x] < max
               /\ x # "publicacoes" => Imprevistos < MaxImprevistos
               /\ gasto' = [gasto EXCEPT ![x] = @ + 1]

Situacao == {"pendente", "valid", "ignored_duplicate", "invalid", "purgada"}

(* "fila" is a run that was created and whose task has not begun.          *)
StatusMembro == {"fila", "em_execucao", "sucesso", "falha", "skipped"}
Encerrado    == {"sucesso", "falha", "skipped"}

Ids == 1..Len(corridas)

(* The sources whose member is reconciled only when an earlier snapshot of *)
(* it is found.                                                            *)
PedemAnterior == {"dfp", "itr", "fre"}

(* The line at which the run of the member stands, and what it judges by.  *)
Linha(c, l) == Linhas(c.versao)[l]
Total(c)    == Len(Linhas(c.versao))

NovaCorrida(v, status) ==
    [versao |-> v, pai |-> "em_execucao", membro |-> status, feitas |-> 0,
     vistos |-> [k \in Chaves |-> Vazio], empresas |-> {},
     promove |-> FALSE,
     situacao |-> [l \in 1..Len(Linhas(v)) |-> "purgada"],
     quarentena |-> {}]

(* A synchronization is reused whole when its file ended in success, and   *)
(* its member when the member did.                                         *)
MesmoArquivo == \E i \in Ids : /\ corridas[i].pai = "sucesso"
                               /\ corridas[i].versao = publicado

MesmoMembro == \E i \in Ids : /\ corridas[i].membro = "sucesso"
                              /\ corridas[i].versao = publicado

Parada == \A i \in Ids : corridas[i].pai # "em_execucao"

-----------------------------------------------------------------------------
Muda(i, c) == corridas' = [corridas EXCEPT ![i] = c]

Init ==
    /\ fonte \in Fontes
    /\ legado \in IF fonte \in PedemAnterior THEN BOOLEAN ELSE {FALSE}
    /\ promove = TRUE
    /\ conhecidas \in {Chaves} \cup {Chaves \ {k} : k \in Chaves}
    /\ publicado = 1
    /\ corridas = <<>>
    /\ canonica = [k \in Chaves |-> Vazio]
    /\ gasto = [x \in Eventos |-> 0]

(* CVM publishes another file under the same name, an earlier one perhaps. *)
Publica ==
    /\ Usa("publicacoes", MaxPublicacoes)
    /\ publicado' \in Versoes \ {publicado}
    /\ UNCHANGED <<fonte, legado, promove, conhecidas, corridas, canonica>>

(* The setting is changed, for the runs that start from now on.            *)
Configura ==
    /\ Usa("configs", MaxConfigs)
    /\ promove' = ~promove
    /\ UNCHANGED <<fonte, legado, conhecidas, publicado, corridas, canonica>>

(* An identity is registered, or becomes ambiguous.                        *)
Cadastra ==
    /\ Usa("cadastros", MaxCadastros)
    /\ \E k \in Chaves :
         conhecidas' = IF k \in conhecidas THEN conhecidas \ {k}
                                           ELSE conhecidas \cup {k}
    /\ UNCHANGED <<fonte, legado, promove, publicado, corridas, canonica>>

(* Mutant of Sincroniza: a synchronization starts beside another.          *)
Sincroniza_Junto ==
    /\ Len(corridas) < MaxCorridas
    /\ ~MesmoArquivo
    /\ corridas' = Append(corridas,
                          NovaCorrida(publicado,
                                      IF MesmoMembro THEN "skipped" ELSE "fila"))
    /\ UNCHANGED <<fonte, legado, promove, conhecidas, publicado, canonica, gasto>>

(* The first phase: one synchronization of a source and year at a time,    *)
(* nothing to do for a file that was ingested, and a member that was       *)
(* ingested is skipped.                                                    *)
Sincroniza ==
    /\ Len(corridas) < MaxCorridas
    /\ Parada
    /\ ~MesmoArquivo
    /\ corridas' = Append(corridas,
                          NovaCorrida(publicado,
                                      IF MesmoMembro THEN "skipped" ELSE "fila"))
    /\ UNCHANGED <<fonte, legado, promove, conhecidas, publicado, canonica, gasto>>

(* The task of the member: what it was once staged as is deleted, with its *)
(* quarantine, and every line is staged anew.  The session loads the       *)
(* identities once.                                                        *)
Encena(i) ==
    /\ corridas[i].membro = "fila"
    /\ Muda(i, [corridas[i] EXCEPT
                  !.membro     = "em_execucao",
                  !.feitas     = 0,
                  !.vistos     = [k \in Chaves |-> Vazio],
                  !.empresas   = conhecidas,
                  !.promove    = promove,
                  !.situacao   = [l \in 1..Total(corridas[i]) |-> "pendente"],
                  !.quarentena = {}])
    /\ UNCHANGED <<fonte, legado, promove, conhecidas, publicado, canonica, gasto>>

-----------------------------------------------------------------------------
(* A line equal to the last one of its key is ignored; another replaces    *)
(* it.  The amounts of dfp and itr that repeat as zero are an exception:   *)
(* of a zero and another amount both the later is ignored and the zero     *)
(* forgotten.                                                              *)
Sombra(c, x) == /\ fonte \in {"dfp", "itr"}
                /\ c.vistos[x.chave] \notin {Vazio, x.valor}
                /\ Zero \in {c.vistos[x.chave], x.valor}

Duplicada(c, x) == c.vistos[x.chave] = x.valor \/ Sombra(c, x)

Visto(c, x) == IF x.valor = Ruim THEN c.vistos
               ELSE IF Sombra(c, x) /\ x.valor = Zero THEN c.vistos
               ELSE [c.vistos EXCEPT ![x.chave] = x.valor]

(* The company is one the session found among the identities it loaded.    *)
Resolvida(c, x) == x.chave \in c.empresas

(* A chunk the database refuses is promoted again line by line, and the    *)
(* line it refuses is undone alone.                                        *)
Promovivel(c, x) == c.promove => x.valor # Estouro

(* Mutant of Julga: a line whose company is unknown counts as ignored.     *)
Julga_SemQuarentena(c, x) ==
    IF x.valor = Ruim THEN "invalid"
    ELSE IF Duplicada(c, x) \/ ~Resolvida(c, x) THEN "ignored_duplicate"
    ELSE IF ~Promovivel(c, x) THEN "invalid"
    ELSE "valid"

(* Mutant of Julga: a line the database refuses is taken for promoted.     *)
Julga_SemBanco(c, x) ==
    IF x.valor = Ruim THEN "invalid"
    ELSE IF Duplicada(c, x) THEN "ignored_duplicate"
    ELSE IF ~Resolvida(c, x) THEN "invalid"
    ELSE "valid"

(* A line the normalizer refuses has no key to compare.                    *)
Julga(c, x) ==
    IF x.valor = Ruim THEN "invalid"
    ELSE IF Duplicada(c, x) THEN "ignored_duplicate"
    ELSE IF ~Resolvida(c, x) \/ ~Promovivel(c, x) THEN "invalid"
    ELSE "valid"

(* The loop: the next line is judged and goes to the domain table, over    *)
(* the row of its key, or to quarantine.                                   *)
ProximaLinha(i) ==
    LET c == corridas[i]
        l == c.feitas + 1
        x == Linha(c, l)
        s == Julga(c, x)
    IN /\ c.membro = "em_execucao"
       /\ Arquivos[c.versao].cabecalho
       /\ l <= Total(c)
       /\ Muda(i, [c EXCEPT
                     !.feitas      = l,
                     !.situacao[l] = s,
                     !.vistos      = Visto(c, x),
                     !.quarentena  = IF s = "invalid" THEN @ \cup {l} ELSE @])
       /\ canonica' = IF s = "valid" /\ c.promove
                      THEN [canonica EXCEPT ![x.chave] = x.valor]
                      ELSE canonica
       /\ UNCHANGED <<fonte, legado, promove, conhecidas, publicado, gasto>>

-----------------------------------------------------------------------------
(* Mutant of ReconciliaFre: a file without a line empties the table.       *)
ReconciliaFre_ArquivoVazio(c) == c.promove /\ legado

(* Reconcile, source by source: which ask for a snapshot of an earlier run *)
(* that ended well, which for promotion to be enabled, and which reconcile *)
(* without a line read or found good.  No task stores such a snapshot.     *)
ReconciliaFre(c)        == c.promove /\ legado /\ Total(c) > 0
ReconciliaFca(c)        == Total(c) > 0
ReconciliaIpe(c)        == c.promove
ReconciliaVlmo(c)       == TRUE
ReconciliaCgvn(c)       == TRUE
ReconciliaFinanceiro(c) ==
    /\ c.promove
    /\ legado
    /\ \E l \in 1..Total(c) : c.situacao[l] = "valid"

Reconcilia(c) ==
    /\ Arquivos[c.versao].cabecalho
    /\ CASE fonte = "fre"            -> ReconciliaFre(c)
         [] fonte = "fca"            -> ReconciliaFca(c)
         [] fonte = "ipe"            -> ReconciliaIpe(c)
         [] fonte = "vlmo"           -> ReconciliaVlmo(c)
         [] fonte = "cgvn"           -> ReconciliaCgvn(c)
         [] fonte \in {"dfp", "itr"} -> ReconciliaFinanceiro(c)

(* Mutant of Mantida: a row is kept when its key is in the file.           *)
Mantida_PelaChave(c, k) == \E l \in 1..Total(c) : Linha(c, l).chave = k

(* What is kept: the rows whose hash a valid line of this run has.         *)
Mantida(c, k) == \E l \in 1..Total(c) : /\ c.situacao[l] = "valid"
                                        /\ Linha(c, l).chave = k
                                        /\ Linha(c, l).valor = canonica[k]

Reconciliada(c) == [k \in Chaves |-> IF Mantida(c, k) THEN canonica[k] ELSE Vazio]

(* The quality gate fails a member without lines, and no other (Veredito   *)
(* of SincronizacaoZip).                                                   *)
Veredito(c) == IF Total(c) = 0 THEN "falha" ELSE "sucesso"

(* A header that is refused rejects the lines; dfp and itr quarantine      *)
(* them.                                                                   *)
QuarentenaFinal(c) ==
    IF ~Arquivos[c.versao].cabecalho /\ fonte \in {"dfp", "itr"}
    THEN 1..Total(c) ELSE c.quarentena

(* The lines that stay after a success are those of the quarantine.        *)
Purgada(c, q) == IF Veredito(c) = "falha" THEN c.situacao
                 ELSE [l \in 1..Total(c) |-> IF l \in q THEN c.situacao[l]
                                             ELSE "purgada"]

(* Reconcile, the outcome, and the purge of the lines that a success       *)
(* leaves without a quarantine item.                                       *)
Conclui(i) ==
    LET c == corridas[i]
        q == QuarentenaFinal(c)
    IN /\ c.membro = "em_execucao"
       /\ c.feitas = Total(c) \/ ~Arquivos[c.versao].cabecalho
       /\ canonica' = IF Reconcilia(c) THEN Reconciliada(c) ELSE canonica
       /\ Muda(i, [c EXCEPT !.membro     = Veredito(c),
                            !.quarentena = q,
                            !.situacao   = Purgada(c, q)])
       /\ UNCHANGED <<fonte, legado, promove, conhecidas, publicado, gasto>>

(* The finalization: the synchronization has the worst outcome of its      *)
(* members, of which the others may have failed.                           *)
Finaliza(i) ==
    /\ corridas[i].pai = "em_execucao"
    /\ corridas[i].membro \in Encerrado
    /\ \E s \in {"sucesso", "falha"} :
         /\ corridas[i].membro = "falha" => s = "falha"
         /\ Muda(i, [corridas[i] EXCEPT !.pai = s])
    /\ UNCHANGED <<fonte, legado, promove, conhecidas, publicado, canonica, gasto>>

(* The worker is lost, or an exception ends the task: what was promoted    *)
(* stays.  The message comes back, or the run is left a failure.           *)
Queda(i) ==
    /\ Usa("quedas", MaxQuedas)
    /\ corridas[i].membro = "em_execucao"
    /\ \E s \in {"fila", "falha"} : Muda(i, [corridas[i] EXCEPT !.membro = s])
    /\ UNCHANGED <<fonte, legado, promove, conhecidas, publicado, canonica>>

-----------------------------------------------------------------------------
(* Replay of a quarantined line, whatever was imported since: judged alone *)
(* and promoted without regard to the setting.  vlmo and cgvn have no      *)
(* replay, and a line that is refused again stays in quarantine.           *)
Reprocessa(i, l) ==
    LET c == corridas[i]
        x == Linha(c, l)
    IN /\ Usa("replays", MaxReplays)
       /\ l \in c.quarentena
       /\ fonte \notin {"vlmo", "cgvn"}
       /\ x.valor \notin {Ruim, Estouro}
       /\ x.chave \in conhecidas
       /\ canonica' = [canonica EXCEPT ![x.chave] = x.valor]
       /\ Muda(i, [c EXCEPT !.situacao[l] = "valid",
                            !.quarentena  = @ \ {l}])
       /\ UNCHANGED <<fonte, legado, promove, conhecidas, publicado>>

(* Replay of a run of the member, whatever its outcome and its age: its    *)
(* own file goes through all of the import again.                          *)
Refaz(i) ==
    /\ Usa("refeitas", MaxRefeitas)
    /\ corridas[i].membro \in {"sucesso", "falha"}
    /\ Muda(i, [corridas[i] EXCEPT !.membro = "fila"])
    /\ UNCHANGED <<fonte, legado, promove, conhecidas, publicado, canonica>>

Next ==
    \/ Publica \/ Configura \/ Cadastra \/ Sincroniza
    \/ \E i \in Ids : Encena(i) \/ ProximaLinha(i) \/ Conclui(i)
                      \/ Finaliza(i) \/ Queda(i) \/ Refaz(i)
    \/ \E i \in Ids : \E l \in 1..Total(corridas[i]) : Reprocessa(i, l)

Spec == Init /\ [][Next]_vars

-----------------------------------------------------------------------------
Corrida == [versao    : Versoes,
            pai       : {"em_execucao", "sucesso", "falha"},
            membro    : StatusMembro,
            feitas    : Nat,
            vistos    : [Chaves -> Valores \cup {Vazio}],
            empresas  : SUBSET Chaves,
            promove   : BOOLEAN,
            situacao  : Seq(Situacao),
            quarentena: SUBSET Nat]

(* Types of the variables, and the bounds of the counters of a run.        *)
TipoPromocao ==
    /\ fonte \in Fontes
    /\ legado \in BOOLEAN
    /\ promove \in BOOLEAN
    /\ conhecidas \subseteq Chaves
    /\ publicado \in Versoes
    /\ corridas \in Seq(Corrida)
    /\ \A i \in Ids : /\ corridas[i].feitas <= Total(corridas[i])
                      /\ Len(corridas[i].situacao) = Total(corridas[i])
                      /\ corridas[i].quarentena \subseteq 1..Total(corridas[i])
    /\ canonica \in [Chaves -> (Valores \ {Ruim, Estouro}) \cup {Vazio}]
    /\ gasto \in [Eventos -> Nat]

(* What the table should hold of a key after a file: of the lines that can *)
(* be promoted the last wins, but in dfp and itr no zero over an amount.   *)
Aceitas(c, k) == {l \in 1..Total(c) : /\ Linha(c, l).chave = k
                                      /\ Linha(c, l).valor \notin {Ruim, Estouro}
                                      /\ k \in c.empresas}

SemNulas(c, S) ==
    LET nulas == {l \in S : Linha(c, l).valor = Zero}
    IN IF fonte \in {"dfp", "itr"} /\ nulas # S THEN S \ nulas ELSE S

Boas(c, k) == SemNulas(c, Aceitas(c, k))

Esperado(c, k) == LET S == Boas(c, k)
                  IN IF S = {} THEN Vazio
                     ELSE Linha(c, CHOOSE l \in S : \A m \in S : m <= l).valor

SemReplay == gasto["replays"] + gasto["refeitas"] = 0

Sucede(i) == /\ i \in DOMAIN corridas'
             /\ corridas[i].membro = "em_execucao"
             /\ corridas'[i].membro = "sucesso"

(* fre, dfp and itr reconcile only over the snapshot of an earlier run,    *)
(* and dfp and itr only when some line is good.                            *)
SemReconcile(c) ==
    /\ fonte \in PedemAnterior
    /\ ~legado \/ (fonte # "fre" /\ \A k \in Chaves : Boas(c, k) = {})

(* A file of dfp or itr that gives a key as zero before it gives an amount *)
(* loses the amount, and one that gives it as zero after a value that the  *)
(* database refuses loses the zero (Sombra).                               *)
ZeroPorUltimo(c) ==
    fonte \in {"dfp", "itr"} =>
        \A l, m \in 1..Total(c) :
           l < m /\ Linha(c, l).chave = Linha(c, m).chave =>
              /\ Linha(c, l).valor = Zero =>
                    Linha(c, m).valor \in {Zero, Ruim, Estouro}
              /\ Linha(c, l).valor = Estouro => Linha(c, m).valor # Zero

(* A run of the member that ends in success leaves the table a mirror of   *)
(* its file: the last good line of each key, and no row of another key,    *)
(* whatever earlier runs promoted before they were lost.  Replays break    *)
(* it.                                                                     *)
Espelho ==
    [][\A i \in Ids :
         LET c == corridas[i]
         IN (/\ Sucede(i)
             /\ c.promove
             /\ Arquivos[c.versao].cabecalho
             /\ ZeroPorUltimo(c)
             /\ SemReplay')
            => \A k \in Chaves : \/ canonica'[k] = Esperado(c, k)
                                 \/ Boas(c, k) = {} /\ SemReconcile(c)]_vars

(* A row that left the file leaves the table with the next success of its  *)
(* member: docs/ingestion.md:456.                                          *)
SaiuSome ==
    [][\A i \in Ids :
         LET c == corridas[i]
         IN (/\ Sucede(i)
             /\ c.promove
             /\ Arquivos[c.versao].cabecalho
             /\ SemReplay')
            => \A k \in Chaves :
                 (\A l \in 1..Total(c) : Linha(c, l).chave # k)
                 => canonica'[k] = Vazio]_vars

(* No import puts back a value of an earlier file: what enters the table   *)
(* is of the file of the newest synchronization.                           *)
SemRegresso ==
    [][SemReplay' =>
         \A k \in Chaves :
            canonica'[k] \notin {canonica[k], Vazio} =>
               LET c == corridas[Len(corridas)]
               IN \E l \in 1..Total(c) : Linha(c, l) = [chave |-> k,
                                                        valor |-> canonica'[k]]
      ]_vars

(* A row leaves the table only when a run of its member ends in success:   *)
(* never for a run that fails or is lost.  ipe, vlmo and cgvn reconcile    *)
(* with a file that has no line, too, and fail after it.                   *)
SoSucessoApaga ==
    [][(\E k \in Chaves : canonica[k] # Vazio /\ canonica'[k] = Vazio)
       => (\E i \in Ids : Sucede(i)) \/ fonte \in {"ipe", "vlmo", "cgvn"}]_vars

(* When nothing is at work and the newest import succeeded, each line of   *)
(* its file is in the table, by its key, or has an item in quarantine:     *)
(* docs/PRD.md:123.                                                        *)
NenhumaLinhaSome ==
    LET c == corridas[Len(corridas)]
    IN (/\ corridas # <<>>
        /\ \A i \in Ids : corridas[i].membro \in Encerrado
        /\ c.membro = "sucesso"
        /\ c.promove
        /\ Arquivos[c.versao].cabecalho)
       => \A l \in 1..Total(c) :
            LET x == Linha(c, l)
            IN IF x.valor = Ruim THEN l \in c.quarentena
               ELSE \/ canonica[x.chave] # Vazio
                    \/ \E m \in c.quarentena : Linha(c, m).chave = x.chave

(* The same of imports no replay takes part in.                            *)
LinhasContadas == SemReplay => NenhumaLinhaSome

-----------------------------------------------------------------------------
(* What LinhasContadas, SemRegresso and Espelho rest on.  Unless something *)
(* is replayed, only the newest run of the member is at work ...           *)
UmaPorVez ==
    SemReplay => \A i \in Ids :
        /\ corridas[i].pai # "em_execucao" => corridas[i].membro \in Encerrado
        /\ i # Len(corridas) => corridas[i].pai # "em_execucao"

(* ... a line it has judged is promoted or in quarantine, or another of    *)
(* its key is ...                                                          *)
Contada(c, k) == \E m \in 1..c.feitas :
                    /\ Linha(c, m).chave = k
                    /\ c.situacao[m] = "valid" \/ m \in c.quarentena

Julgadas(c) ==
    /\ \A l \in 1..c.feitas :
         IF Linha(c, l).valor = Ruim THEN l \in c.quarentena
                                    ELSE Contada(c, Linha(c, l).chave)
    /\ \A k \in Chaves : c.vistos[k] # Vazio => Contada(c, k)
    /\ \A l \in 1..Total(c) : c.situacao[l] = "valid" => l <= c.feitas

(* ... the table has of a key with a promoted line the value of one ...    *)
Promovidas(c) ==
    \A l \in 1..Total(c) : c.situacao[l] = "valid" =>
        Mantida(c, Linha(c, l).chave)

(* ... which is the last good one so far, and the value seen last, if it   *)
(* can be promoted.                                                        *)
BoasAte(c, k) == SemNulas(c, Aceitas(c, k) \cap 1..c.feitas)

Ultima(c, S, x) == \E l \in S : Linha(c, l).valor = x /\ \A m \in S : m <= l

Espelhada(c, k) ==
    /\ c.vistos[k] # Vazio =>
         \E m \in 1..c.feitas : Linha(c, m) = [chave |-> k, valor |-> c.vistos[k]]
    /\ c.vistos[k] \notin {Vazio, Estouro} /\ k \in c.empresas =>
         Ultima(c, BoasAte(c, k), c.vistos[k])
    /\ BoasAte(c, k) # {} =>
         /\ Ultima(c, BoasAte(c, k), canonica[k])
         /\ Mantida(c, k)
         /\ c.vistos[k] # Vazio

Espelhadas(c) ==
    /\ \A l \in 1..Total(c) : c.situacao[l] = "valid" =>
          l \in Aceitas(c, Linha(c, l).chave)
    /\ \A k \in Chaves : Espelhada(c, k)

(* What is asked of a run at work.                                         *)
EmDia(c) ==
    c.membro = "em_execucao" /\ Arquivos[c.versao].cabecalho =>
       /\ Julgadas(c)
       /\ c.promove => Promovidas(c) /\ (ZeroPorUltimo(c) => Espelhadas(c))

(* The invariant that the theorems of Promocao_proofs rest on: the types,  *)
(* one run at a time, its table up to date, and no line lost (Unica of the *)
(* scheduler, _promote_chunk and reconcile_promoted_rows together).        *)
IInv ==
    /\ TipoPromocao
    /\ UmaPorVez
    /\ SemReplay => \A i \in Ids : EmDia(corridas[i])
    /\ LinhasContadas
=============================================================================
