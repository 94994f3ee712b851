----------------------- MODULE SincronizacaoZip_proofs -----------------------
(***************************************************************************)
(* Proofs about SincronizacaoZip, for every ZIP, number of workers, window *)
(* and bound: the types; and, when no message of a task at work comes      *)
(* twice and no ingestion is requested apart, that one task, message or    *)
(* chord at a time acts for an execution, with what follows for the window *)
(* and the header and, when nothing is cancelled, for the reuse and the    *)
(* success.                                                                *)
(***************************************************************************)
EXTENDS SincronizacaoZip, FiniteSetTheorems, TLAPS

-----------------------------------------------------------------------------
(* The types of messages, tasks and chords.                                *)
LEMMA ExecsNat == Execs \subseteq Nat /\ 0 \notin Execs
<1>1. MaxPedidos + MaxQuedas + MaxErros + MaxReentregas + MaxCancelamentos \in Nat
  BY ConstantesOk
<1> QED BY <1>1 DEF Execs

LEMMA MsgTipo ==
    ASSUME NEW e \in Execs \cup {0}, NEW t \in {"sinc", "pre", "ingerir", "disparar", "finalizar"}
    PROVE  /\ Msg(t, e) \in Mensagem
           /\ Msg(t, e).tipo = t /\ Msg(t, e).exec = e
  BY DEF Msg, Mensagem

LEMMA MembroTipo ==
    ASSUME NEW e \in Execs, NEW x \in Membros, NEW S \in SUBSET Dependentes
    PROVE  /\ MsgMembro(e, x, S) \in Mensagem
           /\ MsgMembro(e, x, S).tipo = "membro" /\ MsgMembro(e, x, S).exec = e
           /\ MsgMembro(e, x, S).membro = x /\ MsgMembro(e, x, S).coro = S
  BY DEF MsgMembro, Mensagem

LEMMA LivreTipo ==
    /\ SessaoLivre \in Tarefa
    /\ SessaoLivre.pc = "livre" /\ SessaoLivre.exec = 0
    /\ SesForma(SessaoLivre) /\ SesForma(SessaoLivre)'
<1>1. Msg("pre", 0) \in Mensagem /\ Msg("pre", 0).tipo = "pre"
  BY MsgTipo
<1> QED BY <1>1 DEF SessaoLivre, Tarefa, SesForma, MsgForma, Pcs, StatusExecucao

LEMMA SessaoTipo ==
    ASSUME NEW p \in Pcs, NEW m \in Mensagem, NEW e \in Execs
    PROVE  /\ Sessao(p, m, e) \in Tarefa
           /\ Sessao(p, m, e).pc = p /\ Sessao(p, m, e).msg = m
           /\ Sessao(p, m, e).exec = e /\ Sessao(p, m, e).eleitos = {}
  BY DEF Sessao, SessaoLivre, Tarefa, StatusExecucao

-----------------------------------------------------------------------------
(* What was downloaded stays.                                              *)
Fica == \A e \in Execs : Cheio(e) => Cheio(e)'

LEMMA ZipIgual ==
    ASSUME UNCHANGED zip
    PROVE  Fica
  BY DEF Fica, Cheio

LEMMA FormaFica ==
    ASSUME Fica
    PROVE  /\ \A m : MsgForma(m) => MsgForma(m)'
           /\ \A s : SesForma(s) => SesForma(s)'
<1>1. ASSUME NEW m, MsgForma(m)
      PROVE  MsgForma(m)'
  BY <1>1 DEF MsgForma, Fica
<1>2. ASSUME NEW s, SesForma(s)
      PROVE  SesForma(s)'
  <2>1. MsgForma(s.msg)'
    <3> PICK m : m = s.msg
      OBVIOUS
    <3> QED BY <1>1, <1>2 DEF SesForma
  <2> QED BY <1>2, <2>1 DEF SesForma, Fica
<1> QED BY <1>1, <1>2

(* The tasks are well formed.                                              *)
Tarefas == ses \in [Workers -> Tarefa] /\ \A w \in Workers : SesForma(ses[w])

LEMMA TrocaTarefa ==
    ASSUME Tarefas, Fica, NEW w \in Workers, NEW s \in Tarefa, SesForma(s)',
           ses' = [ses EXCEPT ![w] = s]
    PROVE  Tarefas'
<1>1. ses' \in [Workers -> Tarefa]
  BY DEF Tarefas
<1>2. ASSUME NEW v \in Workers
      PROVE  SesForma(ses[v])'
  <2> PICK t : t = ses'[v]
    OBVIOUS
  <2>1. t = s \/ SesForma(t)
    BY DEF Tarefas
  <2>2. SesForma(t)'
    BY <2>1, FormaFica
  <2> QED BY <2>2 DEF SesForma
<1> QED BY <1>1, <1>2 DEF Tarefas

LEMMA IgualTarefa ==
    ASSUME Tarefas, Fica, UNCHANGED ses
    PROVE  Tarefas'
<1>1. ASSUME NEW v \in Workers
      PROVE  SesForma(ses[v])'
  <2> PICK t : t = ses[v]
    OBVIOUS
  <2>1. SesForma(t)'
    BY FormaFica DEF Tarefas
  <2> QED BY <2>1 DEF SesForma
<1> QED BY <1>1 DEF Tarefas

LEMMA SoltaTarefa ==
    ASSUME Tarefas, Fica, NEW w \in Workers, Solta(w)
    PROVE  Tarefas'
  BY LivreTipo, TrocaTarefa DEF Solta

LEMMA VaiTarefa ==
    ASSUME Tarefas, Fica, NEW w \in Workers, NEW p \in Pcs \ {"livre", "processar"},
           ses[w].pc # "livre", Vai(w, p),
           NEW e, ses[w].exec = e, p \in {"correr", "baixar"} \/ Cheio(e)',
           p \in {"disp_gravar", "disp_publicar"} => ses[w].eleitos \subseteq Dependentes
    PROVE  Tarefas'
<1> PICK a : a = ses[w]
  OBVIOUS
<1>1. a \in Tarefa /\ SesForma(a) /\ SesForma(a)'
  BY FormaFica DEF Tarefas
<1> PICK s : s = [a EXCEPT !.pc = p]
  OBVIOUS
<1>2. s \in Tarefa /\ s.pc = p /\ s.msg = a.msg /\ s.exec = a.exec /\ s.eleitos = a.eleitos
  BY <1>1 DEF Tarefa
<1>3. SesForma(s)'
  BY <1>1, <1>2 DEF SesForma
<1>4. ses' = [ses EXCEPT ![w] = s]
  BY DEF Vai, Tarefas
<1> QED BY <1>2, <1>3, <1>4, TrocaTarefa

(* The queue and the chords are well formed.                               *)
Filas  == fila \subseteq Mensagem /\ \A m \in fila : MsgForma(m)
Cordas == coros \subseteq Coro /\ \A c \in coros : c.membros # {}

LEMMA MaisFila ==
    ASSUME Filas, Fica, NEW M \in SUBSET Mensagem, \A m \in M : MsgForma(m)',
           fila' \subseteq fila \cup M
    PROVE  Filas'
<1>1. ASSUME NEW m \in fila'
      PROVE  MsgForma(m)'
  <2>1. MsgForma(m) \/ m \in M
    BY DEF Filas
  <2> QED BY <2>1, FormaFica
<1>2. fila' \subseteq Mensagem
  BY DEF Filas
<1> QED BY <1>1, <1>2 DEF Filas

LEMMA MenosFila ==
    ASSUME Filas, Fica, fila' \subseteq fila
    PROVE  Filas'
<1>1. {} \in SUBSET Mensagem /\ fila' \subseteq fila \cup {} /\ \A m \in {} : MsgForma(m)'
  OBVIOUS
<1> QED BY <1>1, MaisFila

LEMMA UmaFila ==
    ASSUME Filas, Fica, NEW m \in Mensagem, MsgForma(m)', fila' \subseteq fila \cup {m}
    PROVE  Filas'
<1>1. {m} \in SUBSET Mensagem /\ \A n \in {m} : MsgForma(n)'
  OBVIOUS
<1> QED BY <1>1, MaisFila

LEMMA MesmaMensagem ==
    ASSUME Tarefas, Fica, NEW w \in Workers
    PROVE  /\ ses[w] \in Tarefa /\ SesForma(ses[w])
           /\ ses[w].msg \in Mensagem
           /\ \E m : m = ses[w].msg /\ MsgForma(m) /\ MsgForma(m)'
<1> PICK m : m = ses[w].msg
  OBVIOUS
<1>1. ses[w] \in Tarefa /\ SesForma(ses[w])
  BY DEF Tarefas
<1>2. m \in Mensagem /\ MsgForma(m)
  BY <1>1 DEF Tarefa, SesForma
<1> QED BY <1>1, <1>2, FormaFica

LEMMA RepeteFila ==
    ASSUME Filas, Tarefas, Fica, NEW w \in Workers,
           fila' \in {fila, fila \cup {ses[w].msg}}
    PROVE  Filas'
<1> PICK m : m = ses[w].msg /\ MsgForma(m)'
  BY MesmaMensagem
<1>1. m \in Mensagem
  BY MesmaMensagem
<1> QED BY <1>1, UmaFila

(* The rows are of their types.                                            *)
Linhas == /\ fonte \in [Membros -> Versoes]
          /\ pai \in [Execs -> StatusExecucao]
          /\ corrida \in [Execs -> StatusExecucao]
          /\ filho \in [Execs -> [Membros -> StatusExecucao]]
          /\ zip \in [Execs -> [Membros -> Versoes \cup {0}]]
          /\ promovidos \subseteq Membros \X Versoes
          /\ campanhas \subseteq Execs
          /\ gasto \in [{"pedidos", "posts", "quedas", "erros", "reentregas",
                         "cancelamentos", "mudancas"} -> Nat]
          /\ \A e \in Execs : pai[e] = "aguardando_ingestao" => Cheio(e)

Bem == Linhas /\ Filas /\ Cordas /\ Tarefas

LEMMA TiposBem ==
    /\ Bem <=> TypeOK /\ Formas
    /\ Bem' <=> TypeOK' /\ Formas'
<1>1. Bem <=> TypeOK /\ Formas
  BY DEF Bem, Linhas, Filas, Cordas, Tarefas, TypeOK, Formas
<1>2. Bem' <=> TypeOK' /\ Formas'
  BY DEF Bem, Linhas, Filas, Cordas, Tarefas, TypeOK, Formas
<1> QED BY <1>1, <1>2

LEMMA GastaTipo ==
    ASSUME Linhas, NEW b, NEW n, Gasta(b, n)
    PROVE  gasto' \in [{"pedidos", "posts", "quedas", "erros", "reentregas",
                        "cancelamentos", "mudancas"} -> Nat]
<1>1. \A D : gasto \in [D -> Nat] => gasto' \in [D -> Nat]
  <2> SUFFICES ASSUME NEW D, gasto \in [D -> Nat] PROVE gasto' \in [D -> Nat]
    OBVIOUS
  <2>1. gasto' = [gasto EXCEPT ![b] = gasto[b] + 1]
    BY DEF Gasta
  <2>2. gasto' = [a \in D |-> IF a = b THEN gasto[b] + 1 ELSE gasto[a]]
    BY <2>1
  <2>3. \A a \in D : gasto'[a] \in Nat
    <3> TAKE a \in D
    <3>1. gasto[a] \in Nat /\ gasto[a] + 1 \in Nat
      OBVIOUS
    <3> QED BY <2>2, <3>1
  <2> QED BY <2>2, <2>3
<1> QED BY <1>1 DEF Linhas

(* The rows after a step that changes statuses only.                       *)
LEMMA StatusLinhas ==
    ASSUME Linhas, UNCHANGED <<fonte, zip, promovidos, campanhas>>,
           gasto' \in [{"pedidos", "posts", "quedas", "erros", "reentregas",
                        "cancelamentos", "mudancas"} -> Nat],
           pai' \in [Execs -> StatusExecucao],
           corrida' \in [Execs -> StatusExecucao],
           filho' \in [Execs -> [Membros -> StatusExecucao]],
           \A e \in Execs : pai'[e] = "aguardando_ingestao" =>
                               pai[e] = "aguardando_ingestao" \/ Cheio(e)
    PROVE  Linhas'
<1>1. \A e \in Execs : Cheio(e)' <=> Cheio(e)
  BY DEF Cheio
<1> QED BY <1>1 DEF Linhas

LEMMA MesmasLinhas ==
    ASSUME Linhas, UNCHANGED <<fonte, banco, dados, gasto>>
    PROVE  Linhas'
  BY StatusLinhas DEF Linhas, banco, dados

-----------------------------------------------------------------------------
(* Each action keeps the types.  The requests of the operator:             *)
LEMMA TipoOperador ==
    ASSUME Bem, Operador
    PROVE  Bem'
<1>0. Linhas /\ Filas /\ Cordas /\ Tarefas
  BY DEF Bem
<1>1. ASSUME Agendar
      PROVE  Bem'
  <2>1. Fica
    BY <1>1, ZipIgual DEF Agendar
  <2>2. Linhas'
    BY <1>0, <1>1, GastaTipo, StatusLinhas DEF Agendar, Linhas, StatusExecucao, Final, Ativo, dados
  <2>3. Filas'
    <3>1. PICK e \in Execs : fila' \subseteq fila \cup {Msg("sinc", e)}
      BY <1>1 DEF Agendar
    <3> PICK m : m = Msg("sinc", e)
      OBVIOUS
    <3>2. m \in Mensagem /\ m.tipo = "sinc" /\ m.exec = e
      BY MsgTipo
    <3>3. MsgForma(m)'
      BY <3>2 DEF MsgForma
    <3> QED BY <1>0, <2>1, <3>1, <3>2, <3>3, UmaFila
  <2>4. Cordas' /\ Tarefas'
    BY <1>0, <1>1, <2>1, IgualTarefa DEF Agendar, Cordas
  <2> QED BY <2>2, <2>3, <2>4 DEF Bem
<1>2. ASSUME PedirPreProcesso
      PROVE  Bem'
  <2>1. Fica /\ UNCHANGED zip
    BY <1>2, ZipIgual DEF PedirPreProcesso, banco
  <2>2. Linhas'
    BY <1>0, <1>2, GastaTipo, StatusLinhas DEF PedirPreProcesso, Linhas, banco, dados
  <2>3. Filas'
    <3> PICK m : m = Msg("pre", 0)
      OBVIOUS
    <3>1. m \in Mensagem /\ m.tipo = "pre"
      BY MsgTipo
    <3>2. MsgForma(m)'
      BY <3>1 DEF MsgForma
    <3> QED BY <1>0, <1>2, <2>1, <3>1, <3>2, UmaFila DEF PedirPreProcesso
  <2>4. Cordas' /\ Tarefas'
    BY <1>0, <1>2, <2>1, IgualTarefa DEF PedirPreProcesso, Cordas
  <2> QED BY <2>2, <2>3, <2>4 DEF Bem
<1>3. ASSUME NEW e \in Execs, PedirIngestao(e)
      PROVE  Bem'
  <2>1. Fica /\ UNCHANGED zip
    BY <1>3, ZipIgual DEF PedirIngestao, banco
  <2>2. Linhas'
    BY <1>0, <1>3, GastaTipo, StatusLinhas DEF PedirIngestao, Linhas, banco, dados
  <2>3. Filas'
    <3> PICK m : m = Msg("ingerir", e)
      OBVIOUS
    <3>1. m \in Mensagem /\ m.tipo = "ingerir" /\ m.exec = e
      BY MsgTipo
    <3>2. Cheio(e)'
      BY <1>0, <1>3, <2>1 DEF PedirIngestao, Linhas, Fica
    <3>3. MsgForma(m)'
      BY <3>1, <3>2 DEF MsgForma
    <3> QED BY <1>0, <1>3, <2>1, <3>1, <3>3, UmaFila DEF PedirIngestao
  <2>4. Cordas' /\ Tarefas'
    BY <1>0, <1>3, <2>1, IgualTarefa DEF PedirIngestao, Cordas
  <2> QED BY <2>2, <2>3, <2>4 DEF Bem
<1>4. ASSUME NEW e \in Execs, NEW S, Revoga(e, S), Fica
      PROVE  Tarefas'
  <2>1. PICK mortos \in SUBSET Revogaveis(e, S) :
           ses' = [w \in Workers |-> IF w \in mortos THEN SessaoLivre ELSE ses[w]]
    BY <1>4 DEF Revoga
  <2>2. ses' \in [Workers -> Tarefa]
    BY <1>0, <2>1, LivreTipo DEF Tarefas
  <2>3. ASSUME NEW w \in Workers
        PROVE  SesForma(ses[w])'
    <3> PICK s : s = ses'[w]
      OBVIOUS
    <3>1. s = SessaoLivre \/ s = ses[w]
      BY <2>1
    <3>2. SesForma(s)
      BY <1>0, <3>1, LivreTipo DEF Tarefas
    <3>3. SesForma(s)'
      BY <1>4, <3>2, FormaFica
    <3> QED BY <3>3 DEF SesForma
  <2> QED BY <2>2, <2>3 DEF Tarefas
<1>5. ASSUME NEW e \in Execs, Cancelar(e)
      PROVE  Bem'
  <2>1. Fica
    BY <1>5, ZipIgual DEF Cancelar
  <2>2. Linhas'
    BY <1>0, <1>5, GastaTipo, StatusLinhas DEF Cancelar, Linhas, StatusExecucao, Final, Ativo, dados
  <2>3. Filas' /\ Cordas'
    BY <1>0, <1>5, <2>1, MenosFila DEF Cancelar, Cordas
  <2>4. Tarefas'
    BY <1>4, <1>5, <2>1 DEF Cancelar
  <2> QED BY <2>2, <2>3, <2>4 DEF Bem
<1>6. ASSUME NEW e \in Execs, NEW x \in Membros, CancelarMembro(e, x)
      PROVE  Bem'
  <2>1. Fica
    BY <1>6, ZipIgual DEF CancelarMembro
  <2>2. Linhas'
    BY <1>0, <1>6, GastaTipo, StatusLinhas DEF CancelarMembro, Linhas, StatusExecucao, Final, Ativo, dados
  <2>3. Filas' /\ Cordas'
    BY <1>0, <1>6, <2>1, MenosFila DEF CancelarMembro, Cordas
  <2>4. Tarefas'
    BY <1>4, <1>6, <2>1 DEF CancelarMembro
  <2> QED BY <2>2, <2>3, <2>4 DEF Bem
<1> QED BY <1>1, <1>2, <1>3, <1>5, <1>6 DEF Operador

(* A task keeps its type when another begins with message m of the queue.  *)
LEMMA ComecaTarefa ==
    ASSUME Filas, Tarefas, Fica, NEW w \in Workers, NEW m \in fila,
           NEW p \in Pcs \ {"livre"}, NEW e \in Execs,
           p \in {"correr", "baixar"} \/ Cheio(e)',
           p = "processar" => m.tipo = "membro",
           ses' = [ses EXCEPT ![w] = Sessao(p, m, e)]
    PROVE  Tarefas'
<1> PICK s : s = Sessao(p, m, e)
  OBVIOUS
<1>1. m \in Mensagem /\ MsgForma(m)'
  BY FormaFica DEF Filas
<1>2. s \in Tarefa /\ s.pc = p /\ s.msg = m /\ s.exec = e /\ s.eleitos = {}
  BY <1>1, SessaoTipo
<1>3. SesForma(s)'
  BY <1>1, <1>2 DEF SesForma
<1> QED BY <1>2, <1>3, TrocaTarefa

(* A member that returns adds, at most, the dispatch to the queue.         *)
LEMMA RetornaTipo ==
    ASSUME Filas, Cordas, Fica, NEW m \in Mensagem, MsgForma(m), m.tipo = "membro",
           NEW f \in SUBSET fila, Retorna(m, f)
    PROVE  Filas' /\ Cordas'
<1>1. m.exec \in Execs /\ Cheio(m.exec)
  BY DEF MsgForma
<1>2. Filas'
  <2> PICK n : n = Msg("disparar", m.exec)
    OBVIOUS
  <2>1. n \in Mensagem /\ n.tipo = "disparar" /\ n.exec = m.exec
    BY <1>1, MsgTipo
  <2>2. Cheio(n.exec)'
    BY <1>1, <2>1 DEF Fica
  <2>3. MsgForma(n)'
    BY <1>1, <2>1, <2>2 DEF MsgForma
  <2>4. fila' \subseteq fila \cup {n}
    BY DEF Retorna
  <2> QED BY <2>1, <2>3, <2>4, UmaFila
<1>3. ASSUME NEW c \in coros'
      PROVE  c \in Coro /\ c.membros # {}
  <2>1. CASE c \in coros
    BY <2>1 DEF Cordas
  <2>2. CASE c \notin coros
    <3>1. PICK d \in coros : d.membros = m.coro /\ c = [d EXCEPT !.prontos = @ \cup {m.membro}]
      BY <2>2 DEF Retorna, ComPronto, CoroDe
    <3>2. d \in Coro /\ d.membros # {}
      BY DEF Cordas
    <3>3. m.membro \in Dependentes
      BY <3>1, <3>2 DEF MsgForma, Coro
    <3> QED BY <3>1, <3>2, <3>3 DEF Coro
  <2> QED BY <2>1, <2>2
<1>4. Cordas'
  BY <1>3 DEF Cordas
<1> QED BY <1>2, <1>4

(* A free worker takes a message.                                          *)
LEMMA TipoPega ==
    ASSUME Bem, NEW m \in fila, Pega(m)
    PROVE  Bem'
<1>0. Linhas /\ Filas /\ Cordas /\ Tarefas
  BY DEF Bem
<1>9. m \in Mensagem /\ MsgForma(m)
  BY <1>0 DEF Filas
<1>1. ASSUME NEW w \in Workers, Adotar(w, m)
      PROVE  Bem'
  <2>1. Fica
    BY <1>1, ZipIgual DEF Adotar
  <2>2. PICK e \in Adotada(m) : /\ pai' = [pai EXCEPT ![e] = "em_execucao"]
                                /\ ses' = [ses EXCEPT ![w] = Sessao("correr", m, e)]
    BY <1>1 DEF Adotar
  <2>3. e \in Execs
    BY <1>9 DEF Adotada, MsgForma
  <2>4. Linhas'
    BY <1>0, <1>1, <2>2, StatusLinhas DEF Adotar, Linhas, StatusExecucao, Ativo, dados
  <2>5. Tarefas'
    BY <1>0, <2>1, <2>2, <2>3, ComecaTarefa DEF Pcs, PcPai
  <2>6. Filas' /\ Cordas'
    BY <1>0, <1>1, <2>1, MenosFila DEF Adotar, Cordas
  <2> QED BY <2>4, <2>5, <2>6 DEF Bem
<1>2. ASSUME NEW w \in Workers, PegarIngestao(w, m)
      PROVE  Bem'
  <2>1. Fica /\ Linhas'
    BY <1>0, <1>2, MesmasLinhas, ZipIgual DEF PegarIngestao, banco
  <2>2. m.tipo = "ingerir" /\ m.exec \in Execs /\ Cheio(m.exec)'
    <3>1. m.tipo = "ingerir" /\ m.exec \in Execs /\ Cheio(m.exec)
      BY <1>2, <1>9 DEF PegarIngestao, MsgForma
    <3> QED BY <2>1, <3>1 DEF Fica
  <2>3. Tarefas'
    <3>1. UNCHANGED ses \/ ses' = [ses EXCEPT ![w] = Sessao("ing_ler", m, m.exec)]
      BY <1>2 DEF PegarIngestao
    <3> QED BY <1>0, <2>1, <2>2, <3>1, IgualTarefa, ComecaTarefa DEF Pcs, PcPai
  <2>4. Filas' /\ Cordas'
    BY <1>0, <1>2, <2>1, MenosFila DEF PegarIngestao, Cordas
  <2> QED BY <2>1, <2>3, <2>4 DEF Bem
<1>3. ASSUME NEW w \in Workers, MembroBarrado(w, m)
      PROVE  Bem'
  <2>1. Fica
    BY <1>3, ZipIgual DEF MembroBarrado
  <2>2. Linhas'
    BY <1>0, <1>3, StatusLinhas DEF MembroBarrado, Linhas, StatusExecucao, Final, dados
  <2>3. Tarefas'
    BY <1>0, <1>3, <2>1, IgualTarefa DEF MembroBarrado
  <2>4. Filas' /\ Cordas'
    BY <1>0, <1>3, <1>9, <2>1, RetornaTipo DEF MembroBarrado
  <2> QED BY <2>2, <2>3, <2>4 DEF Bem
<1>4. ASSUME NEW w \in Workers, MembroComeca(w, m)
      PROVE  Bem'
  <2>1. Fica /\ UNCHANGED zip
    BY <1>4, ZipIgual DEF MembroComeca
  <2>2. Linhas'
    BY <1>0, <1>4, StatusLinhas DEF MembroComeca, Linhas, StatusExecucao, Ativo, dados
  <2>3. m.tipo = "membro" /\ m.exec \in Execs /\ Cheio(m.exec)'
    <3>1. m.tipo = "membro" /\ m.exec \in Execs /\ Cheio(m.exec)
      BY <1>4, <1>9 DEF MembroComeca, MsgForma
    <3> QED BY <2>1, <3>1 DEF Fica
  <2>4. Tarefas'
    BY <1>0, <1>4, <2>1, <2>3, ComecaTarefa DEF MembroComeca, Pcs
  <2>5. Filas' /\ Cordas'
    BY <1>0, <1>4, <2>1, MenosFila DEF MembroComeca, Cordas
  <2> QED BY <2>2, <2>4, <2>5 DEF Bem
<1>5. ASSUME NEW w \in Workers, DespachoBarrado(w, m)
      PROVE  Bem'
  <2>1. Fica /\ Linhas'
    BY <1>0, <1>5, MesmasLinhas, ZipIgual DEF DespachoBarrado, banco
  <2>2. Filas' /\ Cordas' /\ Tarefas'
    BY <1>0, <1>5, <2>1, MenosFila, IgualTarefa DEF DespachoBarrado, Cordas
  <2> QED BY <2>1, <2>2 DEF Bem
<1>6. ASSUME NEW w \in Workers, NEW s \in Tarefa, s.pc \in {"disp_gravar", "fin_gravar"},
             s.msg = m, s.exec = m.exec, s.eleitos \subseteq Dependentes,
             m.tipo \in {"disparar", "finalizar"}, fila' = fila \ {m},
             ses' = [ses EXCEPT ![w] = s], UNCHANGED <<fonte, banco, dados, coros, gasto>>
      PROVE  Bem'
  <2>1. Fica /\ Linhas'
    BY <1>0, <1>6, MesmasLinhas, ZipIgual DEF banco
  <2>2. SesForma(s)
    BY <1>6, <1>9 DEF SesForma, MsgForma
  <2>3. Tarefas'
    BY <1>0, <1>6, <2>1, <2>2, FormaFica, TrocaTarefa
  <2>4. Filas' /\ Cordas'
    BY <1>0, <1>6, <2>1, MenosFila DEF Cordas
  <2> QED BY <2>1, <2>3, <2>4 DEF Bem
<1>7. ASSUME NEW w \in Workers, DespachoLe(w, m)
      PROVE  Bem'
  <2>1. PICK S \in SUBSET Pendentes(m.exec) :
           ses' = [ses EXCEPT ![w] = [Sessao("disp_gravar", m, m.exec) EXCEPT !.eleitos = S]]
    BY <1>7 DEF DespachoLe
  <2> PICK a : a = Sessao("disp_gravar", m, m.exec)
    OBVIOUS
  <2>2. m.exec \in Execs
    BY <1>7, <1>9 DEF MsgForma, DespachoLe
  <2>3. a \in Tarefa /\ a.pc = "disp_gravar" /\ a.msg = m /\ a.exec = m.exec
    BY <1>9, <2>2, SessaoTipo DEF Pcs, PcFim
  <2>4. S \subseteq Dependentes /\ S \subseteq Membros
    BY DEF Pendentes, Dependentes
  <2> PICK s : s = [a EXCEPT !.eleitos = S]
    OBVIOUS
  <2>5. s \in Tarefa /\ s.pc = "disp_gravar" /\ s.msg = m /\ s.exec = m.exec /\ s.eleitos = S
    BY <2>3, <2>4 DEF Tarefa
  <2> QED BY <1>6, <1>7, <2>1, <2>4, <2>5 DEF DespachoLe
<1>8. ASSUME NEW w \in Workers, FinalizaLe(w, m)
      PROVE  Bem'
  <2>1. m.exec \in Execs
    BY <1>8, <1>9 DEF MsgForma, FinalizaLe
  <2>2. pai[m.exec] \in StatusExecucao /\ Desfecho(m.exec) \in StatusExecucao
    BY <1>0, <2>1 DEF Linhas, Desfecho, StatusExecucao, Final
  <2> PICK a : a = Sessao("fin_gravar", m, m.exec)
    OBVIOUS
  <2>3. a \in Tarefa /\ a.pc = "fin_gravar" /\ a.msg = m /\ a.exec = m.exec /\ a.eleitos = {}
    BY <1>9, <2>1, SessaoTipo DEF Pcs, PcFim
  <2> PICK s : s = [a EXCEPT !.lido = pai[m.exec], !.fim = Desfecho(m.exec)]
    OBVIOUS
  <2>4. s \in Tarefa /\ s.pc = "fin_gravar" /\ s.msg = m /\ s.exec = m.exec /\ s.eleitos = {}
    BY <2>2, <2>3 DEF Tarefa
  <2> QED BY <1>6, <1>8, <2>4 DEF FinalizaLe
<1> QED BY <1>1, <1>2, <1>3, <1>4, <1>5, <1>7, <1>8 DEF Pega

(* A busy worker goes on.  First the statuses of its execution's rows:     *)
LEMMA TipoFase1 ==
    ASSUME Bem, NEW w \in Workers,
           CriarCorrida(w) \/ BaixarIgual(w) \/ BaixarNovo(w) \/ Preparar(w)
    PROVE  Bem'
<1>0. Linhas /\ Filas /\ Cordas /\ Tarefas
  BY DEF Bem
<1> DEFINE e == ses[w].exec
<1>1. ses[w] \in Tarefa /\ SesForma(ses[w])
  BY <1>0 DEF Tarefas
<1>2. e \in Execs
  BY <1>1 DEF SesForma, CriarCorrida, BaixarIgual, BaixarNovo, Preparar
<1>3. ASSUME UNCHANGED <<fila, coros>>, Fica
      PROVE  Filas' /\ Cordas'
  BY <1>0, <1>3, MenosFila DEF Cordas
<1>4. ASSUME CriarCorrida(w)
      PROVE  Bem'
  <2>1. Fica
    BY <1>4, ZipIgual DEF CriarCorrida
  <2>2. Linhas'
    BY <1>0, <1>4, StatusLinhas DEF CriarCorrida, Linhas, StatusExecucao, Ativo, dados
  <2>3. Tarefas'
    BY <1>0, <1>4, <2>1, VaiTarefa DEF CriarCorrida, Pcs, PcPai
  <2> QED BY <1>3, <1>4, <2>1, <2>2, <2>3 DEF CriarCorrida, Bem
<1>5. ASSUME zip' = [zip EXCEPT ![e] = fonte]
      PROVE  Fica /\ zip' \in [Execs -> [Membros -> Versoes \cup {0}]]
  BY <1>0, <1>2, <1>5 DEF Fica, Cheio, Linhas
<1>6. ASSUME BaixarIgual(w)
      PROVE  Bem'
  <2>1. Fica /\ zip' \in [Execs -> [Membros -> Versoes \cup {0}]]
    BY <1>5, <1>6 DEF BaixarIgual
  <2>2. /\ pai' \in [Execs -> StatusExecucao] /\ corrida' \in [Execs -> StatusExecucao]
        /\ \A f \in Execs : pai'[f] = "aguardando_ingestao" => pai[f] = "aguardando_ingestao"
    BY <1>0, <1>2, <1>6 DEF BaixarIgual, Linhas, StatusExecucao, Final
  <2>3. Linhas'
    BY <1>0, <1>6, <2>1, <2>2 DEF BaixarIgual, Linhas, Fica, dados
  <2>4. Tarefas'
    BY <1>0, <1>6, <2>1, SoltaTarefa DEF BaixarIgual
  <2> QED BY <1>3, <1>6, <2>1, <2>3, <2>4 DEF BaixarIgual, Bem
<1>7. ASSUME BaixarNovo(w)
      PROVE  Bem'
  <2>1. Fica /\ zip' \in [Execs -> [Membros -> Versoes \cup {0}]]
    BY <1>5, <1>7 DEF BaixarNovo
  <2>2. Linhas'
    BY <1>0, <1>7, <2>1 DEF BaixarNovo, Linhas, Fica, dados
  <2>3. Tarefas'
    <3> PICK f : f = e
      OBVIOUS
    <3>1. Cheio(f)'
      <4>1. f = e /\ f \in Execs
        BY <1>2
      <4> QED BY <1>0, <1>7, <4>1 DEF BaixarNovo, Cheio, Linhas
    <3> QED BY <1>0, <1>7, <2>1, <3>1, VaiTarefa DEF BaixarNovo, Pcs, PcPai
  <2> QED BY <1>3, <1>7, <2>1, <2>2, <2>3 DEF BaixarNovo, Bem
<1>8. ASSUME Preparar(w)
      PROVE  Bem'
  <2>1. Fica /\ Cheio(e)
    BY <1>1, <1>8, ZipIgual DEF Preparar, SesForma
  <2>2. /\ filho' \in [Execs -> [Membros -> StatusExecucao]]
        /\ pai' \in [Execs -> StatusExecucao] /\ corrida' \in [Execs -> StatusExecucao]
        /\ \A f \in Execs : pai'[f] = "aguardando_ingestao" =>
                                pai[f] = "aguardando_ingestao" \/ Cheio(f)
    BY <1>0, <1>2, <1>8, <2>1 DEF Preparar, Linhas, StatusExecucao, Final
  <2>3. Linhas'
    BY <1>0, <1>8, <2>2, StatusLinhas DEF Preparar, Linhas, dados
  <2>4. Tarefas'
    <3> PICK f : f = e /\ Cheio(f)'
      <4> PICK f : f = e
        OBVIOUS
      <4>1. Cheio(f)'
        BY <1>2, <2>1 DEF Fica
      <4> QED BY <4>1
    <3>1. Vai(w, "ing_ler") \/ Solta(w)
      BY <1>8 DEF Preparar
    <3> QED BY <1>0, <1>8, <2>1, <3>1, SoltaTarefa, VaiTarefa DEF Preparar, Pcs, PcPai
  <2> QED BY <1>3, <1>8, <2>1, <2>3, <2>4 DEF Preparar, Bem
<1> QED BY <1>4, <1>6, <1>7, <1>8

LEMMA TipoFase2 ==
    ASSUME Bem, NEW w \in Workers,
           IngerirLe(w) \/ IngerirGrava(w) \/ AgendarCabecalho(w) \/ PublicarFase2(w)
    PROVE  Bem'
<1>0. Linhas /\ Filas /\ Cordas /\ Tarefas
  BY DEF Bem
<1>1. ses[w] \in Tarefa /\ SesForma(ses[w])
  BY <1>0 DEF Tarefas
<1>2. UNCHANGED <<fonte, zip, dados, coros, gasto>> /\ Fica /\ Cordas'
  <2>1. UNCHANGED <<fonte, zip, dados, coros, gasto>>
    BY DEF IngerirLe, IngerirGrava, AgendarCabecalho, PublicarFase2, banco
  <2> QED BY <1>0, <2>1, ZipIgual DEF Cordas
<1> PICK e : e = ses[w].exec
  OBVIOUS
<1>3. e \in Execs /\ Cheio(e) /\ Cheio(e)'
  <2>1. e \in Execs /\ Cheio(e)
    BY <1>1 DEF SesForma, IngerirLe, IngerirGrava, AgendarCabecalho, PublicarFase2
  <2> QED BY <1>2, <2>1 DEF Fica
<1>4. ASSUME IngerirLe(w)
      PROVE  Bem'
  <2>1. Linhas' /\ Filas'
    BY <1>0, <1>2, <1>4, MesmasLinhas, MenosFila DEF IngerirLe
  <2>2. Vai(w, "ing_gravar") \/ Solta(w)
    BY <1>4 DEF IngerirLe
  <2>3. Tarefas'
    BY <1>0, <1>2, <1>3, <1>4, <2>2, SoltaTarefa, VaiTarefa DEF IngerirLe, Pcs, PcPai
  <2> QED BY <1>2, <2>1, <2>3 DEF Bem
<1>5. ASSUME IngerirGrava(w)
      PROVE  Bem'
  <2>1. Linhas'
    BY <1>0, <1>2, <1>5, StatusLinhas DEF IngerirGrava, Linhas, StatusExecucao, Ativo, dados
  <2>2. Filas'
    BY <1>0, <1>2, <1>5, MenosFila DEF IngerirGrava
  <2>3. Tarefas'
    BY <1>0, <1>2, <1>3, <1>5, VaiTarefa DEF IngerirGrava, Pcs, PcPai
  <2> QED BY <1>2, <2>1, <2>2, <2>3 DEF Bem
<1>6. ASSUME AgendarCabecalho(w)
      PROVE  Bem'
  <2>1. filho' \in [Execs -> [Membros -> StatusExecucao]]
    <3>1. filho \in [Execs -> [Membros -> StatusExecucao]] /\ "agendada" \in StatusExecucao
      BY <1>0 DEF Linhas, StatusExecucao, Ativo
    <3>2. [filho[e] EXCEPT ![Cabecalho] = "agendada"] \in [Membros -> StatusExecucao]
      BY <1>3, <3>1
    <3>3. \/ filho' = filho
          \/ filho' = [filho EXCEPT ![e] = [filho[e] EXCEPT ![Cabecalho] = "agendada"]]
      BY <1>6 DEF AgendarCabecalho
    <3> QED BY <3>1, <3>2, <3>3
  <2>2. Linhas'
    BY <1>0, <1>2, <1>6, <2>1, StatusLinhas DEF AgendarCabecalho, Linhas, dados
  <2>3. Filas'
    BY <1>0, <1>2, <1>6, MenosFila DEF AgendarCabecalho
  <2> PICK a : a = ses[w]
    OBVIOUS
  <2>4. PICK S \in {{}, {Cabecalho}, a.eleitos} :
           ses' = [ses EXCEPT ![w] = [a EXCEPT !.pc = "publicar", !.eleitos = S]]
    <3>1. \/ ses' = [ses EXCEPT ![w] = [a EXCEPT !.pc = "publicar"]]
          \/ ses' = [ses EXCEPT ![w] = [a EXCEPT !.pc = "publicar", !.eleitos = {Cabecalho}]]
      BY <1>6 DEF AgendarCabecalho
    <3>2. [a EXCEPT !.pc = "publicar"] = [a EXCEPT !.pc = "publicar", !.eleitos = a.eleitos]
      BY <1>1 DEF Tarefa
    <3> QED BY <3>1, <3>2
  <2> PICK s : s = [a EXCEPT !.pc = "publicar", !.eleitos = S]
    OBVIOUS
  <2>5. s \in Tarefa /\ s.pc = "publicar" /\ s.msg = a.msg /\ s.exec = e
    BY <1>1, ConstantesOk DEF Tarefa, Pcs, PcPai
  <2>6. SesForma(s)
    BY <1>1, <1>3, <2>5 DEF SesForma
  <2>7. Tarefas'
    BY <1>0, <1>2, <2>4, <2>5, <2>6, FormaFica, TrocaTarefa
  <2> QED BY <1>2, <2>2, <2>3, <2>7 DEF Bem
<1>7. ASSUME PublicarFase2(w)
      PROVE  Bem'
  <2>1. Linhas' /\ Tarefas'
    BY <1>0, <1>2, <1>7, MesmasLinhas, SoltaTarefa DEF PublicarFase2
  <2>2. PICK m \in {Msg("disparar", e), MsgMembro(e, Cabecalho, {})} :
           fila' = fila \cup {m}
    BY <1>7 DEF PublicarFase2
  <2>3. /\ m \in Mensagem /\ m.exec = e /\ m.tipo \in {"disparar", "membro"}
        /\ m.tipo = "membro" => m.coro = {} /\ m.membro = Cabecalho
    BY <1>3, MsgTipo, MembroTipo, ConstantesOk
  <2>4. MsgForma(m)
    BY <1>3, <2>3 DEF MsgForma
  <2>5. Filas'
    BY <1>0, <1>2, <2>2, <2>3, <2>4, FormaFica, UmaFila
  <2> QED BY <1>2, <2>1, <2>5 DEF Bem
<1> QED BY <1>4, <1>5, <1>6, <1>7

(* A status of one member is replaced.                                     *)
LEMMA TrocaFilho ==
    ASSUME filho \in [Execs -> [Membros -> StatusExecucao]],
           NEW e \in Execs, NEW x, NEW v \in StatusExecucao,
           filho' = [filho EXCEPT ![e][x] = v]
    PROVE  filho' \in [Execs -> [Membros -> StatusExecucao]]
<1>1. [filho[e] EXCEPT ![x] = v] \in [Membros -> StatusExecucao]
  OBVIOUS
<1> QED BY <1>1

LEMMA TipoMembroTermina ==
    ASSUME Bem, NEW w \in Workers, MembroTermina(w)
    PROVE  Bem'
<1>0. Linhas /\ Filas /\ Cordas /\ Tarefas
  BY DEF Bem
<1> PICK m : m = ses[w].msg
  OBVIOUS
<1>1. /\ ses[w].pc = "processar" /\ UNCHANGED <<fonte, pai, corrida, zip, campanhas, gasto>>
      /\ filho' = [filho EXCEPT ![m.exec][m.membro] = Veredito(zip[m.exec][m.membro])]
      /\ promovidos' = IF zip[m.exec][m.membro] \in Vazias THEN promovidos
                       ELSE promovidos \cup {<<m.membro, zip[m.exec][m.membro]>>}
      /\ Retorna(m, fila) /\ Solta(w)
  BY DEF MembroTermina
<1>2. m \in Mensagem /\ MsgForma(m) /\ m.tipo = "membro"
  BY <1>0, <1>1 DEF Tarefas, Tarefa, SesForma
<1>3. m.exec \in Execs /\ Cheio(m.exec) /\ m.membro \in Membros
  BY <1>2, ConstantesOk DEF MsgForma, Mensagem, Dependentes
<1>4. Fica
  BY <1>1, ZipIgual
<1>5. filho' \in [Execs -> [Membros -> StatusExecucao]]
  <2>1. Veredito(zip[m.exec][m.membro]) \in StatusExecucao
    BY DEF Veredito, StatusExecucao, Final
  <2> QED BY <1>0, <1>1, <1>3, <2>1, TrocaFilho DEF Linhas
<1>6. promovidos' \subseteq Membros \X Versoes
  BY <1>0, <1>1, <1>3 DEF Linhas, Cheio
<1>7. Linhas'
  <2>1. \A e \in Execs : Cheio(e)' <=> Cheio(e)
    BY <1>1 DEF Cheio
  <2> QED BY <1>0, <1>1, <1>5, <1>6, <2>1 DEF Linhas
<1>8. Filas' /\ Cordas'
  BY <1>0, <1>1, <1>2, <1>4, RetornaTipo
<1>9. Tarefas'
  BY <1>0, <1>1, <1>4, SoltaTarefa
<1> QED BY <1>7, <1>8, <1>9 DEF Bem

LEMMA TipoDespacho ==
    ASSUME Bem, NEW w \in Workers, DespachoGrava(w) \/ DespachoPublica(w)
    PROVE  Bem'
<1>0. Linhas /\ Filas /\ Cordas /\ Tarefas
  BY DEF Bem
<1> PICK e, S : e = ses[w].exec /\ S = ses[w].eleitos
  OBVIOUS
<1>1. ses[w] \in Tarefa /\ SesForma(ses[w])
  BY <1>0 DEF Tarefas
<1>2. UNCHANGED <<fonte, zip, pai, corrida, dados, gasto>> /\ Fica
  <2>1. UNCHANGED <<fonte, zip, pai, corrida, dados, gasto>>
    BY DEF DespachoGrava, DespachoPublica, banco
  <2> QED BY <2>1, ZipIgual
<1>3. e \in Execs /\ Cheio(e) /\ Cheio(e)' /\ S \subseteq Dependentes
  <2>1. e \in Execs /\ Cheio(e) /\ S \subseteq Dependentes
    BY <1>1 DEF SesForma, DespachoGrava, DespachoPublica
  <2> QED BY <1>2, <2>1 DEF Fica
<1>4. ASSUME DespachoGrava(w)
      PROVE  Bem'
  <2>1. filho' \in [Execs -> [Membros -> StatusExecucao]]
    <3>1. filho' = [filho EXCEPT ![e] = [x \in Membros |-> IF x \in S THEN "agendada"
                                                            ELSE filho[e][x]]]
      BY <1>4 DEF DespachoGrava
    <3>2. filho \in [Execs -> [Membros -> StatusExecucao]] /\ "agendada" \in StatusExecucao
      BY <1>0 DEF Linhas, StatusExecucao, Ativo
    <3>3. [x \in Membros |-> IF x \in S THEN "agendada" ELSE filho[e][x]]
             \in [Membros -> StatusExecucao]
      BY <1>3, <3>2
    <3> QED BY <3>1, <3>2, <3>3
  <2>2. Linhas'
    BY <1>0, <1>2, <2>1, StatusLinhas DEF Linhas, dados
  <2>3. Filas' /\ Cordas'
    BY <1>0, <1>2, <1>4, MenosFila DEF DespachoGrava, Cordas
  <2>4. Tarefas'
    BY <1>0, <1>2, <1>3, <1>4, VaiTarefa DEF DespachoGrava, Pcs, PcFim
  <2> QED BY <2>2, <2>3, <2>4 DEF Bem
<1>5. ASSUME DespachoPublica(w)
      PROVE  Bem'
  <2>1. Linhas' /\ Tarefas'
    BY <1>0, <1>2, <1>5, MesmasLinhas, SoltaTarefa DEF DespachoPublica
  <2>2. Filas' /\ Cordas'
    <3>1. CASE S = {}
      <4> PICK m : m = Msg("finalizar", e)
        OBVIOUS
      <4>1. m \in Mensagem /\ m.tipo = "finalizar" /\ m.exec = e
        BY <1>3, MsgTipo
      <4>2. MsgForma(m)
        BY <1>3, <4>1 DEF MsgForma
      <4>3. fila' = fila \cup {m} /\ UNCHANGED coros
        BY <1>5, <3>1 DEF DespachoPublica
      <4> QED BY <1>0, <1>2, <4>1, <4>2, <4>3, FormaFica, UmaFila DEF Cordas
    <3>2. CASE S # {}
      <4> PICK M : M = {MsgMembro(e, x, S) : x \in S}
        OBVIOUS
      <4>1. fila' = fila \cup M /\ coros' = coros \cup {[exec |-> e, membros |-> S, prontos |-> {}]}
        BY <1>5, <3>2 DEF DespachoPublica
      <4>2. ASSUME NEW m \in M
            PROVE  m \in Mensagem /\ MsgForma(m)
        <5>1. PICK x \in S : m = MsgMembro(e, x, S)
          OBVIOUS
        <5>2. x \in Membros
          BY <1>3 DEF Dependentes
        <5>3. m \in Mensagem /\ m.tipo = "membro" /\ m.exec = e /\ m.membro = x /\ m.coro = S
          BY <1>3, <5>1, <5>2, MembroTipo
        <5> QED BY <1>3, <5>3 DEF MsgForma
      <4>3. M \in SUBSET Mensagem /\ \A m \in M : MsgForma(m)'
        BY <1>2, <4>2, FormaFica
      <4>4. Filas'
        BY <1>0, <1>2, <4>1, <4>3, MaisFila
      <4> PICK c : c = [exec |-> e, membros |-> S, prontos |-> {}]
        OBVIOUS
      <4>5. c \in Coro /\ c.membros # {}
        BY <1>3, <3>2 DEF Coro
      <4>6. Cordas'
        BY <1>0, <4>1, <4>5 DEF Cordas
      <4> QED BY <4>4, <4>6
    <3> QED BY <3>1, <3>2
  <2> QED BY <2>1, <2>2 DEF Bem
<1> QED BY <1>4, <1>5

LEMMA TipoFim ==
    ASSUME Bem, NEW w \in Workers, FinalizaGrava(w) \/ CriarCampanha(w)
    PROVE  Bem'
<1>0. Linhas /\ Filas /\ Cordas /\ Tarefas
  BY DEF Bem
<1>1. ses[w] \in Tarefa /\ SesForma(ses[w])
  BY <1>0 DEF Tarefas
<1> PICK e : e = ses[w].exec
  OBVIOUS
<1>2. UNCHANGED <<fonte, filho, zip, promovidos, fila, coros, gasto>> /\ Fica
  <2>1. UNCHANGED <<fonte, filho, zip, promovidos, fila, coros, gasto>>
    BY DEF FinalizaGrava, CriarCampanha, banco, dados
  <2> QED BY <2>1, ZipIgual
<1>3. e \in Execs /\ Cheio(e) /\ Cheio(e)'
  <2>1. e \in Execs /\ Cheio(e)
    BY <1>1 DEF SesForma, FinalizaGrava, CriarCampanha
  <2> QED BY <1>2, <2>1 DEF Fica
<1>4. Filas' /\ Cordas'
  BY <1>0, <1>2, MenosFila DEF Cordas
<1>5. ASSUME FinalizaGrava(w)
      PROVE  Bem'
  <2>1. ses[w].fim \in StatusExecucao
    BY <1>1 DEF Tarefa
  <2>2. Linhas'
    BY <1>0, <1>2, <1>3, <1>5, <2>1, StatusLinhas DEF FinalizaGrava, Linhas, dados
  <2>3. Vai(w, "campanha") \/ Solta(w)
    BY <1>5 DEF FinalizaGrava
  <2>4. Tarefas'
    BY <1>0, <1>2, <1>3, <1>5, <2>3, VaiTarefa, SoltaTarefa DEF FinalizaGrava, Pcs, PcFim
  <2> QED BY <1>4, <2>2, <2>4 DEF Bem
<1>6. ASSUME CriarCampanha(w)
      PROVE  Bem'
  <2>1. Linhas'
    <3>1. \A f \in Execs : Cheio(f)' <=> Cheio(f)
      BY <1>2 DEF Cheio
    <3> QED BY <1>0, <1>2, <1>3, <1>6, <3>1 DEF CriarCampanha, Linhas, banco
  <2>2. Tarefas'
    BY <1>0, <1>2, <1>6, SoltaTarefa DEF CriarCampanha
  <2> QED BY <1>4, <2>1, <2>2 DEF Bem
<1> QED BY <1>5, <1>6

(* Exceptions, losses and redeliveries.                                    *)
LEMMA TipoFalha ==
    ASSUME Bem, NEW w \in Workers, Falha(w)
    PROVE  Bem'
<1>0. Linhas /\ Filas /\ Cordas /\ Tarefas
  BY DEF Bem
<1>1. UNCHANGED <<fonte, zip, dados, coros>> /\ Fica /\ Cordas'
  <2>1. UNCHANGED <<fonte, zip, dados, coros>>
    BY DEF Falha, ErroComStatus, DependenciaAusente, MembroErra, Queda, Reentrega, banco
  <2> QED BY <1>0, <2>1, ZipIgual DEF Cordas
<1>2. gasto' \in [{"pedidos", "posts", "quedas", "erros", "reentregas",
                   "cancelamentos", "mudancas"} -> Nat]
  BY <1>0, GastaTipo
     DEF Falha, ErroComStatus, DependenciaAusente, MembroErra, Queda, Reentrega
<1>3. Filas'
  <2>1. fila' \in {fila, fila \cup {ses[w].msg}}
    BY DEF Falha, ErroComStatus, DependenciaAusente, MembroErra, Queda, Reentrega, Repete
  <2> QED BY <1>0, <1>1, <2>1, RepeteFila
<1>4. Tarefas'
  <2>1. Solta(w) \/ UNCHANGED ses
    BY DEF Falha, ErroComStatus, DependenciaAusente, MembroErra, Queda, Reentrega
  <2> QED BY <1>0, <1>1, <2>1, SoltaTarefa, IgualTarefa
<1>5. Linhas'
  <2>1. \/ UNCHANGED <<pai, corrida>>
        \/ /\ pai' = [pai EXCEPT ![ses[w].exec] = "falha"]
           /\ corrida' = [corrida EXCEPT ![ses[w].exec] = "falha"]
    BY DEF Falha, ErroComStatus, DependenciaAusente, MembroErra, Queda, Reentrega, banco
  <2>2. /\ pai' \in [Execs -> StatusExecucao] /\ corrida' \in [Execs -> StatusExecucao]
        /\ \A e \in Execs : pai'[e] = "aguardando_ingestao" => pai[e] = "aguardando_ingestao"
    BY <1>0, <2>1 DEF Linhas, StatusExecucao, Final
  <2>3. filho' \in [Execs -> [Membros -> StatusExecucao]]
    <3>1. CASE UNCHANGED filho
      BY <1>0, <3>1 DEF Linhas
    <3>2. CASE MembroErra(w)
      <4> PICK m : m = ses[w].msg
        OBVIOUS
      <4>1. m.tipo = "membro" /\ MsgForma(m)
        BY <1>0, <3>2 DEF MembroErra, Tarefas, SesForma
      <4>2. m.exec \in Execs /\ "falha" \in StatusExecucao
        BY <4>1 DEF MsgForma, StatusExecucao, Final
      <4>3. filho' = [filho EXCEPT ![m.exec][m.membro] = "falha"]
        BY <3>2 DEF MembroErra
      <4> QED BY <1>0, <4>2, <4>3, TrocaFilho DEF Linhas
    <3> QED BY <3>1, <3>2
            DEF Falha, ErroComStatus, DependenciaAusente, Queda, Reentrega, banco
  <2> QED BY <1>0, <1>1, <1>2, <2>2, <2>3, StatusLinhas DEF dados
<1> QED BY <1>1, <1>3, <1>4, <1>5 DEF Bem

LEMMA TipoPasso ==
    ASSUME Bem, [Next]_vars
    PROVE  Bem'
<1>0. Linhas /\ Filas /\ Cordas /\ Tarefas
  BY DEF Bem
<1>1. ASSUME UNCHANGED vars
      PROVE  Bem'
  <2>1. Fica /\ Linhas'
    BY <1>0, <1>1, MesmasLinhas, ZipIgual DEF vars, banco
  <2> QED BY <1>0, <1>1, <2>1, MenosFila, IgualTarefa DEF vars, celery, Cordas, Bem
<1>2. ASSUME NEW w \in Workers, Prossegue(w)
      PROVE  Bem'
  BY <1>2, TipoFase1, TipoFase2, TipoMembroTermina, TipoDespacho, TipoFim DEF Prossegue
<1>3. ASSUME Varrer
      PROVE  Bem'
  <2>1. Fica
    BY <1>3, ZipIgual DEF Varrer
  <2>2. Linhas'
    BY <1>0, <1>3, StatusLinhas DEF Varrer, Linhas, StatusExecucao, Final, dados
  <2> QED BY <1>0, <1>3, <2>1, <2>2, MenosFila, IgualTarefa DEF Varrer, celery, Cordas, Bem
<1>4. ASSUME NEW x \in Membros, NEW v \in Versoes, FonteMuda(x, v)
      PROVE  Bem'
  <2>1. Fica /\ UNCHANGED zip
    BY <1>4, ZipIgual DEF FonteMuda, banco
  <2>2. \A e \in Execs : Cheio(e)' <=> Cheio(e)
    BY <2>1 DEF Cheio
  <2>3. gasto' \in [{"pedidos", "posts", "quedas", "erros", "reentregas",
                     "cancelamentos", "mudancas"} -> Nat]
    BY <1>0, <1>4, GastaTipo DEF FonteMuda
  <2>4. Linhas'
    BY <1>0, <1>4, <2>2, <2>3 DEF FonteMuda, Linhas, banco, dados
  <2> QED BY <1>0, <1>4, <2>1, <2>4, MenosFila, IgualTarefa DEF FonteMuda, celery, Cordas, Bem
<1> QED BY <1>1, <1>2, <1>3, <1>4, TipoPega, TipoFalha, TipoOperador DEF Next

LEMMA TipoInicio ==
    ASSUME Init
    PROVE  Bem
<1>1. Linhas
  BY ConstantesOk DEF Init, Linhas, StatusExecucao, SemZip
<1>2. Filas /\ Cordas
  BY DEF Init, Filas, Cordas
<1>3. Tarefas
  BY LivreTipo DEF Init, Tarefas
<1> QED BY <1>1, <1>2, <1>3 DEF Bem

(* Every reachable state is well typed: no exception, loss, redelivery,    *)
(* cancellation or sweep makes a task process a ZIP that was not           *)
(* downloaded, or a chord count a member that is not one of its own.       *)
THEOREM TipoCorretoZip == Spec => []TypeOK
<1>1. Init => Bem
  BY TipoInicio
<1>2. Bem /\ [Next]_vars => Bem'
  BY TipoPasso
<1>3. Bem => TypeOK
  BY TiposBem
<1> QED BY <1>1, <1>2, <1>3, PTL DEF Spec

-----------------------------------------------------------------------------
(* A part of what fits in the window fits.                                 *)
LEMMA ParteCabe ==
    ASSUME NEW S, CabeNaJanela(S), NEW T, T \subseteq S
    PROVE  CabeNaJanela(T)
<1>1. S \subseteq Dependentes /\ T \subseteq Dependentes
  BY DEF CabeNaJanela
<1>2. ASSUME Financeiro
      PROVE  Cardinality(T) <= Janela
  <2>1. S \subseteq Membros /\ Cardinality(S) <= Janela
    BY <1>1, <1>2 DEF CabeNaJanela, Dependentes
  <2>2. IsFiniteSet(S)
    BY <2>1, ConstantesOk, FS_Subset
  <2>3. Cardinality(T) <= Cardinality(S) /\ IsFiniteSet(T)
    BY <2>2, FS_Subset
  <2>4. Cardinality(S) \in Nat /\ Cardinality(T) \in Nat /\ Janela \in Nat
    BY <2>2, <2>3, FS_CardinalityType, ConstantesOk
  <2> QED BY <2>1, <2>3, <2>4
<1> QED BY <1>1, <1>2 DEF CabeNaJanela

LEMMA NadaCabe == CabeNaJanela({})
  BY FS_EmptySet, ConstantesOk DEF CabeNaJanela

LEMMA ContidaDepois ==
    ASSUME NEW e, NEW S, CabeNaJanela(S), EmAtividade(e)' \subseteq S,
           EmAtividade(e)' # {} => filho'[e][Cabecalho] \in Final
    PROVE  Contida(e)'
<1>1. PICK A : A = EmAtividade(e)'
  OBVIOUS
<1>2. CabeNaJanela(A)
  BY <1>1, ParteCabe
<1>3. CabeNaJanela(EmAtividade(e))'
  BY <1>1, <1>2 DEF CabeNaJanela
<1> QED BY <1>3 DEF Contida

LEMMA VaziaContida ==
    ASSUME NEW e, EmAtividade(e)' = {}
    PROVE  Contida(e)'
  BY NadaCabe, ContidaDepois

(* What a step does not touch stays right: of execution e the tasks, the   *)
(* messages and the chords are the same, and the statuses are too, but for *)
(* what the sweep closes.                                                  *)
Poupa(e) ==
    /\ \A w \in Workers : \/ ses'[w] = ses[w]
                          \/ ses[w].exec # e /\ ses'[w].exec # e
    /\ \A m : m.exec = e /\ m.tipo # "sinc" => (m \in fila' <=> m \in fila)
    /\ \A c : c.exec = e => (c \in coros' <=> c \in coros)
    /\ zip'[e] = zip[e]
    /\ promovidos \subseteq promovidos'
    /\ pai'[e] \in {pai[e], "falha"}
    /\ corrida'[e] = corrida[e] \/ (corrida[e] = "em_execucao" /\ corrida'[e] = "falha")
    /\ \A x \in Membros : \/ filho'[e][x] = filho[e][x]
                          \/ filho[e][x] = "em_execucao" /\ filho'[e][x] = "falha"

LEMMA PoupaConjuntos ==
    ASSUME NEW e \in Execs, Poupa(e)
    PROVE  /\ Sessoes(e)' = Sessoes(e) /\ Mensagens(e)' = Mensagens(e) /\ Coros(e)' = Coros(e)
           /\ EmAtividade(e)' \subseteq EmAtividade(e)
           /\ Intocada(e) => Intocada(e)'
           /\ Acabada(e) => Acabada(e)'
           /\ Completa(e) => Completa(e)'
           /\ Contida(e) => Contida(e)'
           /\ filho[e][Cabecalho] \in Final => filho'[e][Cabecalho] = filho[e][Cabecalho]
<1>1. Sessoes(e)' = Sessoes(e)
  BY DEF Poupa, Sessoes
<1>2. Mensagens(e)' = Mensagens(e)
  BY DEF Poupa, Mensagens
<1>3. Coros(e)' = Coros(e)
  BY DEF Poupa, Coros
<1>4. \A x \in Membros : \/ filho'[e][x] = filho[e][x]
                         \/ filho[e][x] = "em_execucao" /\ filho'[e][x] = "falha"
  BY DEF Poupa
<1>5. EmAtividade(e)' \subseteq EmAtividade(e)
  BY <1>4 DEF EmAtividade, Ativo, Dependentes
<1>6. (Intocada(e) => Intocada(e)') /\ (Acabada(e) => Acabada(e)') /\ (Completa(e) => Completa(e)')
  BY <1>4 DEF Intocada, Acabada, Completa, Final, Aproveitavel
<1>7. filho[e][Cabecalho] \in Final => filho'[e][Cabecalho] = filho[e][Cabecalho]
  BY <1>4, ConstantesOk DEF Final
<1>8. Contida(e) => Contida(e)'
  BY <1>5, <1>7, ContidaDepois DEF Contida
<1> QED BY <1>1, <1>2, <1>3, <1>5, <1>6, <1>7, <1>8

LEMMA PoupaEtapa ==
    ASSUME NEW e \in Execs, Poupa(e), NEW s, Etapa(e, s)
    PROVE  Etapa(e, s)'
<1>1. /\ EmAtividade(e)' \subseteq EmAtividade(e)
      /\ Intocada(e) => Intocada(e)'
      /\ Acabada(e) => Acabada(e)'
      /\ Completa(e) => Completa(e)'
      /\ filho[e][Cabecalho] \in Final => filho'[e][Cabecalho] = filho[e][Cabecalho]
  BY PoupaConjuntos
<1>2. "skipped" \in Final
  BY DEF Final
<1>3. CabeNaJanela(s.eleitos)' <=> CabeNaJanela(s.eleitos)
  BY DEF CabeNaJanela
<1> QED BY <1>1, <1>2, <1>3 DEF Etapa

LEMMA PoupaHistoria ==
    ASSUME NEW e \in Execs, Poupa(e), Historia(e)
    PROVE  Historia(e)'
<1>1. /\ Sessoes(e)' = Sessoes(e) /\ Mensagens(e)' = Mensagens(e) /\ Coros(e)' = Coros(e)
      /\ Intocada(e) => Intocada(e)'
      /\ Completa(e) => Completa(e)'
      /\ Contida(e) => Contida(e)'
  BY PoupaConjuntos
<1>2. (Parada(e) => Parada(e)') /\ (Encerrada(e) => Encerrada(e)')
  <2>1. Parada(e) => Parada(e)'
    BY <1>1 DEF Parada
  <2>2. \A w \in Sessoes(e) : ses'[w] = ses[w]
    BY DEF Poupa, Sessoes
  <2>3. Encerrada(e) => Encerrada(e)'
    BY <1>1, <2>2 DEF Encerrada
  <2> QED BY <2>1, <2>3
<1>3. /\ zip'[e] = zip[e] /\ promovidos \subseteq promovidos'
      /\ pai'[e] \in {pai[e], "falha"}
      /\ corrida'[e] = corrida[e] \/ (corrida[e] = "em_execucao" /\ corrida'[e] = "falha")
      /\ \A x \in Membros : \/ filho'[e][x] = filho[e][x]
                            \/ filho[e][x] = "em_execucao" /\ filho'[e][x] = "falha"
  BY DEF Poupa
<1>4. Processados(e) => Processados(e)'
  BY <1>3 DEF Processados, Aproveitavel
<1>5. pai'[e] \in {"nenhuma", "agendada"} => Guardada(e)'
  <2>1. Guardada(e) => Guardada(e)'
    BY <1>1, <1>2, <1>3 DEF Guardada
  <2> QED BY <1>3, <2>1 DEF Historia
<1>6. Resultados(e) => Resultados(e)'
  BY <1>1, <1>2, <1>3, <1>4 DEF Resultados
<1> QED BY <1>5, <1>6 DEF Historia

(* A message that a chord waits for is of the chord's execution.           *)
LEMMA EsperadaDe ==
    ASSUME NEW c, NEW m, Esperada(m, c)
    PROVE  /\ m.exec = c.exec /\ m.tipo = "membro" /\ m.coro = c.membros
           /\ m.membro \in c.membros \ c.prontos
<1> PICK x : x = m.membro
  OBVIOUS
<1>1. m = [tipo |-> "membro", exec |-> c.exec, membro |-> x, coro |-> c.membros]
  BY DEF Esperada, MsgMembro
<1> QED BY <1>1 DEF Esperada

LEMMA PoupaCerta ==
    ASSUME NEW e \in Execs, Poupa(e), Certa(e)
    PROVE  Certa(e)'
<1>1. /\ Sessoes(e)' = Sessoes(e) /\ Mensagens(e)' = Mensagens(e) /\ Coros(e)' = Coros(e)
      /\ EmAtividade(e)' \subseteq EmAtividade(e)
      /\ Acabada(e) => Acabada(e)'
      /\ Contida(e) => Contida(e)'
      /\ filho[e][Cabecalho] \in Final => filho'[e][Cabecalho] = filho[e][Cabecalho]
  BY PoupaConjuntos
<1>2. Parada(e) => Parada(e)'
  BY <1>1 DEF Parada
<1>3. ASSUME NaTarefa(e)
      PROVE  NaTarefa(e)'
  <2>1. PICK w \in Workers : /\ Sessoes(e) = {w} /\ Mensagens(e) = {} /\ Coros(e) = {}
                             /\ Etapa(e, ses[w])
    BY <1>3 DEF NaTarefa
  <2> PICK s : s = ses[w]
    OBVIOUS
  <2>2. ses'[w] = s
    <3>1. ses[w].exec = e
      BY <2>1 DEF Sessoes
    <3> QED BY <3>1 DEF Poupa
  <2>3. Etapa(e, s)'
    BY <2>1, PoupaEtapa
  <2>4. Etapa(e, ses[w])'
    BY <2>2, <2>3
  <2> QED BY <1>1, <2>1, <2>4 DEF NaTarefa
<1>4. ASSUME NaFila(e)
      PROVE  NaFila(e)'
  <2>1. PICK m \in fila : /\ Sessoes(e) = {} /\ Mensagens(e) = {m} /\ Coros(e) = {}
                          /\ Promessa(e, m)
    BY <1>4 DEF NaFila
  <2>2. m \in fila'
    BY <1>1, <2>1 DEF Mensagens
  <2>3. Promessa(e, m)'
    BY <1>1, <2>1 DEF Promessa
  <2> QED BY <1>1, <2>1, <2>2, <2>3 DEF NaFila
<1>5. ASSUME NoCoro(e)
      PROVE  NoCoro(e)'
  <2>1. PICK c \in coros : Coral(e, c)
    BY <1>5 DEF NoCoro
  <2>2. c \in coros'
    BY <1>1, <2>1 DEF Coral, Coros
  <2>3. CabeNaJanela(c.membros)' <=> CabeNaJanela(c.membros)
    BY DEF CabeNaJanela
  <2>4. \A w \in Sessoes(e) : ses'[w] = ses[w]
    BY DEF Poupa, Sessoes
  <2>5. \A w \in Sessoes(e) : ses[w].msg \notin fila'
    <3>1. c.exec = e
      BY <2>1 DEF Coral, Coros
    <3>2. \A w \in Sessoes(e) : Esperada(ses[w].msg, c) /\ ses[w].msg \notin fila
      BY <2>1 DEF Coral
    <3>3. \A w \in Sessoes(e) : ses[w].msg.exec = e /\ ses[w].msg.tipo # "sinc"
      BY <3>1, <3>2, EsperadaDe
    <3> QED BY <3>2, <3>3 DEF Poupa
  <2>6. Coral(e, c)'
    <3>1. \A w \in Sessoes(e) : /\ ses'[w].pc = "processar"
                                /\ Esperada(ses'[w].msg, c)
                                /\ ses'[w].msg \notin fila'
                                /\ \A v \in Sessoes(e) \ {w} : ses'[v].msg # ses'[w].msg
      BY <2>1, <2>4, <2>5 DEF Coral
    <3> QED BY <1>1, <2>1, <2>3, <3>1 DEF Coral
  <2> QED BY <2>2, <2>6 DEF NoCoro
<1> QED BY <1>2, <1>3, <1>4, <1>5, PoupaHistoria DEF Certa

(* So it is enough to look at the execution that a step acts for.          *)
LEMMA SoUma ==
    ASSUME \A f \in Execs : Certa(f), NEW e, \A f \in Execs \ {e} : Poupa(f),
           e \in Execs => Certa(e)'
    PROVE  \A f \in Execs : Certa(f)'
  BY PoupaCerta

(* Worker w has the task s next.                                           *)
Troca(w, s) == ses' = [ses EXCEPT ![w] = s]

(* The rest of the rows, messages and chords are as they were.             *)
SoMexe(e) ==
    /\ \A m : m.exec # e /\ m.tipo # "sinc" => (m \in fila' <=> m \in fila)
    /\ \A c : c.exec # e => (c \in coros' <=> c \in coros)
    /\ \A f \in Execs \ {e} : /\ pai'[f] = pai[f] /\ corrida'[f] = corrida[f]
                              /\ filho'[f] = filho[f] /\ zip'[f] = zip[f]
    /\ promovidos \subseteq promovidos'

LEMMA Alheias ==
    ASSUME Bem, NEW e \in Execs, SoMexe(e), NEW w \in Workers, NEW s,
           ses[w].exec \in {e, 0}, s.exec \in {e, 0}, Troca(w, s)
    PROVE  \A f \in Execs \ {e} : Poupa(f)
<1> TAKE f \in Execs \ {e}
<1>1. f # e /\ f # 0
  BY ExecsNat
<1>2. ASSUME NEW v \in Workers
      PROVE  \/ ses'[v] = ses[v]
             \/ ses[v].exec # f /\ ses'[v].exec # f
  <2>1. ses \in [Workers -> Tarefa]
    BY DEF Bem, Tarefas
  <2> QED BY <1>1, <2>1 DEF Troca
<1>3. pai'[f] = pai[f] /\ corrida'[f] = corrida[f] /\ filho'[f] = filho[f] /\ zip'[f] = zip[f]
  BY DEF SoMexe
<1>4. /\ \A m : m.exec = f /\ m.tipo # "sinc" => (m \in fila' <=> m \in fila)
      /\ \A c : c.exec = f => (c \in coros' <=> c \in coros)
      /\ promovidos \subseteq promovidos'
  BY <1>1 DEF SoMexe
<1> QED BY <1>2, <1>3, <1>4 DEF Poupa

(* An execution somebody still acts for, and has not ended.                *)
Aberta(e) == pai[e] \notin {"nenhuma", "agendada"}

EmAberto(e) == /\ pai[e] \notin {"sucesso", "skipped", "cancelada"}
               /\ corrida[e] \notin {"sucesso", "skipped"}
               /\ Processados(e)

Viva(e) == Aberta(e) /\ (SemCancelamento => EmAberto(e))

LEMMA VivaHistoria ==
    ASSUME NEW e \in Execs
    PROVE  Viva(e)' => Historia(e)'
<1>1. EmAberto(e)' => Resultados(e)'
  BY DEF EmAberto, Resultados
<1> QED BY <1>1 DEF Viva, Aberta, Historia

(* Who acts alone.                                                         *)
SoTarefa(e, w) == /\ Sessoes(e) = {w} /\ Mensagens(e) = {} /\ Coros(e) = {}
                  /\ Etapa(e, ses[w])
                  /\ Aberta(e) /\ Historia(e)
                  /\ ses[w].pc \notin {"fin_gravar", "campanha"} => Viva(e)

SoMensagem(e, m) == /\ Sessoes(e) = {} /\ Mensagens(e) = {m} /\ Coros(e) = {}
                    /\ Promessa(e, m)
                    /\ Aberta(e) /\ Historia(e)
                    /\ m.tipo # "finalizar" => Viva(e)

LEMMA VivaDe ==
    ASSUME NEW e \in Execs, Historia(e), ~Parada(e)
    PROVE  Aberta(e) /\ (~Encerrada(e) => Viva(e))
<1>1. Aberta(e)
  BY DEF Historia, Guardada, Aberta
<1>2. ASSUME SemCancelamento, ~Encerrada(e)
      PROVE  EmAberto(e)
  BY <1>2 DEF Historia, Resultados, EmAberto
<1> QED BY <1>1, <1>2 DEF Viva

LEMMA VivaIgual ==
    ASSUME NEW e, Viva(e), UNCHANGED <<pai, corrida, filho, zip, promovidos>>
    PROVE  Viva(e)'
<1>1. Processados(e) => Processados(e)'
  BY DEF Processados
<1> QED BY <1>1 DEF Viva, Aberta, EmAberto

LEMMA DonaTarefa ==
    ASSUME Bem, NEW e \in Execs, Certa(e), NEW w \in Workers, ses[w].exec = e,
           ses[w].pc # "processar" \/ ses[w].msg.coro = {}
    PROVE  SoTarefa(e, w)
<1>1. w \in Sessoes(e)
  BY DEF Sessoes
<1>2. ~Parada(e) /\ ~NaFila(e)
  BY <1>1 DEF Parada, NaFila
<1>3. ~NoCoro(e)
  <2> SUFFICES ASSUME NEW c \in coros, Coral(e, c)
               PROVE  FALSE
    BY DEF NoCoro
  <2>1. ses[w].pc = "processar" /\ ses[w].msg.coro = c.membros
    BY <1>1, EsperadaDe DEF Coral
  <2>2. c.membros # {}
    BY DEF Bem, Cordas
  <2> QED BY <2>1, <2>2
<1>4. /\ Sessoes(e) = {w} /\ Mensagens(e) = {} /\ Coros(e) = {}
      /\ Etapa(e, ses[w])
  BY <1>1, <1>2, <1>3 DEF Certa, NaTarefa
<1>5. Aberta(e) /\ Historia(e) /\ (~Encerrada(e) => Viva(e))
  BY <1>2, VivaDe DEF Certa
<1>6. ses[w].pc \notin {"fin_gravar", "campanha"} => Viva(e)
  BY <1>1, <1>5 DEF Encerrada
<1> QED BY <1>4, <1>5, <1>6 DEF SoTarefa

LEMMA DonaMensagem ==
    ASSUME Bem, NEW e \in Execs, Certa(e), NEW m \in fila,
           m.exec = e, m.tipo # "sinc", m.tipo = "membro" => m.coro = {}
    PROVE  SoMensagem(e, m)
<1>1. m \in Mensagens(e)
  BY DEF Mensagens
<1>2. ~Parada(e) /\ ~NaTarefa(e)
  BY <1>1 DEF Parada, NaTarefa
<1>3. ~NoCoro(e)
  <2> SUFFICES ASSUME NEW c \in coros, Coral(e, c)
               PROVE  FALSE
    BY DEF NoCoro
  <2>1. m.tipo = "membro" /\ m.coro = c.membros
    BY <1>1, EsperadaDe DEF Coral
  <2>2. c.membros # {}
    BY DEF Bem, Cordas
  <2> QED BY <2>1, <2>2
<1>4. /\ Sessoes(e) = {} /\ Mensagens(e) = {m} /\ Coros(e) = {}
      /\ Promessa(e, m)
  BY <1>1, <1>2, <1>3 DEF Certa, NaFila
<1>5. Aberta(e) /\ Historia(e) /\ (~Encerrada(e) => Viva(e))
  BY <1>2, VivaDe DEF Certa
<1>6. m.tipo # "finalizar" => Viva(e)
  BY <1>1, <1>5, MsgTipo DEF Encerrada
<1> QED BY <1>4, <1>5, <1>6 DEF SoMensagem

LEMMA Membresia ==
    ASSUME NEW e \in Execs, Certa(e),
           \/ \E m \in Mensagens(e) : m.tipo = "membro" /\ m.coro # {}
           \/ \E w \in Sessoes(e) : ses[w].pc = "processar" /\ ses[w].msg.coro # {}
    PROVE  Viva(e) /\ \E c \in coros : Coral(e, c)
<1>1. ~Parada(e) /\ ~Encerrada(e)
  BY MsgTipo DEF Parada, Encerrada
<1>2. Viva(e)
  BY <1>1, VivaDe DEF Certa
<1>3. ~NaTarefa(e)
  <2> SUFFICES ASSUME NEW w \in Workers, Sessoes(e) = {w}, Mensagens(e) = {}, Etapa(e, ses[w])
               PROVE  FALSE
    BY DEF NaTarefa
  <2>1. ses[w].pc = "processar" /\ ses[w].msg.coro # {}
    OBVIOUS
  <2>2. ses[w].msg = MsgMembro(e, Cabecalho, {})
    BY <2>1 DEF Etapa
  <2> QED BY <2>1, <2>2 DEF MsgMembro
<1>4. ~NaFila(e)
  <2> SUFFICES ASSUME NEW m \in fila, Sessoes(e) = {}, Mensagens(e) = {m}, Promessa(e, m)
               PROVE  FALSE
    BY DEF NaFila
  <2>1. m.tipo = "membro" /\ m.coro # {}
    OBVIOUS
  <2> QED BY <2>1 DEF Promessa, MsgMembro, Msg
<1> QED BY <1>1, <1>2, <1>3, <1>4 DEF Certa, NoCoro

(* The task that acts alone goes on, or ends.                              *)
LEMMA SegueTarefa ==
    ASSUME Bem, NEW e \in Execs, NEW w \in Workers, SoTarefa(e, w), NEW s, s.exec = e,
           Troca(w, s), UNCHANGED coros,
           \A m : m.exec = e /\ m.tipo # "sinc" => (m \in fila' => m \in fila)
    PROVE  Etapa(e, s)' => NaTarefa(e)'
<1>1. ses \in [Workers -> Tarefa] /\ Sessoes(e) = {w} /\ Mensagens(e) = {} /\ Coros(e) = {}
  BY DEF SoTarefa, Bem, Tarefas
<1>2. ses'[w] = s /\ Sessoes(e)' = {w}
  BY <1>1 DEF Sessoes, Troca
<1>3. Mensagens(e)' = {} /\ Coros(e)' = {}
  BY <1>1 DEF Mensagens, Coros
<1>4. Etapa(e, s)' => Etapa(e, ses[w])'
  BY <1>2
<1> QED BY <1>2, <1>3, <1>4 DEF NaTarefa

LEMMA LargaTarefa ==
    ASSUME Bem, NEW e \in Execs, NEW w \in Workers, SoTarefa(e, w), Solta(w), UNCHANGED coros
    PROVE  /\ Sessoes(e)' = {} /\ Coros(e)' = {}
           /\ \A m : /\ m.exec = e /\ m.tipo # "sinc" => m \notin fila
                     /\ m \in Mensagens(e)' <=> m \in fila' /\ m.exec = e /\ m.tipo # "sinc"
           /\ SessaoLivre.exec \in {e, 0} /\ Troca(w, SessaoLivre)
<1>1. ses \in [Workers -> Tarefa] /\ Sessoes(e) = {w} /\ Mensagens(e) = {} /\ Coros(e) = {}
  BY DEF SoTarefa, Bem, Tarefas
<1>2. e # 0 /\ SessaoLivre.exec = 0
  BY ExecsNat, LivreTipo
<1>3. Sessoes(e)' = {}
  BY <1>1, <1>2 DEF Sessoes, Solta
<1> QED BY <1>1, <1>2, <1>3 DEF Coros, Mensagens, Solta, Troca

LEMMA Fecha ==
    ASSUME Bem, \A f \in Execs : Certa(f), NEW e \in Execs, SoMexe(e), NEW w \in Workers,
           NEW s, ses[w].exec \in {e, 0}, s.exec \in {e, 0}, Troca(w, s),
           Certa(e)'
    PROVE  \A f \in Execs : Certa(f)'
<1>1. \A f \in Execs \ {e} : Poupa(f)
  BY Alheias
<1>2. ASSUME NEW f \in Execs
      PROVE  Certa(f)'
  <2>1. CASE f = e
    BY <2>1
  <2>2. CASE f # e
    BY <1>1, <2>2, PoupaCerta
  <2> QED BY <2>1, <2>2
<1> QED BY <1>2

LEMMA VaiComo ==
    ASSUME Bem, NEW w \in Workers, NEW p, Vai(w, p)
    PROVE  \E s : /\ Troca(w, s) /\ s.pc = p /\ s.msg = ses[w].msg
                  /\ s.exec = ses[w].exec /\ s.eleitos = ses[w].eleitos /\ s.fim = ses[w].fim
<1> PICK a : a = ses[w]
  OBVIOUS
<1> PICK s : s = [a EXCEPT !.pc = p]
  OBVIOUS
<1>1. ses \in [Workers -> Tarefa] /\ a \in Tarefa
  BY DEF Bem, Tarefas
<1>2. Troca(w, s)
  BY <1>1 DEF Vai, Troca
<1>3. /\ s.pc = p /\ s.msg = a.msg /\ s.exec = a.exec /\ s.eleitos = a.eleitos
      /\ s.fim = a.fim
  BY <1>1 DEF Tarefa
<1> QED BY <1>2, <1>3

(* The task of w, which is not at a member, acts alone.                    *)
LEMMA Sozinha ==
    ASSUME Bem, \A f \in Execs : Certa(f), NEW w \in Workers,
           ses[w].pc \notin {"livre", "processar"}
    PROVE  \E e \in Execs : /\ e = ses[w].exec /\ SoTarefa(e, w) /\ Etapa(e, ses[w])
                            /\ Aberta(e) /\ Historia(e)
                            /\ ses[w].pc \notin {"fin_gravar", "campanha"} => Viva(e)
<1>1. ses[w].exec \in Execs
  BY DEF Bem, Tarefas, SesForma
<1> QED BY <1>1, DonaTarefa DEF SoTarefa

LEMMA PassoBaixa ==
    ASSUME Bem, \A f \in Execs : Certa(f), NEW w \in Workers,
           CriarCorrida(w) \/ BaixarNovo(w) \/ BaixarIgual(w)
    PROVE  \A f \in Execs : Certa(f)'
<1>1. PICK e \in Execs : e = ses[w].exec /\ SoTarefa(e, w) /\ Etapa(e, ses[w]) /\ Viva(e)
  BY Sozinha DEF CriarCorrida, BaixarNovo, BaixarIgual
<1>2. /\ Linhas /\ UNCHANGED <<filho, dados, fila, coros>>
  BY DEF Bem, CriarCorrida, BaixarNovo, BaixarIgual
<1>3. SoMexe(e)
  BY <1>1, <1>2 DEF SoMexe, CriarCorrida, BaixarNovo, BaixarIgual, Linhas, dados
<1>4. Intocada(e) /\ ses[w].msg.tipo = "sinc" /\ EmAtividade(e) = {}
  BY <1>1 DEF Etapa, CriarCorrida, BaixarNovo, BaixarIgual, PcPai
<1>5. Intocada(e)' /\ EmAtividade(e)' = {} /\ Processados(e)'
  <2>1. \A x \in Membros : filho'[e][x] = "nenhuma"
    BY <1>2, <1>4 DEF Intocada
  <2>2. Processados(e)'
    BY <2>1 DEF Processados, Aproveitavel
  <2> QED BY <1>2, <1>4, <2>1, <2>2 DEF Intocada, EmAtividade
<1>6. CASE CriarCorrida(w) \/ BaixarNovo(w)
  <2>1. PICK p \in {"baixar", "preparar"} : Vai(w, p)
    BY <1>6 DEF CriarCorrida, BaixarNovo
  <2>2. PICK s : /\ Troca(w, s) /\ s.pc = p /\ s.msg = ses[w].msg
                 /\ s.exec = e
    BY <1>1, <2>1, VaiComo
  <2>3. Etapa(e, s)'
    BY <1>4, <1>5, <2>1, <2>2 DEF Etapa
  <2>4. NaTarefa(e)'
    BY <1>1, <1>2, <2>2, <2>3, SegueTarefa
  <2>5. Viva(e)'
    <3>1. pai' = pai /\ corrida'[e] \in {corrida[e], "em_execucao"}
      BY <1>1, <1>2, <1>6 DEF CriarCorrida, BaixarNovo, Linhas
    <3>2. EmAberto(e) => EmAberto(e)'
      BY <1>5, <3>1 DEF EmAberto
    <3> QED BY <1>1, <3>1, <3>2 DEF Viva, Aberta, CriarCorrida, BaixarNovo
  <2>6. Certa(e)'
    BY <2>4, <2>5, VivaHistoria DEF Certa
  <2> QED BY <1>1, <1>3, <2>2, <2>6, Fecha
<1>7. CASE BaixarIgual(w)
  <2>1. /\ Sessoes(e)' = {} /\ Coros(e)' = {}
        /\ \A m : /\ m.exec = e /\ m.tipo # "sinc" => m \notin fila
                  /\ m \in Mensagens(e)' <=> m \in fila' /\ m.exec = e /\ m.tipo # "sinc"
        /\ SessaoLivre.exec \in {e, 0} /\ Troca(w, SessaoLivre)
    BY <1>1, <1>2, <1>7, LargaTarefa DEF BaixarIgual
  <2>2. Mensagens(e)' = {}
    BY <1>2, <2>1 DEF Mensagens
  <2>3. Parada(e)'
    BY <1>5, <2>1, <2>2, VaziaContida DEF Parada
  <2>4. pai'[e] = "skipped" /\ corrida'[e] = "skipped" /\ zip'[e] = fonte
    BY <1>1, <1>2, <1>7 DEF BaixarIgual, Linhas
  <2>5. PICK f \in Execs : pai[f] \in Aproveitavel /\ zip[f] = fonte
    BY <1>7 DEF BaixarIgual, MesmoZip
  <2>6. ASSUME SemCancelamento
        PROVE  \A x \in Membros : <<x, zip[f][x]>> \in promovidos
    <3>1. Resultados(f)
      BY <2>6 DEF Certa, Historia
    <3>2. CASE pai[f] = "skipped"
      BY <3>1, <3>2 DEF Resultados
    <3>3. CASE pai[f] = "sucesso"
      BY <3>1, <3>3 DEF Resultados, Completa, Processados
    <3> QED BY <2>5, <3>2, <3>3 DEF Aproveitavel
  <2>7. SemCancelamento => \A x \in Membros : <<x, zip'[e][x]>> \in promovidos'
    BY <1>2, <2>4, <2>5, <2>6 DEF dados
  <2>8. Historia(e)'
    <3>1. SemCancelamento => Resultados(e)'
      BY <1>5, <2>3, <2>4, <2>7 DEF Resultados
    <3> QED BY <2>4, <3>1 DEF Historia
  <2>9. Certa(e)'
    BY <2>3, <2>8 DEF Certa
  <2> QED BY <1>1, <1>3, <2>1, <2>9, Fecha
<1> QED BY <1>6, <1>7

LEMMA PassoPrepara ==
    ASSUME Bem, \A f \in Execs : Certa(f), NEW w \in Workers, Preparar(w)
    PROVE  \A f \in Execs : Certa(f)'
<1>1. PICK e \in Execs : e = ses[w].exec /\ SoTarefa(e, w) /\ Etapa(e, ses[w]) /\ Viva(e)
  BY Sozinha DEF Preparar
<1>2. Linhas /\ UNCHANGED <<zip, dados, fila, coros>>
  BY DEF Bem, Preparar
<1>3. /\ pai'[e] = "aguardando_ingestao" /\ corrida'[e] = "aguardando_ingestao"
      /\ \A x \in Membros : filho'[e][x] = IF Reusa(e, x) THEN "skipped"
                                           ELSE "aguardando_ingestao"
  BY <1>1, <1>2 DEF Preparar, Linhas
<1>4. SoMexe(e)
  BY <1>1, <1>2 DEF SoMexe, Preparar, Linhas, dados
<1>5. EmAtividade(e)' = {}
  BY <1>3 DEF EmAtividade, Ativo, Dependentes
<1>6. ASSUME SemCancelamento, NEW x \in Membros, Reusa(e, x)
      PROVE  <<x, zip[e][x]>> \in promovidos
  <2>1. PICK f \in Execs : /\ filho[f][x] # "nenhuma" /\ zip[f][x] = zip[e][x]
                           /\ corrida[f] \in Aproveitavel \/ filho[f][x] \in Aproveitavel
    BY <1>6 DEF Reusa
  <2>2. Resultados(f)
    BY <1>6 DEF Certa, Historia
  <2>3. corrida[f] # "skipped"
    BY <2>1, <2>2 DEF Resultados, Intocada
  <2>4. filho[f][x] \in Aproveitavel
    BY <2>1, <2>2, <2>3 DEF Resultados, Completa, Aproveitavel
  <2> QED BY <2>1, <2>2, <2>4 DEF Resultados, Processados
<1>7. Viva(e)'
  <2>1. UNCHANGED <<zip, promovidos>>
    BY <1>2 DEF dados
  <2>2. SemCancelamento => Processados(e)'
    BY <1>3, <1>6, <2>1 DEF Processados, Aproveitavel
  <2> QED BY <1>3, <2>2 DEF Viva, Aberta, EmAberto
<1>8. CASE Vai(w, "ing_ler")
  <2>1. PICK s : /\ Troca(w, s) /\ s.pc = "ing_ler" /\ s.msg = ses[w].msg
                 /\ s.exec = e
    BY <1>1, <1>8, VaiComo
  <2>2. ses[w].msg.tipo = "sinc"
    BY <1>1 DEF Etapa, Preparar, PcPai
  <2>3. Etapa(e, s)'
    BY <1>5, <2>1, <2>2 DEF Etapa
  <2>4. NaTarefa(e)'
    BY <1>1, <1>2, <2>1, <2>3, SegueTarefa
  <2>5. Certa(e)'
    BY <1>7, <2>4, VivaHistoria DEF Certa
  <2> QED BY <1>1, <1>4, <2>1, <2>5, Fecha
<1>9. CASE Solta(w)
  <2>1. /\ Sessoes(e)' = {} /\ Coros(e)' = {}
        /\ \A m : /\ m.exec = e /\ m.tipo # "sinc" => m \notin fila
                  /\ m \in Mensagens(e)' <=> m \in fila' /\ m.exec = e /\ m.tipo # "sinc"
        /\ SessaoLivre.exec \in {e, 0} /\ Troca(w, SessaoLivre)
    BY <1>1, <1>2, <1>9, LargaTarefa
  <2>2. Mensagens(e)' = {}
    BY <1>2, <2>1 DEF Mensagens
  <2>3. Parada(e)'
    BY <1>5, <2>1, <2>2, VaziaContida DEF Parada
  <2>4. Certa(e)'
    BY <1>7, <2>3, VivaHistoria DEF Certa
  <2> QED BY <1>1, <1>4, <2>1, <2>4, Fecha
<1> QED BY <1>8, <1>9 DEF Preparar

(* The task ends and leaves nobody, or one message, in its place.          *)
LEMMA FicaParada ==
    ASSUME Bem, \A f \in Execs : Certa(f), NEW e \in Execs, NEW w \in Workers,
           ses[w].exec = e, SoTarefa(e, w), SoMexe(e), Solta(w), UNCHANGED coros,
           \A m : m.exec = e /\ m.tipo # "sinc" => (m \in fila' => m \in fila),
           EmAtividade(e)' = {} \/ Contida(e)', Historia(e)' \/ Viva(e)'
    PROVE  \A f \in Execs : Certa(f)'
<1>1. /\ Sessoes(e)' = {} /\ Coros(e)' = {}
      /\ \A m : /\ m.exec = e /\ m.tipo # "sinc" => m \notin fila
                /\ m \in Mensagens(e)' <=> m \in fila' /\ m.exec = e /\ m.tipo # "sinc"
      /\ SessaoLivre.exec \in {e, 0} /\ Troca(w, SessaoLivre)
  BY LargaTarefa
<1>2. Mensagens(e)' = {}
  BY <1>1 DEF Mensagens
<1>3. Certa(e)'
  BY <1>1, <1>2, VaziaContida, VivaHistoria DEF Certa, Parada
<1> QED BY <1>1, <1>3, Fecha

LEMMA FicaMensagem ==
    ASSUME Bem, \A f \in Execs : Certa(f), NEW e \in Execs, NEW w \in Workers,
           ses[w].exec = e, SoTarefa(e, w), SoMexe(e), Solta(w), UNCHANGED coros,
           NEW n, n.exec = e, n.tipo # "sinc", fila' = fila \cup {n}, Promessa(e, n)',
           Historia(e)' \/ Viva(e)'
    PROVE  \A f \in Execs : Certa(f)'
<1>1. /\ Sessoes(e)' = {} /\ Coros(e)' = {}
      /\ \A m : /\ m.exec = e /\ m.tipo # "sinc" => m \notin fila
                /\ m \in Mensagens(e)' <=> m \in fila' /\ m.exec = e /\ m.tipo # "sinc"
      /\ SessaoLivre.exec \in {e, 0} /\ Troca(w, SessaoLivre)
  BY LargaTarefa
<1>2. Mensagens(e)' = {n}
  BY <1>1
<1>3. NaFila(e)'
  BY <1>1, <1>2 DEF NaFila
<1>4. Certa(e)'
  BY <1>3, VivaHistoria DEF Certa
<1> QED BY <1>1, <1>4, Fecha

LEMMA PassoIngere ==
    ASSUME Bem, \A f \in Execs : Certa(f), NEW w \in Workers,
           IngerirLe(w) \/ IngerirGrava(w) \/ AgendarCabecalho(w)
    PROVE  \A f \in Execs : Certa(f)'
<1>1. PICK e \in Execs : e = ses[w].exec /\ SoTarefa(e, w) /\ Etapa(e, ses[w]) /\ Viva(e)
  BY Sozinha DEF IngerirLe, IngerirGrava, AgendarCabecalho
<1>2. Linhas /\ UNCHANGED <<zip, dados, fila, coros>>
  BY DEF Bem, IngerirLe, IngerirGrava, AgendarCabecalho, banco
<1>3. SoMexe(e)
  BY <1>1, <1>2 DEF SoMexe, IngerirLe, IngerirGrava, AgendarCabecalho, Linhas, dados, banco
<1>4. ses[w].msg.tipo = "sinc" /\ EmAtividade(e) = {}
  BY <1>1 DEF Etapa, IngerirLe, IngerirGrava, AgendarCabecalho, PcPai
<1>5. /\ pai'[e] \in {pai[e], "em_execucao"} /\ corrida'[e] \in {corrida[e], "em_execucao"}
      /\ \A x \in Membros : \/ filho'[e][x] = filho[e][x]
                            \/ x = Cabecalho /\ filho'[e][x] = "agendada"
  <2>1. filho[e] \in [Membros -> StatusExecucao]
    BY <1>2 DEF Linhas
  <2> QED BY <1>1, <1>2, <2>1 DEF IngerirLe, IngerirGrava, AgendarCabecalho, Linhas, banco
<1>6. EmAtividade(e)' = {}
  BY <1>4, <1>5 DEF EmAtividade, Dependentes
<1>7. Viva(e)'
  <2>1. UNCHANGED <<zip, promovidos>>
    BY <1>2 DEF dados
  <2>2. Processados(e) => Processados(e)'
    BY <1>5, <2>1 DEF Processados, Aproveitavel
  <2>3. Viva(e)
    BY <1>1 DEF IngerirLe, IngerirGrava, AgendarCabecalho
  <2> QED BY <1>5, <2>2, <2>3 DEF Viva, Aberta, EmAberto
<1>8. ASSUME NEW s, Troca(w, s), s.exec = e, s.msg = ses[w].msg,
             \/ s.pc \in {"ing_gravar", "cabecalho"}
             \/ s.pc = "publicar" /\ (s.eleitos = {} => filho'[e][Cabecalho] = "skipped")
      PROVE  \A f \in Execs : Certa(f)'
  <2>1. Etapa(e, s)'
    BY <1>4, <1>6, <1>8 DEF Etapa
  <2>2. NaTarefa(e)'
    BY <1>1, <1>2, <1>8, <2>1, SegueTarefa
  <2>3. Certa(e)'
    BY <1>7, <2>2, VivaHistoria DEF Certa
  <2> QED BY <1>1, <1>3, <1>8, <2>3, Fecha
<1>9. CASE \E p \in {"ing_gravar", "cabecalho"} : Vai(w, p)
  <2>1. PICK s : /\ Troca(w, s) /\ s.pc \in {"ing_gravar", "cabecalho"}
                 /\ s.msg = ses[w].msg /\ s.exec = e
    BY <1>1, <1>9, VaiComo
  <2> QED BY <1>8, <2>1
<1>10. CASE Solta(w)
  BY <1>1, <1>2, <1>3, <1>6, <1>7, <1>10, FicaParada
<1>11. CASE AgendarCabecalho(w)
  <2> PICK a : a = ses[w]
    OBVIOUS
  <2>1. a \in Tarefa
    BY DEF Bem, Tarefas
  <2>2. CASE filho[e][Cabecalho] = "skipped"
    <3> PICK s : s = [a EXCEPT !.pc = "publicar"]
      OBVIOUS
    <3>1. s.exec = a.exec /\ s.msg = a.msg /\ s.pc = "publicar"
      BY <2>1 DEF Tarefa
    <3>2. Troca(w, s) /\ filho'[e][Cabecalho] = "skipped"
      BY <1>1, <1>11, <2>2 DEF AgendarCabecalho, Troca
    <3> QED BY <1>1, <1>8, <3>1, <3>2
  <2>3. CASE filho[e][Cabecalho] # "skipped"
    <3> PICK s : s = [a EXCEPT !.pc = "publicar", !.eleitos = {Cabecalho}]
      OBVIOUS
    <3>1. s.exec = a.exec /\ s.msg = a.msg /\ s.pc = "publicar" /\ s.eleitos # {}
      BY <2>1 DEF Tarefa
    <3>2. Troca(w, s)
      BY <1>1, <1>11, <2>3 DEF AgendarCabecalho, Troca
    <3> QED BY <1>1, <1>8, <3>1, <3>2
  <2> QED BY <2>2, <2>3
<1> QED BY <1>9, <1>10, <1>11 DEF IngerirLe, IngerirGrava

LEMMA PassoPublica2 ==
    ASSUME Bem, \A f \in Execs : Certa(f), NEW w \in Workers, PublicarFase2(w)
    PROVE  \A f \in Execs : Certa(f)'
<1>1. PICK e \in Execs : e = ses[w].exec /\ SoTarefa(e, w) /\ Etapa(e, ses[w]) /\ Viva(e)
  BY Sozinha DEF PublicarFase2
<1>2. UNCHANGED <<pai, corrida, filho, zip, promovidos, coros>> /\ Solta(w)
  BY DEF PublicarFase2, banco, dados
<1>3. PICK n : /\ fila' = fila \cup {n}
               /\ \/ n = Msg("disparar", e) /\ ses[w].eleitos = {}
                  \/ n = MsgMembro(e, Cabecalho, {})
  BY <1>1 DEF PublicarFase2
<1>4. n.exec = e /\ n.tipo # "sinc"
  BY <1>3, MsgTipo, MembroTipo, ConstantesOk
<1>5. SoMexe(e)
  BY <1>2, <1>3, <1>4 DEF SoMexe
<1>6. EmAtividade(e)' = {}
  BY <1>1, <1>2 DEF Etapa, EmAtividade, PublicarFase2, PcPai
<1>7. Promessa(e, n)'
  <2>1. ses[w].eleitos = {} => filho'[e][Cabecalho] = "skipped"
    BY <1>1, <1>2 DEF Etapa, PublicarFase2
  <2> QED BY <1>3, <1>6, <2>1, VaziaContida DEF Promessa, Final
<1>8. Viva(e)'
  BY <1>1, <1>2, VivaIgual
<1> QED BY <1>1, <1>2, <1>3, <1>4, <1>5, <1>6, <1>7, <1>8, FicaMensagem

(* An exception of the first two phases: the retry has a row of its own.   *)
LEMMA PassoErro ==
    ASSUME Bem, \A f \in Execs : Certa(f), NEW w \in Workers,
           ErroComStatus(w) \/ DependenciaAusente(w)
    PROVE  \A f \in Execs : Certa(f)'
<1>1. PICK e \in Execs : e = ses[w].exec /\ SoTarefa(e, w) /\ Etapa(e, ses[w]) /\ Viva(e)
  BY Sozinha DEF ErroComStatus, DependenciaAusente
<1>2. Linhas /\ UNCHANGED <<filho, zip, dados, coros>> /\ Solta(w) /\ Repete(w)
  BY DEF Bem, ErroComStatus, DependenciaAusente, banco
<1>3. ses[w].msg.tipo = "sinc" /\ EmAtividade(e) = {}
  BY <1>1 DEF Etapa, ErroComStatus, DependenciaAusente, PcPai
<1>4. \A m : m.tipo # "sinc" => (m \in fila' <=> m \in fila)
  BY <1>2, <1>3 DEF Repete
<1>5. SoMexe(e)
  BY <1>1, <1>2, <1>4 DEF SoMexe, ErroComStatus, DependenciaAusente, Linhas, dados, banco
<1>6. EmAtividade(e)' = {}
  BY <1>2, <1>3 DEF EmAtividade
<1>7. Viva(e)'
  <2>1. pai'[e] \in {pai[e], "falha"} /\ corrida'[e] \in {corrida[e], "falha"}
    BY <1>1, <1>2 DEF ErroComStatus, DependenciaAusente, Linhas, banco
  <2>2. Processados(e) => Processados(e)'
    BY <1>2 DEF Processados, dados
  <2>3. Viva(e)
    BY <1>1 DEF ErroComStatus, DependenciaAusente
  <2> QED BY <2>1, <2>2, <2>3 DEF Viva, Aberta, EmAberto
<1> QED BY <1>1, <1>2, <1>4, <1>5, <1>6, <1>7, FicaParada

LEMMA PassoDespachoGrava ==
    ASSUME Bem, \A f \in Execs : Certa(f), NEW w \in Workers, DespachoGrava(w)
    PROVE  \A f \in Execs : Certa(f)'
<1>1. PICK e \in Execs : e = ses[w].exec /\ SoTarefa(e, w) /\ Etapa(e, ses[w]) /\ Viva(e)
  BY Sozinha DEF DespachoGrava
<1>2. Linhas /\ UNCHANGED <<pai, corrida, zip, dados, fila, coros>>
  BY DEF Bem, DespachoGrava
<1>3. SoMexe(e)
  BY <1>1, <1>2 DEF SoMexe, DespachoGrava, Linhas, dados
<1> PICK S : S = ses[w].eleitos
  OBVIOUS
<1>4. /\ filho[e][Cabecalho] \in Final /\ CabeNaJanela(S) /\ (S = {} => Acabada(e))
      /\ EmAtividade(e) = {} /\ ses[w].msg = Msg("disparar", e)
  BY <1>1 DEF Etapa, DespachoGrava
<1>5. \A x \in Membros : filho'[e][x] = IF x \in S THEN "agendada" ELSE filho[e][x]
  BY <1>1, <1>2 DEF DespachoGrava, Linhas
<1>6. PICK s : /\ Troca(w, s) /\ s.pc = "disp_publicar" /\ s.msg = ses[w].msg
               /\ s.exec = e /\ s.eleitos = S
  BY <1>1, VaiComo DEF DespachoGrava
<1>7. Etapa(e, s)'
  <2>1. EmAtividade(e)' \subseteq S
    BY <1>4, <1>5 DEF EmAtividade, Dependentes
  <2>2. filho'[e][Cabecalho] \in Final
    BY <1>4, <1>5, ConstantesOk DEF CabeNaJanela, Dependentes
  <2>3. S = {} => Acabada(e)'
    BY <1>4, <1>5 DEF Acabada
  <2>4. CabeNaJanela(s.eleitos)'
    BY <1>4, <1>6 DEF CabeNaJanela
  <2>5. s.msg = Msg("disparar", e)
    BY <1>4, <1>6
  <2> QED BY <1>6, <2>1, <2>2, <2>3, <2>4, <2>5 DEF Etapa, PcPai
<1>8. Viva(e)'
  <2>1. UNCHANGED <<zip, promovidos>>
    BY <1>2 DEF dados
  <2>2. Processados(e) => Processados(e)'
    BY <1>5, <2>1 DEF Processados, Aproveitavel
  <2>3. Viva(e)
    BY <1>1 DEF DespachoGrava
  <2> QED BY <1>2, <2>2, <2>3 DEF Viva, Aberta, EmAberto
<1>9. NaTarefa(e)'
  BY <1>1, <1>2, <1>6, <1>7, SegueTarefa
<1>10. Certa(e)'
  BY <1>8, <1>9, VivaHistoria DEF Certa
<1> QED BY <1>1, <1>3, <1>6, <1>10, Fecha

(* The outcome stays, when its task begins, ends or is lost.               *)
LEMMA FimHistoria ==
    ASSUME NEW e \in Execs, Aberta(e), Historia(e), ~Parada(e),
           UNCHANGED <<pai, corrida, filho, zip, promovidos>>, Encerrada(e)'
    PROVE  Historia(e)'
<1>1. Resultados(e) => Resultados(e)'
  BY DEF Resultados, Completa, Processados
<1> QED BY <1>1 DEF Historia, Aberta

LEMMA PassoFinalizaGrava ==
    ASSUME Bem, \A f \in Execs : Certa(f), NEW w \in Workers, FinalizaGrava(w)
    PROVE  \A f \in Execs : Certa(f)'
<1>1. PICK e \in Execs : /\ e = ses[w].exec /\ SoTarefa(e, w) /\ Etapa(e, ses[w])
                         /\ Aberta(e) /\ Historia(e)
  BY Sozinha DEF FinalizaGrava
<1>2. Linhas /\ UNCHANGED <<filho, zip, dados, fila, coros>>
  BY DEF Bem, FinalizaGrava
<1>3. SoMexe(e)
  BY <1>1, <1>2 DEF SoMexe, FinalizaGrava, Linhas, dados
<1> PICK r : r = ses[w].fim
  OBVIOUS
<1>4. /\ r \in {"sucesso", "falha", "cancelada"} /\ Acabada(e) /\ ses[w].msg = Msg("finalizar", e)
      /\ SemCancelamento => r # "cancelada" /\ (r = "sucesso" => Completa(e))
  BY <1>1 DEF Etapa, FinalizaGrava
<1>5. pai'[e] \in {pai[e], r} /\ corrida'[e] = r
  BY <1>1, <1>2 DEF FinalizaGrava, Linhas
<1>6. /\ Acabada(e)' /\ EmAtividade(e)' = {} /\ (Completa(e) => Completa(e)')
      /\ Processados(e) => Processados(e)'
  <2>1. UNCHANGED <<filho, zip, promovidos>>
    BY <1>2 DEF dados
  <2>2. EmAtividade(e) = {}
    BY <1>4 DEF Acabada, EmAtividade, Dependentes, Final, Ativo
  <2> QED BY <1>4, <2>1, <2>2 DEF Acabada, EmAtividade, Completa, Processados
<1>7. Encerrada(e)' => Historia(e)'
  <2>1. pai'[e] \notin {"nenhuma", "agendada"}
    BY <1>1, <1>4, <1>5 DEF Aberta
  <2>2. ASSUME SemCancelamento, Encerrada(e)'
        PROVE  Resultados(e)'
    <3>1. Resultados(e)
      BY <1>1, <2>2 DEF Historia
    <3>2. ~Parada(e)
      BY <1>1 DEF Parada, SoTarefa
    <3>3. pai[e] \notin {"skipped", "cancelada"} /\ Processados(e)
      BY <3>1, <3>2 DEF Resultados
    <3>4. "sucesso" \in {pai'[e], corrida'[e]} => Completa(e)
      BY <1>4, <1>5, <2>2, <3>1 DEF Resultados
    <3> QED BY <1>4, <1>5, <1>6, <2>2, <3>3, <3>4 DEF Resultados
  <2> QED BY <2>1, <2>2 DEF Historia
<1>8. CASE Vai(w, "campanha")
  <2>1. PICK s : Troca(w, s) /\ s.pc = "campanha" /\ s.exec = e /\ s.msg = ses[w].msg
    BY <1>1, <1>8, VaiComo
  <2>2. Etapa(e, s)'
    BY <1>4, <1>6, <2>1 DEF Etapa, PcPai
  <2>3. NaTarefa(e)'
    BY <1>1, <1>2, <2>1, <2>2, SegueTarefa
  <2>4. Encerrada(e)'
    <3>1. ses \in [Workers -> Tarefa] /\ Sessoes(e) = {w}
      BY <1>1 DEF Bem, Tarefas, SoTarefa
    <3>2. \A v \in Sessoes(e)' : ses'[v].pc = "campanha"
      BY <2>1, <3>1 DEF Sessoes, Troca
    <3>3. Mensagens(e)' = {} /\ Coros(e)' = {}
      BY <1>1, <1>2 DEF SoTarefa, Mensagens, Coros
    <3> QED BY <3>2, <3>3 DEF Encerrada
  <2>5. Certa(e)'
    BY <1>7, <2>3, <2>4 DEF Certa
  <2> QED BY <1>1, <1>3, <2>1, <2>5, Fecha
<1>9. CASE Solta(w)
  <2>1. Sessoes(e)' = {} /\ Coros(e)' = {}
    BY <1>1, <1>2, <1>9, LargaTarefa
  <2>2. Mensagens(e)' = {}
    BY <1>1, <1>2 DEF SoTarefa, Mensagens
  <2>3. Encerrada(e)'
    BY <2>1, <2>2 DEF Encerrada
  <2> QED BY <1>1, <1>2, <1>3, <1>6, <1>7, <1>9, <2>3, FicaParada
<1> QED BY <1>8, <1>9 DEF FinalizaGrava

LEMMA PassoCampanha ==
    ASSUME Bem, \A f \in Execs : Certa(f), NEW w \in Workers, CriarCampanha(w)
    PROVE  \A f \in Execs : Certa(f)'
<1>1. PICK e \in Execs : /\ e = ses[w].exec /\ SoTarefa(e, w) /\ Etapa(e, ses[w])
                         /\ Aberta(e) /\ Historia(e)
  BY Sozinha DEF CriarCampanha
<1>2. UNCHANGED <<pai, corrida, filho, zip, promovidos, fila, coros>> /\ Solta(w)
  BY DEF CriarCampanha, banco
<1>3. SoMexe(e)
  BY <1>2 DEF SoMexe
<1>4. EmAtividade(e)' = {}
  <2>1. Acabada(e)
    BY <1>1 DEF Etapa, CriarCampanha
  <2>2. EmAtividade(e) = {}
    BY <2>1 DEF Acabada, EmAtividade, Dependentes, Final, Ativo
  <2> QED BY <1>2, <2>2 DEF EmAtividade
<1>5. Historia(e)'
  <2>1. Sessoes(e)' = {} /\ Coros(e)' = {}
    BY <1>1, <1>2, LargaTarefa
  <2>2. Mensagens(e)' = {}
    BY <1>1, <1>2 DEF SoTarefa, Mensagens
  <2>3. Encerrada(e)'
    BY <2>1, <2>2 DEF Encerrada
  <2>4. ~Parada(e)
    BY <1>1 DEF SoTarefa, Parada
  <2> QED BY <1>1, <1>2, <2>3, <2>4, FimHistoria
<1> QED BY <1>1, <1>2, <1>3, <1>4, <1>5, FicaParada

-----------------------------------------------------------------------------
(* The chord begins.                                                       *)
LEMMA PassoDespachoPublica ==
    ASSUME Bem, \A f \in Execs : Certa(f), NEW w \in Workers, DespachoPublica(w)
    PROVE  \A f \in Execs : Certa(f)'
<1>1. PICK e \in Execs : e = ses[w].exec /\ SoTarefa(e, w) /\ Etapa(e, ses[w]) /\ Viva(e)
  BY Sozinha DEF DespachoPublica
<1>2. UNCHANGED <<pai, corrida, filho, zip, promovidos>> /\ Solta(w)
  BY DEF DespachoPublica, banco, dados
<1> PICK S : S = ses[w].eleitos
  OBVIOUS
<1>3. /\ filho[e][Cabecalho] \in Final /\ CabeNaJanela(S) /\ (S = {} => Acabada(e))
      /\ EmAtividade(e) \subseteq S
  BY <1>1 DEF Etapa, DespachoPublica
<1>4. filho'[e][Cabecalho] \in Final /\ CabeNaJanela(S)' /\ (S = {} => Acabada(e)')
      /\ EmAtividade(e)' \subseteq S /\ Viva(e)'
  <2>1. Viva(e)'
    BY <1>1, <1>2, VivaIgual
  <2> QED BY <1>2, <1>3, <2>1 DEF CabeNaJanela, Acabada, EmAtividade
<1>5. CASE S = {}
  <2> PICK n : n = Msg("finalizar", e)
    OBVIOUS
  <2>1. fila' = fila \cup {n} /\ UNCHANGED coros
    BY <1>1, <1>5 DEF DespachoPublica
  <2>2. n.exec = e /\ n.tipo # "sinc"
    BY MsgTipo
  <2>3. SoMexe(e)
    BY <1>2, <2>1, <2>2 DEF SoMexe
  <2>4. Promessa(e, n)'
    BY <1>4, <1>5 DEF Promessa
  <2> QED BY <1>1, <1>2, <1>4, <2>1, <2>2, <2>3, <2>4, FicaMensagem
<1>6. CASE S # {}
  <2> PICK c : c = [exec |-> e, membros |-> S, prontos |-> {}]
    OBVIOUS
  <2>1. c.exec = e /\ c.membros = S /\ c.prontos = {}
    OBVIOUS
  <2>2. fila' = fila \cup {MsgMembro(e, x, S) : x \in S} /\ coros' = coros \cup {c}
    BY <1>1, <1>6 DEF DespachoPublica
  <2>3. S \subseteq Membros /\ S \in SUBSET Dependentes
    BY <1>3 DEF CabeNaJanela, Dependentes
  <2>4. ASSUME NEW m \in fila', m \notin fila
        PROVE  m.exec = e /\ Esperada(m, c)
    <3>1. PICK x \in S : m = MsgMembro(e, x, S)
      BY <2>2, <2>4
    <3>2. m.exec = e /\ m.membro = x
      BY <2>3, <3>1, MembroTipo
    <3> QED BY <2>1, <3>1, <3>2 DEF Esperada
  <2>5. SoMexe(e)
    BY <1>2, <2>1, <2>2, <2>4 DEF SoMexe
  <2>6. /\ ses \in [Workers -> Tarefa] /\ Sessoes(e) = {w} /\ Mensagens(e) = {} /\ Coros(e) = {}
    BY <1>1 DEF SoTarefa, Bem, Tarefas
  <2>7. SessaoLivre.exec = 0 /\ Troca(w, SessaoLivre)
    BY <1>2, LivreTipo DEF Solta, Troca
  <2>8. Sessoes(e)' = {}
    BY <2>6, <2>7, ExecsNat DEF Sessoes, Troca
  <2>9. Coros(e)' = {c}
    BY <2>1, <2>2, <2>6 DEF Coros
  <2>10. \A m \in Mensagens(e)' : Esperada(m, c)
    <3> TAKE m \in Mensagens(e)'
    <3>1. m \in fila' /\ m.exec = e /\ m.tipo # "sinc"
      BY DEF Mensagens
    <3>2. m \notin fila
      BY <2>6, <3>1 DEF Mensagens
    <3> QED BY <2>4, <3>1, <3>2
  <2>11. Coral(e, c)'
    BY <1>4, <2>1, <2>8, <2>9, <2>10 DEF Coral
  <2>12. c \in coros'
    BY <2>2
  <2>13. Certa(e)'
    BY <1>4, <2>11, <2>12, VivaHistoria DEF Certa, NoCoro
  <2> QED BY <1>1, <2>5, <2>7, <2>13, Fecha
<1> QED BY <1>5, <1>6

(* A message of a member, and what a new status of that member changes.    *)
LEMMA MembroFatos ==
    ASSUME NEW m \in Mensagem, MsgForma(m), m.tipo = "membro"
    PROVE  /\ m.exec \in Execs /\ m.membro \in Membros
           /\ m.coro \in SUBSET Dependentes
           /\ m.membro = Cabecalho \/ m.membro \in m.coro
  BY ConstantesOk DEF MsgForma, Mensagem, Dependentes

Grava(e, x, v) == filho' = [filho EXCEPT ![e][x] = v]

LEMMA UmFilho ==
    ASSUME Bem, NEW e \in Execs, NEW x \in Membros, NEW v, Grava(e, x, v)
    PROVE  /\ filho'[e][x] = v
           /\ \A y \in Membros \ {x} : filho'[e][y] = filho[e][y]
           /\ \A f \in Execs \ {e} : filho'[f] = filho[f]
           /\ EmAtividade(e)' \subseteq EmAtividade(e) \cup {x}
           /\ v \notin Ativo => EmAtividade(e)' \subseteq EmAtividade(e) \ {x}
           /\ x = Cabecalho => EmAtividade(e)' = EmAtividade(e)
<1>1. filho \in [Execs -> [Membros -> StatusExecucao]]
  BY DEF Bem, Linhas
<1>2. /\ filho'[e][x] = v
      /\ \A y \in Membros \ {x} : filho'[e][y] = filho[e][y]
      /\ \A f \in Execs \ {e} : filho'[f] = filho[f]
  <2>1. filho[e] \in [Membros -> StatusExecucao]
    BY <1>1
  <2>2. filho' = [filho EXCEPT ![e] = [filho[e] EXCEPT ![x] = v]]
    BY DEF Grava
  <2> QED BY <1>1, <2>1, <2>2
<1>3. /\ EmAtividade(e)' \subseteq EmAtividade(e) \cup {x}
      /\ v \notin Ativo => EmAtividade(e)' \subseteq EmAtividade(e) \ {x}
      /\ x = Cabecalho => EmAtividade(e)' = EmAtividade(e)
  BY <1>2 DEF EmAtividade, Dependentes
<1> QED BY <1>2, <1>3

LEMMA VivaFilho ==
    ASSUME Bem, NEW e \in Execs, Viva(e), NEW x \in Membros, NEW v,
           Grava(e, x, v), UNCHANGED <<pai, corrida, zip>>,
           promovidos \subseteq promovidos',
           SemCancelamento => /\ v # "cancelada"
                              /\ v \in Aproveitavel => <<x, zip[e][x]>> \in promovidos'
    PROVE  Viva(e)'
<1>1. filho'[e][x] = v /\ \A y \in Membros \ {x} : filho'[e][y] = filho[e][y]
  BY UmFilho
<1>2. ASSUME SemCancelamento, Processados(e)
      PROVE  Processados(e)'
  <2>1. ASSUME NEW y \in Membros
        PROVE  /\ filho'[e][y] # "cancelada"
               /\ filho'[e][y] \in Aproveitavel => <<y, zip'[e][y]>> \in promovidos'
    <3>1. CASE y = x
      BY <1>1, <1>2, <3>1
    <3>2. CASE y # x
      BY <1>1, <1>2, <3>2 DEF Processados
    <3> QED BY <3>1, <3>2
  <2> QED BY <2>1 DEF Processados
<1> QED BY <1>2 DEF Viva, Aberta, EmAberto

(* The header's task begins, ends or fails: it is alone.                   *)
LEMMA PassoCabecalhoComeca ==
    ASSUME Bem, \A f \in Execs : Certa(f), NEW w \in Workers, NEW m \in fila,
           MembroComeca(w, m), m.coro = {}
    PROVE  \A f \in Execs : Certa(f)'
<1>1. /\ Livre(w) /\ m.tipo = "membro" /\ fila' = fila \ {m}
      /\ UNCHANGED <<pai, corrida, zip, promovidos, coros>>
      /\ filho' = [filho EXCEPT ![m.exec][m.membro] = "em_execucao"]
      /\ ses' = [ses EXCEPT ![w] = Sessao("processar", m, m.exec)]
  BY DEF MembroComeca, dados
<1>2. m \in Mensagem /\ MsgForma(m)
  BY DEF Bem, Filas
<1> PICK e : e = m.exec
  OBVIOUS
<1>3. e \in Execs /\ m.membro = Cabecalho
  BY <1>1, <1>2, MembroFatos
<1>4. SoMensagem(e, m)
  BY <1>1, <1>3, DonaMensagem
<1>5. m = MsgMembro(e, Cabecalho, {})
  <2>1. m # Msg("disparar", e) /\ m # Msg("finalizar", e)
    BY <1>1, <1>3, MsgTipo
  <2> QED BY <1>4, <2>1 DEF SoMensagem, Promessa
<1>51. EmAtividade(e) = {} /\ Viva(e)
  <2>1. m # Msg("disparar", e) /\ m # Msg("finalizar", e)
    BY <1>1, <1>3, MsgTipo
  <2> QED BY <1>1, <1>4, <2>1 DEF SoMensagem, Promessa
<1> PICK s : s = Sessao("processar", m, e)
  OBVIOUS
<1>6. s.pc = "processar" /\ s.msg = m /\ s.exec = e /\ Troca(w, s)
  BY <1>1, <1>2, <1>3, SessaoTipo DEF Pcs, Troca
<1>7. ses \in [Workers -> Tarefa] /\ ses[w].exec = 0
  BY <1>1 DEF Bem, Tarefas, SesForma, Livre
<1>8. Cabecalho \in Membros /\ Grava(e, Cabecalho, "em_execucao")
  BY <1>1, <1>3, ConstantesOk DEF Grava
<1>9. EmAtividade(e)' = {} /\ \A f \in Execs \ {e} : filho'[f] = filho[f]
  BY <1>3, <1>51, <1>8, UmFilho
<1>10. SoMexe(e)
  BY <1>1, <1>9 DEF SoMexe
<1>11. Viva(e)'
  BY <1>1, <1>3, <1>51, <1>8, VivaFilho DEF Aproveitavel
<1>12. NaTarefa(e)'
  <2>1. Sessoes(e)' = {w} /\ ses'[w] = s
    BY <1>4, <1>6, <1>7 DEF SoMensagem, Sessoes, Troca
  <2>2. Mensagens(e)' = {} /\ Coros(e)' = {}
    BY <1>1, <1>4 DEF SoMensagem, Mensagens, Coros
  <2>3. Etapa(e, s)'
    BY <1>5, <1>6, <1>9 DEF Etapa, PcPai
  <2>4. Etapa(e, ses[w])'
    BY <2>1, <2>3
  <2> QED BY <2>1, <2>2, <2>4 DEF NaTarefa
<1>13. Certa(e)'
  BY <1>3, <1>11, <1>12, VivaHistoria DEF Certa
<1> QED BY <1>3, <1>6, <1>7, <1>10, <1>13, Fecha

LEMMA PassoCabecalhoAcaba ==
    ASSUME Bem, \A f \in Execs : Certa(f), NEW w \in Workers,
           MembroTermina(w) \/ MembroErra(w) \/ (Queda(w) /\ ses[w].pc = "processar"),
           ses[w].msg.coro = {}
    PROVE  \A f \in Execs : Certa(f)'
<1> PICK m : m = ses[w].msg
  OBVIOUS
<1> PICK e : e = ses[w].exec
  OBVIOUS
<1>1. /\ ses[w].pc = "processar" /\ Solta(w)
      /\ UNCHANGED <<pai, corrida, zip>>
  BY DEF MembroTermina, MembroErra, Queda, banco
<1>2. e \in Execs
  BY <1>1 DEF Bem, Tarefas, SesForma
<1>3. SoTarefa(e, w)
  BY <1>2, DonaTarefa
<1>4. m = MsgMembro(e, Cabecalho, {}) /\ EmAtividade(e) = {} /\ Viva(e)
  BY <1>1, <1>3 DEF SoTarefa, Etapa
<1>5. Cabecalho \in Membros /\ {} \in SUBSET Dependentes
  BY ConstantesOk
<1>6. /\ m.exec = e /\ m.membro = Cabecalho /\ m.coro = {} /\ m.tipo = "membro"
  BY <1>2, <1>4, <1>5, MembroTipo
<1>7. CASE MembroTermina(w)
  <2> PICK v : v = Veredito(zip[e][Cabecalho])
    OBVIOUS
  <2>1. /\ Grava(e, Cabecalho, v)
        /\ promovidos' = IF zip[e][Cabecalho] \in Vazias THEN promovidos
                         ELSE promovidos \cup {<<Cabecalho, zip[e][Cabecalho]>>}
        /\ Retorna(m, fila)
    BY <1>6, <1>7 DEF MembroTermina, Grava
  <2>2. /\ v \in {"sucesso", "falha"} /\ promovidos \subseteq promovidos'
        /\ v = "sucesso" => <<Cabecalho, zip[e][Cabecalho]>> \in promovidos'
    BY <2>1 DEF Veredito
  <2> PICK n : n = Msg("disparar", e)
    OBVIOUS
  <2>3. n.exec = e /\ n.tipo # "sinc"
    BY <1>2, MsgTipo
  <2>4. fila' = fila \cup {n} /\ UNCHANGED coros
    <3>1. CoroDe(m) = {}
      BY <1>3, <1>6 DEF CoroDe, SoTarefa, Coros
    <3>2. ComPronto(m) = {}
      BY <3>1 DEF ComPronto
    <3> QED BY <1>6, <2>1, <3>1, <3>2 DEF Retorna
  <2>5. /\ filho'[e][Cabecalho] = v /\ EmAtividade(e)' = {}
        /\ \A f \in Execs \ {e} : filho'[f] = filho[f]
    BY <1>2, <1>4, <1>5, <2>1, UmFilho
  <2>6. SoMexe(e)
    BY <1>1, <2>2, <2>3, <2>4, <2>5 DEF SoMexe
  <2>7. Viva(e)'
    BY <1>1, <1>2, <1>4, <1>5, <2>1, <2>2, VivaFilho DEF Aproveitavel
  <2>8. Promessa(e, n)'
    BY <2>2, <2>5, VaziaContida DEF Promessa, Final
  <2> QED BY <1>1, <1>2, <1>3, <2>3, <2>4, <2>5, <2>6, <2>7, <2>8, FicaMensagem
<1>8. CASE MembroErra(w) \/ Queda(w)
  <2>1. PICK v \in {"falha", filho[e][Cabecalho]} :
           /\ Grava(e, Cabecalho, v) /\ UNCHANGED <<promovidos, coros>>
           /\ fila' = fila \/ fila' = fila \cup {m}
    <3>1. CASE MembroErra(w)
      BY <1>6, <3>1 DEF MembroErra, Repete, dados, Grava
    <3>2. CASE Queda(w)
      <4>1. filho \in [Execs -> [Membros -> StatusExecucao]]
        BY DEF Bem, Linhas
      <4>2. Grava(e, Cabecalho, filho[e][Cabecalho])
        BY <3>2, <4>1 DEF Queda, banco, Grava
      <4> QED BY <3>2, <4>2 DEF Queda, dados
    <3> QED BY <1>8, <3>1, <3>2
  <2>2. EmAtividade(e)' = {} /\ \A f \in Execs \ {e} : filho'[f] = filho[f]
    BY <1>2, <1>4, <1>5, <2>1, UmFilho
  <2>3. SoMexe(e)
    BY <1>1, <1>6, <2>1, <2>2 DEF SoMexe
  <2>4. Viva(e)'
    <3>1. SemCancelamento =>
             /\ v # "cancelada"
             /\ v \in Aproveitavel => <<Cabecalho, zip[e][Cabecalho]>> \in promovidos'
      BY <1>4, <1>5, <2>1 DEF Viva, EmAberto, Processados, Aproveitavel
    <3> QED BY <1>1, <1>2, <1>4, <1>5, <2>1, <3>1, VivaFilho
  <2>5. CASE fila' = fila
    BY <1>1, <1>2, <1>3, <2>1, <2>2, <2>3, <2>4, <2>5, FicaParada
  <2>6. CASE fila' = fila \cup {m}
    <3>1. Promessa(e, m)'
      BY <1>4, <2>2 DEF Promessa
    <3> QED BY <1>1, <1>2, <1>3, <1>6, <2>1, <2>2, <2>3, <2>4, <2>6, <3>1, FicaMensagem
  <2> QED BY <2>1, <2>5, <2>6
<1> QED BY <1>7, <1>8

(* The tasks and the messages of a chord's members.                        *)
LEMMA CoralFatos ==
    ASSUME Bem, NEW e \in Execs, NEW c \in coros, Coral(e, c)
    PROVE  /\ c \in Coro /\ c.exec = e /\ c.membros \subseteq Dependentes /\ c.membros # {}
           /\ \A d \in coros : d.exec = e => d = c
           /\ \A x \in c.membros : x \in Membros /\ x # Cabecalho
           /\ \A m \in fila : m.exec = e /\ m.tipo # "sinc" => Esperada(m, c)
           /\ \A w \in Workers : ses[w].exec = e =>
                 /\ ses[w].pc = "processar" /\ Esperada(ses[w].msg, c)
                 /\ ses[w].msg \notin fila
                 /\ \A v \in Workers \ {w} : ses[v].exec = e => ses[v].msg # ses[w].msg
<1>1. c \in Coro /\ c.exec = e /\ c.membros \subseteq Dependentes /\ c.membros # {}
  BY DEF Coral, Coros, CabeNaJanela, Bem, Cordas
<1>2. \A d \in coros : d.exec = e => d = c
  BY DEF Coral, Coros
<1>3. \A m \in fila : m.exec = e /\ m.tipo # "sinc" => Esperada(m, c)
  BY DEF Coral, Mensagens
<1>4. \A w \in Workers : ses[w].exec = e =>
         /\ ses[w].pc = "processar" /\ Esperada(ses[w].msg, c)
         /\ ses[w].msg \notin fila
         /\ \A v \in Workers \ {w} : ses[v].exec = e => ses[v].msg # ses[w].msg
  BY DEF Coral, Sessoes
<1> QED BY <1>1, <1>2, <1>3, <1>4 DEF Dependentes

(* ... and how a chord with them is recognized.                            *)
LEMMA CoralDe ==
    ASSUME NEW e \in Execs, NEW c, c \in coros', c.exec = e,
           \A d \in coros' : d.exec = e => d = c,
           filho'[e][Cabecalho] \in Final, CabeNaJanela(c.membros),
           EmAtividade(e)' \subseteq c.membros \ c.prontos,
           \A m \in fila' : m.exec = e /\ m.tipo # "sinc" => Esperada(m, c),
           \A w \in Workers : ses'[w].exec = e =>
                 /\ ses'[w].pc = "processar" /\ Esperada(ses'[w].msg, c)
                 /\ ses'[w].msg \notin fila'
                 /\ \A v \in Workers \ {w} : ses'[v].exec = e => ses'[v].msg # ses'[w].msg,
           Viva(e)'
    PROVE  Certa(e)'
<1>1. CabeNaJanela(c.membros)'
  BY DEF CabeNaJanela
<1>2. Coros(e)' = {c}
  BY DEF Coros
<1>3. \A m \in Mensagens(e)' : Esperada(m, c)
  BY DEF Mensagens
<1>4. \A w \in Sessoes(e)' : /\ ses'[w].pc = "processar"
                             /\ Esperada(ses'[w].msg, c)
                             /\ ses'[w].msg \notin fila'
                             /\ \A v \in Sessoes(e)' \ {w} : ses'[v].msg # ses'[w].msg
  BY DEF Sessoes
<1>5. Coral(e, c)'
  BY <1>1, <1>2, <1>3, <1>4 DEF Coral
<1> QED BY <1>5, VivaHistoria DEF Certa, NoCoro

(* Two messages that a chord waits for are one if the member is the same.  *)
LEMMA EsperadaUnica ==
    ASSUME NEW c, NEW m, NEW n, Esperada(m, c), Esperada(n, c), m.membro = n.membro
    PROVE  m = n
  BY DEF Esperada

LEMMA PassoMembroComeca ==
    ASSUME Bem, \A f \in Execs : Certa(f), NEW w \in Workers, NEW m \in fila,
           MembroComeca(w, m), m.coro # {}
    PROVE  \A f \in Execs : Certa(f)'
<1> PICK e, x : e = m.exec /\ x = m.membro
  OBVIOUS
<1>1. /\ Livre(w) /\ m.tipo = "membro" /\ fila' = fila \ {m}
      /\ UNCHANGED <<pai, corrida, zip, promovidos, coros>>
      /\ Grava(e, x, "em_execucao")
      /\ ses' = [ses EXCEPT ![w] = Sessao("processar", m, e)]
  BY DEF MembroComeca, dados, Grava
<1>2. m \in Mensagem /\ MsgForma(m)
  BY DEF Bem, Filas
<1>3. e \in Execs /\ x \in Membros
  BY <1>1, <1>2, MembroFatos
<1>4. m \in Mensagens(e)
  BY <1>1 DEF Mensagens
<1>5. PICK c \in coros : Coral(e, c) /\ Viva(e)
  BY <1>1, <1>3, <1>4, Membresia
<1> PICK s : s = Sessao("processar", m, e)
  OBVIOUS
<1>6. s.pc = "processar" /\ s.msg = m /\ s.exec = e /\ Troca(w, s)
  BY <1>1, <1>2, <1>3, SessaoTipo DEF Pcs, Troca
<1>7. ses \in [Workers -> Tarefa] /\ ses[w].exec = 0
  BY <1>1 DEF Bem, Tarefas, SesForma, Livre
<1>8. /\ c \in Coro /\ c.exec = e /\ c.membros \subseteq Dependentes
      /\ \A d \in coros : d.exec = e => d = c
      /\ \A y \in c.membros : y \in Membros /\ y # Cabecalho
      /\ \A n \in fila : n.exec = e /\ n.tipo # "sinc" => Esperada(n, c)
      /\ \A v \in Workers : ses[v].exec = e =>
            /\ ses[v].pc = "processar" /\ Esperada(ses[v].msg, c)
            /\ ses[v].msg \notin fila
            /\ \A u \in Workers \ {v} : ses[u].exec = e => ses[u].msg # ses[v].msg
  BY <1>3, <1>5, CoralFatos
<1>9. Esperada(m, c) /\ x \in c.membros \ c.prontos /\ x # Cabecalho
  BY <1>1, <1>8, EsperadaDe
<1>10. /\ EmAtividade(e)' \subseteq EmAtividade(e) \cup {x}
       /\ \A y \in Membros \ {x} : filho'[e][y] = filho[e][y]
       /\ \A f \in Execs \ {e} : filho'[f] = filho[f]
  BY <1>1, <1>3, UmFilho
<1>11. SoMexe(e)
  BY <1>1, <1>10 DEF SoMexe
<1>12. Viva(e)'
  BY <1>1, <1>3, <1>5, VivaFilho DEF Aproveitavel
<1>13. /\ filho'[e][Cabecalho] \in Final /\ CabeNaJanela(c.membros)
       /\ EmAtividade(e)' \subseteq c.membros \ c.prontos
  <2>1. /\ filho[e][Cabecalho] \in Final /\ CabeNaJanela(c.membros)
        /\ EmAtividade(e) \subseteq c.membros \ c.prontos
    BY <1>5 DEF Coral
  <2> QED BY <1>9, <1>10, <2>1, ConstantesOk
<1>14. ASSUME NEW v \in Workers, ses'[v].exec = e
       PROVE  /\ ses'[v].pc = "processar" /\ Esperada(ses'[v].msg, c)
              /\ ses'[v].msg \notin fila'
              /\ \A u \in Workers \ {v} : ses'[u].exec = e => ses'[u].msg # ses'[v].msg
  <2>1. /\ ses'[w] = s /\ \A u \in Workers \ {w} : ses'[u] = ses[u]
        /\ \A u \in Workers \ {w} : ses'[u].exec = e => ses'[u].msg # m
    BY <1>6, <1>7, <1>8 DEF Troca
  <2>2. CASE v = w
    BY <1>1, <1>6, <1>9, <2>1, <2>2
  <2>3. CASE v # w
    BY <1>1, <1>6, <1>8, <1>14, <2>1, <2>3
  <2> QED BY <2>2, <2>3
<1>15. Certa(e)'
  BY <1>1, <1>3, <1>8, <1>12, <1>13, <1>14, CoralDe
<1> QED BY <1>3, <1>6, <1>7, <1>11, <1>15, Fecha

(* A member's task that returns, by message m, is counted; the last one's  *)
(* runs the dispatch.                                                      *)
LEMMA ContaMembro ==
    ASSUME Bem, NEW e \in Execs, NEW c \in coros, Coral(e, c), NEW m, NEW x,
           Esperada(m, c), x = m.membro, NEW F \in SUBSET fila, Retorna(m, F),
           \A n \in fila : n.exec # e => n \in F,
           \A n \in F : n.exec = e /\ n.tipo # "sinc" => n.membro # x,
           \A v \in Workers : ses'[v].exec = e =>
                                 ses'[v] = ses[v] /\ ses[v].msg.membro # x,
           EmAtividade(e)' \subseteq EmAtividade(e) \ {x},
           filho'[e][Cabecalho] = filho[e][Cabecalho], Viva(e)'
    PROVE  /\ Certa(e)'
           /\ \A k : k.exec # e /\ k.tipo # "sinc" => (k \in fila' <=> k \in fila)
           /\ \A k : k.exec # e => (k \in coros' <=> k \in coros)
<1>1. /\ c \in Coro /\ c.exec = e
      /\ \A d \in coros : d.exec = e => d = c
      /\ \A n \in fila : n.exec = e /\ n.tipo # "sinc" => Esperada(n, c)
      /\ \A v \in Workers : ses[v].exec = e =>
            /\ ses[v].pc = "processar" /\ Esperada(ses[v].msg, c)
            /\ ses[v].msg \notin fila
            /\ \A u \in Workers \ {v} : ses[u].exec = e => ses[u].msg # ses[v].msg
  BY CoralFatos
<1>2. /\ m.exec = e /\ m.coro = c.membros /\ m.coro # {}
      /\ x \in c.membros \ c.prontos
  BY <1>1, EsperadaDe DEF Bem, Cordas
<1>3. /\ filho[e][Cabecalho] \in Final /\ CabeNaJanela(c.membros)
      /\ EmAtividade(e) \subseteq c.membros \ c.prontos
  BY DEF Coral
<1> PICK d : d = [c EXCEPT !.prontos = c.prontos \cup {x}]
  OBVIOUS
<1>4. d.exec = e /\ d.membros = c.membros /\ d.prontos = c.prontos \cup {x}
  BY <1>1 DEF Coro
<1> PICK n : n = Msg("disparar", e)
  OBVIOUS
<1>5. n.exec = e /\ n.tipo # "sinc"
  BY MsgTipo
<1>6. /\ coros' = (coros \ {c}) \cup (IF d.prontos = d.membros THEN {} ELSE {d})
      /\ fila' = IF d.prontos = d.membros THEN F \cup {n} ELSE F
  <2>1. CoroDe(m) = {c}
    BY <1>1, <1>2 DEF CoroDe
  <2>2. ComPronto(m) = {d}
    BY <2>1 DEF ComPronto
  <2> QED BY <1>2, <2>1, <2>2 DEF Retorna, Completo
<1>7. \A k : k.exec # e /\ k.tipo # "sinc" => (k \in fila' <=> k \in fila)
  BY <1>5, <1>6
<1>8. \A k : k.exec # e => (k \in coros' <=> k \in coros)
  BY <1>1, <1>4, <1>6
<1>9. CASE d.prontos = d.membros
  <2>1. c.membros \ c.prontos = {x}
    BY <1>2, <1>4, <1>9
  <2>2. \A k : Esperada(k, c) => k.membro = x
    BY <2>1, EsperadaDe
  <2>3. Sessoes(e)' = {}
    BY <1>1, <2>2 DEF Sessoes
  <2>4. Mensagens(e)' = {n}
    BY <1>1, <1>5, <1>6, <1>9, <2>2 DEF Mensagens
  <2>5. Coros(e)' = {}
    BY <1>1, <1>6, <1>9 DEF Coros
  <2>6. Contida(e)'
    <3>1. EmAtividade(e)' = {}
      BY <1>3, <2>1
    <3> QED BY <3>1, VaziaContida
  <2>7. Promessa(e, n)'
    BY <1>3, <2>6 DEF Promessa
  <2>8. n \in fila'
    BY <1>6, <1>9
  <2>9. NaFila(e)'
    BY <2>3, <2>4, <2>5, <2>7, <2>8 DEF NaFila
  <2>10. Certa(e)'
    BY <2>9, VivaHistoria DEF Certa
  <2> QED BY <1>7, <1>8, <2>10
<1>10. CASE d.prontos # d.membros
  <2>1. d \in coros' /\ \A b \in coros' : b.exec = e => b = d
    BY <1>1, <1>6, <1>10
  <2>2. EmAtividade(e)' \subseteq d.membros \ d.prontos /\ CabeNaJanela(d.membros)
    BY <1>3, <1>4
  <2>3. \A k : Esperada(k, c) /\ k.membro # x => Esperada(k, d)
    BY <1>1, <1>4 DEF Esperada
  <2>4. \A k \in fila' : k.exec = e /\ k.tipo # "sinc" => Esperada(k, d)
    BY <1>1, <1>6, <1>10, <2>3
  <2>5. ASSUME NEW u \in Workers, ses'[u].exec = e
        PROVE  /\ ses'[u].pc = "processar" /\ Esperada(ses'[u].msg, d)
               /\ ses'[u].msg \notin fila'
               /\ \A t \in Workers \ {u} : ses'[t].exec = e => ses'[t].msg # ses'[u].msg
    <3>1. ses'[u] = ses[u] /\ ses[u].exec = e /\ ses[u].msg.membro # x
      BY <2>5
    <3>2. ses[u].pc = "processar" /\ Esperada(ses[u].msg, c) /\ ses[u].msg \notin fila
      BY <1>1, <3>1
    <3>3. Esperada(ses[u].msg, d)
      BY <2>3, <3>1, <3>2
    <3>4. fila' \subseteq fila
      BY <1>6, <1>10
    <3>5. \A t \in Workers \ {u} : ses'[t].exec = e => ses'[t].msg # ses'[u].msg
      BY <1>1, <3>1
    <3> QED BY <3>1, <3>2, <3>3, <3>4, <3>5
  <2>6. filho'[e][Cabecalho] \in Final /\ CabeNaJanela(d.membros)
    BY <1>3, <2>2
  <2>7. \A u \in Workers : ses'[u].exec = e =>
           /\ ses'[u].pc = "processar" /\ Esperada(ses'[u].msg, d)
           /\ ses'[u].msg \notin fila'
           /\ \A t \in Workers \ {u} : ses'[t].exec = e => ses'[t].msg # ses'[u].msg
    BY <2>5
  <2>8. Certa(e)'
    <3>1. Coros(e)' = {d}
      BY <1>4, <2>1 DEF Coros
    <3>2. \A k \in Mensagens(e)' : Esperada(k, d)
      BY <2>4 DEF Mensagens
    <3>3. \A u \in Sessoes(e)' : /\ ses'[u].pc = "processar"
                                 /\ Esperada(ses'[u].msg, d)
                                 /\ ses'[u].msg \notin fila'
                                 /\ \A t \in Sessoes(e)' \ {u} : ses'[t].msg # ses'[u].msg
      BY <2>7 DEF Sessoes
    <3>4. CabeNaJanela(d.membros)'
      BY <2>6 DEF CabeNaJanela
    <3>5. Coral(e, d)'
      BY <2>2, <2>6, <3>1, <3>2, <3>3, <3>4 DEF Coral
    <3> QED BY <2>1, <3>5, VivaHistoria DEF Certa, NoCoro
  <2> QED BY <1>7, <1>8, <2>8
<1> QED BY <1>9, <1>10

(* The task of a chord's member ends, fails or is lost.                    *)
LEMMA PassoMembroAcaba ==
    ASSUME Bem, \A f \in Execs : Certa(f), NEW w \in Workers,
           MembroTermina(w) \/ MembroErra(w) \/ (Queda(w) /\ ses[w].pc = "processar"),
           ses[w].msg.coro # {}
    PROVE  \A f \in Execs : Certa(f)'
<1> PICK m : m = ses[w].msg
  OBVIOUS
<1> PICK e, x : e = ses[w].exec /\ x = m.membro
  OBVIOUS
<1>1. ses[w].pc = "processar" /\ Solta(w) /\ UNCHANGED <<pai, corrida, zip>>
  BY DEF MembroTermina, MembroErra, Queda, banco
<1>2. e \in Execs /\ w \in Sessoes(e)
  BY <1>1 DEF Bem, Tarefas, SesForma, Sessoes
<1>3. PICK c \in coros : Coral(e, c) /\ Viva(e)
  BY <1>1, <1>2, Membresia
<1>4. /\ c \in Coro /\ c.exec = e /\ c.membros \subseteq Dependentes
      /\ \A d \in coros : d.exec = e => d = c
      /\ \A y \in c.membros : y \in Membros /\ y # Cabecalho
      /\ \A n \in fila : n.exec = e /\ n.tipo # "sinc" => Esperada(n, c)
      /\ \A v \in Workers : ses[v].exec = e =>
            /\ ses[v].pc = "processar" /\ Esperada(ses[v].msg, c)
            /\ ses[v].msg \notin fila
            /\ \A u \in Workers \ {v} : ses[u].exec = e => ses[u].msg # ses[v].msg
  BY <1>2, <1>3, CoralFatos
<1>5. /\ Esperada(m, c) /\ m.exec = e /\ m.tipo = "membro" /\ m.coro = c.membros
      /\ x \in c.membros \ c.prontos /\ x \in Membros /\ x # Cabecalho /\ m \notin fila
  <2>1. Esperada(m, c) /\ m \notin fila
    BY <1>2, <1>4 DEF Sessoes
  <2> QED BY <1>4, <2>1, EsperadaDe
<1>6. /\ ses \in [Workers -> Tarefa] /\ Troca(w, SessaoLivre) /\ SessaoLivre.exec = 0
      /\ ses'[w].exec # e /\ \A v \in Workers \ {w} : ses'[v] = ses[v]
  BY <1>1, <1>2, ExecsNat, LivreTipo DEF Bem, Tarefas, Solta, Troca
<1>7. /\ filho[e][Cabecalho] \in Final /\ CabeNaJanela(c.membros)
      /\ EmAtividade(e) \subseteq c.membros \ c.prontos
  BY <1>3 DEF Coral
(* No other task or message is of the same member.                         *)
<1>8. /\ \A n \in fila : n.exec = e /\ n.tipo # "sinc" => n.membro # x
      /\ \A v \in Workers \ {w} : ses[v].exec = e => ses[v].msg.membro # x
  <2>1. \A n : Esperada(n, c) /\ n.membro = x => n = m
    BY <1>5, EsperadaUnica
  <2>2. \A v \in Workers \ {w} : ses[v].exec = e => Esperada(ses[v].msg, c) /\ ses[v].msg # m
    BY <1>2, <1>4 DEF Sessoes
  <2> QED BY <1>4, <1>5, <2>1, <2>2
<1>9. CASE MembroTermina(w)
  <2> PICK v : v = Veredito(zip[e][x])
    OBVIOUS
  <2>1. /\ Grava(e, x, v) /\ Retorna(m, fila)
        /\ promovidos' = IF zip[e][x] \in Vazias THEN promovidos
                         ELSE promovidos \cup {<<x, zip[e][x]>>}
    BY <1>5, <1>9 DEF MembroTermina, Grava
  <2>2. /\ v \in {"sucesso", "falha"} /\ promovidos \subseteq promovidos'
        /\ v = "sucesso" => <<x, zip[e][x]>> \in promovidos'
    BY <2>1 DEF Veredito
  <2>3. /\ EmAtividade(e)' \subseteq EmAtividade(e) \ {x}
        /\ \A y \in Membros \ {x} : filho'[e][y] = filho[e][y]
        /\ \A f \in Execs \ {e} : filho'[f] = filho[f]
    <3>1. v \notin Ativo
      BY <2>2 DEF Ativo
    <3> QED BY <1>2, <1>5, <2>1, <3>1, UmFilho
  <2>4. Viva(e)'
    BY <1>1, <1>2, <1>3, <1>5, <2>1, <2>2, VivaFilho DEF Aproveitavel
  <2>5. filho'[e][Cabecalho] = filho[e][Cabecalho]
    BY <1>5, <2>3, ConstantesOk
  <2>6. \A v1 \in Workers : ses'[v1].exec = e =>
                              ses'[v1] = ses[v1] /\ ses[v1].msg.membro # x
    BY <1>6, <1>8
  <2>7. /\ Certa(e)'
        /\ \A k : k.exec # e /\ k.tipo # "sinc" => (k \in fila' <=> k \in fila)
        /\ \A k : k.exec # e => (k \in coros' <=> k \in coros)
    BY <1>2, <1>3, <1>5, <1>8, <2>1, <2>3, <2>4, <2>5, <2>6, ContaMembro
  <2>8. SoMexe(e)
    BY <1>1, <2>2, <2>3, <2>7 DEF SoMexe
  <2> QED BY <1>2, <1>6, <2>7, <2>8, Fecha
<1>10. CASE MembroErra(w) \/ Queda(w)
  <2>1. PICK v \in {"falha", filho[e][x]} :
           /\ Grava(e, x, v) /\ UNCHANGED <<promovidos, coros>>
           /\ fila' = fila \/ fila' = fila \cup {m}
    <3>1. CASE MembroErra(w)
      BY <1>5, <3>1 DEF MembroErra, Repete, dados, Grava
    <3>2. CASE Queda(w)
      <4>1. filho \in [Execs -> [Membros -> StatusExecucao]]
        BY DEF Bem, Linhas
      <4>2. Grava(e, x, filho[e][x])
        BY <3>2, <4>1 DEF Queda, banco, Grava
      <4> QED BY <3>2, <4>2 DEF Queda, dados
    <3> QED BY <1>10, <3>1, <3>2
  <2>2. /\ EmAtividade(e)' \subseteq EmAtividade(e)
        /\ \A y \in Membros \ {x} : filho'[e][y] = filho[e][y]
        /\ \A f \in Execs \ {e} : filho'[f] = filho[f]
    <3>1. x \in Dependentes /\ (v \in Ativo => x \in EmAtividade(e))
      BY <1>5, <2>1 DEF Ativo, Dependentes, EmAtividade
    <3> QED BY <1>2, <1>5, <2>1, <3>1, UmFilho
  <2>3. SoMexe(e)
    BY <1>1, <1>5, <2>1, <2>2 DEF SoMexe
  <2>4. Viva(e)'
    <3>1. SemCancelamento => /\ v # "cancelada"
                             /\ v \in Aproveitavel => <<x, zip[e][x]>> \in promovidos'
      BY <1>3, <1>5, <2>1 DEF Viva, EmAberto, Processados, Aproveitavel
    <3> QED BY <1>1, <1>2, <1>3, <1>5, <2>1, <3>1, VivaFilho
  <2>5. filho'[e][Cabecalho] = filho[e][Cabecalho]
    BY <1>5, <2>2, ConstantesOk
  <2>6. \A v1 \in Workers : ses'[v1].exec = e =>
           /\ ses'[v1].pc = "processar" /\ Esperada(ses'[v1].msg, c)
           /\ ses'[v1].msg \notin fila'
           /\ \A u \in Workers \ {v1} : ses'[u].exec = e => ses'[u].msg # ses'[v1].msg
    BY <1>4, <1>6, <1>8, <2>1
  <2>7. \A n \in fila' : n.exec = e /\ n.tipo # "sinc" => Esperada(n, c)
    BY <1>4, <1>5, <2>1
  <2>8. Certa(e)'
    BY <1>2, <1>4, <1>7, <2>1, <2>2, <2>4, <2>5, <2>6, <2>7, CoralDe
  <2> QED BY <1>2, <1>6, <2>3, <2>8, Fecha
<1> QED BY <1>9, <1>10

-----------------------------------------------------------------------------
(* A free worker takes the only message of an execution, or one of a       *)
(* request, and acts alone.                                                *)
LEMMA PegaTarefa ==
    ASSUME Bem, \A f \in Execs : Certa(f), NEW e \in Execs, NEW w \in Workers, Livre(w),
           NEW m, m.exec = e \/ m.tipo = "sinc", NEW s, s.exec = e, Troca(w, s),
           Sessoes(e) = {}, Mensagens(e) \subseteq {m}, Coros(e) = {},
           fila' = fila \ {m}, UNCHANGED <<coros, promovidos>>,
           \A f \in Execs \ {e} : pai'[f] = pai[f],
           UNCHANGED <<corrida, filho, zip>>,
           Etapa(e, s)', Historia(e)' \/ Viva(e)'
    PROVE  \A f \in Execs : Certa(f)'
<1>1. ses \in [Workers -> Tarefa] /\ ses[w].exec = 0
  BY DEF Bem, Tarefas, SesForma, Livre
<1>2. ses'[w] = s /\ \A v \in Workers \ {w} : ses'[v] = ses[v]
  BY <1>1 DEF Troca
<1>3. Sessoes(e)' = {w}
  BY <1>2 DEF Sessoes
<1>4. Mensagens(e)' = {} /\ Coros(e)' = {}
  BY DEF Mensagens, Coros
<1>5. Etapa(e, ses[w])'
  BY <1>2
<1>6. NaTarefa(e)'
  BY <1>3, <1>4, <1>5 DEF NaTarefa
<1>7. Certa(e)'
  BY <1>6, VivaHistoria DEF Certa
<1>8. SoMexe(e)
  BY DEF SoMexe
<1> QED BY <1>1, <1>7, <1>8, Fecha

(* The row that a request's task adopts, or gets, is one nobody acts for.  *)
LEMMA PassoAdota ==
    ASSUME Bem, SemPre, \A f \in Execs : Certa(f), NEW w \in Workers, NEW m \in fila, Adotar(w, m)
    PROVE  \A f \in Execs : Certa(f)'
<1>1. PICK e \in Adotada(m) : /\ pai' = [pai EXCEPT ![e] = "em_execucao"]
                              /\ ses' = [ses EXCEPT ![w] = Sessao("correr", m, e)]
  BY DEF Adotar
<1>2. /\ Livre(w) /\ m.tipo = "sinc" /\ fila' = fila \ {m}
      /\ UNCHANGED <<corrida, filho, zip, promovidos, coros>>
  BY DEF Adotar, SemPre, dados
<1>3. m \in Mensagem /\ m.exec \in Execs
  BY <1>2 DEF Bem, Filas, MsgForma
<1>4. e \in Execs /\ pai[e] \in {"nenhuma", "agendada"}
  BY <1>1, <1>3 DEF Adotada, Nova
<1>5. Parada(e) /\ Intocada(e) /\ corrida[e] = "nenhuma"
  BY <1>4 DEF Certa, Historia, Guardada
<1> PICK s : s = Sessao("correr", m, e)
  OBVIOUS
<1>6. s.pc = "correr" /\ s.msg = m /\ s.exec = e /\ s.eleitos = {} /\ Troca(w, s)
  BY <1>1, <1>3, <1>4, SessaoTipo DEF Pcs, PcPai, Troca
<1>7. Intocada(e)' /\ EmAtividade(e)' = {} /\ Processados(e)'
  <2>1. \A x \in Membros : filho'[e][x] = "nenhuma"
    BY <1>2, <1>5 DEF Intocada
  <2> QED BY <2>1 DEF Intocada, EmAtividade, Dependentes, Ativo, Processados, Aproveitavel
<1>8. Etapa(e, s)'
  BY <1>2, <1>6, <1>7 DEF Etapa
<1>9. pai \in [Execs -> StatusExecucao]
  BY DEF Bem, Linhas
<1>10. Viva(e)'
  BY <1>1, <1>2, <1>4, <1>5, <1>7, <1>9 DEF Viva, Aberta, EmAberto
<1>11. Sessoes(e) = {} /\ Mensagens(e) \subseteq {m} /\ Coros(e) = {}
  BY <1>5 DEF Parada
<1>12. \A f \in Execs \ {e} : pai'[f] = pai[f]
  BY <1>1, <1>9
<1> QED BY <1>2, <1>4, <1>6, <1>8, <1>10, <1>11, <1>12, PegaTarefa

(* The window holds what a dispatch chooses, and choosing nobody means     *)
(* that every member has ended.                                            *)
LEMMA Escolha ==
    ASSUME NEW e \in Execs, NEW S \in SUBSET Pendentes(e), Cardinality(S) = Vaga(e),
           EmAtividade(e) = {}, filho[e][Cabecalho] \in Final
    PROVE  /\ CabeNaJanela(S)
           /\ S = {} => Acabada(e)
<1>1. Pendentes(e) \subseteq Dependentes /\ Pendentes(e) \subseteq Membros
  BY DEF Pendentes, Dependentes
<1>2. IsFiniteSet(Pendentes(e)) /\ Cardinality(Pendentes(e)) \in Nat
  BY <1>1, ConstantesOk, FS_Subset, FS_CardinalityType
<1> PICK n \in Nat : n = Cardinality(Pendentes(e))
  BY <1>2
<1>3. Janela \in Nat \ {0}
  BY ConstantesOk
<1>4. Cardinality(S) = IF Financeiro THEN (IF Janela <= n THEN Janela ELSE n) ELSE n
  BY DEF Vaga, Menor
<1>5. CabeNaJanela(S)
  BY <1>1, <1>3, <1>4 DEF CabeNaJanela
<1>6. ASSUME S = {}
      PROVE  Acabada(e)
  <2>1. Cardinality(S) = 0
    BY <1>6, FS_EmptySet
  <2>2. n = 0
    BY <1>3, <1>4, <2>1
  <2>3. Pendentes(e) = {}
    BY <1>2, <2>2, FS_EmptySet
  <2>4. \A x \in Dependentes : filho[e][x] \in Final
    BY <2>3 DEF Pendentes, EmAtividade
  <2> QED BY <2>4 DEF Acabada, Dependentes
<1> QED BY <1>5, <1>6

LEMMA PassoDespachoLe ==
    ASSUME Bem, \A f \in Execs : Certa(f), NEW w \in Workers, NEW m \in fila, DespachoLe(w, m)
    PROVE  \A f \in Execs : Certa(f)'
<1> PICK e : e = m.exec
  OBVIOUS
<1>1. /\ Livre(w) /\ m.tipo = "disparar" /\ ~Barrado(e) /\ fila' = fila \ {m}
      /\ UNCHANGED <<pai, corrida, filho, zip, promovidos, coros>>
  BY DEF DespachoLe, banco, dados
<1>2. m \in Mensagem /\ e \in Execs
  BY <1>1 DEF Bem, Filas, MsgForma
<1>3. SoMensagem(e, m)
  BY <1>1, <1>2, DonaMensagem
<1>4. PICK S \in SUBSET Pendentes(e) :
         /\ Cardinality(S) = Vaga(e)
         /\ ses' = [ses EXCEPT ![w] = [Sessao("disp_gravar", m, e) EXCEPT !.eleitos = S]]
  BY DEF DespachoLe
<1>5. filho[e][Cabecalho] \in Final /\ EmAtividade(e) = {} /\ Viva(e) /\ m = Msg("disparar", e)
  <2>1. m # MsgMembro(e, Cabecalho, {}) /\ m # Msg("finalizar", e)
    BY <1>1 DEF MsgMembro, Msg
  <2> QED BY <1>1, <1>3, <2>1 DEF SoMensagem, Promessa, Barrado
<1>7. CabeNaJanela(S) /\ (S = {} => Acabada(e))
  BY <1>2, <1>4, <1>5, Escolha
<1> PICK s : s = [Sessao("disp_gravar", m, e) EXCEPT !.eleitos = S]
  OBVIOUS
<1>8. s.pc = "disp_gravar" /\ s.exec = e /\ s.eleitos = S /\ s.msg = m /\ Troca(w, s)
  <2> PICK a : a = Sessao("disp_gravar", m, e)
    OBVIOUS
  <2>1. a \in Tarefa /\ a.pc = "disp_gravar" /\ a.exec = e /\ a.msg = m
    <3>1. "disp_gravar" \in Pcs
      BY DEF Pcs, PcFim
    <3> QED BY <1>2, <3>1, SessaoTipo
  <2>2. s = [a EXCEPT !.eleitos = S]
    OBVIOUS
  <2>3. s.pc = "disp_gravar" /\ s.exec = e /\ s.eleitos = S /\ s.msg = m
    BY <2>1, <2>2 DEF Tarefa
  <2> QED BY <1>4, <2>3 DEF Troca
<1>9. Etapa(e, s)'
  <2>1. /\ filho'[e][Cabecalho] \in Final /\ CabeNaJanela(s.eleitos)'
        /\ (S = {} => Acabada(e)') /\ EmAtividade(e)' = {}
    BY <1>1, <1>5, <1>7, <1>8 DEF CabeNaJanela, Acabada, EmAtividade
  <2> QED BY <1>5, <1>8, <2>1 DEF Etapa, PcPai
<1>10. Viva(e)'
  BY <1>1, <1>5, VivaIgual
<1>11. Sessoes(e) = {} /\ Mensagens(e) \subseteq {m} /\ Coros(e) = {}
  BY <1>3 DEF SoMensagem
<1> QED BY <1>1, <1>2, <1>8, <1>9, <1>10, <1>11, PegaTarefa

(* A dispatch that is refused leaves nobody to act for the execution.      *)
LEMMA PassoDespachoBarrado ==
    ASSUME Bem, \A f \in Execs : Certa(f), NEW w \in Workers, NEW m \in fila,
           DespachoBarrado(w, m)
    PROVE  \A f \in Execs : Certa(f)'
<1> PICK e : e = m.exec
  OBVIOUS
<1>1. /\ Livre(w) /\ m.tipo = "disparar" /\ fila' = fila \ {m}
      /\ UNCHANGED <<pai, corrida, filho, zip, promovidos, coros, ses>>
  BY DEF DespachoBarrado, banco, dados
<1>2. e \in Execs
  BY <1>1 DEF Bem, Filas, MsgForma
<1>3. SoMensagem(e, m)
  BY <1>1, <1>2, DonaMensagem
<1> PICK s : s = ses[w]
  OBVIOUS
<1>4. ses \in [Workers -> Tarefa] /\ s.exec = 0
  BY <1>1 DEF Bem, Tarefas, SesForma, Livre
<1>5. Troca(w, s)
  BY <1>1, <1>4 DEF Troca
<1>6. SoMexe(e)
  BY <1>1 DEF SoMexe
<1>7. Parada(e)'
  <2>1. m # MsgMembro(e, Cabecalho, {}) /\ m # Msg("finalizar", e)
    BY <1>1 DEF MsgMembro, Msg
  <2>2. Contida(e)
    BY <1>3, <2>1 DEF SoMensagem, Promessa
  <2>3. Contida(e)'
    BY <1>1, <2>2, ContidaDepois DEF Contida, EmAtividade
  <2> QED BY <1>1, <1>3, <2>3 DEF SoMensagem, Parada, Sessoes, Mensagens, Coros
<1>8. Viva(e)'
  BY <1>1, <1>3, VivaIgual DEF SoMensagem
<1>9. Certa(e)'
  BY <1>2, <1>7, <1>8, VivaHistoria DEF Certa
<1> QED BY <1>2, <1>4, <1>5, <1>6, <1>9, Fecha

LEMMA PassoFinalizaLe ==
    ASSUME Bem, \A f \in Execs : Certa(f), NEW w \in Workers, NEW m \in fila, FinalizaLe(w, m)
    PROVE  \A f \in Execs : Certa(f)'
<1> PICK e : e = m.exec
  OBVIOUS
<1>1. /\ Livre(w) /\ m.tipo = "finalizar" /\ fila' = fila \ {m}
      /\ UNCHANGED <<pai, corrida, filho, zip, promovidos, coros>>
      /\ ses' = [ses EXCEPT ![w] = [Sessao("fin_gravar", m, e) EXCEPT
                                      !.lido = pai[e], !.fim = Desfecho(e)]]
  BY DEF FinalizaLe, banco, dados
<1>2. m \in Mensagem /\ e \in Execs
  BY <1>1 DEF Bem, Filas, MsgForma
<1>3. SoMensagem(e, m)
  BY <1>1, <1>2, DonaMensagem
<1>4. Acabada(e) /\ Aberta(e) /\ Historia(e) /\ m = Msg("finalizar", e)
  <2>1. m # MsgMembro(e, Cabecalho, {}) /\ m # Msg("disparar", e)
    BY <1>1 DEF MsgMembro, Msg
  <2> QED BY <1>3, <2>1 DEF SoMensagem, Promessa
<1> PICK r : r = Desfecho(e)
  OBVIOUS
<1>5. /\ r \in {"sucesso", "falha", "cancelada"}
      /\ SemCancelamento => r # "cancelada" /\ (r = "sucesso" => Completa(e))
  <2>1. ASSUME SemCancelamento
        PROVE  r # "cancelada" /\ (r = "sucesso" => Completa(e))
    <3>1. pai[e] # "cancelada" /\ \A x \in Membros : filho[e][x] # "cancelada"
      BY <1>4, <2>1 DEF Historia, Resultados, Processados
    <3>2. r = IF \E x \in Membros : filho[e][x] \in Ativo \cup {"falha"}
              THEN "falha" ELSE "sucesso"
      BY <3>1 DEF Desfecho
    <3> QED BY <1>4, <3>1, <3>2 DEF Acabada, Completa, Final, Aproveitavel
  <2> QED BY <2>1 DEF Desfecho
<1> PICK l : l = pai[e]
  OBVIOUS
<1> PICK s : s = [Sessao("fin_gravar", m, e) EXCEPT !.lido = l, !.fim = r]
  OBVIOUS
<1>6. s.pc = "fin_gravar" /\ s.exec = e /\ s.fim = r /\ s.msg = m /\ Troca(w, s)
  <2> PICK a : a = Sessao("fin_gravar", m, e)
    OBVIOUS
  <2>1. a \in Tarefa /\ a.pc = "fin_gravar" /\ a.exec = e /\ a.msg = m
    BY <1>2, SessaoTipo DEF Pcs, PcFim
  <2>2. s = [a EXCEPT !.lido = l, !.fim = r]
    OBVIOUS
  <2>3. s.pc = "fin_gravar" /\ s.exec = e /\ s.fim = r /\ s.msg = m
    BY <2>1, <2>2 DEF Tarefa
  <2> QED BY <1>1, <2>3 DEF Troca
<1>7. Etapa(e, s)'
  <2>1. (Completa(e) => Completa(e)') /\ Acabada(e)'
    BY <1>1, <1>4 DEF Completa, Acabada
  <2> QED BY <1>4, <1>5, <1>6, <2>1 DEF Etapa, PcPai
<1>8. Sessoes(e) = {} /\ Mensagens(e) = {m} /\ Coros(e) = {}
  BY <1>3 DEF SoMensagem
<1>9. Historia(e)'
  <2>1. ses \in [Workers -> Tarefa]
    BY DEF Bem, Tarefas
  <2>2. \A v \in Sessoes(e)' : ses'[v].pc = "fin_gravar"
    BY <1>6, <1>8, <2>1 DEF Sessoes, Troca
  <2>3. Mensagens(e)' = {} /\ Coros(e)' = {}
    BY <1>1, <1>8 DEF Mensagens, Coros
  <2>4. Encerrada(e)'
    BY <2>2, <2>3 DEF Encerrada
  <2>5. ~Parada(e)
    BY <1>8 DEF Parada
  <2> QED BY <1>1, <1>2, <1>4, <2>4, <2>5, FimHistoria
<1> QED BY <1>1, <1>2, <1>6, <1>7, <1>8, <1>9, PegaTarefa

(* What the operator, the sweep and the publisher do spares everybody.     *)
LEMMA PassoAgenda ==
    ASSUME Bem, \A f \in Execs : Certa(f), Agendar
    PROVE  \A f \in Execs : Certa(f)'
<1>1. PICK e \in Execs :
         /\ Nova(e)
         /\ \/ /\ pai' = [pai EXCEPT ![e] = "agendada"]
               /\ fila' \in {fila, fila \cup {Msg("sinc", e)}}
            \/ /\ pai' = [pai EXCEPT ![e] = "falha"]
               /\ UNCHANGED fila
  BY DEF Agendar
<1>2. UNCHANGED <<corrida, filho, zip, promovidos, coros, ses>>
  BY DEF Agendar, dados
<1>3. \A m : m.tipo # "sinc" => (m \in fila' <=> m \in fila)
  BY <1>1, MsgTipo
<1>4. pai \in [Execs -> StatusExecucao]
  BY DEF Bem, Linhas
<1>5. pai'[e] \in {"agendada", "falha"} /\ \A f \in Execs \ {e} : pai'[f] = pai[f]
  BY <1>1, <1>4
<1>6. \A f \in Execs \ {e} : Poupa(f)
  BY <1>2, <1>3, <1>5 DEF Poupa
<1>7. Certa(e)'
  <2>1. Parada(e) /\ Intocada(e) /\ corrida[e] = "nenhuma"
    BY <1>1 DEF Nova, Certa, Historia, Guardada
  <2>2. Sessoes(e)' = {} /\ Coros(e)' = {} /\ EmAtividade(e)' = EmAtividade(e) /\ Intocada(e)'
    BY <1>2, <2>1 DEF Parada, Sessoes, Coros, EmAtividade, Intocada
  <2>3. Mensagens(e)' = {}
    BY <1>3, <2>1 DEF Parada, Mensagens
  <2>4. Contida(e)'
    BY <1>2, <2>1, <2>2, ContidaDepois DEF Parada, Contida
  <2>5. Parada(e)' /\ Guardada(e)'
    BY <1>2, <2>1, <2>2, <2>3, <2>4 DEF Parada, Guardada
  <2>6. Processados(e)'
    <3>1. \A x \in Membros : filho'[e][x] = "nenhuma"
      BY <2>2 DEF Intocada
    <3> QED BY <3>1 DEF Processados, Aproveitavel
  <2>7. Historia(e)'
    BY <1>2, <1>5, <2>1, <2>5, <2>6 DEF Historia, Resultados
  <2> QED BY <2>5, <2>7 DEF Certa
<1> QED BY <1>6, <1>7, SoUma

LEMMA PassoVarre ==
    ASSUME Bem, \A f \in Execs : Certa(f), Varrer
    PROVE  \A f \in Execs : Certa(f)'
<1>1. PICK P \in SUBSET PaisParados, C \in SUBSET MembrosParados :
         /\ corrida' = [e \in Execs |-> IF e \in P THEN "falha" ELSE corrida[e]]
         /\ pai' = [e \in Execs |-> IF e \in P /\ pai[e] \notin Final
                                    THEN "falha" ELSE pai[e]]
         /\ filho' = [e \in Execs |-> [x \in Membros |->
               IF <<e, x>> \in C THEN "falha" ELSE filho[e][x]]]
  BY DEF Varrer
<1>2. UNCHANGED <<zip, promovidos, fila, coros, ses>>
  BY DEF Varrer, dados, celery
<1>3. ASSUME NEW f \in Execs
      PROVE  Poupa(f)
  <2>1. pai'[f] \in {pai[f], "falha"}
    BY <1>1
  <2>2. corrida'[f] = corrida[f] \/ (corrida[f] = "em_execucao" /\ corrida'[f] = "falha")
    BY <1>1 DEF PaisParados
  <2>3. \A x \in Membros : \/ filho'[f][x] = filho[f][x]
                           \/ filho[f][x] = "em_execucao" /\ filho'[f][x] = "falha"
    BY <1>1 DEF MembrosParados
  <2> QED BY <1>2, <2>1, <2>2, <2>3 DEF Poupa
<1> QED BY <1>3, PoupaCerta

LEMMA PassoIgual ==
    ASSUME Bem, \A f \in Execs : Certa(f),
           UNCHANGED <<banco, promovidos, celery>>
    PROVE  \A f \in Execs : Certa(f)'
<1>1. \A f \in Execs : Poupa(f)
  BY DEF Poupa, banco, celery
<1> QED BY <1>1, PoupaCerta

(* What the constants exclude takes no step.                               *)
LEMMA NaoAcontece ==
    ASSUME Bem
    PROVE  /\ SemDobra => /\ ~PedirPreProcesso
                          /\ \A e \in Execs : ~PedirIngestao(e)
                          /\ \A w \in Workers : ~Reentrega(w)
           /\ SemCancelamento => /\ \A e \in Execs : ~Cancelar(e)
                                 /\ \A e \in Execs, x \in Membros : ~CancelarMembro(e, x)
<1>1. /\ gasto["posts"] \in Nat /\ gasto["reentregas"] \in Nat
      /\ gasto["cancelamentos"] \in Nat
  BY DEF Bem, Linhas
<1> QED BY <1>1 DEF SemDobra, SemCancelamento, PedirPreProcesso, PedirIngestao, Cancelar,
               CancelarMembro, Reentrega, Gasta

(* Nobody asked to ingest apart; and, if no member has been cancelled,     *)
(* none is barred.                                                         *)
LEMMA NaoBarra ==
    ASSUME Bem, \A f \in Execs : Certa(f), NEW w \in Workers, NEW m \in fila
    PROVE  ~PegarIngestao(w, m) /\ (SemCancelamento => ~MembroBarrado(w, m))
<1>1. m \in Mensagem /\ MsgForma(m)
  BY DEF Bem, Filas
<1>2. ASSUME SemCancelamento, m.tipo = "membro"
      PROVE  "cancelada" \notin {pai[m.exec], filho[m.exec][m.membro]}
  <2>1. m.exec \in Execs /\ m.membro \in Membros
    BY <1>1, <1>2, MembroFatos
  <2> QED BY <1>2, <2>1 DEF Certa, Historia, Resultados, Processados
<1>3. m.tipo # "ingerir"
  <2> SUFFICES ASSUME m.tipo = "ingerir"
               PROVE  FALSE
    OBVIOUS
  <2>1. m.exec \in Execs
    BY <1>1 DEF MsgForma
  <2>2. SoMensagem(m.exec, m)
    BY <2>1, DonaMensagem
  <2> QED BY <2>2 DEF SoMensagem, Promessa, MsgMembro, Msg
<1> QED BY <1>2, <1>3 DEF MembroBarrado, PegarIngestao

(* A lost task, but a member's, leaves its message in its place.           *)
LEMMA PassoQueda ==
    ASSUME Bem, \A f \in Execs : Certa(f), NEW w \in Workers, Queda(w),
           ses[w].pc # "processar"
    PROVE  \A f \in Execs : Certa(f)'
<1>1. PICK e \in Execs : /\ e = ses[w].exec /\ SoTarefa(e, w) /\ Etapa(e, ses[w])
                         /\ Aberta(e) /\ Historia(e)
                         /\ ses[w].pc \notin {"fin_gravar", "campanha"} => Viva(e)
  BY Sozinha DEF Queda, Livre
<1> PICK n : n = ses[w].msg
  OBVIOUS
<1>2. /\ UNCHANGED <<pai, corrida, filho, zip, promovidos, coros>> /\ Solta(w)
      /\ fila' = fila \cup {n}
  BY DEF Queda, banco, dados
<1>3. n.tipo # "sinc" => n.exec = e
  <2>1. ses[w].pc \in Pcs
    BY DEF Bem, Tarefas, Tarefa
  <2>2. CASE ses[w].pc \in PcPai
    BY <1>1, <2>2 DEF Etapa
  <2>3. CASE ses[w].pc \in PcFim
    BY <1>1, <2>3, MsgTipo DEF Etapa, PcFim
  <2> QED BY <2>1, <2>2, <2>3 DEF Pcs, Queda, Livre
<1>4. SoMexe(e)
  BY <1>2, <1>3 DEF SoMexe
<1>5. EmAtividade(e)' = EmAtividade(e) /\ (Acabada(e) => Acabada(e)')
  BY <1>2 DEF EmAtividade, Acabada
<1>6. CASE ses[w].pc \in PcPai
  <2>1. n.tipo = "sinc" /\ EmAtividade(e)' = {} /\ Viva(e)
    BY <1>1, <1>5, <1>6 DEF Etapa, PcPai
  <2>2. Viva(e)'
    BY <1>2, <2>1, VivaIgual
  <2> QED BY <1>1, <1>2, <1>4, <2>1, <2>2, FicaParada
<1>7. CASE ses[w].pc \in {"disp_gravar", "disp_publicar"}
  <2>1. /\ n = Msg("disparar", e) /\ filho[e][Cabecalho] \in Final /\ CabeNaJanela(ses[w].eleitos)
        /\ EmAtividade(e) \subseteq ses[w].eleitos /\ Viva(e)
    BY <1>1, <1>7 DEF Etapa
  <2>2. Contida(e)'
    BY <1>2, <1>5, <2>1, ContidaDepois
  <2>3. Promessa(e, n)' /\ Viva(e)'
    BY <1>2, <2>1, <2>2, VivaIgual DEF Promessa
  <2>4. n.tipo # "sinc"
    BY <2>1, MsgTipo
  <2> QED BY <1>1, <1>2, <1>3, <1>4, <2>3, <2>4, FicaMensagem
<1>8. CASE ses[w].pc \in {"fin_gravar", "campanha"}
  <2>1. n = Msg("finalizar", e) /\ Acabada(e)'
    BY <1>1, <1>5, <1>8 DEF Etapa
  <2>2. n.tipo # "sinc"
    BY <2>1, MsgTipo
  <2>3. /\ Sessoes(e)' = {} /\ Coros(e)' = {}
        /\ \A m : /\ m.exec = e /\ m.tipo # "sinc" => m \notin fila
                  /\ m \in Mensagens(e)' <=> m \in fila' /\ m.exec = e /\ m.tipo # "sinc"
    BY <1>1, <1>2, LargaTarefa
  <2>4. Encerrada(e)'
    <3>1. Mensagens(e)' \subseteq {Msg("finalizar", e)}
      BY <1>2, <2>1, <2>3
    <3> QED BY <2>3, <3>1 DEF Encerrada
  <2>5. ~Parada(e)
    BY <1>1 DEF SoTarefa, Parada
  <2>6. Historia(e)'
    BY <1>1, <1>2, <2>4, <2>5, FimHistoria
  <2>7. Promessa(e, n)'
    BY <2>1 DEF Promessa
  <2> QED BY <1>1, <1>2, <1>3, <1>4, <2>2, <2>6, <2>7, FicaMensagem
<1>9. ses[w].pc \in Pcs
  BY DEF Bem, Tarefas, Tarefa
<1> QED BY <1>6, <1>7, <1>8, <1>9 DEF Pcs, PcFim, Queda, Livre

(* A member that was cancelled before its task began: the chain or the     *)
(* chord goes on without it.                                               *)
LEMMA PassoBarra ==
    ASSUME Bem, ~SemCancelamento, \A f \in Execs : Certa(f), NEW w \in Workers,
           NEW m \in fila, MembroBarrado(w, m)
    PROVE  \A f \in Execs : Certa(f)'
<1> PICK e, x : e = m.exec /\ x = m.membro
  OBVIOUS
<1>1. /\ Livre(w) /\ m.tipo = "membro" /\ Retorna(m, fila \ {m})
      /\ UNCHANGED <<pai, corrida, zip, promovidos, ses>>
  BY DEF MembroBarrado, dados
<1>2. m \in Mensagem /\ MsgForma(m)
  BY DEF Bem, Filas
<1>3. e \in Execs /\ x \in Membros /\ (x = Cabecalho \/ x \in m.coro)
  BY <1>1, <1>2, MembroFatos
<1>4. PICK v \in Final : Grava(e, x, v) /\ (filho[e][x] \in Final => v = filho[e][x])
  <2>1. filho \in [Execs -> [Membros -> StatusExecucao]]
    BY DEF Bem, Linhas
  <2>2. CASE filho[e][x] \in Final
    <3>1. Grava(e, x, filho[e][x])
      BY <2>1, <2>2 DEF MembroBarrado, Grava
    <3> QED BY <2>2, <3>1
  <2>3. CASE filho[e][x] \notin Final
    BY <2>3 DEF MembroBarrado, Grava, Final
  <2> QED BY <2>2, <2>3
<1>5. /\ filho'[e][x] = v
      /\ \A y \in Membros \ {x} : filho'[e][y] = filho[e][y]
      /\ \A f \in Execs \ {e} : filho'[f] = filho[f]
      /\ EmAtividade(e)' \subseteq EmAtividade(e) \ {x}
      /\ x = Cabecalho => EmAtividade(e)' = EmAtividade(e)
  BY <1>3, <1>4, UmFilho DEF Final, Ativo
<1> PICK s : s = ses[w]
  OBVIOUS
<1>6. ses \in [Workers -> Tarefa] /\ s.exec = 0
  BY <1>1 DEF Bem, Tarefas, SesForma, Livre
<1>7. Troca(w, s)
  BY <1>1, <1>6 DEF Troca
<1>8. m \in Mensagens(e)
  BY <1>1 DEF Mensagens
<1>9. CASE m.coro = {}
  <2>1. SoMensagem(e, m) /\ x = Cabecalho
    BY <1>1, <1>3, <1>9, DonaMensagem
  <2>2. EmAtividade(e)' = {} /\ Viva(e)
    <3>1. m # Msg("disparar", e) /\ m # Msg("finalizar", e) /\ m.tipo # "finalizar"
      BY <1>1, <1>3, MsgTipo
    <3> QED BY <1>5, <2>1, <3>1 DEF SoMensagem, Promessa
  <2> PICK n : n = Msg("disparar", e)
    OBVIOUS
  <2>3. n.exec = e /\ n.tipo # "sinc"
    BY <1>3, MsgTipo
  <2>4. fila' = (fila \ {m}) \cup {n} /\ UNCHANGED coros
    <3>1. CoroDe(m) = {}
      BY <2>1 DEF CoroDe, SoMensagem, Coros
    <3>2. ComPronto(m) = {}
      BY <3>1 DEF ComPronto
    <3> QED BY <1>1, <1>9, <3>1, <3>2 DEF Retorna
  <2>5. SoMexe(e)
    BY <1>1, <1>5, <2>3, <2>4 DEF SoMexe
  <2>6. Viva(e)'
    BY <1>1, <2>2 DEF Viva, Aberta
  <2>7. Promessa(e, n)'
    BY <1>5, <2>1, <2>2, VaziaContida DEF Promessa
  <2>8. Sessoes(e)' = {} /\ Coros(e)' = {} /\ Mensagens(e)' = {n} /\ n \in fila'
    BY <1>1, <2>1, <2>3, <2>4 DEF SoMensagem, Sessoes, Coros, Mensagens
  <2>9. Certa(e)'
    BY <1>3, <2>6, <2>7, <2>8, VivaHistoria DEF Certa, NaFila
  <2> QED BY <1>3, <1>6, <1>7, <2>5, <2>9, Fecha
<1>10. CASE m.coro # {}
  <2>1. PICK c \in coros : Coral(e, c) /\ Viva(e)
    BY <1>1, <1>3, <1>8, <1>10, Membresia
  <2>2. /\ \A y \in c.membros : y \in Membros /\ y # Cabecalho
        /\ \A n \in fila : n.exec = e /\ n.tipo # "sinc" => Esperada(n, c)
        /\ \A u \in Workers : ses[u].exec = e => Esperada(ses[u].msg, c) /\ ses[u].msg \notin fila
    BY <1>3, <2>1, CoralFatos
  <2>3. Esperada(m, c) /\ x # Cabecalho
    BY <1>1, <2>2, EsperadaDe
  <2>4. \A n : Esperada(n, c) /\ n.membro = x => n = m
    BY <2>3, EsperadaUnica
  <2>5. \A n \in fila \ {m} : n.exec = e /\ n.tipo # "sinc" => n.membro # x
    BY <2>2, <2>4
  <2>6. \A u \in Workers : ses'[u].exec = e => ses'[u] = ses[u] /\ ses[u].msg.membro # x
    BY <1>1, <2>2, <2>4
  <2>7. filho'[e][Cabecalho] = filho[e][Cabecalho]
    BY <1>5, <2>3, ConstantesOk
  <2>8. Viva(e)'
    BY <1>1, <2>1 DEF Viva, Aberta
  <2>9. /\ Certa(e)'
        /\ \A k : k.exec # e /\ k.tipo # "sinc" => (k \in fila' <=> k \in fila)
        /\ \A k : k.exec # e => (k \in coros' <=> k \in coros)
    BY <1>1, <1>3, <1>5, <2>1, <2>3, <2>5, <2>6, <2>7, <2>8, ContaMembro
  <2>10. SoMexe(e)
    BY <1>1, <1>5, <2>9 DEF SoMexe
  <2> QED BY <1>3, <1>6, <1>7, <2>9, <2>10, Fecha
<1> QED BY <1>9, <1>10

(* A cancellation only ends members and tasks of its execution.            *)
LEMMA PassoCancela ==
    ASSUME Bem, \A f \in Execs : Certa(f), NEW e \in Execs,
           Cancelar(e) \/ \E x \in Membros : CancelarMembro(e, x)
    PROVE  \A f \in Execs : Certa(f)'
<1>1. ~SemCancelamento
  BY NaoAcontece
<1>2. PICK S : Revoga(e, S)
  BY DEF Cancelar, CancelarMembro
<1>3. PICK mortos \in SUBSET Revogaveis(e, S) :
         ses' = [w \in Workers |-> IF w \in mortos THEN SessaoLivre ELSE ses[w]]
  BY <1>2 DEF Revoga
<1>4. /\ \A w \in Workers : ses'[w] = ses[w] \/ (ses[w].exec = e /\ ses'[w] = SessaoLivre)
      /\ \A w \in Workers : ses'[w].exec = e => ses'[w] = ses[w]
  <2>1. e # 0 /\ SessaoLivre.exec = 0
    BY ExecsNat, LivreTipo
  <2> QED BY <1>3, <2>1 DEF Revogaveis
<1>5. /\ UNCHANGED <<zip, promovidos, coros>>
      /\ \A m : m.tipo # "sinc" => (m \in fila' <=> m \in fila)
  <2>1. Msg("sinc", e).tipo = "sinc"
    BY MsgTipo
  <2>2. CASE Cancelar(e)
    BY <2>1, <2>2 DEF Cancelar, dados
  <2>3. CASE \E x \in Membros : CancelarMembro(e, x)
    BY <2>3 DEF CancelarMembro, dados
  <2> QED BY <2>2, <2>3
<1>6. /\ pai \in [Execs -> StatusExecucao] /\ corrida \in [Execs -> StatusExecucao]
      /\ filho \in [Execs -> [Membros -> StatusExecucao]]
  BY DEF Bem, Linhas
<1>7. /\ \A f \in Execs \ {e} : /\ pai'[f] = pai[f] /\ corrida'[f] = corrida[f]
                                 /\ filho'[f] = filho[f]
      /\ \A y \in Membros : \/ filho'[e][y] = filho[e][y]
                            \/ filho[e][y] \notin Final \cup {"nenhuma"} /\ filho'[e][y] = "cancelada"
      /\ Aberta(e)'
  <2>1. CASE Cancelar(e)
    BY <1>6, <2>1 DEF Cancelar, Aberta
  <2>2. ASSUME NEW x \in Membros, CancelarMembro(e, x)
        PROVE  /\ \A f \in Execs \ {e} : /\ pai'[f] = pai[f] /\ corrida'[f] = corrida[f]
                                            /\ filho'[f] = filho[f]
               /\ \A y \in Membros :
                      \/ filho'[e][y] = filho[e][y]
                      \/ filho[e][y] \notin Final \cup {"nenhuma"} /\ filho'[e][y] = "cancelada"
               /\ Aberta(e)'
    <3>1. Grava(e, x, "cancelada") /\ UNCHANGED <<pai, corrida>>
      BY <2>2 DEF CancelarMembro, Grava
    <3>2. /\ filho'[e][x] = "cancelada"
          /\ \A y \in Membros \ {x} : filho'[e][y] = filho[e][y]
          /\ \A f \in Execs \ {e} : filho'[f] = filho[f]
      BY <3>1, UmFilho
    <3>3. Aberta(e)
      BY <2>2 DEF CancelarMembro, Certa, Historia, Guardada, Intocada, Aberta
    <3> QED BY <2>2, <3>1, <3>2, <3>3 DEF CancelarMembro, Aberta
  <2> QED BY <2>1, <2>2
<1>8. \A f \in Execs \ {e} : Poupa(f)
  <2> TAKE f \in Execs \ {e}
  <2>1. f # e /\ f # 0 /\ SessaoLivre.exec = 0
    BY ExecsNat, LivreTipo
  <2> QED BY <1>4, <1>5, <1>7, <2>1 DEF Poupa
<1>9. /\ EmAtividade(e)' \subseteq EmAtividade(e)
      /\ Intocada(e) => Intocada(e)'
      /\ Acabada(e) => Acabada(e)'
      /\ filho[e][Cabecalho] \in Final => filho'[e][Cabecalho] = filho[e][Cabecalho]
      /\ Contida(e) => Contida(e)'
  <2>1. "cancelada" \notin Ativo /\ "cancelada" \in Final
    BY DEF Ativo, Final
  <2>2. EmAtividade(e)' \subseteq EmAtividade(e)
    BY <1>7, <2>1 DEF EmAtividade, Dependentes
  <2>3. (Intocada(e) => Intocada(e)') /\ (Acabada(e) => Acabada(e)')
    BY <1>7, <2>1 DEF Intocada, Acabada
  <2>4. filho[e][Cabecalho] \in Final => filho'[e][Cabecalho] = filho[e][Cabecalho]
    BY <1>7, ConstantesOk
  <2>5. Contida(e) => Contida(e)'
    BY <2>2, <2>4, ContidaDepois DEF Contida
  <2> QED BY <2>2, <2>3, <2>4, <2>5
<1>10. /\ Sessoes(e)' \subseteq Sessoes(e) /\ \A w \in Sessoes(e)' : ses'[w] = ses[w]
       /\ Mensagens(e)' = Mensagens(e) /\ Coros(e)' = Coros(e)
  BY <1>4, <1>5 DEF Sessoes, Mensagens, Coros
<1>11. Historia(e)'
  BY <1>1, <1>7 DEF Aberta, Historia
<1>12. ASSUME Parada(e)
       PROVE  Parada(e)'
  BY <1>9, <1>10, <1>12 DEF Parada
<1>13. ASSUME NaTarefa(e)
       PROVE  Parada(e)' \/ NaTarefa(e)'
  <2>1. PICK w \in Workers : /\ Sessoes(e) = {w} /\ Mensagens(e) = {} /\ Coros(e) = {}
                             /\ Etapa(e, ses[w])
    BY <1>13 DEF NaTarefa
  <2>2. CASE Sessoes(e)' = {w}
    <3> PICK s : s = ses[w]
      OBVIOUS
    <3>1. CabeNaJanela(s.eleitos)' <=> CabeNaJanela(s.eleitos)
      BY DEF CabeNaJanela
    <3>2. "skipped" \in Final
      BY DEF Final
    <3>3. Etapa(e, s)'
      BY <1>1, <1>9, <2>1, <3>1, <3>2 DEF Etapa
    <3>4. Etapa(e, ses[w])'
      BY <1>10, <2>2, <3>3
    <3> QED BY <1>10, <2>1, <2>2, <3>4 DEF NaTarefa
  <2>3. CASE Sessoes(e)' = {}
    <3>1. w \in Revogaveis(e, S)
      BY <1>3, <2>1, <2>3 DEF Sessoes
    <3>2. EmAtividade(e) = {}
      BY <2>1, <3>1 DEF Revogaveis, Etapa
    <3>3. Contida(e)'
      BY <1>9, <3>2, VaziaContida
    <3> QED BY <1>10, <2>1, <2>3, <3>3 DEF Parada
  <2> QED BY <1>10, <2>1, <2>2, <2>3
<1>14. ASSUME NaFila(e)
       PROVE  NaFila(e)'
  <2>1. PICK m \in fila : /\ Sessoes(e) = {} /\ Mensagens(e) = {m} /\ Coros(e) = {}
                          /\ Promessa(e, m)
    BY <1>14 DEF NaFila
  <2>2. m \in fila'
    BY <1>10, <2>1 DEF Mensagens
  <2>3. Promessa(e, m)'
    BY <1>9, <2>1 DEF Promessa
  <2> QED BY <1>10, <2>1, <2>2, <2>3 DEF NaFila
<1>15. ASSUME NoCoro(e)
       PROVE  NoCoro(e)'
  <2>1. PICK c \in coros : Coral(e, c)
    BY <1>15 DEF NoCoro
  <2>2. c \in coros'
    BY <1>5
  <2>3. CabeNaJanela(c.membros)' <=> CabeNaJanela(c.membros)
    BY DEF CabeNaJanela
  <2>4. \A w \in Sessoes(e)' : /\ ses'[w].pc = "processar"
                               /\ Esperada(ses'[w].msg, c)
                               /\ ses'[w].msg \notin fila'
                               /\ \A v \in Sessoes(e)' \ {w} : ses'[v].msg # ses'[w].msg
    <3>1. \A w \in Sessoes(e) : Esperada(ses[w].msg, c) /\ ses[w].msg.tipo # "sinc"
      BY <2>1, EsperadaDe DEF Coral
    <3> QED BY <1>5, <1>10, <2>1, <3>1 DEF Coral
  <2>5. Coral(e, c)'
    BY <1>9, <1>10, <2>1, <2>3, <2>4 DEF Coral
  <2> QED BY <2>2, <2>5 DEF NoCoro
<1>16. Certa(e)'
  BY <1>11, <1>12, <1>13, <1>14, <1>15 DEF Certa
<1> QED BY <1>8, <1>16, SoUma

(* Requests to pre-process apart never come back.                          *)
LEMMA PassoSemPre ==
    ASSUME Bem, SemDobra, SemPre, \A f \in Execs : Certa(f), [Next]_vars
    PROVE  SemPre'
<1> SUFFICES ASSUME NEW m \in fila', m \notin fila
             PROVE  m.tipo # "pre"
  BY DEF SemPre
<1>1. ASSUME NEW n \in Mensagem, NEW f, Retorna(n, f), f \subseteq fila
      PROVE  m.tipo # "pre"
  <2>1. m = Msg("disparar", n.exec)
    BY <1>1 DEF Retorna
  <2> QED BY <2>1 DEF Msg
<1>2. ASSUME NEW w \in Workers, Repete(w), ses[w].msg.tipo # "pre"
      PROVE  m.tipo # "pre"
  BY <1>2 DEF Repete
<1>3. ASSUME NEW n \in fila, Pega(n)
      PROVE  m.tipo # "pre"
  <2>1. n \in Mensagem
    BY DEF Bem, Filas
  <2> QED BY <1>1, <1>3, <2>1 DEF Pega, Adotar, PegarIngestao, MembroBarrado, MembroComeca,
             DespachoBarrado, DespachoLe, FinalizaLe
<1>4. ASSUME NEW w \in Workers, Prossegue(w)
      PROVE  m.tipo # "pre"
  <2>1. ses[w].msg \in Mensagem
    BY DEF Bem, Tarefas, Tarefa
  <2>2. CASE MembroTermina(w)
    BY <1>1, <2>1, <2>2 DEF MembroTermina
  <2>3. CASE PublicarFase2(w)
    BY <2>3 DEF PublicarFase2, Msg, MsgMembro
  <2>4. CASE DespachoPublica(w)
    BY <2>4 DEF DespachoPublica, Msg, MsgMembro
  <2> QED BY <1>4, <2>2, <2>3, <2>4
          DEF Prossegue, CriarCorrida, BaixarIgual, BaixarNovo, Preparar, IngerirLe,
              IngerirGrava, AgendarCabecalho, DespachoGrava, FinalizaGrava, CriarCampanha
<1>5. ASSUME NEW w \in Workers, Falha(w)
      PROVE  m.tipo # "pre"
  <2>1. CASE MembroErra(w)
    <3>1. ses[w].msg.tipo = "membro"
      BY <2>1 DEF MembroErra, Bem, Tarefas, SesForma
    <3> QED BY <1>2, <2>1, <3>1 DEF MembroErra
  <2>2. CASE ErroComStatus(w) \/ DependenciaAusente(w)
    <3>1. PICK e \in Execs : Etapa(e, ses[w])
      BY <2>2, Sozinha DEF ErroComStatus, DependenciaAusente
    <3>2. ses[w].msg.tipo = "sinc"
      BY <2>2, <3>1 DEF Etapa, ErroComStatus, DependenciaAusente, PcPai
    <3> QED BY <1>2, <2>2, <3>2 DEF ErroComStatus, DependenciaAusente
  <2>3. CASE Queda(w)
    <3>1. m = ses[w].msg
      BY <2>3 DEF Queda
    <3>2. CASE ses[w].pc = "processar"
      BY <3>1, <3>2 DEF Bem, Tarefas, SesForma
    <3>3. CASE ses[w].pc # "processar"
      <4>1. ses[w].pc \in Pcs /\ ses[w].pc # "livre"
        BY <2>3 DEF Bem, Tarefas, Tarefa, Queda, Livre
      <4>2. PICK e \in Execs : Etapa(e, ses[w])
        BY <3>3, <4>1, Sozinha
      <4> QED BY <3>1, <3>3, <4>1, <4>2, MsgTipo DEF Etapa, Pcs, PcFim
    <3> QED BY <3>2, <3>3
  <2> QED BY <1>5, <2>1, <2>2, <2>3, NaoAcontece DEF Falha
<1>6. ASSUME Operador
      PROVE  m.tipo # "pre"
  <2>1. CASE Agendar
    BY <2>1 DEF Agendar, Msg
  <2>2. CASE \E e \in Execs : Cancelar(e) \/ \E x \in Membros : CancelarMembro(e, x)
    BY <2>2 DEF Cancelar, CancelarMembro
  <2> QED BY <1>6, <2>1, <2>2, NaoAcontece DEF Operador
<1>7. CASE UNCHANGED fila
  BY <1>7
<1> QED BY <1>3, <1>4, <1>5, <1>6, <1>7 DEF Next, Varrer, FonteMuda, vars, celery

LEMMA PassoCerta ==
    ASSUME Bem, SemDobra, SemPre, \A f \in Execs : Certa(f), [Next]_vars
    PROVE  \A f \in Execs : Certa(f)'
<1>1. ASSUME NEW m \in fila, NEW w \in Workers, MembroComeca(w, m)
      PROVE  \A f \in Execs : Certa(f)'
  BY <1>1, PassoCabecalhoComeca, PassoMembroComeca
<1>2. ASSUME NEW m \in fila, Pega(m)
      PROVE  \A f \in Execs : Certa(f)'
  BY <1>1, <1>2, PassoAdota, NaoBarra, PassoBarra, PassoDespachoBarrado, PassoDespachoLe,
     PassoFinalizaLe DEF Pega
<1>3. ASSUME NEW w \in Workers,
             MembroTermina(w) \/ MembroErra(w) \/ (Queda(w) /\ ses[w].pc = "processar")
      PROVE  \A f \in Execs : Certa(f)'
  BY <1>3, PassoCabecalhoAcaba, PassoMembroAcaba
<1>4. ASSUME NEW w \in Workers, Prossegue(w)
      PROVE  \A f \in Execs : Certa(f)'
  BY <1>3, <1>4, PassoBaixa, PassoPrepara, PassoIngere, PassoPublica2, PassoDespachoGrava,
     PassoDespachoPublica, PassoFinalizaGrava, PassoCampanha DEF Prossegue
<1>5. ASSUME NEW w \in Workers, Falha(w)
      PROVE  \A f \in Execs : Certa(f)'
  BY <1>3, <1>5, PassoErro, PassoQueda, NaoAcontece DEF Falha
<1>6. ASSUME Operador
      PROVE  \A f \in Execs : Certa(f)'
  BY <1>6, PassoAgenda, PassoCancela, NaoAcontece DEF Operador
<1>7. ASSUME NEW x \in Membros, NEW v \in Versoes, FonteMuda(x, v)
      PROVE  \A f \in Execs : Certa(f)'
  BY <1>7, PassoIgual DEF FonteMuda, dados
<1>8. ASSUME UNCHANGED vars
      PROVE  \A f \in Execs : Certa(f)'
  BY <1>8, PassoIgual DEF vars, dados
<1> QED BY <1>2, <1>4, <1>5, <1>6, <1>7, <1>8, PassoVarre DEF Next

LEMMA InicioCerto ==
    ASSUME Init
    PROVE  SemPre /\ \A e \in Execs : Certa(e)
<1>1. SemPre
  BY DEF Init, SemPre
<1>2. ASSUME NEW e \in Execs
      PROVE  Certa(e)
  <2>1. e # 0 /\ SessaoLivre.exec = 0
    BY ExecsNat, LivreTipo
  <2>2. Sessoes(e) = {} /\ Mensagens(e) = {} /\ Coros(e) = {}
    BY <2>1 DEF Init, Sessoes, Mensagens, Coros
  <2>3. pai[e] = "nenhuma" /\ corrida[e] = "nenhuma" /\ \A x \in Membros : filho[e][x] = "nenhuma"
    BY DEF Init
  <2>4. EmAtividade(e) = {} /\ Intocada(e) /\ Processados(e)
    BY <2>3 DEF Intocada, EmAtividade, Ativo, Dependentes, Processados, Aproveitavel
  <2>5. Parada(e)
    BY <2>2, <2>4, NadaCabe DEF Parada, Contida
  <2> QED BY <2>3, <2>4, <2>5 DEF Certa, Historia, Guardada, Resultados
<1> QED BY <1>1, <1>2

-----------------------------------------------------------------------------
(* The inductive invariant, whatever fails: the types; and, where no       *)
(* message of a task at work comes twice and nothing is ingested apart, at *)
(* most one task, one message or one chord of disparar_dependentes_task    *)
(* acts for each execution, workers lost and cancellations included.       *)
THEOREM IndutivoZip == Spec => []IInv
<1>1. IInv <=> Bem /\ (SemDobra => SemPre /\ \A e \in Execs : Certa(e))
  BY TiposBem DEF IInv
<1>2. IInv' <=> Bem' /\ (SemDobra => SemPre' /\ \A e \in Execs : Certa(e)')
  BY <1>1, TiposBem DEF IInv
<1>3. Init => IInv
  BY <1>1, TipoInicio, InicioCerto
<1>4. IInv /\ [Next]_vars => IInv'
  BY <1>1, <1>2, TipoPasso, PassoCerta, PassoSemPre
<1> QED BY <1>3, <1>4, PTL DEF Spec

(* Whoever acts for an execution, and even when nobody does any more, the  *)
(* dependents scheduled or running are among those that one dispatch chose,*)
(* after the header.                                                       *)
LEMMA SempreContida ==
    ASSUME IInv, SemDobra, NEW e \in Execs
    PROVE  Contida(e)
<1>1. Certa(e) /\ Bem
  BY TiposBem DEF IInv
<1>2. ASSUME NEW S, CabeNaJanela(S), EmAtividade(e) \subseteq S, filho[e][Cabecalho] \in Final
      PROVE  Contida(e)
  BY <1>2, ParteCabe DEF Contida
<1>3. EmAtividade(e) = {} => Contida(e)
  BY NadaCabe DEF Contida
<1>4. Acabada(e) => EmAtividade(e) = {}
  BY DEF Acabada, EmAtividade, Dependentes, Final, Ativo
<1>5. ASSUME NaTarefa(e)
      PROVE  Contida(e)
  <2>1. PICK w \in Workers : w \in Sessoes(e) /\ Etapa(e, ses[w])
    BY <1>5 DEF NaTarefa
  <2>2. ses[w].pc \in Pcs \ {"livre"}
    <3>1. ses[w].exec = e /\ e # 0
      BY <2>1, ExecsNat DEF Sessoes
    <3> QED BY <1>1, <3>1 DEF Bem, Tarefas, Tarefa, SesForma
  <2>3. CASE ses[w].pc \in PcPai \cup {"processar"}
    BY <1>3, <2>1, <2>3 DEF Etapa
  <2>4. CASE ses[w].pc \in {"disp_gravar", "disp_publicar"}
    <3>1. /\ CabeNaJanela(ses[w].eleitos) /\ EmAtividade(e) \subseteq ses[w].eleitos
          /\ filho[e][Cabecalho] \in Final
      BY <2>1, <2>4 DEF Etapa
    <3> QED BY <1>2, <3>1
  <2>5. CASE ses[w].pc \in {"fin_gravar", "campanha"}
    BY <1>3, <1>4, <2>1, <2>5 DEF Etapa
  <2> QED BY <2>2, <2>3, <2>4, <2>5 DEF Pcs, PcFim
<1>6. ASSUME NoCoro(e)
      PROVE  Contida(e)
  <2>1. PICK c \in coros : /\ CabeNaJanela(c.membros) /\ EmAtividade(e) \subseteq c.membros
                           /\ filho[e][Cabecalho] \in Final
    BY <1>6 DEF NoCoro, Coral
  <2> QED BY <1>2, <2>1
<1>7. NaFila(e) => Contida(e)
  BY <1>3, <1>4 DEF NaFila, Promessa
<1> QED BY <1>1, <1>5, <1>6, <1>7 DEF Certa, Parada

(* Where nothing comes twice and nothing is ingested apart, the window of  *)
(* a financial ZIP is respected, for every window, set of members and      *)
(* number of workers, exceptions, sweeps, cancellations and lost workers   *)
(* included: two dispatches of one execution never count at the same time. *)
THEOREM JanelaSemDobra == SemDobra => (Spec => []JanelaRespeitada)
<1> SUFFICES ASSUME SemDobra
             PROVE  Spec => []JanelaRespeitada
  OBVIOUS
<1>1. IInv => JanelaRespeitada
  BY SempreContida DEF Contida, CabeNaJanela, JanelaRespeitada
<1> QED BY <1>1, IndutivoZip, PTL

(* ... no dependent is scheduled or running before the header's member has *)
(* ended, whatever is retried, swept, cancelled or lost,                   *)
THEOREM CabecalhoSemDobra == SemDobra => (Spec => []CabecalhoPrimeiro)
<1> SUFFICES ASSUME SemDobra
             PROVE  Spec => []CabecalhoPrimeiro
  OBVIOUS
<1>1. IInv => CabecalhoPrimeiro
  BY SempreContida DEF CabecalhoPrimeiro, Contida
<1> QED BY <1>1, IndutivoZip, PTL

(* ... and, where nothing is cancelled either, a parent that               *)
(* finalizar_sincronizacao_zip_task stored as success has every member     *)
(* processed or reused, and keeps them so, though workers are lost and     *)
(* what they did is delivered again,                                       *)
THEOREM SucessoSemCancelamento == SemDobra /\ SemCancelamento => (Spec => []SucessoPleno)
<1> SUFFICES ASSUME SemDobra, SemCancelamento
             PROVE  Spec => []SucessoPleno
  OBVIOUS
<1>1. IInv => SucessoPleno
  BY DEF IInv, Certa, Historia, Resultados, Completa, Aproveitavel, SucessoPleno
<1> QED BY <1>1, IndutivoZip, PTL

(* ... and what is skipped, by the hash of the ZIP or of the member, has   *)
(* been processed by this execution or an earlier one.                     *)
THEOREM ReusoSemCancelamento == SemDobra /\ SemCancelamento => (Spec => []ReusoJustificado)
<1> SUFFICES ASSUME SemDobra, SemCancelamento
             PROVE  Spec => []ReusoJustificado
  OBVIOUS
<1>1. IInv => ReusoJustificado
  BY DEF IInv, Certa, Historia, Resultados, Processados, Aproveitavel, ReusoJustificado
<1> QED BY <1>1, IndutivoZip, PTL
=============================================================================
