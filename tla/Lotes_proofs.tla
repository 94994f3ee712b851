---------------------------- MODULE Lotes_proofs ----------------------------
(***************************************************************************)
(* The materialization queue implements the pool of Lotes, for every value *)
(* of the constants.  The mapping is Posse and Estagio of Materializacao.  *)
(* IInv of Materializacao_proofs says that a chunk closes empty; Historia, *)
(* proved here, that what is worked at was taken.  A step leaves the pool  *)
(* alone (`Quieta'), frees items (`Livra'), or is one of the three that    *)
(* offer, take and close.                                                  *)
(***************************************************************************)
EXTENDS Materializacao_proofs

PassoAbstrato == [Abstrata!NextLotes]_Abstrata!varsLotes

(* What every step but the creation of a campaign does to what Historia    *)
(* speaks of.                                                              *)
Conserva ==
    /\ \A i \in Itens : \/ item'[i] = item[i]
                        \/ item[i] \in Trabalhado /\ item'[i] \in Trabalhado
    /\ \A i \in Itens : lote'[i] # Nenhum
                           => lote[i] # Nenhum \/ item'[i] \in Trabalhado
    /\ \A p \in Processos : \A i \in ses'[p].resto :
          i \in ses[p].resto \/ (i \in Itens /\ lote[i] # Nenhum)
    /\ \A c \in Campanhas : camp'[c] = "nenhuma" => camp[c] = "nenhuma"

LEMMA ConservaHistoria ==
    ASSUME IInv, Historia, Conserva
    PROVE  Historia'
<1>1. \A i \in Itens : item[i] \in Trabalhado => item'[i] \in Trabalhado
  BY DEF Conserva
<1>2. \A i \in Itens : lote'[i] # Nenhum => item'[i] \in Trabalhado
  BY <1>1 DEF Historia, Conserva
<1>3. \A p \in Processos : \A i \in ses'[p].resto : item'[i] \in Trabalhado
  <2> SUFFICES ASSUME NEW p \in Processos, NEW i \in ses'[p].resto
               PROVE  item'[i] \in Trabalhado
    OBVIOUS
  <2>1. ses[p].resto \subseteq Itens
    BY DEF IInv, TypeOK, Sessao
  <2>2. i \in Itens /\ item[i] \in Trabalhado
    BY <2>1 DEF Historia, Conserva
  <2> QED BY <1>1, <2>2
<1>4. \A i \in Itens : camp'[i[1]] = "nenhuma" => item'[i] = "nenhum"
  <2> SUFFICES ASSUME NEW i \in Itens, camp'[i[1]] = "nenhuma"
               PROVE  item'[i] = "nenhum"
    OBVIOUS
  <2>1. i[1] \in Campanhas
    BY DEF Itens
  <2>2. item[i] = "nenhum"
    BY <2>1 DEF Conserva, Historia
  <2>3. "nenhum" \notin Trabalhado
    BY DEF Trabalhado, ItemAtivo, ItemFeito
  <2> QED BY <2>2, <2>3 DEF Conserva
<1> QED BY <1>2, <1>3, <1>4 DEF Historia

(* A status that is stored is never the one of a campaign to be created.   *)
LEMMA CampanhaCriada ==
    ASSUME NEW c, NEW it, NEW ch
    PROVE  Recalculado(c, it, ch) # "nenhuma"
BY DEF Recalculado, CampTerminal

LEMMA GravaCriada ==
    ASSUME TypeOK, NEW p, NEW c, NEW s, s # "nenhuma", Grava(p, c, s)
    PROVE  \A d \in Campanhas : camp'[d] = "nenhuma" => camp[d] = "nenhuma"
BY DEF TypeOK, Grava, Gravado

-----------------------------------------------------------------------------
(* Steps that leave items and chunks as they are.                          *)
LEMMA Quieta ==
    ASSUME IInv, item' = item, lote' = lote, Estagio' = Estagio,
           \A p \in Processos : ses'[p].resto \subseteq ses[p].resto,
           \A c \in Campanhas : camp'[c] = "nenhuma" => camp[c] = "nenhuma"
    PROVE  Conserva /\ PassoAbstrato
<1>1. Posse' = Posse
  BY DEF Posse
<1>2. UNCHANGED Abstrata!varsLotes
  BY <1>1 DEF Abstrata!varsLotes
<1> QED BY <1>2 DEF Conserva, PassoAbstrato

(* The session of p changes and keeps no item it had not before it.        *)
LEMMA RestoMenor ==
    ASSUME IInv, NEW p \in Processos, NEW s, Muda(p, s),
           s.resto \subseteq ses[p].resto
    PROVE  \A q \in Processos : ses'[q].resto \subseteq ses[q].resto
BY DEF IInv, TypeOK, Muda

LEMMA EncerraResto ==
    ASSUME IInv, NEW p \in Processos, Encerra(p)
    PROVE  \A q \in Processos : ses'[q].resto \subseteq ses[q].resto
<1>1. SessaoVazia.resto = {}
  BY DEF SessaoVazia
<1> QED BY <1>1, RestoMenor DEF Encerra

LEMMA MesmoEstagio ==
    ASSUME chunk' = chunk
    PROVE  Estagio' = Estagio
BY DEF Estagio

LEMMA CampanhaTaskConserva ==
    ASSUME IInv, NEW w \in Workers, NEW c \in Campanhas, CampanhaTask(w, c)
    PROVE  Conserva /\ PassoAbstrato
<1> w \in Processos
  BY DEF Processos
<1>1. item' = item /\ lote' = lote /\ chunk' = chunk
  BY DEF CampanhaTask, CampanhaEncerrada, CampanhaRecupera, CampanhaEspera,
         CampanhaSemVaga, CampanhaDecide
<1>2. \/ camp' = [camp EXCEPT ![c] = "pending"]
      \/ camp' = [camp EXCEPT ![c] = Recalculado(c, item, chunk)]
  BY DEF CampanhaTask, CampanhaEncerrada, CampanhaRecupera, CampanhaEspera,
         CampanhaSemVaga, CampanhaDecide
<1>3. \A q \in Processos : ses'[q].resto \subseteq ses[q].resto
  <2>1. CASE CampanhaRecupera(w, c)
    BY <2>1 DEF CampanhaRecupera, Muda, IInv, TypeOK, Sessao
  <2>2. CASE CampanhaDecide(w, c)
    BY <2>2 DEF CampanhaDecide, Muda, IInv, TypeOK, Sessao
  <2>3. CASE ses' = ses
    BY <2>3
  <2> QED BY <2>1, <2>2, <2>3 DEF CampanhaTask, CampanhaEncerrada,
             CampanhaEspera, CampanhaSemVaga
<1>4. \A d \in Campanhas : camp'[d] = "nenhuma" => camp[d] = "nenhuma"
  <2>1. Recalculado(c, item, chunk) # "nenhuma"
    BY CampanhaCriada
  <2> QED BY <1>2, <2>1 DEF IInv, TypeOK
<1> QED BY <1>1, <1>3, <1>4, MesmoEstagio, Quieta

LEMMA DespacharConserva ==
    ASSUME IInv, Despachar
    PROVE  Conserva /\ PassoAbstrato
BY MesmoEstagio, Quieta DEF Despachar, banco

LEMMA ReservarNadaConserva ==
    ASSUME IInv, NEW w \in Workers, ReservarNada(w)
    PROVE  Conserva /\ PassoAbstrato
<1>1. /\ w \in Processos /\ Encerra(w)
      /\ \A d \in Campanhas : camp'[d] = "nenhuma" => camp[d] = "nenhuma"
  BY CampanhaCriada, GravaCriada DEF ReservarNada, Processos, IInv
<1> QED BY <1>1, EncerraResto, MesmoEstagio, Quieta DEF ReservarNada

(* A session that keeps or empties the items it has left shrinks nobody's. *)
LEMMA MudaResto ==
    ASSUME NEW p \in Processos, ses \in [Processos -> Sessao],
           NEW s, Muda(p, s), s.resto \subseteq ses[p].resto
    PROVE  \A q \in Processos : ses'[q].resto \subseteq ses[q].resto
<1>1. ses' = [ses EXCEPT ![p] = s]
  BY DEF Muda
<1>2. ASSUME NEW q \in Processos PROVE ses'[q] = IF q = p THEN s ELSE ses[q]
  BY <1>1
<1> QED BY <1>2

(* Steps of a worker that only read the items.                             *)
LEMMA SoLeConserva ==
    ASSUME IInv, NEW w \in Workers,
           Enfileirar(w) \/ IterarAborta(w) \/ IterarComeca(w)
    PROVE  Conserva /\ PassoAbstrato
<1> w \in Processos
  BY DEF Processos
<1>1. camp' = camp /\ item' = item /\ lote' = lote /\ chunk' = chunk
  BY DEF Enfileirar, IterarAborta, IterarComeca, IterarContinua, banco
<1>2. \A q \in Processos : ses'[q].resto \subseteq ses[q].resto
  <2>1. CASE Encerra(w)
    BY <2>1, EncerraResto
  <2>2. CASE Enfileirar(w) /\ ~Encerra(w)
    <3>1. PICK L : Muda(w, [ses[w] EXCEPT !.lista = L])
      BY <2>2 DEF Enfileirar
    <3>2. ses[w] \in Sessao /\ ses \in [Processos -> Sessao]
      BY DEF IInv, TypeOK
    <3>3. [ses[w] EXCEPT !.lista = L].resto = ses[w].resto
      BY <3>2 DEF Sessao
    <3> QED BY <3>1, <3>2, <3>3, MudaResto
  <2>3. CASE IterarComeca(w)
    BY <2>3 DEF IterarComeca, Muda, IInv, TypeOK, Sessao
  <2> QED BY <2>1, <2>2, <2>3 DEF IterarAborta
<1> QED BY <1>1, <1>2, MesmoEstagio, Quieta

LEMMA PublicarConserva ==
    ASSUME IInv, NEW p \in Processos, Publicar(p)
    PROVE  Conserva /\ PassoAbstrato
BY EncerraResto, MesmoEstagio, Quieta DEF Publicar, banco

LEMMA VarreConserva ==
    ASSUME IInv,
           VarreStale \/ \E c \in Campanhas : Reativa(c) \/ Recuperar(c)
    PROVE  Conserva /\ PassoAbstrato
<1> Varredor \in Processos
  BY DEF Processos
<1>1. CASE VarreStale
  <2>1. item' = item /\ lote' = lote /\ chunk' = chunk /\ camp' = camp
    BY <1>1 DEF VarreStale, banco
  <2>2. \A q \in Processos : ses'[q].resto \subseteq ses[q].resto
    BY <1>1 DEF VarreStale, Muda, IInv, TypeOK, Sessao
  <2> QED BY <2>1, <2>2, MesmoEstagio, Quieta
<1>2. CASE \E c \in Campanhas : Reativa(c)
  <2> PICK c \in Campanhas : Reativa(c)
    BY <1>2
  <2>1. /\ item' = item /\ lote' = lote /\ chunk' = chunk
        /\ camp' = [camp EXCEPT ![c] = Recalculado(c, item, chunk)]
    BY DEF Reativa
  <2>2. \A q \in Processos : ses'[q].resto \subseteq ses[q].resto
    <3>1. CASE ses' = ses
      BY <3>1
    <3>2. CASE Muda(Varredor, [ses[Varredor] EXCEPT
                 !.pc = "rec", !.alcance = {c}, !.lista = StaleDe(c),
                 !.campVista = Vista(Varredor, c, Recalculado(c, item, chunk))])
      BY <3>2 DEF Muda, IInv, TypeOK, Sessao
    <3> QED BY <3>1, <3>2 DEF Reativa
  <2>3. \A d \in Campanhas : camp'[d] = "nenhuma" => camp[d] = "nenhuma"
    <3>1. Recalculado(c, item, chunk) # "nenhuma"
      BY CampanhaCriada
    <3> QED BY <2>1, <3>1 DEF IInv, TypeOK
  <2> QED BY <2>1, <2>2, <2>3, MesmoEstagio, Quieta
<1>3. CASE \E c \in Campanhas : Recuperar(c)
  <2>1. item' = item /\ lote' = lote /\ chunk' = chunk /\ camp' = camp
    BY <1>3 DEF Recuperar, banco
  <2>2. \A q \in Processos : ses'[q].resto \subseteq ses[q].resto
    <3>1. PICK c \in Campanhas :
             Muda(Varredor, [ses[Varredor] EXCEPT !.pc = "rec",
                                !.alcance = {c}, !.lista = StaleDe(c)])
      BY <1>3 DEF Recuperar
    <3>2. ses[Varredor] \in Sessao /\ ses \in [Processos -> Sessao]
      BY DEF IInv, TypeOK
    <3>3. [ses[Varredor] EXCEPT !.pc = "rec", !.alcance = {c},
                                !.lista = StaleDe(c)].resto = ses[Varredor].resto
      BY <3>2 DEF Sessao
    <3> QED BY <3>1, <3>2, <3>3, MudaResto
  <2> QED BY <2>1, <2>2, MesmoEstagio, Quieta
<1> QED BY <1>1, <1>2, <1>3

LEMMA AmbienteConserva ==
    ASSUME IInv, Ambiente
    PROVE  Conserva /\ PassoAbstrato
<1>1. item' = item /\ lote' = lote /\ chunk' = chunk /\ camp' = camp
  BY DEF Ambiente, FechaGate, AbreGate, QuedaVarredor, LeaseVence, LeaseAtrasa,
         LeaseEnvelhece, Queda, Reentrega, banco
<1>2. ses' = ses \/ \E p \in Processos : Encerra(p)
  BY DEF Ambiente, FechaGate, AbreGate, QuedaVarredor, LeaseVence, LeaseAtrasa,
         LeaseEnvelhece, Queda, Reentrega, Processos
<1>3. \A q \in Processos : ses'[q].resto \subseteq ses[q].resto
  BY <1>2, EncerraResto
<1> QED BY <1>1, <1>3, MesmoEstagio, Quieta

LEMMA ChunkIgnoradoConserva ==
    ASSUME IInv, NEW w \in Workers, NEW k \in Chunks, ChunkIgnorado(w, k)
    PROVE  Conserva /\ PassoAbstrato
BY MesmoEstagio, Quieta DEF ChunkIgnorado, banco

(* A chunk that is queued and then runs is open both times; a worker that  *)
(* starts at it sees the items that have it.                               *)
LEMMA ChunkIniciaConserva ==
    ASSUME IInv, NEW w \in Workers, NEW k \in Chunks, ChunkInicia(w, k)
    PROVE  Conserva /\ PassoAbstrato
<1>1. Estagio' = Estagio
  BY DEF ChunkInicia, Estagio, ChunkAtivo, ChunkTerminal, IInv, TypeOK
<1>2. Posse' = Posse /\ item' = item /\ lote' = lote /\ camp' = camp
  BY DEF ChunkInicia, Posse
<1>3. UNCHANGED Abstrata!varsLotes
  BY <1>1, <1>2 DEF Abstrata!varsLotes
<1>4. \A p \in Processos : \A i \in ses'[p].resto :
          i \in ses[p].resto \/ (i \in Itens /\ lote[i] # Nenhum)
  <2>1. \A i \in ItensDoChunk(k) : i \in Itens /\ lote[i] # Nenhum
    BY ConstantesOk DEF ItensDoChunk, Chunks
  <2> QED BY <2>1 DEF ChunkInicia, Muda, IInv, TypeOK, Sessao, Processos
<1> QED BY <1>2, <1>3, <1>4 DEF Conserva, PassoAbstrato

-----------------------------------------------------------------------------
(* Steps that free the items S, each to the status s.                      *)
LEMMA Livra ==
    ASSUME IInv, NEW S \in SUBSET Itens, NEW s \in {"pending"} \cup ItemFeito,
           \A i \in S : item[i] \in Trabalhado,
           item' = [i \in Itens |-> IF i \in S THEN s ELSE item[i]],
           \A i \in Itens : lote'[i] = lote[i] \/ (i \in S /\ lote'[i] = Nenhum),
           chunk' = chunk,
           \A p \in Processos : ses'[p].resto \subseteq ses[p].resto,
           \A c \in Campanhas : camp'[c] = "nenhuma" => camp[c] = "nenhuma"
    PROVE  Conserva /\ PassoAbstrato
<1>1. s # "running" /\ s \in Trabalhado /\ s \in Abstrata!Livres
  BY DEF Abstrata!Livres, ItemFeito, ItemAtivo, Trabalhado
<1>2. Posse' = [i \in Itens |-> IF i \in S THEN Nenhum ELSE Posse[i]]
  BY <1>1 DEF Posse, IInv, TypeOK
<1>3. \A i \in S : item[i] \in Abstrata!Assumidas
  BY DEF Abstrata!Assumidas, Abstrata!Livres, Trabalhado, ItemAtivo, ItemFeito
<1>4. Abstrata!Solta(S, s)
  BY <1>1, <1>2, <1>3, MesmoEstagio DEF Abstrata!Solta
<1>5. Abstrata!NextLotes
  BY <1>1, <1>4 DEF Abstrata!NextLotes
<1>6. \A i \in Itens : \/ item'[i] = item[i]
                       \/ item[i] \in Trabalhado /\ item'[i] \in Trabalhado
  BY <1>1 DEF IInv, TypeOK
<1>7. \A i \in Itens : lote'[i] # Nenhum
                           => lote[i] # Nenhum \/ item'[i] \in Trabalhado
  OBVIOUS
<1> QED BY <1>5, <1>6, <1>7 DEF Conserva, PassoAbstrato

LEMMA DevolveLivra ==
    ASSUME IInv, NEW p \in Processos, NEW c, NEW R \in SUBSET Itens,
           Devolve(p, c, R), \A i \in R : item[i] \in Trabalhado,
           chunk' = chunk,
           \A q \in Processos : ses'[q].resto \subseteq ses[q].resto
    PROVE  Conserva /\ PassoAbstrato
<1>1. \A d \in Campanhas : camp'[d] = "nenhuma" => camp[d] = "nenhuma"
  <2>1. CASE R = {}
    BY <2>1 DEF Devolve
  <2>2. CASE R # {}
    BY <2>2, CampanhaCriada, GravaCriada DEF Devolve, IInv
  <2> QED BY <2>1, <2>2
<1>2. /\ item' = [i \in Itens |-> IF i \in R THEN "pending" ELSE item[i]]
      /\ \A i \in Itens : lote'[i] = lote[i] \/ (i \in R /\ lote'[i] = Nenhum)
  BY DEF Devolve
<1> QED BY <1>1, <1>2, Livra

LEMMA ChunkBarradoConserva ==
    ASSUME IInv, Historia, NEW w \in Workers, NEW k \in Chunks, ChunkBarrado(w, k)
    PROVE  Conserva /\ PassoAbstrato
<1> w \in Processos
  BY DEF Processos
<1>1. ItensDoChunk(k) \in SUBSET Itens /\ Devolve(w, dono[k], ItensDoChunk(k))
  BY DEF ChunkBarrado, ItensDoChunk
<1>2. \A i \in ItensDoChunk(k) : item[i] \in Trabalhado
  BY ConstantesOk DEF Historia, ItensDoChunk, Chunks
<1>3. \A q \in Processos : ses'[q].resto \subseteq ses[q].resto
  BY DEF ChunkBarrado, Muda, IInv, TypeOK, Sessao
<1> QED BY <1>1, <1>2, <1>3, DevolveLivra DEF ChunkBarrado

LEMMA IterarBarradoConserva ==
    ASSUME IInv, Historia, NEW w \in Workers, IterarBarrado(w)
    PROVE  Conserva /\ PassoAbstrato
<1> w \in Processos
  BY DEF Processos
<1>1. /\ ses[w].resto \in SUBSET Itens
      /\ Devolve(w, ses[w].camp, ses[w].resto)
  BY DEF IterarBarrado, IInv, TypeOK, Sessao
<1>2. \A i \in ses[w].resto : item[i] \in Trabalhado
  BY DEF Historia
<1>3. \A q \in Processos : ses'[q].resto \subseteq ses[q].resto
  <2>1. Muda(w, [SessaoVazia EXCEPT !.pc = "cancelar", !.camp = ses[w].camp,
                     !.chunk = ses[w].chunk, !.chunkVisto = ses[w].chunkVisto])
    BY DEF IterarBarrado
  <2> QED BY <2>1, MudaResto DEF SessaoVazia, IInv, TypeOK
<1> QED BY <1>1, <1>2, <1>3, DevolveLivra DEF IterarBarrado

LEMMA RecReverteConserva ==
    ASSUME IInv, NEW p \in Processos, RecReverte(p)
    PROVE  Conserva /\ PassoAbstrato
<1> PICK k \in ses[p].lista :
       LET R == {i \in ItensDoChunk(k) : item[i] = "running"} IN
       /\ Devolve(p, dono[k], R)
       /\ Muda(p, [ses[p] EXCEPT !.pc = "rec_fim", !.chunk = k,
                             !.campVista = VistaDevolvida(p, dono[k], R)])
       /\ chunk' = chunk
  BY DEF RecReverte
<1> DEFINE R == {i \in ItensDoChunk(k) : item[i] = "running"}
<1>1. R \in SUBSET Itens /\ \A i \in R : item[i] \in Trabalhado
  BY DEF ItensDoChunk, Trabalhado, ItemAtivo
<1>2. \A q \in Processos : ses'[q].resto \subseteq ses[q].resto
  BY DEF Muda, IInv, TypeOK, Sessao
<1>3. Devolve(p, dono[k], R) /\ chunk' = chunk
  OBVIOUS
<1> HIDE DEF R
<1> QED BY <1>1, <1>2, <1>3, DevolveLivra

LEMMA RecPresasConserva ==
    ASSUME IInv, NEW p \in Processos, RecPresas(p)
    PROVE  Conserva /\ PassoAbstrato
<1> DEFINE presas == Presas(ses[p].alcance)
           R == {i \in Itens : i[1] \in presas /\ item[i] = "running"}
<1>1. R \in SUBSET Itens /\ \A i \in R : item[i] \in Trabalhado
  BY DEF Trabalhado, ItemAtivo
<1>2. /\ item' = [i \in Itens |-> IF i \in R THEN "pending" ELSE item[i]]
      /\ \A i \in Itens : lote'[i] = lote[i] \/ (i \in R /\ lote'[i] = Nenhum)
      /\ chunk' = chunk
  BY DEF RecPresas
<1>3. \A q \in Processos : ses'[q].resto \subseteq ses[q].resto
  <2>1. Muda(p, [SessaoVazia EXCEPT !.pc = "publicar", !.camp = ses[p].camp,
                     !.afetadas = ses[p].afetadas \cup presas])
    BY DEF RecPresas
  <2> QED BY <2>1, MudaResto DEF SessaoVazia, IInv, TypeOK
<1>4. \A d \in Campanhas : camp'[d] = "nenhuma" => camp[d] = "nenhuma"
  <2>1. \A d \in Campanhas :
           camp'[d] = camp[d] \/ camp'[d] = Recalculado(d, item', chunk)
    BY DEF RecPresas, Gravado
  <2>2. \A d \in Campanhas : Recalculado(d, item', chunk) # "nenhuma"
    BY CampanhaCriada
  <2> QED BY <2>1, <2>2
<1> HIDE DEF R
<1> QED BY <1>1, <1>2, <1>3, <1>4, Livra

(* A result is registered at an item that was taken, whoever has it now.   *)
LEMMA RegistraLivra ==
    ASSUME IInv, Historia, NEW w \in Workers, NEW r \in ItemFeito, NEW visto,
           ses[w].resto # {}, Registra(w, r, visto), lote' = lote, chunk' = chunk,
           \A q \in Processos : ses'[q].resto \subseteq ses[q].resto
    PROVE  Conserva /\ PassoAbstrato
<1> DEFINE i == Proximo(ses[w].resto)
<1> w \in Processos
  BY DEF Processos
<1>1. i \in Itens /\ item[i] \in Trabalhado
  BY ProximoPertence DEF IInv, TypeOK, Sessao, Historia
<1>2. item' = [item EXCEPT ![i] = IF visto = r THEN @ ELSE r]
  BY DEF Registra
<1>3. \A d \in Campanhas : camp'[d] = "nenhuma" => camp[d] = "nenhuma"
  BY CampanhaCriada, GravaCriada DEF Registra, IInv
<1> HIDE DEF i
<1>4. CASE visto = r
  <2>1. item' = item
    BY <1>1, <1>2, <1>4 DEF IInv, TypeOK
  <2> QED BY <1>3, <2>1, MesmoEstagio, Quieta
<1>5. CASE visto # r
  <2>1. item' = [j \in Itens |-> IF j \in {i} THEN r ELSE item[j]]
    BY <1>1, <1>2, <1>5 DEF IInv, TypeOK
  <2>2. {i} \in SUBSET Itens /\ r \in {"pending"} \cup ItemFeito
    BY <1>1
  <2>3. \A j \in {i} : item[j] \in Trabalhado
    BY <1>1
  <2>4. \A j \in Itens : lote'[j] = lote[j] \/ (j \in {i} /\ lote'[j] = Nenhum)
    OBVIOUS
  <2> QED BY <1>3, <2>1, <2>2, <2>3, <2>4, Livra
<1> QED BY <1>4, <1>5

LEMMA MaterializarConserva ==
    ASSUME IInv, Historia, NEW w \in Workers, NEW r \in ItemFeito, Materializar(w, r)
    PROVE  Conserva /\ PassoAbstrato
<1> w \in Processos
  BY DEF Processos
<1>1. ses[w].resto # {}
  BY DEF Materializar, IInv, SessoesOk, SessaoOk
<1>2. \A q \in Processos : ses'[q].resto \subseteq ses[q].resto
  BY DEF Materializar, Muda, IInv, TypeOK, Sessao
<1> QED BY <1>1, <1>2, RegistraLivra DEF Materializar

LEMMA ItemSemCompanhiaConserva ==
    ASSUME IInv, Historia, NEW w \in Workers, ItemSemCompanhia(w)
    PROVE  Conserva /\ PassoAbstrato
<1> w \in Processos
  BY DEF Processos
<1>1. ses[w].resto # {} /\ "failed" \in ItemFeito
  BY DEF ItemSemCompanhia, IterarContinua, ItemFeito
<1>2. \A q \in Processos : ses'[q].resto \subseteq ses[q].resto
  BY DEF ItemSemCompanhia, Muda, IInv, TypeOK, Sessao
<1> QED BY <1>1, <1>2, RegistraLivra DEF ItemSemCompanhia

(* So does an execution that is declared ended, if its item is still open. *)
LEMMA ReconciliaConserva ==
    ASSUME IInv, NEW e \in execs, NEW r \in ItemFeito, Reconcilia(e, r)
    PROVE  Conserva /\ PassoAbstrato
<1> DEFINE i == e[1]
<1>1. i \in Itens /\ i[1] \in Campanhas
  BY DEF IInv, TypeOK, Itens
<1>2. lote' = lote /\ chunk' = chunk /\ ses' = ses
  BY DEF Reconcilia
<1>3. \A d \in Campanhas : camp'[d] = "nenhuma" => camp[d] = "nenhuma"
  <2>1. Recalculado(i[1], item, chunk) # "nenhuma"
    BY CampanhaCriada
  <2> QED BY <2>1 DEF Reconcilia, IInv, TypeOK
<1>4. CASE item[i] \in ItemAtivo
  <2>1. item' = [j \in Itens |-> IF j \in {i} THEN r ELSE item[j]]
    BY <1>4, <1>1 DEF Reconcilia, IInv, TypeOK
  <2>2. {i} \in SUBSET Itens /\ r \in {"pending"} \cup ItemFeito
    BY <1>1
  <2>3. \A j \in {i} : item[j] \in Trabalhado
    BY <1>4 DEF Trabalhado
  <2> HIDE DEF i
  <2> QED BY <1>2, <1>3, <2>1, <2>2, <2>3, Livra
<1>5. CASE item[i] \notin ItemAtivo
  BY <1>2, <1>3, <1>5, MesmoEstagio, Quieta DEF Reconcilia
<1> QED BY <1>4, <1>5

-----------------------------------------------------------------------------
(* A chunk closes when none of its items runs; closed once more, with      *)
(* whatever status, it stays closed.                                       *)
LEMMA Fechamento ==
    ASSUME IInv, NEW k \in Chunks, NEW st \in ChunkTerminal,
           k <= criados, Correm(k) = {},
           chunk' = chunk \/ chunk' = [chunk EXCEPT ![k] = st],
           item' = item, lote' = lote,
           \A q \in Processos : ses'[q].resto \subseteq ses[q].resto,
           \A c \in Campanhas : camp'[c] = "nenhuma" => camp[c] = "nenhuma"
    PROVE  Conserva /\ PassoAbstrato
<1>1. CASE chunk' = [chunk EXCEPT ![k] = st] /\ chunk[k] \in ChunkAtivo
  <2>1. Estagio[k] = "aberto" /\ Estagio' = [Estagio EXCEPT ![k] = "fechado"]
    BY <1>1 DEF Estagio, ChunkAtivo, ChunkTerminal, IInv, TypeOK
  <2>2. Abstrata!NoGrupo(k) = {}
    BY ConstantesOk DEF Abstrata!NoGrupo, Posse, Correm, ItensDoChunk, Chunks
  <2>3. Posse' = Posse
    BY DEF Posse
  <2>4. Abstrata!Fecha(k)
    BY <2>1, <2>2, <2>3 DEF Abstrata!Fecha
  <2>5. Abstrata!NextLotes
    BY <2>4 DEF Abstrata!NextLotes
  <2> QED BY <2>5 DEF Conserva, PassoAbstrato
<1>2. CASE chunk' = [chunk EXCEPT ![k] = st] /\ chunk[k] \notin ChunkAtivo
  <2>1. chunk[k] # "nenhum"
    BY DEF IInv, ChunksCriados
  <2>2. Estagio' = Estagio
    BY <1>2, <2>1 DEF Estagio, ChunkAtivo, ChunkTerminal, IInv, TypeOK
  <2> QED BY <2>2, Quieta
<1>3. CASE chunk' = chunk
  BY <1>3, MesmoEstagio, Quieta
<1> QED BY <1>1, <1>2, <1>3

LEMMA FechaConserva ==
    ASSUME IInv, NEW w \in Workers, Finalizar(w) \/ Cancelar(w)
    PROVE  Conserva /\ PassoAbstrato
<1> DEFINE k == ses[w].chunk
<1> w \in Processos
  BY DEF Processos
<1>1. PICK st \in ChunkTerminal : Conclui(w, st)
  BY DEF Finalizar, Cancelar, ChunkTerminal
<1>2. k \in Chunks /\ k <= criados
  BY DEF Finalizar, Cancelar, IInv, SessoesOk, SessaoOk, PcChunk
<1>3. Correm(k) = {}
  BY DEF Finalizar, Cancelar, IInv, RestoCobre, RestoDe
<1>4. chunk' = chunk \/ chunk' = [chunk EXCEPT ![k] = st]
  BY <1>1 DEF Conclui, IInv, TypeOK
<1>5. item' = item /\ lote' = lote /\ camp' = camp /\ Encerra(w)
  BY <1>1 DEF Conclui
<1> HIDE DEF k
<1> QED BY <1>2, <1>3, <1>4, <1>5, EncerraResto, Fechamento

LEMMA RecFinalizaConserva ==
    ASSUME IInv, NEW p \in Processos, RecFinaliza(p)
    PROVE  Conserva /\ PassoAbstrato
<1> DEFINE k == ses[p].chunk
<1>1. k \in Chunks /\ k <= criados
  BY DEF RecFinaliza, IInv, SessoesOk, SessaoOk
<1>2. Correm(k) = {}
  BY DEF RecFinaliza, IInv, RestoCobre, RestoDe
<1>3. /\ chunk' = [chunk EXCEPT ![k] = "stale"] /\ "stale" \in ChunkTerminal
      /\ item' = item /\ lote' = lote
  BY DEF RecFinaliza, ChunkTerminal
<1>4. \A q \in Processos : ses'[q].resto \subseteq ses[q].resto
  BY DEF RecFinaliza, Muda, IInv, TypeOK, Sessao
<1>5. \A d \in Campanhas : camp'[d] = "nenhuma" => camp[d] = "nenhuma"
  BY CampanhaCriada, GravaCriada DEF RecFinaliza, IInv
<1> HIDE DEF k
<1> QED BY <1>1, <1>2, <1>3, <1>4, <1>5, Fechamento

-----------------------------------------------------------------------------
(* A claim takes pending items into chunks that did not exist.             *)
LEMMA ReservarConserva ==
    ASSUME IInv, NEW w \in Workers, Reservar(w)
    PROVE  Conserva /\ PassoAbstrato
<1> DEFINE c     == ses[w].camp
           fila0 == Pendentes(c)
           n     == Menor(Vagas(w), (Cardinality(fila0) + ChunkSize - 1) \div ChunkSize)
           novos == (criados + 1)..(criados + n)
           parte(i) == criados + 1 + (Posicao(fila0, i) \div ChunkSize)
           meus  == {i \in fila0 : parte(i) \in novos}
<1>1. /\ w \in Processos /\ c \in Campanhas /\ criados \in 0..MaxChunks
      /\ ses[w] \in Sessao
  BY DEF Reservar, IInv, SessoesOk, SessaoOk, TypeOK, Processos
<1>2. n \in Nat /\ criados + n \in 0..MaxChunks
  <2>1. n \in Int
    BY <1>1, ConstantesOk, CampanhasFinitas DEF Vagas, Menor, Sessao, IInv
  <2> QED BY <1>1, <2>1, ConstantesOk DEF Reservar
<1>3. novos \in SUBSET Chunks /\ \A k \in novos : chunk[k] = "nenhum"
  <2> HIDE DEF n
  <2>1. \A k \in novos : k \in Chunks /\ ~(k <= criados)
    BY <1>1, <1>2, ConstantesOk DEF Chunks
  <2> QED BY <2>1 DEF IInv, ChunksCriados
<1>4. /\ meus \in SUBSET Itens
      /\ \A i \in meus : item[i] = "pending" /\ parte(i) \in novos
  BY DEF Pendentes, ItensDe
<1>5. /\ item'  = [i \in Itens |-> IF i \in meus THEN "running" ELSE item[i]]
      /\ lote'  = [i \in Itens |-> IF i \in meus THEN parte(i) ELSE lote[i]]
      /\ chunk' = [k \in Chunks |-> IF k \in novos THEN "queued" ELSE chunk[k]]
      /\ Grava(w, c, "running")
  BY DEF Reservar
<1>6. \A p \in Processos : ses'[p].resto \subseteq ses[p].resto
  <2>1. Muda(w, [SessaoVazia EXCEPT !.pc = "enfileirar", !.camp = c,
                                    !.lista = novos])
    BY DEF Reservar
  <2> QED BY <1>1, <2>1, MudaResto DEF SessaoVazia, IInv, TypeOK
<1> HIDE DEF n, novos, parte, meus
<1>7. Abstrata!Toma(meus, novos)
  <2>1. Posse' = [i \in Itens |-> IF i \in meus THEN parte(i) ELSE Posse[i]]
    BY <1>4, <1>5 DEF Posse
  <2>2. Posse \in [Itens -> Chunks \cup {Nenhum}]
    BY DEF Posse, IInv, TypeOK
  <2>3. Posse' \in [Itens -> Chunks \cup {Nenhum}]
    BY <1>3, <1>4, <2>1, <2>2
  <2>4. Estagio' = [k \in Chunks |-> IF k \in novos THEN "aberto" ELSE Estagio[k]]
    BY <1>5 DEF Estagio, ChunkAtivo
  <2>5. \A k \in novos : Estagio[k] = "nova"
    BY <1>3 DEF Estagio
  <2>6. \A i \in Itens : IF i \in meus THEN Posse'[i] \in novos
                                        ELSE Posse'[i] = Posse[i]
    BY <1>4, <2>1
  <2> QED BY <1>4, <1>5, <2>3, <2>4, <2>5, <2>6 DEF Abstrata!Toma
<1>8. Abstrata!NextLotes
  BY <1>3, <1>4, <1>7 DEF Abstrata!NextLotes
<1>9. "running" \in Trabalhado /\ "pending" \in Trabalhado
  BY DEF Trabalhado, ItemAtivo
<1>10. \A d \in Campanhas : camp'[d] = "nenhuma" => camp[d] = "nenhuma"
  BY <1>1, <1>5, GravaCriada DEF IInv
<1> QED BY <1>4, <1>5, <1>6, <1>8, <1>9, <1>10 DEF Conserva, PassoAbstrato

(* A new campaign finds no item of its own, and offers or skips each.      *)
LEMMA CriarCampanhaOferece ==
    ASSUME IInv, Historia, NEW c \in Campanhas, NEW S \in SUBSET Alvos,
           NEW d \in BOOLEAN, CriarCampanha(c, S, d)
    PROVE  Historia' /\ PassoAbstrato
<1> DEFINE coberto(a) == \E e \in Campanhas :
                            /\ camp[e] \in {"pending", "running"}
                            /\ item[<<e, a>>] \in ItemAtivo
           novos   == {i \in Itens : i[1] = c /\ i[2] \in S}
           puladas == {i \in Itens : coberto(i[2])}
<1>1. /\ camp[c] = "nenhuma"
      /\ item' = [i \in Itens |-> IF i \notin novos THEN item[i]
                                  ELSE IF i \in puladas THEN "skipped"
                                  ELSE "pending"]
  BY DEF CriarCampanha
<1>2. /\ camp' = [camp EXCEPT ![c] = Recalculado(c, item', chunk)]
      /\ lote' = lote /\ chunk' = chunk /\ ses' = ses
  BY DEF CriarCampanha
<1>3. \A i \in novos : item[i] = "nenhum"
  BY <1>1 DEF Historia
<1> HIDE DEF puladas, coberto
<1>4. \A i \in Itens : item[i] \in Trabalhado => item'[i] = item[i]
  BY <1>1, <1>3 DEF Trabalhado, ItemAtivo, ItemFeito
<1>5. Historia'
  <2>1. \A i \in Itens : lote'[i] # Nenhum => item'[i] \in Trabalhado
    BY <1>2, <1>4 DEF Historia
  <2>2. \A p \in Processos : \A i \in ses'[p].resto : item'[i] \in Trabalhado
    BY <1>2, <1>4 DEF Historia, IInv, TypeOK, Sessao
  <2>3. \A i \in Itens : camp'[i[1]] = "nenhuma" => item'[i] = "nenhum"
    <3>1. camp'[c] # "nenhuma"
      BY <1>2, CampanhaCriada DEF IInv, TypeOK
    <3> SUFFICES ASSUME NEW i \in Itens, camp'[i[1]] = "nenhuma"
                 PROVE  item'[i] = "nenhum"
      OBVIOUS
    <3>2. i[1] \in Campanhas /\ i[1] # c
      BY <3>1 DEF Itens
    <3>3. camp[i[1]] = "nenhuma"
      BY <1>2, <3>2 DEF IInv, TypeOK
    <3> QED BY <1>1, <3>2, <3>3 DEF Historia
  <2> QED BY <2>1, <2>2, <2>3 DEF Historia
<1>6. Abstrata!Oferece(novos, puladas)
  <2>1. Posse' = Posse
    <3>1. \A i \in Itens : (item'[i] = "running") <=> (item[i] = "running")
      BY <1>1, <1>3, <1>4 DEF Trabalhado, ItemAtivo
    <3> QED BY <1>2, <3>1 DEF Posse
  <2> QED BY <1>1, <1>2, <1>3, <2>1, MesmoEstagio DEF Abstrata!Oferece
<1>7. novos \in SUBSET Itens /\ puladas \in SUBSET Itens
  BY DEF puladas
<1> HIDE DEF novos
<1>8. Abstrata!NextLotes
  BY <1>6, <1>7 DEF Abstrata!NextLotes
<1> QED BY <1>5, <1>8 DEF PassoAbstrato

-----------------------------------------------------------------------------
LEMMA InitAbstrato == Init => Historia /\ Abstrata!InitLotes
<1> SUFFICES ASSUME Init PROVE Historia /\ Abstrata!InitLotes
  OBVIOUS
<1>1. Historia
  BY DEF Init, Historia, SessaoVazia, Itens
<1>2. Abstrata!InitLotes
  BY DEF Init, Abstrata!InitLotes, Posse, Estagio
<1> QED BY <1>1, <1>2

LEMMA ProssegueConserva ==
    ASSUME IInv, Historia, NEW w \in Workers, Prossegue(w)
    PROVE  Conserva /\ PassoAbstrato
<1>1. w \in Processos
  BY DEF Processos
<1>2. CASE Recuperacao(w)
  BY <1>1, <1>2, RecReverteConserva, RecFinalizaConserva, RecPresasConserva,
     PublicarConserva DEF Recuperacao
<1>3. CASE \E r \in ItemFeito : Materializar(w, r)
  BY <1>3, MaterializarConserva
<1> QED
  BY <1>2, <1>3, ReservarConserva, ReservarNadaConserva, SoLeConserva,
     IterarBarradoConserva, ItemSemCompanhiaConserva, FechaConserva
  DEF Prossegue

(* Every step is a step of the pool or leaves it as it is.                 *)
LEMMA NextAbstrato == IInv /\ Historia /\ [Next]_vars => Historia' /\ PassoAbstrato
<1> SUFFICES ASSUME IInv, Historia, [Next]_vars PROVE Historia' /\ PassoAbstrato
  OBVIOUS
<1>1. CASE \E c \in Campanhas, S \in SUBSET Alvos, d \in BOOLEAN : CriarCampanha(c, S, d)
  BY <1>1, CriarCampanhaOferece
<1>2. CASE Conserva /\ PassoAbstrato
  BY <1>2, ConservaHistoria
<1>3. CASE Despachar
  BY <1>2, <1>3, DespacharConserva
<1>4. CASE \E w \in Workers, c \in Campanhas : CampanhaTask(w, c)
  BY <1>2, <1>4, CampanhaTaskConserva
<1>5. CASE \E w \in Workers, k \in Chunks : ChunkTask(w, k)
  BY <1>2, <1>5, ChunkIgnoradoConserva, ChunkBarradoConserva, ChunkIniciaConserva
  DEF ChunkTask
<1>6. CASE \E w \in Workers : Prossegue(w)
  BY <1>2, <1>6, ProssegueConserva
<1>7. CASE Recuperacao(Varredor)
  BY <1>2, <1>7, RecReverteConserva, RecFinalizaConserva, RecPresasConserva,
     PublicarConserva DEF Recuperacao, Processos
<1>8. CASE \/ VarreStale
           \/ \E c \in Campanhas : VarrePendente(c) \/ Reativar(c) \/ Recuperar(c)
  BY <1>2, <1>8, VarreConserva DEF VarrePendente, Reativar
<1>11. CASE \E e \in execs, r \in ItemFeito : Reconcilia(e, r)
  BY <1>2, <1>11, ReconciliaConserva
<1>9. CASE Ambiente
  BY <1>2, <1>9, AmbienteConserva
<1>10. CASE UNCHANGED vars
  <2>1. /\ item' = item /\ lote' = lote /\ chunk' = chunk /\ camp' = camp
        /\ ses' = ses
    BY <1>10 DEF vars, banco
  <2> QED BY <1>2, <2>1, MesmoEstagio, Quieta
<1> QED
  BY <1>1, <1>3, <1>4, <1>5, <1>6, <1>7, <1>8, <1>9, <1>10, <1>11 DEF Next

(* The queue implements the pool: an item is offered or skipped once, is   *)
(* worked at in one open batch at a time, and no batch closes over an item *)
(* in progress or opens again, whatever messages, leases and crashes do.   *)
THEOREM FilaImplementaLotes == Spec => EmLotes
<1>1. Init => Historia /\ Abstrata!InitLotes
  BY InitAbstrato
<1>2. IInv /\ Historia /\ [Next]_vars
        => Historia' /\ [Abstrata!NextLotes]_Abstrata!varsLotes
  BY NextAbstrato DEF PassoAbstrato
<1> QED BY <1>1, <1>2, Invariante, PTL DEF Spec, EmLotes, Abstrata!SpecLotes
=============================================================================
