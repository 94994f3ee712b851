--------------------------- MODULE Revisoes_proofs ---------------------------
(***************************************************************************)
(* Proofs about Revisoes, for every value of its constants: the types,     *)
(* that the revisions partition the dates, and that an incremental         *)
(* execution answers for the past what was answered before.                *)
(***************************************************************************)
EXTENDS Revisoes, SequenceTheorems, FiniteSetTheorems, WellFoundedInduction, TLAPS

-----------------------------------------------------------------------------
(* A set of naturals that is not empty has a least element.                *)
LEMMA MenorPertence ==
    ASSUME NEW T \in SUBSET Nat, T # {}
    PROVE  Menor(T) \in T /\ \A n \in T : Menor(T) <= n
<1> DEFINE R == OpToRel(<, Nat)
<1>1. \A n \in Nat, q \in Nat : n < q => <<n, q>> \in R
  BY DEF OpToRel
<1>2. IsWellFoundedOn(R, Nat)
  BY NatLessThanWellFounded
<1> HIDE DEF R
<1>3. PICK m \in T : \A n \in T : ~(<<n, m>> \in R)
  BY <1>2, WFMin
<1>4. ASSUME NEW n \in T PROVE m <= n
  <2>1. m \in Nat /\ n \in Nat /\ ~(n < m)
    BY <1>1, <1>3
  <2> QED BY <2>1
<1> QED BY <1>4 DEF Menor

(* A sequence is one of its own elements; what Append and EXCEPT make.     *)
LEMMA Tipada ==
    ASSUME NEW S, NEW s \in Seq(S), NEW T, T = {s[i] : i \in 1..Len(s)}
    PROVE  s \in Seq(T)
<1>1. s = [i \in 1..Len(s) |-> s[i]] /\ Len(s) \in Nat
  BY LenProperties
<1>2. \A i \in 1..Len(s) : s[i] \in T
  OBVIOUS
<1>3. [i \in 1..Len(s) |-> s[i]] \in Seq(T)
  BY <1>1, <1>2, IsASeq
<1> QED BY <1>1, <1>3

LEMMA Acrescenta ==
    ASSUME NEW S, NEW s \in Seq(S), NEW x
    PROVE  /\ Append(s, x) \in Seq(S \cup {x})
           /\ Len(Append(s, x)) = Len(s) + 1
           /\ \A i \in 1..Len(s) : Append(s, x)[i] = s[i]
           /\ Append(s, x)[Len(s) + 1] = x
<1>1. s \in Seq(S \cup {x})
  BY SeqMonotonic
<1> QED BY <1>1, AppendProperties

LEMMA Troca ==
    ASSUME NEW S, NEW s \in Seq(S), NEW i \in 1..Len(s), NEW x,
           NEW u, u = [s EXCEPT ![i] = x]
    PROVE  /\ u \in Seq(S \cup {x})
           /\ Len(u) = Len(s)
           /\ u[i] = x
           /\ \A j \in 1..Len(s) : j # i => u[j] = s[j]
<1>1. s \in Seq(S \cup {x})
  BY SeqMonotonic
<1>2. DOMAIN s = 1..Len(s)
  BY LenProperties
<1> QED BY <1>1, <1>2, ExceptSeq

(* A revision that is made to end at another date.                         *)
LEMMA Cortada ==
    ASSUME NEW r, r = Campos(r), NEW x
    PROVE  LET s == [r EXCEPT !.ate = x] IN
           /\ s = Campos(s)
           /\ s.chave = r.chave /\ s.de = r.de /\ s.ate = x
           /\ s.valor = r.valor /\ s.exec = r.exec
BY DEF Campos

-----------------------------------------------------------------------------
(* The revisions A that N has become when carried to date t by a snapshot  *)
(* S: each is one of before, one cut there, or a new one that begins there,*)
(* and nothing of before or of the snapshot is forgotten.                  *)
Avancado(N, A, S, t, e) ==
    /\ \A s \in A :
          \/ s \in N /\ (s.ate = Sempre => Repete(s, S))
          \/ \E r \in N : r.ate = Sempre /\ ~Repete(r, S) /\ s = [r EXCEPT !.ate = t]
          \/ /\ s.chave \in DOMAIN S
             /\ s = [chave |-> s.chave, de |-> t, ate |-> Sempre,
                     valor |-> S[s.chave], exec |-> e]
             /\ \A r \in N : r.ate = Sempre /\ Repete(r, S) => r.chave # s.chave
    /\ \A r \in N : \/ r.ate # Sempre /\ r \in A
                    \/ Repete(r, S) /\ r \in A
                    \/ r.ate = Sempre /\ ~Repete(r, S) /\ [r EXCEPT !.ate = t] \in A
    /\ \A c \in DOMAIN S :
          \/ \E r \in N : r.ate = Sempre /\ Repete(r, S) /\ r.chave = c
          \/ [chave |-> c, de |-> t, ate |-> Sempre,
              valor |-> S[c], exec |-> e] \in A

LEMMA AvancaAvanca ==
    ASSUME NEW N, \A r \in N : r = Campos(r), NEW t, NEW e
    PROVE  Avancado(N, Avanca(N, t, e), Instantaneo(t), t, e)
<1> DEFINE S == Instantaneo(t)
           A == Avanca(N, t, e)
<1> HIDE DEF S
<1>1. \A s \in A :
          \/ s \in N /\ (s.ate = Sempre => Repete(s, S))
          \/ \E r \in N : r.ate = Sempre /\ ~Repete(r, S) /\ s = [r EXCEPT !.ate = t]
          \/ /\ s.chave \in DOMAIN S
             /\ s = [chave |-> s.chave, de |-> t, ate |-> Sempre,
                     valor |-> S[s.chave], exec |-> e]
             /\ \A r \in N : r.ate = Sempre /\ Repete(r, S) => r.chave # s.chave
  BY DEF Avanca, Abertas, S
<1>2. \A r \in N : \/ r.ate # Sempre /\ r \in A
                   \/ Repete(r, S) /\ r \in A
                   \/ r.ate = Sempre /\ ~Repete(r, S) /\ [r EXCEPT !.ate = t] \in A
  BY DEF Avanca, Abertas, S
<1>3. \A c \in DOMAIN S :
          \/ \E r \in N : r.ate = Sempre /\ Repete(r, S) /\ r.chave = c
          \/ [chave |-> c, de |-> t, ate |-> Sempre,
              valor |-> S[c], exec |-> e] \in A
  BY DEF Avanca, Abertas, S
<1> HIDE DEF A
<1>4. Avancado(N, A, S, t, e)
  BY <1>1, <1>2, <1>3 DEF Avancado
<1> QED BY <1>4 DEF A, S

(* A snapshot has a context, and of the rest only periods.                 *)
LEMMA InstantaneoDe ==
    ASSUME NEW t
    PROVE  /\ Contexto \in DOMAIN Instantaneo(t)
           /\ DOMAIN Instantaneo(t) \subseteq Chaves
           /\ Instantaneo(t)[Contexto] = Contextual(t)
BY DEF Instantaneo, Chaves, ComDados

(* A date, and one that may be open.                                       *)
LEMMA DatasOrdenadas ==
    /\ Datas \subseteq Nat \ {0} /\ Sempre \in Nat
    /\ \A t \in Datas : t < Sempre /\ t # Sempre /\ t > 0
BY ConstantesRevisoes

(* The revisions N of an execution, carried to a date by a snapshot S, as   *)
(* revisions A.                                                            *)
LEMMA AvancaPasso ==
    ASSUME NEW N, NEW A, NEW S, NEW t \in Datas, NEW e \in Ids, NEW inv \in Nat,
           inv <= t,
           \A r \in N : /\ Revisao(r) /\ inv <= r.de
                        /\ r.de < t /\ (r.ate = Sempre \/ r.ate < t),
           Disjuntas(N), Contextuada(N),
           Contexto \in DOMAIN S, DOMAIN S \subseteq Chaves,
           Avancado(N, A, S, t, e)
    PROVE  /\ \A s \in A : /\ Revisao(s) /\ inv <= s.de /\ s.de <= t
                           /\ (s.ate = Sempre \/ s.ate <= t)
           /\ Disjuntas(A)
           /\ Contextuada(A)
<1> DEFINE Velha(z, o) ==
             /\ z.chave = o.chave /\ z.de = o.de /\ z.exec = o.exec /\ z = Campos(z)
             /\ z.valor = o.valor
             /\ \/ z = o /\ (z.ate = Sempre => Repete(o, S))
                \/ z.ate = t /\ o.ate = Sempre /\ ~Repete(o, S)
           Nascida(z) ==
             /\ z.chave \in DOMAIN S /\ z.de = t /\ z.ate = Sempre /\ z.exec = e
             /\ z = Campos(z) /\ z.valor = S[z.chave]
             /\ \A r \in N : r.ate = Sempre /\ Repete(r, S) => r.chave # z.chave
<1>0. /\ t \in Nat /\ Sempre \in Nat /\ t < Sempre
      /\ \A u \in Datas : u \in Nat /\ u < Sempre
  BY DatasOrdenadas
<1>1. \A r \in N : /\ r = Campos(r) /\ r.chave \in Chaves /\ r.exec \in Ids
                   /\ r.de \in Datas /\ r.ate \in Datas \cup {Sempre}
                   /\ r.de \in Nat /\ r.ate \in Nat /\ r.de < r.ate
  BY <1>0 DEF Revisao
<1>2. ASSUME NEW s \in A
      PROVE  (\E o \in N : Velha(s, o)) \/ Nascida(s)
  <2>1. CASE s \in N /\ (s.ate = Sempre => Repete(s, S))
    BY <1>1, <2>1
  <2>2. CASE \E r \in N : /\ r.ate = Sempre /\ ~Repete(r, S)
                          /\ s = [r EXCEPT !.ate = t]
    BY <1>1, <2>2, Cortada
  <2>3. CASE /\ s.chave \in DOMAIN S
             /\ s = [chave |-> s.chave, de |-> t, ate |-> Sempre,
                     valor |-> S[s.chave], exec |-> e]
             /\ \A r \in N : r.ate = Sempre /\ Repete(r, S) => r.chave # s.chave
    BY <2>3 DEF Campos
  <2> QED BY <2>1, <2>2, <2>3 DEF Avancado
<1>3. ASSUME NEW s \in A, NEW o \in N, Velha(s, o)
      PROVE  /\ s.de \in Nat /\ s.ate \in Nat /\ o.de \in Nat /\ o.ate \in Nat
             /\ s.ate <= o.ate /\ (s.ate = Sempre \/ s.ate <= t)
             /\ s.de < t /\ s.de < s.ate
             /\ (s.ate = Sempre => o.ate = Sempre /\ Repete(o, S))
  <2>1. o.de \in Nat /\ o.ate \in Nat /\ o.de < o.ate /\ o.de < t
        /\ (o.ate = Sempre \/ o.ate < t)
    BY <1>1
  <2>2. CASE s = o /\ (s.ate = Sempre => Repete(o, S))
    BY <1>0, <2>1, <2>2
  <2>3. CASE s.ate = t /\ o.ate = Sempre
    BY <1>0, <1>3, <2>1, <2>3
  <2> QED BY <1>3, <2>2, <2>3
<1>4. ASSUME NEW s \in A
      PROVE  /\ Revisao(s) /\ inv <= s.de /\ s.de <= t
             /\ (s.ate = Sempre \/ s.ate <= t)
  <2>1. CASE Nascida(s)
    BY <1>0, <2>1 DEF Revisao
  <2>2. ASSUME NEW o \in N, Velha(s, o)
        PROVE  /\ Revisao(s) /\ inv <= s.de /\ s.de <= t
               /\ (s.ate = Sempre \/ s.ate <= t)
    <3>1. s.ate \in Datas \cup {Sempre}
      BY <1>1, <2>2
    <3> QED BY <1>0, <1>1, <1>3, <2>2, <3>1 DEF Revisao
  <2> QED BY <1>2, <2>1, <2>2
<1>5. Disjuntas(A)
  <2> SUFFICES ASSUME NEW r \in A, NEW s \in A, r.chave = s.chave, r # s
               PROVE  r.ate <= s.de \/ s.ate <= r.de
    BY DEF Disjuntas
  <2>1. ASSUME NEW z \in A, NEW o \in N, Velha(z, o), NEW w \in A, Nascida(w),
               z.chave = w.chave
        PROVE  z.ate <= w.de
    <3>1. z.ate # Sempre
      BY <1>3, <2>1
    <3> QED BY <1>3, <2>1, <3>1
  <2>2. ASSUME NEW o \in N, NEW q \in N, Velha(r, o), Velha(s, q)
        PROVE  r.ate <= s.de \/ s.ate <= r.de
    <3>1. /\ r.ate <= o.ate /\ s.ate <= q.ate /\ r.de = o.de /\ s.de = q.de
          /\ r.ate \in Nat /\ s.ate \in Nat /\ o.ate \in Nat /\ q.ate \in Nat
          /\ o.de \in Nat /\ q.de \in Nat
      BY <1>3, <2>2
    <3>2. CASE o = q
      BY <2>2, <3>2 DEF Campos
    <3>3. CASE o # q
      <4>1. o.ate <= q.de \/ q.ate <= o.de
        BY <2>2, <3>3 DEF Disjuntas
      <4> QED BY <3>1, <4>1
    <3> QED BY <3>2, <3>3
  <2>3. CASE Nascida(r) /\ Nascida(s)
    BY <2>3 DEF Campos
  <2> QED BY <1>2, <2>1, <2>2, <2>3
<1>6. Contextuada(A)
  <2> SUFFICES ASSUME NEW s \in A, NEW u \in Datas, s.de <= u
               PROVE  \E c \in A : c.chave = Contexto /\ Vale(c, u)
    BY DEF Contextuada
  <2>0. u \in Nat /\ u < Sempre
    BY <1>0
  <2>1. CASE t <= u
    <3>1. ASSUME NEW r \in N, r.ate = Sempre, Repete(r, S), r.chave = Contexto
          PROVE  \E c \in A : c.chave = Contexto /\ Vale(c, u)
      <4>1. r \in A
        BY <3>1 DEF Avancado
      <4>2. r.de <= u
        BY <1>0, <1>1, <2>0, <2>1
      <4> QED BY <2>0, <3>1, <4>1, <4>2 DEF Vale
    <3>2. CASE [chave |-> Contexto, de |-> t, ate |-> Sempre,
                valor |-> S[Contexto], exec |-> e] \in A
      BY <2>0, <2>1, <3>2 DEF Vale
    <3> QED BY <3>1, <3>2 DEF Avancado
  <2>2. CASE u < t
    <3>1. ~Nascida(s)
      BY <1>0, <2>0, <2>2
    <3>2. PICK o \in N : Velha(s, o)
      BY <1>2, <3>1
    <3>3. PICK c \in N : c.chave = Contexto /\ Vale(c, u)
      BY <3>2 DEF Contextuada
    <3>4. CASE c \in A
      BY <3>3, <3>4
    <3>5. CASE [c EXCEPT !.ate = t] \in A
      <4>1. c = Campos(c)
        BY <1>1
      <4>2. [c EXCEPT !.ate = t].chave = Contexto /\ Vale([c EXCEPT !.ate = t], u)
        BY <2>2, <3>3, <4>1, Cortada DEF Vale
      <4> QED BY <3>5, <4>2
    <3> QED BY <3>4, <3>5 DEF Avancado
  <2> QED BY <1>0, <2>0, <2>1, <2>2
<1> QED BY <1>4, <1>5, <1>6

(* What one knowledge date adds to the revisions of an execution.          *)
LEMMA AvancaCalculo ==
    ASSUME NEW x, Calculo(x), x.datas \subseteq Datas, x.desde \in Nat,
           NEW t \in x.datas, \A u \in x.datas : t <= u,
           NEW e \in Ids,
           NEW y, y.desde = x.desde, y.datas = x.datas \ {t},
           y.novas = Avanca(x.novas, t, e)
    PROVE  Calculo(y)
<1>1. /\ t \in Datas /\ x.desde <= t
      /\ \A r \in x.novas : /\ Revisao(r) /\ x.desde <= r.de
                            /\ r.de < t /\ (r.ate = Sempre \/ r.ate < t)
      /\ Disjuntas(x.novas) /\ Contextuada(x.novas)
  BY DEF Calculo
<1>2. \A r \in x.novas : r = Campos(r)
  BY <1>1 DEF Revisao
<1>3. /\ Contexto \in DOMAIN Instantaneo(t) /\ DOMAIN Instantaneo(t) \subseteq Chaves
  BY InstantaneoDe
<1> DEFINE A == Avanca(x.novas, t, e)
<1>4. /\ \A s \in A : /\ Revisao(s) /\ x.desde <= s.de /\ s.de <= t
                      /\ (s.ate = Sempre \/ s.ate <= t)
      /\ Disjuntas(A) /\ Contextuada(A)
  <2>1. Avancado(x.novas, A, Instantaneo(t), t, e)
    BY <1>2, AvancaAvanca
  <2> HIDE DEF A
  <2> QED BY <1>1, <1>3, <2>1, AvancaPasso
<1> HIDE DEF A
<1>5. \A u \in x.datas \ {t} : /\ x.desde <= u
                              /\ \A s \in A : s.de < u /\ (s.ate = Sempre \/ s.ate < u)
  <2> TAKE u \in x.datas \ {t}
  <2>1. t \in Nat /\ u \in Nat /\ t <= u /\ t # u /\ x.desde <= u
    BY <1>1, DatasOrdenadas DEF Calculo
  <2>2. ASSUME NEW s \in A PROVE s.de < u /\ (s.ate = Sempre \/ s.ate < u)
    <3>1. s.de \in Nat /\ s.ate \in Nat
      BY <1>4, DatasOrdenadas DEF Revisao
    <3> QED BY <1>4, <2>1, <3>1
  <2> QED BY <2>1, <2>2
<1> QED BY <1>4, <1>5 DEF Calculo, A

-----------------------------------------------------------------------------
(* The use of a bound only grows, and no other event is a correction.      *)
LEMMA UsaGasto ==
    ASSUME gasto \in [Eventos -> Nat], NEW x \in Eventos, NEW max, Usa(x, max)
    PROVE  /\ gasto' \in [Eventos -> Nat]
           /\ gasto'["correcoes"] = 0 => gasto["correcoes"] = 0 /\ x # "correcoes"
<1>1. gasto' = [gasto EXCEPT ![x] = @ + 1] /\ gasto[x] \in Nat
  BY DEF Usa
<1>2. gasto' \in [Eventos -> Nat]
  BY <1>1
<1>3. "correcoes" \in Eventos
  BY DEF Eventos
<1>4. CASE x = "correcoes"
  BY <1>1, <1>3, <1>4
<1>5. CASE x # "correcoes"
  BY <1>1, <1>3, <1>5
<1> QED BY <1>2, <1>4, <1>5

LEMMA DatasDeDatas ==
    ASSUME Tipos, NEW D \in SUBSET Documentos
    PROVE  /\ DatasDe(D) \subseteq Datas
           /\ DatasDe(D) \subseteq DatasDe(Documentos)
           /\ DatasDe(D) # {} => Menor(DatasDe(D)) \in DatasDe(D)
           /\ \A u \in DatasDe(D) : Menor(DatasDe(D)) <= u
<1>1. DatasDe(D) \subseteq Datas /\ DatasDe(D) \subseteq DatasDe(Documentos)
  BY DEF Tipos, DatasDe, Ingeridos
<1>2. DatasDe(D) \in SUBSET Nat
  BY <1>1, DatasOrdenadas
<1> QED BY <1>1, <1>2, MenorPertence

(* An execution and a revision stay well formed when others are added.     *)
LEMMA RevisoesMantem ==
    ASSUME NEW R, \A r \in R : Revisao(r),
           Len(execs) \in Nat, Len(execs') \in Nat, Len(execs) <= Len(execs')
    PROVE  \A r \in R : Revisao(r)'
BY DEF Revisao, Ids

LEMMA CalculoMantem ==
    ASSUME NEW x, Calculo(x),
           Len(execs) \in Nat, Len(execs') \in Nat, Len(execs) <= Len(execs')
    PROVE  Calculo(x)'
<1>1. \A r \in x.novas : Revisao(r)'
  BY RevisoesMantem DEF Calculo
<1> QED BY <1>1 DEF Calculo, Disjuntas, Contextuada, Vale

LEMMA ExecsMantem ==
    ASSUME IInv, UNCHANGED execs,
           Len(itens') \in Nat, Len(itens) <= Len(itens')
    PROVE  /\ execs' \in Seq({execs'[e] : e \in Ids'})
           /\ \A e \in Ids' : Execucao0(execs[e])'
           /\ \A e \in Ids' : execs'[e].status = "running" => Calculo(execs[e])'
           /\ \A R : (\A r \in R : Revisao(r)) => \A r \in R : Revisao(r)'
<1>1. execs \in Seq({execs[e] : e \in Ids}) /\ Len(execs) \in Nat /\ Len(itens) \in Nat
  BY LenProperties DEF IInv, Tipos
<1>2. Ids' = Ids
  BY DEF Ids
<1>3. execs' \in Seq({execs'[e] : e \in Ids'})
  BY <1>1, <1>2
<1>4. \A e \in Ids' : Execucao0(execs[e])'
  BY <1>1, <1>2 DEF IInv, Tipos, Execucao0
<1>5. \A e \in Ids' : execs'[e].status = "running" => Calculo(execs[e])'
  BY <1>1, <1>2 DEF IInv, Calculo, Revisao, Disjuntas, Contextuada, Vale
<1>6. \A R : (\A r \in R : Revisao(r)) => \A r \in R : Revisao(r)'
  BY <1>2 DEF Revisao
<1> QED BY <1>3, <1>4, <1>5, <1>6

(* One execution changes.                                                  *)
LEMMA ExecsTroca ==
    ASSUME IInv, NEW e \in Ids, NEW x, execs' = [execs EXCEPT ![e] = x],
           Len(itens') \in Nat, Len(itens) <= Len(itens'),
           x = [item |-> x.item, status |-> x.status, desde |-> x.desde,
                datas |-> x.datas, novas |-> x.novas],
           x.item = execs[e].item, x.desde = execs[e].desde,
           x.status \in {"running", "success", "failed", "perdida"},
           x.datas \subseteq Datas,
           x.status = "running" => Calculo(x)
    PROVE  /\ execs' \in Seq({execs'[f] : f \in Ids'})
           /\ Ids' = Ids /\ Len(execs') = Len(execs)
           /\ execs'[e] = x /\ \A f \in Ids : f # e => execs'[f] = execs[f]
           /\ \A f \in Ids' : Execucao0(execs[f])'
           /\ \A f \in Ids' : execs'[f].status = "running" => Calculo(execs[f])'
           /\ \A R : (\A r \in R : Revisao(r)) => \A r \in R : Revisao(r)'
<1>1. execs \in Seq({execs[f] : f \in Ids}) /\ Len(execs) \in Nat /\ Len(itens) \in Nat
  BY LenProperties DEF IInv, Tipos
<1>2. /\ execs' \in Seq({execs'[f] : f \in 1..Len(execs')})
      /\ Len(execs') = Len(execs) /\ execs'[e] = x
      /\ \A f \in Ids : f # e => execs'[f] = execs[f]
  <2> PICK u, s, T : u = execs' /\ s = execs /\ execs \in Seq(T)
    BY <1>1
  <2>1. /\ s \in Seq(T) /\ e \in 1..Len(s) /\ u = [s EXCEPT ![e] = x]
    BY DEF Ids
  <2>2. /\ u \in Seq(T \cup {x}) /\ Len(u) = Len(s) /\ u[e] = x
        /\ \A j \in 1..Len(s) : j # e => u[j] = s[j]
    BY <2>1, Troca
  <2>3. PICK V, W : V = {u[j] : j \in 1..Len(u)} /\ u \in Seq(W)
    BY <2>2
  <2>4. u \in Seq(V)
    BY <2>3, Tipada, Zenon
  <2>5. u \in Seq({u[j] : j \in 1..Len(u)})
    BY <2>3, <2>4, Zenon
  <2> QED BY <2>2, <2>5 DEF Ids
<1>3. Ids' = Ids
  BY <1>2 DEF Ids
<1>4. execs' \in Seq({execs'[f] : f \in Ids'})
  BY <1>2 DEF Ids
<1>5. \A f \in Ids' : Execucao0(execs[f])'
  <2> SUFFICES ASSUME NEW f \in Ids' PROVE Execucao0(execs[f])'
    OBVIOUS
  <2>1. Execucao0(execs[f]) /\ Execucao0(execs[e])
    BY <1>3 DEF IInv, Tipos
  <2> QED BY <1>1, <1>2, <1>3, <2>1 DEF Execucao0
<1>6. \A f \in Ids' : execs'[f].status = "running" => Calculo(execs[f])'
  <2> SUFFICES ASSUME NEW f \in Ids', execs'[f].status = "running"
               PROVE  Calculo(execs[f])'
    OBVIOUS
  <2>1. \E y : y = execs'[f] /\ Calculo(y)
    BY <1>2, <1>3 DEF IInv
  <2> QED BY <1>3, <2>1 DEF Calculo, Revisao, Disjuntas, Contextuada, Vale
<1>7. \A R : (\A r \in R : Revisao(r)) => \A r \in R : Revisao(r)'
  BY <1>3 DEF Revisao
<1> QED BY <1>2, <1>3, <1>4, <1>5, <1>6, <1>7

(* An execution is added.                                                  *)
LEMMA ExecsAnexa ==
    ASSUME IInv, NEW x, execs' = Append(execs, x),
           Len(itens') \in Nat, Len(itens) <= Len(itens'),
           x = [item |-> x.item, status |-> "running", desde |-> x.desde,
                datas |-> x.datas, novas |-> {}],
           x.item \in 0..Len(itens), x.desde \in {0} \cup Datas,
           x.datas \subseteq Datas, \A t \in x.datas : x.desde <= t
    PROVE  /\ execs' \in Seq({execs'[f] : f \in Ids'})
           /\ Len(execs') = Len(execs) + 1
           /\ execs'[Len(execs) + 1] = x /\ \A f \in Ids : execs'[f] = execs[f]
           /\ Ids' = Ids \cup {Len(execs) + 1}
           /\ \A f \in Ids' : Execucao0(execs[f])'
           /\ \A f \in Ids' : execs'[f].status = "running" => Calculo(execs[f])'
           /\ \A R : (\A r \in R : Revisao(r)) => \A r \in R : Revisao(r)'
<1>1. execs \in Seq({execs[f] : f \in Ids}) /\ Len(execs) \in Nat /\ Len(itens) \in Nat
  BY LenProperties DEF IInv, Tipos
<1>2. /\ execs' \in Seq({execs'[f] : f \in 1..Len(execs')})
      /\ Len(execs') = Len(execs) + 1 /\ execs'[Len(execs) + 1] = x
      /\ \A f \in Ids : execs'[f] = execs[f]
  <2>1. /\ execs' \in Seq({execs[f] : f \in Ids} \cup {x})
        /\ Len(execs') = Len(execs) + 1 /\ execs'[Len(execs) + 1] = x
        /\ \A f \in Ids : execs'[f] = execs[f]
    BY <1>1, Acrescenta DEF Ids
  <2> QED BY <2>1, Tipada
<1>3. Ids' = Ids \cup {Len(execs) + 1}
  <2>1. Ids' = 1..(Len(execs) + 1) /\ Ids = 1..Len(execs)
    BY <1>2 DEF Ids
  <2> QED BY <1>1, <2>1
<1>4. execs' \in Seq({execs'[f] : f \in Ids'})
  BY <1>2 DEF Ids
<1>5. \A f \in Ids' : Execucao0(execs[f])'
  <2> SUFFICES ASSUME NEW f \in Ids' PROVE Execucao0(execs[f])'
    OBVIOUS
  <2>1. CASE f \in Ids
    <3>1. Execucao0(execs[f])
      BY <2>1 DEF IInv, Tipos
    <3>2. Execucao0(execs'[f])
      BY <1>2, <2>1, <3>1, Zenon
    <3>3. \A n \in 0..Len(itens) : n \in 0..Len(itens')
      BY <1>1
    <3> QED BY <3>2, <3>3 DEF Execucao0
  <2>2. CASE f = Len(execs) + 1
    BY <1>1, <1>2, <2>2 DEF Execucao0
  <2> QED BY <1>3, <2>1, <2>2
<1>6. \A f \in Ids' : execs'[f].status = "running" => Calculo(execs[f])'
  <2> SUFFICES ASSUME NEW f \in Ids', execs'[f].status = "running"
               PROVE  Calculo(execs[f])'
    OBVIOUS
  <2>1. \E y : y = execs'[f] /\ Calculo(y)
    <3>1. Calculo(x)
      BY DEF Calculo, Disjuntas, Contextuada
    <3> QED BY <1>2, <1>3, <3>1 DEF IInv
  <2> QED BY <1>3, <2>1 DEF Calculo, Revisao, Disjuntas, Contextuada, Vale
<1>7. \A R : (\A r \in R : Revisao(r)) => \A r \in R : Revisao(r)'
  BY <1>3 DEF Revisao
<1> QED BY <1>2, <1>3, <1>4, <1>5, <1>6, <1>7

(* The campaign items: nothing changes, one does, one is added.            *)
LEMMA ItensMantem ==
    ASSUME IInv, UNCHANGED itens
    PROVE  /\ itens' \in Seq({itens'[i] : i \in 1..Len(itens')})
           /\ Len(itens) \in Nat /\ Len(itens') = Len(itens)
           /\ \A i \in 1..Len(itens') : Item0(itens[i])'
           /\ \A i \in 1..Len(itens') : itens'[i].inv = itens[i].inv
BY LenProperties DEF IInv, Tipos, Item0

LEMMA ItensTroca ==
    ASSUME IInv, NEW i \in 1..Len(itens), NEW x, itens' = [itens EXCEPT ![i] = x],
           Item0(x), x.inv = itens[i].inv
    PROVE  /\ itens' \in Seq({itens'[j] : j \in 1..Len(itens')})
           /\ Len(itens) \in Nat /\ Len(itens') = Len(itens)
           /\ \A j \in 1..Len(itens') : Item0(itens[j])'
           /\ \A j \in 1..Len(itens') : itens'[j].inv = itens[j].inv
<1>1. itens \in Seq({itens[j] : j \in 1..Len(itens)}) /\ Len(itens) \in Nat
  BY LenProperties DEF IInv, Tipos
<1>2. /\ itens' \in Seq({itens'[j] : j \in 1..Len(itens')})
      /\ Len(itens') = Len(itens) /\ itens'[i] = x
      /\ \A j \in 1..Len(itens) : j # i => itens'[j] = itens[j]
  <2> PICK u, s, T : u = itens' /\ s = itens /\ itens \in Seq(T)
    BY <1>1
  <2>1. /\ s \in Seq(T) /\ i \in 1..Len(s) /\ u = [s EXCEPT ![i] = x]
    BY DEF Ids
  <2>2. /\ u \in Seq(T \cup {x}) /\ Len(u) = Len(s) /\ u[i] = x
        /\ \A j \in 1..Len(s) : j # i => u[j] = s[j]
    BY <2>1, Troca
  <2>3. PICK V, W : V = {u[j] : j \in 1..Len(u)} /\ u \in Seq(W)
    BY <2>2
  <2>4. u \in Seq(V)
    BY <2>3, Tipada, Zenon
  <2>5. u \in Seq({u[j] : j \in 1..Len(u)})
    BY <2>3, <2>4, Zenon
  <2> QED BY <2>2, <2>5 DEF Ids
<1>3. \A j \in 1..Len(itens') : Item0(itens'[j]) /\ itens'[j].inv = itens[j].inv
  BY <1>2 DEF IInv, Tipos
<1> QED BY <1>1, <1>2, <1>3 DEF Item0

LEMMA ItensAnexa ==
    ASSUME IInv, NEW x, itens' = Append(itens, x), Item0(x)
    PROVE  /\ itens' \in Seq({itens'[j] : j \in 1..Len(itens')})
           /\ Len(itens) \in Nat /\ Len(itens') = Len(itens) + 1
           /\ \A j \in 1..Len(itens') : Item0(itens[j])'
           /\ itens'[Len(itens) + 1] = x
           /\ \A j \in 1..Len(itens) : itens'[j] = itens[j]
<1>1. itens \in Seq({itens[j] : j \in 1..Len(itens)}) /\ Len(itens) \in Nat
  BY LenProperties DEF IInv, Tipos
<1>2. /\ itens' \in Seq({itens'[j] : j \in 1..Len(itens')})
      /\ Len(itens') = Len(itens) + 1 /\ itens'[Len(itens) + 1] = x
      /\ \A j \in 1..Len(itens) : itens'[j] = itens[j]
  BY <1>1, Acrescenta, Tipada
<1>3. ASSUME NEW j \in 1..Len(itens')
      PROVE  Item0(itens'[j])
  <2>1. j \in 1..Len(itens) \/ j = Len(itens) + 1
    BY <1>1, <1>2
  <2>2. \A k \in 1..Len(itens) : Item0(itens[k])
    BY DEF IInv, Tipos
  <2> QED BY <1>2, <2>1, <2>2
<1> QED BY <1>1, <1>2, <1>3 DEF Item0

-----------------------------------------------------------------------------
(* The ingestion of a form and year begins, fails or ends.                 *)
LEMMA IngestaoIInv ==
    ASSUME IInv, NEW g \in Grupos,
           IngestaoComeca(g) \/ IngestaoFalha(g) \/ IngestaoTermina(g)
    PROVE  IInv'
<1>1. /\ UNCHANGED <<documentos, revisoes, itens, execs>>
      /\ suja' \subseteq Grupos
      /\ \E s \in {"parada", "promovendo", "terminada"} : Ingestao(g, s)
  BY DEF IngestaoComeca, IngestaoFalha, IngestaoTermina, IInv, Tipos
<1>2. /\ gasto' \in [Eventos -> Nat]
      /\ gasto'["correcoes"] = 0 => gasto["correcoes"] = 0
  <2>1. gasto \in [Eventos -> Nat]
    BY DEF IInv, Tipos
  <2>2. "ingestoes" \in Eventos /\ "falhas" \in Eventos
    BY DEF Eventos
  <2> QED BY <2>1, <2>2, UsaGasto DEF IngestaoComeca, IngestaoFalha, IngestaoTermina
<1>3. PICK s \in {"parada", "promovendo", "terminada"} : Ingestao(g, s)
  BY <1>1
<1>4. /\ ingestoes' \in [Grupos -> {"parada", "promovendo", "terminada", "livre",
                                    "coberta", "encoberta"}]
      /\ \A h \in Grupos : ingestoes'[h] \in {"livre", "coberta", "encoberta"} =>
            ingestoes[h] \in {"livre", "coberta", "encoberta"}
  BY <1>3 DEF IInv, Tipos, Ingestao
<1>5. Tipos'
  <2>1. Len(itens') \in Nat /\ Len(itens) <= Len(itens')
    BY <1>1, LenProperties DEF IInv, Tipos
  <2>2. \A r \in revisoes' : Revisao(r)'
    BY <1>1, <2>1, ExecsMantem DEF IInv, Tipos
  <2> QED BY <1>1, <1>2, <1>4, <2>1, <2>2, ExecsMantem, ItensMantem DEF IInv, Tipos
<1>6. (\A e \in Ids : execs[e].status = "running" => Calculo(execs[e]))'
  <2>1. Len(itens') \in Nat /\ Len(itens) <= Len(itens')
    BY <1>1, LenProperties DEF IInv, Tipos
  <2> QED BY <1>1, <2>1, ExecsMantem
<1>7. ComDocumentos'
  BY <1>1, <1>4 DEF IInv, ComDocumentos, DatasDe, Ingeridos
<1>8. SemCorrecao'
  BY <1>1, <1>2 DEF IInv, SemCorrecao, DatasDe, Ingeridos, Ids, Inicial,
     Disjuntas, Contextuada, Vale
<1> QED BY <1>5, <1>6, <1>7, <1>8 DEF IInv

(* The campaign of a success reads whether there is an item to do.         *)
LEMMA CampanhaLeIInv ==
    ASSUME IInv, NEW g \in Grupos, CampanhaLe(g)
    PROVE  IInv'
<1>1. /\ UNCHANGED <<documentos, revisoes, itens, execs, suja, gasto>>
      /\ Len(itens') \in Nat /\ Len(itens) <= Len(itens')
  BY LenProperties DEF CampanhaLe, IInv, Tipos
<1>2. PICK s \in {"parada", "livre", "coberta", "encoberta"} :
         Ingestao(g, s) /\ (s # "parada" => TemDados(g))
  BY DEF CampanhaLe
<1>3. ingestoes' \in [Grupos -> {"parada", "promovendo", "terminada", "livre",
                                 "coberta", "encoberta"}]
  BY <1>2 DEF IInv, Tipos, Ingestao
<1>4. Tipos'
  <2>1. \A r \in revisoes' : Revisao(r)'
    BY <1>1, ExecsMantem DEF IInv, Tipos
  <2> QED BY <1>1, <1>3, <2>1, ExecsMantem, ItensMantem DEF IInv, Tipos
<1>5. (\A e \in Ids : execs[e].status = "running" => Calculo(execs[e]))'
  BY <1>1, ExecsMantem
<1>6. ComDocumentos'
  <2>1. TemDados(g) => DatasDe({d \in Documentos : d.grupo = g}) # {}
    BY DEF TemDados, DatasDe, Ingeridos
  <2>2. \A h \in Grupos : ingestoes'[h] \in {"livre", "coberta", "encoberta"} =>
          DatasDe({d \in Documentos : d.grupo = h}) # {}
    BY <1>2, <2>1 DEF IInv, Tipos, ComDocumentos, Ingestao
  <2> QED BY <1>1, <2>2 DEF ComDocumentos, DatasDe, Ingeridos
<1>7. SemCorrecao'
  BY <1>1 DEF IInv, SemCorrecao, DatasDe, Ingeridos, Ids, Inicial,
     Disjuntas, Contextuada, Vale
<1> QED BY <1>4, <1>5, <1>6, <1>7 DEF IInv

(* A document is inserted or updated.  Unless its date of receipt is       *)
(* corrected, the dates of documents stay.                                 *)
LEMMA PromoveIInv ==
    ASSUME IInv, NEW d \in Documentos, NEW t \in Recebimentos[d],
           NEW v \in Valores \cup {Nada}, Promove(d, t, v)
    PROVE  IInv'
<1>1. /\ UNCHANGED <<revisoes, itens, execs, ingestoes, suja>>
      /\ Len(itens') \in Nat /\ Len(itens) <= Len(itens')
      /\ documentos' = [documentos EXCEPT ![d] = [data |-> t, valor |-> v]]
  BY LenProperties DEF Promove, IInv, Tipos
<1>2. t \in Datas /\ t # Sempre
  BY ConstantesRevisoes, DatasOrdenadas
<1>3. /\ gasto' \in [Eventos -> Nat]
      /\ gasto'["correcoes"] = 0 =>
           /\ gasto["correcoes"] = 0
           /\ d \in Ingeridos => documentos[d].data = t
  <2>1. gasto \in [Eventos -> Nat] /\ "correcoes" \in Eventos
    BY DEF IInv, Tipos, Eventos
  <2>2. \/ UNCHANGED gasto /\ (d \in Ingeridos => documentos[d].data = t)
        \/ Usa("correcoes", MaxCorrecoes)
    BY DEF Promove
  <2> QED BY <2>1, <2>2, UsaGasto
<1>4. /\ documentos' \in [Documentos -> [data  : Datas \cup {Sempre},
                                        valor : Valores \cup {Nada}]]
      /\ documentos'[d].data = t
      /\ \A f \in Documentos : f # d => documentos'[f] = documentos[f]
  BY <1>1, <1>2 DEF IInv, Tipos
<1>5. Ingeridos \subseteq Ingeridos' /\ Ingeridos' \subseteq Documentos
  BY <1>2, <1>4 DEF Ingeridos
<1>6. \A D : DatasDe(D) # {} => DatasDe(D)' # {}
  BY <1>5 DEF DatasDe
<1>7. gasto'["correcoes"] = 0 => DatasDe(Documentos) \subseteq DatasDe(Documentos)'
  <2> SUFFICES ASSUME gasto'["correcoes"] = 0, NEW f \in Documentos \cap Ingeridos
               PROVE  documentos[f].data \in DatasDe(Documentos)'
    BY DEF DatasDe
  <2>1. documentos'[f].data = documentos[f].data
    BY <1>3, <1>4
  <2> QED BY <1>5, <2>1 DEF DatasDe
<1>8. Tipos'
  <2>1. \A r \in revisoes' : Revisao(r)'
    BY <1>1, ExecsMantem DEF IInv, Tipos
  <2> QED BY <1>1, <1>3, <1>4, <2>1, ExecsMantem, ItensMantem DEF IInv, Tipos
<1>9. (\A e \in Ids : execs[e].status = "running" => Calculo(execs[e]))'
  BY <1>1, ExecsMantem
<1>10. ComDocumentos'
  <2> SUFFICES ASSUME NEW g \in Grupos,
                      ingestoes[g] \in {"livre", "coberta", "encoberta"}
               PROVE  DatasDe({f \in Documentos : f.grupo = g})' # {}
    BY <1>1 DEF ComDocumentos
  <2> QED BY <1>6 DEF IInv, ComDocumentos
<1>11. SemCorrecao'
  BY <1>1, <1>3, <1>7 DEF IInv, SemCorrecao, Ids, Inicial, Disjuntas, Contextuada, Vale
<1> QED BY <1>8, <1>9, <1>10, <1>11 DEF IInv

(* An item is added, with a date of one of the documents.                  *)
LEMMA AnexaIInv ==
    ASSUME IInv, UNCHANGED <<documentos, revisoes, execs, suja>>,
           NEW i, Item0(i), i.inv \in DatasDe(Documentos), itens' = Append(itens, i),
           ingestoes' \in [Grupos -> {"parada", "promovendo", "terminada", "livre",
                                      "coberta", "encoberta"}],
           \A g \in Grupos : ingestoes'[g] \in {"livre", "coberta", "encoberta"} =>
              ingestoes[g] \in {"livre", "coberta", "encoberta"},
           gasto' \in [Eventos -> Nat],
           gasto'["correcoes"] = 0 => gasto["correcoes"] = 0
    PROVE  IInv'
<1>1. /\ itens' \in Seq({itens'[j] : j \in 1..Len(itens')})
      /\ Len(itens) \in Nat /\ Len(itens') = Len(itens) + 1
      /\ \A j \in 1..Len(itens') : Item0(itens[j])'
      /\ itens'[Len(itens) + 1] = i
      /\ \A j \in 1..Len(itens) : itens'[j] = itens[j]
  BY ItensAnexa
<1>2. Len(itens') \in Nat /\ Len(itens) <= Len(itens')
  BY <1>1
<1>3. Tipos'
  <2>1. \A r \in revisoes' : Revisao(r)'
    BY <1>2, ExecsMantem DEF IInv, Tipos
  <2> QED BY <1>1, <1>2, <2>1, ExecsMantem DEF IInv, Tipos
<1>4. (\A e \in Ids : execs[e].status = "running" => Calculo(execs[e]))'
  BY <1>2, ExecsMantem
<1>5. ComDocumentos'
  BY DEF IInv, ComDocumentos, DatasDe, Ingeridos
<1>6. SemCorrecao'
  <2>1. DatasDe(Documentos)' = DatasDe(Documentos)
    BY DEF DatasDe, Ingeridos
  <2>2. ASSUME gasto["correcoes"] = 0, NEW j \in 1..Len(itens')
        PROVE  itens'[j].inv \in DatasDe(Documentos)
    <3>1. CASE j \in 1..Len(itens)
      BY <1>1, <2>2, <3>1 DEF IInv, SemCorrecao
    <3>2. CASE j = Len(itens) + 1
      BY <1>1, <3>2
    <3> QED BY <1>1, <3>1, <3>2
  <2> QED BY <2>1, <2>2
       DEF IInv, SemCorrecao, Ids, Inicial, Disjuntas, Contextuada, Vale
<1> QED BY <1>3, <1>4, <1>5, <1>6 DEF IInv

LEMMA CampanhaCriaIInv ==
    ASSUME IInv, NEW g \in Grupos, CampanhaCria(g)
    PROVE  IInv'
<1> DEFINE i == Item(Invalidada(g), IF ingestoes[g] = "livre" THEN "pending" ELSE "skipped",
                     ingestoes[g] = "coberta")
           D == {d \in Documentos : d.grupo = g}
<1>1. DatasDe(D) # {} /\ D \in SUBSET Documentos
  BY DEF IInv, ComDocumentos, CampanhaCria
<1>2. i.inv \in DatasDe(Documentos) /\ i.inv \in Datas
  <2>1. Tipos
    BY DEF IInv
  <2> HIDE DEF D
  <2>2. Menor(DatasDe(D)) \in DatasDe(Documentos) /\ Menor(DatasDe(D)) \in Datas
    BY <1>1, <2>1, DatasDeDatas
  <2> QED BY <2>2 DEF Item, Invalidada, D
<1>3. Item0(i)
  BY <1>2 DEF Item0, Item, Ativo
<1>4. /\ UNCHANGED <<documentos, revisoes, execs, suja>>
      /\ itens' = Append(itens, i)
      /\ Ingestao(g, "parada")
  BY DEF CampanhaCria
<1>5. /\ ingestoes' \in [Grupos -> {"parada", "promovendo", "terminada", "livre",
                                    "coberta", "encoberta"}]
      /\ \A h \in Grupos : ingestoes'[h] \in {"livre", "coberta", "encoberta"} =>
            ingestoes[h] \in {"livre", "coberta", "encoberta"}
  BY <1>4 DEF IInv, Tipos, Ingestao
<1>6. /\ gasto' \in [Eventos -> Nat]
      /\ gasto'["correcoes"] = 0 => gasto["correcoes"] = 0
  <2>1. gasto \in [Eventos -> Nat] /\ "dobras" \in Eventos
    BY DEF IInv, Tipos, Eventos
  <2>2. Usa("dobras", MaxDobras) \/ UNCHANGED gasto
    BY DEF CampanhaCria
  <2> QED BY <2>1, <2>2, UsaGasto
<1> HIDE DEF i
<1> QED BY <1>2, <1>3, <1>4, <1>5, <1>6, AnexaIInv

LEMMA ReparaIInv ==
    ASSUME IInv, NEW P \in SUBSET Periodos, Repara(P)
    PROVE  IInv'
<1> DEFINE D == {d \in Ingeridos : d.periodo \in P}
           i == Item(Menor(DatasDe(D)), "pending", FALSE)
<1>1. DatasDe(D) # {} /\ D \in SUBSET Documentos
  BY DEF Repara, DatasDe, Ingeridos
<1>2. i.inv \in DatasDe(Documentos) /\ i.inv \in Datas
  <2>1. Tipos
    BY DEF IInv
  <2> HIDE DEF D
  <2>2. Menor(DatasDe(D)) \in DatasDe(Documentos) /\ Menor(DatasDe(D)) \in Datas
    BY <1>1, <2>1, DatasDeDatas
  <2> QED BY <2>2 DEF Item
<1>3. Item0(i)
  BY <1>2 DEF Item0, Item, Ativo
<1>4. /\ UNCHANGED <<documentos, revisoes, execs, suja, ingestoes>>
      /\ itens' = Append(itens, i)
      /\ Usa("reparos", MaxReparos)
  BY DEF Repara
<1>5. gasto \in [Eventos -> Nat] /\ "reparos" \in Eventos
  BY DEF IInv, Tipos, Eventos
<1>6. /\ gasto' \in [Eventos -> Nat]
      /\ gasto'["correcoes"] = 0 => gasto["correcoes"] = 0
  BY <1>4, <1>5, UsaGasto
<1>7. ingestoes' \in [Grupos -> {"parada", "promovendo", "terminada", "livre",
                                 "coberta", "encoberta"}]
  BY <1>4 DEF IInv, Tipos
<1> HIDE DEF i
<1> QED BY <1>2, <1>3, <1>4, <1>6, <1>7, AnexaIInv

(* An execution is added, with a window of the dates of the documents.     *)
LEMMA NovaIInv ==
    ASSUME IInv, UNCHANGED <<documentos, revisoes, ingestoes, suja>>,
           NEW i \in 0..Len(itens), NEW desde \in {0} \cup Datas,
           execs' = Nova(i, desde),
           itens' \in Seq({itens'[j] : j \in 1..Len(itens')}),
           Len(itens) \in Nat, Len(itens') = Len(itens),
           \A j \in 1..Len(itens') : Item0(itens[j])',
           \A j \in 1..Len(itens') : itens'[j].inv = itens[j].inv,
           gasto' \in [Eventos -> Nat],
           gasto'["correcoes"] = 0 => gasto["correcoes"] = 0,
           gasto["correcoes"] = 0 /\ desde # 0 => desde \in DatasDe(Documentos)
    PROVE  IInv'
<1>1. PICK x : x = [item |-> i, status |-> "running", desde |-> desde,
                    datas |-> Janela(desde), novas |-> {}]
  OBVIOUS
<1>2. execs' = Append(execs, x)
  BY <1>1 DEF Nova
<1>3. x.datas \subseteq Datas /\ \A t \in x.datas : x.desde <= t
  <2>1. DatasDe(Documentos) \subseteq Datas
    BY DatasDeDatas DEF IInv
  <2>2. \A t \in Janela(desde) : t \in Datas /\ t >= desde
    BY <2>1 DEF Janela
  <2>3. desde \in Nat /\ Datas \subseteq Nat
    BY DatasOrdenadas
  <2> QED BY <1>1, <2>2, <2>3
<1>10. /\ x = [item |-> x.item, status |-> "running", desde |-> x.desde,
              datas |-> x.datas, novas |-> {}]
      /\ x.item \in 0..Len(itens) /\ x.desde \in {0} \cup Datas
      /\ Len(itens') \in Nat /\ Len(itens) <= Len(itens')
  BY <1>1
<1>4. /\ execs' \in Seq({execs'[f] : f \in Ids'})
      /\ Len(execs') = Len(execs) + 1
      /\ execs'[Len(execs) + 1] = x /\ \A f \in Ids : execs'[f] = execs[f]
      /\ Ids' = Ids \cup {Len(execs) + 1}
      /\ \A f \in Ids' : Execucao0(execs[f])'
      /\ \A f \in Ids' : execs'[f].status = "running" => Calculo(execs[f])'
      /\ \A R : (\A r \in R : Revisao(r)) => \A r \in R : Revisao(r)'
  BY <1>2, <1>3, <1>10, ExecsAnexa
<1>5. Tipos'
  <2>1. \A r \in revisoes' : Revisao(r)'
    BY <1>4 DEF IInv, Tipos
  <2> QED BY <1>4, <2>1 DEF IInv, Tipos
<1>6. ComDocumentos'
  BY DEF IInv, ComDocumentos, DatasDe, Ingeridos
<1>7. SemCorrecao'
  <2>1. DatasDe(Documentos)' = DatasDe(Documentos)
    BY DEF DatasDe, Ingeridos
  <2>2. \A j \in 1..Len(itens') : gasto["correcoes"] = 0 =>
          itens'[j].inv \in DatasDe(Documentos)
    BY DEF IInv, SemCorrecao
  <2>3. ASSUME gasto["correcoes"] = 0, NEW f \in Ids', execs'[f].status = "running"
        PROVE  Inicial(execs'[f])
    <3>1. CASE f \in Ids
      BY <1>4, <2>3, <3>1 DEF IInv, SemCorrecao
    <3>2. CASE f = Len(execs) + 1
      <4>1. desde # 0 => desde \in Janela(desde)
        BY <2>3, DatasOrdenadas DEF Janela
      <4> QED BY <1>1, <1>4, <3>2, <4>1 DEF Inicial
    <3> QED BY <1>4, <3>1, <3>2
  <2>4. gasto["correcoes"] = 0 => Disjuntas(revisoes') /\ Contextuada(revisoes')
    BY DEF IInv, SemCorrecao
  <2> QED BY <2>1, <2>2, <2>3, <2>4
       DEF SemCorrecao, Inicial, Disjuntas, Contextuada, Vale
<1> QED BY <1>4, <1>5, <1>6, <1>7 DEF IInv

LEMMA IniciaIInv ==
    ASSUME IInv, NEW i \in 1..Len(itens), Inicia(i)
    PROVE  IInv'
<1>1. PICK x : x = [itens[i] EXCEPT !.status = "running"]
  OBVIOUS
<1>2. Item0(itens[i]) /\ itens[i].inv \in Datas
  BY DEF IInv, Tipos, Item0
<1>3. Item0(x) /\ x.inv = itens[i].inv
  BY <1>1, <1>2 DEF Item0, Ativo
<1>4. itens' = [itens EXCEPT ![i] = x]
  BY <1>1 DEF Inicia
<1>5. /\ itens' \in Seq({itens'[j] : j \in 1..Len(itens')})
      /\ Len(itens) \in Nat /\ Len(itens') = Len(itens)
      /\ \A j \in 1..Len(itens') : Item0(itens[j])'
      /\ \A j \in 1..Len(itens') : itens'[j].inv = itens[j].inv
  BY <1>3, <1>4, ItensTroca
<1>6. i \in 0..Len(itens)
  BY <1>5
<1> DEFINE desde == Desde(itens[i].inv)
<1>7. /\ desde \in {0} \cup Datas
      /\ gasto["correcoes"] = 0 /\ desde # 0 => desde \in DatasDe(Documentos)
  BY <1>2 DEF Desde, IInv, SemCorrecao
<1>8. /\ execs' = Nova(i, desde)
      /\ UNCHANGED <<documentos, revisoes, ingestoes, suja, gasto>>
  BY DEF Inicia
<1>9. gasto' \in [Eventos -> Nat] /\ gasto'["correcoes"] = gasto["correcoes"]
  BY <1>8 DEF IInv, Tipos
<1> HIDE DEF desde
<1> QED BY <1>5, <1>6, <1>7, <1>8, <1>9, NovaIInv

LEMMA AvulsaIInv ==
    ASSUME IInv, Avulsa
    PROVE  IInv'
<1>1. /\ Usa("avulsas", MaxAvulsas) /\ execs' = Nova(0, 0)
      /\ UNCHANGED <<documentos, revisoes, itens, ingestoes, suja>>
  BY DEF Avulsa
<1>2. gasto \in [Eventos -> Nat] /\ "avulsas" \in Eventos
  BY DEF IInv, Tipos, Eventos
<1>3. /\ gasto' \in [Eventos -> Nat]
      /\ gasto'["correcoes"] = 0 => gasto["correcoes"] = 0
  BY <1>1, <1>2, UsaGasto
<1>4. /\ itens' \in Seq({itens'[j] : j \in 1..Len(itens')})
      /\ Len(itens) \in Nat /\ Len(itens') = Len(itens)
      /\ \A j \in 1..Len(itens') : Item0(itens[j])'
      /\ \A j \in 1..Len(itens') : itens'[j].inv = itens[j].inv
  BY <1>1, ItensMantem
<1>5. 0 \in 0..Len(itens) /\ 0 \in {0} \cup Datas
  BY <1>4
<1> QED BY <1>1, <1>3, <1>4, <1>5, NovaIInv

-----------------------------------------------------------------------------
(* The item of an execution that ends, or is given back.                   *)
LEMMA ConcluidoItens ==
    ASSUME IInv, NEW i \in 0..Len(itens), NEW s \in {"success", "failed"},
           NEW desde \in {0, Sempre} \cup Datas,
           itens' = Concluido(i, s, desde) \/ itens' = Devolvido(i)
    PROVE  /\ itens' \in Seq({itens'[j] : j \in 1..Len(itens')})
           /\ Len(itens) \in Nat /\ Len(itens') = Len(itens)
           /\ \A j \in 1..Len(itens') : Item0(itens[j])'
           /\ \A j \in 1..Len(itens') : itens'[j].inv = itens[j].inv
<1>1. Len(itens) \in Nat
  BY LenProperties DEF IInv, Tipos
<1>2. CASE i = 0
  BY <1>2, ItensMantem DEF Concluido, Devolvido
<1>3. CASE i # 0
  <2>1. i \in 1..Len(itens)
    BY <1>1, <1>3
  <2>2. PICK x : x \in {[itens[i] EXCEPT !.status = s, !.desde = desde],
                        [itens[i] EXCEPT !.status = "pending"]}
                 /\ itens' = [itens EXCEPT ![i] = x]
    BY <1>3 DEF Concluido, Devolvido
  <2>3. Item0(itens[i])
    BY <2>1 DEF IInv, Tipos
  <2>4. Item0(x) /\ x.inv = itens[i].inv
    BY <2>2, <2>3 DEF Item0, Ativo
  <2> QED BY <2>1, <2>2, <2>4, ItensTroca
<1> QED BY <1>2, <1>3

(* An execution goes on or ends, and with its end may rewrite the series.  *)
LEMMA TrocaIInv ==
    ASSUME IInv, UNCHANGED <<documentos, ingestoes, suja>>,
           NEW e \in Ids, NEW x, execs' = [execs EXCEPT ![e] = x],
           x = [item |-> x.item, status |-> x.status, desde |-> x.desde,
                datas |-> x.datas, novas |-> x.novas],
           x.item = execs[e].item, x.desde = execs[e].desde,
           x.status \in {"running", "success", "failed", "perdida"},
           x.datas \subseteq Datas,
           x.status = "running" => Calculo(x),
           itens' \in Seq({itens'[j] : j \in 1..Len(itens')}),
           Len(itens) \in Nat, Len(itens') = Len(itens),
           \A j \in 1..Len(itens') : Item0(itens[j])',
           \A j \in 1..Len(itens') : itens'[j].inv = itens[j].inv,
           \A r \in revisoes' : Revisao(r),
           gasto' \in [Eventos -> Nat],
           gasto'["correcoes"] = 0 => gasto["correcoes"] = 0,
           gasto["correcoes"] = 0 =>
              /\ x.status = "running" => Inicial(x)
              /\ Disjuntas(revisoes') /\ Contextuada(revisoes')
    PROVE  IInv'
<1>1. /\ execs' \in Seq({execs'[f] : f \in Ids'})
      /\ Ids' = Ids /\ Len(execs') = Len(execs)
      /\ execs'[e] = x /\ \A f \in Ids : f # e => execs'[f] = execs[f]
      /\ \A f \in Ids' : Execucao0(execs[f])'
      /\ \A f \in Ids' : execs'[f].status = "running" => Calculo(execs[f])'
      /\ \A R : (\A r \in R : Revisao(r)) => \A r \in R : Revisao(r)'
  <2>1. Len(itens') \in Nat /\ Len(itens) <= Len(itens')
    OBVIOUS
  <2> QED BY <2>1, ExecsTroca
<1>2. Tipos'
  <2>1. \A r \in revisoes' : Revisao(r)'
    BY <1>1
  <2> QED BY <1>1, <2>1 DEF IInv, Tipos
<1>3. ComDocumentos'
  BY DEF IInv, ComDocumentos, DatasDe, Ingeridos
<1>4. SemCorrecao'
  <2>1. DatasDe(Documentos)' = DatasDe(Documentos)
    BY DEF DatasDe, Ingeridos
  <2>2. \A j \in 1..Len(itens') : gasto["correcoes"] = 0 =>
          itens'[j].inv \in DatasDe(Documentos)
    BY DEF IInv, SemCorrecao
  <2>3. ASSUME gasto["correcoes"] = 0, NEW f \in Ids', execs'[f].status = "running"
        PROVE  Inicial(execs'[f])
    <3>1. CASE f = e
      BY <1>1, <2>3, <3>1
    <3>2. CASE f # e
      BY <1>1, <2>3, <3>2 DEF IInv, SemCorrecao
    <3> QED BY <3>1, <3>2
  <2> QED BY <2>1, <2>2, <2>3 DEF SemCorrecao, Inicial, Disjuntas, Contextuada, Vale
<1> QED BY <1>1, <1>2, <1>3, <1>4 DEF IInv

(* What the context of an execution begins with.                           *)
LEMMA AvancaInicial ==
    ASSUME NEW x, Calculo(x), Inicial(x), x.datas \subseteq Datas, x.desde \in Nat,
           NEW t \in x.datas, \A u \in x.datas : t <= u, NEW e,
           NEW y, y.desde = x.desde, y.datas = x.datas \ {t},
           y.novas = Avanca(x.novas, t, e)
    PROVE  Inicial(y)
<1>1. \A r \in x.novas : r = Campos(r) /\ r.de \in Nat /\ x.desde <= r.de /\ r.de < t
  BY DatasOrdenadas DEF Calculo, Revisao
<1>2. PICK A : A = y.novas /\ Avancado(x.novas, A, Instantaneo(t), t, e)
  BY <1>1, AvancaAvanca
<1>3. Contexto \in DOMAIN Instantaneo(t)
  BY InstantaneoDe
<1> SUFFICES ASSUME x.desde # 0, x.desde \notin y.datas
             PROVE  \E r \in A : r.de = x.desde
  BY <1>2 DEF Inicial
<1>4. CASE x.desde = t
  <2>1. x.novas = {}
    BY <1>1, <1>4
  <2> QED BY <1>2, <1>3, <1>4, <2>1 DEF Avancado
<1>5. CASE x.desde # t
  <2>1. PICK r \in x.novas : r.de = x.desde
    BY <1>5 DEF Inicial
  <2>2. CASE r \in A
    BY <2>1, <2>2
  <2>3. CASE [r EXCEPT !.ate = t] \in A
    BY <1>1, <2>1, <2>3, Cortada
  <2> QED BY <1>2, <2>2, <2>3 DEF Avancado
<1> QED BY <1>4, <1>5

LEMMA CalculaIInv ==
    ASSUME IInv, NEW e \in Ids, Calcula(e)
    PROVE  IInv'
<1> DEFINE t == Menor(execs[e].datas)
<1>1. /\ Execucao0(execs[e]) /\ Calculo(execs[e]) /\ execs[e].status = "running"
      /\ execs[e].datas \subseteq Datas /\ execs[e].desde \in Nat
  BY DatasOrdenadas DEF IInv, Tipos, Execucao0, Calcula
<1>2. t \in execs[e].datas /\ \A u \in execs[e].datas : t <= u
  BY <1>1, MenorPertence, DatasOrdenadas DEF Calcula
<1>3. PICK x : x = [execs[e] EXCEPT !.datas = @ \ {t}, !.novas = Avanca(@, t, e)]
               /\ execs' = [execs EXCEPT ![e] = x]
  BY DEF Calcula, Execucao
<1> HIDE DEF t
<1>4. /\ x = [item |-> x.item, status |-> x.status, desde |-> x.desde,
              datas |-> x.datas, novas |-> x.novas]
      /\ x.item = execs[e].item /\ x.desde = execs[e].desde
      /\ x.status = "running" /\ x.datas = execs[e].datas \ {t}
      /\ x.novas = Avanca(execs[e].novas, t, e)
  BY <1>1, <1>3 DEF Execucao0
<1>5. Calculo(x)
  BY <1>1, <1>2, <1>4, AvancaCalculo
<1>6. gasto["correcoes"] = 0 => Inicial(x)
  <2>1. gasto["correcoes"] = 0 => Inicial(execs[e])
    BY <1>1 DEF IInv, SemCorrecao
  <2> QED BY <1>1, <1>2, <1>4, <2>1, AvancaInicial
<1>7. UNCHANGED <<documentos, revisoes, itens, ingestoes, suja, gasto>>
  BY DEF Calcula
<1>8. /\ itens' \in Seq({itens'[j] : j \in 1..Len(itens')})
      /\ Len(itens) \in Nat /\ Len(itens') = Len(itens)
      /\ \A j \in 1..Len(itens') : Item0(itens[j])'
      /\ \A j \in 1..Len(itens') : itens'[j].inv = itens[j].inv
  BY <1>7, ItensMantem
<1>9. /\ \A r \in revisoes' : Revisao(r)
      /\ gasto' \in [Eventos -> Nat] /\ gasto' = gasto
      /\ gasto["correcoes"] = 0 => Disjuntas(revisoes') /\ Contextuada(revisoes')
  BY <1>7 DEF IInv, Tipos, SemCorrecao
<1>10. x.datas \subseteq Datas
  BY <1>1, <1>4
<1> QED BY <1>3, <1>4, <1>5, <1>6, <1>7, <1>8, <1>9, <1>10, TrocaIInv

(* What stays of the series before a date: rows of before, cut there.      *)
LEMMA PrefixoTem ==
    ASSUME NEW R, NEW inv, NEW s \in R, s.de < inv
    PROVE  [s EXCEPT !.ate = IF s.ate > inv THEN inv ELSE s.ate] \in Prefixo(R, inv)
BY DEF Prefixo

(* A row that stays of the series before a date.                           *)
LEMMA PrefixoDe ==
    ASSUME NEW R, \A r \in R : Revisao(r), NEW inv \in {0} \cup Datas
    PROVE  \A r \in Prefixo(R, inv) :
             \E s \in R :
                 /\ s.de < inv /\ r = Campos(r) /\ r.chave = s.chave /\ r.de = s.de
                 /\ r.exec = s.exec
                 /\ r.ate = IF s.ate > inv THEN inv ELSE s.ate
                 /\ r = [s EXCEPT !.ate = IF s.ate > inv THEN inv ELSE s.ate]
                 /\ inv \in Datas /\ r.de \in Nat /\ r.ate \in Nat
                 /\ r.ate <= inv /\ r.ate <= s.ate /\ r.de < r.ate
<1>1. inv \in Nat /\ Sempre \in Nat /\ \A u \in Datas : u \in Nat /\ u < Sempre
  BY DatasOrdenadas
<1>2. \A r \in R : /\ r = Campos(r) /\ r.chave \in Chaves /\ r.exec \in Ids
                   /\ r.de \in Datas /\ r.ate \in Datas \cup {Sempre}
                   /\ r.de \in Nat /\ r.ate \in Nat /\ r.de < r.ate
  BY <1>1 DEF Revisao
<1> SUFFICES ASSUME NEW r \in Prefixo(R, inv)
             PROVE  \E s \in R :
                 /\ s.de < inv /\ r = Campos(r) /\ r.chave = s.chave /\ r.de = s.de
                 /\ r.exec = s.exec
                 /\ r.ate = IF s.ate > inv THEN inv ELSE s.ate
                 /\ r = [s EXCEPT !.ate = IF s.ate > inv THEN inv ELSE s.ate]
                 /\ inv \in Datas /\ r.de \in Nat /\ r.ate \in Nat
                 /\ r.ate <= inv /\ r.ate <= s.ate /\ r.de < r.ate
  OBVIOUS
<1>3. PICK s \in R : /\ s.de < inv
                     /\ r = [s EXCEPT !.ate = IF s.ate > inv THEN inv ELSE s.ate]
  BY DEF Prefixo
<1>4. /\ r = Campos(r) /\ r.chave = s.chave /\ r.de = s.de /\ r.exec = s.exec
      /\ r.ate = IF s.ate > inv THEN inv ELSE s.ate
  BY <1>2, <1>3, Cortada
<1>5. s.de \in Nat /\ s.ate \in Nat /\ s.de < s.ate
  BY <1>2
<1>6. inv \in Datas
  BY <1>3, <1>5
<1>7. r.ate \in Nat /\ r.ate <= inv /\ r.ate <= s.ate /\ s.de < r.ate
  BY <1>1, <1>3, <1>4, <1>5
<1> QED BY <1>3, <1>4, <1>5, <1>6, <1>7

(* The last transaction puts what was computed behind what stays: rows     *)
(* stay well formed, do not overlap, and leave no date without a context.  *)
LEMMA GravaLinhas ==
    ASSUME NEW R, \A r \in R : Revisao(r), NEW inv \in {0} \cup Datas
    PROVE  \A r \in Prefixo(R, inv) : Revisao(r)
<1> SUFFICES ASSUME NEW r \in Prefixo(R, inv) PROVE Revisao(r)
  OBVIOUS
<1>1. PICK s \in R : /\ r = Campos(r) /\ r.chave = s.chave /\ r.de = s.de
                     /\ r.exec = s.exec
                     /\ r.ate = IF s.ate > inv THEN inv ELSE s.ate
                     /\ inv \in Datas /\ r.de < r.ate
  BY PrefixoDe
<1> QED BY <1>1 DEF Revisao

LEMMA GravaDisjuntas ==
    ASSUME NEW R, \A r \in R : Revisao(r), NEW inv \in {0} \cup Datas,
           NEW N, \A r \in N : Revisao(r) /\ inv <= r.de,
           Disjuntas(R), Disjuntas(N)
    PROVE  Disjuntas(Prefixo(R, inv) \cup N)
<1>1. inv \in Nat /\ Sempre \in Nat /\ \A u \in Datas : u \in Nat /\ u < Sempre
  BY DatasOrdenadas
<1>2. \A r \in R : /\ r = Campos(r) /\ r.chave \in Chaves /\ r.exec \in Ids
                   /\ r.de \in Datas /\ r.ate \in Datas \cup {Sempre}
                   /\ r.de \in Nat /\ r.ate \in Nat /\ r.de < r.ate
  BY <1>1 DEF Revisao
<1>3. \A r \in N : r.de \in Nat /\ r.ate \in Nat /\ inv <= r.de
  BY <1>1 DEF Revisao
<1> DEFINE Q == Prefixo(R, inv) \cup N
<1>4. \A r \in Prefixo(R, inv) :
        \E s \in R :
                 /\ s.de < inv /\ r = Campos(r) /\ r.chave = s.chave /\ r.de = s.de
                 /\ r.exec = s.exec
                 /\ r.ate = IF s.ate > inv THEN inv ELSE s.ate
                 /\ r = [s EXCEPT !.ate = IF s.ate > inv THEN inv ELSE s.ate]
                 /\ inv \in Datas /\ r.de \in Nat /\ r.ate \in Nat
                 /\ r.ate <= inv /\ r.ate <= s.ate /\ r.de < r.ate
  BY PrefixoDe
<1> SUFFICES ASSUME NEW r \in Q, NEW s \in Q, r.chave = s.chave, r # s
             PROVE  r.ate <= s.de \/ s.ate <= r.de
  BY DEF Disjuntas
<1>6. CASE r \in N /\ s \in N
  BY <1>6 DEF Disjuntas
<1>7. CASE r \in Prefixo(R, inv) /\ s \in N
  <2>1. r.ate <= inv /\ r.ate \in Nat
    BY <1>4, <1>7
  <2> QED BY <1>1, <1>3, <1>7, <2>1
<1>8. CASE s \in Prefixo(R, inv) /\ r \in N
  <2>1. s.ate <= inv /\ s.ate \in Nat
    BY <1>4, <1>8
  <2> QED BY <1>1, <1>3, <1>8, <2>1
<1>9. CASE r \in Prefixo(R, inv) /\ s \in Prefixo(R, inv)
  <2>1. PICK p \in R :
             /\ r.chave = p.chave /\ r.de = p.de /\ r.ate <= p.ate
             /\ r = [p EXCEPT !.ate = IF p.ate > inv THEN inv ELSE p.ate]
             /\ r.de \in Nat /\ r.ate \in Nat
    BY <1>4, <1>9
  <2>2. PICK q \in R :
             /\ s.chave = q.chave /\ s.de = q.de /\ s.ate <= q.ate
             /\ s = [q EXCEPT !.ate = IF q.ate > inv THEN inv ELSE q.ate]
             /\ s.de \in Nat /\ s.ate \in Nat
    BY <1>4, <1>9
  <2>3. p # q
    BY <2>1, <2>2
  <2>4. p.ate <= q.de \/ q.ate <= p.de
    BY <2>1, <2>2, <2>3 DEF Disjuntas
  <2>5. p.ate \in Nat /\ q.ate \in Nat
    BY <1>2
  <2> QED BY <2>1, <2>2, <2>4, <2>5
<1> QED BY <1>6, <1>7, <1>8, <1>9

LEMMA GravaContextuada ==
    ASSUME NEW R, \A r \in R : Revisao(r), NEW inv \in {0} \cup Datas,
           NEW N, \A r \in N : Revisao(r) /\ inv <= r.de,
           Contextuada(R), Contextuada(N), inv # 0 => \E r \in N : r.de = inv
    PROVE  Contextuada(Prefixo(R, inv) \cup N)
<1>1. inv \in Nat /\ Sempre \in Nat /\ \A u \in Datas : u \in Nat /\ u < Sempre
  BY DatasOrdenadas
<1>2. \A r \in R : /\ r = Campos(r) /\ r.chave \in Chaves /\ r.exec \in Ids
                   /\ r.de \in Datas /\ r.ate \in Datas \cup {Sempre}
                   /\ r.de \in Nat /\ r.ate \in Nat /\ r.de < r.ate
  BY <1>1 DEF Revisao
<1>3. \A r \in N : r.de \in Nat /\ r.ate \in Nat /\ inv <= r.de
  BY <1>1 DEF Revisao
<1> DEFINE Q == Prefixo(R, inv) \cup N
<1>4. \A r \in Prefixo(R, inv) :
        \E s \in R :
                 /\ s.de < inv /\ r = Campos(r) /\ r.chave = s.chave /\ r.de = s.de
                 /\ r.exec = s.exec
                 /\ r.ate = IF s.ate > inv THEN inv ELSE s.ate
                 /\ r = [s EXCEPT !.ate = IF s.ate > inv THEN inv ELSE s.ate]
                 /\ inv \in Datas /\ r.de \in Nat /\ r.ate \in Nat
                 /\ r.ate <= inv /\ r.ate <= s.ate /\ r.de < r.ate
  BY PrefixoDe
<1> SUFFICES ASSUME NEW r \in Q, NEW t \in Datas, r.de <= t
             PROVE  \E c \in Q : c.chave = Contexto /\ Vale(c, t)
  BY DEF Contextuada
<1>5. t \in Nat
  BY <1>1
<1>6. CASE r \in N
  BY <1>6 DEF Contextuada
<1>7. CASE r \in Prefixo(R, inv) /\ inv <= t
  <2>1. inv \in Datas
    BY <1>4, <1>7
  <2>2. PICK n \in N : n.de = inv
    BY <2>1, DatasOrdenadas
  <2> QED BY <1>7, <2>2 DEF Contextuada
<1>8. CASE r \in Prefixo(R, inv) /\ t < inv
  <2>1. PICK s \in R : r.de = s.de
    BY <1>4, <1>8
  <2>2. PICK c \in R : c.chave = Contexto /\ Vale(c, t)
    BY <2>1 DEF Contextuada
  <2>3. c = Campos(c) /\ c.de \in Nat /\ c.ate \in Nat /\ c.de <= t /\ t < c.ate
    BY <1>2, <2>2 DEF Vale
  <2>4. c.de < inv
    BY <1>1, <1>5, <1>8, <2>3
  <2>5. PICK f : f = [c EXCEPT !.ate = IF c.ate > inv THEN inv ELSE c.ate]
    OBVIOUS
  <2>6. f.chave = Contexto /\ f.de = c.de /\ f.ate = IF c.ate > inv THEN inv ELSE c.ate
    BY <2>2, <2>3, <2>5, Cortada
  <2>7. f \in Q
    BY <2>4, <2>5, PrefixoTem
  <2>8. Vale(f, t)
    BY <1>1, <1>5, <1>8, <2>3, <2>6 DEF Vale
  <2> QED BY <2>6, <2>7, <2>8
<1> QED BY <1>1, <1>5, <1>6, <1>7, <1>8

LEMMA GravaIInv ==
    ASSUME IInv, NEW e \in Ids, Grava(e)
    PROVE  IInv'
<1>1. /\ Execucao0(execs[e]) /\ Calculo(execs[e]) /\ execs[e].status = "running"
      /\ execs[e].item \in 0..Len(itens) /\ execs[e].desde \in {0} \cup Datas
      /\ execs[e].datas = {}
  BY DEF IInv, Tipos, Execucao0, Grava
<1>2. PICK x : x = Fim(e, "success") /\ execs' = [execs EXCEPT ![e] = x]
  BY DEF Grava, Execucao
<1>3. /\ x = [item |-> x.item, status |-> x.status, desde |-> x.desde,
              datas |-> x.datas, novas |-> x.novas]
      /\ x.item = execs[e].item /\ x.desde = execs[e].desde
      /\ x.status = "success" /\ x.datas \subseteq Datas
  BY <1>2 DEF Fim
<1>4. /\ UNCHANGED <<documentos, ingestoes, suja, gasto>>
      /\ revisoes' = Prefixo(revisoes, execs[e].desde) \cup execs[e].novas
      /\ itens' = Concluido(execs[e].item, "success", execs[e].desde)
  BY DEF Grava
<1>5. /\ itens' \in Seq({itens'[j] : j \in 1..Len(itens')})
      /\ Len(itens) \in Nat /\ Len(itens') = Len(itens)
      /\ \A j \in 1..Len(itens') : Item0(itens[j])'
      /\ \A j \in 1..Len(itens') : itens'[j].inv = itens[j].inv
  BY <1>1, <1>4, ConcluidoItens
<1>6. /\ \A r \in revisoes : Revisao(r)
      /\ \A r \in execs[e].novas : Revisao(r) /\ execs[e].desde <= r.de
      /\ Disjuntas(execs[e].novas) /\ Contextuada(execs[e].novas)
  BY <1>1 DEF IInv, Tipos, Calculo
<1>7. gasto["correcoes"] = 0 =>
        /\ Disjuntas(revisoes) /\ Contextuada(revisoes)
        /\ execs[e].desde # 0 => \E r \in execs[e].novas : r.de = execs[e].desde
  BY <1>1 DEF IInv, SemCorrecao, Inicial
<1>8. /\ \A r \in revisoes' : Revisao(r)
      /\ gasto["correcoes"] = 0 => Disjuntas(revisoes') /\ Contextuada(revisoes')
  BY <1>1, <1>4, <1>6, <1>7, GravaLinhas, GravaDisjuntas, GravaContextuada
<1>9. gasto' \in [Eventos -> Nat] /\ gasto' = gasto
  BY <1>4 DEF IInv, Tipos
<1> QED BY <1>2, <1>3, <1>4, <1>5, <1>8, <1>9, TrocaIInv

(* An execution fails, its worker is lost, or its item is given back.      *)
LEMMA FalhaQuedaIInv ==
    ASSUME IInv, NEW e \in Ids, Falha(e) \/ Queda(e)
    PROVE  IInv'
<1>1. /\ Execucao0(execs[e]) /\ execs[e].item \in 0..Len(itens)
  BY DEF IInv, Tipos, Execucao0
<1>2. PICK x : /\ x \in {Fim(e, "failed"), Fim(e, "perdida")}
               /\ execs' = [execs EXCEPT ![e] = x]
  BY DEF Falha, Queda, Execucao
<1>3. /\ x = [item |-> x.item, status |-> x.status, desde |-> x.desde,
              datas |-> x.datas, novas |-> x.novas]
      /\ x.item = execs[e].item /\ x.desde = execs[e].desde
      /\ x.status \in {"failed", "perdida"} /\ x.datas \subseteq Datas
  BY <1>2 DEF Fim
<1>4. /\ UNCHANGED <<documentos, revisoes, ingestoes, suja>>
      /\ \/ itens' = Concluido(execs[e].item, "failed", Sempre)
         \/ itens' = Devolvido(execs[e].item)
  BY DEF Falha, Queda
<1>5. /\ itens' \in Seq({itens'[j] : j \in 1..Len(itens')})
      /\ Len(itens) \in Nat /\ Len(itens') = Len(itens)
      /\ \A j \in 1..Len(itens') : Item0(itens[j])'
      /\ \A j \in 1..Len(itens') : itens'[j].inv = itens[j].inv
  BY <1>1, <1>4, ConcluidoItens
<1>6. /\ gasto' \in [Eventos -> Nat]
      /\ gasto'["correcoes"] = 0 => gasto["correcoes"] = 0
  <2>1. gasto \in [Eventos -> Nat] /\ "falhas" \in Eventos /\ "quedas" \in Eventos
    BY DEF IInv, Tipos, Eventos
  <2> QED BY <2>1, UsaGasto DEF Falha, Queda
<1>7. /\ \A r \in revisoes' : Revisao(r)
      /\ gasto["correcoes"] = 0 => Disjuntas(revisoes') /\ Contextuada(revisoes')
  BY <1>4 DEF IInv, Tipos, SemCorrecao
<1> QED BY <1>2, <1>3, <1>4, <1>5, <1>6, <1>7, TrocaIInv

LEMMA AtrasaIInv ==
    ASSUME IInv, NEW e \in Ids, Atrasa(e)
    PROVE  IInv'
<1>1. /\ UNCHANGED <<documentos, revisoes, execs, ingestoes, suja>>
      /\ itens' = Devolvido(execs[e].item)
      /\ execs[e].item \in 0..Len(itens)
  BY DEF Atrasa, IInv, Tipos, Execucao0
<1>2. /\ itens' \in Seq({itens'[j] : j \in 1..Len(itens')})
      /\ Len(itens) \in Nat /\ Len(itens') = Len(itens)
      /\ \A j \in 1..Len(itens') : Item0(itens[j])'
      /\ \A j \in 1..Len(itens') : itens'[j].inv = itens[j].inv
  BY <1>1, ConcluidoItens
<1>3. /\ gasto' \in [Eventos -> Nat]
      /\ gasto'["correcoes"] = 0 => gasto["correcoes"] = 0
  <2>1. gasto \in [Eventos -> Nat] /\ "atrasos" \in Eventos
    BY DEF IInv, Tipos, Eventos
  <2> QED BY <2>1, UsaGasto DEF Atrasa
<1>4. Len(itens') \in Nat /\ Len(itens) <= Len(itens')
  BY <1>2
<1>5. Tipos'
  <2>1. \A r \in revisoes' : Revisao(r)'
    BY <1>1, <1>4, ExecsMantem DEF IInv, Tipos
  <2> QED BY <1>1, <1>2, <1>3, <1>4, <2>1, ExecsMantem DEF IInv, Tipos
<1>6. (\A f \in Ids : execs[f].status = "running" => Calculo(execs[f]))'
  BY <1>1, <1>4, ExecsMantem
<1>7. ComDocumentos'
  BY <1>1 DEF IInv, ComDocumentos, DatasDe, Ingeridos
<1>8. SemCorrecao'
  <2>1. DatasDe(Documentos)' = DatasDe(Documentos)
    BY <1>1 DEF DatasDe, Ingeridos
  <2>2. \A j \in 1..Len(itens') : gasto["correcoes"] = 0 =>
          itens'[j].inv \in DatasDe(Documentos)
    BY <1>2 DEF IInv, SemCorrecao
  <2> QED BY <1>1, <1>3, <2>1, <2>2
       DEF IInv, SemCorrecao, Ids, Inicial, Disjuntas, Contextuada, Vale
<1> QED BY <1>5, <1>6, <1>7, <1>8 DEF IInv

-----------------------------------------------------------------------------
LEMMA InicioIInv == Init => IInv
<1> SUFFICES ASSUME Init PROVE IInv
  OBVIOUS
<1>1. Len(itens) = 0 /\ Len(execs) = 0 /\ Ids = {} /\ 1..Len(itens) = {}
  BY DEF Init, Ids
<1>2. Tipos
  <2>1. itens \in Seq({itens[i] : i \in 1..Len(itens)})
        /\ execs \in Seq({execs[e] : e \in Ids})
    BY DEF Init
  <2> QED BY <1>1, <2>1 DEF Init, Tipos
<1>3. ComDocumentos /\ SemCorrecao
  BY <1>1 DEF Init, ComDocumentos, SemCorrecao, Disjuntas, Contextuada
<1> QED BY <1>1, <1>2, <1>3 DEF IInv

LEMMA PassoIInv == IInv /\ [Next]_vars => IInv'
<1> SUFFICES ASSUME IInv, [Next]_vars PROVE IInv'
  OBVIOUS
<1>1. CASE UNCHANGED vars
  <2>1. Len(itens') \in Nat /\ Len(itens) <= Len(itens')
    BY <1>1, LenProperties DEF vars, IInv, Tipos
  <2>2. Tipos'
    <3>1. \A r \in revisoes' : Revisao(r)'
      BY <1>1, <2>1, ExecsMantem DEF vars, IInv, Tipos
    <3> QED BY <1>1, <2>1, <3>1, ExecsMantem, ItensMantem DEF vars, IInv, Tipos
  <2>3. (\A f \in Ids : execs[f].status = "running" => Calculo(execs[f]))'
    BY <1>1, <2>1, ExecsMantem DEF vars
  <2>4. ComDocumentos'
    BY <1>1 DEF vars, IInv, ComDocumentos, DatasDe, Ingeridos
  <2>5. SemCorrecao'
    BY <1>1 DEF vars, IInv, SemCorrecao, DatasDe, Ingeridos, Ids, Inicial,
       Disjuntas, Contextuada, Vale
  <2> QED BY <2>2, <2>3, <2>4, <2>5 DEF IInv
<1>2. CASE Next
  BY <1>2, IngestaoIInv, CampanhaLeIInv, CampanhaCriaIInv, PromoveIInv, ReparaIInv,
     IniciaIInv, AvulsaIInv, CalculaIInv, GravaIInv, FalhaQuedaIInv, AtrasaIInv
     DEF Next
<1> QED BY <1>1, <1>2

(* The invariant of the series: types, what running executions hold, and   *)
(* that revisions are disjoint and leave no date without a context.        *)
THEOREM Indutivo == Spec => []IInv
BY InicioIInv, PassoIInv, PTL DEF Spec

(* Revisions, items and executions are what they should be; a revision is  *)
(* known for at least a day.                                               *)
THEOREM TipoCorretoRevisoes == Spec => []TipoRevisoes
<1>1. IInv => TipoRevisoes
  <2> SUFFICES ASSUME IInv PROVE TipoRevisoes
    OBVIOUS
  <2>1. \A d \in Ingeridos : /\ documentos[d].data \in Datas
                             /\ documentos[d].valor \in Valores \cup {Nada}
    BY DEF IInv, Tipos, Ingeridos
  <2> QED BY <2>1 DEF TipoRevisoes, IInv, Tipos, Revisao, Item0, Execucao0
<1> QED BY <1>1, Indutivo, PTL

-----------------------------------------------------------------------------
(* A set whose elements are all the same has one or none.                  *)
LEMMA UmSo ==
    ASSUME NEW X, \A r, s \in X : r = s
    PROVE  Cardinality(X) = IF X = {} THEN 0 ELSE 1
<1>1. CASE X = {}
  BY <1>1, FS_EmptySet
<1>2. CASE X # {}
  <2>1. PICK r : X = {r}
    BY <1>2
  <2> QED BY <1>2, <2>1, FS_Singleton
<1> QED BY <1>1, <1>2

(* Unless dates of receipt are corrected, every date from the first one on *)
(* has one context and at most one revision of each period, however many   *)
(* executions ran side by side, failed or were lost: the rows each writes  *)
(* are disjoint and begin with a context, and those it finds are cut where *)
(* its own begin.                                                          *)
THEOREM SerieParticionada == Spec => []Particao
<1>1. IInv => Particao
  <2> SUFFICES ASSUME IInv, gasto["correcoes"] = 0, NEW t \in Datas
               PROVE  /\ \A c \in Periodos :
                           Cardinality({r \in revisoes : r.chave = c /\ Vale(r, t)}) <= 1
                      /\ Cardinality({r \in revisoes : r.chave = Contexto /\ Vale(r, t)}) =
                           IF \E r \in revisoes : r.de <= t THEN 1 ELSE 0
    BY DEF Particao
  <2>1. Disjuntas(revisoes) /\ Contextuada(revisoes)
    BY DEF IInv, SemCorrecao
  <2>2. /\ t \in Nat
        /\ \A r \in revisoes : r.de \in Nat /\ r.ate \in Nat
    BY DatasOrdenadas DEF IInv, Tipos, Revisao
  <2>3. ASSUME NEW c
        PROVE  Cardinality({r \in revisoes : r.chave = c /\ Vale(r, t)}) =
                 IF {r \in revisoes : r.chave = c /\ Vale(r, t)} = {} THEN 0 ELSE 1
    <3>1. \A r, s \in {r \in revisoes : r.chave = c /\ Vale(r, t)} : r = s
      BY <2>1, <2>2 DEF Disjuntas, Vale
    <3> QED BY <3>1, UmSo
  <2>4. \A c \in Periodos :
          Cardinality({r \in revisoes : r.chave = c /\ Vale(r, t)}) <= 1
    <3> TAKE c \in Periodos
    <3>1. PICK n : n = Cardinality({r \in revisoes : r.chave = c /\ Vale(r, t)})
      OBVIOUS
    <3>2. n = 0 \/ n = 1
      BY <2>3, <3>1
    <3>3. n <= 1
      BY <3>2
    <3> QED BY <3>1, <3>3
  <2>5. (\E r \in revisoes : r.de <= t) <=>
          {r \in revisoes : r.chave = Contexto /\ Vale(r, t)} # {}
    BY <2>1 DEF Contextuada, Vale
  <2>6. Cardinality({r \in revisoes : r.chave = Contexto /\ Vale(r, t)}) =
          IF \E r \in revisoes : r.de <= t THEN 1 ELSE 0
    BY <2>3, <2>5
  <2> QED BY <2>4, <2>6
<1> QED BY <1>1, Indutivo, PTL

-----------------------------------------------------------------------------
(* The answer for a date depends on the rows known at it only.             *)
LEMMA RespostaDe ==
    ASSUME NEW R, NEW Q, NEW t,
           \A r \in R : Vale(r, t) =>
              \E q \in Q : /\ Vale(q, t) /\ q.chave = r.chave /\ q.de = r.de
                           /\ q.valor = r.valor,
           \A q \in Q : Vale(q, t) =>
              \E r \in R : /\ Vale(r, t) /\ q.chave = r.chave /\ q.de = r.de
                           /\ q.valor = r.valor
    PROVE  Resposta(R, t) \subseteq Resposta(Q, t)
<1> SUFFICES ASSUME NEW r \in Lidas(R, t)
             PROVE  <<r.chave, r.valor>> \in Resposta(Q, t)
  BY DEF Resposta
<1>1. r \in R /\ Vale(r, t)
  BY DEF Lidas
<1>2. PICK q \in Q : /\ Vale(q, t) /\ q.chave = r.chave /\ q.de = r.de
                     /\ q.valor = r.valor
  BY <1>1
<1>3. q \in Lidas(Q, t)
  <2>1. CASE r.chave # Contexto
    BY <1>2, <2>1 DEF Lidas
  <2>2. CASE r.chave = Contexto
    <3>1. \A s \in R : s.chave = Contexto /\ Vale(s, t) => s.de <= r.de
      BY <2>2 DEF Lidas
    <3>2. \A s \in Q : s.chave = Contexto /\ Vale(s, t) => s.de <= q.de
      BY <1>2, <3>1
    <3> QED BY <1>2, <2>2, <3>2 DEF Lidas
  <2> QED BY <2>1, <2>2
<1> QED BY <1>2, <1>3 DEF Resposta

(* What stays of the series answers for the dates before as it did.        *)
Gravada(R, inv, N, Q) ==
    /\ \A r \in R : Revisao(r)
    /\ inv \in {0} \cup Datas
    /\ \A r \in N : Revisao(r) /\ inv <= r.de
    /\ Q = Prefixo(R, inv) \cup N

LEMMA GravaResposta ==
    ASSUME NEW R, NEW inv, NEW N, NEW Q, Gravada(R, inv, N, Q),
           NEW t \in Datas, t < inv
    PROVE  Resposta(Q, t) = Resposta(R, t)
<1>0. /\ \A r \in R : Revisao(r)
      /\ inv \in {0} \cup Datas
      /\ \A r \in N : Revisao(r) /\ inv <= r.de
      /\ \A q : q \in Q <=> q \in Prefixo(R, inv) \/ q \in N
  BY DEF Gravada
<1>1. inv \in Nat /\ t \in Nat /\ Sempre \in Nat /\ \A u \in Datas : u \in Nat
  BY <1>0, DatasOrdenadas
<1>2. \A r \in R \cup N : r = Campos(r) /\ r.de \in Nat /\ r.ate \in Nat
  BY <1>0, <1>1 DEF Revisao
<1>3. ASSUME NEW q \in Q, Vale(q, t)
      PROVE  \E r \in R : /\ Vale(r, t) /\ q.chave = r.chave /\ q.de = r.de
                          /\ q.valor = r.valor
  <2>1. q \notin N
    BY <1>0, <1>1, <1>2, <1>3 DEF Vale
  <2>2. PICK r \in R : q = [r EXCEPT !.ate = IF r.ate > inv THEN inv ELSE r.ate]
    BY <1>0, <2>1 DEF Prefixo
  <2>3. /\ q.chave = r.chave /\ q.de = r.de /\ q.valor = r.valor
        /\ q.ate = IF r.ate > inv THEN inv ELSE r.ate
    BY <1>2, <2>2, Cortada
  <2>4. Vale(r, t)
    BY <1>1, <1>2, <1>3, <2>3 DEF Vale
  <2> QED BY <2>3, <2>4
<1>4. ASSUME NEW r \in R, Vale(r, t)
      PROVE  \E q \in Q : /\ Vale(q, t) /\ q.chave = r.chave /\ q.de = r.de
                          /\ q.valor = r.valor
  <2>1. PICK q : q = [r EXCEPT !.ate = IF r.ate > inv THEN inv ELSE r.ate]
    OBVIOUS
  <2>2. /\ q.chave = r.chave /\ q.de = r.de /\ q.valor = r.valor
        /\ q.ate = IF r.ate > inv THEN inv ELSE r.ate
    BY <1>2, <2>1, Cortada
  <2>3. r.de < inv /\ Vale(q, t)
    BY <1>1, <1>2, <1>4, <2>2 DEF Vale
  <2>4. q \in Q
    BY <1>0, <2>1, <2>3, PrefixoTem
  <2> QED BY <2>2, <2>3, <2>4
<1>5. Resposta(R, t) \subseteq Resposta(Q, t)
  BY <1>3, <1>4, RespostaDe
<1>6. Resposta(Q, t) \subseteq Resposta(R, t)
  <2>1. /\ \A q \in Q : Vale(q, t) =>
              \E r \in R : /\ Vale(r, t) /\ r.chave = q.chave /\ r.de = q.de
                           /\ r.valor = q.valor
        /\ \A r \in R : Vale(r, t) =>
              \E q \in Q : /\ Vale(q, t) /\ r.chave = q.chave /\ r.de = q.de
                           /\ r.valor = q.valor
    BY <1>3, <1>4
  <2> QED BY <2>1, RespostaDe
<1> QED BY <1>5, <1>6

(* Only the last transaction makes an execution a success.                 *)
LEMMA SoGravaConclui ==
    ASSUME IInv, [Next]_vars, NEW e \in Ids,
           execs[e].status = "running", execs'[e].status = "success"
    PROVE  Grava(e)
<1>1. execs \in Seq({execs[f] : f \in Ids})
  BY DEF IInv, Tipos
<1>2. execs' # execs
  OBVIOUS
<1>3. ASSUME NEW x, execs' = Append(execs, x)
      PROVE  FALSE
  BY <1>1, <1>3, Acrescenta DEF Ids
<1>4. ASSUME NEW f \in Ids, NEW x, execs' = [execs EXCEPT ![f] = x]
      PROVE  f = e /\ x.status = "success"
  <2>1. DOMAIN execs = Ids
    BY <1>1, LenProperties DEF Ids
  <2> QED BY <1>4, <2>1
<1>5. PICK f \in Ids : Calcula(f) \/ Grava(f) \/ Falha(f) \/ Queda(f)
  BY <1>2, <1>3 DEF Next, vars, IngestaoComeca, IngestaoFalha, IngestaoTermina,
     CampanhaLe, CampanhaCria, Promove, Repara, Inicia, Avulsa, Nova, Atrasa
<1>6. CASE Grava(f)
  BY <1>4, <1>6 DEF Grava, Execucao
<1>7. CASE Falha(f) \/ Queda(f)
  BY <1>4, <1>7 DEF Falha, Queda, Execucao, Fim
<1>8. CASE Calcula(f)
  <2>1. PICK x : x = [execs[f] EXCEPT !.datas = @ \ {Menor(execs[f].datas)},
                                !.novas = Avanca(@, Menor(execs[f].datas), f)]
                 /\ execs' = [execs EXCEPT ![f] = x]
    BY <1>8 DEF Calcula, Execucao
  <2>2. Execucao0(execs[f]) /\ execs[f].status = "running"
    BY <1>8 DEF IInv, Tipos, Calcula
  <2>3. x.status = "running"
    BY <2>1, <2>2 DEF Execucao0
  <2> QED BY <1>4, <2>1, <2>3
<1> QED BY <1>5, <1>6, <1>7, <1>8

(* An incremental execution answers for the dates before its first one     *)
(* what was answered before, whatever was stored meanwhile.                *)
THEOREM PassadoPreservado == Spec => PrefixoPreservado
<1>1. ASSUME IInv, [Next]_vars
      PROVE  [\A e \in Ids :
                execs[e].status = "running" /\ execs'[e].status = "success" =>
                  \A t \in Datas : t < execs[e].desde =>
                     Resposta(revisoes', t) = Resposta(revisoes, t)]_vars
  <2> SUFFICES ASSUME NEW e \in Ids, execs[e].status = "running",
                      execs'[e].status = "success",
                      NEW t \in Datas, t < execs[e].desde
               PROVE  Resposta(revisoes', t) = Resposta(revisoes, t)
    OBVIOUS
  <2>1. Grava(e)
    BY <1>1, SoGravaConclui
  <2>2. /\ \A r \in revisoes : Revisao(r)
        /\ execs[e].desde \in {0} \cup Datas
        /\ \A r \in execs[e].novas : Revisao(r) /\ execs[e].desde <= r.de
    BY <1>1 DEF IInv, Tipos, Execucao0, Calculo
  <2>3. revisoes' = Prefixo(revisoes, execs[e].desde) \cup execs[e].novas
    BY <2>1 DEF Grava
  <2>4. Gravada(revisoes, execs[e].desde, execs[e].novas, revisoes')
    BY <2>2, <2>3 DEF Gravada
  <2> QED BY <2>4, GravaResposta
<1> QED BY <1>1, Indutivo, PTL DEF Spec, PrefixoPreservado
=============================================================================
