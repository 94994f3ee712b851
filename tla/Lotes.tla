-------------------------------- MODULE Lotes --------------------------------
(***************************************************************************)
(* What the materialization queue promises of its items, whatever workers, *)
(* messages and leases do: an item is offered or skipped once; it is       *)
(* worked at in one open batch at a time; it ends, or returns to be taken  *)
(* again; a batch opens once, closes once, and closes empty.               *)
(* Materializacao implements it (EmLotes).                                 *)
(***************************************************************************)
CONSTANTS Tarefas, Grupos, Ninguem

VARIABLES
    tarefa,  \* the status of an item
    posse,   \* the batch it is worked at in
    grupo    \* whether a batch is still to come, open or closed

varsLotes == <<tarefa, posse, grupo>>

-----------------------------------------------------------------------------
Livres     == {"pending", "success", "failed"}
Assumidas  == Livres \cup {"running"}
NoGrupo(g) == {t \in Tarefas : posse[t] = g}

InitLotes ==
    /\ tarefa = [t \in Tarefas |-> "nenhum"]
    /\ posse = [t \in Tarefas |-> Ninguem]
    /\ grupo = [g \in Grupos |-> "nova"]

(* Items of a new campaign: those that an open campaign covers are skipped.*)
Oferece(S, puladas) ==
    /\ \A t \in S : tarefa[t] = "nenhum"
    /\ tarefa' = [t \in Tarefas |-> IF t \notin S THEN tarefa[t]
                                    ELSE IF t \in puladas THEN "skipped"
                                    ELSE "pending"]
    /\ UNCHANGED <<posse, grupo>>

(* Pending items are taken, each in one of the new batches G.              *)
Toma(S, G) ==
    /\ \A t \in S : tarefa[t] = "pending"
    /\ \A g \in G : grupo[g] = "nova"
    /\ tarefa' = [t \in Tarefas |-> IF t \in S THEN "running" ELSE tarefa[t]]
    /\ posse' \in [Tarefas -> Grupos \cup {Ninguem}]
    /\ \A t \in Tarefas : IF t \in S THEN posse'[t] \in G
                                     ELSE posse'[t] = posse[t]
    /\ grupo' = [g \in Grupos |-> IF g \in G THEN "aberto" ELSE grupo[g]]

(* The items S come out of their batches, with the status s: returned, or  *)
(* ended.  Also one that had ended before may: work can be done twice, but *)
(* never at an item that was skipped.                                      *)
Solta(S, s) ==
    /\ s \in Livres
    /\ \A t \in S : tarefa[t] \in Assumidas
    /\ tarefa' = [t \in Tarefas |-> IF t \in S THEN s ELSE tarefa[t]]
    /\ posse' = [t \in Tarefas |-> IF t \in S THEN Ninguem ELSE posse[t]]
    /\ UNCHANGED grupo

(* An open batch closes when none of its items is being worked at.         *)
Fecha(g) ==
    /\ grupo[g] = "aberto"
    /\ NoGrupo(g) = {}
    /\ grupo' = [grupo EXCEPT ![g] = "fechado"]
    /\ UNCHANGED <<tarefa, posse>>

NextLotes ==
    \/ \E S, puladas \in SUBSET Tarefas : Oferece(S, puladas)
    \/ \E S \in SUBSET Tarefas, G \in SUBSET Grupos : Toma(S, G)
    \/ \E S \in SUBSET Tarefas, s \in Livres : Solta(S, s)
    \/ \E g \in Grupos : Fecha(g)

SpecLotes == InitLotes /\ [][NextLotes]_varsLotes
=============================================================================
