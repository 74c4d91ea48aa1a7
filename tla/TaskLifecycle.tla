---------------------------- MODULE TaskLifecycle ----------------------------
(***************************************************************************)
(* What a task store promises, with no queue and no versions: a task moves *)
(* between states until it reaches a terminal one, keeps that one, and is  *)
(* forgotten only when it is among the finished tasks that finished        *)
(* longest ago and more than Limit of them would be held otherwise.        *)
(*                                                                         *)
(* status[id] is the task's state or "None"; since[id] is the moment it    *)
(* finished (0 while it has not, or is not held).                          *)
(***************************************************************************)
EXTENDS TaskStates, Integers, FiniteSets

CONSTANTS TaskIds, States, Limit, NoLimit

VARIABLES status, since, now

vars == <<status, since, now>>

Init ==
  /\ status = [i \in TaskIds |-> "None"]
  /\ since  = [i \in TaskIds |-> 0]
  /\ now    = 1

FinishedTasks(st) == {i \in TaskIds : IsTerminal(st[i])}

(* P is what must be forgotten when st and at describe the tasks held: the *)
(* ones that finished before every finished task that stays, and no more   *)
(* of them than brings the rest down to the limit.                         *)
IsPurge(P, st, at) ==
  /\ P \subseteq FinishedTasks(st)
  /\ \A p \in P, q \in FinishedTasks(st) \ P : at[p] < at[q]
  /\ Limit = NoLimit => P = {}
  /\ Limit # NoLimit =>
       /\ Cardinality(FinishedTasks(st) \ P) <= Limit
       /\ P # {} => Cardinality(FinishedTasks(st) \ P) = Limit

(* A write of state s to task id, with the purge it brings about.          *)
Write(id, s) ==
  LET st == [status EXCEPT ![id] = s]
      at == [since EXCEPT ![id] = IF IsTerminal(s) /\ ~IsTerminal(status[id])
                                  THEN now ELSE @]
  IN  /\ now' = now + 1
      /\ IsTerminal(status[id]) => s = status[id]
      /\ \E P \in SUBSET TaskIds :
           /\ IsPurge(P, st, at)
           /\ status' = [i \in TaskIds |-> IF i \in P THEN "None" ELSE st[i]]
           /\ since'  = [i \in TaskIds |-> IF i \in P THEN 0 ELSE at[i]]

Next == \E id \in TaskIds, s \in States : Write(id, s)

Spec == Init /\ [][Next]_vars

=============================================================================
