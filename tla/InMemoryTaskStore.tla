-------------------------- MODULE InMemoryTaskStore --------------------------
(***************************************************************************)
(* The in-memory task store under arbitrary callers: any create, update,   *)
(* begin_cancel or get, in any order, each atomic under the store's lock.  *)
(*                                                                         *)
(* reply is what the last call returned.  now and endedAt are history      *)
(* variables: the number of writes so far, and the write that finished     *)
(* each finished task the store holds.  MaxWrites bounds the writes.       *)
(***************************************************************************)
EXTENDS TaskStoreOps

CONSTANTS
  TaskIds,
  States,    \* the task states callers write
  Contents,  \* what else a task carries
  MaxWrites

ASSUME StatesAssumption == States \subseteq TaskState /\ "Canceled" \in States
ASSUME BoundAssumption == MaxWrites \in Nat

VARIABLES store, reply, now, endedAt

vars == <<store, reply, now, endedAt>>

Task  == [state : States, content : Contents]
Entry == [task : Task, version : Nat \ {0}]

ASSUME AbsentAssumption == Absent \notin Entry

Replies == {"none", "ok", "exists", "notFound", "invalid", "notCancelable"}

Init ==
  /\ store   = EmptyStore(TaskIds)
  /\ reply   = "none"
  /\ now     = 1
  /\ endedAt = [i \in TaskIds |-> 0]

(* The store becomes new by a write to id: note when tasks end.            *)
Commit(id, new) ==
  /\ now <= MaxWrites
  /\ store'   = new
  /\ reply'   = "ok"
  /\ now'     = now + 1
  /\ endedAt' = [i \in TaskIds |->
                   CASE ~Stored(new, i)                  -> 0
                     [] i = id /\ Finished(new, id)
                               /\ ~Finished(store, id)   -> now
                     [] OTHER                            -> endedAt[i]]

Refuse(r) == reply' = r /\ UNCHANGED <<store, now, endedAt>>

Create(id, task) ==
  \/ CanCreate(store, id)  /\ Commit(id, AfterCreate(store, id, task))
  \/ ~CanCreate(store, id) /\ Refuse("exists")

Update(id, task) ==
  \/ CanUpdate(store, id, task) /\ Commit(id, AfterUpdate(store, id, task))
  \/ ~Stored(store, id) /\ Refuse("notFound")
  \/ Stored(store, id) /\ ~CanUpdate(store, id, task) /\ Refuse("invalid")

BeginCancel(id) ==
  \/ CanBeginCancel(store, id) /\ Commit(id, AfterBeginCancel(store, id))
  \/ ~Stored(store, id)  /\ Refuse("notFound")
  \/ Finished(store, id) /\ Refuse("notCancelable")

Next ==
  \E id \in TaskIds :
    \/ \E task \in Task : Create(id, task) \/ Update(id, task)
    \/ BeginCancel(id)

Spec == Init /\ [][Next]_vars

-----------------------------------------------------------------------------

(* Type correctness of the store and its history variables.                *)
TypeOK ==
  /\ store \in [entries : [TaskIds -> Entry \union {Absent}],
                terminal : Seq(TaskIds)]
  /\ reply \in Replies
  /\ now \in Nat \ {0}
  /\ endedAt \in [TaskIds -> Nat]

(* Under a limit the retirement queue holds exactly the finished tasks of  *)
(* the map, each once, and never more than the limit: create, update and   *)
(* begin_cancel each retire a task exactly when it becomes terminal, and a *)
(* purge takes the task out of both the queue and the map.  Without one    *)
(* the queue stays empty.                                                  *)
RetentionExact ==
  IF Limit = NoLimit
  THEN store.terminal = <<>>
  ELSE /\ \A i \in TaskIds :
            Finished(store, i) <=> \E k \in 1 .. Len(store.terminal) :
                                     store.terminal[k] = i
       /\ \A j, k \in 1 .. Len(store.terminal) :
            store.terminal[j] = store.terminal[k] => j = k
       /\ Len(store.terminal) <= Limit

(* The store implements the lifecycle: a finished task keeps its state,    *)
(* only the tasks that finished longest ago are purged, and only as many   *)
(* as the limit asks for (the doc of with_terminal_task_limit).            *)
Lifecycle ==
  INSTANCE TaskLifecycle WITH
    status <- [i \in TaskIds |-> IF Stored(store, i) THEN StateOf(store, i)
                                                     ELSE "None"],
    since  <- endedAt,
    now    <- now

ImplementsLifecycle == Lifecycle!Spec

=============================================================================
