---------------------------- MODULE TaskStoreOps ----------------------------
(***************************************************************************)
(* InMemoryTaskStore as a value: what each method of the store does to the *)
(* record guarded by its RwLock.  Every method takes the lock once and     *)
(* holds it to its end, so a call is one application of one operator here. *)
(*                                                                         *)
(* entries[id] is the stored task with its version, or Absent; terminal is *)
(* the VecDeque of finished ids, oldest first, kept only under a limit.    *)
(***************************************************************************)
EXTENDS TaskStates, Integers, Sequences

CONSTANTS
  Limit,     \* terminal_task_limit: a number, or NoLimit (the default)
  NoLimit,
  Absent     \* what the map holds for an id it has no entry for

ASSUME LimitAssumption == /\ Limit \in Nat \union {NoLimit}
                          /\ NoLimit \notin Nat

EmptyStore(Ids) == [entries |-> [i \in Ids |-> Absent], terminal |-> <<>>]

Stored(store, id) == store.entries[id] # Absent

StateOf(store, id) == store.entries[id].task.state

(* The task is finished: only then may it be purged, and never cancelled.  *)
Finished(store, id) == Stored(store, id) /\ IsTerminal(StateOf(store, id))

(***************************************************************************)
(* Tasks::retire.  The while loop pops from the front until at most Limit  *)
(* remain, so what it removes is the prefix of length Excess.              *)
(***************************************************************************)
Excess(order) == IF Len(order) > Limit THEN Len(order) - Limit ELSE 0

Purged(order) == {order[i] : i \in 1 .. Excess(order)}

Kept(order) == SubSeq(order, Excess(order) + 1, Len(order))

(* Slip: pop_back for pop_front.                                           *)
RetireNewest(store, id) ==
  LET order == Append(store.terminal, id)
      keep  == Len(order) - Excess(order)
  IN  IF Limit = NoLimit
      THEN store
      ELSE [entries  |-> [i \in DOMAIN store.entries |->
                            IF \E k \in keep + 1 .. Len(order) : order[k] = i
                            THEN Absent ELSE store.entries[i]],
            terminal |-> SubSeq(order, 1, keep)]

Retire(store, id) ==
  LET order == Append(store.terminal, id)
  IN  IF Limit = NoLimit
      THEN store
      ELSE [entries  |-> [i \in DOMAIN store.entries |->
                            IF i \in Purged(order) THEN Absent
                                                   ELSE store.entries[i]],
            terminal |-> Kept(order)]

Put(store, id, task, version) ==
  [store EXCEPT !.entries[id] = [task |-> task, version |-> version]]

(* TaskStore::create: refused when the id is taken, whatever its state.    *)
CanCreate(store, id) == ~Stored(store, id)

(* Slip: the first version is 0.                                           *)
CreateAtZero(store, id, task) ==
  LET put == Put(store, id, task, 0)
  IN  IF IsTerminal(task.state) THEN Retire(put, id) ELSE put

AfterCreate(store, id, task) ==
  LET put == Put(store, id, task, 1)
  IN  IF IsTerminal(task.state) THEN Retire(put, id) ELSE put

(***************************************************************************)
(* TaskStore::update: a finished task takes only writes that keep its      *)
(* state, and the write that finishes a task retires it.                   *)
(***************************************************************************)
(* Slip: no check of the terminal state.                                   *)
UpdateAny(store, id, task) == Stored(store, id)

CanUpdate(store, id, task) ==
  /\ Stored(store, id)
  /\ IsTerminal(StateOf(store, id)) => StateOf(store, id) = task.state

(* Slip: a write that repeats a terminal state retires the task again.     *)
UpdateRetiresAgain(store, id, task) ==
  LET put == Put(store, id, task, store.entries[id].version + 1)
  IN  IF IsTerminal(task.state) THEN Retire(put, id) ELSE put

AfterUpdate(store, id, task) ==
  LET put     == Put(store, id, task, store.entries[id].version + 1)
      retired == ~IsTerminal(StateOf(store, id)) /\ IsTerminal(task.state)
  IN  IF retired THEN Retire(put, id) ELSE put

(***************************************************************************)
(* TaskStore::begin_cancel: check and transition under one lock.           *)
(***************************************************************************)
CanBeginCancel(store, id) ==
  Stored(store, id) /\ ~IsTerminal(StateOf(store, id))

CanceledTask(store, id) ==
  [store.entries[id].task EXCEPT !.state = "Canceled"]

AfterBeginCancel(store, id) ==
  Retire(Put(store, id, CanceledTask(store, id), store.entries[id].version + 1),
         id)

=============================================================================
