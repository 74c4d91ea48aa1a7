--------------------------- MODULE RequestHandler ---------------------------
(***************************************************************************)
(* DefaultRequestHandler: sends, cancels and subscriptions that share a    *)
(* task store, the registry of running executions, the subscriptions       *)
(* waiting for a task's next turn and the webhooks.                        *)
(*                                                                         *)
(* Every request is a process that takes one step between two awaits (a    *)
(* step is one locked section of the code, or one store call).  A send     *)
(* that is accepted spawns the drive of its executor, a process of its own *)
(* with the send's name; the execution it registers has that name too.     *)
(*                                                                         *)
(* A task is [state, history]: history is the set of sends whose message   *)
(* the task records.  Artifacts, messages' contents and timestamps are     *)
(* left out.  MaxExecute and MaxCancel bound the items an executor yields  *)
(* in one turn and in one cancel.                                          *)
(***************************************************************************)
EXTENDS TaskStoreOps, ExecutionOps, FiniteSets

CONSTANTS
  Tasks,          \* task ids
  InitTasks,      \* tasks already stored, between turns (INPUT_REQUIRED)
  Sends, Cancels, Subs,
  Modes,          \* send modes: "blocking", "immediate", "streaming"
  ExecuteItems,   \* what executor.execute may yield
  CancelItems,    \* what executor.cancel may yield
  MaxExecute, MaxCancel,
  PushOn,         \* a webhook is configured
  PushFails,      \* a push may return an error
  Disconnects,    \* clients may go away, dropping their request's future
  None            \* no execution, no task id

(* The channel of a released waiter: its sender is dropped at once.        *)
Dead == "released"

ASSUME ModelAssumption ==
  /\ InitTasks \subseteq Tasks
  /\ Modes \subseteq {"blocking", "immediate", "streaming"}
  /\ MaxExecute \in Nat /\ MaxCancel \in Nat
  /\ {PushOn, PushFails, Disconnects} \subseteq BOOLEAN
  /\ None \notin Sends \union Tasks /\ Dead \notin Sends
  /\ Sends \intersect Subs = {}

Task == [state : TaskState, history : SUBSET Sends]

ASSUME NoTaskAssumption == NoTask \notin Task

(* No entry of the store is taken for a missing one.                       *)
ASSUME AbsentAssumption == Absent \notin [task : Task, version : Nat \ {0}]

(* An executor's item carries a task state exactly where its kind has one. *)
ASSUME ItemsAssumption ==
  \A e \in ExecuteItems \union CancelItems :
    IF e.kind \in {"status", "task"} THEN e.state \in TaskState ELSE e.state = "None"

VARIABLES
  store,     \* the TaskStore
  minted,    \* task ids in use so far: new_task_id never repeats one
  registry,  \* ExecutionManager.executions: task -> execution or None
  waiting,   \* ExecutionManager.waiting: task -> subscriptions
  exec,      \* exec[s]: the ActiveExecution of send s
  send,      \* send[s]: the send_message / send_streaming_message handler
  drive,     \* drive[s]: drive_execution for the turn of send s
  cancel,    \* cancel[c]: the cancel_task handler
  sub,       \* sub[u]: the subscribe_to_task handler and its stream
  stream,    \* stream[p]: the subscription of send or subscriber p
  seen,      \* seen[p]: what that subscription yielded, oldest first
  pushed     \* pushed[t]: states t's webhook was sent, whether or not it failed

handlers == <<send, drive, cancel, sub>>
streams  == <<stream, seen>>
manager  == <<registry, waiting, exec>>
vars == <<store, minted, manager, handlers, streams, pushed>>

NoStream == [src |-> None, sub |-> Subscription(0, NoTask, 0)]

Init ==
  /\ store    = [entries  |-> [t \in Tasks |->
                   IF t \in InitTasks
                   THEN [task |-> [state |-> "InputRequired", history |-> {}],
                         version |-> 1]
                   ELSE Absent],
                 terminal |-> <<>>]
  /\ minted   = InitTasks
  /\ registry = [t \in Tasks |-> None]
  /\ waiting  = [t \in Tasks |-> {}]
  /\ exec     = [s \in Sends |-> NewExecution(NoTask)]
  /\ send     = [s \in Sends |-> [pc |-> "idle", id |-> None, mode |-> "streaming",
                                  task |-> NoTask, reply |-> "none"]]
  /\ drive    = [s \in Sends |-> [pc |-> "off", cur |-> NoTask, item |-> Error,
                                  sequence |-> 0, count |-> 0, failed |-> FALSE,
                                  answered |-> FALSE, tracked |-> FALSE]]
  /\ cancel   = [c \in Cancels |-> [pc |-> "idle", id |-> None, cur |-> NoTask,
                                    final |-> NoTask, active |-> None,
                                    item |-> Error, sequence |-> 0, count |-> 0,
                                    pushed |-> FALSE, reply |-> "none"]]
  /\ sub      = [u \in Subs |-> [pc |-> "idle", id |-> None, task |-> NoTask]]
  /\ stream   = [p \in Sends \union Subs |-> NoStream]
  /\ seen     = [p \in Sends \union Subs |-> <<>>]
  /\ pushed   = [t \in Tasks |-> {}]

-----------------------------------------------------------------------------
(* Shared pieces.                                                          *)

(* A subscription holds the registry's read lock between its receiver and  *)
(* its snapshot: start and finish wait.                                    *)
RegistryFree == \A u \in Subs : sub[u].pc # "attaching"

Listeners(x) == {p \in Sends \union Subs : stream[p].src = x}

(* Whoever still holds an execution keeps its channel open.                *)
Closed(x) ==
  x # Dead =>
    /\ drive[x].pc = "done"
    /\ \A t \in Tasks : registry[t] # x
    /\ \A c \in Cancels : cancel[c].active # x

(* save_task: update; a task the store does not hold is created instead.   *)
SaveOutcome(t, task) ==
  IF CanUpdate(store, t, task) THEN "saved"
  ELSE IF Stored(store, t) THEN "refused" ELSE "missing"

(* apply_event_to_task on the caller's own copy of the task; the executor  *)
(* that answers with a whole task builds it from the one it was given.     *)
Applied(task, e) ==
  IF e.kind \in {"task", "status"} THEN [task EXCEPT !.state = e.state] ELSE task

NeedsSave(e) == e.kind # "message"

(* What a webhook is told of: the state an event announces.                *)
Pushed(t, e) ==
  [pushed EXCEPT ![t] = IF e.kind \in {"task", "status"} THEN @ \union {e.state}
                                                         ELSE @]

AfterSave == IF PushOn THEN "push" ELSE "number"

-----------------------------------------------------------------------------
(* send_message and send_streaming_message.                                *)

Answer(s, r) == send' = [send EXCEPT ![s].pc = "done", ![s].reply = r]

(* prepare_task_for_execution for a message that names a task.             *)
SendExisting(s, t, m) ==
  /\ send[s].pc = "idle"
  /\ \/ ~Stored(store, t) /\ Answer(s, "notFound")
     \/ Finished(store, t) /\ Answer(s, "unsupported")
     \/ /\ CanBeginCancel(store, t)
        /\ send' = [send EXCEPT ![s] =
             [pc |-> "prepared", id |-> t, mode |-> m, reply |-> "none",
              task |-> [store.entries[t].task EXCEPT !.history = @ \union {s}]]]
  /\ UNCHANGED <<store, minted, manager, drive, cancel, sub, streams, pushed>>

(* ... and for one that does not: a fresh id, stored as SUBMITTED.         *)
SendNew(s, t, m) ==
  LET task == [state |-> "Submitted", history |-> {s}]
  IN  /\ send[s].pc = "idle" /\ t \notin minted
      /\ minted' = minted \union {t}
      /\ store'  = AfterCreate(store, t, task)
      /\ send'   = [send EXCEPT ![s] = [pc |-> "prepared", id |-> t, mode |-> m,
                                       reply |-> "none", task |-> task]]
      /\ UNCHANGED <<manager, drive, cancel, sub, streams, pushed>>

(* save_request_push_config refuses the request's webhook: the handler     *)
(* returns, and what prepare stored stays.                                 *)
SendConfigRefused(s) ==
  /\ send[s].pc = "prepared" /\ PushFails
  /\ Answer(s, "error")
  /\ UNCHANGED <<store, minted, manager, drive, cancel, sub, streams, pushed>>

(* ExecutionManager::start: one execution per task; every waiter is        *)
(* attached to it from its first event.                                    *)
(* Slip: start does not look for a running execution.                      *)
StartRegardless(s) ==
  LET t == send[s].id
  IN  /\ send[s].pc = "prepared" /\ RegistryFree
      /\ send'     = [send EXCEPT ![s].pc = "registered"]
      /\ registry' = [registry EXCEPT ![t] = s]
      /\ exec'     = [exec EXCEPT ![s] = NewExecution(send[s].task)]
      /\ UNCHANGED <<store, minted, waiting, stream, drive, cancel, sub, seen, pushed>>

SendStart(s) ==
  LET t == send[s].id
  IN  /\ send[s].pc = "prepared" /\ RegistryFree
      /\ \/ /\ registry[t] # None
            /\ Answer(s, "inProgress")
            /\ UNCHANGED <<manager, stream>>
         \/ /\ registry[t] = None
            /\ send'     = [send EXCEPT ![s].pc = "registered"]
            /\ registry' = [registry EXCEPT ![t] = s]
            /\ exec'     = [exec EXCEPT ![s] = NewExecution(send[s].task)]
            /\ waiting'  = [waiting EXCEPT ![t] = {}]
            /\ stream'   = [p \in Sends \union Subs |->
                 IF p \in waiting[t]
                 THEN [src |-> s, sub |-> Subscription(0, send[s].task, 0)]
                 ELSE stream[p]]
      /\ UNCHANGED <<store, minted, drive, cancel, sub, seen, pushed>>

(* start_execution subscribes the request itself and spawns the drive.     *)
SendSpawn(s) ==
  /\ send[s].pc = "registered"
  /\ send'   = [send EXCEPT ![s].pc = "streaming"]
  /\ stream' = [stream EXCEPT ![s] =
                  [src |-> s, sub |-> Subscription(Len(exec[s].sent), NoTask, 0)]]
  /\ drive'  = [drive EXCEPT ![s].pc = "ready"]
  /\ UNCHANGED <<store, minted, manager, cancel, sub, seen, pushed>>

(* should_interrupt_non_streaming.                                         *)
Interrupts(m, e) ==
  \/ m = "immediate" /\ e.kind # "message"
  \/ m = "blocking" /\ e.kind \in {"task", "status"} /\ e.state = "AuthRequired"

Opened(p) == stream[p].src # None

Source(p) == IF stream[p].src = Dead THEN NewExecution(NoTask)
                                     ELSE exec[stream[p].src]

Next1(p) == Delivery(Source(p), stream[p].sub)

(* The stream of p yields an item; keep says whether p goes on reading it. *)
Yield(p, keep) ==
  /\ seen'   = [seen EXCEPT ![p] = Append(@, Next1(p))]
  /\ stream' = [stream EXCEPT ![p] =
                  IF keep THEN [src |-> @.src, sub |-> AfterDelivery(Source(p), @.sub)]
                          ELSE NoStream]

(* The handler's loop over its stream; a streaming send hands every item   *)
(* to the client instead.                                                  *)
SendReceive(s) ==
  /\ send[s].pc = "streaming" /\ CanDeliver(Source(s), stream[s].sub)
  /\ LET e == Next1(s).event
         m == send[s].mode
     IN  \/ /\ m # "streaming" /\ e.kind \in {"error", "lagged"}
            /\ Answer(s, "error") /\ Yield(s, FALSE)
         \/ /\ Interrupts(m, e)
            /\ send' = [send EXCEPT ![s].pc = "reload"] /\ Yield(s, TRUE)
         \/ /\ m # "streaming" /\ e.kind = "message"
            /\ Answer(s, "message") /\ Yield(s, FALSE)
         \/ /\ \/ m = "streaming"
               \/ ~Interrupts(m, e)
                  /\ e.kind \notin {"error", "lagged", "message"}
            /\ Yield(s, TRUE) /\ UNCHANGED send
  /\ UNCHANGED <<store, minted, manager, drive, cancel, sub, pushed>>

(* The stream is over: a last Task is the answer as it came, otherwise the *)
(* task is read from the store.                                            *)
SendEnd(s) ==
  /\ send[s].pc = "streaming"
  /\ Exhausted(Source(s), stream[s].sub, Closed(stream[s].src))
  /\ LET last == IF seen[s] = <<>> THEN Error ELSE seen[s][Len(seen[s])].event
     IN  \/ /\ send[s].mode = "streaming"
            /\ Answer(s, "ended") /\ stream' = [stream EXCEPT ![s] = NoStream]
         \/ /\ send[s].mode # "streaming" /\ last.kind = "task"
            /\ Answer(s, last.state) /\ stream' = [stream EXCEPT ![s] = NoStream]
         \/ /\ send[s].mode # "streaming" /\ last.kind # "task"
            /\ send' = [send EXCEPT ![s].pc = "reload"] /\ UNCHANGED stream
  /\ UNCHANGED <<store, minted, manager, drive, cancel, sub, seen, pushed>>

SendReload(s) ==
  /\ send[s].pc = "reload"
  /\ Answer(s, IF Stored(store, send[s].id) THEN StateOf(store, send[s].id)
                                            ELSE "notFound")
  /\ stream' = [stream EXCEPT ![s] = NoStream]
  /\ UNCHANGED <<store, minted, manager, drive, cancel, sub, seen, pushed>>

(* The client is gone: the handler's future, or the response stream, is    *)
(* dropped at the await it is in.  The drive goes on.                      *)
SendDropped(s) ==
  /\ Disconnects /\ send[s].pc \in {"prepared", "streaming", "reload"}
  /\ Answer(s, "dropped") /\ stream' = [stream EXCEPT ![s] = NoStream]
  /\ UNCHANGED <<store, minted, manager, drive, cancel, sub, seen, pushed>>

-----------------------------------------------------------------------------
(* drive_execution.                                                        *)

DriveUnchanged == UNCHANGED <<minted, registry, waiting, send, cancel, sub, streams>>

DriveSnapshot(s) ==
  /\ drive[s].pc = "ready"
  /\ drive' = [drive EXCEPT ![s].pc = "pull", ![s].cur = exec[s].snapshot]
  /\ DriveUnchanged /\ UNCHANGED <<store, exec, pushed>>

(* The executor's stream ends.                                             *)
DriveEnd(s) ==
  /\ drive[s].pc = "pull"
  /\ drive' = [drive EXCEPT ![s].pc = "finish"]
  /\ DriveUnchanged /\ UNCHANGED <<store, exec, pushed>>

(* The executor yields e.  Once the execution's snapshot is terminal the   *)
(* item is dropped; an item after the answering message, or a message      *)
(* after a task, breaks the response's shape.                              *)
(* Slip: the drive returns, instead of breaking, when the task is over.    *)
PullReturns(s, e) ==
  /\ drive[s].pc = "pull" /\ drive[s].count < MaxExecute
  /\ drive' = [drive EXCEPT ![s] =
       IF SnapshotIsTerminal(exec[s]) \/ e.kind \in {"error", "message"}
       THEN [@ EXCEPT !.pc = "done"]
       ELSE [@ EXCEPT !.pc = "save", !.item = e, !.count = @ + 1, !.tracked = TRUE]]
  /\ DriveUnchanged /\ UNCHANGED <<store, exec, pushed>>

DrivePull(s, e) ==
  LET d        == drive[s]
      answers  == e.kind = "message"
      misplaced == d.answered \/ (answers /\ d.tracked)
  IN  /\ d.pc = "pull" /\ d.count < MaxExecute
      /\ drive' = [drive EXCEPT ![s] =
           IF SnapshotIsTerminal(exec[s])
           THEN [d EXCEPT !.pc = "finish"]
           ELSE IF e = Error \/ misplaced
           THEN [d EXCEPT !.pc = "fail", !.failed = TRUE]
           ELSE [d EXCEPT !.pc = IF NeedsSave(e) THEN "save" ELSE AfterSave,
                          !.item = e, !.count = @ + 1,
                          !.answered = answers, !.tracked = @ \/ ~answers]]
      /\ DriveUnchanged /\ UNCHANGED <<store, exec, pushed>>

(* apply_event_to_task; a refused save fails the execution.                *)
DriveSave(s) ==
  LET d    == drive[s]
      t    == send[s].id
      task == Applied(d.cur, d.item)
  IN  /\ d.pc = "save"
      /\ \/ /\ d.item.kind # "append" /\ SaveOutcome(t, task) = "saved"
            /\ store' = AfterUpdate(store, t, task)
            /\ drive' = [drive EXCEPT ![s].pc = AfterSave, ![s].cur = task]
         \/ /\ d.item.kind # "append" /\ SaveOutcome(t, task) = "missing"
            /\ drive' = [drive EXCEPT ![s].pc = "create"] /\ UNCHANGED store
         \/ /\ d.item.kind = "append" \/ SaveOutcome(t, task) = "refused"
            /\ drive' = [drive EXCEPT ![s].pc = "fail", ![s].failed = TRUE]
            /\ UNCHANGED store
      /\ DriveUnchanged /\ UNCHANGED <<exec, pushed>>

(* save_task's fallback, a second call of the store.                       *)
DriveCreate(s) ==
  LET d    == drive[s]
      t    == send[s].id
      task == Applied(d.cur, d.item)
  IN  /\ d.pc = "create"
      /\ \/ /\ CanCreate(store, t)
            /\ store' = AfterCreate(store, t, task)
            /\ drive' = [drive EXCEPT ![s].pc = AfterSave, ![s].cur = task]
         \/ /\ ~CanCreate(store, t)
            /\ drive' = [drive EXCEPT ![s].pc = "fail", ![s].failed = TRUE]
            /\ UNCHANGED store
      /\ DriveUnchanged /\ UNCHANGED <<exec, pushed>>

DrivePush(s) ==
  /\ drive[s].pc = "push"
  /\ pushed' = Pushed(send[s].id, drive[s].item)
  /\ \/ drive' = [drive EXCEPT ![s].pc = "number"]
     \/ /\ PushFails
        /\ drive' = [drive EXCEPT ![s].pc = "fail", ![s].failed = TRUE]
  /\ DriveUnchanged /\ UNCHANGED <<store, exec>>

(* fail_task: the execution's error becomes the task's FAILED state,       *)
(* unless the task ended meanwhile; the error is published either way.     *)
(* Slip: the error is published, the task is left as it was.               *)
FailUnsaved(s) ==
  /\ drive[s].pc = "fail"
  /\ drive' = [drive EXCEPT ![s].pc = "number", ![s].item = Error, ![s].cur = NoTask]
  /\ DriveUnchanged /\ UNCHANGED <<store, exec, pushed>>

DriveFail(s) ==
  LET d    == drive[s]
      t    == send[s].id
      task == [d.cur EXCEPT !.state = "Failed"]
      lost == [d EXCEPT !.pc = "number", !.item = Error, !.cur = NoTask]
  IN  /\ d.pc = "fail"
      /\ \/ /\ IsTerminal(d.cur.state) \/ SaveOutcome(t, task) = "refused"
            /\ drive' = [drive EXCEPT ![s] = lost] /\ UNCHANGED store
         \/ /\ ~IsTerminal(d.cur.state) /\ SaveOutcome(t, task) = "missing"
            /\ drive' = [drive EXCEPT ![s].pc = "failCreate"] /\ UNCHANGED store
         \/ /\ ~IsTerminal(d.cur.state) /\ SaveOutcome(t, task) = "saved"
            /\ store' = AfterUpdate(store, t, task)
            /\ drive' = [drive EXCEPT ![s].pc = "failPush", ![s].cur = task]
      /\ DriveUnchanged /\ UNCHANGED <<exec, pushed>>

DriveFailCreate(s) ==
  LET d    == drive[s]
      t    == send[s].id
      task == [d.cur EXCEPT !.state = "Failed"]
  IN  /\ d.pc = "failCreate"
      /\ \/ /\ CanCreate(store, t)
            /\ store' = AfterCreate(store, t, task)
            /\ drive' = [drive EXCEPT ![s].pc = "failPush", ![s].cur = task]
         \/ /\ ~CanCreate(store, t)
            /\ drive' = [drive EXCEPT ![s].pc = "number", ![s].item = Error,
                                      ![s].cur = NoTask]
            /\ UNCHANGED store
      /\ DriveUnchanged /\ UNCHANGED <<exec, pushed>>

(* FAILED is pushed; the error of a push is dropped.                       *)
DriveFailPush(s) ==
  /\ drive[s].pc = "failPush"
  /\ drive' = [drive EXCEPT ![s].pc = "number", ![s].item = Error]
  /\ \/ PushOn /\ pushed' = Pushed(send[s].id, Status("Failed"))
     \/ ~PushOn /\ UNCHANGED pushed
  /\ DriveUnchanged /\ UNCHANGED <<store, exec>>

(* publish, its two halves.                                                *)
DriveNumber(s) ==
  /\ drive[s].pc = "number"
  /\ exec'  = [exec EXCEPT ![s] = Advance(@, drive[s].cur)]
  /\ drive' = [drive EXCEPT ![s].pc = "send",
                            ![s].sequence = exec[s].sequence + 1]
  /\ DriveUnchanged /\ UNCHANGED <<store, pushed>>

DriveSend(s) ==
  LET d == drive[s]
  IN  /\ d.pc = "send"
      /\ exec'  = [exec EXCEPT ![s] =
                     Broadcast(@, d.item, d.sequence, Listeners(s))]
      /\ drive' = [drive EXCEPT ![s].pc =
                     IF EndsStream(d.item) THEN "finish" ELSE "pull"]
      /\ DriveUnchanged /\ UNCHANGED <<store, pushed>>

(* ExecutionManager::finish removes the execution only if it is the one    *)
(* registered.                                                             *)
(* Slip: finish removes whatever is registered.                            *)
UnregisterAny(t, x) == registry' = [registry EXCEPT ![t] = None]

Unregister(t, x) ==
  registry' = [registry EXCEPT ![t] = IF @ = x THEN None ELSE @]

DriveFinish(s) ==
  /\ drive[s].pc = "finish" /\ RegistryFree
  /\ Unregister(send[s].id, s)
  /\ drive' = [drive EXCEPT ![s].pc = "done"]
  /\ UNCHANGED <<store, minted, waiting, exec, send, cancel, sub, streams, pushed>>

-----------------------------------------------------------------------------
(* cancel_task.                                                            *)

CancelUnchanged == UNCHANGED <<minted, waiting, send, drive, sub, streams>>

Conclude(c, r) == cancel' = [cancel EXCEPT ![c].pc = "done", ![c].reply = r]

(* An early return after begin_cancel: ReleaseOnDrop still has to run.     *)
(* Slip: no ReleaseOnDrop.                                                 *)
UnwindBare(c, r) == cancel' = [cancel EXCEPT ![c].pc = "done", ![c].active = None,
                                             ![c].reply = r]

Unwind(c, r) == cancel' = [cancel EXCEPT ![c].pc = "release", ![c].active = None,
                                         ![c].reply = r]

CancelLoad(c, t) ==
  /\ cancel[c].pc = "idle"
  /\ \/ ~Stored(store, t) /\ Conclude(c, "notFound")
     \/ /\ Finished(store, t)
        /\ Conclude(c, IF StateOf(store, t) = "Canceled" THEN "ok"
                                                         ELSE "notCancelable")
     \/ /\ CanBeginCancel(store, t)
        /\ cancel' = [cancel EXCEPT ![c].pc = "begin", ![c].id = t]
  /\ CancelUnchanged /\ UNCHANGED <<store, registry, exec, pushed>>

CancelBegin(c) ==
  LET t == cancel[c].id
  IN  /\ cancel[c].pc = "begin"
      /\ \/ /\ CanBeginCancel(store, t)
            /\ store'  = AfterBeginCancel(store, t)
            /\ cancel' = [cancel EXCEPT ![c].pc    = "lookup",
                                        ![c].cur   = CanceledTask(store, t),
                                        ![c].final = CanceledTask(store, t)]
         \/ /\ Finished(store, t)
            /\ cancel' = [cancel EXCEPT ![c].pc = "raced"] /\ UNCHANGED store
         \/ /\ ~Stored(store, t)
            /\ Conclude(c, "notFound") /\ UNCHANGED store
      /\ CancelUnchanged /\ UNCHANGED <<registry, exec, pushed>>

(* Raced with another cancel, or with the task's own end.                  *)
CancelRaced(c) ==
  LET t == cancel[c].id
  IN  /\ cancel[c].pc = "raced"
      /\ Conclude(c, IF ~Stored(store, t) THEN "notFound"
                     ELSE IF StateOf(store, t) = "Canceled" THEN "ok"
                     ELSE "notCancelable")
      /\ CancelUnchanged /\ UNCHANGED <<store, registry, exec, pushed>>

CancelLookup(c) ==
  /\ cancel[c].pc = "lookup"
  /\ cancel' = [cancel EXCEPT ![c].pc = "pull",
                              ![c].active = registry[cancel[c].id]]
  /\ CancelUnchanged /\ UNCHANGED <<store, registry, exec, pushed>>

CancelEnd(c) ==
  /\ cancel[c].pc = "pull"
  /\ cancel' = [cancel EXCEPT ![c].pc = "finish"]
  /\ CancelUnchanged /\ UNCHANGED <<store, registry, exec, pushed>>

AfterCancelSave(c) ==
  IF PushOn THEN "push" ELSE IF cancel[c].active # None THEN "number" ELSE "next"

(* executor.cancel yields e; its error is published to the execution, if   *)
(* there is one, before the handler returns it.                            *)
CancelPull(c, e) ==
  /\ cancel[c].pc = "pull" /\ cancel[c].count < MaxCancel
  /\ cancel' = [cancel EXCEPT
       ![c].item = e, ![c].count = @ + 1,
       ![c].cur = IF e = Error THEN NoTask ELSE @,
       ![c].pc = IF e = Error
                 THEN IF cancel[c].active # None THEN "number" ELSE "errorPush"
                 ELSE IF NeedsSave(e) THEN "save" ELSE AfterCancelSave(c)]
  /\ CancelUnchanged /\ UNCHANGED <<store, registry, exec, pushed>>

CancelSave(c) ==
  LET d    == cancel[c]
      task == Applied(d.cur, d.item)
  IN  /\ d.pc = "save"
      /\ \/ /\ d.item.kind # "append" /\ SaveOutcome(d.id, task) = "saved"
            /\ store'  = AfterUpdate(store, d.id, task)
            /\ cancel' = [cancel EXCEPT ![c].pc = AfterCancelSave(c), ![c].cur = task]
         \/ /\ d.item.kind # "append" /\ SaveOutcome(d.id, task) = "missing"
            /\ cancel' = [cancel EXCEPT ![c].pc = "create"] /\ UNCHANGED store
         \/ /\ d.item.kind = "append" \/ SaveOutcome(d.id, task) = "refused"
            /\ Unwind(c, "error") /\ UNCHANGED store
      /\ CancelUnchanged /\ UNCHANGED <<registry, exec, pushed>>

CancelCreate(c) ==
  LET d    == cancel[c]
      task == Applied(d.cur, d.item)
  IN  /\ d.pc = "create"
      /\ \/ /\ CanCreate(store, d.id)
            /\ store'  = AfterCreate(store, d.id, task)
            /\ cancel' = [cancel EXCEPT ![c].pc = AfterCancelSave(c), ![c].cur = task]
         \/ /\ ~CanCreate(store, d.id)
            /\ Unwind(c, "error") /\ UNCHANGED store
      /\ CancelUnchanged /\ UNCHANGED <<registry, exec, pushed>>

CancelPush(c) ==
  /\ cancel[c].pc = "push"
  /\ pushed' = Pushed(cancel[c].id, cancel[c].item)
  /\ \/ cancel' = [cancel EXCEPT ![c].pc =
                     IF cancel[c].active # None THEN "number" ELSE "next"]
     \/ PushFails /\ Unwind(c, "error")
  /\ CancelUnchanged /\ UNCHANGED <<store, registry, exec>>

CancelNumber(c) ==
  LET x == cancel[c].active
  IN  /\ cancel[c].pc = "number"
      /\ exec'   = [exec EXCEPT ![x] = Advance(@, cancel[c].cur)]
      /\ cancel' = [cancel EXCEPT ![c].pc = "send",
                                  ![c].sequence = exec[x].sequence + 1]
      /\ CancelUnchanged /\ UNCHANGED <<store, registry, pushed>>

CancelSend(c) ==
  LET d == cancel[c]
  IN  /\ d.pc = "send"
      /\ exec'   = [exec EXCEPT ![d.active] =
                      Broadcast(@, d.item, d.sequence, Listeners(d.active))]
      /\ cancel' = [cancel EXCEPT ![c].pc = IF d.item = Error THEN "errorPush"
                                                              ELSE "next"]
      /\ CancelUnchanged /\ UNCHANGED <<store, registry, pushed>>

(* The loop goes on until a terminal event, which the webhooks have had.   *)
CancelNext(c) ==
  LET ends == IsTerminalEvent(cancel[c].item)
  IN  /\ cancel[c].pc = "next"
      /\ cancel' = [cancel EXCEPT ![c].pc = IF ends THEN "finish" ELSE "pull",
                                  ![c].pushed = ends]
      /\ CancelUnchanged /\ UNCHANGED <<store, registry, exec, pushed>>

(* The executor's error: CANCELED is pushed before it is returned.         *)
(* Slip: the error returns before CANCELED is pushed.                      *)
ErrorUnpushed(c) ==
  /\ cancel[c].pc = "errorPush" /\ Unwind(c, "error")
  /\ CancelUnchanged /\ UNCHANGED <<store, registry, exec, pushed>>

CancelErrorPush(c) ==
  LET t == cancel[c].id
  IN  /\ cancel[c].pc = "errorPush"
      /\ \/ /\ PushOn /\ Stored(store, t)
            /\ pushed' = Pushed(t, Status(StateOf(store, t)))
         \/ ~(PushOn /\ Stored(store, t)) /\ UNCHANGED pushed
      /\ Unwind(c, "error")
      /\ CancelUnchanged /\ UNCHANGED <<store, registry, exec>>

CancelFinish(c) ==
  /\ cancel[c].pc = "finish" /\ RegistryFree
  /\ \/ cancel[c].active # None /\ Unregister(cancel[c].id, cancel[c].active)
     \/ cancel[c].active = None /\ UNCHANGED registry
  /\ cancel' = [cancel EXCEPT ![c].pc = "reload", ![c].active = None]
  /\ CancelUnchanged /\ UNCHANGED <<store, exec, pushed>>

CancelReload(c) ==
  LET t == cancel[c].id
  IN  /\ cancel[c].pc = "reload"
      /\ \/ ~Stored(store, t) /\ Unwind(c, "notFound")
         \/ /\ Stored(store, t)
            /\ cancel' = [cancel EXCEPT
                 ![c].final = store.entries[t].task,
                 ![c].reply = "ok",
                 ![c].pc = IF PushOn /\ ~cancel[c].pushed THEN "finalPush"
                                                          ELSE "release"]
      /\ CancelUnchanged /\ UNCHANGED <<store, registry, exec, pushed>>

CancelFinalPush(c) ==
  /\ cancel[c].pc = "finalPush"
  /\ pushed' = Pushed(cancel[c].id, Status(cancel[c].final.state))
  /\ \/ cancel' = [cancel EXCEPT ![c].pc = "release"]
     \/ PushFails /\ Unwind(c, "error")
  /\ CancelUnchanged /\ UNCHANGED <<store, registry, exec>>

(* ExecutionManager::release, by the handler's last step or ReleaseOnDrop: *)
(* every waiter gets the final task and a channel without a sender.        *)
CancelRelease(c) ==
  LET t == cancel[c].id
  IN  /\ cancel[c].pc = "release"
      /\ cancel'  = [cancel EXCEPT ![c].pc = "done"]
      /\ waiting' = [waiting EXCEPT ![t] = {}]
      /\ stream'  = [p \in Sends \union Subs |->
           IF p \in waiting[t]
           THEN [src |-> Dead, sub |-> Subscription(0, cancel[c].final, 0)]
           ELSE stream[p]]
      /\ UNCHANGED <<store, minted, registry, exec, send, drive, sub, seen, pushed>>

(* The client is gone: the handler's future is dropped at its await.       *)
CancelDropped(c) ==
  /\ Disconnects
  /\ \/ cancel[c].pc \in {"begin", "raced"} /\ Conclude(c, "dropped")
     \/ /\ cancel[c].pc \in {"lookup", "pull", "save", "create", "push", "number",
                             "next", "errorPush", "finish", "reload", "finalPush"}
        /\ Unwind(c, "dropped")
  /\ CancelUnchanged /\ UNCHANGED <<store, registry, exec, pushed>>

-----------------------------------------------------------------------------
(* subscribe_to_task.                                                      *)

SubUnchanged == UNCHANGED <<store, minted, registry, exec, send, drive, cancel, pushed>>

(* Waiter::drop: the subscription leaves the waiting list of its task.     *)
Withdraw(u) ==
  /\ sub'     = [sub EXCEPT ![u].pc = "done"]
  /\ waiting' = [waiting EXCEPT ![sub[u].id] = @ \ {u}]
  /\ stream'  = [stream EXCEPT ![u] = NoStream]

(* ExecutionManager::subscribe: to the running execution, whose receiver   *)
(* comes first, or in line for the next one.                               *)
SubRegister(u, t) ==
  /\ sub[u].pc = "idle"
  /\ \/ /\ registry[t] # None
        /\ sub'    = [sub EXCEPT ![u].pc = "attaching", ![u].id = t]
        /\ stream' = [stream EXCEPT ![u] =
             [src |-> registry[t],
              sub |-> Subscription(Len(exec[registry[t]].sent), NoTask, 0)]]
        /\ UNCHANGED waiting
     \/ /\ registry[t] = None
        /\ sub'     = [sub EXCEPT ![u].pc = "load", ![u].id = t]
        /\ waiting' = [waiting EXCEPT ![t] = @ \union {u}]
        /\ UNCHANGED stream
  /\ SubUnchanged /\ UNCHANGED seen

(* Slip: the registry is locked again under the lock subscribe holds.      *)
AttachRelocks(u) ==
  /\ sub[u].pc = "attaching" /\ RegistryFree
  /\ sub' = [sub EXCEPT ![u].pc = "streaming"]
  /\ SubUnchanged /\ UNCHANGED <<waiting, streams>>

SubAttach(u) ==
  LET x == exec[stream[u].src]
  IN  /\ sub[u].pc = "attaching"
      /\ sub'    = [sub EXCEPT ![u].pc = "streaming"]
      /\ stream' = [stream EXCEPT ![u].sub = [@ EXCEPT !.snapshot = x.snapshot,
                                                       !.min = x.sequence]]
      /\ SubUnchanged /\ UNCHANGED <<waiting, seen>>

SubLoad(u) ==
  /\ sub[u].pc = "load"
  /\ \/ ~Stored(store, sub[u].id) /\ Withdraw(u)
     \/ /\ Stored(store, sub[u].id)
        /\ sub' = [sub EXCEPT ![u].pc = "decide",
                              ![u].task = store.entries[sub[u].id].task]
        /\ UNCHANGED <<waiting, stream>>
  /\ SubUnchanged /\ UNCHANGED seen

(* Attached meanwhile: that stream has everything.  Otherwise the task as  *)
(* read decides: refused when it is over, else it opens the stream.        *)
SubDecide(u) ==
  /\ sub[u].pc = "decide"
  /\ \/ /\ Opened(u)
        /\ sub' = [sub EXCEPT ![u].pc = "streaming"]
        /\ UNCHANGED <<waiting, streams>>
     \/ /\ ~Opened(u) /\ IsTerminal(sub[u].task.state)
        /\ Withdraw(u) /\ UNCHANGED seen
     \/ /\ ~Opened(u) /\ ~IsTerminal(sub[u].task.state)
        /\ sub'  = [sub EXCEPT ![u].pc = "streaming"]
        /\ seen' = [seen EXCEPT ![u] =
             <<[event |-> Snapshot(sub[u].task.state), sequence |-> 0]>>]
        /\ UNCHANGED <<waiting, stream>>
  /\ SubUnchanged

SubReceive(u) ==
  /\ sub[u].pc = "streaming" /\ Opened(u)
  /\ CanDeliver(Source(u), stream[u].sub)
  /\ Yield(u, TRUE)
  /\ SubUnchanged /\ UNCHANGED <<sub, waiting>>

(* An event the subscription's snapshot already shows, at any stream.      *)
Skip(p) ==
  /\ Opened(p) /\ CanSkip(Source(p), stream[p].sub)
  /\ \/ p \in Sends /\ send[p].pc = "streaming"
     \/ p \in Subs /\ sub[p].pc = "streaming"
  /\ stream' = [stream EXCEPT ![p].sub = AfterSkip(@)]
  /\ UNCHANGED <<store, minted, manager, handlers, seen, pushed>>

SubEnd(u) ==
  /\ sub[u].pc = "streaming" /\ Opened(u)
  /\ Exhausted(Source(u), stream[u].sub, Closed(stream[u].src))
  /\ Withdraw(u)
  /\ SubUnchanged /\ UNCHANGED seen

SubDropped(u) ==
  /\ Disconnects /\ sub[u].pc \notin {"idle", "done"}
  /\ Withdraw(u)
  /\ SubUnchanged /\ UNCHANGED seen

-----------------------------------------------------------------------------

SendStep(s) ==
  \/ SendStart(s) \/ SendSpawn(s) \/ SendReceive(s) \/ SendEnd(s)
  \/ SendReload(s) \/ Skip(s)

DriveStep(s) ==
  \/ DriveSnapshot(s) \/ DriveEnd(s) \/ \E e \in ExecuteItems : DrivePull(s, e)
  \/ DriveSave(s) \/ DriveCreate(s) \/ DrivePush(s)
  \/ DriveFail(s) \/ DriveFailCreate(s) \/ DriveFailPush(s)
  \/ DriveNumber(s) \/ DriveSend(s) \/ DriveFinish(s)

CancelStep(c) ==
  \/ CancelBegin(c) \/ CancelRaced(c) \/ CancelLookup(c)
  \/ CancelEnd(c) \/ \E e \in CancelItems : CancelPull(c, e)
  \/ CancelSave(c) \/ CancelCreate(c) \/ CancelPush(c)
  \/ CancelNumber(c) \/ CancelSend(c) \/ CancelNext(c)
  \/ CancelErrorPush(c) \/ CancelFinish(c) \/ CancelReload(c)
  \/ CancelFinalPush(c) \/ CancelRelease(c)

SubStep(u) ==
  \/ SubAttach(u) \/ SubLoad(u) \/ SubDecide(u) \/ SubReceive(u)
  \/ Skip(u) \/ SubEnd(u)

(* Every request is over or waits, as a subscription may, for a turn that  *)
(* no client starts.                                                       *)
Settled ==
  /\ \A s \in Sends : send[s].pc = "done" /\ drive[s].pc \in {"off", "done"}
  /\ \A c \in Cancels : cancel[c].pc = "done"
  /\ \A u \in Subs : \/ sub[u].pc = "done"
                     \/ sub[u].pc = "streaming" /\ ~Opened(u)
  /\ UNCHANGED vars

Next ==
  \/ \E s \in Sends :
       \/ \E t \in Tasks, m \in Modes : SendExisting(s, t, m) \/ SendNew(s, t, m)
       \/ SendConfigRefused(s) \/ SendDropped(s)
       \/ SendStep(s) \/ DriveStep(s)
  \/ \E c \in Cancels :
       \/ \E t \in Tasks : CancelLoad(c, t)
       \/ CancelDropped(c) \/ CancelStep(c)
  \/ \E u \in Subs :
       \/ \E t \in Tasks : SubRegister(u, t)
       \/ SubDropped(u) \/ SubStep(u)
  \/ Settled

Spec == Init /\ [][Next]_vars

(* The runtime polls every handler, drive and stream that can go on, and   *)
(* an executor's stream yields or ends; clients need not start anything.   *)
Fairness ==
  /\ \A s \in Sends : WF_vars(SendStep(s)) /\ WF_vars(DriveStep(s))
  /\ \A c \in Cancels : WF_vars(CancelStep(c))
  /\ \A u \in Subs : WF_vars(SubStep(u))

FairSpec == Spec /\ Fairness

-----------------------------------------------------------------------------

(* Types of the handler's state.                                           *)
TypeOK ==
  /\ \A t \in Tasks :
       /\ Stored(store, t) => /\ store.entries[t].task \in Task
                              /\ store.entries[t].version \in Nat \ {0}
       /\ registry[t] \in Sends \union {None}
       /\ waiting[t] \subseteq Subs
       /\ pushed[t] \subseteq TaskState
  /\ minted \subseteq Tasks
  /\ \A s \in Sends :
       /\ exec[s].snapshot \in Task \union {NoTask}
       /\ exec[s].sequence \in Nat
       /\ drive[s].cur \in Task \union {NoTask}
       /\ drive[s].count \in 0 .. MaxExecute
       /\ send[s].task \in Task \union {NoTask}
  /\ \A c \in Cancels :
       /\ cancel[c].cur \in Task \union {NoTask}
       /\ cancel[c].active \in Sends \union {None}
       /\ cancel[c].count \in 0 .. MaxCancel
  /\ \A p \in Sends \union Subs : stream[p].src \in Sends \union {None, Dead}

TaskOf(p) == IF p \in Sends THEN send[p].id ELSE sub[p].id

Agrees(t, s) == IsTerminal(s) => Stored(store, t) /\ StateOf(store, t) = s

(* Whoever is told that a task ended, by a stream, by the answer to a send *)
(* or by a webhook, is told the end the store keeps: no interleaving of    *)
(* drive_execution and cancel_task announces another.                      *)
TerminalAgreement ==
  /\ \A p \in Sends \union Subs : \A k \in 1 .. Len(seen[p]) :
       Agrees(TaskOf(p), seen[p][k].event.state)
  /\ \A s \in Sends : Agrees(send[s].id, send[s].reply)
  /\ \A t \in Tasks : \A s \in pushed[t] : Agrees(t, s)

(* Every stream shows its execution's events in the order of their         *)
(* numbers, each at most once, although drive_execution and cancel_task    *)
(* may send them in another; number 0 is the task a stream opens with.     *)
InOrder ==
  \A p \in Sends \union Subs : \A k \in 2 .. Len(seen[p]) :
    \/ seen[p][k].sequence > seen[p][k-1].sequence
    \/ seen[p][k].event = LagError
    \/ seen[p][k].sequence = 0 /\ seen[p][k].event.kind = "task"

DriveLive(s) == drive[s].pc \notin {"off", "finish", "done"}

(* The registry holds only executions somebody is still going to remove:   *)
(* start never leaves one behind that blocks the task's next turn.         *)
RegistryIsLive ==
  \A t \in Tasks : registry[t] # None =>
    /\ send[registry[t]].id = t
    /\ \/ send[registry[t]].pc = "registered"
       \/ drive[registry[t]].pc \notin {"off", "done"}

(* An execution leaves the registry before its executor is done only when  *)
(* a cancel that ended the task removed it: two turns never run on a task  *)
(* that goes on.                                                           *)
DetachedIsCanceled ==
  \A s \in Sends :
    DriveLive(s) /\ registry[send[s].id] # s =>
      \E c \in Cancels : cancel[c].id = send[s].id /\ cancel[c].final # NoTask

ReleasePending(t) ==
  \E c \in Cancels :
    /\ cancel[c].id = t
    /\ cancel[c].pc \notin {"idle", "begin", "raced", "done"}

(* No subscription is left waiting for a turn that cannot come: while one  *)
(* past its read of the store waits on a finished task, a cancel of that   *)
(* task still has to release it (subscribe_to_task registers before it     *)
(* reads; ReleaseOnDrop covers every way out of cancel_task).              *)
NoStrandedWaiter ==
  \A t \in Tasks : \A u \in waiting[t] :
    sub[u].pc = "streaming" /\ Finished(store, t) => ReleasePending(t)

(* Every cancel that moved the task, returned and was not abandoned has    *)
(* sent CANCELED to the webhook, whatever executor.cancel did.             *)
CanceledIsPushed ==
  \A c \in Cancels :
    /\ cancel[c].pc = "done" /\ cancel[c].reply # "dropped"
    /\ cancel[c].final # NoTask
    => "Canceled" \in pushed[cancel[c].id]

(* An execution that failed leaves a finished task behind, FAILED or the   *)
(* end the task reached before, or one purged since: no failure path of    *)
(* drive_execution leaves a caller polling GetTask a task that never ends. *)
FailedTurnIsOver ==
  \A s \in Sends :
    /\ drive[s].failed /\ drive[s].pc \in {"number", "send", "finish", "done"}
    /\ Stored(store, send[s].id)
    => Finished(store, send[s].id)

LastShown(p) ==
  LET shown == {k \in 1 .. Len(seen[p]) : seen[p][k].event.kind \in {"task", "status"}}
  IN  seen[p][CHOOSE k \in shown : \A j \in shown : j <= k].event.state

(* A subscription whose stream ends without a terminal event or an error   *)
(* has been shown the state its execution left the task in.                *)
EndShowsOutcome ==
  \A u \in Subs :
    /\ sub[u].pc = "streaming" /\ Opened(u) /\ ~stream[u].sub.done
    /\ Exhausted(Source(u), stream[u].sub, Closed(stream[u].src))
    => LastShown(u) = Source(u).snapshot.state

(* finish removes the execution it was called for and no later one.        *)
FinishIsOwn ==
  [][\A t \in Tasks : registry[t] # None /\ registry'[t] # registry[t] =>
       \/ drive'[registry[t]].pc = "done"
       \/ \E c \in Cancels : /\ cancel[c].active = registry[t]
                             /\ cancel'[c].pc = "reload"]_vars

(* "Append it so history actually accumulates across turns": a message a   *)
(* stored task records is never forgotten (prepare_task_for_execution).    *)
HistoryAccumulates ==
  [][\A t \in Tasks : Stored(store, t) /\ Stored(store', t) =>
       store.entries[t].task.history \subseteq store'.entries[t].task.history]_vars

(* "A purged task is reported as TaskNotFoundError": a task once stored and *)
(* purged never comes back (with_terminal_task_limit).                     *)
PurgedStaysGone ==
  [][\A t \in minted : ~Stored(store, t) => ~Stored(store', t)]_vars

(* "Subscribed before the executor runs, so they miss none of its events": *)
(* a subscription opened between turns, which start attaches, is past no   *)
(* event of the execution that it has not yielded.                         *)
WaiterMissesNothing ==
  \A u \in Subs :
    /\ Len(seen[u]) > 1 /\ seen[u][2].sequence = 0
    /\ stream[u].src \in Sends
    => \A k \in 1 .. stream[u].sub.pos :
         LET sent == exec[stream[u].src].sent[k]
         IN  sent.event = Error \/ \E j \in DOMAIN seen[u] : seen[u][j] = sent

(* A send and a cancel the server accepted are answered, and once its task *)
(* is over every subscription to it comes to its end.                      *)
EveryoneIsAnswered ==
  /\ \A s \in Sends : send[s].pc = "prepared" ~> send[s].pc = "done"
  /\ \A c \in Cancels : cancel[c].pc = "begin" ~> cancel[c].pc = "done"
  /\ \A u \in Subs :
       (sub[u].pc = "streaming" /\ Finished(store, sub[u].id)) ~> sub[u].pc = "done"

=============================================================================
