------------------------ MODULE RequestHandler_proofs ------------------------
(***************************************************************************)
(* For every number of tasks, sends, cancels and subscriptions, every      *)
(* executor, every limit of the store, with failing webhooks and clients   *)
(* that go away: the handlers keep their types, the registry holds live    *)
(* executions only and loses each at the hands of its owner, and an        *)
(* execution is detached by a cancel only.                                 *)
(***************************************************************************)
EXTENDS RequestHandler, SequenceTheorems, TLAPS

Item == ExecuteItems \union CancelItems \union {Error}

Numbered == [event : Item, sequence : Nat]

(* What a stream may yield: the snapshot, an event, or a lag.              *)
Yielded == [event : Item \union {Snapshot(s) : s \in TaskState} \union {LagError},
            sequence : Nat]

Exec == [snapshot : Task \union {NoTask}, sequence : Nat, sent : Seq(Numbered)]

Receiver == [pos : Nat, snapshot : Task \union {NoTask}, min : Nat, done : BOOLEAN]

Entry == [task : Task, version : Nat \ {0}]

Replies ==
  {"none", "notFound", "unsupported", "error", "inProgress", "message", "ended",
   "dropped", "ok", "notCancelable"} \union TaskState

SendPcs == {"idle", "prepared", "registered", "streaming", "reload", "done"}

DrivePcs == {"off", "ready", "pull", "save", "create", "push", "number", "send",
             "fail", "failCreate", "failPush", "finish", "done"}

CancelPcs == {"idle", "begin", "raced", "lookup", "pull", "save", "create", "push",
              "number", "send", "next", "errorPush", "finish", "reload", "finalPush",
              "release", "done"}

SubPcs == {"idle", "attaching", "load", "decide", "streaming", "done"}

SendRec == [pc : SendPcs, id : Tasks \union {None}, mode : Modes \union {"streaming"},
            task : Task \union {NoTask}, reply : Replies]

DriveRec == [pc : DrivePcs, cur : Task \union {NoTask}, item : Item, sequence : Nat,
             count : 0 .. MaxExecute, failed : BOOLEAN, answered : BOOLEAN,
             tracked : BOOLEAN]

CancelRec == [pc : CancelPcs, id : Tasks \union {None}, cur : Task \union {NoTask},
              final : Task \union {NoTask}, active : Sends \union {None}, item : Item,
              sequence : Nat, count : 0 .. MaxCancel, pushed : BOOLEAN, reply : Replies]

SubRec == [pc : SubPcs, id : Tasks \union {None}, task : Task \union {NoTask}]

StreamRec == [src : Sends \union {None, Dead}, sub : Receiver]

StoreOK(st) ==
  /\ st = [entries |-> st.entries, terminal |-> st.terminal]
  /\ st.entries \in [Tasks -> Entry \union {Absent}]

Types ==
  /\ StoreOK(store)
  /\ minted \subseteq Tasks
  /\ registry \in [Tasks -> Sends \union {None}]
  /\ waiting \in [Tasks -> SUBSET Subs]
  /\ pushed \in [Tasks -> SUBSET TaskState]
  /\ exec \in [Sends -> Exec]
  /\ send \in [Sends -> SendRec]
  /\ drive \in [Sends -> DriveRec]
  /\ cancel \in [Cancels -> CancelRec]
  /\ sub \in [Subs -> SubRec]
  /\ stream \in [Sends \union Subs -> StreamRec]
  /\ seen \in [Sends \union Subs -> Seq(Yielded)]

(* What a process holds at its step.                                       *)
SendHolds(s) ==
  /\ send[s].pc \in {"prepared", "registered"} => send[s].task \in Task
  /\ send[s].pc \notin {"idle", "done"} => send[s].id \in Tasks
  /\ send[s].pc \in {"idle", "prepared", "registered"} => drive[s].pc = "off"
  /\ send[s].pc = "registered" => exec[s].snapshot \in Task
  /\ send[s].pc \in {"streaming", "reload"} => stream[s].src = s

DriveHolds(s) ==
  /\ drive[s].pc # "off" => send[s].id \in Tasks /\ exec[s].snapshot \in Task
  /\ drive[s].pc \in {"pull", "save", "create", "push", "fail", "failCreate", "failPush"} =>
       drive[s].cur \in Task
  /\ drive[s].pc \in {"number", "send"} => drive[s].item = Error \/ drive[s].cur \in Task

CancelHolds(c) ==
  /\ cancel[c].pc \notin {"idle", "done"} \/ cancel[c].final # NoTask => cancel[c].id \in Tasks
  /\ cancel[c].pc \notin {"idle", "begin", "raced", "done"} => cancel[c].final \in Task
  /\ cancel[c].pc \in {"lookup", "pull", "save", "create", "push", "next"} =>
       cancel[c].cur \in Task
  /\ cancel[c].pc \in {"number", "send"} =>
       /\ cancel[c].item = Error \/ cancel[c].cur \in Task
       /\ cancel[c].active \in Sends

SubHolds(u) ==
  /\ sub[u].pc # "idle" => sub[u].id \in Tasks
  /\ sub[u].pc = "decide" => sub[u].task \in Task
  /\ sub[u].pc = "attaching" => stream[u].src \in Sends
  /\ \A t \in Tasks : u \in waiting[t] =>
       sub[u].pc \in {"load", "decide", "streaming"} /\ sub[u].id = t

Holds ==
  /\ \A s \in Sends : SendHolds(s) /\ DriveHolds(s)
  /\ \A c \in Cancels : CancelHolds(c)
  /\ \A u \in Subs : SubHolds(u)

Shape == Types /\ Holds

(* The tasks some cancel has moved.                                        *)
MovedByCancel(t) == \E c \in Cancels : cancel[c].id = t /\ cancel[c].final # NoTask

Running(s) == send[s].pc = "registered" \/ DriveLive(s)

(* The registry holds live executions, and a live one it does not hold is  *)
(* of a task that a cancel has moved.                                      *)
Registered ==
  /\ RegistryIsLive
  /\ \A s \in Sends : Running(s) /\ registry[send[s].id] # s => MovedByCancel(send[s].id)
  /\ \A c \in Cancels : cancel[c].pc = "idle" => cancel[c].final = NoTask

(* What a step that registers nothing and removes nothing does to the      *)
(* processes: a request keeps its task, an execution goes on to its end,   *)
(* a cancel keeps what it has moved.                                       *)
SendGoesOn(s) ==
  /\ send[s].pc = "idle" \/ send'[s].id = send[s].id
  /\ send[s].pc = "registered" => send'[s].pc = "registered" \/ drive'[s].pc = "ready"
  /\ send'[s].pc = "registered" => send[s].pc = "registered"
  /\ drive[s].pc \notin {"off", "done"} => drive'[s].pc \notin {"off", "done"}
  /\ DriveLive(s)' => Running(s)

CancelGoesOn(c) ==
  /\ cancel[c].pc = "idle" \/ cancel'[c].id = cancel[c].id
  /\ cancel[c].final # NoTask => cancel'[c].final # NoTask
  /\ cancel'[c].pc = "idle" => cancel'[c] = cancel[c]

GoesOn ==
  /\ UNCHANGED registry
  /\ \A s \in Sends : SendGoesOn(s)
  /\ \A c \in Cancels : CancelGoesOn(c)

-----------------------------------------------------------------------------
(* The store keeps its shape under every call.                             *)

LEMMA PutShape ==
  ASSUME NEW st, StoreOK(st), NEW t \in Tasks, NEW task \in Task, NEW v \in Nat \ {0}
  PROVE  StoreOK(Put(st, t, task, v))
<1>1. [task |-> task, version |-> v] \in Entry
  BY DEF Entry
<1>2. /\ Put(st, t, task, v).entries = [st.entries EXCEPT ![t] = [task |-> task, version |-> v]]
      /\ Put(st, t, task, v) = [entries |-> Put(st, t, task, v).entries,
                                terminal |-> Put(st, t, task, v).terminal]
  BY DEF Put, StoreOK
<1>3. QED
  BY <1>1, <1>2 DEF StoreOK

LEMMA RetireShape ==
  ASSUME NEW st, StoreOK(st), NEW t \in Tasks
  PROVE  StoreOK(Retire(st, t))
<1>. DEFINE order == Append(st.terminal, t)
            kept  == [i \in DOMAIN st.entries |-> IF i \in Purged(order) THEN Absent
                                                                        ELSE st.entries[i]]
<1>1. Retire(st, t) = IF Limit = NoLimit THEN st
                      ELSE [entries |-> kept, terminal |-> Kept(order)]
  BY DEF Retire
<1>2. kept \in [Tasks -> Entry \union {Absent}]
  BY DEF StoreOK
<1>. HIDE DEF kept, order
<1>3. QED
  BY <1>1, <1>2 DEF StoreOK

LEMMA StoreCallShape ==
  ASSUME NEW st, StoreOK(st), NEW t \in Tasks, NEW task \in Task
  PROVE  /\ StoreOK(AfterCreate(st, t, task))
         /\ Stored(st, t) => StoreOK(AfterUpdate(st, t, task))
         /\ Stored(st, t) => StoreOK(AfterBeginCancel(st, t)) /\ CanceledTask(st, t) \in Task
<1>1. StoreOK(AfterCreate(st, t, task))
  <2>1. StoreOK(Put(st, t, task, 1))
    BY PutShape
  <2>2. QED
    BY <2>1, RetireShape DEF AfterCreate
<1>2. ASSUME Stored(st, t)
      PROVE  st.entries[t] \in Entry /\ st.entries[t].version + 1 \in Nat \ {0}
  <2>1. st.entries[t] \in Entry
    BY <1>2 DEF StoreOK, Stored
  <2>2. QED
    BY <2>1 DEF Entry
<1>3. ASSUME Stored(st, t) PROVE StoreOK(AfterUpdate(st, t, task))
  <2>1. StoreOK(Put(st, t, task, st.entries[t].version + 1))
    BY <1>2, <1>3, PutShape
  <2>2. QED
    BY <2>1, RetireShape DEF AfterUpdate
<1>4. ASSUME Stored(st, t) PROVE CanceledTask(st, t) \in Task
  BY <1>2, <1>4 DEF CanceledTask, Entry, Task, TaskState, TerminalStates
<1>5. ASSUME Stored(st, t) PROVE StoreOK(AfterBeginCancel(st, t))
  <2>1. StoreOK(Put(st, t, CanceledTask(st, t), st.entries[t].version + 1))
    BY <1>2, <1>4, <1>5, PutShape
  <2>2. QED
    BY <2>1, RetireShape DEF AfterBeginCancel
<1>6. QED
  BY <1>1, <1>3, <1>4, <1>5

(* What a call reads of a task the store holds.                            *)
LEMMA StoredTask ==
  ASSUME StoreOK(store), NEW t \in Tasks, Stored(store, t)
  PROVE  store.entries[t].task \in Task /\ StateOf(store, t) \in TaskState
<1>1. store.entries[t] \in Entry
  BY DEF StoreOK, Stored
<1>2. QED
  BY <1>1 DEF Entry, Task, StateOf

-----------------------------------------------------------------------------
(* Items, and what an item leaves of a task.                               *)

LEMMA AppliedTask ==
  ASSUME NEW task \in Task, NEW e \in Item
  PROVE  Applied(task, e) \in Task
<1>1. e.kind \in {"task", "status"} => e.state \in TaskState
  BY ItemsAssumption DEF Item, Error
<1>2. QED
  BY <1>1 DEF Applied, Task

LEMMA PushedType ==
  ASSUME pushed \in [Tasks -> SUBSET TaskState], NEW t \in Tasks, NEW e,
         e \in Item \/ e.state \in TaskState
  PROVE  Pushed(t, e) \in [Tasks -> SUBSET TaskState]
<1>1. e.kind \in {"task", "status"} => e.state \in TaskState
  BY ItemsAssumption DEF Item, Error
<1>2. QED
  BY <1>1 DEF Pushed

LEMMA ErrorIsItem == Error \in Item
  BY DEF Item

(* publish, its two halves.                                                *)
LEMMA AdvanceType ==
  ASSUME NEW x \in Exec, NEW task \in Task \union {NoTask}
  PROVE  /\ Advance(x, task) \in Exec
         /\ x.snapshot \in Task => Advance(x, task).snapshot \in Task
<1>1. x.sequence + 1 \in Nat
  BY DEF Exec
<1>2. /\ (IF task = NoTask THEN x.snapshot ELSE task) \in Task \union {NoTask}
      /\ x.snapshot \in Task => (IF task = NoTask THEN x.snapshot ELSE task) \in Task
  BY DEF Exec
<1>3. QED
  BY <1>1, <1>2 DEF Advance, Exec

LEMMA BroadcastType ==
  ASSUME NEW x \in Exec, NEW e \in Item, NEW n \in Nat, NEW L
  PROVE  Broadcast(x, e, n, L) \in Exec /\ Broadcast(x, e, n, L).snapshot = x.snapshot
<1>1. [event |-> e, sequence |-> n] \in Numbered
  BY DEF Numbered
<1>2. Append(x.sent, [event |-> e, sequence |-> n]) \in Seq(Numbered)
  BY <1>1, AppendProperties DEF Exec
<1>3. QED
  BY <1>2 DEF Broadcast, Exec

(* A fresh execution, and a subscription's first state.                    *)
LEMMA NewTypes ==
  ASSUME NEW task \in Task \union {NoTask}, NEW pos \in Nat
  PROVE  /\ NewExecution(task) \in Exec /\ NewExecution(task).snapshot = task
         /\ Subscription(pos, task, 0) \in Receiver
<1>1. <<>> \in Seq(Numbered)
  BY EmptySeq
<1>2. QED
  BY <1>1 DEF NewExecution, Exec, Subscription, Receiver

LEMMA NoStreamType == NoStream \in StreamRec
<1>1. Subscription(0, NoTask, 0) \in Receiver
  BY NewTypes
<1>2. QED
  BY <1>1 DEF NoStream, StreamRec

-----------------------------------------------------------------------------
(* A poll of a stream.                                                     *)

(* What it yields, and what it leaves of the receiver.                     *)
Polls(x, st) ==
  LET r == AfterDelivery(x, st)
      y == Delivery(x, st)
  IN  /\ r \in Receiver /\ y \in Yielded /\ r.snapshot = NoTask
      /\ \/ /\ st.snapshot # NoTask
            /\ r.min = st.min /\ y.sequence = st.min /\ y.event = Snapshot(st.snapshot.state)
         \/ /\ st.snapshot = NoTask
            /\ r.min = st.min /\ y.sequence = st.min /\ y.event = LagError
         \/ /\ st.snapshot = NoTask
            /\ y.sequence > st.min /\ r.min = y.sequence
            /\ \E i \in 1 .. Len(x.sent) : y = x.sent[i]

LEMMA DeliveryShape ==
  ASSUME NEW x \in Exec, NEW st \in Receiver, CanDeliver(x, st)
  PROVE  Polls(x, st)
<1>. DEFINE h == x.sent[st.pos + 1]
            r == AfterDelivery(x, st)
            y == Delivery(x, st)
<1>1. /\ st.pos \in Nat /\ st.min \in Nat /\ st.done \in BOOLEAN
      /\ st.snapshot \in Task \union {NoTask} /\ x.sent \in Seq(Numbered)
      /\ Len(x.sent) \in Nat
  BY LenProperties DEF Receiver, Exec
<1>2. CASE st.snapshot # NoTask
  <2>1. st.snapshot \in Task /\ st.snapshot.state \in TaskState
    BY <1>1, <1>2 DEF Task
  <2>2. /\ r = [st EXCEPT !.snapshot = NoTask, !.done = IsTerminal(st.snapshot.state)]
        /\ y = [event |-> Snapshot(st.snapshot.state), sequence |-> st.min]
    BY <1>2 DEF AfterDelivery, Delivery
  <2>3. IsTerminal(st.snapshot.state) \in BOOLEAN
    BY DEF IsTerminal
  <2>4. r \in Receiver /\ r.snapshot = NoTask /\ r.min = st.min
    BY <1>1, <2>2, <2>3 DEF Receiver
  <2>5. y \in Yielded /\ y.sequence = st.min /\ y.event = Snapshot(st.snapshot.state)
    BY <1>1, <2>1, <2>2 DEF Yielded
  <2>. HIDE DEF r, y
  <2>6. QED
    BY <1>2, <2>4, <2>5 DEF Polls, r, y
<1>3. CASE st.snapshot = NoTask /\ Lagged(x, st)
  <2>1. /\ r = [st EXCEPT !.done = TRUE]
        /\ y = [event |-> LagError, sequence |-> st.min]
    BY <1>3 DEF AfterDelivery, Delivery
  <2>2. r \in Receiver /\ r.snapshot = NoTask /\ r.min = st.min
    BY <1>1, <1>3, <2>1 DEF Receiver
  <2>3. y \in Yielded /\ y.sequence = st.min /\ y.event = LagError
    BY <1>1, <2>1 DEF Yielded
  <2>. HIDE DEF r, y
  <2>4. QED
    BY <1>3, <2>2, <2>3 DEF Polls, r, y
<1>4. CASE st.snapshot = NoTask /\ ~Lagged(x, st)
  <2>1. st.pos < Len(x.sent) /\ h.sequence > st.min
    BY <1>4 DEF CanDeliver, HasNext, Head1
  <2>2. st.pos + 1 \in 1 .. Len(x.sent) /\ st.pos + 1 \in Nat
    BY <1>1, <2>1
  <2>3. h \in Numbered
    BY <1>1, <2>2, ElementOfSeq
  <2>4. /\ r = [st EXCEPT !.pos = st.pos + 1, !.min = h.sequence, !.done = EndsStream(h.event)]
        /\ y = h
    BY <1>4 DEF AfterDelivery, Delivery, Head1
  <2>5. EndsStream(h.event) \in BOOLEAN /\ h.sequence \in Nat
    BY <2>3 DEF EndsStream, Numbered
  <2>6. r \in Receiver /\ r.snapshot = NoTask /\ r.min = h.sequence
    BY <1>1, <1>4, <2>2, <2>4, <2>5 DEF Receiver
  <2>7. y \in Yielded /\ y = h
    BY <2>3, <2>4 DEF Numbered, Yielded
  <2>8. \E i \in 1 .. Len(x.sent) : h = x.sent[i]
    BY <2>2
  <2>. HIDE DEF r, y, h
  <2>9. QED
    BY <1>4, <2>1, <2>6, <2>7, <2>8 DEF Polls, r, y
<1>5. QED
  BY <1>2, <1>3, <1>4

(* The execution a stream reads is one, or the empty one of a waiter that  *)
(* was released.                                                           *)
LEMMA SourceType ==
  ASSUME Types, NEW p \in Sends \union Subs, Opened(p)
  PROVE  Source(p) \in Exec /\ stream[p].sub \in Receiver
<1>1. stream[p] \in StreamRec
  BY DEF Types
<1>2. stream[p].src # Dead => stream[p].src \in Sends
  BY <1>1 DEF StreamRec, Opened
<1>3. NewExecution(NoTask) \in Exec
  BY NewTypes
<1>4. QED
  BY <1>1, <1>2, <1>3 DEF StreamRec, Source, Types

-----------------------------------------------------------------------------
(* The steps of a send and of its drive.                                   *)

(* A step of s, its handler or its drive, is none of another's.            *)
OnlyS(s) ==
  /\ \A q \in Sends \ {s} :
       /\ send'[q] = send[q] /\ drive'[q] = drive[q] /\ exec'[q] = exec[q]
       /\ stream'[q] = stream[q]
  /\ UNCHANGED <<cancel, sub>>

LEMMA HoldsOfS ==
  ASSUME Holds, NEW s \in Sends, OnlyS(s), SendHolds(s)', DriveHolds(s)',
         \A t \in Tasks : waiting'[t] \subseteq waiting[t],
         \A u \in Subs : sub[u].pc = "attaching" => stream'[u].src \in Sends
  PROVE  Holds'
<1>1. ASSUME NEW q \in Sends PROVE SendHolds(q)' /\ DriveHolds(q)'
  <2>1. CASE q = s
    BY <2>1
  <2>2. CASE q # s
    BY <2>2 DEF Holds, OnlyS, SendHolds, DriveHolds
  <2>3. QED
    BY <2>1, <2>2
<1>2. ASSUME NEW c \in Cancels PROVE CancelHolds(c)'
  BY DEF Holds, OnlyS, CancelHolds
<1>3. ASSUME NEW u \in Subs PROVE SubHolds(u)'
  BY DEF Holds, OnlyS, SubHolds
<1>4. QED
  BY <1>1, <1>2, <1>3 DEF Holds

(* A drive goes to another record of its own, with what it must hold.      *)
LEMMA DriveMoves ==
  ASSUME Shape, NEW s \in Sends, drive[s].pc \notin {"off", "finish", "done"}, DriveUnchanged,
         NEW d \in DriveRec, drive' = [drive EXCEPT ![s] = d], d.pc \notin {"off", "done"},
         d.pc \in {"pull", "save", "create", "push", "fail", "failCreate", "failPush"} =>
           d.cur \in Task,
         d.pc \in {"number", "send"} => d.item = Error \/ d.cur \in Task,
         StoreOK(store'), pushed' \in [Tasks -> SUBSET TaskState],
         exec' \in [Sends -> Exec], \A q \in Sends \ {s} : exec'[q] = exec[q],
         exec'[s].snapshot \in Task
  PROVE  Shape' /\ GoesOn
<1>1. UNCHANGED <<minted, registry, waiting, send, cancel, sub, stream, seen>>
  BY DEF DriveUnchanged, streams
<1>2. drive' \in [Sends -> DriveRec] /\ drive'[s] = d
      /\ \A q \in Sends \ {s} : drive'[q] = drive[q]
  BY DEF Shape, Types
<1>3. Types'
  BY <1>1, <1>2 DEF Shape, Types, StoreOK
<1>4. send[s].pc \notin {"idle", "prepared", "registered"} /\ send[s].id \in Tasks
  BY DEF Shape, Holds, SendHolds, DriveHolds
<1>5. SendHolds(s)'
  BY <1>1, <1>4 DEF Shape, Holds, SendHolds
<1>6. DriveHolds(s)'
  BY <1>1, <1>2, <1>4 DEF DriveHolds
<1>7. Holds'
  <2>1. OnlyS(s)
    BY <1>1, <1>2 DEF OnlyS
  <2>2. \A u \in Subs : sub[u].pc = "attaching" => stream'[u].src \in Sends
    BY <1>1 DEF Shape, Holds, SubHolds
  <2>3. QED
    BY <1>1, <1>5, <1>6, <2>1, <2>2, HoldsOfS DEF Shape
<1>8. GoesOn
  BY <1>1, <1>2 DEF GoesOn, SendGoesOn, CancelGoesOn, Running, DriveLive
<1>9. QED
  BY <1>3, <1>7, <1>8 DEF Shape

LEMMA DriveSnapshotShape ==
  ASSUME Shape, NEW s \in Sends, DriveSnapshot(s)
  PROVE  Shape' /\ GoesOn
<1>. DEFINE d == [drive[s] EXCEPT !.pc = "pull", !.cur = exec[s].snapshot]
<1>1. /\ drive[s] \in DriveRec /\ drive[s].pc = "ready" /\ exec[s].snapshot \in Task
  BY DEF DriveSnapshot, Shape, Types, Holds, DriveHolds
<1>2. /\ drive' = [drive EXCEPT ![s] = d]
      /\ DriveUnchanged /\ UNCHANGED <<store, exec, pushed>>
  BY <1>1 DEF DriveSnapshot, Shape, Types
<1>3. d \in DriveRec /\ d.pc = "pull" /\ d.cur \in Task
  BY <1>1 DEF DriveRec, DrivePcs
<1>. HIDE DEF d
<1>4. QED
  BY <1>1, <1>2, <1>3, DriveMoves DEF Shape, Types

LEMMA DriveEndShape ==
  ASSUME Shape, NEW s \in Sends, DriveEnd(s)
  PROVE  Shape' /\ GoesOn
<1>. DEFINE d == [drive[s] EXCEPT !.pc = "finish"]
<1>1. drive[s] \in DriveRec /\ drive[s].pc = "pull" /\ exec[s].snapshot \in Task
  BY DEF DriveEnd, Shape, Types, Holds, DriveHolds
<1>2. /\ drive' = [drive EXCEPT ![s] = d]
      /\ DriveUnchanged /\ UNCHANGED <<store, exec, pushed>>
  BY <1>1 DEF DriveEnd, Shape, Types
<1>3. d \in DriveRec /\ d.pc = "finish"
  BY <1>1 DEF DriveRec, DrivePcs
<1>. HIDE DEF d
<1>4. QED
  BY <1>1, <1>2, <1>3, DriveMoves DEF Shape, Types

LEMMA DrivePullShape ==
  ASSUME Shape, NEW s \in Sends, NEW e \in ExecuteItems, DrivePull(s, e)
  PROVE  Shape' /\ GoesOn
<1>. DEFINE d == drive[s]
            answers == e.kind = "message"
            misplaced == d.answered \/ (answers /\ d.tracked)
            next == IF SnapshotIsTerminal(exec[s])
                    THEN [d EXCEPT !.pc = "finish"]
                    ELSE IF e = Error \/ misplaced
                    THEN [d EXCEPT !.pc = "fail", !.failed = TRUE]
                    ELSE [d EXCEPT !.pc = IF NeedsSave(e) THEN "save" ELSE AfterSave,
                                   !.item = e, !.count = d.count + 1,
                                   !.answered = answers, !.tracked = d.tracked \/ ~answers]
<1>1. /\ d \in DriveRec /\ d.pc = "pull" /\ d.cur \in Task /\ d.count < MaxExecute
      /\ exec[s].snapshot \in Task
  BY DEF DrivePull, Shape, Types, Holds, DriveHolds
<1>2. /\ drive' = [drive EXCEPT ![s] = next]
      /\ DriveUnchanged /\ UNCHANGED <<store, exec, pushed>>
  BY <1>1 DEF DrivePull, Shape, Types
<1>3. next \in DriveRec /\ next.pc \in {"finish", "fail", "save", "push", "number"}
      /\ next.cur \in Task
  <2>1. d.count + 1 \in 0 .. MaxExecute /\ e \in Item
    BY <1>1, ModelAssumption DEF DriveRec, Item
  <2>2. AfterSave \in {"push", "number"}
    BY DEF AfterSave
  <2>3. /\ answers \in BOOLEAN /\ (d.tracked \/ ~answers) \in BOOLEAN
        /\ (IF NeedsSave(e) THEN "save" ELSE AfterSave) \in {"save", "push", "number"}
    BY <2>2
  <2>. HIDE DEF answers, misplaced, d
  <2>4. QED
    BY <1>1, <2>1, <2>3 DEF DriveRec, DrivePcs
<1>. HIDE DEF next
<1>4. next.pc \notin {"off", "done"} /\ drive[s].pc \notin {"off", "finish", "done"}
  BY <1>1, <1>3
<1>5. QED
  BY <1>1, <1>2, <1>3, <1>4, DriveMoves DEF Shape, Types

(* What the save of an item makes of the task it is applied to.            *)
LEMMA DriveSaveShape ==
  ASSUME Shape, NEW s \in Sends, DriveSave(s)
  PROVE  Shape' /\ GoesOn
<1>. DEFINE t     == send[s].id
            task  == Applied(drive[s].cur, drive[s].item)
            saved == [drive[s] EXCEPT !.pc = AfterSave, !.cur = task]
            anew  == [drive[s] EXCEPT !.pc = "create"]
            fails == [drive[s] EXCEPT !.pc = "fail", !.failed = TRUE]
<1>1. /\ drive[s] \in DriveRec /\ drive[s].pc = "save" /\ drive[s].cur \in Task
      /\ exec[s].snapshot \in Task /\ send[s].id \in Tasks /\ drive[s].item \in Item
      /\ DriveUnchanged /\ UNCHANGED <<exec, pushed>>
  BY DEF DriveSave, Shape, Types, Holds, DriveHolds, DriveRec
<1>2. task \in Task
  BY <1>1, AppliedTask
<1>3. \/ /\ SaveOutcome(t, task) = "saved" /\ store' = AfterUpdate(store, t, task)
         /\ drive' = [drive EXCEPT ![s] = saved]
      \/ drive' = [drive EXCEPT ![s] = anew] /\ UNCHANGED store
      \/ drive' = [drive EXCEPT ![s] = fails] /\ UNCHANGED store
  BY <1>1 DEF DriveSave, Shape, Types
<1>. HIDE DEF task
<1>4. /\ saved \in DriveRec /\ saved.pc \in {"push", "number"} /\ saved.cur \in Task
      /\ anew \in DriveRec /\ anew.pc = "create" /\ anew.cur \in Task
      /\ fails \in DriveRec /\ fails.pc = "fail" /\ fails.cur \in Task
  <2>1. AfterSave \in {"push", "number"}
    BY DEF AfterSave
  <2>2. QED
    BY <1>1, <1>2, <2>1 DEF DriveRec, DrivePcs
<1>5. SaveOutcome(t, task) = "saved" => StoreOK(AfterUpdate(store, t, task))
  <2>1. SaveOutcome(t, task) = "saved" => Stored(store, t)
    BY DEF SaveOutcome, CanUpdate
  <2>2. QED
    BY <1>1, <1>2, <2>1, StoreCallShape DEF Shape, Types
<1>. HIDE DEF saved, anew, fails
<1>6. StoreOK(store')
  BY <1>3, <1>5 DEF Shape, Types
<1>7. PICK d \in {saved, anew, fails} : drive' = [drive EXCEPT ![s] = d]
  BY <1>3
<1>8. d \in DriveRec /\ d.pc \in {"push", "number", "create", "fail"} /\ d.cur \in Task
  BY <1>4, <1>7
<1>9. drive[s].pc \notin {"off", "finish", "done"} /\ d.pc \notin {"off", "done"}
  BY <1>1, <1>8
<1>10. QED
  BY <1>1, <1>6, <1>7, <1>8, <1>9, DriveMoves DEF Shape, Types

LEMMA DriveCreateShape ==
  ASSUME Shape, NEW s \in Sends, DriveCreate(s)
  PROVE  Shape' /\ GoesOn
<1>. DEFINE t     == send[s].id
            task  == Applied(drive[s].cur, drive[s].item)
            saved == [drive[s] EXCEPT !.pc = AfterSave, !.cur = task]
            fails == [drive[s] EXCEPT !.pc = "fail", !.failed = TRUE]
<1>1. /\ drive[s] \in DriveRec /\ drive[s].pc = "create" /\ drive[s].cur \in Task
      /\ exec[s].snapshot \in Task /\ send[s].id \in Tasks /\ drive[s].item \in Item
      /\ DriveUnchanged /\ UNCHANGED <<exec, pushed>>
  BY DEF DriveCreate, Shape, Types, Holds, DriveHolds, DriveRec
<1>2. task \in Task
  BY <1>1, AppliedTask
<1>3. \/ store' = AfterCreate(store, t, task) /\ drive' = [drive EXCEPT ![s] = saved]
      \/ drive' = [drive EXCEPT ![s] = fails] /\ UNCHANGED store
  BY <1>1 DEF DriveCreate, Shape, Types
<1>. HIDE DEF task
<1>4. /\ saved \in DriveRec /\ saved.pc \in {"push", "number"} /\ saved.cur \in Task
      /\ fails \in DriveRec /\ fails.pc = "fail" /\ fails.cur \in Task
  <2>1. AfterSave \in {"push", "number"}
    BY DEF AfterSave
  <2>2. QED
    BY <1>1, <1>2, <2>1 DEF DriveRec, DrivePcs
<1>5. StoreOK(AfterCreate(store, t, task))
  BY <1>1, <1>2, StoreCallShape DEF Shape, Types
<1>. HIDE DEF saved, fails
<1>6. StoreOK(store')
  BY <1>3, <1>5 DEF Shape, Types
<1>7. PICK d \in {saved, fails} : drive' = [drive EXCEPT ![s] = d]
  BY <1>3
<1>8. d \in DriveRec /\ d.pc \in {"push", "number", "fail"} /\ d.cur \in Task
  BY <1>4, <1>7
<1>9. drive[s].pc \notin {"off", "finish", "done"} /\ d.pc \notin {"off", "done"}
  BY <1>1, <1>8
<1>10. QED
  BY <1>1, <1>6, <1>7, <1>8, <1>9, DriveMoves DEF Shape, Types

LEMMA DrivePushShape ==
  ASSUME Shape, NEW s \in Sends, DrivePush(s)
  PROVE  Shape' /\ GoesOn
<1>. DEFINE told  == [drive[s] EXCEPT !.pc = "number"]
            fails == [drive[s] EXCEPT !.pc = "fail", !.failed = TRUE]
<1>1. /\ drive[s] \in DriveRec /\ drive[s].pc = "push" /\ drive[s].cur \in Task
      /\ exec[s].snapshot \in Task /\ send[s].id \in Tasks /\ drive[s].item \in Item
      /\ DriveUnchanged /\ UNCHANGED <<store, exec>>
      /\ pushed' = Pushed(send[s].id, drive[s].item)
  BY DEF DrivePush, Shape, Types, Holds, DriveHolds, DriveRec
<1>2. \/ drive' = [drive EXCEPT ![s] = told] \/ drive' = [drive EXCEPT ![s] = fails]
  BY <1>1 DEF DrivePush, Shape, Types
<1>3. /\ told \in DriveRec /\ told.pc = "number" /\ told.cur \in Task
      /\ fails \in DriveRec /\ fails.pc = "fail" /\ fails.cur \in Task
  BY <1>1 DEF DriveRec, DrivePcs
<1>4. pushed' \in [Tasks -> SUBSET TaskState]
  BY <1>1, PushedType DEF Shape, Types
<1>. HIDE DEF told, fails
<1>5. PICK d \in {told, fails} : drive' = [drive EXCEPT ![s] = d]
  BY <1>2
<1>6. d \in DriveRec /\ d.pc \in {"number", "fail"} /\ d.cur \in Task
  BY <1>3, <1>5
<1>7. drive[s].pc \notin {"off", "finish", "done"} /\ d.pc \notin {"off", "done"}
  BY <1>1, <1>6
<1>8. QED
  BY <1>1, <1>4, <1>5, <1>6, <1>7, DriveMoves DEF Shape, Types

(* A task that fails is still a task.                                      *)
LEMMA FailedTask ==
  ASSUME NEW task \in Task
  PROVE  [task EXCEPT !.state = "Failed"] \in Task
BY DEF Task, TaskState, TerminalStates

LEMMA DriveFailShape ==
  ASSUME Shape, NEW s \in Sends, DriveFail(s)
  PROVE  Shape' /\ GoesOn
<1>. DEFINE t     == send[s].id
            task  == [drive[s].cur EXCEPT !.state = "Failed"]
            lost  == [drive[s] EXCEPT !.pc = "number", !.item = Error, !.cur = NoTask]
            anew  == [drive[s] EXCEPT !.pc = "failCreate"]
            saved == [drive[s] EXCEPT !.pc = "failPush", !.cur = task]
<1>1. /\ drive[s] \in DriveRec /\ drive[s].pc = "fail" /\ drive[s].cur \in Task
      /\ exec[s].snapshot \in Task /\ send[s].id \in Tasks
      /\ DriveUnchanged /\ UNCHANGED <<exec, pushed>>
  BY DEF DriveFail, Shape, Types, Holds, DriveHolds, DriveRec
<1>2. task \in Task
  BY <1>1, FailedTask
<1>3. \/ drive' = [drive EXCEPT ![s] = lost] /\ UNCHANGED store
      \/ drive' = [drive EXCEPT ![s] = anew] /\ UNCHANGED store
      \/ /\ SaveOutcome(t, task) = "saved" /\ store' = AfterUpdate(store, t, task)
         /\ drive' = [drive EXCEPT ![s] = saved]
  BY <1>1 DEF DriveFail, Shape, Types
<1>. HIDE DEF task
<1>4. /\ lost \in DriveRec /\ lost.pc = "number" /\ lost.item = Error
      /\ anew \in DriveRec /\ anew.pc = "failCreate" /\ anew.cur \in Task
      /\ saved \in DriveRec /\ saved.pc = "failPush" /\ saved.cur \in Task
  BY <1>1, <1>2, ErrorIsItem DEF DriveRec, DrivePcs
<1>5. SaveOutcome(t, task) = "saved" => StoreOK(AfterUpdate(store, t, task))
  <2>1. SaveOutcome(t, task) = "saved" => Stored(store, t)
    BY DEF SaveOutcome, CanUpdate
  <2>2. QED
    BY <1>1, <1>2, <2>1, StoreCallShape DEF Shape, Types
<1>. HIDE DEF lost, anew, saved
<1>6. StoreOK(store')
  BY <1>3, <1>5 DEF Shape, Types
<1>7. PICK d \in {lost, anew, saved} : drive' = [drive EXCEPT ![s] = d]
  BY <1>3
<1>8. /\ d \in DriveRec /\ d.pc \in {"number", "failCreate", "failPush"}
      /\ d.pc = "number" => d.item = Error
      /\ d.pc # "number" => d.cur \in Task
  BY <1>4, <1>7
<1>9. drive[s].pc \notin {"off", "finish", "done"} /\ d.pc \notin {"off", "done"}
  BY <1>1, <1>8
<1>10. QED
  BY <1>1, <1>6, <1>7, <1>8, <1>9, DriveMoves DEF Shape, Types

LEMMA DriveFailCreateShape ==
  ASSUME Shape, NEW s \in Sends, DriveFailCreate(s)
  PROVE  Shape' /\ GoesOn
<1>. DEFINE t     == send[s].id
            task  == [drive[s].cur EXCEPT !.state = "Failed"]
            lost  == [drive[s] EXCEPT !.pc = "number", !.item = Error, !.cur = NoTask]
            saved == [drive[s] EXCEPT !.pc = "failPush", !.cur = task]
<1>1. /\ drive[s] \in DriveRec /\ drive[s].pc = "failCreate" /\ drive[s].cur \in Task
      /\ exec[s].snapshot \in Task /\ send[s].id \in Tasks
      /\ DriveUnchanged /\ UNCHANGED <<exec, pushed>>
  BY DEF DriveFailCreate, Shape, Types, Holds, DriveHolds, DriveRec
<1>2. task \in Task
  BY <1>1, FailedTask
<1>3. \/ drive' = [drive EXCEPT ![s] = lost] /\ UNCHANGED store
      \/ store' = AfterCreate(store, t, task) /\ drive' = [drive EXCEPT ![s] = saved]
  BY <1>1 DEF DriveFailCreate, Shape, Types
<1>. HIDE DEF task
<1>4. /\ lost \in DriveRec /\ lost.pc = "number" /\ lost.item = Error
      /\ saved \in DriveRec /\ saved.pc = "failPush" /\ saved.cur \in Task
  BY <1>1, <1>2, ErrorIsItem DEF DriveRec, DrivePcs
<1>5. StoreOK(AfterCreate(store, t, task))
  BY <1>1, <1>2, StoreCallShape DEF Shape, Types
<1>. HIDE DEF lost, saved
<1>6. StoreOK(store')
  BY <1>3, <1>5 DEF Shape, Types
<1>7. PICK d \in {lost, saved} : drive' = [drive EXCEPT ![s] = d]
  BY <1>3
<1>8. /\ d \in DriveRec /\ d.pc \in {"number", "failPush"}
      /\ d.pc = "number" => d.item = Error
      /\ d.pc # "number" => d.cur \in Task
  BY <1>4, <1>7
<1>9. drive[s].pc \notin {"off", "finish", "done"} /\ d.pc \notin {"off", "done"}
  BY <1>1, <1>8
<1>10. QED
  BY <1>1, <1>6, <1>7, <1>8, <1>9, DriveMoves DEF Shape, Types

LEMMA DriveFailPushShape ==
  ASSUME Shape, NEW s \in Sends, DriveFailPush(s)
  PROVE  Shape' /\ GoesOn
<1>. DEFINE d == [drive[s] EXCEPT !.pc = "number", !.item = Error]
<1>1. /\ drive[s] \in DriveRec /\ drive[s].pc = "failPush"
      /\ exec[s].snapshot \in Task /\ send[s].id \in Tasks
      /\ DriveUnchanged /\ UNCHANGED <<store, exec>>
  BY DEF DriveFailPush, Shape, Types, Holds, DriveHolds, DriveRec
<1>2. drive' = [drive EXCEPT ![s] = d]
  BY <1>1 DEF DriveFailPush, Shape, Types
<1>3. d \in DriveRec /\ d.pc = "number" /\ d.item = Error
  BY <1>1, ErrorIsItem DEF DriveRec, DrivePcs
<1>4. pushed' \in [Tasks -> SUBSET TaskState]
  <2>1. Status("Failed").state \in TaskState
    BY DEF Status, TaskState, TerminalStates
  <2>2. Pushed(send[s].id, Status("Failed")) \in [Tasks -> SUBSET TaskState]
    BY <1>1, <2>1, PushedType DEF Shape, Types
  <2>3. QED
    BY <2>2 DEF DriveFailPush, Shape, Types
<1>. HIDE DEF d
<1>5. drive[s].pc \notin {"off", "finish", "done"} /\ d.pc \notin {"off", "done"}
  BY <1>1, <1>3
<1>6. QED
  BY <1>1, <1>2, <1>3, <1>4, <1>5, DriveMoves DEF Shape, Types

LEMMA DriveNumberShape ==
  ASSUME Shape, NEW s \in Sends, DriveNumber(s)
  PROVE  Shape' /\ GoesOn
<1>. DEFINE d == [drive[s] EXCEPT !.pc = "send", !.sequence = exec[s].sequence + 1]
            x == Advance(exec[s], drive[s].cur)
<1>1. /\ drive[s] \in DriveRec /\ drive[s].pc = "number" /\ exec[s] \in Exec
      /\ exec[s].snapshot \in Task /\ drive[s].cur \in Task \union {NoTask}
      /\ drive[s].item = Error \/ drive[s].cur \in Task
      /\ DriveUnchanged /\ UNCHANGED <<store, pushed>>
  BY DEF DriveNumber, Shape, Types, Holds, DriveHolds, DriveRec
<1>2. drive' = [drive EXCEPT ![s] = d] /\ exec' = [exec EXCEPT ![s] = x]
  BY <1>1 DEF DriveNumber, Shape, Types
<1>3. /\ d \in DriveRec /\ d.pc = "send" /\ d.item = drive[s].item /\ d.cur = drive[s].cur
  <2>1. exec[s].sequence + 1 \in Nat
    BY <1>1 DEF Exec
  <2>2. QED
    BY <1>1, <2>1 DEF DriveRec, DrivePcs
<1>4. x \in Exec /\ x.snapshot \in Task
  BY <1>1, AdvanceType
<1>. HIDE DEF d, x
<1>5. drive[s].pc \notin {"off", "finish", "done"} /\ d.pc \notin {"off", "done"} /\ (d.item = Error \/ d.cur \in Task)
  BY <1>1, <1>3
<1>6. /\ exec' \in [Sends -> Exec] /\ exec'[s].snapshot \in Task
      /\ \A q \in Sends \ {s} : exec'[q] = exec[q]
  BY <1>2, <1>4 DEF Shape, Types
<1>7. QED
  BY <1>1, <1>2, <1>3, <1>5, <1>6, DriveMoves DEF Shape, Types

LEMMA DriveSendShape ==
  ASSUME Shape, NEW s \in Sends, DriveSend(s)
  PROVE  Shape' /\ GoesOn
<1>. DEFINE pc == IF EndsStream(drive[s].item) THEN "finish" ELSE "pull"
            d == [drive[s] EXCEPT !.pc = pc]
            x == Broadcast(exec[s], drive[s].item, drive[s].sequence, Listeners(s))
<1>1. /\ drive[s] \in DriveRec /\ drive[s].pc = "send" /\ exec[s] \in Exec
      /\ exec[s].snapshot \in Task /\ drive[s].item \in Item /\ drive[s].sequence \in Nat
      /\ drive[s].item = Error \/ drive[s].cur \in Task
      /\ DriveUnchanged /\ UNCHANGED <<store, pushed>>
  BY DEF DriveSend, Shape, Types, Holds, DriveHolds, DriveRec
<1>2. drive' = [drive EXCEPT ![s] = d] /\ exec' = [exec EXCEPT ![s] = x]
  BY <1>1 DEF DriveSend, Shape, Types
<1>3. pc \in {"finish", "pull"} /\ (pc = "pull" => drive[s].cur \in Task)
  <2>1. EndsStream(Error)
    BY DEF EndsStream, Error
  <2>2. QED
    BY <1>1, <2>1
<1>. HIDE DEF pc
<1>4. d \in DriveRec /\ d.pc = pc /\ d.cur = drive[s].cur
  BY <1>1, <1>3 DEF DriveRec, DrivePcs
<1>5. x \in Exec /\ x.snapshot = exec[s].snapshot
  BY <1>1, BroadcastType
<1>. HIDE DEF d, x
<1>6. /\ drive[s].pc \notin {"off", "finish", "done"} /\ d.pc \in {"finish", "pull"}
      /\ d.pc \notin {"off", "done"}
      /\ d.pc = "pull" => d.cur \in Task
  BY <1>1, <1>3, <1>4
<1>7. /\ exec' \in [Sends -> Exec] /\ exec'[s].snapshot \in Task
      /\ \A q \in Sends \ {s} : exec'[q] = exec[q]
  BY <1>1, <1>2, <1>5 DEF Shape, Types
<1>8. QED
  BY <1>1, <1>2, <1>4, <1>6, <1>7, DriveMoves DEF Shape, Types

LEMMA DriveFinishShape ==
  ASSUME Shape, NEW s \in Sends, DriveFinish(s)
  PROVE  Shape'
<1>. DEFINE d == [drive[s] EXCEPT !.pc = "done"]
<1>1. /\ drive[s] \in DriveRec /\ drive[s].pc = "finish" /\ send[s].id \in Tasks
      /\ exec[s].snapshot \in Task
      /\ send[s].pc \notin {"idle", "prepared", "registered"}
      /\ UNCHANGED <<store, minted, waiting, exec, send, cancel, sub, stream, seen, pushed>>
  BY DEF DriveFinish, streams, Shape, Types, Holds, SendHolds, DriveHolds
<1>2. drive' = [drive EXCEPT ![s] = d] /\ registry' \in [Tasks -> Sends \union {None}]
  BY <1>1 DEF DriveFinish, Unregister, Shape, Types
<1>3. d \in DriveRec /\ d.pc = "done"
  BY <1>1 DEF DriveRec, DrivePcs
<1>. HIDE DEF d
<1>4. /\ drive' \in [Sends -> DriveRec] /\ drive'[s] = d
      /\ \A q \in Sends \ {s} : drive'[q] = drive[q]
  BY <1>2, <1>3 DEF Shape, Types
<1>5. Types'
  BY <1>1, <1>2, <1>4 DEF Shape, Types, StoreOK
<1>6. SendHolds(s)' /\ DriveHolds(s)'
  BY <1>1, <1>3, <1>4 DEF Shape, Holds, SendHolds, DriveHolds
<1>7. OnlyS(s)
  BY <1>1, <1>4 DEF OnlyS
<1>8. \A u \in Subs : sub[u].pc = "attaching" => stream'[u].src \in Sends
  BY <1>1 DEF Shape, Holds, SubHolds
<1>9. Holds'
  BY <1>1, <1>6, <1>7, <1>8, HoldsOfS DEF Shape
<1>10. QED
  BY <1>5, <1>9 DEF Shape

LEMMA DriveShape ==
  ASSUME Shape, NEW s \in Sends, DriveStep(s)
  PROVE  Shape' /\ (GoesOn \/ DriveFinish(s))
BY DriveSnapshotShape, DriveEndShape, DrivePullShape, DriveSaveShape, DriveCreateShape,
   DrivePushShape, DriveFailShape, DriveFailCreateShape, DriveFailPushShape,
   DriveNumberShape, DriveSendShape, DriveFinishShape DEF DriveStep

(* The handler of s goes to another record of its own; the registry and    *)
(* the drives stay.                                                        *)
LEMMA SendMoves ==
  ASSUME Shape, NEW s \in Sends, NEW r \in SendRec, send' = [send EXCEPT ![s] = r],
         UNCHANGED <<manager, drive, cancel, sub, pushed>>,
         StoreOK(store'), minted' \subseteq Tasks,
         stream' \in [Sends \union Subs -> StreamRec],
         seen' \in [Sends \union Subs -> Seq(Yielded)],
         \A q \in (Sends \union Subs) \ {s} : stream'[q] = stream[q],
         r.pc \in {"streaming", "reload"} => stream'[s].src = s,
         \/ /\ drive[s].pc = "off" /\ r.pc = "prepared" /\ send[s].pc = "idle"
            /\ r.task \in Task /\ r.id \in Tasks
         \/ r.pc \in {"streaming", "reload"} /\ r.id = send[s].id
              /\ send[s].pc \in {"streaming", "reload"}
         \/ r.pc = "done" /\ r.id = send[s].id /\ send[s].pc # "registered"
  PROVE  Shape' /\ GoesOn
<1>1. UNCHANGED <<registry, waiting, exec, drive, cancel, sub, pushed>>
  BY DEF manager
<1>2. /\ send' \in [Sends -> SendRec] /\ send'[s] = r
      /\ \A q \in Sends \ {s} : send'[q] = send[q]
  BY DEF Shape, Types
<1>3. Types'
  BY <1>1, <1>2 DEF Shape, Types
<1>4. SendHolds(s)'
  BY <1>1, <1>2 DEF Shape, Holds, SendHolds
<1>5. DriveHolds(s)'
  BY <1>1, <1>2 DEF Shape, Holds, DriveHolds
<1>6. OnlyS(s)
  BY <1>1, <1>2 DEF OnlyS
<1>7. \A u \in Subs : sub[u].pc = "attaching" => stream'[u].src \in Sends
  <2>1. s \notin Subs
    BY ModelAssumption
  <2>2. QED
    BY <2>1 DEF Shape, Holds, SubHolds
<1>8. Holds'
  BY <1>1, <1>4, <1>5, <1>6, <1>7, HoldsOfS DEF Shape
<1>9. GoesOn
  BY <1>1, <1>2 DEF GoesOn, SendGoesOn, CancelGoesOn, Running, DriveLive
<1>10. QED
  BY <1>3, <1>8, <1>9 DEF Shape

(* ... or is over.                                                         *)
LEMMA AnswerShape ==
  ASSUME Shape, NEW s \in Sends, NEW reply \in Replies, Answer(s, reply), send[s].pc # "registered",
         UNCHANGED <<manager, drive, cancel, sub, pushed, store, minted>>,
         stream' \in [Sends \union Subs -> StreamRec],
         seen' \in [Sends \union Subs -> Seq(Yielded)],
         \A q \in (Sends \union Subs) \ {s} : stream'[q] = stream[q]
  PROVE  Shape' /\ GoesOn
<1>. DEFINE r == [send[s] EXCEPT !.pc = "done", !.reply = reply]
<1>1. send[s] \in SendRec
  BY DEF Shape, Types
<1>2. send' = [send EXCEPT ![s] = r]
  BY DEF Answer, Shape, Types
<1>3. r \in SendRec /\ r.pc = "done" /\ r.id = send[s].id
  BY <1>1 DEF SendRec, SendPcs
<1>. HIDE DEF r
<1>4. StoreOK(store') /\ minted' \subseteq Tasks
  BY DEF Shape, Types, StoreOK
<1>5. QED
  BY <1>2, <1>3, <1>4, SendMoves

LEMMA SendPrepareShape ==
  ASSUME Shape, NEW s \in Sends, NEW t \in Tasks, NEW m \in Modes,
         SendExisting(s, t, m) \/ SendNew(s, t, m)
  PROVE  Shape' /\ GoesOn
<1>1. /\ send[s].pc = "idle" /\ UNCHANGED <<manager, drive, cancel, sub, streams, pushed>>
      /\ UNCHANGED <<stream, seen>>
  BY DEF SendExisting, SendNew, streams
<1>2. drive[s].pc = "off"
  BY <1>1 DEF Shape, Holds, SendHolds
<1>3. /\ stream' \in [Sends \union Subs -> StreamRec]
      /\ seen' \in [Sends \union Subs -> Seq(Yielded)]
  BY <1>1 DEF Shape, Types
<1>4. ASSUME NEW task \in Task, StoreOK(store'), minted' \subseteq Tasks,
             send' = [send EXCEPT ![s] = [pc |-> "prepared", id |-> t, mode |-> m,
                                          reply |-> "none", task |-> task]]
      PROVE  Shape' /\ GoesOn
  <2>. DEFINE r == [pc |-> "prepared", id |-> t, mode |-> m, reply |-> "none", task |-> task]
  <2>1. r \in SendRec /\ r.pc = "prepared" /\ r.id = t /\ r.task = task
    BY DEF SendRec, SendPcs, Replies
  <2>2. send' = [send EXCEPT ![s] = r]
    BY <1>4
  <2>. HIDE DEF r
  <2>3. QED
    BY <1>1, <1>2, <1>3, <1>4, <2>1, <2>2, SendMoves
<1>5. CASE SendExisting(s, t, m)
  <2>1. UNCHANGED <<store, minted>>
    BY <1>5 DEF SendExisting
  <2>2. \/ \E reply \in Replies : Answer(s, reply)
        \/ /\ CanBeginCancel(store, t)
           /\ send' = [send EXCEPT ![s] =
                [pc |-> "prepared", id |-> t, mode |-> m, reply |-> "none",
                 task |-> [store.entries[t].task EXCEPT !.history = @ \union {s}]]]
    BY <1>5 DEF SendExisting, Replies
  <2>3. CASE \E reply \in Replies : Answer(s, reply)
    BY <1>1, <1>3, <2>1, <2>3, AnswerShape
  <2>4. CASE /\ CanBeginCancel(store, t)
             /\ send' = [send EXCEPT ![s] =
                  [pc |-> "prepared", id |-> t, mode |-> m, reply |-> "none",
                   task |-> [store.entries[t].task EXCEPT !.history = @ \union {s}]]]
    <3>1. store.entries[t].task \in Task
      BY <2>4, StoredTask DEF CanBeginCancel, Shape, Types
    <3>2. [store.entries[t].task EXCEPT !.history = @ \union {s}] \in Task
      BY <3>1 DEF Task
    <3>3. StoreOK(store') /\ minted' \subseteq Tasks
      BY <2>1 DEF Shape, Types, StoreOK
    <3>4. QED
      BY <1>4, <2>4, <3>2, <3>3
  <2>5. QED
    BY <2>2, <2>3, <2>4
<1>6. CASE SendNew(s, t, m)
  <2>. DEFINE task == [state |-> "Submitted", history |-> {s}]
  <2>1. task \in Task
    <3>1. "Submitted" \in TaskState /\ {s} \in SUBSET Sends
      BY DEF TaskState, LiveStates
    <3>2. QED
      BY <3>1 DEF Task
  <2>2. /\ minted' = minted \union {t} /\ store' = AfterCreate(store, t, task)
        /\ send' = [send EXCEPT ![s] = [pc |-> "prepared", id |-> t, mode |-> m,
                                        reply |-> "none", task |-> task]]
    BY <1>6 DEF SendNew
  <2>. HIDE DEF task
  <2>3. StoreOK(store') /\ minted' \subseteq Tasks
    BY <2>1, <2>2, StoreCallShape DEF Shape, Types
  <2>4. QED
    BY <1>4, <2>1, <2>2, <2>3
<1>7. QED
  BY <1>5, <1>6

LEMMA SendRefusedShape ==
  ASSUME Shape, NEW s \in Sends, SendConfigRefused(s)
  PROVE  Shape' /\ GoesOn
<1>1. /\ Answer(s, "error") /\ "error" \in Replies /\ send[s].pc # "registered"
      /\ UNCHANGED <<manager, drive, cancel, sub, pushed, store, minted, stream, seen>>
  BY DEF SendConfigRefused, streams, Replies
<1>2. QED
  BY <1>1, AnswerShape DEF Shape, Types

LEMMA SendDroppedShape ==
  ASSUME Shape, NEW s \in Sends, SendDropped(s)
  PROVE  Shape' /\ GoesOn
<1>1. /\ Answer(s, "dropped") /\ "dropped" \in Replies /\ send[s].pc # "registered"
      /\ UNCHANGED <<manager, drive, cancel, sub, pushed, store, minted, seen>>
      /\ stream' = [stream EXCEPT ![s] = NoStream]
  BY DEF SendDropped, Replies
<1>2. QED
  BY <1>1, AnswerShape, NoStreamType DEF Shape, Types

LEMMA SendReloadShape ==
  ASSUME Shape, NEW s \in Sends, SendReload(s)
  PROVE  Shape' /\ GoesOn
<1>1. PICK reply \in {StateOf(store, send[s].id), "notFound"} : 
        /\ Answer(s, reply) /\ (Stored(store, send[s].id) \/ reply = "notFound")
  BY DEF SendReload
<1>2. /\ UNCHANGED <<manager, drive, cancel, sub, pushed, store, minted, seen>>
      /\ stream' = [stream EXCEPT ![s] = NoStream]
      /\ send[s].id \in Tasks /\ send[s].pc # "registered"
  BY DEF SendReload, Shape, Holds, SendHolds
<1>3. reply \in Replies
  <2>1. CASE reply = "notFound"
    BY <2>1 DEF Replies
  <2>2. CASE Stored(store, send[s].id) /\ reply # "notFound"
    <3>1. reply \in TaskState
      BY <1>1, <1>2, <2>2, StoredTask DEF Shape, Types
    <3>2. QED
      BY <3>1 DEF Replies
  <2>3. QED
    BY <1>1, <2>1, <2>2
<1>4. QED
  BY <1>1, <1>2, <1>3, AnswerShape, NoStreamType DEF Shape, Types

LEMMA SendEndShape ==
  ASSUME Shape, NEW s \in Sends, SendEnd(s)
  PROVE  Shape' /\ GoesOn
<1>. DEFINE last == IF seen[s] = <<>> THEN Error ELSE seen[s][Len(seen[s])].event
<1>1. /\ send[s].pc = "streaming" /\ send[s] \in SendRec /\ send[s].id \in Tasks
      /\ stream[s].src = s
      /\ UNCHANGED <<manager, drive, cancel, sub, pushed, store, minted, seen>>
  BY DEF SendEnd, Shape, Types, Holds, SendHolds
<1>2. \/ Answer(s, "ended") /\ stream' = [stream EXCEPT ![s] = NoStream]
      \/ /\ last.kind = "task" /\ Answer(s, last.state)
         /\ stream' = [stream EXCEPT ![s] = NoStream]
      \/ send' = [send EXCEPT ![s].pc = "reload"] /\ UNCHANGED stream
  BY DEF SendEnd
<1>3. last.kind = "task" => last.state \in Replies
  <2>1. seen[s] # <<>> => Len(seen[s]) \in 1 .. Len(seen[s])
    BY EmptySeq, LenProperties DEF Shape, Types
  <2>2. seen[s] # <<>> => seen[s][Len(seen[s])] \in Yielded
    BY <2>1, ElementOfSeq DEF Shape, Types
  <2>3. last \in Item \union {Snapshot(st) : st \in TaskState} \union {LagError}
    BY <2>2, ErrorIsItem DEF Yielded
  <2>. HIDE DEF last
  <2>4. last.kind = "task" => last.state \in TaskState
    BY <2>3, ItemsAssumption DEF Item, Error, LagError, Snapshot
  <2>5. QED
    BY <2>4 DEF Replies
<1>. HIDE DEF last
<1>4. ASSUME NEW reply \in Replies, Answer(s, reply),
             stream' = [stream EXCEPT ![s] = NoStream]
      PROVE  Shape' /\ GoesOn
  BY <1>1, <1>4, AnswerShape, NoStreamType DEF Shape, Types
<1>5. CASE send' = [send EXCEPT ![s].pc = "reload"] /\ UNCHANGED stream
  <2>. DEFINE r == [send[s] EXCEPT !.pc = "reload"]
  <2>1. send' = [send EXCEPT ![s] = r]
    BY <1>5 DEF Shape, Types
  <2>2. r \in SendRec /\ r.pc = "reload" /\ r.id = send[s].id
    BY <1>1 DEF SendRec, SendPcs
  <2>. HIDE DEF r
  <2>3. StoreOK(store') /\ minted' \subseteq Tasks
    BY <1>1 DEF Shape, Types, StoreOK
  <2>4. QED
    BY <1>1, <1>5, <2>1, <2>2, <2>3, SendMoves DEF Shape, Types
<1>6. "ended" \in Replies
  BY DEF Replies
<1>7. QED
  BY <1>2, <1>3, <1>4, <1>5, <1>6

(* A stream that yields.                                                   *)
LEMMA YieldShape ==
  ASSUME Types, NEW p \in Sends \union Subs, Opened(p), NEW keep \in BOOLEAN,
         CanDeliver(Source(p), stream[p].sub), Yield(p, keep)
  PROVE  /\ stream' \in [Sends \union Subs -> StreamRec]
         /\ seen' \in [Sends \union Subs -> Seq(Yielded)]
         /\ \A q \in (Sends \union Subs) \ {p} : stream'[q] = stream[q] /\ seen'[q] = seen[q]
         /\ keep => stream'[p].src = stream[p].src
<1>. DEFINE r == AfterDelivery(Source(p), stream[p].sub)
<1>1. stream[p] \in StreamRec /\ Source(p) \in Exec /\ stream[p].sub \in Receiver
  BY SourceType DEF Types
<1>2. r \in Receiver /\ Next1(p) \in Yielded
  BY <1>1, DeliveryShape DEF Polls, Next1
<1>3. /\ seen' = [seen EXCEPT ![p] = Append(seen[p], Next1(p))]
      /\ stream' = [stream EXCEPT ![p] = IF keep THEN [src |-> stream[p].src, sub |-> r]
                                                 ELSE NoStream]
  BY DEF Yield, Types
<1>. HIDE DEF r
<1>4. [src |-> stream[p].src, sub |-> r] \in StreamRec
  BY <1>1, <1>2 DEF StreamRec
<1>5. Append(seen[p], Next1(p)) \in Seq(Yielded)
  BY <1>2, AppendProperties DEF Types
<1>6. QED
  BY <1>3, <1>4, <1>5, NoStreamType DEF Types

LEMMA SendReceiveShape ==
  ASSUME Shape, NEW s \in Sends, SendReceive(s)
  PROVE  Shape' /\ GoesOn
<1>1. /\ send[s].pc = "streaming" /\ send[s] \in SendRec /\ stream[s].src = s
      /\ CanDeliver(Source(s), stream[s].sub) /\ Opened(s)
      /\ UNCHANGED <<manager, drive, cancel, sub, pushed, store, minted>>
  <2>1. send[s].pc = "streaming" /\ send[s] \in SendRec /\ stream[s].src = s
    BY DEF SendReceive, Shape, Types, Holds, SendHolds
  <2>2. s # None
    BY ModelAssumption
  <2>3. QED
    BY <2>1, <2>2 DEF SendReceive, Opened
<1>2. \/ \E reply \in Replies : Answer(s, reply) /\ Yield(s, FALSE)
      \/ send' = [send EXCEPT ![s].pc = "reload"] /\ Yield(s, TRUE)
      \/ Yield(s, TRUE) /\ UNCHANGED send
  BY DEF SendReceive, Replies
<1>3. CASE \E reply \in Replies : Answer(s, reply) /\ Yield(s, FALSE)
  BY <1>1, <1>3, YieldShape, AnswerShape DEF Shape
<1>4. ASSUME NEW pc \in {"reload", "streaming"},
             send' = [send EXCEPT ![s] = [send[s] EXCEPT !.pc = pc]], Yield(s, TRUE)
      PROVE  Shape' /\ GoesOn
  <2>. DEFINE r == [send[s] EXCEPT !.pc = pc]
  <2>1. r \in SendRec /\ r.pc = pc /\ r.id = send[s].id
    BY <1>1 DEF SendRec, SendPcs
  <2>2. send' = [send EXCEPT ![s] = r]
    BY <1>4
  <2>. HIDE DEF r
  <2>3. StoreOK(store') /\ minted' \subseteq Tasks
    BY <1>1 DEF Shape, Types, StoreOK
  <2>4. /\ stream' \in [Sends \union Subs -> StreamRec]
        /\ seen' \in [Sends \union Subs -> Seq(Yielded)]
        /\ \A q \in (Sends \union Subs) \ {s} : stream'[q] = stream[q]
        /\ stream'[s].src = s
    BY <1>1, <1>4, YieldShape DEF Shape
  <2>5. QED
    BY <1>1, <2>1, <2>2, <2>3, <2>4, SendMoves
<1>5. CASE send' = [send EXCEPT ![s].pc = "reload"] /\ Yield(s, TRUE)
  <2>1. send' = [send EXCEPT ![s] = [send[s] EXCEPT !.pc = "reload"]]
    BY <1>5 DEF Shape, Types
  <2>2. QED
    BY <1>4, <1>5, <2>1
<1>6. CASE Yield(s, TRUE) /\ UNCHANGED send
  <2>1. [send[s] EXCEPT !.pc = "streaming"] = send[s]
    BY <1>1 DEF SendRec
  <2>2. send' = [send EXCEPT ![s] = [send[s] EXCEPT !.pc = "streaming"]]
    BY <1>6, <2>1 DEF Shape, Types
  <2>3. QED
    BY <1>4, <1>6, <2>2
<1>7. QED
  BY <1>2, <1>3, <1>5, <1>6

(* start, which attaches whoever waits, and start_execution after it.      *)
LEMMA SendStartShape ==
  ASSUME Shape, NEW s \in Sends, SendStart(s)
  PROVE  Shape' /\ (registry[send[s].id] # None => GoesOn)
<1>. DEFINE t == send[s].id
            r == [send[s] EXCEPT !.pc = "registered"]
            open == [src |-> s, sub |-> Subscription(0, send[s].task, 0)]
<1>1. /\ send[s] \in SendRec /\ send[s].pc = "prepared" /\ t \in Tasks /\ drive[s].pc = "off"
      /\ send[s].task \in Task /\ RegistryFree
      /\ UNCHANGED <<store, minted, drive, cancel, sub, seen, pushed>>
  BY DEF SendStart, Shape, Types, Holds, SendHolds
<1>2. CASE Answer(s, "inProgress") /\ UNCHANGED <<manager, stream>>
  <2>1. "inProgress" \in Replies
    BY DEF Replies
  <2>2. QED
    BY <1>1, <1>2, <2>1, AnswerShape DEF Shape, Types
<1>3. CASE /\ registry[t] = None
           /\ send'     = [send EXCEPT ![s].pc = "registered"]
           /\ registry' = [registry EXCEPT ![t] = s]
           /\ exec'     = [exec EXCEPT ![s] = NewExecution(send[s].task)]
           /\ waiting'  = [waiting EXCEPT ![t] = {}]
           /\ stream'   = [p \in Sends \union Subs |-> IF p \in waiting[t] THEN open
                                                                         ELSE stream[p]]
  <2>1. /\ r \in SendRec /\ r.pc = "registered" /\ r.id = t /\ r.task = send[s].task
        /\ send' = [send EXCEPT ![s] = r]
    BY <1>1, <1>3 DEF SendRec, SendPcs, Shape, Types
  <2>2. NewExecution(send[s].task) \in Exec /\ NewExecution(send[s].task).snapshot = send[s].task
    BY <1>1, NewTypes
  <2>3. open \in StreamRec /\ open.src = s
    <3>1. Subscription(0, send[s].task, 0) \in Receiver
      BY <1>1, NewTypes
    <3>2. QED
      BY <3>1 DEF StreamRec
  <2>. HIDE DEF r, open
  <2>4. /\ send' \in [Sends -> SendRec] /\ send'[s] = r
        /\ \A q \in Sends \ {s} : send'[q] = send[q]
        /\ exec' \in [Sends -> Exec] /\ exec'[s].snapshot \in Task
        /\ \A q \in Sends \ {s} : exec'[q] = exec[q]
    BY <1>1, <1>3, <2>1, <2>2 DEF Shape, Types
  <2>5. /\ registry' \in [Tasks -> Sends \union {None}]
        /\ waiting' \in [Tasks -> SUBSET Subs]
        /\ \A v \in Tasks : waiting'[v] \subseteq waiting[v]
        /\ waiting[t] \subseteq Subs
    BY <1>1, <1>3 DEF Shape, Types
  <2>6. /\ stream' \in [Sends \union Subs -> StreamRec]
        /\ \A q \in Sends : stream'[q] = stream[q]
    <3>1. \A q \in Sends : q \notin waiting[t]
      BY <2>5, ModelAssumption
    <3>2. QED
      BY <1>3, <2>3, <3>1 DEF Shape, Types
  <2>7. Types'
    BY <1>1, <2>4, <2>5, <2>6 DEF Shape, Types, StoreOK
  <2>8. SendHolds(s)' /\ DriveHolds(s)'
    BY <1>1, <2>1, <2>4 DEF SendHolds, DriveHolds
  <2>9. OnlyS(s)
    BY <1>1, <2>4, <2>6 DEF OnlyS
  <2>10. Holds'
    BY <1>1, <2>5, <2>8, <2>9, HoldsOfS DEF Shape, RegistryFree
  <2>11. QED
    BY <1>3, <2>7, <2>10 DEF Shape
<1>4. QED
  BY <1>2, <1>3 DEF SendStart

LEMMA SendSpawnShape ==
  ASSUME Shape, NEW s \in Sends, SendSpawn(s)
  PROVE  Shape' /\ GoesOn
<1>. DEFINE r == [send[s] EXCEPT !.pc = "streaming"]
            d == [drive[s] EXCEPT !.pc = "ready"]
            open == [src |-> s, sub |-> Subscription(Len(exec[s].sent), NoTask, 0)]
<1>1. /\ send[s] \in SendRec /\ send[s].pc = "registered" /\ send[s].id \in Tasks
      /\ drive[s] \in DriveRec /\ exec[s].snapshot \in Task
      /\ send'   = [send EXCEPT ![s].pc = "streaming"]
      /\ stream' = [stream EXCEPT ![s] = open]
      /\ drive'  = [drive EXCEPT ![s].pc = "ready"]
      /\ UNCHANGED <<store, minted, registry, waiting, exec, cancel, sub, seen, pushed>>
  BY DEF SendSpawn, manager, Shape, Types, Holds, SendHolds
<1>2. /\ r \in SendRec /\ r.pc = "streaming" /\ r.id = send[s].id
      /\ send' = [send EXCEPT ![s] = r]
      /\ d \in DriveRec /\ d.pc = "ready" /\ drive' = [drive EXCEPT ![s] = d]
  BY <1>1 DEF SendRec, SendPcs, DriveRec, DrivePcs, Shape, Types
<1>3. open \in StreamRec /\ open.src = s
  <2>1. Len(exec[s].sent) \in Nat
    BY LenProperties DEF Shape, Types, Exec
  <2>2. Subscription(Len(exec[s].sent), NoTask, 0) \in Receiver
    BY <2>1, NewTypes
  <2>3. QED
    BY <2>2 DEF StreamRec
<1>. HIDE DEF r, d, open
<1>4. /\ send' \in [Sends -> SendRec] /\ send'[s] = r
      /\ drive' \in [Sends -> DriveRec] /\ drive'[s] = d
      /\ stream' \in [Sends \union Subs -> StreamRec] /\ stream'[s] = open
      /\ \A q \in Sends \ {s} : send'[q] = send[q] /\ drive'[q] = drive[q]
      /\ \A q \in (Sends \union Subs) \ {s} : stream'[q] = stream[q]
  <2>1. /\ send' \in [Sends -> SendRec] /\ send'[s] = r
        /\ \A q \in Sends \ {s} : send'[q] = send[q]
    BY <1>2 DEF Shape, Types
  <2>2. /\ drive' \in [Sends -> DriveRec] /\ drive'[s] = d
        /\ \A q \in Sends \ {s} : drive'[q] = drive[q]
    BY <1>2 DEF Shape, Types
  <2>3. /\ stream' \in [Sends \union Subs -> StreamRec] /\ stream'[s] = open
        /\ \A q \in (Sends \union Subs) \ {s} : stream'[q] = stream[q]
    BY <1>1, <1>3 DEF Shape, Types
  <2>4. QED
    BY <2>1, <2>2, <2>3
<1>5. Types'
  BY <1>1, <1>4 DEF Shape, Types, StoreOK
<1>6. SendHolds(s)' /\ DriveHolds(s)'
  BY <1>1, <1>2, <1>3, <1>4 DEF SendHolds, DriveHolds
<1>7. OnlyS(s)
  BY <1>1, <1>4 DEF OnlyS
<1>8. \A u \in Subs : sub[u].pc = "attaching" => stream'[u].src \in Sends
  <2>1. s \notin Subs
    BY ModelAssumption
  <2>2. QED
    BY <1>4, <2>1 DEF Shape, Holds, SubHolds
<1>9. Holds'
  BY <1>1, <1>6, <1>7, <1>8, HoldsOfS DEF Shape
<1>10. GoesOn
  BY <1>1, <1>2, <1>4 DEF GoesOn, SendGoesOn, CancelGoesOn, Running, DriveLive
<1>11. QED
  BY <1>5, <1>9, <1>10 DEF Shape

(* An event skipped, on a stream of either kind.                           *)
LEMMA SkipMoves ==
  ASSUME Shape, NEW p \in Sends \union Subs, Skip(p)
  PROVE  /\ stream' \in [Sends \union Subs -> StreamRec]
         /\ \A q \in Sends \union Subs :
              /\ stream'[q].src = stream[q].src
              /\ stream'[q].sub.min = stream[q].sub.min
              /\ stream'[q].sub.snapshot = stream[q].sub.snapshot
<1>. DEFINE r == [src |-> stream[p].src, sub |-> AfterSkip(stream[p].sub)]
<1>1. stream[p] \in StreamRec /\ stream[p].sub \in Receiver
  BY SourceType DEF Skip, Shape, Types
<1>2. /\ AfterSkip(stream[p].sub) \in Receiver
      /\ AfterSkip(stream[p].sub).min = stream[p].sub.min
      /\ AfterSkip(stream[p].sub).snapshot = stream[p].sub.snapshot
  BY <1>1 DEF Receiver, AfterSkip
<1>3. r \in StreamRec /\ stream' = [stream EXCEPT ![p] = r]
  <2>1. stream' = [stream EXCEPT ![p].sub = AfterSkip(stream[p].sub)]
    BY DEF Skip
  <2>2. [stream[p] EXCEPT !.sub = AfterSkip(stream[p].sub)] = r
    BY <1>1 DEF StreamRec
  <2>3. QED
    BY <1>1, <1>2, <2>1, <2>2 DEF StreamRec, Shape, Types
<1>4. QED
  BY <1>2, <1>3 DEF Shape, Types

LEMMA SkipShape ==
  ASSUME Shape, NEW p \in Sends \union Subs, Skip(p)
  PROVE  Shape' /\ GoesOn
<1>1. /\ UNCHANGED <<store, minted, registry, waiting, exec, send, drive, cancel, sub, seen,
                     pushed>>
      /\ stream' \in [Sends \union Subs -> StreamRec]
      /\ \A q \in Sends \union Subs : stream'[q].src = stream[q].src
  BY SkipMoves DEF Skip, manager, handlers
<1>2. Types'
  BY <1>1 DEF Shape, Types, StoreOK
<1>3. \A s \in Sends : SendHolds(s)' /\ DriveHolds(s)'
  BY <1>1 DEF Shape, Holds, SendHolds, DriveHolds
<1>4. \A c \in Cancels : CancelHolds(c)'
  BY <1>1 DEF Shape, Holds, CancelHolds
<1>5. \A u \in Subs : SubHolds(u)'
  BY <1>1 DEF Shape, Holds, SubHolds
<1>6. GoesOn
  BY <1>1 DEF GoesOn, SendGoesOn, CancelGoesOn, Running, DriveLive
<1>7. QED
  BY <1>2, <1>3, <1>4, <1>5, <1>6 DEF Shape, Holds

LEMMA SendShape ==
  ASSUME Shape, NEW s \in Sends, SendStep(s)
  PROVE  Shape' /\ (GoesOn \/ (SendStart(s) /\ registry[send[s].id] = None))
<1>1. CASE SendStart(s)
  <2>1. Shape' /\ (registry[send[s].id] # None => GoesOn)
    BY <1>1, SendStartShape
  <2>2. QED
    BY <1>1, <2>1
<1>2. CASE ~SendStart(s)
  <2>1. Shape' /\ GoesOn
    BY <1>2, SendSpawnShape, SendReceiveShape, SendEndShape, SendReloadShape, SkipShape
    DEF SendStep
  <2>2. QED
    BY <2>1
<1>3. QED
  BY <1>1, <1>2

-----------------------------------------------------------------------------
(* The steps of a subscription.                                            *)

LEMMA SubMoves ==
  ASSUME Shape, NEW u \in Subs, NEW r \in SubRec, sub' = [sub EXCEPT ![u] = r], SubUnchanged,
         waiting' \in [Tasks -> SUBSET Subs],
         \A t \in Tasks : waiting'[t] \subseteq waiting[t] \union {u},
         stream' \in [Sends \union Subs -> StreamRec],
         seen' \in [Sends \union Subs -> Seq(Yielded)],
         \A q \in (Sends \union Subs) \ {u} : stream'[q] = stream[q],
         r.pc # "idle" => r.id \in Tasks,
         r.pc = "decide" => r.task \in Task,
         r.pc = "attaching" => stream'[u].src \in Sends,
         \A t \in Tasks : u \in waiting'[t] =>
           r.pc \in {"load", "decide", "streaming"} /\ r.id = t
  PROVE  Shape' /\ GoesOn
<1>1. UNCHANGED <<store, minted, registry, exec, send, drive, cancel, pushed>>
  BY DEF SubUnchanged
<1>2. /\ sub' \in [Subs -> SubRec] /\ sub'[u] = r
      /\ \A v \in Subs \ {u} : sub'[v] = sub[v]
  BY DEF Shape, Types
<1>3. Types'
  BY <1>1, <1>2 DEF Shape, Types, StoreOK
<1>4. ASSUME NEW s \in Sends PROVE SendHolds(s)' /\ DriveHolds(s)'
  <2>1. stream'[s] = stream[s]
    BY ModelAssumption
  <2>2. QED
    BY <1>1, <2>1 DEF Shape, Holds, SendHolds, DriveHolds
<1>5. ASSUME NEW c \in Cancels PROVE CancelHolds(c)'
  BY <1>1 DEF Shape, Holds, CancelHolds
<1>6. ASSUME NEW v \in Subs PROVE SubHolds(v)'
  <2>1. CASE v = u
    BY <1>2, <2>1 DEF SubHolds
  <2>2. CASE v # u
    <3>1. SubHolds(v) /\ sub'[v] = sub[v] /\ stream'[v] = stream[v]
      BY <1>2, <2>2 DEF Shape, Holds
    <3>2. \A t \in Tasks : v \in waiting'[t] => v \in waiting[t]
      BY <2>2
    <3>3. QED
      BY <3>1, <3>2 DEF SubHolds
  <2>3. QED
    BY <2>1, <2>2
<1>7. GoesOn
  BY <1>1 DEF GoesOn, SendGoesOn, CancelGoesOn, Running, DriveLive
<1>8. QED
  BY <1>3, <1>4, <1>5, <1>6, <1>7 DEF Shape, Holds

(* A subscription waits for its own task only, so once withdrawn it waits  *)
(* for none.                                                               *)
LEMMA WithdrawShape ==
  ASSUME Shape, NEW u \in Subs, sub[u].pc # "idle", Withdraw(u), SubUnchanged,
         seen' \in [Sends \union Subs -> Seq(Yielded)]
  PROVE  Shape' /\ GoesOn
<1>. DEFINE r == [sub[u] EXCEPT !.pc = "done"]
<1>1. sub[u] \in SubRec /\ sub[u].id \in Tasks
  BY DEF Shape, Types, Holds, SubHolds
<1>2. /\ sub' = [sub EXCEPT ![u] = r] /\ r \in SubRec /\ r.pc = "done" /\ r.id = sub[u].id
  BY <1>1 DEF Withdraw, SubRec, SubPcs, Shape, Types
<1>. HIDE DEF r
<1>3. /\ waiting' \in [Tasks -> SUBSET Subs]
      /\ \A t \in Tasks : waiting'[t] \subseteq waiting[t]
      /\ u \notin waiting'[sub[u].id]
  BY <1>1 DEF Withdraw, Shape, Types
<1>4. \A t \in Tasks : u \notin waiting'[t]
  BY <1>3 DEF Shape, Holds, SubHolds
<1>5. /\ stream' \in [Sends \union Subs -> StreamRec]
      /\ \A q \in (Sends \union Subs) \ {u} : stream'[q] = stream[q]
  BY NoStreamType DEF Withdraw, Shape, Types
<1>6. QED
  BY <1>1, <1>2, <1>3, <1>4, <1>5, SubMoves

LEMMA SubRegisterShape ==
  ASSUME Shape, NEW u \in Subs, NEW t \in Tasks, SubRegister(u, t)
  PROVE  Shape' /\ GoesOn
<1>1. /\ sub[u].pc = "idle" /\ sub[u] \in SubRec /\ SubUnchanged /\ UNCHANGED seen
  BY DEF SubRegister, Shape, Types
<1>2. \A v \in Tasks : u \notin waiting[v]
  BY <1>1 DEF Shape, Holds, SubHolds
<1>3. CASE /\ registry[t] # None
           /\ sub'    = [sub EXCEPT ![u].pc = "attaching", ![u].id = t]
           /\ stream' = [stream EXCEPT ![u] =
                [src |-> registry[t],
                 sub |-> Subscription(Len(exec[registry[t]].sent), NoTask, 0)]]
           /\ UNCHANGED waiting
  <2>. DEFINE r    == [sub[u] EXCEPT !.pc = "attaching", !.id = t]
              open == [src |-> registry[t],
                       sub |-> Subscription(Len(exec[registry[t]].sent), NoTask, 0)]
  <2>1. sub' = [sub EXCEPT ![u] = r] /\ r \in SubRec /\ r.pc = "attaching" /\ r.id = t
    BY <1>1, <1>3 DEF SubRec, SubPcs, Shape, Types
  <2>2. registry[t] \in Sends
    BY <1>3 DEF Shape, Types
  <2>3. open \in StreamRec /\ open.src \in Sends
    <3>1. Len(exec[registry[t]].sent) \in Nat
      BY <2>2, LenProperties DEF Shape, Types, Exec
    <3>2. Subscription(Len(exec[registry[t]].sent), NoTask, 0) \in Receiver
      BY <3>1, NewTypes
    <3>3. QED
      BY <2>2, <3>2 DEF StreamRec
  <2>. HIDE DEF r, open
  <2>4. stream' = [stream EXCEPT ![u] = open]
    BY <1>3 DEF open
  <2>5. /\ stream' \in [Sends \union Subs -> StreamRec] /\ stream'[u] = open
        /\ \A q \in (Sends \union Subs) \ {u} : stream'[q] = stream[q]
    BY <2>3, <2>4 DEF Shape, Types
  <2>6. /\ waiting' \in [Tasks -> SUBSET Subs] /\ seen' \in [Sends \union Subs -> Seq(Yielded)]
    BY <1>1, <1>3 DEF Shape, Types
  <2>7. QED
    BY <1>1, <1>2, <1>3, <2>1, <2>3, <2>5, <2>6, SubMoves
<1>4. CASE /\ registry[t] = None
           /\ sub'     = [sub EXCEPT ![u].pc = "load", ![u].id = t]
           /\ waiting' = [waiting EXCEPT ![t] = @ \union {u}]
           /\ UNCHANGED stream
  <2>. DEFINE r == [sub[u] EXCEPT !.pc = "load", !.id = t]
  <2>1. sub' = [sub EXCEPT ![u] = r] /\ r \in SubRec /\ r.pc = "load" /\ r.id = t
    BY <1>1, <1>4 DEF SubRec, SubPcs, Shape, Types
  <2>. HIDE DEF r
  <2>2. /\ waiting' \in [Tasks -> SUBSET Subs]
        /\ \A v \in Tasks : waiting'[v] \subseteq waiting[v] \union {u}
        /\ \A v \in Tasks : u \in waiting'[v] => v = t
    BY <1>2, <1>4 DEF Shape, Types
  <2>3. /\ stream' \in [Sends \union Subs -> StreamRec]
        /\ seen' \in [Sends \union Subs -> Seq(Yielded)]
    BY <1>1, <1>4 DEF Shape, Types
  <2>4. QED
    BY <1>1, <1>4, <2>1, <2>2, <2>3, SubMoves
<1>5. QED
  BY <1>3, <1>4 DEF SubRegister

(* A subscription that only moves on, still of its task and in its place.  *)
LEMMA SubOnShape ==
  ASSUME Shape, NEW u \in Subs, SubUnchanged, UNCHANGED waiting,
         sub[u].pc # "idle",
         NEW pc \in {"decide", "streaming"}, NEW task \in Task \union {NoTask},
         pc = "decide" => task \in Task,
         sub' = [sub EXCEPT ![u] = [sub[u] EXCEPT !.pc = pc, !.task = task]],
         stream' \in [Sends \union Subs -> StreamRec],
         seen' \in [Sends \union Subs -> Seq(Yielded)],
         \A q \in (Sends \union Subs) \ {u} : stream'[q] = stream[q]
  PROVE  Shape' /\ GoesOn
<1>. DEFINE r == [sub[u] EXCEPT !.pc = pc, !.task = task]
<1>1. sub[u] \in SubRec /\ sub[u].id \in Tasks
  BY DEF Shape, Types, Holds, SubHolds
<1>2. r \in SubRec /\ r.pc = pc /\ r.id = sub[u].id /\ r.task = task
  BY <1>1 DEF SubRec, SubPcs
<1>3. sub' = [sub EXCEPT ![u] = r]
  OBVIOUS
<1>. HIDE DEF r
<1>4. /\ waiting' \in [Tasks -> SUBSET Subs]
      /\ \A t \in Tasks : waiting'[t] \subseteq waiting[t] \union {u}
      /\ \A t \in Tasks : u \in waiting'[t] => sub[u].id = t
  BY DEF Shape, Types, Holds, SubHolds
<1>5. /\ r.pc # "idle" => r.id \in Tasks
      /\ r.pc = "decide" => r.task \in Task
      /\ r.pc # "attaching" /\ r.pc \in {"load", "decide", "streaming"}
      /\ \A t \in Tasks : u \in waiting'[t] => r.id = t
  BY <1>1, <1>2, <1>4
<1>6. QED
  BY <1>2, <1>3, <1>4, <1>5, SubMoves

LEMMA SubAttachShape ==
  ASSUME Shape, NEW u \in Subs, SubAttach(u)
  PROVE  /\ Shape' /\ GoesOn
         /\ stream'[u].src = stream[u].src /\ stream'[u].sub.min = exec[stream[u].src].sequence
<1>. DEFINE x == exec[stream[u].src]
            r == [src |-> stream[u].src,
                  sub |-> [stream[u].sub EXCEPT !.snapshot = x.snapshot, !.min = x.sequence]]
<1>1. /\ sub[u].pc = "attaching" /\ sub[u] \in SubRec /\ stream[u] \in StreamRec
      /\ stream[u].src \in Sends /\ SubUnchanged /\ UNCHANGED <<waiting, seen>>
  BY DEF SubAttach, Shape, Types, Holds, SubHolds
<1>2. x \in Exec
  BY <1>1 DEF Shape, Types
<1>3. stream' = [stream EXCEPT ![u] = r]
  <2>1. [stream[u] EXCEPT !.sub = [stream[u].sub EXCEPT !.snapshot = x.snapshot,
                                                        !.min = x.sequence]] = r
    BY <1>1 DEF StreamRec
  <2>2. stream' = [stream EXCEPT ![u] =
                     [stream[u] EXCEPT !.sub = [stream[u].sub EXCEPT !.snapshot = x.snapshot,
                                                                     !.min = x.sequence]]]
    BY DEF SubAttach, Shape, Types
  <2>3. QED
    BY <2>1, <2>2
<1>4. r \in StreamRec /\ r.src = stream[u].src /\ r.sub.min = x.sequence
  BY <1>1, <1>2 DEF StreamRec, Receiver, Exec
<1>5. sub' = [sub EXCEPT ![u] = [sub[u] EXCEPT !.pc = "streaming", !.task = sub[u].task]]
  <2>1. [sub[u] EXCEPT !.pc = "streaming", !.task = sub[u].task] = [sub[u] EXCEPT !.pc = "streaming"]
    BY <1>1 DEF SubRec
  <2>2. QED
    BY <2>1 DEF SubAttach, Shape, Types
<1>6. sub[u].task \in Task \union {NoTask}
  BY <1>1 DEF SubRec
<1>. HIDE DEF r, x
<1>7. /\ stream' \in [Sends \union Subs -> StreamRec] /\ stream'[u] = r
      /\ \A q \in (Sends \union Subs) \ {u} : stream'[q] = stream[q]
  BY <1>3, <1>4 DEF Shape, Types
<1>8. Shape' /\ GoesOn
  <2>1. seen' \in [Sends \union Subs -> Seq(Yielded)]
    BY <1>1 DEF Shape, Types
  <2>2. QED
    BY <1>1, <1>5, <1>6, <1>7, <2>1, SubOnShape
<1>9. QED
  BY <1>4, <1>7, <1>8 DEF x

LEMMA SubLoadShape ==
  ASSUME Shape, NEW u \in Subs, SubLoad(u)
  PROVE  Shape' /\ GoesOn
<1>1. /\ sub[u].pc = "load" /\ sub[u] \in SubRec /\ sub[u].id \in Tasks
      /\ SubUnchanged /\ UNCHANGED seen /\ seen' \in [Sends \union Subs -> Seq(Yielded)]
  BY DEF SubLoad, Shape, Types, Holds, SubHolds
<1>2. CASE Withdraw(u)
  BY <1>1, <1>2, WithdrawShape
<1>3. CASE /\ Stored(store, sub[u].id)
           /\ sub' = [sub EXCEPT ![u].pc = "decide",
                                 ![u].task = store.entries[sub[u].id].task]
           /\ UNCHANGED <<waiting, stream>>
  <2>1. store.entries[sub[u].id].task \in Task
    BY <1>1, <1>3, StoredTask DEF Shape, Types
  <2>2. sub' = [sub EXCEPT ![u] = [sub[u] EXCEPT !.pc = "decide",
                                                 !.task = store.entries[sub[u].id].task]]
    BY <1>3 DEF Shape, Types
  <2>3. QED
    BY <1>1, <1>3, <2>1, <2>2, SubOnShape DEF Shape, Types
<1>4. QED
  BY <1>2, <1>3 DEF SubLoad

LEMMA SubDecideShape ==
  ASSUME Shape, NEW u \in Subs, SubDecide(u)
  PROVE  Shape' /\ GoesOn
<1>1. /\ sub[u].pc = "decide" /\ sub[u] \in SubRec /\ sub[u].task \in Task /\ SubUnchanged
  BY DEF SubDecide, Shape, Types, Holds, SubHolds
<1>2. CASE Withdraw(u) /\ UNCHANGED seen
  BY <1>1, <1>2, WithdrawShape DEF Shape, Types
<1>3. CASE /\ sub' = [sub EXCEPT ![u].pc = "streaming"]
           /\ UNCHANGED <<waiting, stream>> /\ seen' \in [Sends \union Subs -> Seq(Yielded)]
  <2>1. [sub[u] EXCEPT !.pc = "streaming"] = [sub[u] EXCEPT !.pc = "streaming", !.task = sub[u].task]
    BY <1>1 DEF SubRec
  <2>2. sub' = [sub EXCEPT ![u] = [sub[u] EXCEPT !.pc = "streaming", !.task = sub[u].task]]
    BY <1>3, <2>1 DEF Shape, Types
  <2>3. QED
    BY <1>1, <1>3, <2>2, SubOnShape DEF Shape, Types
<1>4. seen' = [seen EXCEPT ![u] = <<[event |-> Snapshot(sub[u].task.state), sequence |-> 0]>>]
        => seen' \in [Sends \union Subs -> Seq(Yielded)]
  <2>1. sub[u].task.state \in TaskState
    BY <1>1 DEF Task
  <2>2. [event |-> Snapshot(sub[u].task.state), sequence |-> 0] \in Yielded
    BY <2>1 DEF Yielded
  <2>3. <<[event |-> Snapshot(sub[u].task.state), sequence |-> 0]>> \in Seq(Yielded)
    BY <2>2
  <2>4. QED
    BY <2>3 DEF Shape, Types
<1>5. \/ sub' = [sub EXCEPT ![u].pc = "streaming"] /\ UNCHANGED <<waiting, stream, seen>>
      \/ Withdraw(u) /\ UNCHANGED seen
      \/ /\ sub' = [sub EXCEPT ![u].pc = "streaming"] /\ UNCHANGED <<waiting, stream>>
         /\ seen' = [seen EXCEPT ![u] =
              <<[event |-> Snapshot(sub[u].task.state), sequence |-> 0]>>]
  BY DEF SubDecide, streams
<1>6. CASE sub' = [sub EXCEPT ![u].pc = "streaming"] /\ UNCHANGED <<waiting, stream, seen>>
  BY <1>3, <1>6 DEF Shape, Types
<1>7. QED
  BY <1>2, <1>3, <1>4, <1>5, <1>6

LEMMA SubReceiveShape ==
  ASSUME Shape, NEW u \in Subs, SubReceive(u)
  PROVE  Shape' /\ GoesOn
<1>1. /\ sub[u].pc = "streaming" /\ sub[u] \in SubRec /\ SubUnchanged
      /\ UNCHANGED <<sub, waiting>> /\ Yield(u, TRUE) /\ Opened(u)
      /\ CanDeliver(Source(u), stream[u].sub)
  BY DEF SubReceive, Shape, Types
<1>2. sub' = [sub EXCEPT ![u] = [sub[u] EXCEPT !.pc = "streaming", !.task = sub[u].task]]
  <2>1. [sub[u] EXCEPT !.pc = "streaming", !.task = sub[u].task] = sub[u]
    BY <1>1 DEF SubRec
  <2>2. QED
    BY <1>1, <2>1 DEF Shape, Types
<1>3. sub[u].task \in Task \union {NoTask}
  BY <1>1 DEF SubRec
<1>4. /\ stream' \in [Sends \union Subs -> StreamRec]
      /\ seen' \in [Sends \union Subs -> Seq(Yielded)]
      /\ \A q \in (Sends \union Subs) \ {u} : stream'[q] = stream[q]
  BY <1>1, YieldShape DEF Shape
<1>5. QED
  BY <1>1, <1>2, <1>3, <1>4, SubOnShape

LEMMA SubEndShape ==
  ASSUME Shape, NEW u \in Subs, SubEnd(u) \/ SubDropped(u)
  PROVE  Shape' /\ GoesOn
<1>1. sub[u].pc # "idle" /\ Withdraw(u) /\ SubUnchanged /\ UNCHANGED seen
  BY DEF SubEnd, SubDropped
<1>2. QED
  BY <1>1, WithdrawShape DEF Shape, Types

LEMMA SubShape ==
  ASSUME Shape, NEW u \in Subs, SubStep(u)
  PROVE  Shape' /\ GoesOn
BY SubAttachShape, SubLoadShape, SubDecideShape, SubReceiveShape, SubEndShape, SkipShape
DEF SubStep

-----------------------------------------------------------------------------
(* The steps of a cancel.                                                  *)

LEMMA CancelMoves ==
  ASSUME Shape, NEW c \in Cancels, NEW r \in CancelRec, cancel' = [cancel EXCEPT ![c] = r],
         CancelUnchanged, StoreOK(store'), registry' \in [Tasks -> Sends \union {None}],
         pushed' \in [Tasks -> SUBSET TaskState],
         exec' \in [Sends -> Exec],
         \A s \in Sends : exec[s].snapshot \in Task => exec'[s].snapshot \in Task,
         r.pc \notin {"idle", "done"} \/ r.final # NoTask => r.id \in Tasks,
         r.pc \notin {"idle", "begin", "raced", "done"} => r.final \in Task,
         r.pc \in {"lookup", "pull", "save", "create", "push", "next"} => r.cur \in Task,
         r.pc \in {"number", "send"} =>
           (r.item = Error \/ r.cur \in Task) /\ r.active \in Sends,
         r.pc # "idle", cancel[c].pc = "idle" \/ r.id = cancel[c].id,
         r.final = cancel[c].final \/ r.final \in Task
  PROVE  Shape' /\ (UNCHANGED registry => GoesOn)
<1>1. UNCHANGED <<minted, waiting, send, drive, sub, stream, seen>>
  BY DEF CancelUnchanged, streams
<1>2. /\ cancel' \in [Cancels -> CancelRec] /\ cancel'[c] = r
      /\ \A d \in Cancels \ {c} : cancel'[d] = cancel[d]
  BY DEF Shape, Types
<1>3. Types'
  BY <1>1, <1>2 DEF Shape, Types
<1>4. ASSUME NEW s \in Sends PROVE SendHolds(s)' /\ DriveHolds(s)'
  BY <1>1 DEF Shape, Holds, SendHolds, DriveHolds
<1>5. ASSUME NEW d \in Cancels PROVE CancelHolds(d)'
  <2>1. CASE d = c
    BY <1>2, <2>1 DEF CancelHolds
  <2>2. CASE d # c
    BY <1>2, <2>2 DEF Shape, Holds, CancelHolds
  <2>3. QED
    BY <2>1, <2>2
<1>6. ASSUME NEW u \in Subs PROVE SubHolds(u)'
  BY <1>1 DEF Shape, Holds, SubHolds
<1>7. ASSUME UNCHANGED registry PROVE GoesOn
  BY <1>1, <1>2, <1>7, NoTaskAssumption DEF GoesOn, SendGoesOn, CancelGoesOn, Running, DriveLive
<1>8. QED
  BY <1>3, <1>4, <1>5, <1>6, <1>7 DEF Shape, Holds

LEMMA CancelQuiet ==
  ASSUME Shape, NEW c \in Cancels, NEW r \in CancelRec, cancel' = [cancel EXCEPT ![c] = r],
         CancelUnchanged, StoreOK(store'), UNCHANGED <<registry, exec>>,
         pushed' \in [Tasks -> SUBSET TaskState],
         r.pc \notin {"idle", "done"} \/ r.final # NoTask => r.id \in Tasks,
         r.pc \notin {"idle", "begin", "raced", "done"} => r.final \in Task,
         r.pc \in {"lookup", "pull", "save", "create", "push", "next"} => r.cur \in Task,
         r.pc \in {"number", "send"} =>
           (r.item = Error \/ r.cur \in Task) /\ r.active \in Sends,
         r.pc # "idle", cancel[c].pc = "idle" \/ r.id = cancel[c].id,
         r.final = cancel[c].final \/ r.final \in Task
  PROVE  Shape' /\ GoesOn
<1>1. /\ registry' \in [Tasks -> Sends \union {None}] /\ exec' \in [Sends -> Exec]
      /\ \A s \in Sends : exec[s].snapshot \in Task => exec'[s].snapshot \in Task
  BY DEF Shape, Types
<1>2. QED
  BY <1>1, CancelMoves

(* The record a cancel holds past begin_cancel.                            *)
LEMMA CancelHeld ==
  ASSUME Shape, NEW c \in Cancels
  PROVE  /\ cancel[c] \in CancelRec
         /\ cancel[c].pc \notin {"idle", "begin", "raced", "done"} =>
              cancel[c].id \in Tasks /\ cancel[c].final \in Task
         /\ cancel[c].pc \in {"begin", "raced"} => cancel[c].id \in Tasks
         /\ cancel[c].pc \in {"lookup", "pull", "save", "create", "push", "next"} =>
              cancel[c].cur \in Task
         /\ StoreOK(store) /\ pushed \in [Tasks -> SUBSET TaskState]
BY DEF Shape, Types, Holds, CancelHolds

LEMMA UnwindShape ==
  ASSUME Shape, NEW c \in Cancels, NEW reply \in Replies, Unwind(c, reply),
         cancel[c].pc \notin {"idle", "begin", "raced", "done"},
         CancelUnchanged, UNCHANGED <<store, registry, exec>>,
         pushed' \in [Tasks -> SUBSET TaskState]
  PROVE  Shape' /\ GoesOn
<1>. DEFINE r == [cancel[c] EXCEPT !.pc = "release", !.active = None, !.reply = reply]
<1>1. cancel[c] \in CancelRec /\ cancel[c].id \in Tasks /\ cancel[c].final \in Task
  BY CancelHeld
<1>2. r \in CancelRec /\ r.pc = "release" /\ r.id = cancel[c].id /\ r.final = cancel[c].final
  BY <1>1 DEF CancelRec, CancelPcs
<1>3. cancel' = [cancel EXCEPT ![c] = r]
  BY DEF Unwind, Shape, Types
<1>. HIDE DEF r
<1>4. StoreOK(store')
  BY DEF Shape, Types, StoreOK
<1>5. QED
  BY <1>1, <1>2, <1>3, <1>4, CancelQuiet

LEMMA ConcludeShape ==
  ASSUME Shape, NEW c \in Cancels, NEW reply \in Replies, Conclude(c, reply),
         CancelUnchanged, UNCHANGED <<store, registry, exec, pushed>>
  PROVE  Shape' /\ GoesOn
<1>. DEFINE r == [cancel[c] EXCEPT !.pc = "done", !.reply = reply]
<1>1. cancel[c] \in CancelRec /\ (cancel[c].final # NoTask => cancel[c].id \in Tasks)
  BY DEF Shape, Types, Holds, CancelHolds
<1>2. r \in CancelRec /\ r.pc = "done" /\ r.id = cancel[c].id /\ r.final = cancel[c].final
  BY <1>1 DEF CancelRec, CancelPcs
<1>3. cancel' = [cancel EXCEPT ![c] = r]
  BY DEF Conclude, Shape, Types
<1>. HIDE DEF r
<1>4. StoreOK(store') /\ pushed' \in [Tasks -> SUBSET TaskState]
  BY DEF Shape, Types, StoreOK
<1>5. QED
  BY <1>1, <1>2, <1>3, <1>4, CancelQuiet

LEMMA CancelLoadShape ==
  ASSUME Shape, NEW c \in Cancels, NEW t \in Tasks, CancelLoad(c, t)
  PROVE  Shape' /\ GoesOn
<1>1. /\ cancel[c] \in CancelRec /\ cancel[c].pc = "idle"
      /\ CancelUnchanged /\ UNCHANGED <<store, registry, exec, pushed>>
  BY CancelHeld DEF CancelLoad
<1>2. \/ \E reply \in Replies : Conclude(c, reply)
      \/ cancel' = [cancel EXCEPT ![c].pc = "begin", ![c].id = t]
  BY DEF CancelLoad, Replies
<1>3. CASE \E reply \in Replies : Conclude(c, reply)
  BY <1>1, <1>3, ConcludeShape
<1>4. CASE cancel' = [cancel EXCEPT ![c].pc = "begin", ![c].id = t]
  <2>. DEFINE r == [cancel[c] EXCEPT !.pc = "begin", !.id = t]
  <2>1. r \in CancelRec /\ r.pc = "begin" /\ r.id = t /\ r.final = cancel[c].final
    BY <1>1 DEF CancelRec, CancelPcs
  <2>2. cancel' = [cancel EXCEPT ![c] = r]
    BY <1>4 DEF Shape, Types
  <2>. HIDE DEF r
  <2>3. StoreOK(store') /\ pushed' \in [Tasks -> SUBSET TaskState]
    BY <1>1 DEF Shape, Types, StoreOK
  <2>4. QED
    BY <1>1, <2>1, <2>2, <2>3, CancelQuiet
<1>5. QED
  BY <1>2, <1>3, <1>4

LEMMA CancelBeginShape ==
  ASSUME Shape, NEW c \in Cancels, CancelBegin(c)
  PROVE  Shape' /\ GoesOn
<1>. DEFINE t == cancel[c].id
            task == CanceledTask(store, t)
<1>1. /\ cancel[c] \in CancelRec /\ cancel[c].pc = "begin" /\ t \in Tasks
      /\ CancelUnchanged /\ UNCHANGED <<registry, exec, pushed>>
      /\ pushed' \in [Tasks -> SUBSET TaskState]
  BY CancelHeld DEF CancelBegin
<1>2. CASE /\ CanBeginCancel(store, t) /\ store' = AfterBeginCancel(store, t)
           /\ cancel' = [cancel EXCEPT ![c].pc = "lookup", ![c].cur = task, ![c].final = task]
  <2>. DEFINE r == [cancel[c] EXCEPT !.pc = "lookup", !.cur = task, !.final = task]
  <2>1. StoreOK(store') /\ task \in Task
    <3>1. StoreOK(store) /\ Stored(store, t) /\ store.entries[t].task \in Task
      BY <1>1, <1>2, StoredTask DEF CanBeginCancel, Shape, Types
    <3>2. QED
      BY <1>1, <1>2, <3>1, StoreCallShape
  <2>2. cancel' = [cancel EXCEPT ![c] = r]
    BY <1>2 DEF Shape, Types
  <2>. HIDE DEF task
  <2>3. r \in CancelRec /\ r.pc = "lookup" /\ r.id = t /\ r.cur = task /\ r.final = task
    BY <1>1, <2>1 DEF CancelRec, CancelPcs
  <2>. HIDE DEF r
  <2>4. QED
    BY <1>1, <2>1, <2>2, <2>3, CancelQuiet
<1>3. CASE cancel' = [cancel EXCEPT ![c].pc = "raced"] /\ UNCHANGED store
  <2>. DEFINE r == [cancel[c] EXCEPT !.pc = "raced"]
  <2>1. r \in CancelRec /\ r.pc = "raced" /\ r.id = t /\ r.final = cancel[c].final
    BY <1>1 DEF CancelRec, CancelPcs
  <2>2. cancel' = [cancel EXCEPT ![c] = r]
    BY <1>3 DEF Shape, Types
  <2>. HIDE DEF r
  <2>3. StoreOK(store')
    BY <1>3 DEF Shape, Types, StoreOK
  <2>4. QED
    BY <1>1, <2>1, <2>2, <2>3, CancelQuiet
<1>4. CASE Conclude(c, "notFound") /\ UNCHANGED store
  <2>1. "notFound" \in Replies
    BY DEF Replies
  <2>2. QED
    BY <1>1, <1>4, <2>1, ConcludeShape
<1>5. QED
  BY <1>2, <1>3, <1>4 DEF CancelBegin

LEMMA CancelRacedShape ==
  ASSUME Shape, NEW c \in Cancels, CancelRaced(c)
  PROVE  Shape' /\ GoesOn
<1>1. /\ \E reply \in {"notFound", "ok", "notCancelable"} : Conclude(c, reply)
      /\ CancelUnchanged /\ UNCHANGED <<store, registry, exec, pushed>>
  BY DEF CancelRaced
<1>2. {"notFound", "ok", "notCancelable"} \subseteq Replies
  BY DEF Replies
<1>3. QED
  BY <1>1, <1>2, ConcludeShape

LEMMA CancelLookupShape ==
  ASSUME Shape, NEW c \in Cancels, CancelLookup(c)
  PROVE  Shape' /\ GoesOn
<1>. DEFINE r == [cancel[c] EXCEPT !.pc = "pull", !.active = registry[cancel[c].id]]
<1>1. /\ cancel[c] \in CancelRec /\ cancel[c].pc = "lookup" /\ cancel[c].id \in Tasks
      /\ cancel[c].final \in Task /\ cancel[c].cur \in Task
      /\ CancelUnchanged /\ UNCHANGED <<store, registry, exec, pushed>>
      /\ pushed' \in [Tasks -> SUBSET TaskState]
  BY CancelHeld DEF CancelLookup
<1>2. registry[cancel[c].id] \in Sends \union {None}
  BY <1>1 DEF Shape, Types
<1>3. /\ r \in CancelRec /\ r.pc = "pull" /\ r.id = cancel[c].id /\ r.cur = cancel[c].cur
      /\ r.final = cancel[c].final
  BY <1>1, <1>2 DEF CancelRec, CancelPcs
<1>4. cancel' = [cancel EXCEPT ![c] = r]
  BY DEF CancelLookup, Shape, Types
<1>. HIDE DEF r
<1>5. StoreOK(store')
  BY <1>1 DEF Shape, Types, StoreOK
<1>6. QED
  BY <1>1, <1>3, <1>4, <1>5, CancelQuiet

(* The steps that leave most of the record alone.                          *)
LEMMA CancelPcShape ==
  ASSUME Shape, NEW c \in Cancels,
         cancel[c].pc \notin {"idle", "begin", "raced", "done"},
         NEW pc \in CancelPcs \ {"idle"}, cancel' = [cancel EXCEPT ![c].pc = pc],
         pc \in {"lookup", "pull", "save", "create", "push", "next"} => cancel[c].cur \in Task,
         pc \in {"number", "send"} =>
           (cancel[c].item = Error \/ cancel[c].cur \in Task) /\ cancel[c].active # None,
         CancelUnchanged, StoreOK(store'), UNCHANGED <<registry, exec>>,
         pushed' \in [Tasks -> SUBSET TaskState]
  PROVE  Shape' /\ GoesOn
<1>. DEFINE r == [cancel[c] EXCEPT !.pc = pc]
<1>1. cancel[c] \in CancelRec /\ cancel[c].id \in Tasks /\ cancel[c].final \in Task
  BY CancelHeld
<1>2. /\ r \in CancelRec /\ r.pc = pc /\ r.id = cancel[c].id /\ r.final = cancel[c].final
      /\ r.cur = cancel[c].cur /\ r.item = cancel[c].item /\ r.active = cancel[c].active
  BY <1>1 DEF CancelRec
<1>3. cancel' = [cancel EXCEPT ![c] = r]
  BY DEF Shape, Types
<1>. HIDE DEF r
<1>4. r.pc \in {"number", "send"} => (r.item = Error \/ r.cur \in Task) /\ r.active \in Sends
  <2>1. cancel[c].active # None => cancel[c].active \in Sends
    BY <1>1 DEF CancelRec
  <2>2. QED
    BY <1>2, <2>1
<1>5. QED
  BY <1>1, <1>2, <1>3, <1>4, CancelQuiet

LEMMA CancelEndShape ==
  ASSUME Shape, NEW c \in Cancels, CancelEnd(c)
  PROVE  Shape' /\ GoesOn
<1>1. /\ cancel[c].pc = "pull" /\ cancel' = [cancel EXCEPT ![c].pc = "finish"]
      /\ CancelUnchanged /\ UNCHANGED <<store, registry, exec, pushed>>
      /\ "finish" \in CancelPcs \ {"idle"}
  BY DEF CancelEnd, CancelPcs
<1>2. StoreOK(store') /\ pushed' \in [Tasks -> SUBSET TaskState]
  BY <1>1 DEF Shape, Types, StoreOK
<1>3. QED
  BY <1>1, <1>2, CancelPcShape

LEMMA AfterCancelSavePc ==
  ASSUME NEW c \in Cancels
  PROVE  /\ AfterCancelSave(c) \in {"push", "number", "next"}
         /\ AfterCancelSave(c) = "number" => cancel[c].active # None
BY DEF AfterCancelSave

LEMMA CancelPullShape ==
  ASSUME Shape, NEW c \in Cancels, NEW e \in CancelItems, CancelPull(c, e)
  PROVE  Shape' /\ GoesOn
<1>. DEFINE pc == IF e = Error THEN IF cancel[c].active # None THEN "number" ELSE "errorPush"
                  ELSE IF NeedsSave(e) THEN "save" ELSE AfterCancelSave(c)
            cur == IF e = Error THEN NoTask ELSE cancel[c].cur
            r == [cancel[c] EXCEPT !.item = e, !.count = cancel[c].count + 1, !.cur = cur,
                                   !.pc = pc]
<1>1. /\ cancel[c] \in CancelRec /\ cancel[c].pc = "pull" /\ cancel[c].id \in Tasks
      /\ cancel[c].final \in Task /\ cancel[c].cur \in Task /\ cancel[c].count < MaxCancel
      /\ CancelUnchanged /\ UNCHANGED <<store, registry, exec, pushed>>
  BY CancelHeld DEF CancelPull
<1>2. /\ pc \in CancelPcs /\ pc \notin {"idle", "lookup", "pull", "create"}
      /\ pc \in {"save", "push", "next"} => e # Error
      /\ pc \in {"number", "send"} => cancel[c].active \in Sends /\ (e = Error \/ e # Error)
  <2>1. cancel[c].active # None => cancel[c].active \in Sends
    BY <1>1 DEF CancelRec
  <2>2. QED
    BY <2>1, AfterCancelSavePc DEF CancelPcs
<1>3. cancel' = [cancel EXCEPT ![c] = r]
  BY DEF CancelPull, Shape, Types
<1>4. cur \in Task \union {NoTask} /\ (e # Error => cur \in Task)
  BY <1>1
<1>. HIDE DEF pc, cur
<1>5. /\ r \in CancelRec /\ r.pc = pc /\ r.id = cancel[c].id /\ r.final = cancel[c].final
      /\ r.cur = cur /\ r.item = e /\ r.active = cancel[c].active
  <2>1. cancel[c].count + 1 \in 0 .. MaxCancel /\ e \in Item
    BY <1>1, ModelAssumption DEF CancelRec, Item
  <2>2. QED
    BY <1>1, <1>2, <1>4, <2>1 DEF CancelRec
<1>. HIDE DEF r
<1>6. StoreOK(store') /\ pushed' \in [Tasks -> SUBSET TaskState]
  BY <1>1 DEF Shape, Types, StoreOK
<1>7. /\ r.pc \in {"lookup", "pull", "save", "create", "push", "next"} => r.cur \in Task
      /\ r.pc \in {"number", "send"} => (r.item = Error \/ r.cur \in Task) /\ r.active \in Sends
  BY <1>2, <1>4, <1>5
<1>8. r.pc # "idle" /\ r.id \in Tasks /\ r.final \in Task
  BY <1>1, <1>2, <1>5
<1>9. QED
  BY <1>1, <1>3, <1>5, <1>6, <1>7, <1>8, CancelQuiet

(* The save of a cancel's item, by either call of the store.               *)
LEMMA CancelSavedShape ==
  ASSUME Shape, NEW c \in Cancels, cancel[c].pc \in {"save", "create"},
         NEW task \in Task,
         cancel' = [cancel EXCEPT ![c].pc = AfterCancelSave(c), ![c].cur = task],
         CancelUnchanged, StoreOK(store'), UNCHANGED <<registry, exec, pushed>>
  PROVE  Shape' /\ GoesOn
<1>. DEFINE r == [cancel[c] EXCEPT !.pc = AfterCancelSave(c), !.cur = task]
<1>1. /\ cancel[c] \in CancelRec /\ cancel[c].id \in Tasks /\ cancel[c].final \in Task
      /\ pushed' \in [Tasks -> SUBSET TaskState]
  BY CancelHeld
<1>2. AfterCancelSave(c) \in CancelPcs \ {"idle"}
  BY AfterCancelSavePc DEF CancelPcs
<1>3. /\ r \in CancelRec /\ r.pc = AfterCancelSave(c) /\ r.id = cancel[c].id
      /\ r.final = cancel[c].final /\ r.cur = task /\ r.active = cancel[c].active
  BY <1>1, <1>2 DEF CancelRec
<1>4. cancel' = [cancel EXCEPT ![c] = r]
  BY DEF Shape, Types
<1>. HIDE DEF r
<1>5. r.pc \in {"number", "send"} => (r.item = Error \/ r.cur \in Task) /\ r.active \in Sends
  <2>1. cancel[c].active # None => cancel[c].active \in Sends
    BY <1>1 DEF CancelRec
  <2>2. QED
    BY <1>3, <2>1, AfterCancelSavePc
<1>6. r.pc # "idle" /\ r.id \in Tasks /\ r.final \in Task /\ r.cur \in Task
  BY <1>1, <1>2, <1>3
<1>7. QED
  BY <1>1, <1>3, <1>4, <1>5, <1>6, CancelQuiet

LEMMA CancelSaveShape ==
  ASSUME Shape, NEW c \in Cancels, CancelSave(c)
  PROVE  Shape' /\ GoesOn
<1>. DEFINE t    == cancel[c].id
            task == Applied(cancel[c].cur, cancel[c].item)
<1>1. /\ cancel[c] \in CancelRec /\ cancel[c].pc = "save" /\ t \in Tasks
      /\ cancel[c].cur \in Task /\ StoreOK(store)
      /\ CancelUnchanged /\ UNCHANGED <<registry, exec, pushed>>
      /\ pushed' \in [Tasks -> SUBSET TaskState]
  BY CancelHeld DEF CancelSave
<1>2. task \in Task
  BY <1>1, AppliedTask DEF CancelRec
<1>3. \/ /\ SaveOutcome(t, task) = "saved" /\ store' = AfterUpdate(store, t, task)
         /\ cancel' = [cancel EXCEPT ![c].pc = AfterCancelSave(c), ![c].cur = task]
      \/ cancel' = [cancel EXCEPT ![c].pc = "create"] /\ UNCHANGED store
      \/ Unwind(c, "error") /\ UNCHANGED store
  BY DEF CancelSave
<1>. HIDE DEF task
<1>4. CASE /\ SaveOutcome(t, task) = "saved" /\ store' = AfterUpdate(store, t, task)
           /\ cancel' = [cancel EXCEPT ![c].pc = AfterCancelSave(c), ![c].cur = task]
  <2>1. Stored(store, t)
    BY <1>4 DEF SaveOutcome, CanUpdate
  <2>2. StoreOK(store')
    BY <1>1, <1>2, <1>4, <2>1, StoreCallShape
  <2>3. QED
    BY <1>1, <1>2, <1>4, <2>2, CancelSavedShape
<1>5. CASE cancel' = [cancel EXCEPT ![c].pc = "create"] /\ UNCHANGED store
  <2>1. StoreOK(store') /\ "create" \in CancelPcs \ {"idle"}
    BY <1>1, <1>5 DEF StoreOK, CancelPcs
  <2>2. QED
    BY <1>1, <1>5, <2>1, CancelPcShape
<1>6. CASE Unwind(c, "error") /\ UNCHANGED store
  <2>1. "error" \in Replies
    BY DEF Replies
  <2>2. QED
    BY <1>1, <1>6, <2>1, UnwindShape
<1>7. QED
  BY <1>3, <1>4, <1>5, <1>6

LEMMA CancelCreateShape ==
  ASSUME Shape, NEW c \in Cancels, CancelCreate(c)
  PROVE  Shape' /\ GoesOn
<1>. DEFINE t    == cancel[c].id
            task == Applied(cancel[c].cur, cancel[c].item)
<1>1. /\ cancel[c] \in CancelRec /\ cancel[c].pc = "create" /\ t \in Tasks
      /\ cancel[c].cur \in Task /\ StoreOK(store)
      /\ CancelUnchanged /\ UNCHANGED <<registry, exec, pushed>>
      /\ pushed' \in [Tasks -> SUBSET TaskState]
  BY CancelHeld DEF CancelCreate
<1>2. task \in Task
  BY <1>1, AppliedTask DEF CancelRec
<1>3. \/ /\ store' = AfterCreate(store, t, task)
         /\ cancel' = [cancel EXCEPT ![c].pc = AfterCancelSave(c), ![c].cur = task]
      \/ Unwind(c, "error") /\ UNCHANGED store
  BY DEF CancelCreate
<1>. HIDE DEF task
<1>4. CASE /\ store' = AfterCreate(store, t, task)
           /\ cancel' = [cancel EXCEPT ![c].pc = AfterCancelSave(c), ![c].cur = task]
  <2>1. StoreOK(store')
    BY <1>1, <1>2, <1>4, StoreCallShape
  <2>2. QED
    BY <1>1, <1>2, <1>4, <2>1, CancelSavedShape
<1>5. CASE Unwind(c, "error") /\ UNCHANGED store
  <2>1. "error" \in Replies
    BY DEF Replies
  <2>2. QED
    BY <1>1, <1>5, <2>1, UnwindShape
<1>6. QED
  BY <1>3, <1>4, <1>5

LEMMA CancelPushShape ==
  ASSUME Shape, NEW c \in Cancels, CancelPush(c)
  PROVE  Shape' /\ GoesOn
<1>. DEFINE pc == IF cancel[c].active # None THEN "number" ELSE "next"
<1>1. /\ cancel[c] \in CancelRec /\ cancel[c].pc = "push" /\ cancel[c].id \in Tasks
      /\ cancel[c].cur \in Task /\ CancelUnchanged /\ UNCHANGED <<store, registry, exec>>
      /\ pushed' = Pushed(cancel[c].id, cancel[c].item)
  BY CancelHeld DEF CancelPush
<1>2. pushed' \in [Tasks -> SUBSET TaskState]
  BY <1>1, PushedType, CancelHeld DEF CancelRec
<1>3. CASE cancel' = [cancel EXCEPT ![c].pc = pc]
  <2>1. pc \in CancelPcs \ {"idle"} /\ (pc = "number" => cancel[c].active # None)
        /\ pc \in {"number", "next"}
    BY DEF CancelPcs
  <2>. HIDE DEF pc
  <2>2. StoreOK(store')
    BY <1>1 DEF Shape, Types, StoreOK
  <2>3. QED
    BY <1>1, <1>2, <1>3, <2>1, <2>2, CancelPcShape
<1>4. CASE Unwind(c, "error")
  <2>1. "error" \in Replies
    BY DEF Replies
  <2>2. QED
    BY <1>1, <1>2, <1>4, <2>1, UnwindShape
<1>5. QED
  BY <1>3, <1>4 DEF CancelPush

LEMMA CancelNextShape ==
  ASSUME Shape, NEW c \in Cancels, CancelNext(c)
  PROVE  Shape' /\ GoesOn
<1>. DEFINE ends == IsTerminalEvent(cancel[c].item)
            pc   == IF ends THEN "finish" ELSE "pull"
            r    == [cancel[c] EXCEPT !.pc = pc, !.pushed = ends]
<1>1. /\ cancel[c] \in CancelRec /\ cancel[c].pc = "next" /\ cancel[c].id \in Tasks
      /\ cancel[c].final \in Task /\ cancel[c].cur \in Task
      /\ CancelUnchanged /\ UNCHANGED <<store, registry, exec, pushed>>
  BY CancelHeld DEF CancelNext
<1>2. pc \in {"finish", "pull"} /\ ends \in BOOLEAN
  BY DEF IsTerminalEvent, IsTerminal
<1>3. cancel' = [cancel EXCEPT ![c] = r]
  BY DEF CancelNext, Shape, Types
<1>. HIDE DEF pc, ends
<1>4. /\ r \in CancelRec /\ r.pc = pc /\ r.id = cancel[c].id /\ r.final = cancel[c].final
      /\ r.cur = cancel[c].cur
  BY <1>1, <1>2 DEF CancelRec, CancelPcs
<1>. HIDE DEF r
<1>5. StoreOK(store') /\ pushed' \in [Tasks -> SUBSET TaskState]
  BY <1>1 DEF Shape, Types, StoreOK
<1>6. QED
  BY <1>1, <1>2, <1>3, <1>4, <1>5, CancelQuiet

(* publish, by a cancel: the execution is the one it looked up.            *)
LEMMA CancelPublishShape ==
  ASSUME Shape, NEW c \in Cancels, CancelNumber(c) \/ CancelSend(c)
  PROVE  Shape' /\ GoesOn
<1>. DEFINE x == cancel[c].active
<1>1. /\ cancel[c] \in CancelRec /\ cancel[c].id \in Tasks /\ cancel[c].final \in Task
      /\ cancel[c].pc \in {"number", "send"} /\ x \in Sends /\ exec[x] \in Exec
      /\ cancel[c].item = Error \/ cancel[c].cur \in Task
      /\ cancel[c].item \in Item /\ cancel[c].sequence \in Nat
      /\ cancel[c].cur \in Task \union {NoTask}
      /\ CancelUnchanged /\ UNCHANGED <<store, registry, pushed>>
  <2>1. /\ cancel[c].pc \in {"number", "send"}
        /\ CancelUnchanged /\ UNCHANGED <<store, registry, pushed>>
    BY DEF CancelNumber, CancelSend
  <2>2. x \in Sends /\ (cancel[c].item = Error \/ cancel[c].cur \in Task)
    BY <2>1 DEF Shape, Holds, CancelHolds
  <2>3. /\ cancel[c] \in CancelRec /\ cancel[c].id \in Tasks /\ cancel[c].final \in Task
        /\ exec[x] \in Exec
    BY <2>1, <2>2, CancelHeld DEF Shape, Types
  <2>4. QED
    BY <2>1, <2>2, <2>3 DEF CancelRec
<1>2. /\ StoreOK(store') /\ pushed' \in [Tasks -> SUBSET TaskState]
      /\ registry' \in [Tasks -> Sends \union {None}]
  BY <1>1 DEF Shape, Types, StoreOK
<1>3. CASE CancelNumber(c)
  <2>. DEFINE r == [cancel[c] EXCEPT !.pc = "send", !.sequence = exec[x].sequence + 1]
              y == Advance(exec[x], cancel[c].cur)
  <2>1. exec[x].sequence + 1 \in Nat
    BY <1>1 DEF Exec
  <2>2. /\ r \in CancelRec /\ r.pc = "send" /\ r.id = cancel[c].id /\ r.final = cancel[c].final
        /\ r.item = cancel[c].item /\ r.cur = cancel[c].cur /\ r.active = x
    BY <1>1, <2>1 DEF CancelRec, CancelPcs
  <2>3. cancel' = [cancel EXCEPT ![c] = r] /\ exec' = [exec EXCEPT ![x] = y]
    BY <1>3 DEF CancelNumber, Shape, Types
  <2>4. y \in Exec /\ (exec[x].snapshot \in Task => y.snapshot \in Task)
    BY <1>1, AdvanceType
  <2>. HIDE DEF r, y
  <2>5. /\ exec' \in [Sends -> Exec]
        /\ \A s \in Sends : exec[s].snapshot \in Task => exec'[s].snapshot \in Task
    BY <1>1, <2>3, <2>4 DEF Shape, Types
  <2>6. QED
    BY <1>1, <1>2, <2>2, <2>3, <2>5, CancelMoves
<1>4. CASE CancelSend(c)
  <2>. DEFINE pc == IF cancel[c].item = Error THEN "errorPush" ELSE "next"
              r == [cancel[c] EXCEPT !.pc = pc]
              y == Broadcast(exec[x], cancel[c].item, cancel[c].sequence, Listeners(x))
  <2>1. pc \in {"errorPush", "next"} /\ (pc = "next" => cancel[c].cur \in Task)
    BY <1>1
  <2>2. cancel' = [cancel EXCEPT ![c] = r] /\ exec' = [exec EXCEPT ![x] = y]
    BY <1>4 DEF CancelSend, Shape, Types
  <2>. HIDE DEF pc
  <2>3. /\ r \in CancelRec /\ r.pc = pc /\ r.id = cancel[c].id /\ r.final = cancel[c].final
        /\ r.cur = cancel[c].cur
    BY <1>1, <2>1 DEF CancelRec, CancelPcs
  <2>4. y \in Exec /\ y.snapshot = exec[x].snapshot
    BY <1>1, BroadcastType
  <2>. HIDE DEF r, y
  <2>5. /\ exec' \in [Sends -> Exec]
        /\ \A s \in Sends : exec[s].snapshot \in Task => exec'[s].snapshot \in Task
    BY <1>1, <2>2, <2>4 DEF Shape, Types
  <2>6. QED
    BY <1>1, <1>2, <2>1, <2>2, <2>3, <2>5, CancelMoves
<1>5. QED
  BY <1>3, <1>4

LEMMA CancelErrorPushShape ==
  ASSUME Shape, NEW c \in Cancels, CancelErrorPush(c)
  PROVE  Shape' /\ GoesOn
<1>1. /\ cancel[c].pc = "errorPush" /\ cancel[c].id \in Tasks /\ Unwind(c, "error")
      /\ CancelUnchanged /\ UNCHANGED <<store, registry, exec>> /\ "error" \in Replies
  BY CancelHeld DEF CancelErrorPush, Replies
<1>2. pushed' \in [Tasks -> SUBSET TaskState]
  <2>. DEFINE t == cancel[c].id
  <2>1. \/ Stored(store, t) /\ pushed' = Pushed(t, Status(StateOf(store, t)))
        \/ UNCHANGED pushed
    BY DEF CancelErrorPush
  <2>2. ASSUME Stored(store, t)
        PROVE  Pushed(t, Status(StateOf(store, t))) \in [Tasks -> SUBSET TaskState]
    <3>1. StateOf(store, t) \in TaskState
      BY <1>1, <2>2, StoredTask DEF Shape, Types
    <3>2. Status(StateOf(store, t)).state \in TaskState
      BY <3>1 DEF Status
    <3>3. QED
      BY <1>1, <3>2, PushedType DEF Shape, Types
  <2>3. QED
    BY <2>1, <2>2 DEF Shape, Types
<1>3. QED
  BY <1>1, <1>2, UnwindShape

LEMMA CancelFinalPushShape ==
  ASSUME Shape, NEW c \in Cancels, CancelFinalPush(c)
  PROVE  Shape' /\ GoesOn
<1>1. /\ cancel[c].pc = "finalPush" /\ cancel[c].id \in Tasks /\ cancel[c].final \in Task
      /\ CancelUnchanged /\ UNCHANGED <<store, registry, exec>>
      /\ pushed' = Pushed(cancel[c].id, Status(cancel[c].final.state))
  BY CancelHeld DEF CancelFinalPush
<1>2. pushed' \in [Tasks -> SUBSET TaskState]
  <2>1. Status(cancel[c].final.state).state \in TaskState
    BY <1>1 DEF Status, Task
  <2>2. QED
    BY <1>1, <2>1, PushedType DEF Shape, Types
<1>3. CASE cancel' = [cancel EXCEPT ![c].pc = "release"]
  <2>1. StoreOK(store') /\ "release" \in CancelPcs \ {"idle"}
    BY <1>1 DEF Shape, Types, StoreOK, CancelPcs
  <2>2. QED
    BY <1>1, <1>2, <1>3, <2>1, CancelPcShape
<1>4. CASE Unwind(c, "error")
  <2>1. "error" \in Replies
    BY DEF Replies
  <2>2. QED
    BY <1>1, <1>2, <1>4, <2>1, UnwindShape
<1>5. QED
  BY <1>3, <1>4 DEF CancelFinalPush

LEMMA CancelFinishShape ==
  ASSUME Shape, NEW c \in Cancels, CancelFinish(c)
  PROVE  Shape'
<1>. DEFINE r == [cancel[c] EXCEPT !.pc = "reload", !.active = None]
<1>1. /\ cancel[c] \in CancelRec /\ cancel[c].pc = "finish" /\ cancel[c].id \in Tasks
      /\ cancel[c].final \in Task /\ CancelUnchanged /\ UNCHANGED <<store, exec, pushed>>
  BY CancelHeld DEF CancelFinish
<1>2. registry' \in [Tasks -> Sends \union {None}]
  BY <1>1 DEF CancelFinish, Unregister, Shape, Types
<1>3. r \in CancelRec /\ r.pc = "reload" /\ r.id = cancel[c].id /\ r.final = cancel[c].final
  BY <1>1 DEF CancelRec, CancelPcs
<1>4. cancel' = [cancel EXCEPT ![c] = r]
  BY DEF CancelFinish, Shape, Types
<1>. HIDE DEF r
<1>5. /\ StoreOK(store') /\ pushed' \in [Tasks -> SUBSET TaskState] /\ exec' \in [Sends -> Exec]
      /\ \A s \in Sends : exec[s].snapshot \in Task => exec'[s].snapshot \in Task
  BY <1>1 DEF Shape, Types, StoreOK
<1>6. QED
  BY <1>1, <1>2, <1>3, <1>4, <1>5, CancelMoves

LEMMA CancelReloadShape ==
  ASSUME Shape, NEW c \in Cancels, CancelReload(c)
  PROVE  Shape' /\ GoesOn
<1>. DEFINE t  == cancel[c].id
            pc == IF PushOn /\ ~cancel[c].pushed THEN "finalPush" ELSE "release"
            r  == [cancel[c] EXCEPT !.final = store.entries[t].task, !.reply = "ok", !.pc = pc]
<1>1. /\ cancel[c] \in CancelRec /\ cancel[c].pc = "reload" /\ t \in Tasks
      /\ CancelUnchanged /\ UNCHANGED <<store, registry, exec, pushed>>
      /\ StoreOK(store') /\ pushed' \in [Tasks -> SUBSET TaskState]
  BY CancelHeld DEF CancelReload, StoreOK
<1>2. CASE Unwind(c, "notFound")
  <2>1. "notFound" \in Replies
    BY DEF Replies
  <2>2. QED
    BY <1>1, <1>2, <2>1, UnwindShape
<1>3. CASE /\ Stored(store, t)
           /\ cancel' = [cancel EXCEPT ![c].final = store.entries[t].task, ![c].reply = "ok",
                                       ![c].pc = pc]
  <2>1. store.entries[t].task \in Task
    BY <1>1, <1>3, StoredTask DEF Shape, Types
  <2>2. pc \in {"finalPush", "release"}
    OBVIOUS
  <2>3. cancel' = [cancel EXCEPT ![c] = r]
    BY <1>3 DEF Shape, Types
  <2>. HIDE DEF pc
  <2>4. r \in CancelRec /\ r.pc = pc /\ r.id = t /\ r.final \in Task
    BY <1>1, <2>1, <2>2 DEF CancelRec, CancelPcs, Replies
  <2>. HIDE DEF r
  <2>5. QED
    BY <1>1, <2>2, <2>3, <2>4, CancelQuiet
<1>4. QED
  BY <1>2, <1>3 DEF CancelReload

(* release: the streams of the waiters are opened on a closed channel.     *)
LEMMA CancelReleaseShape ==
  ASSUME Shape, NEW c \in Cancels, CancelRelease(c)
  PROVE  Shape' /\ GoesOn
<1>. DEFINE t == cancel[c].id
            r == [cancel[c] EXCEPT !.pc = "done"]
            open == [src |-> Dead, sub |-> Subscription(0, cancel[c].final, 0)]
<1>1. /\ cancel[c] \in CancelRec /\ cancel[c].pc = "release" /\ t \in Tasks
      /\ cancel[c].final \in Task
      /\ UNCHANGED <<store, minted, registry, exec, send, drive, sub, seen, pushed>>
      /\ waiting' = [waiting EXCEPT ![t] = {}]
      /\ stream' = [p \in Sends \union Subs |-> IF p \in waiting[t] THEN open ELSE stream[p]]
  BY CancelHeld DEF CancelRelease
<1>2. r \in CancelRec /\ r.pc = "done" /\ r.id = t /\ r.final = cancel[c].final
  BY <1>1 DEF CancelRec, CancelPcs
<1>3. cancel' = [cancel EXCEPT ![c] = r]
  BY DEF CancelRelease, Shape, Types
<1>4. open \in StreamRec
  <2>1. Subscription(0, cancel[c].final, 0) \in Receiver
    BY <1>1, NewTypes
  <2>2. QED
    BY <2>1 DEF StreamRec
<1>. HIDE DEF r, open
<1>5. /\ cancel' \in [Cancels -> CancelRec] /\ cancel'[c] = r
      /\ \A d \in Cancels \ {c} : cancel'[d] = cancel[d]
  BY <1>2, <1>3 DEF Shape, Types
<1>6. /\ waiting' \in [Tasks -> SUBSET Subs] /\ waiting[t] \subseteq Subs
      /\ \A v \in Tasks : waiting'[v] \subseteq waiting[v]
  BY <1>1 DEF Shape, Types
<1>7. /\ stream' \in [Sends \union Subs -> StreamRec]
      /\ \A p \in (Sends \union Subs) \ waiting[t] : stream'[p] = stream[p]
  BY <1>1, <1>4 DEF Shape, Types
<1>8. Types'
  BY <1>1, <1>5, <1>6, <1>7 DEF Shape, Types, StoreOK
<1>9. ASSUME NEW s \in Sends PROVE SendHolds(s)' /\ DriveHolds(s)'
  <2>1. stream'[s] = stream[s]
    BY <1>6, <1>7, ModelAssumption
  <2>2. QED
    BY <1>1, <2>1 DEF Shape, Holds, SendHolds, DriveHolds
<1>10. ASSUME NEW d \in Cancels PROVE CancelHolds(d)'
  <2>1. CASE d = c
    BY <1>1, <1>2, <1>5, <2>1 DEF CancelHolds
  <2>2. CASE d # c
    BY <1>5, <2>2 DEF Shape, Holds, CancelHolds
  <2>3. QED
    BY <2>1, <2>2
<1>11. ASSUME NEW u \in Subs PROVE SubHolds(u)'
  <2>1. SubHolds(u)
    BY DEF Shape, Holds
  <2>2. sub[u].pc = "attaching" => u \notin waiting[t]
    BY <1>1, <2>1 DEF SubHolds
  <2>3. sub[u].pc = "attaching" => stream'[u].src \in Sends
    BY <1>7, <2>1, <2>2 DEF SubHolds
  <2>4. QED
    BY <1>1, <1>6, <2>1, <2>3 DEF SubHolds
<1>12. GoesOn
  BY <1>1, <1>2, <1>5 DEF GoesOn, SendGoesOn, CancelGoesOn, Running, DriveLive
<1>13. QED
  BY <1>8, <1>9, <1>10, <1>11, <1>12 DEF Shape, Holds

LEMMA CancelDroppedShape ==
  ASSUME Shape, NEW c \in Cancels, CancelDropped(c)
  PROVE  Shape' /\ GoesOn
<1>1. /\ CancelUnchanged /\ UNCHANGED <<store, registry, exec, pushed>> /\ "dropped" \in Replies
      /\ pushed' \in [Tasks -> SUBSET TaskState]
  BY CancelHeld DEF CancelDropped, Replies
<1>2. CASE Conclude(c, "dropped")
  BY <1>1, <1>2, ConcludeShape
<1>3. CASE /\ cancel[c].pc \in {"lookup", "pull", "save", "create", "push", "number",
                                "next", "errorPush", "finish", "reload", "finalPush"}
           /\ Unwind(c, "dropped")
  BY <1>1, <1>3, UnwindShape
<1>4. QED
  BY <1>2, <1>3 DEF CancelDropped

LEMMA CancelShape ==
  ASSUME Shape, NEW c \in Cancels, CancelStep(c)
  PROVE  Shape' /\ (GoesOn \/ CancelFinish(c))
BY CancelBeginShape, CancelRacedShape, CancelLookupShape, CancelEndShape, CancelPullShape,
   CancelSaveShape, CancelCreateShape, CancelPushShape, CancelPublishShape, CancelNextShape,
   CancelErrorPushShape, CancelFinishShape, CancelReloadShape, CancelFinalPushShape,
   CancelReleaseShape DEF CancelStep

-----------------------------------------------------------------------------
(* The shape, in every state.                                              *)

LEMMA InitShape ==
  ASSUME Init
  PROVE  Shape
<1>1. StoreOK(store)
  <2>1. [state |-> "InputRequired", history |-> {}] \in Task
    BY DEF Task, TaskState, LiveStates
  <2>2. [task |-> [state |-> "InputRequired", history |-> {}], version |-> 1] \in Entry
    BY <2>1 DEF Entry
  <2>3. QED
    BY <2>2 DEF Init, StoreOK
<1>2. exec \in [Sends -> Exec]
  <2>1. NewExecution(NoTask) \in Exec
    BY NewTypes
  <2>2. QED
    BY <2>1 DEF Init
<1>3. send \in [Sends -> SendRec]
  <2>1. [pc |-> "idle", id |-> None, mode |-> "streaming", task |-> NoTask,
         reply |-> "none"] \in SendRec
    BY DEF SendRec, SendPcs, Replies
  <2>2. QED
    BY <2>1 DEF Init
<1>4. drive \in [Sends -> DriveRec]
  <2>1. [pc |-> "off", cur |-> NoTask, item |-> Error, sequence |-> 0, count |-> 0,
         failed |-> FALSE, answered |-> FALSE, tracked |-> FALSE] \in DriveRec
    BY ErrorIsItem, ModelAssumption DEF DriveRec, DrivePcs
  <2>2. QED
    BY <2>1 DEF Init
<1>5. cancel \in [Cancels -> CancelRec]
  <2>1. [pc |-> "idle", id |-> None, cur |-> NoTask, final |-> NoTask, active |-> None,
         item |-> Error, sequence |-> 0, count |-> 0, pushed |-> FALSE,
         reply |-> "none"] \in CancelRec
    BY ErrorIsItem, ModelAssumption DEF CancelRec, CancelPcs, Replies
  <2>2. QED
    BY <2>1 DEF Init
<1>6. sub \in [Subs -> SubRec]
  <2>1. [pc |-> "idle", id |-> None, task |-> NoTask] \in SubRec
    BY DEF SubRec, SubPcs
  <2>2. QED
    BY <2>1 DEF Init
<1>7. /\ stream \in [Sends \union Subs -> StreamRec]
      /\ seen \in [Sends \union Subs -> Seq(Yielded)]
  <2>1. <<>> \in Seq(Yielded)
    BY EmptySeq
  <2>2. QED
    BY <2>1, NoStreamType DEF Init
<1>8. /\ minted \subseteq Tasks /\ registry \in [Tasks -> Sends \union {None}]
      /\ waiting \in [Tasks -> SUBSET Subs] /\ pushed \in [Tasks -> SUBSET TaskState]
  BY ModelAssumption DEF Init
<1>9. \A s \in Sends : SendHolds(s) /\ DriveHolds(s)
  BY DEF Init, SendHolds, DriveHolds
<1>10. \A c \in Cancels : CancelHolds(c)
  BY DEF Init, CancelHolds
<1>11. \A u \in Subs : SubHolds(u)
  BY DEF Init, SubHolds
<1>12. QED
  BY <1>1, <1>2, <1>3, <1>4, <1>5, <1>6, <1>7, <1>8, <1>9, <1>10, <1>11
  DEF Shape, Types, Holds

LEMMA StutterShape ==
  ASSUME Shape, UNCHANGED vars
  PROVE  Shape' /\ GoesOn
<1>1. UNCHANGED <<store, minted, registry, waiting, exec, send, drive, cancel, sub, stream,
                  seen, pushed>>
  BY DEF vars, manager, handlers, streams
<1>2. Types'
  BY <1>1 DEF Shape, Types, StoreOK
<1>3. \A s \in Sends : SendHolds(s)' /\ DriveHolds(s)'
  BY <1>1 DEF Shape, Holds, SendHolds, DriveHolds
<1>4. \A c \in Cancels : CancelHolds(c)'
  BY <1>1 DEF Shape, Holds, CancelHolds
<1>5. \A u \in Subs : SubHolds(u)'
  BY <1>1 DEF Shape, Holds, SubHolds
<1>6. GoesOn
  BY <1>1 DEF GoesOn, SendGoesOn, CancelGoesOn, Running, DriveLive
<1>7. QED
  BY <1>2, <1>3, <1>4, <1>5, <1>6 DEF Shape, Holds

LEMMA NextShape ==
  ASSUME Shape, [Next]_vars
  PROVE  /\ Shape'
         /\ \/ GoesOn
            \/ \E s \in Sends : SendStart(s) /\ registry[send[s].id] = None
            \/ \E s \in Sends : DriveFinish(s)
            \/ \E c \in Cancels : CancelFinish(c)
<1>1. CASE UNCHANGED vars
  BY <1>1, StutterShape
<1>2. CASE \E s \in Sends :
             \/ \E t \in Tasks, m \in Modes : SendExisting(s, t, m) \/ SendNew(s, t, m)
             \/ SendConfigRefused(s) \/ SendDropped(s)
             \/ SendStep(s) \/ DriveStep(s)
  BY <1>2, SendPrepareShape, SendRefusedShape, SendDroppedShape, SendShape, DriveShape
<1>3. CASE \E c \in Cancels :
             \/ \E t \in Tasks : CancelLoad(c, t)
             \/ CancelDropped(c) \/ CancelStep(c)
  BY <1>3, CancelLoadShape, CancelDroppedShape, CancelShape
<1>4. CASE \E u \in Subs :
             \/ \E t \in Tasks : SubRegister(u, t)
             \/ SubDropped(u) \/ SubStep(u)
  BY <1>4, SubRegisterShape, SubEndShape, SubShape
<1>5. CASE Settled
  BY <1>1, <1>5 DEF Settled
<1>6. QED
  BY <1>1, <1>2, <1>3, <1>4, <1>5 DEF Next

LEMMA ShapeTypes ==
  ASSUME Shape
  PROVE  TypeOK
<1>1. ASSUME NEW t \in Tasks
      PROVE  /\ Stored(store, t) => /\ store.entries[t].task \in Task
                                    /\ store.entries[t].version \in Nat \ {0}
             /\ registry[t] \in Sends \union {None}
             /\ waiting[t] \subseteq Subs
             /\ pushed[t] \subseteq TaskState
  <2>1. Stored(store, t) => store.entries[t] \in Entry
    BY DEF Shape, Types, StoreOK, Stored
  <2>2. QED
    BY <2>1 DEF Shape, Types, Entry
<1>2. ASSUME NEW s \in Sends
      PROVE  /\ exec[s].snapshot \in Task \union {NoTask}
             /\ exec[s].sequence \in Nat
             /\ drive[s].cur \in Task \union {NoTask}
             /\ drive[s].count \in 0 .. MaxExecute
             /\ send[s].task \in Task \union {NoTask}
  <2>1. exec[s] \in Exec /\ drive[s] \in DriveRec /\ send[s] \in SendRec
    BY DEF Shape, Types
  <2>2. QED
    BY <2>1 DEF Exec, DriveRec, SendRec
<1>3. ASSUME NEW c \in Cancels
      PROVE  /\ cancel[c].cur \in Task \union {NoTask}
             /\ cancel[c].active \in Sends \union {None}
             /\ cancel[c].count \in 0 .. MaxCancel
  <2>1. cancel[c] \in CancelRec
    BY DEF Shape, Types
  <2>2. QED
    BY <2>1 DEF CancelRec
<1>4. ASSUME NEW p \in Sends \union Subs
      PROVE  stream[p].src \in Sends \union {None, Dead}
  <2>1. stream[p] \in StreamRec
    BY DEF Shape, Types
  <2>2. QED
    BY <2>1 DEF StreamRec
<1>5. minted \subseteq Tasks
  BY DEF Shape, Types
<1>6. QED
  BY <1>1, <1>2, <1>3, <1>4, <1>5 DEF TypeOK

(* Every handler, drive and stream keeps the shape its code relies on:     *)
(* what it reads of the store, of the registry and of its own progress is  *)
(* there when it reads it (send_message, drive_execution, cancel_task,     *)
(* subscribe_to_task).                                                     *)
THEOREM HandlersTypeCorrect == Spec => []TypeOK
<1>1. Init => Shape
  BY InitShape
<1>2. Shape /\ [Next]_vars => Shape'
  BY NextShape
<1>3. Shape => TypeOK
  BY ShapeTypes
<1>4. QED
  BY <1>1, <1>2, <1>3, PTL DEF Spec

-----------------------------------------------------------------------------
(* The registry.                                                           *)

(* What a cancel has moved stays moved.                                    *)
LEMMA StaysMoved ==
  ASSUME Registered, \A c \in Cancels : CancelGoesOn(c), NEW t \in Tasks, MovedByCancel(t)
  PROVE  MovedByCancel(t)'
<1>1. PICK c \in Cancels : cancel[c].id = t /\ cancel[c].final # NoTask
  BY DEF MovedByCancel
<1>2. cancel[c].pc # "idle"
  BY <1>1 DEF Registered
<1>3. cancel'[c].id = t /\ cancel'[c].final # NoTask
  BY <1>1, <1>2 DEF CancelGoesOn
<1>4. QED
  BY <1>3 DEF MovedByCancel

LEMMA StillRegistered ==
  ASSUME Shape, Registered, GoesOn
  PROVE  Registered'
<1>1. RegistryIsLive'
  <2>1. ASSUME NEW t \in Tasks, registry[t] # None
        PROVE  /\ send'[registry[t]].id = t
               /\ \/ send'[registry[t]].pc = "registered"
                  \/ drive'[registry[t]].pc \notin {"off", "done"}
    <3>. DEFINE s == registry[t]
    <3>1. s \in Sends
      BY <2>1 DEF Shape, Types
    <3>2. /\ send[s].id = t
          /\ send[s].pc = "registered" \/ drive[s].pc \notin {"off", "done"}
      BY <2>1 DEF Registered, RegistryIsLive
    <3>3. send[s].pc # "idle"
      BY <3>1, <3>2 DEF Shape, Holds, SendHolds
    <3>4. SendGoesOn(s)
      BY <3>1 DEF GoesOn
    <3>. HIDE DEF s
    <3>5. /\ send'[s].id = t
          /\ send'[s].pc = "registered" \/ drive'[s].pc \notin {"off", "done"}
      BY <3>2, <3>3, <3>4 DEF SendGoesOn
    <3>6. QED
      BY <3>5 DEF s
  <2>2. QED
    BY <2>1 DEF RegistryIsLive, GoesOn
<1>2. ASSUME NEW s \in Sends, Running(s)', registry'[send'[s].id] # s
      PROVE  MovedByCancel(send[s].id)'
  <2>1. Running(s)
    BY <1>2 DEF GoesOn, SendGoesOn, Running
  <2>2. send[s].pc # "idle" /\ send[s].id \in Tasks
    BY <2>1 DEF Shape, Holds, SendHolds, DriveHolds, Running, DriveLive
  <2>3. send'[s].id = send[s].id
    BY <2>2 DEF GoesOn, SendGoesOn
  <2>4. MovedByCancel(send[s].id)
    BY <1>2, <2>1, <2>3 DEF Registered, GoesOn
  <2>5. \A t \in Tasks : MovedByCancel(t) => MovedByCancel(t)'
    BY StaysMoved DEF GoesOn
  <2>6. QED
    BY <2>2, <2>3, <2>4, <2>5 DEF MovedByCancel
<1>3. \A c \in Cancels : cancel'[c].pc = "idle" => cancel'[c].final = NoTask
  BY DEF Registered, GoesOn, CancelGoesOn
<1>4. (\A s \in Sends : Running(s) /\ registry[send[s].id] # s => MovedByCancel(send[s].id))'
  BY <1>2 DEF Running, DriveLive
<1>5. QED
  BY <1>1, <1>3, <1>4 DEF Registered

(* start registers, where nothing was.                                     *)
LEMMA StartRegisters ==
  ASSUME Shape, Registered, NEW s \in Sends, SendStart(s), registry[send[s].id] = None
  PROVE  Registered'
<1>. DEFINE t == send[s].id
<1>1. /\ send[s].pc = "prepared" /\ t \in Tasks /\ drive[s].pc = "off"
      /\ send'     = [send EXCEPT ![s].pc = "registered"]
      /\ registry' = [registry EXCEPT ![t] = s]
      /\ UNCHANGED <<drive, cancel>>
  BY DEF SendStart, Shape, Holds, SendHolds
<1>2. /\ send'[s].pc = "registered" /\ send'[s].id = t
      /\ \A q \in Sends \ {s} : send'[q] = send[q]
      /\ registry'[t] = s /\ \A v \in Tasks \ {t} : registry'[v] = registry[v]
  BY <1>1 DEF Shape, Types, SendRec
<1>3. ~Running(s) /\ s # None
  BY <1>1, ModelAssumption DEF Running, DriveLive
<1>4. \A v \in Tasks : registry[v] # s
  <2>1. ASSUME NEW v \in Tasks, registry[v] = s PROVE FALSE
    BY <1>1, <1>3, <2>1 DEF Registered, RegistryIsLive
  <2>2. QED
    BY <2>1
<1>5. RegistryIsLive'
  <2>1. ASSUME NEW v \in Tasks, registry'[v] # None
        PROVE  /\ send'[registry'[v]].id = v
               /\ \/ send'[registry'[v]].pc = "registered"
                  \/ drive'[registry'[v]].pc \notin {"off", "done"}
    <3>1. CASE v = t
      BY <1>2, <3>1
    <3>2. CASE v # t
      <4>1. registry[v] \in Sends \ {s} /\ registry'[v] = registry[v]
        BY <1>2, <1>4, <2>1, <3>2 DEF Shape, Types
      <4>2. QED
        BY <1>1, <1>2, <2>1, <4>1 DEF Registered, RegistryIsLive
    <3>3. QED
      BY <3>1, <3>2
  <2>2. QED
    BY <2>1 DEF RegistryIsLive
<1>6. ASSUME NEW q \in Sends, Running(q)', registry'[send'[q].id] # q
      PROVE  MovedByCancel(send[q].id)'
  <2>1. q # s
    BY <1>2, <1>6
  <2>2. send'[q] = send[q] /\ Running(q)
    BY <1>1, <1>2, <1>6, <2>1 DEF Running, DriveLive
  <2>3. send[q].id \in Tasks
    BY <2>2 DEF Shape, Holds, SendHolds, DriveHolds, Running, DriveLive
  <2>4. registry[send[q].id] # q
    BY <1>2, <1>6, <2>1, <2>2, <2>3, ModelAssumption
  <2>5. QED
    BY <1>1, <2>2, <2>4 DEF Registered, MovedByCancel
<1>7. (\A q \in Sends : Running(q) /\ registry[send[q].id] # q => MovedByCancel(send[q].id))'
  BY <1>6 DEF Running, DriveLive
<1>8. QED
  BY <1>1, <1>5, <1>7 DEF Registered

(* finish, by the drive itself: it removes its own execution only.         *)
LEMMA DriveUnregisters ==
  ASSUME Shape, Registered, NEW s \in Sends, DriveFinish(s)
  PROVE  /\ Registered' /\ drive'[s].pc = "done"
         /\ \A t \in Tasks : registry'[t] # registry[t] => registry[t] = s
<1>. DEFINE t == send[s].id
<1>1. /\ drive[s].pc = "finish" /\ t \in Tasks
      /\ send[s].pc # "registered"
      /\ registry' = [registry EXCEPT ![t] = IF registry[t] = s THEN None ELSE registry[t]]
      /\ drive' = [drive EXCEPT ![s].pc = "done"]
      /\ UNCHANGED <<send, cancel>>
  BY DEF DriveFinish, Unregister, Shape, Types, Holds, SendHolds, DriveHolds
<1>2. /\ drive'[s].pc = "done" /\ \A q \in Sends \ {s} : drive'[q] = drive[q]
      /\ \A v \in Tasks : registry'[v] = IF v = t /\ registry[t] = s THEN None ELSE registry[v]
  BY <1>1 DEF Shape, Types
<1>3. s # None
  BY ModelAssumption
<1>4. \A v \in Tasks : registry'[v] # s
  BY <1>1, <1>2, <1>3 DEF Registered, RegistryIsLive
<1>5. RegistryIsLive'
  <2>1. ASSUME NEW v \in Tasks, registry'[v] # None
        PROVE  /\ send'[registry'[v]].id = v
               /\ \/ send'[registry'[v]].pc = "registered"
                  \/ drive'[registry'[v]].pc \notin {"off", "done"}
    <3>1. registry'[v] = registry[v] /\ registry[v] # s /\ registry[v] \in Sends
      BY <1>2, <1>4, <2>1 DEF Shape, Types
    <3>2. QED
      BY <1>1, <1>2, <2>1, <3>1 DEF Registered, RegistryIsLive
  <2>2. QED
    BY <2>1 DEF RegistryIsLive
<1>6. ASSUME NEW q \in Sends, Running(q)', registry'[send'[q].id] # q
      PROVE  MovedByCancel(send[q].id)'
  <2>1. q # s
    BY <1>1, <1>2, <1>6 DEF Running, DriveLive
  <2>2. send'[q] = send[q] /\ Running(q)
    BY <1>1, <1>2, <1>6, <2>1 DEF Running, DriveLive
  <2>3. send[q].id \in Tasks
    BY <2>2 DEF Shape, Holds, SendHolds, DriveHolds, Running, DriveLive
  <2>4. registry[send[q].id] # q
    BY <1>2, <1>6, <2>1, <2>2, <2>3, ModelAssumption
  <2>5. QED
    BY <1>1, <2>2, <2>4 DEF Registered, MovedByCancel
<1>7. (\A q \in Sends : Running(q) /\ registry[send[q].id] # q => MovedByCancel(send[q].id))'
  BY <1>6 DEF Running, DriveLive
<1>8. QED
  BY <1>1, <1>2, <1>5, <1>7 DEF Registered

(* ... and by a cancel: it removes the execution it looked up only, of a   *)
(* task it has moved.                                                      *)
LEMMA CancelUnregisters ==
  ASSUME Shape, Registered, NEW c \in Cancels, CancelFinish(c)
  PROVE  /\ Registered' /\ cancel'[c].pc = "reload"
         /\ \A t \in Tasks : registry'[t] # registry[t] => registry[t] = cancel[c].active
<1>. DEFINE t == cancel[c].id
            x == cancel[c].active
<1>1. /\ cancel[c].pc = "finish" /\ t \in Tasks /\ cancel[c].final \in Task
      /\ UNCHANGED <<send, drive>>
      /\ cancel' = [cancel EXCEPT ![c].pc = "reload", ![c].active = None]
      /\ \A v \in Tasks : \/ registry'[v] = registry[v]
                          \/ v = t /\ registry[v] = x /\ registry'[v] = None
  BY CancelHeld DEF CancelFinish, CancelUnchanged, Unregister, Shape, Types
<1>2. /\ cancel'[c].pc = "reload" /\ cancel'[c].id = t /\ cancel'[c].final = cancel[c].final
      /\ \A d \in Cancels \ {c} : cancel'[d] = cancel[d]
  BY <1>1 DEF Shape, Types, CancelRec
<1>3. \A d \in Cancels : CancelGoesOn(d)
  BY <1>1, <1>2 DEF CancelGoesOn
<1>4. RegistryIsLive'
  <2>1. ASSUME NEW v \in Tasks, registry'[v] # None
        PROVE  /\ send'[registry'[v]].id = v
               /\ \/ send'[registry'[v]].pc = "registered"
                  \/ drive'[registry'[v]].pc \notin {"off", "done"}
    <3>1. registry'[v] = registry[v]
      BY <1>1, <2>1
    <3>2. QED
      BY <1>1, <2>1, <3>1 DEF Registered, RegistryIsLive
  <2>2. QED
    BY <2>1 DEF RegistryIsLive
<1>5. ASSUME NEW q \in Sends, Running(q)', registry'[send'[q].id] # q
      PROVE  MovedByCancel(send[q].id)'
  <2>1. send'[q] = send[q] /\ Running(q)
    BY <1>1, <1>5 DEF Running, DriveLive
  <2>2. send[q].id \in Tasks
    BY <2>1 DEF Shape, Holds, SendHolds, DriveHolds, Running, DriveLive
  <2>3. CASE registry[send[q].id] # q
    <3>1. MovedByCancel(send[q].id)
      BY <2>1, <2>3 DEF Registered
    <3>2. \A v \in Tasks : MovedByCancel(v) => MovedByCancel(v)'
      BY <1>3, StaysMoved
    <3>3. QED
      BY <2>1, <2>2, <3>1, <3>2 DEF MovedByCancel
  <2>4. CASE registry[send[q].id] = q
    <3>1. send[q].id = t
      BY <1>1, <1>5, <2>1, <2>2, <2>4
    <3>2. QED
      BY <1>1, <1>2, <2>1, <3>1, NoTaskAssumption DEF MovedByCancel
  <2>5. QED
    BY <2>3, <2>4
<1>6. (\A q \in Sends : Running(q) /\ registry[send[q].id] # q => MovedByCancel(send[q].id))'
  BY <1>5 DEF Running, DriveLive
<1>7. \A d \in Cancels : cancel'[d].pc = "idle" => cancel'[d].final = NoTask
  BY <1>2 DEF Registered
<1>8. QED
  BY <1>1, <1>2, <1>4, <1>6, <1>7 DEF Registered

LEMMA InitRegistered ==
  ASSUME Init
  PROVE  Registered
BY DEF Init, Registered, RegistryIsLive, Running, DriveLive

LEMMA NextRegistered ==
  ASSUME Shape, Registered, [Next]_vars
  PROVE  Registered'
BY NextShape, StillRegistered, StartRegisters, DriveUnregisters, CancelUnregisters

(* The registry holds no execution that nobody is going to remove: whoever *)
(* is registered is still to be spawned, or its drive still to finish      *)
(* (ExecutionManager::start, start_execution, drive_execution).            *)
THEOREM OnlyLiveExecutionsRegistered == Spec => []RegistryIsLive
<1>1. Init => Shape /\ Registered
  BY InitShape, InitRegistered
<1>2. Shape /\ Registered /\ [Next]_vars => Shape' /\ Registered'
  BY NextShape, NextRegistered
<1>3. Registered => RegistryIsLive
  BY DEF Registered
<1>4. QED
  BY <1>1, <1>2, <1>3, PTL DEF Spec

(* A drive that still works has its execution in the registry, unless a    *)
(* cancel has moved its task: start refuses a second turn and finish takes *)
(* no other's execution out.                                               *)
THEOREM OnlyCancelsDetach == Spec => []DetachedIsCanceled
<1>1. Init => Shape /\ Registered
  BY InitShape, InitRegistered
<1>2. Shape /\ Registered /\ [Next]_vars => Shape' /\ Registered'
  BY NextShape, NextRegistered
<1>3. Registered => DetachedIsCanceled
  BY DEF Registered, DetachedIsCanceled, Running, MovedByCancel
<1>4. QED
  BY <1>1, <1>2, <1>3, PTL DEF Spec

(* Only its own drive and the cancel that looked it up ever take an        *)
(* execution out of the registry (ExecutionManager::finish).               *)
THEOREM FinishTakesItsOwn == Spec => FinishIsOwn
<1>. DEFINE Own == \A t \in Tasks : registry[t] # None /\ registry'[t] # registry[t] =>
                     \/ drive'[registry[t]].pc = "done"
                     \/ \E c \in Cancels : /\ cancel[c].active = registry[t]
                                           /\ cancel'[c].pc = "reload"
<1>1. Init => Shape /\ Registered
  BY InitShape, InitRegistered
<1>2. Shape /\ Registered /\ [Next]_vars => Shape' /\ Registered'
  BY NextShape, NextRegistered
<1>3. Shape /\ Registered /\ [Next]_vars => [Own]_vars
  <2>1. SUFFICES ASSUME Shape, Registered, [Next]_vars, NEW t \in Tasks,
                        registry[t] # None, registry'[t] # registry[t]
                 PROVE  \/ drive'[registry[t]].pc = "done"
                        \/ \E c \in Cancels : /\ cancel[c].active = registry[t]
                                              /\ cancel'[c].pc = "reload"
    OBVIOUS
  <2>2. ~GoesOn
    BY <2>1 DEF GoesOn
  <2>3. CASE \E s \in Sends : SendStart(s) /\ registry[send[s].id] = None
    <3>1. PICK s \in Sends : SendStart(s) /\ registry[send[s].id] = None
      BY <2>3
    <3>2. registry' = [registry EXCEPT ![send[s].id] = s]
      BY <3>1 DEF SendStart
    <3>3. QED
      BY <2>1, <3>1, <3>2 DEF Shape, Types
  <2>4. CASE \E s \in Sends : DriveFinish(s)
    BY <2>1, <2>4, DriveUnregisters
  <2>5. CASE \E c \in Cancels : CancelFinish(c)
    <3>1. PICK c \in Cancels : CancelFinish(c)
      BY <2>5
    <3>2. cancel'[c].pc = "reload" /\ registry[t] = cancel[c].active
      BY <2>1, <3>1, CancelUnregisters
    <3>3. QED
      BY <3>2
  <2>6. QED
    BY <2>1, <2>2, <2>3, <2>4, <2>5, NextShape
<1>4. QED
  BY <1>1, <1>2, <1>3, PTL DEF Spec, FinishIsOwn

=============================================================================
