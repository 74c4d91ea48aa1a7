------------------------ MODULE RequestHandler_agrees ------------------------
(***************************************************************************)
(* What callers are told, for every number of requests and every executor: *)
(* each stream is in order; and, over a store that purges nothing, streams,*)
(* answers and webhooks agree with the store on how a task ended, no       *)
(* subscription waits for a turn that cannot come, and a turn that failed  *)
(* leaves a task that is over. Where the executor's cancel is well behaved *)
(* (CancelsWell), the webhooks hear of every cancel that is committed.     *)
(***************************************************************************)
EXTENDS RequestHandler_proofs

Last(s) == s[Len(s)]

Waits(u) == \E t \in Tasks : u \in waiting[t]

(* A stream has yielded no number above its min; the task it opens with    *)
(* comes first, or, to a subscription that waited for it, at number 0.     *)
Streams ==
  /\ \A s \in Sends : send[s].pc \in {"idle", "prepared", "registered"} => seen[s] = <<>>
  /\ \A u \in Subs :
       /\ sub[u].pc \in {"idle", "attaching", "load", "decide"} => seen[u] = <<>>
       /\ sub[u].pc = "idle" => ~Opened(u)
       /\ Waits(u) => ~Opened(u) /\ (seen[u] # <<>> => Last(seen[u]).sequence = 0)
  /\ \A p \in Sends \union Subs : Opened(p) /\ seen[p] # <<>> =>
       /\ Last(seen[p]).sequence <= stream[p].sub.min
       /\ stream[p].sub.snapshot # NoTask => stream[p].sub.min = 0

(* What a process holds, or has said, of a task agrees with the store.     *)
Told(st, t, x) == IsTerminal(x) => t \in Tasks /\ Stored(st, t) /\ StateOf(st, t) = x
Keeps(st, t, task) == task # NoTask => Told(st, t, task.state)
IsOver(st, t) == t \in Tasks /\ Finished(st, t)

SendTells(st, r) ==
  /\ r.pc = "idle" => r.id = None
  /\ r.id # None => r.id \in Tasks /\ Stored(st, r.id)
  /\ Told(st, r.id, r.reply)
  /\ Keeps(st, r.id, r.task)

SendSays(s) == SendTells(store, send[s])

ExecTells(st, t, x) ==
  /\ Keeps(st, t, x.snapshot)
  /\ \A k \in 1 .. Len(x.sent) : Told(st, t, x.sent[k].event.state)

ExecSays(s) == ExecTells(store, send[s].id, exec[s])

(* ... a drive that failed is over, or is about to make its task so, and   *)
(* its task was stored before it began.                                    *)
DriveTells(st, t, d) ==
  /\ Keeps(st, t, d.cur)
  /\ d.pc \in {"push", "number", "send"} => Told(st, t, d.item.state)
  /\ d.pc = "failPush" => Told(st, t, "Failed")
  /\ d.failed =>
       /\ d.pc \in {"fail", "failPush", "number", "send", "finish", "done"}
       /\ d.pc # "fail" => IsOver(st, t)
       /\ d.pc \in {"number", "send"} => d.item = Error
  /\ d.pc \notin {"create", "failCreate"}

DriveSays(s) == DriveTells(store, send[s].id, drive[s])

(* ... a cancel that moved its task knows it over, and has its execution.  *)
CancelTells(st, d) ==
  /\ d.pc = "idle" => d.id = None
  /\ d.pc # "create"
  /\ Keeps(st, d.id, d.cur)
  /\ d.final # NoTask => IsOver(st, d.id)
  /\ Keeps(st, d.id, d.final)
  /\ d.pc \in {"push", "number", "send"} => Told(st, d.id, d.item.state)

CancelSays(c) ==
  /\ CancelTells(store, cancel[c])
  /\ cancel[c].active # None =>
       cancel[c].id \in Tasks /\ send[cancel[c].active].id = cancel[c].id

StreamSays(p) ==
  /\ stream[p].src \in Sends => TaskOf(p) \in Tasks /\ send[stream[p].src].id = TaskOf(p)
  /\ Keeps(store, TaskOf(p), stream[p].sub.snapshot)
  /\ \A k \in 1 .. Len(seen[p]) : Told(store, TaskOf(p), seen[p][k].event.state)

SubSays(u) ==
  /\ sub[u].pc = "idle" => sub[u].id = None
  /\ Keeps(store, sub[u].id, sub[u].task)

StoreSays ==
  \A t \in Tasks :
    /\ Stored(store, t) => t \in minted
    /\ \A x \in pushed[t] : Told(store, t, x)

Says ==
  /\ \A s \in Sends : SendSays(s) /\ ExecSays(s) /\ DriveSays(s)
  /\ \A c \in Cancels : CancelSays(c)
  /\ \A u \in Subs : SubSays(u)
  /\ \A p \in Sends \union Subs : StreamSays(p)
  /\ StoreSays

(* Nobody waits while a turn runs; and whoever waits, having read a task   *)
(* that was not over, is released by a cancel once it is.                  *)
GoesToWait(u) == \/ sub[u].pc = "streaming"
                 \/ sub[u].pc = "decide" /\ ~IsTerminal(sub[u].task.state)

InLine ==
  \A t \in Tasks :
    /\ registry[t] # None => waiting[t] = {}
    /\ \A u \in waiting[t] : GoesToWait(u) /\ Finished(store, t) => ReleasePending(t)

-----------------------------------------------------------------------------
(* The order of a stream.                                                  *)

(* A step that yields nothing: a stream keeps its mark, or closes, or      *)
(* opens for a subscription that waited, or before it yielded anything.    *)
StreamGoesOn(p) ==
  /\ seen'[p] = seen[p]
  /\ \/ stream'[p].src = None
     \/ seen[p] = <<>>
     \/ /\ Opened(p)
        /\ stream'[p].sub.min = stream[p].sub.min
        /\ stream'[p].sub.snapshot = stream[p].sub.snapshot
     \/ p \in Subs /\ Waits(p) /\ stream'[p].sub.min = 0

Early(s) == send[s].pc \in {"idle", "prepared", "registered"}
Fresh(u) == sub[u].pc \in {"idle", "attaching", "load", "decide"}

(* ... and whose requests do not go back; who waits has yielded nothing,   *)
(* or waited before, and has no stream.                                    *)
StreamsGoOn ==
  /\ \A p \in Sends \union Subs : StreamGoesOn(p)
  /\ \A s \in Sends : Early(s)' => Early(s)
  /\ \A u \in Subs :
       /\ Fresh(u)' => Fresh(u)
       /\ sub'[u].pc = "idle" => sub[u].pc = "idle" /\ stream'[u].src = None
       /\ Waits(u)' => /\ Waits(u) \/ sub[u].pc = "idle"
                       /\ stream'[u].src = None

LEMMA StreamsKept ==
  ASSUME Streams, InOrder, StreamsGoOn
  PROVE  Streams' /\ InOrder'
<1>1. ASSUME NEW s \in Sends, send'[s].pc \in {"idle", "prepared", "registered"}
      PROVE  seen'[s] = <<>>
  BY <1>1 DEF Streams, StreamsGoOn, StreamGoesOn, Early
<1>2. ASSUME NEW u \in Subs
      PROVE  /\ sub'[u].pc \in {"idle", "attaching", "load", "decide"} => seen'[u] = <<>>
             /\ sub'[u].pc = "idle" => stream'[u].src = None
             /\ Waits(u)' => /\ stream'[u].src = None
                             /\ seen'[u] # <<>> => Last(seen'[u]).sequence = 0
  <2>1. seen'[u] = seen[u]
    BY DEF StreamsGoOn, StreamGoesOn
  <2>2. Fresh(u)' => seen[u] = <<>>
    BY DEF Streams, StreamsGoOn, Fresh
  <2>3. Waits(u)' /\ seen[u] # <<>> => Last(seen[u]).sequence = 0
    BY DEF Streams, StreamsGoOn
  <2>4. QED
    BY <2>1, <2>2, <2>3 DEF StreamsGoOn, Fresh
<1>3. ASSUME NEW p \in Sends \union Subs, stream'[p].src # None, seen'[p] # <<>>
      PROVE  /\ Last(seen'[p]).sequence <= stream'[p].sub.min
             /\ stream'[p].sub.snapshot # NoTask => stream'[p].sub.min = 0
  <2>1. seen'[p] = seen[p] /\ seen[p] # <<>>
    BY <1>3 DEF StreamsGoOn, StreamGoesOn
  <2>2. CASE /\ Opened(p) /\ stream'[p].sub.min = stream[p].sub.min
             /\ stream'[p].sub.snapshot = stream[p].sub.snapshot
    BY <2>1, <2>2 DEF Streams
  <2>3. CASE p \in Subs /\ Waits(p) /\ stream'[p].sub.min = 0
    <3>1. Last(seen[p]).sequence = 0
      BY <2>1, <2>3 DEF Streams
    <3>2. QED
      BY <2>1, <2>3, <3>1
  <2>4. QED
    BY <1>3, <2>1, <2>2, <2>3 DEF StreamsGoOn, StreamGoesOn
<1>4. Streams'
  BY <1>1, <1>2, <1>3 DEF Streams, Opened
<1>5. InOrder'
  <2>1. \A p \in Sends \union Subs : seen'[p] = seen[p]
    BY DEF StreamsGoOn, StreamGoesOn
  <2>2. QED
    BY <2>1 DEF InOrder
<1>6. QED
  BY <1>4, <1>5

(* A stream yields: what it yields comes after what it has yielded.        *)
LEMMA YieldInOrder ==
  ASSUME Shape, Streams, InOrder, NEW p \in Sends \union Subs, Opened(p),
         CanDeliver(Source(p), stream[p].sub), NEW keep \in BOOLEAN, Yield(p, keep),
         UNCHANGED waiting,
         \A s \in Sends : Early(s)' => Early(s) /\ s # p,
         \A u \in Subs : Fresh(u)' => /\ Fresh(u) /\ u # p
                                      /\ sub'[u].pc = "idle" => sub[u].pc = "idle"
  PROVE  Streams' /\ InOrder'
<1>. DEFINE y  == Next1(p)
            r  == AfterDelivery(Source(p), stream[p].sub)
            st == stream[p].sub
            new == Append(seen[p], y)
            n  == Len(seen[p])
<1>1. /\ Source(p) \in Exec /\ st \in Receiver /\ stream[p] \in StreamRec
      /\ seen[p] \in Seq(Yielded) /\ n \in Nat
  BY SourceType, LenProperties DEF Shape, Types
<1>2. /\ r \in Receiver /\ y \in Yielded /\ r.snapshot = NoTask /\ st.min \in Nat
      /\ y.sequence \in Nat /\ r.min = y.sequence
      /\ \/ y.sequence > st.min
         \/ y.event = LagError
         \/ st.snapshot # NoTask /\ y.sequence = st.min /\ y.event.kind = "task"
      /\ y.sequence >= st.min
  <2>1. Polls(Source(p), st)
    BY <1>1, DeliveryShape
  <2>2. st.min \in Nat /\ y.sequence \in Nat
    BY <1>1, <2>1 DEF Polls, Receiver, Yielded, Next1
  <2>3. QED
    BY <2>1, <2>2 DEF Polls, Next1, Snapshot
<1>3. /\ seen' = [seen EXCEPT ![p] = new]
      /\ stream' = [stream EXCEPT ![p] = IF keep THEN [src |-> stream[p].src, sub |-> r]
                                                 ELSE NoStream]
  BY DEF Yield, Shape, Types
<1>. HIDE DEF y, r, st
<1>4. /\ new \in Seq(Yielded) /\ Len(new) = n + 1 /\ new[n + 1] = y
      /\ \A k \in 1 .. n : new[k] = seen[p][k]
  BY <1>1, <1>2, AppendProperties
<1>. HIDE DEF new, n
<1>5. /\ seen'[p] = new
      /\ \A q \in (Sends \union Subs) \ {p} : seen'[q] = seen[q] /\ stream'[q] = stream[q]
      /\ stream'[p].src # None => stream'[p].sub = r
  BY <1>3 DEF Shape, Types, NoStream
<1>6. new # <<>> /\ Last(new) = y
  BY <1>1, <1>4 DEF Last
<1>7. InOrder'
  <2>1. ASSUME NEW k \in 2 .. Len(new)
        PROVE  \/ new[k].sequence > new[k-1].sequence
               \/ new[k].event = LagError
               \/ new[k].sequence = 0 /\ new[k].event.kind = "task"
    <3>1. CASE k = n + 1
      <4>1. n \in 1 .. n /\ new[k - 1] = seen[p][n] /\ new[k] = y
        <5>1. k - 1 = n /\ n \in 1 .. n
          BY <1>1, <1>4, <2>1, <3>1
        <5>2. QED
          BY <1>4, <3>1, <5>1
      <4>2. seen[p] # <<>> /\ Last(seen[p]) = seen[p][n]
        <5>1. seen[p] # <<>>
          BY <4>1, EmptySeq DEF n
        <5>2. QED
          BY <5>1 DEF Last, n
      <4>3. Last(seen[p]).sequence <= st.min /\ (st.snapshot # NoTask => st.min = 0)
        BY <4>2 DEF Streams, st
      <4>4. seen[p][n].sequence \in Nat
        <5>1. n \in 1 .. Len(seen[p])
          BY <4>1 DEF n
        <5>2. seen[p][n] \in Yielded
          BY <1>1, <5>1, ElementOfSeq
        <5>3. QED
          BY <5>2 DEF Yielded
      <4>5. QED
        BY <1>2, <4>1, <4>2, <4>3, <4>4
    <3>2. CASE k # n + 1
      <4>1. k \in 2 .. n /\ k \in 1 .. n /\ k - 1 \in 1 .. n
        BY <1>1, <1>4, <2>1, <3>2
      <4>2. new[k] = seen[p][k] /\ new[k - 1] = seen[p][k - 1]
        BY <1>4, <4>1
      <4>3. k \in 2 .. Len(seen[p])
        BY <4>1 DEF n
      <4>4. QED
        BY <4>2, <4>3 DEF InOrder
    <3>3. QED
      BY <3>1, <3>2
  <2>2. ASSUME NEW q \in Sends \union Subs, NEW k \in 2 .. Len(seen'[q])
        PROVE  \/ seen'[q][k].sequence > seen'[q][k-1].sequence
               \/ seen'[q][k].event = LagError
               \/ seen'[q][k].sequence = 0 /\ seen'[q][k].event.kind = "task"
    <3>1. CASE q = p
      BY <1>5, <2>1, <2>2, <3>1
    <3>2. CASE q # p
      BY <1>5, <2>2, <3>2 DEF InOrder
    <3>3. QED
      BY <3>1, <3>2
  <2>3. QED
    BY <2>2 DEF InOrder
<1>8. ASSUME NEW q \in Sends \union Subs, stream'[q].src # None, seen'[q] # <<>>
      PROVE  /\ Last(seen'[q]).sequence <= stream'[q].sub.min
             /\ stream'[q].sub.snapshot # NoTask => stream'[q].sub.min = 0
  <2>1. CASE q = p
    <3>1. y.sequence <= r.min
      BY <1>2
    <3>2. QED
      BY <1>2, <1>5, <1>6, <1>8, <2>1, <3>1
  <2>2. CASE q # p
    BY <1>5, <1>8, <2>2 DEF Streams, Opened
  <2>3. QED
    BY <2>1, <2>2
<1>9. ASSUME NEW u \in Subs
      PROVE  /\ Fresh(u)' => seen'[u] = <<>>
             /\ sub'[u].pc = "idle" => stream'[u].src = None
             /\ Waits(u)' => /\ stream'[u].src = None
                             /\ seen'[u] # <<>> => Last(seen'[u]).sequence = 0
  <2>1. Waits(u)' => Waits(u) /\ u # p
    BY DEF Streams, Waits
  <2>2. sub'[u].pc = "idle" => sub[u].pc = "idle" /\ u # p
    BY DEF Fresh
  <2>3. u # p => seen'[u] = seen[u] /\ stream'[u] = stream[u]
    BY <1>5
  <2>4. QED
    BY <2>1, <2>2, <2>3 DEF Streams, Fresh, Opened
<1>10. ASSUME NEW s \in Sends, Early(s)' PROVE seen'[s] = <<>>
  BY <1>5, <1>10 DEF Streams, Early
<1>11. Streams'
  BY <1>8, <1>9, <1>10 DEF Streams, Opened, Early, Fresh
<1>12. QED
  BY <1>7, <1>11

LEMMA StreamsStill ==
  ASSUME Streams, UNCHANGED <<send, sub, waiting, stream, seen>>
  PROVE  StreamsGoOn
<1>1. \A p \in Sends \union Subs : StreamGoesOn(p)
  BY DEF StreamGoesOn, Opened
<1>2. \A u \in Subs : Waits(u)' => Waits(u) /\ stream'[u].src = None
  BY DEF Streams, Waits, Opened
<1>3. QED
  BY <1>1, <1>2 DEF StreamsGoOn, Early, Fresh, Streams, Opened

(* A send that leaves its stream as it is, or drops it.                    *)
LEMMA SendStreamStill ==
  ASSUME Shape, Streams, NEW s \in Sends, UNCHANGED <<sub, waiting, seen>>,
         \A q \in Sends : Early(q)' => Early(q),
         UNCHANGED stream \/ stream' = [stream EXCEPT ![s] = NoStream]
  PROVE  StreamsGoOn
<1>1. s \notin Subs
  BY ModelAssumption
<1>2. /\ \A q \in (Sends \union Subs) \ {s} : stream'[q] = stream[q]
      /\ stream'[s] = stream[s] \/ stream'[s].src = None
  BY DEF Shape, Types, NoStream
<1>3. \A p \in Sends \union Subs : StreamGoesOn(p)
  BY <1>2 DEF StreamGoesOn, Opened
<1>4. \A u \in Subs : Waits(u)' => Waits(u) /\ stream'[u].src = None
  BY <1>1, <1>2 DEF Streams, Waits, Opened
<1>5. \A u \in Subs : sub[u].pc = "idle" => stream'[u].src = None
  BY <1>1, <1>2 DEF Streams, Opened
<1>6. QED
  BY <1>3, <1>4, <1>5 DEF StreamsGoOn, Fresh

LEMMA SendOrder ==
  ASSUME Shape, Streams, InOrder, NEW s \in Sends,
         \/ \E t \in Tasks, m \in Modes : SendExisting(s, t, m) \/ SendNew(s, t, m)
         \/ SendConfigRefused(s) \/ SendDropped(s) \/ SendEnd(s) \/ SendReload(s)
  PROVE  Streams' /\ InOrder'
<1>1. /\ UNCHANGED <<sub, waiting, seen>>
      /\ UNCHANGED stream \/ stream' = [stream EXCEPT ![s] = NoStream]
  BY DEF SendExisting, SendNew, SendConfigRefused, SendDropped, SendEnd, SendReload,
         manager, streams
<1>2. \A q \in Sends \ {s} : send'[q] = send[q]
  BY DEF SendExisting, SendNew, SendConfigRefused, SendDropped, SendEnd, SendReload,
         Answer, Shape, Types
<1>3. Early(s)' => Early(s)
  <2>1. CASE \E t \in Tasks, m \in Modes : SendExisting(s, t, m) \/ SendNew(s, t, m)
    BY <2>1 DEF SendExisting, SendNew, Early
  <2>2. CASE SendConfigRefused(s) \/ SendDropped(s) \/ SendEnd(s) \/ SendReload(s)
    <3>1. ASSUME NEW r, Answer(s, r) PROVE send'[s].pc = "done"
      BY <3>1 DEF Answer, Shape, Types
    <3>2. \/ \E r : Answer(s, r)
          \/ send' = [send EXCEPT ![s].pc = "reload"]
      <4>1. CASE SendConfigRefused(s)
        BY <4>1 DEF SendConfigRefused
      <4>2. CASE SendDropped(s)
        BY <4>2 DEF SendDropped
      <4>3. CASE SendEnd(s)
        BY <4>3, Zenon DEF SendEnd
      <4>4. CASE SendReload(s)
        BY <4>4 DEF SendReload
      <4>5. QED
        BY <2>2, <4>1, <4>2, <4>3, <4>4
    <3>3. send' = [send EXCEPT ![s].pc = "reload"] => send'[s].pc = "reload"
      BY DEF Shape, Types
    <3>4. send'[s].pc \in {"done", "reload"}
      BY <3>1, <3>2, <3>3
    <3>5. QED
      BY <3>4 DEF Early
  <2>3. QED
    BY <2>1, <2>2
<1>4. \A q \in Sends : Early(q)' => Early(q)
  BY <1>2, <1>3 DEF Early
<1>5. QED
  BY <1>1, <1>4, SendStreamStill, StreamsKept

(* start: whoever waited gets a stream from number 0.                      *)
LEMMA SendStartOrder ==
  ASSUME Shape, Streams, InOrder, NEW s \in Sends, SendStart(s)
  PROVE  Streams' /\ InOrder'
<1>. DEFINE t == send[s].id
<1>1. send[s].pc = "prepared" /\ t \in Tasks /\ UNCHANGED <<sub, seen>>
  BY DEF SendStart, Shape, Holds, SendHolds
<1>2. \A q \in Sends : Early(q)' => Early(q)
  BY <1>1 DEF SendStart, Answer, Early, Shape, Types
<1>3. CASE UNCHANGED <<manager, stream>>
  BY <1>1, <1>2, <1>3, SendStreamStill, StreamsKept DEF manager
<1>4. CASE /\ waiting' = [waiting EXCEPT ![t] = {}]
           /\ stream' = [p \in Sends \union Subs |->
                IF p \in waiting[t]
                THEN [src |-> s, sub |-> Subscription(0, send[s].task, 0)]
                ELSE stream[p]]
  <2>1. \A p \in (Sends \union Subs) \ waiting[t] : stream'[p] = stream[p]
    BY <1>4
  <2>2. \A p \in waiting[t] : p \in Subs /\ Waits(p) /\ stream'[p].sub.min = 0
    BY <1>1, <1>4 DEF Waits, Subscription, Shape, Types
  <2>3. \A p \in Sends \union Subs : StreamGoesOn(p)
    BY <1>1, <2>1, <2>2 DEF StreamGoesOn, Opened
  <2>4. ASSUME NEW u \in Subs, Waits(u)' PROVE Waits(u) /\ stream'[u].src = None
    <3>1. PICK v \in Tasks : u \in waiting'[v]
      BY <2>4 DEF Waits
    <3>2. u \in waiting[v] /\ v # t
      BY <1>1, <1>4, <3>1 DEF Shape, Types
    <3>3. u \notin waiting[t]
      BY <1>1, <3>2 DEF Shape, Holds, SubHolds
    <3>4. Waits(u) /\ ~Opened(u)
      BY <3>2 DEF Waits, Streams
    <3>5. QED
      BY <2>1, <3>3, <3>4 DEF Opened
  <2>5. ASSUME NEW u \in Subs, sub[u].pc = "idle" PROVE stream'[u].src = None
    <3>1. u \notin waiting[t]
      BY <1>1, <2>5 DEF Shape, Holds, SubHolds
    <3>2. QED
      BY <2>1, <2>5, <3>1 DEF Streams, Opened
  <2>6. StreamsGoOn
    BY <1>1, <1>2, <2>3, <2>4, <2>5 DEF StreamsGoOn, Fresh
  <2>7. QED
    BY <2>6, StreamsKept
<1>5. QED
  BY <1>3, <1>4 DEF SendStart

LEMMA SendSpawnOrder ==
  ASSUME Shape, Streams, InOrder, NEW s \in Sends, SendSpawn(s)
  PROVE  Streams' /\ InOrder'
<1>1. /\ send[s].pc = "registered" /\ UNCHANGED <<sub, waiting, seen>>
      /\ \A q \in Sends : Early(q)' => Early(q)
      /\ \A q \in (Sends \union Subs) \ {s} : stream'[q] = stream[q]
      /\ s \notin Subs
  BY ModelAssumption DEF SendSpawn, manager, Early, Shape, Types
<1>2. seen[s] = <<>>
  BY <1>1 DEF Streams
<1>3. \A p \in Sends \union Subs : StreamGoesOn(p)
  BY <1>1, <1>2 DEF StreamGoesOn, Opened
<1>4. \A u \in Subs : Waits(u)' => Waits(u) /\ stream'[u].src = None
  BY <1>1 DEF Streams, Waits, Opened
<1>5. \A u \in Subs : sub[u].pc = "idle" => stream'[u].src = None
  BY <1>1 DEF Streams, Opened
<1>6. StreamsGoOn
  BY <1>1, <1>3, <1>4, <1>5 DEF StreamsGoOn, Fresh
<1>7. QED
  BY <1>6, StreamsKept

LEMMA SendReceiveOrder ==
  ASSUME Shape, Streams, InOrder, NEW s \in Sends, SendReceive(s)
  PROVE  Streams' /\ InOrder'
<1>1. /\ send[s].pc = "streaming" /\ CanDeliver(Source(s), stream[s].sub)
      /\ UNCHANGED <<sub, waiting>> /\ \E keep \in BOOLEAN : Yield(s, keep)
  BY DEF SendReceive, manager
<1>2. Opened(s)
  <2>1. stream[s].src = s /\ s # None
    BY <1>1, ModelAssumption DEF Shape, Holds, SendHolds
  <2>2. QED
    BY <2>1 DEF Opened
<1>3. \A q \in Sends : Early(q)' => Early(q) /\ q # s
  <2>1. \/ \E r : Answer(s, r)
        \/ send' = [send EXCEPT ![s].pc = "reload"]
        \/ UNCHANGED send
    BY Zenon DEF SendReceive
  <2>2. /\ \A q \in Sends \ {s} : send'[q] = send[q]
        /\ send'[s].pc \in {"done", "reload", "streaming"}
    <3>1. CASE \E r : Answer(s, r)
      BY <3>1 DEF Answer, Shape, Types
    <3>2. CASE send' = [send EXCEPT ![s].pc = "reload"]
      BY <3>2 DEF Shape, Types
    <3>3. CASE UNCHANGED send
      BY <1>1, <3>3
    <3>4. QED
      BY <2>1, <3>1, <3>2, <3>3
  <2>3. QED
    BY <2>2 DEF Early
<1>4. s \notin Subs
  BY ModelAssumption
<1>5. \A u \in Subs : Fresh(u)' => /\ Fresh(u) /\ u # s
                                   /\ sub'[u].pc = "idle" => sub[u].pc = "idle"
  BY <1>1, <1>4 DEF Fresh
<1>6. QED
  BY <1>1, <1>2, <1>3, <1>5, YieldInOrder

LEMMA SkipOrder ==
  ASSUME Shape, Streams, InOrder, NEW p \in Sends \union Subs, Skip(p)
  PROVE  Streams' /\ InOrder'
<1>1. /\ UNCHANGED <<send, sub, waiting, seen>>
      /\ \A q \in Sends \union Subs :
           /\ stream'[q].src = stream[q].src
           /\ stream'[q].sub.min = stream[q].sub.min
           /\ stream'[q].sub.snapshot = stream[q].sub.snapshot
  BY SkipMoves DEF Skip, manager, handlers
<1>2. \A q \in Sends \union Subs : StreamGoesOn(q)
  BY <1>1 DEF StreamGoesOn, Opened
<1>3. \A u \in Subs : Waits(u)' => Waits(u) /\ stream'[u].src = None
  BY <1>1 DEF Streams, Waits, Opened
<1>4. \A u \in Subs : sub[u].pc = "idle" => stream'[u].src = None
  BY <1>1 DEF Streams, Opened
<1>5. StreamsGoOn
  BY <1>1, <1>2, <1>3, <1>4 DEF StreamsGoOn, Fresh, Early
<1>6. QED
  BY <1>5, StreamsKept

-----------------------------------------------------------------------------

(* A subscription's step that yields nothing.                              *)
LEMMA SubStreamStill ==
  ASSUME Shape, Streams, InOrder, NEW u \in Subs, UNCHANGED <<send, seen>>,
         \A v \in Subs \ {u} : sub'[v] = sub[v] /\ (Waits(v)' => Waits(v)),
         \A q \in (Sends \union Subs) \ {u} : stream'[q] = stream[q],
         sub'[u].pc # "idle", Fresh(u)' => Fresh(u),
         Waits(u)' => (Waits(u) \/ sub[u].pc = "idle") /\ stream'[u].src = None,
         StreamGoesOn(u)
  PROVE  Streams' /\ InOrder'
<1>1. \A p \in Sends \union Subs : StreamGoesOn(p)
  BY DEF StreamGoesOn, Opened
<1>2. \A v \in Subs : Waits(v)' => /\ Waits(v) \/ sub[v].pc = "idle"
                                   /\ stream'[v].src = None
  BY DEF Streams, Opened
<1>3. \A v \in Subs : sub'[v].pc = "idle" => sub[v].pc = "idle" /\ stream'[v].src = None
  BY DEF Streams, Opened
<1>4. StreamsGoOn
  BY <1>1, <1>2, <1>3 DEF StreamsGoOn, Fresh, Early
<1>5. QED
  BY <1>4, StreamsKept

LEMMA WithdrawOrder ==
  ASSUME Shape, Streams, InOrder, NEW u \in Subs, sub[u].pc # "idle", Withdraw(u),
         SubUnchanged, UNCHANGED seen
  PROVE  Streams' /\ InOrder'
<1>1. sub[u].id \in Tasks
  BY DEF Shape, Holds, SubHolds
<1>2. /\ \A v \in Subs \ {u} : sub'[v] = sub[v]
      /\ \A q \in (Sends \union Subs) \ {u} : stream'[q] = stream[q]
      /\ sub'[u].pc = "done" /\ stream'[u].src = None /\ UNCHANGED send
      /\ \A t \in Tasks : waiting'[t] \subseteq waiting[t]
      /\ u \notin waiting'[sub[u].id]
  BY <1>1 DEF Withdraw, NoStream, SubUnchanged, Shape, Types
<1>3. \A v \in Subs : Waits(v)' => Waits(v)
  BY <1>2 DEF Waits
<1>4. ~Waits(u)'
  BY <1>2 DEF Waits, Shape, Holds, SubHolds
<1>5. StreamGoesOn(u) /\ ~Fresh(u)'
  BY <1>2 DEF StreamGoesOn, Fresh
<1>6. QED
  BY <1>2, <1>3, <1>4, <1>5, SubStreamStill

LEMMA SubRegisterOrder ==
  ASSUME Shape, Streams, InOrder, NEW u \in Subs, NEW t \in Tasks, SubRegister(u, t)
  PROVE  Streams' /\ InOrder'
<1>1. sub[u].pc = "idle" /\ UNCHANGED <<send, seen>>
  BY DEF SubRegister, SubUnchanged
<1>2. seen[u] = <<>> /\ ~Opened(u) /\ ~Waits(u)
  BY <1>1 DEF Streams, Shape, Holds, SubHolds, Waits
<1>3. /\ \A v \in Subs \ {u} : sub'[v] = sub[v]
      /\ sub'[u].pc \in {"attaching", "load"}
      /\ \A q \in (Sends \union Subs) \ {u} : stream'[q] = stream[q]
      /\ \A w \in Tasks : waiting'[w] \subseteq waiting[w] \union {u}
      /\ UNCHANGED waiting \/ UNCHANGED stream
  <2>1. CASE registry[t] # None
    <3>. DEFINE st == [src |-> registry[t],
                       sub |-> Subscription(Len(exec[registry[t]].sent), NoTask, 0)]
    <3>1. /\ sub' = [sub EXCEPT ![u].pc = "attaching", ![u].id = t]
          /\ stream' = [stream EXCEPT ![u] = st]
          /\ UNCHANGED waiting
      BY <2>1 DEF SubRegister
    <3>. HIDE DEF st
    <3>2. /\ \A v \in Subs \ {u} : sub'[v] = sub[v]
          /\ sub'[u].pc = "attaching"
      BY <3>1 DEF Shape, Types
    <3>3. \A q \in (Sends \union Subs) \ {u} : stream'[q] = stream[q]
      BY <3>1 DEF Shape, Types
    <3>4. QED
      BY <3>1, <3>2, <3>3
  <2>2. CASE registry[t] = None
    <3>1. /\ sub' = [sub EXCEPT ![u].pc = "load", ![u].id = t]
          /\ waiting' = [waiting EXCEPT ![t] = waiting[t] \union {u}]
          /\ UNCHANGED stream
      BY <2>2 DEF SubRegister
    <3>2. /\ \A v \in Subs \ {u} : sub'[v] = sub[v]
          /\ sub'[u].pc = "load"
      BY <3>1 DEF Shape, Types
    <3>3. \A w \in Tasks : waiting'[w] \subseteq waiting[w] \union {u}
      BY <3>1 DEF Shape, Types
    <3>4. QED
      BY <3>1, <3>2, <3>3
  <2>3. QED
    BY <2>1, <2>2
<1>4. \A v \in Subs \ {u} : Waits(v)' => Waits(v)
  BY <1>3 DEF Waits
<1>5. StreamGoesOn(u) /\ Fresh(u)
  BY <1>1, <1>2 DEF StreamGoesOn, Fresh
<1>6. Waits(u)' => stream'[u].src = None
  BY <1>2, <1>3 DEF Waits, Opened
<1>7. QED
  BY <1>1, <1>3, <1>4, <1>5, <1>6, SubStreamStill

LEMMA SubAttachOrder ==
  ASSUME Shape, Streams, InOrder, NEW u \in Subs, SubAttach(u)
  PROVE  Streams' /\ InOrder'
<1>1. sub[u].pc = "attaching" /\ UNCHANGED <<send, seen, waiting>>
  BY DEF SubAttach, SubUnchanged
<1>2. seen[u] = <<>> /\ ~Waits(u)
  BY <1>1 DEF Streams, Shape, Holds, SubHolds, Waits
<1>3. /\ \A v \in Subs \ {u} : sub'[v] = sub[v]
      /\ sub'[u].pc = "streaming"
      /\ \A q \in (Sends \union Subs) \ {u} : stream'[q] = stream[q]
  BY DEF SubAttach, Shape, Types
<1>4. \A v \in Subs : Waits(v)' = Waits(v)
  BY <1>1 DEF Waits
<1>5. StreamGoesOn(u) /\ ~Fresh(u)'
  BY <1>1, <1>2, <1>3 DEF StreamGoesOn, Fresh
<1>6. QED
  BY <1>1, <1>2, <1>3, <1>4, <1>5, SubStreamStill

LEMMA SubLoadOrder ==
  ASSUME Shape, Streams, InOrder, NEW u \in Subs, SubLoad(u)
  PROVE  Streams' /\ InOrder'
<1>1. sub[u].pc = "load" /\ SubUnchanged /\ UNCHANGED <<send, seen>>
  BY DEF SubLoad, SubUnchanged
<1>2. CASE Withdraw(u)
  BY <1>1, <1>2, WithdrawOrder
<1>3. CASE /\ sub' = [sub EXCEPT ![u].pc = "decide",
                                 ![u].task = store.entries[sub[u].id].task]
           /\ UNCHANGED <<waiting, stream>>
  <2>1. /\ \A v \in Subs \ {u} : sub'[v] = sub[v]
        /\ sub'[u].pc = "decide"
    BY <1>3 DEF Shape, Types
  <2>2. \A v \in Subs : Waits(v)' = Waits(v)
    BY <1>3 DEF Waits
  <2>3. StreamGoesOn(u) /\ Fresh(u)
    BY <1>1, <1>3 DEF StreamGoesOn, Fresh, Opened
  <2>4. Waits(u) => stream'[u].src = None
    BY <1>3 DEF Streams, Opened
  <2>5. QED
    BY <1>1, <1>3, <2>1, <2>2, <2>3, <2>4, SubStreamStill
<1>4. QED
  BY <1>2, <1>3 DEF SubLoad

(* The stream opens with the task as it was read, at number 0.             *)
LEMMA SubDecideOrder ==
  ASSUME Shape, Streams, InOrder, NEW u \in Subs, SubDecide(u)
  PROVE  Streams' /\ InOrder'
<1>1. sub[u].pc = "decide" /\ SubUnchanged /\ UNCHANGED send
  BY DEF SubDecide, SubUnchanged
<1>2. CASE Withdraw(u) /\ UNCHANGED seen
  BY <1>1, <1>2, WithdrawOrder
<1>3. CASE sub' = [sub EXCEPT ![u].pc = "streaming"] /\ UNCHANGED <<waiting, streams>>
  <2>1. /\ \A v \in Subs \ {u} : sub'[v] = sub[v]
        /\ sub'[u].pc = "streaming" /\ UNCHANGED <<stream, seen>>
    BY <1>3 DEF streams, Shape, Types
  <2>2. \A v \in Subs : Waits(v)' = Waits(v)
    BY <1>3 DEF Waits
  <2>3. StreamGoesOn(u) /\ ~Fresh(u)'
    BY <2>1 DEF StreamGoesOn, Fresh, Opened
  <2>4. Waits(u) => stream'[u].src = None
    BY <2>1 DEF Streams, Opened
  <2>5. QED
    BY <1>1, <1>3, <2>1, <2>2, <2>3, <2>4, SubStreamStill
<1>4. CASE /\ ~Opened(u) /\ sub' = [sub EXCEPT ![u].pc = "streaming"]
           /\ seen' = [seen EXCEPT ![u] =
                <<[event |-> Snapshot(sub[u].task.state), sequence |-> 0]>>]
           /\ UNCHANGED <<waiting, stream>>
  <2>1. /\ \A v \in Subs \ {u} : sub'[v] = sub[v]
        /\ sub'[u].pc = "streaming" /\ u \notin Sends
        /\ \A q \in (Sends \union Subs) \ {u} : seen'[q] = seen[q]
    BY <1>4, ModelAssumption DEF Shape, Types
  <2>2. Len(seen'[u]) = 1 /\ Last(seen'[u]).sequence = 0
    BY <1>4 DEF Last, Shape, Types
  <2>3. \A v \in Subs : Waits(v)' = Waits(v)
    BY <1>4 DEF Waits
  <2>4. InOrder'
    BY <2>1, <2>2 DEF InOrder
  <2>5. Streams'
    BY <1>1, <1>4, <2>1, <2>2, <2>3 DEF Streams, Opened
  <2>6. QED
    BY <2>4, <2>5
<1>5. QED
  BY <1>2, <1>3, <1>4 DEF SubDecide

LEMMA SubReceiveOrder ==
  ASSUME Shape, Streams, InOrder, NEW u \in Subs, SubReceive(u)
  PROVE  Streams' /\ InOrder'
<1>1. /\ sub[u].pc = "streaming" /\ Opened(u) /\ CanDeliver(Source(u), stream[u].sub)
      /\ Yield(u, TRUE) /\ UNCHANGED <<send, sub, waiting>>
  BY DEF SubReceive, SubUnchanged
<1>2. u \notin Sends
  BY ModelAssumption
<1>3. /\ \A s \in Sends : Early(s)' => Early(s) /\ s # u
      /\ \A v \in Subs : Fresh(v)' => /\ Fresh(v) /\ v # u
                                      /\ sub'[v].pc = "idle" => sub[v].pc = "idle"
  BY <1>1, <1>2 DEF Early, Fresh
<1>4. QED
  BY <1>1, <1>3, YieldInOrder

LEMMA SendStepOrder ==
  ASSUME Shape, Streams, InOrder, NEW s \in Sends,
         \/ \E t \in Tasks, m \in Modes : SendExisting(s, t, m) \/ SendNew(s, t, m)
         \/ SendConfigRefused(s) \/ SendDropped(s) \/ SendStep(s)
  PROVE  Streams' /\ InOrder'
<1>1. CASE \/ \E t \in Tasks, m \in Modes : SendExisting(s, t, m) \/ SendNew(s, t, m)
           \/ SendConfigRefused(s) \/ SendDropped(s)
  BY <1>1, SendOrder
<1>2. CASE SendStep(s)
  <2>1. CASE SendEnd(s) \/ SendReload(s)
    BY <2>1, SendOrder
  <2>2. CASE SendStart(s)
    BY <2>2, SendStartOrder
  <2>3. CASE SendSpawn(s)
    BY <2>3, SendSpawnOrder
  <2>4. CASE SendReceive(s)
    BY <2>4, SendReceiveOrder
  <2>5. CASE Skip(s)
    BY <2>5, SkipOrder
  <2>6. QED
    BY <1>2, <2>1, <2>2, <2>3, <2>4, <2>5 DEF SendStep
<1>3. QED
  BY <1>1, <1>2

LEMMA SubStepOrder ==
  ASSUME Shape, Streams, InOrder, NEW u \in Subs,
         \/ \E t \in Tasks : SubRegister(u, t)
         \/ SubDropped(u) \/ SubStep(u)
  PROVE  Streams' /\ InOrder'
<1>1. CASE \E t \in Tasks : SubRegister(u, t)
  BY <1>1, SubRegisterOrder
<1>2. CASE SubDropped(u) \/ SubEnd(u)
  <2>1. sub[u].pc # "idle" /\ Withdraw(u) /\ SubUnchanged /\ UNCHANGED seen
    BY <1>2 DEF SubDropped, SubEnd
  <2>2. QED
    BY <2>1, WithdrawOrder
<1>3. CASE SubAttach(u)
  BY <1>3, SubAttachOrder
<1>4. CASE SubLoad(u)
  BY <1>4, SubLoadOrder
<1>5. CASE SubDecide(u)
  BY <1>5, SubDecideOrder
<1>6. CASE SubReceive(u)
  BY <1>6, SubReceiveOrder
<1>7. CASE Skip(u)
  BY <1>7, SkipOrder
<1>8. QED
  BY <1>1, <1>2, <1>3, <1>4, <1>5, <1>6, <1>7 DEF SubStep

(* A drive yields nothing to anybody by itself.                            *)
LEMMA DriveStepOrder ==
  ASSUME Shape, Streams, InOrder, NEW s \in Sends, DriveStep(s)
  PROVE  Streams' /\ InOrder'
<1>1. UNCHANGED <<send, sub, waiting, stream, seen>>
  <2>1. CASE DriveFinish(s)
    BY <2>1 DEF DriveFinish, streams
  <2>2. CASE DriveUnchanged
    BY <2>2 DEF DriveUnchanged, streams
  <2>3. DriveStep(s) /\ ~DriveFinish(s) => DriveUnchanged
    BY Zenon DEF DriveStep, DriveSnapshot, DriveEnd, DrivePull, DriveSave, DriveCreate,
       DrivePush, DriveFail, DriveFailCreate, DriveFailPush, DriveNumber, DriveSend
  <2>4. QED
    BY <2>1, <2>2, <2>3
<1>2. QED
  BY <1>1, StreamsStill, StreamsKept

(* release: whoever waited gets the final task, from number 0.             *)
LEMMA CancelReleaseOrder ==
  ASSUME Shape, Streams, InOrder, NEW c \in Cancels, CancelRelease(c)
  PROVE  Streams' /\ InOrder'
<1>. DEFINE t == cancel[c].id
<1>1. /\ t \in Tasks /\ UNCHANGED <<send, sub, seen>>
      /\ waiting' = [waiting EXCEPT ![t] = {}]
      /\ stream' = [p \in Sends \union Subs |->
           IF p \in waiting[t]
           THEN [src |-> Dead, sub |-> Subscription(0, cancel[c].final, 0)]
           ELSE stream[p]]
  BY DEF CancelRelease, Shape, Holds, CancelHolds
<1>2. \A p \in (Sends \union Subs) \ waiting[t] : stream'[p] = stream[p]
  BY <1>1
<1>3. \A p \in waiting[t] : p \in Subs /\ Waits(p) /\ stream'[p].sub.min = 0
  BY <1>1 DEF Waits, Subscription, Shape, Types
<1>4. \A p \in Sends \union Subs : StreamGoesOn(p)
  BY <1>1, <1>2, <1>3 DEF StreamGoesOn, Opened
<1>5. ASSUME NEW u \in Subs, Waits(u)' PROVE Waits(u) /\ stream'[u].src = None
  <2>1. PICK v \in Tasks : u \in waiting'[v]
    BY <1>5 DEF Waits
  <2>2. u \in waiting[v] /\ v # t
    BY <1>1, <2>1 DEF Shape, Types
  <2>3. u \notin waiting[t]
    BY <1>1, <2>2 DEF Shape, Holds, SubHolds
  <2>4. Waits(u) /\ ~Opened(u)
    BY <2>2 DEF Waits, Streams
  <2>5. QED
    BY <1>2, <2>3, <2>4 DEF Opened
<1>6. ASSUME NEW u \in Subs, sub[u].pc = "idle" PROVE stream'[u].src = None
  <2>1. u \notin waiting[t]
    BY <1>1, <1>6 DEF Shape, Holds, SubHolds
  <2>2. QED
    BY <1>2, <1>6, <2>1 DEF Streams, Opened
<1>7. StreamsGoOn
  BY <1>1, <1>4, <1>5, <1>6 DEF StreamsGoOn, Fresh, Early
<1>8. QED
  BY <1>7, StreamsKept

LEMMA CancelStepOrder ==
  ASSUME Shape, Streams, InOrder, NEW c \in Cancels,
         \/ \E t \in Tasks : CancelLoad(c, t)
         \/ CancelDropped(c) \/ CancelStep(c)
  PROVE  Streams' /\ InOrder'
<1>1. CASE CancelRelease(c)
  BY <1>1, CancelReleaseOrder
<1>2. CASE ~CancelRelease(c)
  <2>1. CancelUnchanged
    BY <1>2, Zenon DEF CancelStep, CancelLoad, CancelDropped, CancelBegin, CancelRaced,
       CancelLookup, CancelEnd, CancelPull, CancelSave, CancelCreate, CancelPush,
       CancelNumber, CancelSend, CancelNext, CancelErrorPush, CancelFinish, CancelReload,
       CancelFinalPush
  <2>2. UNCHANGED <<send, sub, waiting, stream, seen>>
    BY <2>1 DEF CancelUnchanged, streams
  <2>3. QED
    BY <2>2, StreamsStill, StreamsKept
<1>3. QED
  BY <1>1, <1>2

LEMMA NextOrder ==
  ASSUME Shape, Streams, InOrder, [Next]_vars
  PROVE  Streams' /\ InOrder'
<1>1. CASE \E s \in Sends :
             \/ \E t \in Tasks, m \in Modes : SendExisting(s, t, m) \/ SendNew(s, t, m)
             \/ SendConfigRefused(s) \/ SendDropped(s) \/ SendStep(s)
  BY <1>1, SendStepOrder
<1>2. CASE \E s \in Sends : DriveStep(s)
  BY <1>2, DriveStepOrder
<1>3. CASE \E c \in Cancels : \/ \E t \in Tasks : CancelLoad(c, t)
                              \/ CancelDropped(c) \/ CancelStep(c)
  BY <1>3, CancelStepOrder
<1>4. CASE \E u \in Subs : \/ \E t \in Tasks : SubRegister(u, t)
                           \/ SubDropped(u) \/ SubStep(u)
  BY <1>4, SubStepOrder
<1>5. CASE UNCHANGED vars
  <2>1. UNCHANGED <<send, sub, waiting, stream, seen>>
    BY <1>5 DEF vars, handlers, manager, streams
  <2>2. QED
    BY <2>1, StreamsStill, StreamsKept
<1>6. QED
  BY <1>1, <1>2, <1>3, <1>4, <1>5, Zenon DEF Next, Settled

LEMMA InitStreams ==
  ASSUME Init
  PROVE  Streams /\ InOrder
<1>1. \A p \in Sends \union Subs : seen[p] = <<>> /\ ~Opened(p)
  BY DEF Init, NoStream, Opened
<1>2. \A u \in Subs : ~Waits(u)
  BY DEF Init, Waits
<1>3. QED
  BY <1>1, <1>2 DEF Streams, InOrder

(* Every stream, of a send or of a subscription, shows its execution's     *)
(* events in the order of their numbers and each at most once, although    *)
(* drive_execution and cancel_task may send them in another.               *)
THEOREM StreamsAreInOrder == Spec => []InOrder
<1>1. Init => Shape /\ Streams /\ InOrder
  BY InitShape, InitStreams
<1>2. Shape /\ Streams /\ InOrder /\ [Next]_vars => (Shape /\ Streams /\ InOrder)'
  BY NextOrder, NextShape
<1>3. QED
  BY <1>1, <1>2, PTL DEF Spec

-----------------------------------------------------------------------------
(* What callers are told.  A store without a limit keeps what it has, and  *)
(* the end a task came to.                                                 *)

StoreGoesOn ==
  \A t \in Tasks : Stored(store, t) =>
    /\ Stored(store', t)
    /\ Finished(store, t) => StateOf(store', t) = StateOf(store, t)

LEMMA StoreStays ==
  ASSUME UNCHANGED store
  PROVE  StoreGoesOn
  BY DEF StoreGoesOn

(* A call that writes a task's entry.                                      *)
LEMMA PutKeeps ==
  ASSUME StoreOK(store), NEW t \in Tasks, NEW task \in Task, NEW v \in Nat \ {0},
         store' = Put(store, t, task, v),
         Finished(store, t) => StateOf(store, t) = task.state
  PROVE  /\ StoreGoesOn
         /\ Stored(store', t) /\ StateOf(store', t) = task.state
         /\ Told(store', t, task.state)
         /\ \A w \in Tasks : Stored(store', w) => Stored(store, w) \/ w = t
         /\ \A w \in Tasks \ {t} : store'.entries[w] = store.entries[w]
<1>1. store'.entries = [store.entries EXCEPT ![t] = [task |-> task, version |-> v]]
  BY DEF Put, StoreOK
<1>2. /\ store'.entries[t] = [task |-> task, version |-> v]
      /\ \A w \in Tasks \ {t} : store'.entries[w] = store.entries[w]
  BY <1>1 DEF StoreOK
<1>3. StateOf(store', t) = task.state
  BY <1>2 DEF StateOf
<1>4. Stored(store', t)
  <2>1. [task |-> task, version |-> v] # Absent
    BY AbsentAssumption
  <2>2. QED
    BY <1>2, <2>1 DEF Stored
<1>5. StoreGoesOn
  <2>1. ASSUME NEW w \in Tasks, Stored(store, w)
        PROVE  /\ Stored(store', w)
               /\ Finished(store, w) => StateOf(store', w) = StateOf(store, w)
    <3>1. CASE w = t
      BY <1>3, <1>4, <3>1
    <3>2. CASE w # t
      BY <1>2, <2>1, <3>2 DEF Stored, StateOf
    <3>3. QED
      BY <3>1, <3>2
  <2>2. QED
    BY <2>1 DEF StoreGoesOn
<1>6. \A w \in Tasks : Stored(store', w) => Stored(store, w) \/ w = t
  BY <1>2 DEF Stored
<1>7. QED
  BY <1>2, <1>3, <1>4, <1>5, <1>6 DEF Told

LEMMA WriteVersion ==
  ASSUME StoreOK(store), NEW t \in Tasks, Stored(store, t)
  PROVE  store.entries[t].version + 1 \in Nat \ {0}
<1>1. store.entries[t] \in Entry
  BY DEF StoreOK, Stored
<1>2. store.entries[t].version \in Nat
  BY <1>1 DEF Entry
<1>3. QED
  BY <1>2

(* What a call leaves, of the store and of the task it wrote.              *)
Writes(t, x) ==
  /\ StoreGoesOn
  /\ Told(store', t, x) /\ Stored(store', t) /\ StateOf(store', t) = x
  /\ \A w \in Tasks : Stored(store', w) => Stored(store, w) \/ w = t
  /\ \A w \in Tasks \ {t} : store'.entries[w] = store.entries[w]

LEMMA UpdateWrites ==
  ASSUME Limit = NoLimit, StoreOK(store), NEW t \in Tasks, NEW task \in Task,
         SaveOutcome(t, task) = "saved", store' = AfterUpdate(store, t, task)
  PROVE  Writes(t, task.state) /\ Stored(store, t)
<1>1. CanUpdate(store, t, task)
  BY DEF SaveOutcome
<1>2. Stored(store, t) /\ (Finished(store, t) => StateOf(store, t) = task.state)
  BY <1>1 DEF CanUpdate, Finished
<1>3. store' = Put(store, t, task, store.entries[t].version + 1)
  BY DEF AfterUpdate, Retire
<1>4. store.entries[t].version + 1 \in Nat \ {0}
  BY <1>2, WriteVersion
<1>5. QED
  BY <1>2, <1>3, <1>4, PutKeeps DEF Writes

LEMMA BeginCancelWrites ==
  ASSUME Limit = NoLimit, StoreOK(store), NEW t \in Tasks,
         CanBeginCancel(store, t), store' = AfterBeginCancel(store, t)
  PROVE  Writes(t, CanceledTask(store, t).state) /\ Finished(store', t)
<1>1. Stored(store, t) /\ ~Finished(store, t)
  BY DEF CanBeginCancel, Finished
<1>2. store' = Put(store, t, CanceledTask(store, t), store.entries[t].version + 1)
  BY DEF AfterBeginCancel, Retire
<1>3. store.entries[t].version + 1 \in Nat \ {0} /\ CanceledTask(store, t) \in Task
  BY <1>1, WriteVersion, StoreCallShape, StoredTask
<1>4. Writes(t, CanceledTask(store, t).state)
  BY <1>1, <1>2, <1>3, PutKeeps DEF Writes
<1>5. IsTerminal(CanceledTask(store, t).state)
  <2>1. store.entries[t].task \in Task
    BY <1>1, StoredTask
  <2>2. CanceledTask(store, t).state = "Canceled"
    BY <2>1 DEF CanceledTask, Task
  <2>3. QED
    BY <2>2 DEF IsTerminal, TerminalStates
<1>6. QED
  BY <1>4, <1>5 DEF Writes, Finished

LEMMA CreateWrites ==
  ASSUME StoreOK(store), NEW t \in Tasks, NEW task \in Task, ~IsTerminal(task.state),
         ~Stored(store, t), store' = AfterCreate(store, t, task)
  PROVE  Writes(t, task.state)
<1>1. store' = Put(store, t, task, 1)
  BY DEF AfterCreate
<1>2. ~Finished(store, t)
  BY DEF Finished
<1>3. QED
  BY <1>1, <1>2, PutKeeps DEF Writes

(* A call that is not saved is refused by a task that is over.             *)
LEMMA RefusedIsOver ==
  ASSUME NEW t \in Tasks, NEW task, Stored(store, t), SaveOutcome(t, task) # "saved"
  PROVE  IsOver(store, t) /\ SaveOutcome(t, task) = "refused"
<1>1. ~CanUpdate(store, t, task)
  BY DEF SaveOutcome
<1>2. QED
  BY <1>1 DEF SaveOutcome, CanUpdate, IsOver, Finished

(* What was told stays true, and of a process that had no task nothing     *)
(* was told.                                                               *)
LEMMA ToldKept ==
  ASSUME StoreGoesOn, NEW t, NEW w, t = w \/ t = None
  PROVE  /\ \A x : Told(store, t, x) => Told(store', w, x)
         /\ \A task : Keeps(store, t, task) => Keeps(store', w, task)
         /\ IsOver(store, t) => IsOver(store', w)
<1>1. None \notin Tasks
  BY ModelAssumption
<1>2. ASSUME NEW x, Told(store, t, x), IsTerminal(x)
      PROVE  w \in Tasks /\ Stored(store', w) /\ StateOf(store', w) = x
  <2>1. t \in Tasks /\ Stored(store, t) /\ StateOf(store, t) = x
    BY <1>2 DEF Told
  <2>2. t = w /\ Finished(store, t)
    BY <1>1, <1>2, <2>1 DEF Finished
  <2>3. QED
    BY <2>1, <2>2 DEF StoreGoesOn
<1>3. \A x : Told(store, t, x) => Told(store', w, x)
  BY <1>2 DEF Told
<1>4. \A task : Keeps(store, t, task) => Keeps(store', w, task)
  BY <1>3 DEF Keeps
<1>5. IsOver(store, t) => IsOver(store', w)
  BY <1>1 DEF IsOver, StoreGoesOn, Finished
<1>6. QED
  BY <1>3, <1>4, <1>5

(* A request keeps the task it has.                                        *)
IdsGoOn ==
  /\ \A s \in Sends : send[s].id = send'[s].id \/ send[s].id = None
  /\ \A c \in Cancels : cancel[c].id = cancel'[c].id \/ cancel[c].id = None
  /\ \A u \in Subs : sub[u].id = sub'[u].id \/ sub[u].id = None

Onward == StoreGoesOn /\ IdsGoOn

LEMMA TaskOfKept ==
  ASSUME IdsGoOn, NEW p \in Sends \union Subs
  PROVE  TaskOf(p) = TaskOf(p)' \/ TaskOf(p) = None
  BY DEF IdsGoOn, TaskOf

(* What the step of another does not touch is as true as before.           *)
LEMMA SendSaysKept ==
  ASSUME Onward, NEW s \in Sends, SendSays(s), send'[s] = send[s]
  PROVE  SendSays(s)'
<1>1. send[s].id \in Tasks => (Stored(store, send[s].id) => Stored(store', send[s].id))
  BY DEF Onward, StoreGoesOn
<1>2. /\ \A x : Told(store, send[s].id, x) => Told(store', send[s].id, x)
      /\ \A task : Keeps(store, send[s].id, task) => Keeps(store', send[s].id, task)
  BY ToldKept DEF Onward
<1>3. QED
  BY <1>1, <1>2 DEF SendSays, SendTells

LEMMA ExecSaysKept ==
  ASSUME Onward, NEW s \in Sends, ExecSays(s), exec'[s] = exec[s]
  PROVE  ExecSays(s)'
<1>1. send[s].id = send'[s].id \/ send[s].id = None
  BY DEF Onward, IdsGoOn
<1>2. /\ \A x : Told(store, send[s].id, x) => Told(store', send'[s].id, x)
      /\ \A task : Keeps(store, send[s].id, task) => Keeps(store', send'[s].id, task)
  BY <1>1, ToldKept DEF Onward
<1>3. QED
  BY <1>2 DEF ExecSays, ExecTells

LEMMA DriveSaysKept ==
  ASSUME Onward, NEW s \in Sends, DriveSays(s), drive'[s] = drive[s]
  PROVE  DriveSays(s)'
<1>1. send[s].id = send'[s].id \/ send[s].id = None
  BY DEF Onward, IdsGoOn
<1>2. /\ \A x : Told(store, send[s].id, x) => Told(store', send'[s].id, x)
      /\ \A task : Keeps(store, send[s].id, task) => Keeps(store', send'[s].id, task)
      /\ IsOver(store, send[s].id) => IsOver(store', send'[s].id)
  BY <1>1, ToldKept DEF Onward
<1>3. QED
  BY <1>2 DEF DriveSays, DriveTells

LEMMA CancelSaysKept ==
  ASSUME Types, Onward, NEW c \in Cancels, CancelSays(c), cancel'[c] = cancel[c]
  PROVE  CancelSays(c)'
<1>1. /\ \A x : Told(store, cancel[c].id, x) => Told(store', cancel[c].id, x)
      /\ \A task : Keeps(store, cancel[c].id, task) => Keeps(store', cancel[c].id, task)
      /\ IsOver(store, cancel[c].id) => IsOver(store', cancel[c].id)
  BY ToldKept DEF Onward
<1>2. cancel[c].active # None => send'[cancel[c].active].id = cancel[c].id
  <2>1. cancel[c].active \in Sends \union {None}
    BY DEF Types, CancelRec
  <2>2. QED
    BY <2>1, ModelAssumption DEF Onward, IdsGoOn, CancelSays
<1>3. QED
  BY <1>1, <1>2 DEF CancelSays, CancelTells

LEMMA SubSaysKept ==
  ASSUME Onward, NEW u \in Subs, SubSays(u), sub'[u] = sub[u]
  PROVE  SubSays(u)'
<1>1. \A task : Keeps(store, sub[u].id, task) => Keeps(store', sub[u].id, task)
  BY ToldKept DEF Onward
<1>2. QED
  BY <1>1 DEF SubSays

(* A stream that goes on keeps what it said, and its execution.            *)
LEMMA StreamSaysKept ==
  ASSUME Onward, NEW p \in Sends \union Subs, StreamSays(p),
         stream'[p].src = stream[p].src, stream'[p].sub.snapshot = stream[p].sub.snapshot,
         seen'[p] = seen[p]
  PROVE  StreamSays(p)'
<1>. DEFINE t == TaskOf(p)
            w == TaskOf(p)'
<1>1. t = w \/ t = None
  BY TaskOfKept DEF Onward
<1>2. /\ \A x : Told(store, t, x) => Told(store', w, x)
      /\ \A task : Keeps(store, t, task) => Keeps(store', w, task)
  <2>. HIDE DEF t, w
  <2>1. QED
    BY <1>1, ToldKept DEF Onward
<1>3. stream[p].src \in Sends => w \in Tasks /\ send'[stream[p].src].id = w
  <2>1. ASSUME stream[p].src \in Sends
        PROVE  w \in Tasks /\ send'[stream[p].src].id = w
    <3>1. t \in Tasks /\ send[stream[p].src].id = t
      BY <2>1 DEF StreamSays
    <3>2. t = w
      BY <1>1, <3>1, ModelAssumption
    <3>3. QED
      BY <2>1, <3>1, <3>2, ModelAssumption DEF Onward, IdsGoOn
  <2>2. QED
    BY <2>1
<1>. HIDE DEF t, w
<1>4. /\ Keeps(store, t, stream[p].sub.snapshot)
      /\ \A k \in 1 .. Len(seen[p]) : Told(store, t, seen[p][k].event.state)
  BY DEF StreamSays, t
<1>5. /\ Keeps(store', w, stream'[p].sub.snapshot)
      /\ \A k \in 1 .. Len(seen'[p]) : Told(store', w, seen'[p][k].event.state)
  BY <1>2, <1>4
<1>6. QED
  BY <1>3, <1>5 DEF StreamSays, w

LEMMA SaysKept ==
  ASSUME Types, Says, Onward,
         \A s \in Sends : SendSays(s)' \/ send'[s] = send[s],
         \A s \in Sends : ExecSays(s)' \/ exec'[s] = exec[s],
         \A s \in Sends : DriveSays(s)' \/ drive'[s] = drive[s],
         \A c \in Cancels : CancelSays(c)' \/ cancel'[c] = cancel[c],
         \A u \in Subs : SubSays(u)' \/ sub'[u] = sub[u],
         \A p \in Sends \union Subs :
           StreamSays(p)' \/ (stream'[p] = stream[p] /\ seen'[p] = seen[p]),
         \A t \in Tasks : Stored(store', t) => Stored(store, t) \/ t \in minted',
         minted \subseteq minted',
         \A t \in Tasks : \A x \in pushed'[t] : x \in pushed[t] \/ Told(store', t, x)
  PROVE  Says'
<1>1. \A s \in Sends : SendSays(s)' /\ ExecSays(s)' /\ DriveSays(s)'
  BY SendSaysKept, ExecSaysKept, DriveSaysKept DEF Says
<1>2. \A c \in Cancels : CancelSays(c)'
  BY CancelSaysKept DEF Says
<1>3. \A u \in Subs : SubSays(u)'
  BY SubSaysKept DEF Says
<1>4. \A p \in Sends \union Subs : StreamSays(p)'
  BY StreamSaysKept DEF Says
<1>5. StoreSays'
  <2>1. ASSUME NEW t \in Tasks, NEW x \in pushed'[t] PROVE Told(store', t, x)
    <3>1. Told(store, t, x) => Told(store', t, x)
      BY ToldKept DEF Onward
    <3>2. QED
      BY <2>1, <3>1 DEF Says, StoreSays
  <2>2. \A t \in Tasks : Stored(store', t) => t \in minted'
    BY DEF Says, StoreSays
  <2>3. QED
    BY <2>1, <2>2 DEF StoreSays
<1>6. QED
  BY <1>1, <1>2, <1>3, <1>4, <1>5 DEF Says

-----------------------------------------------------------------------------
(* The steps of a drive.                                                   *)

StoreKeeps == StoreGoesOn /\ \A t \in Tasks : Stored(store', t) => Stored(store, t)

LEMMA StoreKept ==
  ASSUME UNCHANGED store
  PROVE  StoreKeeps
  BY StoreStays DEF StoreKeeps

LEMMA UpdateKeeps ==
  ASSUME Limit = NoLimit, StoreOK(store), NEW t \in Tasks, NEW task \in Task,
         SaveOutcome(t, task) = "saved", store' = AfterUpdate(store, t, task)
  PROVE  StoreKeeps /\ Told(store', t, task.state) /\ StateOf(store', t) = task.state
         /\ Stored(store', t)
  BY UpdateWrites DEF StoreKeeps, Writes

LEMMA DriveSaysMoves ==
  ASSUME Shape, Says, NEW s \in Sends, NEW d, drive' = [drive EXCEPT ![s] = d],
         DriveUnchanged, StoreKeeps, DriveTells(store', send[s].id, d),
         \A q \in Sends \ {s} : exec'[q] = exec[q],
         exec'[s] = exec[s] \/ ExecTells(store', send[s].id, exec'[s]),
         \A t \in Tasks : \A x \in pushed'[t] : x \in pushed[t] \/ Told(store', t, x)
  PROVE  Says'
<1>1. UNCHANGED <<minted, send, cancel, sub, stream, seen>>
  BY DEF DriveUnchanged, streams
<1>2. Onward
  BY <1>1 DEF Onward, IdsGoOn, StoreKeeps
<1>3. drive'[s] = d /\ \A q \in Sends \ {s} : drive'[q] = drive[q]
  BY DEF Shape, Types
<1>4. \A q \in Sends : DriveSays(q)' \/ drive'[q] = drive[q]
  BY <1>1, <1>3 DEF DriveSays
<1>5. \A q \in Sends : ExecSays(q)' \/ exec'[q] = exec[q]
  BY <1>1 DEF ExecSays
<1>6. QED
  BY <1>1, <1>2, <1>4, <1>5, SaysKept DEF Shape, StoreKeeps

(* What s's drive has told stays true after a call of the store.           *)
LEMMA DriveStillTells ==
  ASSUME Shape, Says, StoreKeeps, NEW s \in Sends
  PROVE  /\ \A x : Told(store, send[s].id, x) => Told(store', send[s].id, x)
         /\ \A task : Keeps(store, send[s].id, task) => Keeps(store', send[s].id, task)
         /\ IsOver(store, send[s].id) => IsOver(store', send[s].id)
         /\ DriveTells(store, send[s].id, drive[s])
         /\ ExecTells(store, send[s].id, exec[s])
  BY ToldKept DEF StoreKeeps, Says, DriveSays, ExecSays

(* An event that carries no state tells nothing.                           *)
LEMMA QuietItem ==
  ASSUME NEW e \in Item, e.kind \notin {"status", "task"}, NEW st, NEW t
  PROVE  Told(st, t, e.state)
<1>1. e.state = "None"
  BY ItemsAssumption DEF Item, Error
<1>2. QED
  BY <1>1 DEF Told, IsTerminal, TerminalStates

LEMMA NotEnd ==
  ASSUME NEW x, x \in {"none", "notFound", "unsupported", "error", "inProgress", "message",
                       "ended", "dropped", "None"} \union LiveStates, NEW st, NEW t
  PROVE  Told(st, t, x)
  BY DEF Told, IsTerminal, TerminalStates, LiveStates

LEMMA DriveSnapshotSays ==
  ASSUME Shape, Says, NEW s \in Sends, DriveSnapshot(s)
  PROVE  Says'
<1>. DEFINE d == [drive[s] EXCEPT !.pc = "pull", !.cur = exec[s].snapshot]
<1>1. drive[s] \in DriveRec /\ drive[s].pc = "ready"
  BY DEF DriveSnapshot, Shape, Types
<1>2. /\ drive' = [drive EXCEPT ![s] = d]
      /\ DriveUnchanged /\ UNCHANGED <<store, exec, pushed>>
  BY <1>1 DEF DriveSnapshot, Shape, Types
<1>3. d.pc = "pull" /\ d.cur = exec[s].snapshot /\ d.failed = drive[s].failed
  BY <1>1 DEF DriveRec
<1>. HIDE DEF d
<1>4. DriveTells(store', send[s].id, d)
  BY <1>1, <1>2, <1>3, StoreKept, DriveStillTells DEF DriveTells, ExecTells
<1>5. QED
  BY <1>2, <1>4, StoreKept, DriveSaysMoves

LEMMA DriveEndSays ==
  ASSUME Shape, Says, NEW s \in Sends, DriveEnd(s)
  PROVE  Says'
<1>. DEFINE d == [drive[s] EXCEPT !.pc = "finish"]
<1>1. drive[s] \in DriveRec /\ drive[s].pc = "pull"
  BY DEF DriveEnd, Shape, Types
<1>2. /\ drive' = [drive EXCEPT ![s] = d]
      /\ DriveUnchanged /\ UNCHANGED <<store, exec, pushed>>
  BY <1>1 DEF DriveEnd, Shape, Types
<1>3. d.pc = "finish" /\ d.cur = drive[s].cur /\ d.failed = drive[s].failed
  BY <1>1 DEF DriveRec
<1>. HIDE DEF d
<1>4. DriveTells(store', send[s].id, d)
  BY <1>1, <1>2, <1>3, StoreKept, DriveStillTells DEF DriveTells
<1>5. QED
  BY <1>2, <1>4, StoreKept, DriveSaysMoves

LEMMA DrivePullSays ==
  ASSUME Shape, Says, NEW s \in Sends, NEW e \in ExecuteItems, DrivePull(s, e)
  PROVE  Says'
<1>. DEFINE d == drive[s]
            answers == e.kind = "message"
            misplaced == d.answered \/ (answers /\ d.tracked)
            next == IF SnapshotIsTerminal(exec[s])
                    THEN [d EXCEPT !.pc = "finish"]
                    ELSE IF e = Error \/ misplaced
                    THEN [d EXCEPT !.pc = "fail", !.failed = TRUE]
                    ELSE [d EXCEPT !.pc = IF NeedsSave(e) THEN "save" ELSE AfterSave,
                                   !.item = e, !.count = d.count + 1,
                                   !.answered = answers, !.tracked = d.tracked \/ ~answers]
<1>1. d \in DriveRec /\ d.pc = "pull" /\ e \in Item
  BY DEF DrivePull, Shape, Types, Item
<1>2. /\ drive' = [drive EXCEPT ![s] = next]
      /\ DriveUnchanged /\ UNCHANGED <<store, exec, pushed>>
  BY <1>1 DEF DrivePull, Shape, Types
<1>3. /\ next.cur = d.cur
      /\ \/ next.pc = "finish" /\ next.failed = d.failed
         \/ next.pc = "fail"
         \/ /\ next.pc = (IF NeedsSave(e) THEN "save" ELSE AfterSave)
            /\ next.item = e /\ next.failed = d.failed
  <2>. HIDE DEF answers, misplaced, d
  <2>1. QED
    BY <1>1 DEF DriveRec
<1>. HIDE DEF next
<1>4. /\ AfterSave \in {"push", "number"}
      /\ ~NeedsSave(e) => Told(store', send[s].id, e.state)
  BY <1>1, QuietItem DEF AfterSave, NeedsSave
<1>5. /\ Keeps(store', send[s].id, d.cur) /\ d.failed = FALSE
  BY <1>1, <1>2, StoreKept, DriveStillTells DEF DriveTells, DriveRec
<1>6. DriveTells(store', send[s].id, next)
  <2>1. CASE next.pc = "finish" /\ next.failed = d.failed
    BY <1>3, <1>5, <2>1 DEF DriveTells
  <2>2. CASE next.pc = "fail"
    BY <1>3, <1>5, <2>2 DEF DriveTells
  <2>3. CASE /\ next.pc = (IF NeedsSave(e) THEN "save" ELSE AfterSave)
             /\ next.item = e /\ next.failed = d.failed
    BY <1>3, <1>4, <1>5, <2>3 DEF DriveTells
  <2>4. QED
    BY <1>3, <2>1, <2>2, <2>3
<1>7. QED
  BY <1>2, <1>6, StoreKept, DriveSaysMoves

(* An item that was saved tells the state the store has now.               *)
LEMMA SavedTells ==
  ASSUME NEW t \in Tasks, NEW task \in Task, NEW e \in Item,
         Told(store', t, Applied(task, e).state)
  PROVE  Told(store', t, e.state)
<1>1. CASE e.kind \in {"task", "status"}
  <2>1. Applied(task, e).state = e.state
    BY <1>1 DEF Applied, Task
  <2>2. QED
    BY <2>1
<1>2. CASE e.kind \notin {"task", "status"}
  BY <1>2, QuietItem
<1>3. QED
  BY <1>1, <1>2

LEMMA DriveSaveSays ==
  ASSUME Limit = NoLimit, Shape, Says, NEW s \in Sends, DriveSave(s)
  PROVE  Says'
<1>. DEFINE t     == send[s].id
            task  == Applied(drive[s].cur, drive[s].item)
            saved == [drive[s] EXCEPT !.pc = AfterSave, !.cur = task]
            fails == [drive[s] EXCEPT !.pc = "fail", !.failed = TRUE]
<1>1. /\ drive[s] \in DriveRec /\ drive[s].pc = "save" /\ drive[s].cur \in Task
      /\ send[s].id \in Tasks /\ drive[s].item \in Item
      /\ DriveUnchanged /\ UNCHANGED <<exec, pushed>>
  BY DEF DriveSave, Shape, Types, Holds, DriveHolds, DriveRec
<1>2. task \in Task /\ Stored(store, t)
  BY <1>1, AppliedTask, ModelAssumption DEF Says, SendSays, SendTells
<1>3. \/ /\ SaveOutcome(t, task) = "saved" /\ store' = AfterUpdate(store, t, task)
         /\ drive' = [drive EXCEPT ![s] = saved]
      \/ drive' = [drive EXCEPT ![s] = fails] /\ UNCHANGED store
  <2>1. SaveOutcome(t, task) # "missing"
    BY <1>2 DEF SaveOutcome
  <2>2. QED
    BY <1>1, <2>1 DEF DriveSave, Shape, Types
<1>4. /\ saved.pc = AfterSave /\ saved.cur = task /\ saved.item = drive[s].item
      /\ saved.failed = drive[s].failed
      /\ fails.pc = "fail" /\ fails.cur = drive[s].cur
      /\ AfterSave \in {"push", "number"}
  <2>. HIDE DEF task
  <2>1. QED
    BY <1>1 DEF DriveRec, AfterSave
<1>. HIDE DEF saved, fails
<1>5. CASE /\ SaveOutcome(t, task) = "saved" /\ store' = AfterUpdate(store, t, task)
           /\ drive' = [drive EXCEPT ![s] = saved]
  <2>. HIDE DEF task
  <2>1. StoreKeeps /\ Told(store', t, task.state)
    BY <1>1, <1>2, <1>5, UpdateKeeps DEF Shape, Types
  <2>2. Told(store', t, drive[s].item.state)
    BY <1>1, <2>1, SavedTells DEF task
  <2>3. drive[s].failed = FALSE
    BY <1>1, <2>1, DriveStillTells DEF DriveTells, DriveRec
  <2>4. DriveTells(store', t, saved)
    BY <1>4, <2>1, <2>2, <2>3 DEF DriveTells, Keeps
  <2>5. QED
    BY <1>1, <1>5, <2>1, <2>4, DriveSaysMoves
<1>6. CASE drive' = [drive EXCEPT ![s] = fails] /\ UNCHANGED store
  <2>1. DriveTells(store', t, fails)
    BY <1>4, <1>6, StoreKept, DriveStillTells DEF DriveTells
  <2>2. QED
    BY <1>1, <1>6, <2>1, StoreKept, DriveSaysMoves
<1>7. QED
  BY <1>3, <1>5, <1>6

(* save_task's fallback is never needed over a store that keeps its tasks. *)
LEMMA DriveCreateSays ==
  ASSUME Says, NEW s \in Sends
  PROVE  ~DriveCreate(s) /\ ~DriveFailCreate(s)
  BY DEF Says, DriveSays, DriveTells, DriveCreate, DriveFailCreate

(* What a webhook hears of an event that is told.                          *)
LEMMA PushTells ==
  ASSUME Types, NEW t \in Tasks, NEW e, Told(store', t, e.state), pushed' = Pushed(t, e)
  PROVE  \A w \in Tasks : \A x \in pushed'[w] : x \in pushed[w] \/ Told(store', w, x)
<1>1. \A w \in Tasks \ {t} : pushed'[w] = pushed[w]
  BY DEF Pushed, Types
<1>2. \A x \in pushed'[t] : x \in pushed[t] \/ x = e.state
  BY DEF Pushed, Types
<1>3. QED
  BY <1>1, <1>2

LEMMA DrivePushSays ==
  ASSUME Shape, Says, NEW s \in Sends, DrivePush(s)
  PROVE  Says'
<1>. DEFINE t     == send[s].id
            told  == [drive[s] EXCEPT !.pc = "number"]
            fails == [drive[s] EXCEPT !.pc = "fail", !.failed = TRUE]
<1>1. /\ drive[s] \in DriveRec /\ drive[s].pc = "push" /\ t \in Tasks
      /\ DriveUnchanged /\ UNCHANGED <<store, exec>>
      /\ pushed' = Pushed(t, drive[s].item)
  BY DEF DrivePush, Shape, Types, Holds, DriveHolds
<1>2. drive' = [drive EXCEPT ![s] = told] \/ drive' = [drive EXCEPT ![s] = fails]
  BY <1>1 DEF DrivePush, Shape, Types
<1>3. /\ told.pc = "number" /\ told.cur = drive[s].cur /\ told.item = drive[s].item
      /\ told.failed = drive[s].failed
      /\ fails.pc = "fail" /\ fails.cur = drive[s].cur
  BY <1>1 DEF DriveRec
<1>. HIDE DEF told, fails
<1>4. /\ Told(store', t, drive[s].item.state) /\ Keeps(store', t, drive[s].cur)
      /\ drive[s].failed = FALSE
  BY <1>1, StoreKept, DriveStillTells DEF DriveTells, DriveRec
<1>5. DriveTells(store', t, told) /\ DriveTells(store', t, fails)
  BY <1>3, <1>4 DEF DriveTells
<1>6. \A w \in Tasks : \A x \in pushed'[w] : x \in pushed[w] \/ Told(store', w, x)
  BY <1>1, <1>4, PushTells DEF Shape
<1>7. QED
  BY <1>1, <1>2, <1>5, <1>6, StoreKept, DriveSaysMoves

LEMMA DriveFailSays ==
  ASSUME Limit = NoLimit, Shape, Says, NEW s \in Sends, DriveFail(s)
  PROVE  Says'
<1>. DEFINE t     == send[s].id
            task  == [drive[s].cur EXCEPT !.state = "Failed"]
            lost  == [drive[s] EXCEPT !.pc = "number", !.item = Error, !.cur = NoTask]
            saved == [drive[s] EXCEPT !.pc = "failPush", !.cur = task]
<1>1. /\ drive[s] \in DriveRec /\ drive[s].pc = "fail" /\ drive[s].cur \in Task
      /\ send[s].id \in Tasks /\ DriveUnchanged /\ UNCHANGED <<exec, pushed>>
  BY DEF DriveFail, Shape, Types, Holds, DriveHolds, DriveRec
<1>2. task \in Task /\ task.state = "Failed" /\ Stored(store, t)
  BY <1>1, FailedTask, ModelAssumption DEF Says, SendSays, SendTells, Task
<1>3. \/ /\ IsTerminal(drive[s].cur.state) \/ SaveOutcome(t, task) = "refused"
         /\ drive' = [drive EXCEPT ![s] = lost] /\ UNCHANGED store
      \/ /\ SaveOutcome(t, task) = "saved" /\ store' = AfterUpdate(store, t, task)
         /\ drive' = [drive EXCEPT ![s] = saved]
  <2>1. SaveOutcome(t, task) # "missing"
    BY <1>2 DEF SaveOutcome
  <2>2. QED
    BY <1>1, <2>1 DEF DriveFail, Shape, Types
<1>. HIDE DEF task
<1>4. /\ lost.pc = "number" /\ lost.item = Error /\ lost.cur = NoTask
      /\ saved.pc = "failPush" /\ saved.cur = task
  BY <1>1 DEF DriveRec
<1>. HIDE DEF lost, saved
<1>5. CASE /\ IsTerminal(drive[s].cur.state) \/ SaveOutcome(t, task) = "refused"
           /\ drive' = [drive EXCEPT ![s] = lost] /\ UNCHANGED store
  <2>1. IsOver(store, t)
    <3>1. CASE IsTerminal(drive[s].cur.state)
      <4>1. Told(store, t, drive[s].cur.state)
        BY <1>1, NoTaskAssumption DEF Says, DriveSays, DriveTells, Keeps
      <4>2. QED
        BY <3>1, <4>1 DEF Told, IsOver, Finished
    <3>2. CASE SaveOutcome(t, task) = "refused"
      BY <1>1, <1>2, <3>2, RefusedIsOver
    <3>3. QED
      BY <1>5, <3>1, <3>2
  <2>2. Told(store', t, Error.state)
    BY NotEnd DEF Error
  <2>3. DriveTells(store', t, lost)
    BY <1>4, <1>5, <2>1, <2>2 DEF DriveTells, Keeps
  <2>4. QED
    BY <1>1, <1>5, <2>3, StoreKept, DriveSaysMoves
<1>6. CASE /\ SaveOutcome(t, task) = "saved" /\ store' = AfterUpdate(store, t, task)
           /\ drive' = [drive EXCEPT ![s] = saved]
  <2>1. StoreKeeps /\ Told(store', t, "Failed") /\ StateOf(store', t) = "Failed"
        /\ Stored(store', t)
    BY <1>1, <1>2, <1>6, UpdateKeeps DEF Shape, Types
  <2>2. IsOver(store', t)
    BY <1>1, <2>1 DEF IsOver, Finished, IsTerminal, TerminalStates
  <2>3. DriveTells(store', t, saved)
    BY <1>2, <1>4, <2>1, <2>2 DEF DriveTells, Keeps
  <2>4. QED
    BY <1>1, <1>6, <2>1, <2>3, DriveSaysMoves
<1>7. QED
  BY <1>3, <1>5, <1>6

LEMMA DriveFailPushSays ==
  ASSUME Shape, Says, NEW s \in Sends, DriveFailPush(s)
  PROVE  Says'
<1>. DEFINE t == send[s].id
            d == [drive[s] EXCEPT !.pc = "number", !.item = Error]
<1>1. /\ drive[s] \in DriveRec /\ drive[s].pc = "failPush" /\ t \in Tasks
      /\ DriveUnchanged /\ UNCHANGED <<store, exec>>
      /\ pushed' = Pushed(t, Status("Failed")) \/ UNCHANGED pushed
  BY DEF DriveFailPush, Shape, Types, Holds, DriveHolds
<1>2. drive' = [drive EXCEPT ![s] = d]
  BY <1>1 DEF DriveFailPush, Shape, Types
<1>3. /\ d.pc = "number" /\ d.cur = drive[s].cur /\ d.item = Error
      /\ d.failed = drive[s].failed
  BY <1>1 DEF DriveRec
<1>. HIDE DEF d
<1>4. /\ Told(store', t, "Failed") /\ Keeps(store', t, drive[s].cur)
      /\ drive[s].failed => IsOver(store', t)
      /\ Told(store', t, Error.state) /\ Status("Failed").state = "Failed"
  BY <1>1, StoreKept, DriveStillTells, NotEnd DEF DriveTells, Error, Status
<1>5. DriveTells(store', t, d)
  BY <1>3, <1>4 DEF DriveTells
<1>6. \A w \in Tasks : \A x \in pushed'[w] : x \in pushed[w] \/ Told(store', w, x)
  BY <1>1, <1>4, PushTells DEF Shape
<1>7. QED
  BY <1>1, <1>2, <1>5, <1>6, StoreKept, DriveSaysMoves

(* publish tells what it is given, and what was told before.               *)
LEMMA AdvanceTells ==
  ASSUME NEW x \in Exec, NEW task, NEW st, NEW t, ExecTells(st, t, x), Keeps(st, t, task)
  PROVE  ExecTells(st, t, Advance(x, task))
<1>1. /\ Advance(x, task).snapshot = x.snapshot \/ Advance(x, task).snapshot = task
      /\ Advance(x, task).sent = x.sent
  BY DEF Advance, Exec
<1>2. QED
  BY <1>1 DEF ExecTells

LEMMA BroadcastTells ==
  ASSUME NEW x \in Exec, NEW e, NEW n, NEW L, NEW st, NEW t,
         ExecTells(st, t, x), Told(st, t, e.state)
  PROVE  ExecTells(st, t, Broadcast(x, e, n, L))
<1>. DEFINE sent == x.sent
            new  == Append(sent, [event |-> e, sequence |-> n])
<1>1. /\ Len(new) = Len(sent) + 1 /\ Len(sent) \in Nat
      /\ new[Len(sent) + 1].event = e
      /\ \A k \in 1 .. Len(sent) : new[k] = sent[k]
  BY LenProperties DEF Exec
<1>2. /\ Broadcast(x, e, n, L).snapshot = x.snapshot
      /\ Broadcast(x, e, n, L).sent = sent \/ Broadcast(x, e, n, L).sent = new
  BY DEF Broadcast, Exec
<1>. HIDE DEF new, sent
<1>3. \A k \in 1 .. Len(sent) : Told(st, t, sent[k].event.state)
  BY DEF ExecTells, sent
<1>4. \A k \in 1 .. Len(new) : Told(st, t, new[k].event.state)
  <2>1. ASSUME NEW k \in 1 .. Len(new) PROVE Told(st, t, new[k].event.state)
    <3>1. k = Len(sent) + 1 \/ k \in 1 .. Len(sent)
      BY <1>1, <2>1
    <3>2. QED
      BY <1>1, <1>3, <3>1
  <2>2. QED
    BY <2>1
<1>5. QED
  BY <1>2, <1>3, <1>4 DEF ExecTells

LEMMA DriveNumberSays ==
  ASSUME Shape, Says, NEW s \in Sends, DriveNumber(s)
  PROVE  Says'
<1>. DEFINE d == [drive[s] EXCEPT !.pc = "send", !.sequence = exec[s].sequence + 1]
            x == Advance(exec[s], drive[s].cur)
<1>1. /\ drive[s] \in DriveRec /\ drive[s].pc = "number" /\ exec[s] \in Exec
      /\ DriveUnchanged /\ UNCHANGED <<store, pushed>>
  BY DEF DriveNumber, Shape, Types
<1>2. drive' = [drive EXCEPT ![s] = d] /\ exec' = [exec EXCEPT ![s] = x]
  BY <1>1 DEF DriveNumber, Shape, Types
<1>3. /\ d.pc = "send" /\ d.item = drive[s].item /\ d.cur = drive[s].cur
      /\ d.failed = drive[s].failed
  BY <1>1 DEF DriveRec
<1>. HIDE DEF d, x
<1>4. exec'[s] = x /\ \A q \in Sends \ {s} : exec'[q] = exec[q]
  BY <1>2 DEF Shape, Types
<1>5. /\ DriveTells(store', send[s].id, drive[s])
      /\ ExecTells(store', send[s].id, exec[s])
  BY <1>1, StoreKept, DriveStillTells
<1>6. ExecTells(store', send[s].id, x)
  BY <1>1, <1>5, AdvanceTells DEF DriveTells, x
<1>7. DriveTells(store', send[s].id, d)
  BY <1>1, <1>3, <1>5 DEF DriveTells
<1>8. QED
  BY <1>1, <1>2, <1>4, <1>6, <1>7, StoreKept, DriveSaysMoves

LEMMA DriveSendSays ==
  ASSUME Shape, Says, NEW s \in Sends, DriveSend(s)
  PROVE  Says'
<1>. DEFINE pc == IF EndsStream(drive[s].item) THEN "finish" ELSE "pull"
            d == [drive[s] EXCEPT !.pc = pc]
            x == Broadcast(exec[s], drive[s].item, drive[s].sequence, Listeners(s))
<1>1. /\ drive[s] \in DriveRec /\ drive[s].pc = "send" /\ exec[s] \in Exec
      /\ DriveUnchanged /\ UNCHANGED <<store, pushed>>
  BY DEF DriveSend, Shape, Types
<1>2. drive' = [drive EXCEPT ![s] = d] /\ exec' = [exec EXCEPT ![s] = x]
  BY <1>1 DEF DriveSend, Shape, Types
<1>3. pc \in {"finish", "pull"} /\ (drive[s].item = Error => pc = "finish")
  BY DEF EndsStream, Error
<1>. HIDE DEF pc
<1>4. d.pc = pc /\ d.cur = drive[s].cur /\ d.failed = drive[s].failed
  BY <1>1 DEF DriveRec
<1>. HIDE DEF d, x
<1>5. exec'[s] = x /\ \A q \in Sends \ {s} : exec'[q] = exec[q]
  BY <1>2 DEF Shape, Types
<1>6. /\ DriveTells(store', send[s].id, drive[s])
      /\ ExecTells(store', send[s].id, exec[s])
  BY <1>1, StoreKept, DriveStillTells
<1>7. ExecTells(store', send[s].id, x)
  BY <1>1, <1>6, BroadcastTells DEF DriveTells, x
<1>8. DriveTells(store', send[s].id, d)
  BY <1>1, <1>3, <1>4, <1>6 DEF DriveTells
<1>9. QED
  BY <1>1, <1>2, <1>5, <1>7, <1>8, StoreKept, DriveSaysMoves

LEMMA DriveFinishSays ==
  ASSUME Shape, Says, NEW s \in Sends, DriveFinish(s)
  PROVE  Says'
<1>. DEFINE d == [drive[s] EXCEPT !.pc = "done"]
<1>1. /\ drive[s] \in DriveRec /\ drive[s].pc = "finish"
      /\ UNCHANGED <<store, minted, exec, send, cancel, sub, stream, seen, pushed>>
  BY DEF DriveFinish, streams, Shape, Types
<1>2. drive' = [drive EXCEPT ![s] = d]
  BY <1>1 DEF DriveFinish, Shape, Types
<1>3. d.pc = "done" /\ d.cur = drive[s].cur /\ d.failed = drive[s].failed
  BY <1>1 DEF DriveRec
<1>. HIDE DEF d
<1>4. DriveTells(store', send[s].id, d)
  BY <1>1, <1>3, StoreKept, DriveStillTells DEF DriveTells
<1>5. \A q \in Sends : DriveSays(q)' \/ drive'[q] = drive[q]
  BY <1>1, <1>2, <1>4 DEF DriveSays, Shape, Types
<1>6. Onward
  BY <1>1, StoreStays DEF Onward, IdsGoOn
<1>7. QED
  BY <1>1, <1>5, <1>6, SaysKept DEF Shape

LEMMA DriveStepSays ==
  ASSUME Limit = NoLimit, Shape, Says, NEW s \in Sends, DriveStep(s)
  PROVE  Says'
<1>1. CASE \E e \in ExecuteItems : DrivePull(s, e)
  BY <1>1, DrivePullSays
<1>2. CASE \/ DriveSnapshot(s) \/ DriveEnd(s) \/ DriveSave(s) \/ DrivePush(s)
           \/ DriveFail(s) \/ DriveFailPush(s)
  BY <1>2, DriveSnapshotSays, DriveEndSays, DriveSaveSays, DrivePushSays, DriveFailSays,
     DriveFailPushSays
<1>3. CASE DriveNumber(s) \/ DriveSend(s) \/ DriveFinish(s)
  BY <1>3, DriveNumberSays, DriveSendSays, DriveFinishSays
<1>4. QED
  BY <1>1, <1>2, <1>3, DriveCreateSays DEF DriveStep

-----------------------------------------------------------------------------
(* The steps of a send.                                                    *)

LEMMA SendSaysMoves ==
  ASSUME Shape, Says, StoreGoesOn, NEW s \in Sends, NEW r, send' = [send EXCEPT ![s] = r],
         send[s].id = r.id \/ send[s].id = None, SendTells(store', r),
         UNCHANGED <<cancel, sub, pushed>>,
         \A q \in Sends \ {s} : exec'[q] = exec[q] /\ drive'[q] = drive[q],
         exec'[s] = exec[s] \/ ExecTells(store', r.id, exec'[s]),
         drive'[s] = drive[s] \/ DriveTells(store', r.id, drive'[s]),
         \A p \in Sends \union Subs :
           StreamSays(p)' \/ (stream'[p] = stream[p] /\ seen'[p] = seen[p]),
         \A t \in Tasks : Stored(store', t) => Stored(store, t) \/ t \in minted',
         minted \subseteq minted'
  PROVE  Says'
<1>1. send'[s] = r /\ \A q \in Sends \ {s} : send'[q] = send[q]
  BY DEF Shape, Types
<1>2. Onward
  BY <1>1 DEF Onward, IdsGoOn
<1>3. \A q \in Sends : /\ SendSays(q)' \/ send'[q] = send[q]
                       /\ ExecSays(q)' \/ exec'[q] = exec[q]
                       /\ DriveSays(q)' \/ drive'[q] = drive[q]
  BY <1>1 DEF SendSays, ExecSays, DriveSays
<1>4. QED
  BY <1>2, <1>3, SaysKept DEF Shape

(* A stream that closes keeps what it said.                                *)
LEMMA StreamClosedSays ==
  ASSUME Onward, NEW p \in Sends \union Subs, StreamSays(p), stream'[p] = NoStream,
         seen'[p] = seen[p]
  PROVE  StreamSays(p)'
<1>. DEFINE t == TaskOf(p)
            w == TaskOf(p)'
<1>1. t = w \/ t = None
  BY TaskOfKept DEF Onward
<1>. HIDE DEF t, w
<1>2. \A x : Told(store, t, x) => Told(store', w, x)
  BY <1>1, ToldKept DEF Onward
<1>3. \A k \in 1 .. Len(seen'[p]) : Told(store', w, seen'[p][k].event.state)
  BY <1>2 DEF StreamSays, t
<1>4. stream'[p].src \notin Sends /\ stream'[p].sub.snapshot = NoTask
  BY ModelAssumption DEF NoStream, Subscription
<1>5. QED
  BY <1>3, <1>4 DEF StreamSays, Keeps, w

(* The handler answers.                                                    *)
LEMMA AnswerSays ==
  ASSUME Shape, Says, NEW s \in Sends, NEW reply, Answer(s, reply),
         Told(store, send[s].id, reply),
         UNCHANGED <<store, minted, exec, drive, cancel, sub, pushed>>,
         \A p \in Sends \union Subs :
           StreamSays(p)' \/ (stream'[p] = stream[p] /\ seen'[p] = seen[p])
  PROVE  Says'
<1>. DEFINE r == [send[s] EXCEPT !.pc = "done", !.reply = reply]
<1>1. send[s] \in SendRec /\ send' = [send EXCEPT ![s] = r]
  BY DEF Answer, Shape, Types
<1>2. r.pc = "done" /\ r.id = send[s].id /\ r.reply = reply /\ r.task = send[s].task
  BY <1>1 DEF SendRec
<1>. HIDE DEF r
<1>3. SendTells(store', r)
  BY <1>2 DEF Says, SendSays, SendTells
<1>4. QED
  BY <1>1, <1>2, <1>3, StoreStays, SendSaysMoves

(* ... or goes to the next step, its task as it was.                       *)
LEMMA SendGoesOnSays ==
  ASSUME Shape, Says, NEW s \in Sends, send[s].pc # "idle", NEW pc, pc # "idle",
         send' = [send EXCEPT ![s].pc = pc],
         UNCHANGED <<store, minted, cancel, sub, pushed>>,
         \A q \in Sends \ {s} : exec'[q] = exec[q] /\ drive'[q] = drive[q],
         exec'[s] = exec[s] \/ ExecTells(store', send[s].id, exec'[s]),
         drive'[s] = drive[s] \/ DriveTells(store', send[s].id, drive'[s]),
         \A p \in Sends \union Subs :
           StreamSays(p)' \/ (stream'[p] = stream[p] /\ seen'[p] = seen[p])
  PROVE  Says'
<1>. DEFINE r == [send[s] EXCEPT !.pc = pc]
<1>1. send[s] \in SendRec /\ send' = [send EXCEPT ![s] = r]
  BY DEF Shape, Types
<1>2. r.pc = pc /\ r.id = send[s].id /\ r.reply = send[s].reply /\ r.task = send[s].task
  BY <1>1 DEF SendRec
<1>. HIDE DEF r
<1>3. SendTells(store', r)
  BY <1>2 DEF Says, SendSays, SendTells
<1>4. QED
  BY <1>1, <1>2, <1>3, StoreStays, SendSaysMoves

LEMMA SendPrepareSays ==
  ASSUME Shape, Says, NEW s \in Sends, NEW t \in Tasks, NEW m \in Modes,
         SendExisting(s, t, m) \/ SendNew(s, t, m)
  PROVE  Says'
<1>1. send[s].pc = "idle" /\ send[s].id = None
  BY DEF SendExisting, SendNew, Says, SendSays, SendTells
<1>2. CASE SendExisting(s, t, m)
  <2>. DEFINE task == [store.entries[t].task EXCEPT !.history = store.entries[t].task.history \union {s}]
              r == [pc |-> "prepared", id |-> t, mode |-> m, reply |-> "none", task |-> task]
  <2>1. UNCHANGED <<store, minted, exec, drive, cancel, sub, pushed, stream, seen>>
    BY <1>2 DEF SendExisting, manager, streams
  <2>2. CASE Answer(s, "notFound") \/ Answer(s, "unsupported")
    BY <2>1, <2>2, NotEnd, AnswerSays
  <2>3. CASE CanBeginCancel(store, t) /\ send' = [send EXCEPT ![s] = r]
    <3>1. Stored(store, t) /\ ~IsTerminal(StateOf(store, t)) /\ store.entries[t].task \in Task
      BY <2>3, StoredTask DEF CanBeginCancel, Shape, Types
    <3>2. task.state = StateOf(store, t)
      BY <3>1 DEF Task, StateOf
    <3>. HIDE DEF task
    <3>3. SendTells(store', r)
      BY <2>1, <3>1, <3>2, NotEnd DEF SendTells, Keeps, Told
    <3>4. r.id = t
      OBVIOUS
    <3>. HIDE DEF r
    <3>5. QED
      BY <1>1, <2>1, <2>3, <3>3, <3>4, StoreStays, SendSaysMoves
  <2>4. QED
    BY <1>2, <2>2, <2>3 DEF SendExisting
<1>3. CASE SendNew(s, t, m)
  <2>. DEFINE task == [state |-> "Submitted", history |-> {s}]
              r == [pc |-> "prepared", id |-> t, mode |-> m, reply |-> "none", task |-> task]
  <2>1. /\ UNCHANGED <<exec, drive, cancel, sub, pushed, stream, seen>>
        /\ t \notin minted /\ minted' = minted \union {t}
        /\ store' = AfterCreate(store, t, task) /\ send' = [send EXCEPT ![s] = r]
    BY <1>3 DEF SendNew, manager, streams
  <2>2. task \in Task /\ task.state = "Submitted" /\ ~IsTerminal(task.state)
    BY DEF Task, TaskState, LiveStates, IsTerminal, TerminalStates
  <2>3. ~Stored(store, t)
    BY <2>1 DEF Says, StoreSays
  <2>. HIDE DEF task
  <2>4. Writes(t, task.state)
    BY <2>1, <2>2, <2>3, CreateWrites DEF Shape, Types
  <2>5. SendTells(store', r)
    BY <2>4, <2>2, NotEnd DEF SendTells, Keeps, Told, Writes
  <2>6. r.id = t
    OBVIOUS
  <2>. HIDE DEF r
  <2>7. \A w \in Tasks : Stored(store', w) => Stored(store, w) \/ w \in minted'
    BY <2>1, <2>4 DEF Writes
  <2>8. QED
    BY <1>1, <2>1, <2>4, <2>5, <2>6, <2>7, SendSaysMoves DEF Writes
<1>4. QED
  BY <1>2, <1>3

LEMMA SendIdsKept ==
  ASSUME Shape, UNCHANGED <<store, cancel, sub>>, NEW s \in Sends,
         \/ UNCHANGED send
         \/ \E r : Answer(s, r)
         \/ \E pc : send' = [send EXCEPT ![s].pc = pc]
  PROVE  Onward /\ \A p \in Sends \union Subs : TaskOf(p)' = TaskOf(p)
<1>1. \A q \in Sends : send'[q].id = send[q].id
  <2>1. CASE UNCHANGED send
    BY <2>1
  <2>2. CASE \E r : Answer(s, r)
    <3>1. PICK r : send' = [send EXCEPT ![s].pc = "done", ![s].reply = r]
      BY <2>2 DEF Answer
    <3>2. send[s] \in SendRec /\ send'[s] = [send[s] EXCEPT !.pc = "done", !.reply = r]
      BY <3>1 DEF Shape, Types
    <3>3. send'[s].id = send[s].id
      BY <3>2 DEF SendRec
    <3>4. QED
      BY <3>1, <3>3 DEF Shape, Types
  <2>3. CASE \E pc : send' = [send EXCEPT ![s].pc = pc]
    <3>1. PICK pc : send' = [send EXCEPT ![s].pc = pc]
      BY <2>3
    <3>2. send[s] \in SendRec /\ send'[s] = [send[s] EXCEPT !.pc = pc]
      BY <3>1 DEF Shape, Types
    <3>3. send'[s].id = send[s].id
      BY <3>2 DEF SendRec
    <3>4. QED
      BY <3>1, <3>3 DEF Shape, Types
  <2>4. QED
    BY <2>1, <2>2, <2>3
<1>2. Onward
  BY <1>1, StoreStays DEF Onward, IdsGoOn
<1>3. QED
  BY <1>1, <1>2 DEF TaskOf

LEMMA SendClosesSays ==
  ASSUME Shape, Says, NEW s \in Sends, NEW reply, Answer(s, reply),
         Told(store, send[s].id, reply), stream' = [stream EXCEPT ![s] = NoStream],
         UNCHANGED <<store, minted, exec, drive, cancel, sub, pushed, seen>>
  PROVE  Says'
<1>1. /\ stream'[s] = NoStream
      /\ \A p \in (Sends \union Subs) \ {s} : stream'[p] = stream[p]
  BY DEF Shape, Types
<1>2. Onward
  BY SendIdsKept
<1>3. StreamSays(s)'
  BY <1>1, <1>2, StreamClosedSays DEF Says
<1>4. QED
  BY <1>1, <1>3, AnswerSays

LEMMA SendQuitSays ==
  ASSUME Shape, Says, NEW s \in Sends,
         SendConfigRefused(s) \/ SendDropped(s) \/ SendReload(s)
  PROVE  Says'
<1>1. CASE SendConfigRefused(s)
  <2>1. /\ Answer(s, "error")
        /\ UNCHANGED <<store, minted, exec, drive, cancel, sub, pushed, stream, seen>>
    BY <1>1 DEF SendConfigRefused, manager, streams
  <2>2. QED
    BY <2>1, NotEnd, AnswerSays
<1>2. CASE SendDropped(s)
  <2>1. /\ Answer(s, "dropped") /\ stream' = [stream EXCEPT ![s] = NoStream]
        /\ UNCHANGED <<store, minted, exec, drive, cancel, sub, pushed, seen>>
    BY <1>2 DEF SendDropped, manager
  <2>2. QED
    BY <2>1, NotEnd, SendClosesSays
<1>3. CASE SendReload(s)
  <2>. DEFINE reply == IF Stored(store, send[s].id) THEN StateOf(store, send[s].id)
                                                   ELSE "notFound"
  <2>1. /\ Answer(s, reply) /\ stream' = [stream EXCEPT ![s] = NoStream]
        /\ UNCHANGED <<store, minted, exec, drive, cancel, sub, pushed, seen>>
        /\ send[s].id \in Tasks
    BY <1>3 DEF SendReload, manager, Shape, Holds, SendHolds
  <2>2. Told(store, send[s].id, reply)
    BY <2>1, NotEnd DEF Told
  <2>. HIDE DEF reply
  <2>3. QED
    BY <2>1, <2>2, SendClosesSays
<1>4. QED
  BY <1>1, <1>2, <1>3

LEMMA SendEndSays ==
  ASSUME Shape, Says, NEW s \in Sends, SendEnd(s)
  PROVE  Says'
<1>. DEFINE last == IF seen[s] = <<>> THEN Error ELSE seen[s][Len(seen[s])].event
<1>1. /\ send[s].pc = "streaming"
      /\ UNCHANGED <<store, minted, exec, drive, cancel, sub, pushed, seen>>
  BY DEF SendEnd, manager
<1>2. \/ Answer(s, "ended") /\ stream' = [stream EXCEPT ![s] = NoStream]
      \/ /\ last.kind = "task" /\ Answer(s, last.state)
         /\ stream' = [stream EXCEPT ![s] = NoStream]
      \/ send' = [send EXCEPT ![s].pc = "reload"] /\ UNCHANGED stream
  BY DEF SendEnd
<1>3. Told(store, send[s].id, last.state)
  <2>1. CASE seen[s] = <<>>
    BY <2>1, NotEnd DEF Error
  <2>2. CASE seen[s] # <<>>
    <3>1. Len(seen[s]) \in 1 .. Len(seen[s])
      BY <2>2, EmptySeq, LenProperties DEF Shape, Types
    <3>2. QED
      BY <2>2, <3>1 DEF Says, StreamSays, TaskOf
  <2>3. QED
    BY <2>1, <2>2
<1>. HIDE DEF last
<1>4. CASE Answer(s, "ended") /\ stream' = [stream EXCEPT ![s] = NoStream]
  BY <1>1, <1>4, NotEnd, SendClosesSays
<1>5. CASE Answer(s, last.state) /\ stream' = [stream EXCEPT ![s] = NoStream]
  BY <1>1, <1>3, <1>5, SendClosesSays
<1>6. CASE send' = [send EXCEPT ![s].pc = "reload"] /\ UNCHANGED stream
  BY <1>1, <1>6, SendGoesOnSays
<1>7. QED
  BY <1>2, <1>4, <1>5, <1>6

(* A stream yields what its execution has told, or its first task.         *)
LEMMA YieldSays ==
  ASSUME Shape, Says, Onward, UNCHANGED store, NEW p \in Sends \union Subs, Opened(p),
         CanDeliver(Source(p), stream[p].sub), NEW keep \in BOOLEAN, Yield(p, keep),
         TaskOf(p)' = TaskOf(p)
  PROVE  \A q \in Sends \union Subs :
           StreamSays(q)' \/ (stream'[q] = stream[q] /\ seen'[q] = seen[q])
<1>. DEFINE y  == Next1(p)
            r  == AfterDelivery(Source(p), stream[p].sub)
            t  == TaskOf(p)
            st == stream[p].sub
            new == Append(seen[p], y)
            n  == Len(seen[p])
<1>1. /\ Source(p) \in Exec /\ st \in Receiver /\ stream[p] \in StreamRec
      /\ seen[p] \in Seq(Yielded) /\ n \in Nat
  BY SourceType, LenProperties DEF Shape, Types
<1>2. Polls(Source(p), st)
  BY <1>1, DeliveryShape
<1>3. r.snapshot = NoTask /\ y \in Yielded
  BY <1>2 DEF Polls, Next1
<1>4. Told(store, t, y.event.state)
  <2>1. CASE st.snapshot # NoTask /\ y.event = Snapshot(st.snapshot.state)
    <3>1. Told(store, t, st.snapshot.state)
      BY <2>1 DEF Says, StreamSays, Keeps
    <3>2. y.event.state = st.snapshot.state
      BY <2>1 DEF Snapshot
    <3>3. QED
      BY <3>1, <3>2
  <2>2. CASE y.event = LagError
    <3>1. y.event.state = "None"
      BY <2>2 DEF LagError
    <3>. HIDE DEF y
    <3>2. QED
      BY <3>1, NotEnd
  <2>3. CASE \E i \in 1 .. Len(Source(p).sent) : y = Source(p).sent[i]
    <3>1. PICK i \in 1 .. Len(Source(p).sent) : y = Source(p).sent[i]
      BY <2>3
    <3>2. stream[p].src # Dead
      <4>1. Source(p).sent = <<>> => FALSE
        BY <3>1
      <4>2. QED
        BY <4>1 DEF Source, NewExecution
    <3>3. stream[p].src \in Sends /\ Source(p) = exec[stream[p].src]
      BY <1>1, <3>2 DEF StreamRec, Opened, Source
    <3>4. send[stream[p].src].id = t
      BY <3>3 DEF Says, StreamSays
    <3>5. QED
      BY <3>1, <3>3, <3>4 DEF Says, ExecSays, ExecTells
  <2>4. QED
    BY <1>2, <2>1, <2>2, <2>3 DEF Polls, Next1
<1>5. /\ seen' = [seen EXCEPT ![p] = new]
      /\ stream' = [stream EXCEPT ![p] = IF keep THEN [src |-> stream[p].src, sub |-> r]
                                                 ELSE NoStream]
  BY DEF Yield, Shape, Types
<1>. HIDE DEF y, r
<1>6. /\ Len(new) = n + 1 /\ new[n + 1] = y
      /\ \A k \in 1 .. n : new[k] = seen[p][k]
  BY <1>1, <1>3, AppendProperties
<1>. HIDE DEF new, n
<1>7. /\ seen'[p] = new
      /\ \A q \in (Sends \union Subs) \ {p} : seen'[q] = seen[q] /\ stream'[q] = stream[q]
      /\ stream'[p] = NoStream \/ (stream'[p].src = stream[p].src /\ stream'[p].sub = r)
  BY <1>5 DEF Shape, Types
<1>8. \A k \in 1 .. Len(new) : Told(store', t, new[k].event.state)
  <2>1. ASSUME NEW k \in 1 .. Len(new) PROVE Told(store', t, new[k].event.state)
    <3>1. k = n + 1 \/ k \in 1 .. n
      BY <1>1, <1>6, <2>1
    <3>2. \A j \in 1 .. n : Told(store, t, seen[p][j].event.state)
      BY DEF Says, StreamSays, n
    <3>3. QED
      BY <1>4, <1>6, <3>1, <3>2
  <2>2. QED
    BY <2>1
<1>9. NoStream.src \notin Sends /\ NoStream.sub.snapshot = NoTask
  BY ModelAssumption DEF NoStream, Subscription
<1>10. stream'[p].sub.snapshot = NoTask
  BY <1>3, <1>7, <1>9
<1>11. stream'[p].src \in Sends => t \in Tasks /\ send'[stream'[p].src].id = t
  <2>1. ASSUME stream'[p].src \in Sends PROVE t \in Tasks /\ send'[stream'[p].src].id = t
    <3>1. stream'[p].src = stream[p].src
      BY <1>7, <1>9, <2>1
    <3>2. t \in Tasks /\ send[stream[p].src].id = t
      BY <2>1, <3>1 DEF Says, StreamSays
    <3>3. QED
      BY <2>1, <3>1, <3>2, ModelAssumption DEF Onward, IdsGoOn
  <2>2. QED
    BY <2>1
<1>12. StreamSays(p)'
  BY <1>7, <1>8, <1>10, <1>11 DEF StreamSays, Keeps
<1>13. QED
  BY <1>7, <1>12

LEMMA SendReceiveSays ==
  ASSUME Shape, Says, NEW s \in Sends, SendReceive(s)
  PROVE  Says'
<1>1. /\ send[s].pc = "streaming" /\ CanDeliver(Source(s), stream[s].sub) /\ Opened(s)
      /\ UNCHANGED <<store, minted, exec, drive, cancel, sub, pushed>>
  <2>1. stream[s].src = s /\ s # None
    BY ModelAssumption DEF SendReceive, Shape, Holds, SendHolds
  <2>2. QED
    BY <2>1 DEF SendReceive, Opened, manager
<1>2. \/ \E reply \in {"error", "message"} : Answer(s, reply) /\ Yield(s, FALSE)
      \/ send' = [send EXCEPT ![s].pc = "reload"] /\ Yield(s, TRUE)
      \/ Yield(s, TRUE) /\ UNCHANGED send
  BY DEF SendReceive
<1>3. CASE \E reply \in {"error", "message"} : Answer(s, reply) /\ Yield(s, FALSE)
  <2>1. PICK reply \in {"error", "message"} : Answer(s, reply) /\ Yield(s, FALSE)
    BY <1>3
  <2>2. \A p \in Sends \union Subs :
          StreamSays(p)' \/ (stream'[p] = stream[p] /\ seen'[p] = seen[p])
    BY <1>1, <2>1, SendIdsKept, YieldSays
  <2>3. QED
    BY <1>1, <2>1, <2>2, NotEnd, AnswerSays
<1>4. CASE send' = [send EXCEPT ![s].pc = "reload"] /\ Yield(s, TRUE)
  <2>1. \A p \in Sends \union Subs :
          StreamSays(p)' \/ (stream'[p] = stream[p] /\ seen'[p] = seen[p])
    BY <1>1, <1>4, SendIdsKept, YieldSays
  <2>2. QED
    BY <1>1, <1>4, <2>1, SendGoesOnSays
<1>5. CASE Yield(s, TRUE) /\ UNCHANGED send
  <2>1. Onward /\ TaskOf(s)' = TaskOf(s)
    BY <1>1, <1>5, SendIdsKept
  <2>2. \A p \in Sends \union Subs :
          StreamSays(p)' \/ (stream'[p] = stream[p] /\ seen'[p] = seen[p])
    BY <1>1, <1>5, <2>1, YieldSays
  <2>3. QED
    BY <1>1, <1>5, <2>1, <2>2, SaysKept DEF Shape
<1>6. QED
  BY <1>2, <1>3, <1>4, <1>5

LEMMA SkipSays ==
  ASSUME Shape, Says, NEW p \in Sends \union Subs, Skip(p)
  PROVE  Says'
<1>1. /\ UNCHANGED <<store, minted, exec, send, drive, cancel, sub, seen, pushed>>
      /\ \A q \in Sends \union Subs :
           /\ stream'[q].src = stream[q].src
           /\ stream'[q].sub.snapshot = stream[q].sub.snapshot
  BY SkipMoves DEF Skip, manager, handlers
<1>2. Onward
  BY <1>1, StoreStays DEF Onward, IdsGoOn
<1>3. \A q \in Sends \union Subs : StreamSays(q)'
  BY <1>1, <1>2, StreamSaysKept DEF Says
<1>4. QED
  BY <1>1, <1>2, <1>3, SaysKept DEF Shape

(* Whoever waited is handed the task as the turn begins, or as it ended.   *)
LEMMA WaiterStreamSays ==
  ASSUME Shape, Says, Onward, UNCHANGED <<store, sub>>, NEW t \in Tasks, NEW p \in waiting[t],
         NEW src, NEW task, Keeps(store, t, task), src \in Sends => send'[src].id = t,
         stream'[p] = [src |-> src, sub |-> Subscription(0, task, 0)], seen'[p] = seen[p]
  PROVE  StreamSays(p)'
<1>1. p \in Subs /\ sub[p].id = t
  BY DEF Shape, Types, Holds, SubHolds
<1>2. TaskOf(p) = t /\ TaskOf(p)' = t
  BY <1>1, ModelAssumption DEF TaskOf
<1>3. StreamSays(p)
  BY <1>1 DEF Says
<1>4. stream'[p].src = src /\ stream'[p].sub.snapshot = task
  BY DEF Subscription
<1>5. QED
  BY <1>2, <1>3, <1>4 DEF StreamSays

LEMMA SendStartSays ==
  ASSUME Shape, Says, NEW s \in Sends, SendStart(s)
  PROVE  Says'
<1>. DEFINE t == send[s].id
            task == send[s].task
<1>1. /\ send[s].pc = "prepared" /\ t \in Tasks
      /\ UNCHANGED <<store, minted, drive, cancel, sub, seen, pushed>>
  BY DEF SendStart, Shape, Holds, SendHolds
<1>2. CASE Answer(s, "inProgress") /\ UNCHANGED <<manager, stream>>
  BY <1>1, <1>2, NotEnd, AnswerSays DEF manager
<1>3. CASE /\ send'     = [send EXCEPT ![s].pc = "registered"]
           /\ exec'     = [exec EXCEPT ![s] = NewExecution(task)]
           /\ stream'   = [p \in Sends \union Subs |->
                IF p \in waiting[t] THEN [src |-> s, sub |-> Subscription(0, task, 0)]
                ELSE stream[p]]
  <2>1. Onward /\ send'[s].id = t
    <3>1. Onward /\ TaskOf(s)' = TaskOf(s)
      BY <1>1, <1>3, SendIdsKept
    <3>2. QED
      BY <3>1 DEF TaskOf
  <2>2. Keeps(store, t, task)
    BY DEF Says, SendSays, SendTells
  <2>3. ASSUME NEW p \in Sends \union Subs
        PROVE  StreamSays(p)' \/ (stream'[p] = stream[p] /\ seen'[p] = seen[p])
    <3>1. CASE p \in waiting[t]
      <4>. HIDE DEF task
      <4>1. stream'[p] = [src |-> s, sub |-> Subscription(0, task, 0)]
        BY <1>3, <3>1
      <4>2. QED
        BY <1>1, <2>1, <2>2, <3>1, <4>1, WaiterStreamSays
    <3>2. CASE p \notin waiting[t]
      BY <1>1, <1>3, <3>2
    <3>3. QED
      BY <3>1, <3>2
  <2>4. /\ exec'[s] = NewExecution(task)
        /\ \A q \in Sends \ {s} : exec'[q] = exec[q] /\ drive'[q] = drive[q]
    BY <1>1, <1>3 DEF Shape, Types
  <2>5. ExecTells(store', t, exec'[s])
    <3>1. exec'[s].snapshot = task /\ exec'[s].sent = <<>>
      BY <2>4 DEF NewExecution
    <3>. HIDE DEF task
    <3>2. \A k \in 1 .. Len(exec'[s].sent) : FALSE
      BY <3>1
    <3>3. QED
      BY <1>1, <2>2, <3>1, <3>2 DEF ExecTells
  <2>6. QED
    BY <1>1, <1>3, <2>3, <2>4, <2>5, SendGoesOnSays
<1>4. QED
  BY <1>2, <1>3 DEF SendStart

LEMMA SendSpawnSays ==
  ASSUME Shape, Says, NEW s \in Sends, SendSpawn(s)
  PROVE  Says'
<1>. DEFINE open == [src |-> s, sub |-> Subscription(Len(exec[s].sent), NoTask, 0)]
            d == [drive[s] EXCEPT !.pc = "ready"]
<1>1. /\ send[s].pc = "registered" /\ send[s].id \in Tasks
      /\ send'   = [send EXCEPT ![s].pc = "streaming"]
      /\ stream' = [stream EXCEPT ![s] = open]
      /\ drive'  = [drive EXCEPT ![s].pc = "ready"]
      /\ drive[s] \in DriveRec /\ drive[s].pc = "off"
      /\ UNCHANGED <<store, minted, exec, cancel, sub, seen, pushed>>
  BY DEF SendSpawn, manager, Shape, Types, Holds, SendHolds
<1>2. open.src = s /\ open.sub.snapshot = NoTask
  BY DEF Subscription
<1>. HIDE DEF open
<1>3. /\ stream'[s] = open
      /\ \A p \in (Sends \union Subs) \ {s} : stream'[p] = stream[p]
      /\ drive'[s] = d /\ \A q \in Sends \ {s} : drive'[q] = drive[q]
  BY <1>1 DEF Shape, Types
<1>4. Onward /\ TaskOf(s)' = TaskOf(s)
  BY <1>1, SendIdsKept
<1>5. StreamSays(s)'
  <2>1. TaskOf(s) = send[s].id /\ send'[s].id = TaskOf(s)
    BY <1>4 DEF TaskOf
  <2>2. \A k \in 1 .. Len(seen[s]) : Told(store, TaskOf(s), seen[s][k].event.state)
    BY DEF Says, StreamSays
  <2>3. QED
    BY <1>1, <1>2, <1>3, <1>4, <2>1, <2>2 DEF StreamSays, Keeps
<1>6. DriveTells(store', send[s].id, drive'[s])
  <2>1. d.pc = "ready" /\ d.cur = drive[s].cur /\ d.failed = drive[s].failed
    BY <1>1 DEF DriveRec
  <2>. HIDE DEF d
  <2>2. QED
    BY <1>1, <1>3, <2>1, StoreKept, DriveStillTells DEF DriveTells
<1>7. QED
  BY <1>1, <1>3, <1>5, <1>6, SendGoesOnSays

LEMMA SendStepSays ==
  ASSUME Shape, Says, NEW s \in Sends,
         \/ \E t \in Tasks, m \in Modes : SendExisting(s, t, m) \/ SendNew(s, t, m)
         \/ SendConfigRefused(s) \/ SendDropped(s) \/ SendStep(s)
  PROVE  Says'
<1>1. CASE \E t \in Tasks, m \in Modes : SendExisting(s, t, m) \/ SendNew(s, t, m)
  BY <1>1, SendPrepareSays
<1>2. CASE SendConfigRefused(s) \/ SendDropped(s) \/ SendReload(s) \/ SendEnd(s)
  BY <1>2, SendQuitSays, SendEndSays
<1>3. CASE SendReceive(s) \/ Skip(s)
  BY <1>3, SendReceiveSays, SkipSays
<1>4. CASE SendStart(s) \/ SendSpawn(s)
  BY <1>4, SendStartSays, SendSpawnSays
<1>5. QED
  BY <1>1, <1>2, <1>3, <1>4 DEF SendStep

-----------------------------------------------------------------------------
(* The steps of a subscription.                                            *)

LEMMA SubOnward ==
  ASSUME Shape, SubUnchanged, NEW u \in Subs, NEW r, sub' = [sub EXCEPT ![u] = r],
         sub[u].id = r.id \/ sub[u].id = None
  PROVE  /\ Onward
         /\ TaskOf(u) = sub[u].id /\ TaskOf(u)' = r.id /\ sub'[u] = r
<1>1. sub'[u] = r /\ \A v \in Subs \ {u} : sub'[v] = sub[v]
  BY DEF Shape, Types
<1>2. UNCHANGED <<store, send, cancel>> /\ u \notin Sends
  BY ModelAssumption DEF SubUnchanged
<1>3. QED
  BY <1>1, <1>2, StoreStays DEF Onward, IdsGoOn, TaskOf

LEMMA SubSaysMoves ==
  ASSUME Shape, Says, SubUnchanged, NEW u \in Subs, NEW r, sub' = [sub EXCEPT ![u] = r],
         sub[u].id = r.id \/ sub[u].id = None, r.pc # "idle", Keeps(store, r.id, r.task),
         \A p \in Sends \union Subs :
           StreamSays(p)' \/ (stream'[p] = stream[p] /\ seen'[p] = seen[p])
  PROVE  Says'
<1>1. sub'[u] = r /\ \A v \in Subs \ {u} : sub'[v] = sub[v]
  BY DEF Shape, Types
<1>2. UNCHANGED <<store, minted, exec, send, drive, cancel, pushed>>
  BY DEF SubUnchanged
<1>3. \A v \in Subs : SubSays(v)' \/ sub'[v] = sub[v]
  BY <1>1, <1>2 DEF SubSays
<1>4. Onward
  BY SubOnward
<1>5. QED
  BY <1>2, <1>3, <1>4, SaysKept DEF Shape

(* The subscription goes to another step, its task as it was.              *)
LEMMA SubGoesOnSays ==
  ASSUME Shape, Says, SubUnchanged, NEW u \in Subs, sub[u].pc # "idle", NEW pc, pc # "idle",
         sub' = [sub EXCEPT ![u].pc = pc],
         Onward /\ TaskOf(u) = sub[u].id /\ TaskOf(u)' = sub[u].id =>
           \A p \in Sends \union Subs :
             StreamSays(p)' \/ (stream'[p] = stream[p] /\ seen'[p] = seen[p])
  PROVE  Says'
<1>. DEFINE r == [sub[u] EXCEPT !.pc = pc]
<1>1. sub[u] \in SubRec /\ sub' = [sub EXCEPT ![u] = r]
  BY DEF Shape, Types
<1>2. r.pc = pc /\ r.id = sub[u].id /\ r.task = sub[u].task
  BY <1>1 DEF SubRec
<1>. HIDE DEF r
<1>3. Onward /\ TaskOf(u) = sub[u].id /\ TaskOf(u)' = sub[u].id
  BY <1>1, <1>2, SubOnward
<1>4. Keeps(store, r.id, r.task)
  BY <1>2 DEF Says, SubSays
<1>5. QED
  BY <1>1, <1>2, <1>3, <1>4, SubSaysMoves

LEMMA WithdrawSays ==
  ASSUME Shape, Says, NEW u \in Subs, sub[u].pc # "idle", Withdraw(u), SubUnchanged,
         UNCHANGED seen
  PROVE  Says'
<1>1. /\ sub' = [sub EXCEPT ![u].pc = "done"]
      /\ stream'[u] = NoStream
      /\ \A p \in (Sends \union Subs) \ {u} : stream'[p] = stream[p]
  BY DEF Withdraw, Shape, Types
<1>2. Onward => StreamSays(u)'
  BY <1>1, StreamClosedSays DEF Says
<1>3. QED
  BY <1>1, <1>2, SubGoesOnSays

LEMMA SubRegisterSays ==
  ASSUME Shape, Registered, Says, NEW u \in Subs, NEW t \in Tasks, SubRegister(u, t)
  PROVE  Says'
<1>1. sub[u].pc = "idle" /\ SubUnchanged /\ UNCHANGED seen /\ sub[u] \in SubRec
  BY DEF SubRegister, Shape, Types
<1>2. sub[u].id = None /\ Keeps(store, None, sub[u].task)
  BY <1>1 DEF Says, SubSays
<1>3. Keeps(store, t, sub[u].task)
  BY <1>2, ModelAssumption DEF Keeps, Told
<1>4. CASE registry[t] # None
  <2>. DEFINE st == [src |-> registry[t],
                     sub |-> Subscription(Len(exec[registry[t]].sent), NoTask, 0)]
              r == [sub[u] EXCEPT !.pc = "attaching", !.id = t]
  <2>1. sub' = [sub EXCEPT ![u] = r] /\ stream' = [stream EXCEPT ![u] = st]
    BY <1>1, <1>4 DEF SubRegister, Shape, Types
  <2>2. /\ r.pc = "attaching" /\ r.id = t /\ r.task = sub[u].task
        /\ st.src = registry[t] /\ st.sub.snapshot = NoTask
    BY <1>1 DEF SubRec, Subscription
  <2>. HIDE DEF st, r
  <2>3. /\ stream'[u] = st
        /\ \A p \in (Sends \union Subs) \ {u} : stream'[p] = stream[p]
    BY <2>1 DEF Shape, Types
  <2>4. /\ Onward /\ TaskOf(u)' = t /\ TaskOf(u) = None
    BY <1>1, <1>2, <2>1, <2>2, SubOnward
  <2>5. send'[registry[t]].id = t
    BY <1>1, <1>4 DEF SubUnchanged, Registered, RegistryIsLive
  <2>6. \A k \in 1 .. Len(seen'[u]) : Told(store', t, seen'[u][k].event.state)
    <3>1. \A x : Told(store, None, x) => Told(store', t, x)
      BY <2>4, ToldKept DEF Onward
    <3>2. QED
      BY <1>1, <2>4, <3>1 DEF Says, StreamSays
  <2>7. StreamSays(u)'
    BY <2>2, <2>3, <2>4, <2>5, <2>6 DEF StreamSays, Keeps
  <2>8. QED
    BY <1>1, <1>2, <1>3, <2>1, <2>2, <2>3, <2>7, SubSaysMoves
<1>5. CASE registry[t] = None
  <2>. DEFINE r == [sub[u] EXCEPT !.pc = "load", !.id = t]
  <2>1. sub' = [sub EXCEPT ![u] = r] /\ UNCHANGED stream
    BY <1>1, <1>5 DEF SubRegister, Shape, Types
  <2>2. r.pc = "load" /\ r.id = t /\ r.task = sub[u].task
    BY <1>1 DEF SubRec
  <2>. HIDE DEF r
  <2>3. QED
    BY <1>1, <1>2, <1>3, <2>1, <2>2, SubSaysMoves
<1>6. QED
  BY <1>4, <1>5

LEMMA SubAttachSays ==
  ASSUME Shape, Says, NEW u \in Subs, SubAttach(u)
  PROVE  Says'
<1>. DEFINE x == exec[stream[u].src]
            st == [stream[u].sub EXCEPT !.snapshot = x.snapshot, !.min = x.sequence]
<1>1. /\ sub[u].pc = "attaching" /\ SubUnchanged /\ UNCHANGED seen
      /\ sub' = [sub EXCEPT ![u].pc = "streaming"]
      /\ stream' = [stream EXCEPT ![u].sub = st]
  BY DEF SubAttach
<1>2. stream[u] \in StreamRec /\ stream[u].src \in Sends /\ stream[u].sub \in Receiver
  <2>1. stream[u].src \in Sends
    BY <1>1 DEF Shape, Holds, SubHolds
  <2>2. Opened(u)
    BY <2>1, ModelAssumption DEF Opened
  <2>3. QED
    BY <2>1, <2>2, SourceType DEF Shape, Types
<1>3. st.snapshot = x.snapshot
  BY <1>2 DEF Receiver
<1>. HIDE DEF st
<1>4. /\ stream'[u].src = stream[u].src /\ stream'[u].sub = st
      /\ \A p \in (Sends \union Subs) \ {u} : stream'[p] = stream[p]
  BY <1>1, <1>2 DEF Shape, Types, StreamRec
<1>5. ASSUME Onward, TaskOf(u)' = TaskOf(u)
      PROVE  StreamSays(u)'
  <2>. DEFINE t == TaskOf(u)
  <2>1. t \in Tasks /\ send[stream[u].src].id = t
    BY <1>2 DEF Says, StreamSays
  <2>2. Keeps(store, t, x.snapshot)
    BY <1>2, <2>1 DEF Says, ExecSays, ExecTells
  <2>3. UNCHANGED <<store, send>>
    BY <1>1 DEF SubUnchanged
  <2>4. \A k \in 1 .. Len(seen[u]) : Told(store, t, seen[u][k].event.state)
    BY DEF Says, StreamSays
  <2>. HIDE DEF t, x
  <2>5. QED
    BY <1>1, <1>3, <1>4, <1>5, <2>1, <2>2, <2>3, <2>4 DEF StreamSays, t
<1>6. QED
  BY <1>1, <1>4, <1>5, SubGoesOnSays

LEMMA SubLoadSays ==
  ASSUME Shape, Says, NEW u \in Subs, SubLoad(u)
  PROVE  Says'
<1>1. /\ sub[u].pc = "load" /\ SubUnchanged /\ UNCHANGED seen /\ sub[u].id \in Tasks
      /\ sub[u] \in SubRec
  BY DEF SubLoad, Shape, Types, Holds, SubHolds
<1>2. CASE Withdraw(u)
  BY <1>1, <1>2, WithdrawSays
<1>3. CASE /\ Stored(store, sub[u].id)
           /\ sub' = [sub EXCEPT ![u].pc = "decide",
                                 ![u].task = store.entries[sub[u].id].task]
           /\ UNCHANGED <<waiting, stream>>
  <2>. DEFINE r == [sub[u] EXCEPT !.pc = "decide", !.task = store.entries[sub[u].id].task]
  <2>1. sub' = [sub EXCEPT ![u] = r]
    BY <1>3 DEF Shape, Types
  <2>2. r.pc = "decide" /\ r.id = sub[u].id /\ r.task = store.entries[sub[u].id].task
    BY <1>1 DEF SubRec
  <2>. HIDE DEF r
  <2>3. Keeps(store, r.id, r.task)
    BY <1>1, <1>3, <2>2 DEF Keeps, Told, StateOf
  <2>4. QED
    BY <1>1, <1>3, <2>1, <2>2, <2>3, SubSaysMoves
<1>4. QED
  BY <1>2, <1>3 DEF SubLoad

LEMMA SubDecideSays ==
  ASSUME Shape, Says, NEW u \in Subs, SubDecide(u)
  PROVE  Says'
<1>1. sub[u].pc = "decide" /\ SubUnchanged
  BY DEF SubDecide
<1>2. CASE Withdraw(u) /\ UNCHANGED seen
  BY <1>1, <1>2, WithdrawSays
<1>3. CASE sub' = [sub EXCEPT ![u].pc = "streaming"] /\ UNCHANGED <<waiting, streams>>
  <2>1. UNCHANGED <<stream, seen>>
    BY <1>3 DEF streams
  <2>2. QED
    BY <1>1, <1>3, <2>1, SubGoesOnSays
<1>4. CASE /\ ~Opened(u) /\ ~IsTerminal(sub[u].task.state)
           /\ sub' = [sub EXCEPT ![u].pc = "streaming"]
           /\ seen' = [seen EXCEPT ![u] =
                <<[event |-> Snapshot(sub[u].task.state), sequence |-> 0]>>]
           /\ UNCHANGED <<waiting, stream>>
  <2>. DEFINE first == [event |-> Snapshot(sub[u].task.state), sequence |-> 0]
  <2>1. /\ seen'[u] = <<first>>
        /\ \A p \in (Sends \union Subs) \ {u} : seen'[p] = seen[p]
    BY <1>4 DEF Shape, Types
  <2>2. first.event.state = sub[u].task.state
    BY DEF Snapshot
  <2>. HIDE DEF first
  <2>3. \A k \in 1 .. Len(seen'[u]) : seen'[u][k] = first
    BY <2>1
  <2>4. ~Opened(u) => stream[u].src \notin Sends
    BY ModelAssumption DEF Opened
  <2>5. ASSUME Onward, TaskOf(u)' = TaskOf(u)
        PROVE  StreamSays(u)'
    <3>. DEFINE t == TaskOf(u)
    <3>1. Keeps(store, t, stream[u].sub.snapshot)
      BY DEF Says, StreamSays
    <3>2. UNCHANGED store
      BY <1>1 DEF SubUnchanged
    <3>3. \A k \in 1 .. Len(seen'[u]) : Told(store, t, seen'[u][k].event.state)
      BY <1>4, <2>2, <2>3 DEF Told
    <3>. HIDE DEF t
    <3>4. QED
      BY <1>4, <2>4, <2>5, <3>1, <3>2, <3>3 DEF StreamSays, t
  <2>6. QED
    BY <1>1, <1>4, <2>1, <2>5, SubGoesOnSays
<1>5. QED
  BY <1>2, <1>3, <1>4 DEF SubDecide

LEMMA SubReceiveSays ==
  ASSUME Shape, Says, NEW u \in Subs, SubReceive(u)
  PROVE  Says'
<1>1. /\ Opened(u) /\ CanDeliver(Source(u), stream[u].sub)
      /\ Yield(u, TRUE)
      /\ UNCHANGED <<store, minted, exec, send, drive, cancel, sub, pushed>>
  BY DEF SubReceive, SubUnchanged
<1>2. Onward /\ TaskOf(u)' = TaskOf(u)
  BY <1>1, StoreStays DEF Onward, IdsGoOn, TaskOf
<1>3. \A p \in Sends \union Subs :
        StreamSays(p)' \/ (stream'[p] = stream[p] /\ seen'[p] = seen[p])
  BY <1>1, <1>2, YieldSays
<1>4. QED
  BY <1>1, <1>2, <1>3, SaysKept DEF Shape

LEMMA SubStepSays ==
  ASSUME Shape, Registered, Says, NEW u \in Subs,
         \/ \E t \in Tasks : SubRegister(u, t)
         \/ SubDropped(u) \/ SubStep(u)
  PROVE  Says'
<1>1. CASE \E t \in Tasks : SubRegister(u, t)
  BY <1>1, SubRegisterSays
<1>2. CASE SubDropped(u) \/ SubEnd(u)
  <2>1. sub[u].pc # "idle" /\ Withdraw(u) /\ SubUnchanged /\ UNCHANGED seen
    BY <1>2 DEF SubDropped, SubEnd
  <2>2. QED
    BY <2>1, WithdrawSays
<1>3. CASE SubAttach(u) \/ SubLoad(u) \/ SubDecide(u)
  BY <1>3, SubAttachSays, SubLoadSays, SubDecideSays
<1>4. CASE SubReceive(u) \/ Skip(u)
  BY <1>4, SubReceiveSays, SkipSays
<1>5. QED
  BY <1>1, <1>2, <1>3, <1>4 DEF SubStep

-----------------------------------------------------------------------------
(* The steps of a cancel.                                                  *)

LEMMA CancelSaysMoves ==
  ASSUME Shape, Says, StoreKeeps, NEW c \in Cancels, NEW d,
         cancel' = [cancel EXCEPT ![c] = d], UNCHANGED <<minted, send, drive, sub>>,
         cancel[c].id = d.id \/ cancel[c].id = None, CancelTells(store', d),
         d.active # None => d.id \in Tasks /\ send[d.active].id = d.id,
         \A s \in Sends : exec'[s] = exec[s] \/ ExecTells(store', send[s].id, exec'[s]),
         \A p \in Sends \union Subs :
           StreamSays(p)' \/ (stream'[p] = stream[p] /\ seen'[p] = seen[p]),
         \A t \in Tasks : \A x \in pushed'[t] : x \in pushed[t] \/ Told(store', t, x)
  PROVE  Says'
<1>1. cancel'[c] = d /\ \A b \in Cancels \ {c} : cancel'[b] = cancel[b]
  BY DEF Shape, Types
<1>2. Onward
  BY <1>1 DEF Onward, IdsGoOn, StoreKeeps
<1>3. \A b \in Cancels : CancelSays(b)' \/ cancel'[b] = cancel[b]
  BY <1>1 DEF CancelSays
<1>4. \A s \in Sends : ExecSays(s)' \/ exec'[s] = exec[s]
  BY DEF ExecSays
<1>5. QED
  BY <1>2, <1>3, <1>4, SaysKept DEF Shape, StoreKeeps

(* What a cancel has told stays true after a call of the store.            *)
LEMMA CancelStillTells ==
  ASSUME Shape, Says, StoreKeeps, NEW c \in Cancels
  PROVE  /\ \A x : Told(store, cancel[c].id, x) => Told(store', cancel[c].id, x)
         /\ \A task : Keeps(store, cancel[c].id, task) => Keeps(store', cancel[c].id, task)
         /\ IsOver(store, cancel[c].id) => IsOver(store', cancel[c].id)
         /\ CancelTells(store, cancel[c])
         /\ cancel[c].active # None =>
              cancel[c].id \in Tasks /\ send[cancel[c].active].id = cancel[c].id
  BY ToldKept DEF StoreKeeps, Says, CancelSays

(* A step that leaves the store and what the cancel knows of its task.     *)
LEMMA CancelGoesSays ==
  ASSUME Shape, Says, UNCHANGED store, NEW c \in Cancels, NEW d,
         cancel' = [cancel EXCEPT ![c] = d], CancelUnchanged,
         d.id = cancel[c].id, d.cur = cancel[c].cur, d.final = cancel[c].final,
         d.active = cancel[c].active \/ d.active = None,
         d.pc \notin {"idle", "create"},
         d.pc \in {"push", "number", "send"} => Told(store, d.id, d.item.state),
         \A s \in Sends : exec'[s] = exec[s] \/ ExecTells(store', send[s].id, exec'[s]),
         \A t \in Tasks : \A x \in pushed'[t] : x \in pushed[t] \/ Told(store', t, x)
  PROVE  Says'
<1>1. UNCHANGED <<minted, send, drive, sub, stream, seen>>
  BY DEF CancelUnchanged, streams
<1>2. CancelTells(store', d)
  BY StoreKept, CancelStillTells DEF CancelTells
<1>3. d.active # None => d.id \in Tasks /\ send[d.active].id = d.id
  BY StoreKept, CancelStillTells
<1>4. QED
  BY <1>1, <1>2, <1>3, StoreKept, CancelSaysMoves

LEMMA UnwindSays ==
  ASSUME Shape, Says, UNCHANGED <<store, exec>>, NEW c \in Cancels, NEW reply,
         Unwind(c, reply), CancelUnchanged,
         \A t \in Tasks : \A x \in pushed'[t] : x \in pushed[t] \/ Told(store', t, x)
  PROVE  Says'
<1>. DEFINE d == [cancel[c] EXCEPT !.pc = "release", !.active = None, !.reply = reply]
<1>1. cancel[c] \in CancelRec
  BY CancelHeld
<1>2. cancel' = [cancel EXCEPT ![c] = d]
  BY DEF Unwind, Shape, Types
<1>3. /\ d.pc = "release" /\ d.active = None /\ d.id = cancel[c].id
      /\ d.cur = cancel[c].cur /\ d.final = cancel[c].final
  BY <1>1 DEF CancelRec
<1>. HIDE DEF d
<1>4. QED
  BY <1>2, <1>3, CancelGoesSays

LEMMA ConcludeSays ==
  ASSUME Shape, Says, UNCHANGED <<store, exec, pushed>>, NEW c \in Cancels, NEW reply,
         Conclude(c, reply), CancelUnchanged
  PROVE  Says'
<1>. DEFINE d == [cancel[c] EXCEPT !.pc = "done", !.reply = reply]
<1>1. cancel[c] \in CancelRec
  BY CancelHeld
<1>2. cancel' = [cancel EXCEPT ![c] = d]
  BY DEF Conclude, Shape, Types
<1>3. /\ d.pc = "done" /\ d.active = cancel[c].active /\ d.id = cancel[c].id
      /\ d.cur = cancel[c].cur /\ d.final = cancel[c].final
  BY <1>1 DEF CancelRec
<1>. HIDE DEF d
<1>4. QED
  BY <1>2, <1>3, CancelGoesSays

LEMMA CancelLoadSays ==
  ASSUME Shape, Says, NEW c \in Cancels, NEW t \in Tasks, CancelLoad(c, t)
  PROVE  Says'
<1>. DEFINE d == [cancel[c] EXCEPT !.pc = "begin", !.id = t]
<1>1. /\ cancel[c] \in CancelRec /\ cancel[c].pc = "idle"
      /\ CancelUnchanged /\ UNCHANGED <<store, registry, exec, pushed>>
  BY CancelHeld DEF CancelLoad
<1>2. \/ \E reply \in Replies : Conclude(c, reply)
      \/ cancel' = [cancel EXCEPT ![c].pc = "begin", ![c].id = t]
  BY DEF CancelLoad, Replies
<1>3. CASE \E reply \in Replies : Conclude(c, reply)
  BY <1>1, <1>3, ConcludeSays
<1>4. CASE cancel' = [cancel EXCEPT ![c].pc = "begin", ![c].id = t]
  <2>1. cancel' = [cancel EXCEPT ![c] = d]
    BY <1>4 DEF Shape, Types
  <2>2. /\ d.pc = "begin" /\ d.active = cancel[c].active /\ d.id = t
        /\ d.cur = cancel[c].cur /\ d.final = cancel[c].final
    BY <1>1 DEF CancelRec
  <2>. HIDE DEF d
  <2>3. /\ CancelTells(store, cancel[c]) /\ cancel[c].id = None /\ cancel[c].active = None
    BY <1>1, ModelAssumption DEF Says, CancelSays, CancelTells
  <2>4. /\ \A task : Keeps(store, None, task) => Keeps(store', t, task)
        /\ IsOver(store, None) => IsOver(store', t)
    BY <1>1, StoreStays, ToldKept
  <2>5. CancelTells(store', d)
    BY <2>2, <2>3, <2>4 DEF CancelTells
  <2>6. UNCHANGED <<minted, send, drive, sub, stream, seen>>
    BY <1>1 DEF CancelUnchanged, streams
  <2>7. QED
    BY <1>1, <2>1, <2>2, <2>3, <2>5, <2>6, StoreKept, CancelSaysMoves
<1>5. QED
  BY <1>2, <1>3, <1>4

LEMMA CancelBeginSays ==
  ASSUME Limit = NoLimit, Shape, Says, NEW c \in Cancels, CancelBegin(c)
  PROVE  Says'
<1>. DEFINE t    == cancel[c].id
            task == CanceledTask(store, t)
<1>1. /\ cancel[c] \in CancelRec /\ cancel[c].pc = "begin" /\ t \in Tasks /\ StoreOK(store)
      /\ CancelUnchanged /\ UNCHANGED <<registry, exec, pushed>>
  BY CancelHeld DEF CancelBegin
<1>2. CASE /\ CanBeginCancel(store, t) /\ store' = AfterBeginCancel(store, t)
           /\ cancel' = [cancel EXCEPT ![c].pc = "lookup", ![c].cur = task, ![c].final = task]
  <2>. DEFINE d == [cancel[c] EXCEPT !.pc = "lookup", !.cur = task, !.final = task]
  <2>1. Writes(t, task.state) /\ Finished(store', t)
    BY <1>1, <1>2, BeginCancelWrites
  <2>2. Stored(store, t)
    BY <1>2 DEF CanBeginCancel
  <2>3. StoreKeeps /\ Told(store', t, task.state)
    BY <2>1, <2>2 DEF StoreKeeps, Writes
  <2>4. cancel' = [cancel EXCEPT ![c] = d]
    BY <1>2 DEF Shape, Types
  <2>. HIDE DEF task
  <2>5. /\ d.pc = "lookup" /\ d.active = cancel[c].active /\ d.id = t
        /\ d.cur = task /\ d.final = task
    BY <1>1 DEF CancelRec
  <2>. HIDE DEF d
  <2>6. CancelTells(store', d)
    BY <1>1, <2>1, <2>3, <2>5 DEF CancelTells, Keeps, IsOver
  <2>7. UNCHANGED <<minted, send, drive, sub, stream, seen>>
    BY <1>1 DEF CancelUnchanged, streams
  <2>8. d.active # None => d.id \in Tasks /\ send[d.active].id = d.id
    BY <2>5 DEF Says, CancelSays
  <2>9. QED
    BY <1>1, <2>3, <2>4, <2>5, <2>6, <2>7, <2>8, CancelSaysMoves
<1>3. CASE cancel' = [cancel EXCEPT ![c].pc = "raced"] /\ UNCHANGED store
  <2>. DEFINE d == [cancel[c] EXCEPT !.pc = "raced"]
  <2>1. cancel' = [cancel EXCEPT ![c] = d]
    BY <1>3 DEF Shape, Types
  <2>2. /\ d.pc = "raced" /\ d.active = cancel[c].active /\ d.id = cancel[c].id
        /\ d.cur = cancel[c].cur /\ d.final = cancel[c].final
    BY <1>1 DEF CancelRec
  <2>. HIDE DEF d
  <2>3. QED
    BY <1>1, <1>3, <2>1, <2>2, CancelGoesSays
<1>4. CASE Conclude(c, "notFound") /\ UNCHANGED store
  BY <1>1, <1>4, ConcludeSays
<1>5. QED
  BY <1>2, <1>3, <1>4 DEF CancelBegin

LEMMA CancelLookupSays ==
  ASSUME Shape, Registered, Says, NEW c \in Cancels, CancelLookup(c)
  PROVE  Says'
<1>. DEFINE t == cancel[c].id
            x == registry[t]
            d == [cancel[c] EXCEPT !.pc = "pull", !.active = x]
<1>1. /\ cancel[c] \in CancelRec /\ cancel[c].pc = "lookup" /\ t \in Tasks
      /\ CancelUnchanged /\ UNCHANGED <<store, registry, exec, pushed>>
  BY CancelHeld DEF CancelLookup
<1>2. cancel' = [cancel EXCEPT ![c] = d]
  BY DEF CancelLookup, Shape, Types
<1>3. x # None => send[x].id = t
  BY <1>1 DEF Registered, RegistryIsLive
<1>. HIDE DEF x
<1>4. /\ d.pc = "pull" /\ d.active = x /\ d.id = t /\ d.cur = cancel[c].cur
      /\ d.final = cancel[c].final
  BY <1>1 DEF CancelRec
<1>. HIDE DEF d
<1>5. CancelTells(store', d)
  BY <1>1, <1>4, StoreKept, CancelStillTells DEF CancelTells
<1>6. UNCHANGED <<minted, send, drive, sub, stream, seen>>
  BY <1>1 DEF CancelUnchanged, streams
<1>7. QED
  BY <1>1, <1>2, <1>3, <1>4, <1>5, <1>6, StoreKept, CancelSaysMoves

LEMMA CancelPullSays ==
  ASSUME Shape, Says, NEW c \in Cancels, NEW e \in CancelItems, CancelPull(c, e)
  PROVE  Says'
<1>. DEFINE pc == IF e = Error THEN IF cancel[c].active # None THEN "number" ELSE "errorPush"
                  ELSE IF NeedsSave(e) THEN "save" ELSE AfterCancelSave(c)
            cur == IF e = Error THEN NoTask ELSE cancel[c].cur
            d == [cancel[c] EXCEPT !.item = e, !.count = cancel[c].count + 1, !.cur = cur,
                                   !.pc = pc]
<1>1. /\ cancel[c] \in CancelRec /\ cancel[c].pc = "pull"
      /\ CancelUnchanged /\ UNCHANGED <<store, registry, exec, pushed>>
  BY CancelHeld DEF CancelPull
<1>2. cancel' = [cancel EXCEPT ![c] = d]
  BY DEF CancelPull, Shape, Types
<1>3. /\ pc \notin {"idle", "create"}
      /\ pc \in {"push", "number", "send"} => e.kind \notin {"status", "task"}
      /\ cur = NoTask \/ cur = cancel[c].cur
  BY AfterCancelSavePc DEF NeedsSave, Error
<1>. HIDE DEF pc, cur
<1>4. /\ d.pc = pc /\ d.active = cancel[c].active /\ d.id = cancel[c].id /\ d.cur = cur
      /\ d.final = cancel[c].final /\ d.item = e
  BY <1>1 DEF CancelRec
<1>. HIDE DEF d
<1>5. e \in Item
  BY DEF Item
<1>6. d.pc \in {"push", "number", "send"} => Told(store', d.id, d.item.state)
  BY <1>3, <1>4, <1>5, QuietItem
<1>7. Keeps(store', d.id, d.cur)
  BY <1>1, <1>3, <1>4, StoreKept, CancelStillTells DEF CancelTells, Keeps
<1>8. CancelTells(store', d)
  BY <1>1, <1>3, <1>4, <1>6, <1>7, StoreKept, CancelStillTells DEF CancelTells
<1>9. UNCHANGED <<minted, send, drive, sub, stream, seen>>
  BY <1>1 DEF CancelUnchanged, streams
<1>10. d.active # None => d.id \in Tasks /\ send[d.active].id = d.id
  BY <1>4 DEF Says, CancelSays
<1>11. QED
  BY <1>1, <1>2, <1>4, <1>8, <1>9, <1>10, StoreKept, CancelSaysMoves

(* The steps that change the step only.                                    *)
LEMMA CancelPcSays ==
  ASSUME Shape, Says, UNCHANGED store, NEW c \in Cancels, CancelUnchanged,
         NEW pc, pc \notin {"idle", "create"}, cancel' = [cancel EXCEPT ![c].pc = pc],
         pc \in {"push", "number", "send"} => Told(store, cancel[c].id, cancel[c].item.state),
         \A s \in Sends : exec'[s] = exec[s] \/ ExecTells(store', send[s].id, exec'[s]),
         \A t \in Tasks : \A x \in pushed'[t] : x \in pushed[t] \/ Told(store', t, x)
  PROVE  Says'
<1>. DEFINE d == [cancel[c] EXCEPT !.pc = pc]
<1>1. cancel[c] \in CancelRec
  BY CancelHeld
<1>2. cancel' = [cancel EXCEPT ![c] = d]
  BY DEF Shape, Types
<1>3. /\ d.pc = pc /\ d.active = cancel[c].active /\ d.id = cancel[c].id
      /\ d.cur = cancel[c].cur /\ d.final = cancel[c].final /\ d.item = cancel[c].item
  BY <1>1 DEF CancelRec
<1>. HIDE DEF d
<1>4. QED
  BY <1>2, <1>3, CancelGoesSays

LEMMA CancelSaveSays ==
  ASSUME Limit = NoLimit, Shape, Says, NEW c \in Cancels, CancelSave(c)
  PROVE  Says'
<1>. DEFINE t    == cancel[c].id
            pc   == AfterCancelSave(c)
            task == Applied(cancel[c].cur, cancel[c].item)
            d    == [cancel[c] EXCEPT !.pc = pc, !.cur = task]
<1>1. /\ cancel[c] \in CancelRec /\ cancel[c].pc = "save" /\ t \in Tasks
      /\ cancel[c].cur \in Task /\ cancel[c].final \in Task /\ StoreOK(store)
      /\ CancelUnchanged /\ UNCHANGED <<registry, exec, pushed>>
  BY CancelHeld DEF CancelSave
<1>2. cancel[c].item \in Item
  BY <1>1 DEF CancelRec
<1>3. task \in Task
  BY <1>1, <1>2, AppliedTask
<1>4. Stored(store, t)
  <2>1. IsOver(store, t)
    BY <1>1, NoTaskAssumption, StoreKept DEF Says, CancelSays, CancelTells
  <2>2. QED
    BY <2>1 DEF IsOver, Finished
<1>5. \/ /\ SaveOutcome(t, task) = "saved" /\ store' = AfterUpdate(store, t, task)
         /\ cancel' = [cancel EXCEPT ![c].pc = pc, ![c].cur = task]
      \/ Unwind(c, "error") /\ UNCHANGED store
  <2>1. SaveOutcome(t, task) # "missing"
    BY <1>4 DEF SaveOutcome
  <2>2. QED
    BY <2>1 DEF CancelSave
<1>6. pc \in {"push", "number", "next"}
  BY AfterCancelSavePc
<1>. HIDE DEF pc
<1>7. CASE /\ SaveOutcome(t, task) = "saved" /\ store' = AfterUpdate(store, t, task)
           /\ cancel' = [cancel EXCEPT ![c].pc = pc, ![c].cur = task]
  <2>1. cancel' = [cancel EXCEPT ![c] = d]
    BY <1>7 DEF Shape, Types
  <2>. HIDE DEF task
  <2>2. /\ d.pc = pc /\ d.active = cancel[c].active /\ d.id = t /\ d.cur = task
        /\ d.final = cancel[c].final /\ d.item = cancel[c].item
    BY <1>1 DEF CancelRec
  <2>. HIDE DEF d
  <2>3. StoreKeeps /\ Told(store', t, task.state)
    BY <1>1, <1>3, <1>7, UpdateKeeps
  <2>4. Told(store', t, cancel[c].item.state)
    BY <1>1, <1>2, <2>3, SavedTells DEF task
  <2>5. CancelTells(store', d)
    BY <1>6, <2>2, <2>3, <2>4, CancelStillTells DEF CancelTells, Keeps
  <2>6. UNCHANGED <<minted, send, drive, sub, stream, seen>>
    BY <1>1 DEF CancelUnchanged, streams
  <2>7. d.active # None => d.id \in Tasks /\ send[d.active].id = d.id
    BY <2>2 DEF Says, CancelSays
  <2>8. QED
    BY <1>1, <2>1, <2>2, <2>3, <2>5, <2>6, <2>7, CancelSaysMoves
<1>8. CASE Unwind(c, "error") /\ UNCHANGED store
  BY <1>1, <1>8, UnwindSays
<1>9. QED
  BY <1>5, <1>7, <1>8

LEMMA CancelPushSays ==
  ASSUME Shape, Says, NEW c \in Cancels, CancelPush(c)
  PROVE  Says'
<1>. DEFINE t  == cancel[c].id
            pc == IF cancel[c].active # None THEN "number" ELSE "next"
<1>1. /\ cancel[c] \in CancelRec /\ cancel[c].pc = "push" /\ t \in Tasks
      /\ CancelUnchanged /\ UNCHANGED <<store, registry, exec>>
      /\ pushed' = Pushed(t, cancel[c].item)
  BY CancelHeld DEF CancelPush
<1>2. Told(store', t, cancel[c].item.state)
  BY <1>1, StoreKept, CancelStillTells DEF CancelTells
<1>3. \A w \in Tasks : \A x \in pushed'[w] : x \in pushed[w] \/ Told(store', w, x)
  BY <1>1, <1>2, PushTells DEF Shape
<1>4. CASE cancel' = [cancel EXCEPT ![c].pc = pc]
  <2>1. pc \notin {"idle", "create"}
    OBVIOUS
  <2>. HIDE DEF pc
  <2>2. QED
    BY <1>1, <1>2, <1>3, <1>4, <2>1, CancelPcSays
<1>5. CASE Unwind(c, "error")
  BY <1>1, <1>3, <1>5, UnwindSays
<1>6. QED
  BY <1>4, <1>5 DEF CancelPush

LEMMA CancelNumberSays ==
  ASSUME Shape, Says, NEW c \in Cancels, CancelNumber(c)
  PROVE  Says'
<1>. DEFINE x == cancel[c].active
            y == Advance(exec[x], cancel[c].cur)
            d == [cancel[c] EXCEPT !.pc = "send", !.sequence = exec[x].sequence + 1]
<1>1. /\ cancel[c] \in CancelRec /\ cancel[c].pc = "number" /\ x \in Sends
      /\ CancelUnchanged /\ UNCHANGED <<store, registry, pushed>>
  BY CancelHeld DEF CancelNumber, Shape, Holds, CancelHolds
<1>2. exec[x] \in Exec /\ x # None
  BY <1>1, ModelAssumption DEF Shape, Types
<1>3. cancel' = [cancel EXCEPT ![c] = d] /\ exec' = [exec EXCEPT ![x] = y]
  BY <1>1 DEF CancelNumber, Shape, Types
<1>4. /\ d.pc = "send" /\ d.active = x /\ d.id = cancel[c].id /\ d.cur = cancel[c].cur
      /\ d.final = cancel[c].final /\ d.item = cancel[c].item
  BY <1>1 DEF CancelRec
<1>. HIDE DEF d, y
<1>5. exec'[x] = y /\ \A s \in Sends \ {x} : exec'[s] = exec[s]
  BY <1>1, <1>3 DEF Shape, Types
<1>6. /\ CancelTells(store', cancel[c]) /\ CancelTells(store, cancel[c])
      /\ send[x].id = cancel[c].id
  BY <1>1, <1>2, StoreKept, CancelStillTells
<1>7. ExecTells(store', send[x].id, exec[x])
  BY <1>1 DEF Says, ExecSays
<1>8. ExecTells(store', send[x].id, y)
  BY <1>2, <1>6, <1>7, AdvanceTells DEF CancelTells, y
<1>9. Told(store, d.id, d.item.state)
  BY <1>1, <1>4, <1>6 DEF CancelTells
<1>10. \A s \in Sends : exec'[s] = exec[s] \/ ExecTells(store', send[s].id, exec'[s])
  BY <1>5, <1>8
<1>11. QED
  BY <1>1, <1>3, <1>4, <1>9, <1>10, CancelGoesSays

LEMMA CancelSendSays ==
  ASSUME Shape, Says, NEW c \in Cancels, CancelSend(c)
  PROVE  Says'
<1>. DEFINE x == cancel[c].active
            y == Broadcast(exec[x], cancel[c].item, cancel[c].sequence, Listeners(x))
            pc == IF cancel[c].item = Error THEN "errorPush" ELSE "next"
<1>1. /\ cancel[c] \in CancelRec /\ cancel[c].pc = "send" /\ x \in Sends
      /\ CancelUnchanged /\ UNCHANGED <<store, registry, pushed>>
  BY CancelHeld DEF CancelSend, Shape, Holds, CancelHolds
<1>2. exec[x] \in Exec /\ x # None
  BY <1>1, ModelAssumption DEF Shape, Types
<1>3. cancel' = [cancel EXCEPT ![c].pc = pc] /\ exec' = [exec EXCEPT ![x] = y]
  BY <1>1 DEF CancelSend, Shape, Types
<1>4. pc \in {"errorPush", "next"}
  OBVIOUS
<1>. HIDE DEF pc, y
<1>5. exec'[x] = y /\ \A s \in Sends \ {x} : exec'[s] = exec[s]
  BY <1>1, <1>3 DEF Shape, Types
<1>6. CancelTells(store', cancel[c]) /\ send[x].id = cancel[c].id
  BY <1>1, <1>2, StoreKept, CancelStillTells
<1>7. ExecTells(store', send[x].id, exec[x])
  BY <1>1 DEF Says, ExecSays
<1>8. Told(store', send[x].id, cancel[c].item.state)
  BY <1>1, <1>6 DEF CancelTells
<1>9. ExecTells(store', send[x].id, y)
  BY <1>2, <1>7, <1>8, BroadcastTells DEF y
<1>10. \A s \in Sends : exec'[s] = exec[s] \/ ExecTells(store', send[s].id, exec'[s])
  BY <1>5, <1>9
<1>11. QED
  BY <1>1, <1>3, <1>4, <1>10, CancelPcSays

LEMMA CancelNextSays ==
  ASSUME Shape, Says, NEW c \in Cancels, CancelNext(c)
  PROVE  Says'
<1>. DEFINE ends == IsTerminalEvent(cancel[c].item)
            pc   == IF ends THEN "finish" ELSE "pull"
            d    == [cancel[c] EXCEPT !.pc = pc, !.pushed = ends]
<1>1. /\ cancel[c] \in CancelRec /\ cancel[c].pc = "next"
      /\ CancelUnchanged /\ UNCHANGED <<store, registry, exec, pushed>>
  BY CancelHeld DEF CancelNext
<1>2. cancel' = [cancel EXCEPT ![c] = d] /\ pc \in {"finish", "pull"}
  BY DEF CancelNext, Shape, Types
<1>. HIDE DEF pc, ends
<1>3. /\ d.pc = pc /\ d.active = cancel[c].active /\ d.id = cancel[c].id
      /\ d.cur = cancel[c].cur /\ d.final = cancel[c].final
  BY <1>1 DEF CancelRec
<1>. HIDE DEF d
<1>4. QED
  BY <1>1, <1>2, <1>3, CancelGoesSays

LEMMA CancelErrorPushSays ==
  ASSUME Shape, Says, NEW c \in Cancels, CancelErrorPush(c)
  PROVE  Says'
<1>. DEFINE t == cancel[c].id
<1>1. /\ cancel[c].pc = "errorPush" /\ t \in Tasks /\ Unwind(c, "error")
      /\ CancelUnchanged /\ UNCHANGED <<store, registry, exec>>
  BY CancelHeld DEF CancelErrorPush
<1>2. \/ Stored(store, t) /\ pushed' = Pushed(t, Status(StateOf(store, t)))
      \/ UNCHANGED pushed
  BY DEF CancelErrorPush
<1>3. CASE Stored(store, t) /\ pushed' = Pushed(t, Status(StateOf(store, t)))
  <2>1. Status(StateOf(store, t)).state = StateOf(store, t)
    BY DEF Status
  <2>2. Told(store', t, Status(StateOf(store, t)).state)
    BY <1>1, <1>3, <2>1 DEF Told
  <2>3. \A w \in Tasks : \A x \in pushed'[w] : x \in pushed[w] \/ Told(store', w, x)
    BY <1>1, <1>3, <2>2, PushTells DEF Shape
  <2>4. QED
    BY <1>1, <2>3, UnwindSays
<1>4. CASE UNCHANGED pushed
  BY <1>1, <1>4, UnwindSays
<1>5. QED
  BY <1>2, <1>3, <1>4

LEMMA CancelFinishSays ==
  ASSUME Shape, Says, NEW c \in Cancels, CancelFinish(c)
  PROVE  Says'
<1>. DEFINE d == [cancel[c] EXCEPT !.pc = "reload", !.active = None]
<1>1. cancel[c] \in CancelRec /\ CancelUnchanged /\ UNCHANGED <<store, exec, pushed>>
  BY CancelHeld DEF CancelFinish
<1>2. cancel' = [cancel EXCEPT ![c] = d]
  BY DEF CancelFinish, Shape, Types
<1>3. /\ d.pc = "reload" /\ d.active = None /\ d.id = cancel[c].id
      /\ d.cur = cancel[c].cur /\ d.final = cancel[c].final
  BY <1>1 DEF CancelRec
<1>. HIDE DEF d
<1>4. QED
  BY <1>1, <1>2, <1>3, CancelGoesSays

(* The task as stored is the end it came to.                               *)
LEMMA CancelReloadSays ==
  ASSUME Shape, Says, NEW c \in Cancels, CancelReload(c)
  PROVE  Says'
<1>. DEFINE t  == cancel[c].id
            final == store.entries[t].task
            pc == IF PushOn /\ ~cancel[c].pushed THEN "finalPush" ELSE "release"
            d  == [cancel[c] EXCEPT !.final = final, !.reply = "ok", !.pc = pc]
<1>1. /\ cancel[c] \in CancelRec /\ cancel[c].pc = "reload" /\ t \in Tasks
      /\ cancel[c].final \in Task
      /\ CancelUnchanged /\ UNCHANGED <<store, registry, exec, pushed>>
  BY CancelHeld DEF CancelReload
<1>2. CASE Unwind(c, "notFound")
  BY <1>1, <1>2, UnwindSays
<1>3. CASE Stored(store, t) /\ cancel' = [cancel EXCEPT ![c].final = final, ![c].reply = "ok",
                                                        ![c].pc = pc]
  <2>1. cancel' = [cancel EXCEPT ![c] = d] /\ pc \in {"finalPush", "release"}
    BY <1>3 DEF Shape, Types
  <2>. HIDE DEF pc
  <2>2. /\ d.pc = pc /\ d.active = cancel[c].active /\ d.id = t /\ d.cur = cancel[c].cur
        /\ d.final = final
    BY <1>1 DEF CancelRec
  <2>. HIDE DEF d
  <2>3. Keeps(store', t, final)
    BY <1>1, <1>3 DEF Keeps, Told, StateOf
  <2>4. IsOver(store', t)
    BY <1>1, NoTaskAssumption, StoreKept, CancelStillTells DEF CancelTells
  <2>5. CancelTells(store', d)
    BY <1>1, <2>1, <2>2, <2>3, <2>4, StoreKept, CancelStillTells DEF CancelTells
  <2>6. UNCHANGED <<minted, send, drive, sub, stream, seen>>
    BY <1>1 DEF CancelUnchanged, streams
  <2>7. d.active # None => d.id \in Tasks /\ send[d.active].id = d.id
    BY <2>2 DEF Says, CancelSays
  <2>8. QED
    BY <1>1, <2>1, <2>2, <2>5, <2>6, <2>7, StoreKept, CancelSaysMoves
<1>4. QED
  BY <1>2, <1>3 DEF CancelReload

LEMMA CancelFinalPushSays ==
  ASSUME Shape, Says, NEW c \in Cancels, CancelFinalPush(c)
  PROVE  Says'
<1>. DEFINE t == cancel[c].id
<1>1. /\ cancel[c].pc = "finalPush" /\ t \in Tasks /\ cancel[c].final \in Task
      /\ CancelUnchanged /\ UNCHANGED <<store, registry, exec>>
      /\ pushed' = Pushed(t, Status(cancel[c].final.state))
  BY CancelHeld DEF CancelFinalPush
<1>2. Status(cancel[c].final.state).state = cancel[c].final.state
  BY DEF Status
<1>3. Told(store', t, Status(cancel[c].final.state).state)
  BY <1>1, <1>2, NoTaskAssumption, StoreKept, CancelStillTells DEF CancelTells, Keeps
<1>4. \A w \in Tasks : \A x \in pushed'[w] : x \in pushed[w] \/ Told(store', w, x)
  BY <1>1, <1>3, PushTells DEF Shape
<1>5. CASE cancel' = [cancel EXCEPT ![c].pc = "release"]
  <2>1. "release" \notin {"idle", "create"} /\ "release" \notin {"push", "number", "send"}
    OBVIOUS
  <2>2. QED
    BY <1>1, <1>4, <1>5, <2>1, CancelPcSays
<1>6. CASE Unwind(c, "error")
  BY <1>1, <1>4, <1>6, UnwindSays
<1>7. QED
  BY <1>5, <1>6 DEF CancelFinalPush

(* Every waiter is handed the task as it ended.                            *)
LEMMA CancelReleaseSays ==
  ASSUME Shape, Says, NEW c \in Cancels, CancelRelease(c)
  PROVE  Says'
<1>. DEFINE t == cancel[c].id
            final == cancel[c].final
            d == [cancel[c] EXCEPT !.pc = "done"]
<1>1. /\ cancel[c] \in CancelRec /\ cancel[c].pc = "release" /\ t \in Tasks
      /\ UNCHANGED <<store, minted, registry, exec, send, drive, sub, seen, pushed>>
      /\ stream' = [p \in Sends \union Subs |->
           IF p \in waiting[t] THEN [src |-> Dead, sub |-> Subscription(0, final, 0)]
                               ELSE stream[p]]
  BY CancelHeld DEF CancelRelease
<1>2. cancel' = [cancel EXCEPT ![c] = d]
  BY DEF CancelRelease, Shape, Types
<1>3. /\ d.pc = "done" /\ d.active = cancel[c].active /\ d.id = t
      /\ d.cur = cancel[c].cur /\ d.final = cancel[c].final
  BY <1>1 DEF CancelRec
<1>. HIDE DEF d
<1>4. Onward
  <2>1. cancel'[c] = d /\ \A b \in Cancels \ {c} : cancel'[b] = cancel[b]
    BY <1>2 DEF Shape, Types
  <2>2. IdsGoOn
    BY <1>1, <1>3, <2>1 DEF IdsGoOn
  <2>3. QED
    BY <1>1, <2>2, StoreStays DEF Onward
<1>5. Keeps(store, t, final)
  BY DEF Says, CancelSays, CancelTells
<1>. HIDE DEF final
<1>6. ASSUME NEW p \in Sends \union Subs
      PROVE  StreamSays(p)' \/ (stream'[p] = stream[p] /\ seen'[p] = seen[p])
  <2>1. CASE p \in waiting[t]
    <3>1. stream'[p] = [src |-> Dead, sub |-> Subscription(0, final, 0)]
      BY <1>1, <2>1
    <3>2. Dead \notin Sends
      BY ModelAssumption
    <3>. HIDE DEF Dead
    <3>3. QED
      BY <1>1, <1>4, <1>5, <2>1, <3>1, <3>2, WaiterStreamSays
  <2>2. CASE p \notin waiting[t]
    BY <1>1, <2>2
  <2>3. QED
    BY <2>1, <2>2
<1>7. CancelTells(store', d)
  BY <1>1, <1>3, StoreKept, CancelStillTells DEF CancelTells
<1>8. d.active # None => d.id \in Tasks /\ send[d.active].id = d.id
  BY <1>3 DEF Says, CancelSays
<1>9. QED
  BY <1>1, <1>2, <1>3, <1>6, <1>7, <1>8, StoreKept, CancelSaysMoves

LEMMA CancelStepSays ==
  ASSUME Limit = NoLimit, Shape, Registered, Says, NEW c \in Cancels,
         \/ \E t \in Tasks : CancelLoad(c, t)
         \/ CancelDropped(c) \/ CancelStep(c)
  PROVE  Says'
<1>1. CASE \E t \in Tasks : CancelLoad(c, t)
  BY <1>1, CancelLoadSays
<1>2. CASE CancelDropped(c)
  <2>1. /\ Conclude(c, "dropped") \/ Unwind(c, "dropped")
        /\ CancelUnchanged /\ UNCHANGED <<store, exec, pushed>>
    BY <1>2 DEF CancelDropped
  <2>2. QED
    BY <2>1, ConcludeSays, UnwindSays
<1>3. CASE CancelRaced(c)
  <2>1. /\ \E reply \in Replies : Conclude(c, reply)
        /\ CancelUnchanged /\ UNCHANGED <<store, exec, pushed>>
    BY <1>3 DEF CancelRaced, Replies
  <2>2. QED
    BY <2>1, ConcludeSays
<1>4. CASE CancelEnd(c)
  <2>1. /\ cancel' = [cancel EXCEPT ![c].pc = "finish"]
        /\ CancelUnchanged /\ UNCHANGED <<store, exec, pushed>>
    BY <1>4 DEF CancelEnd
  <2>2. "finish" \notin {"idle", "create"} /\ "finish" \notin {"push", "number", "send"}
    OBVIOUS
  <2>3. QED
    BY <2>1, <2>2, CancelPcSays
<1>5. CASE \E e \in CancelItems : CancelPull(c, e)
  BY <1>5, CancelPullSays
<1>6. CASE CancelBegin(c) \/ CancelLookup(c) \/ CancelSave(c) \/ CancelPush(c)
  BY <1>6, CancelBeginSays, CancelLookupSays, CancelSaveSays, CancelPushSays
<1>7. CASE CancelNumber(c) \/ CancelSend(c) \/ CancelNext(c) \/ CancelErrorPush(c)
  BY <1>7, CancelNumberSays, CancelSendSays, CancelNextSays, CancelErrorPushSays
<1>8. CASE \/ CancelFinish(c) \/ CancelReload(c) \/ CancelFinalPush(c) \/ CancelRelease(c)
  BY <1>8, CancelFinishSays, CancelReloadSays, CancelFinalPushSays, CancelReleaseSays
<1>9. ~CancelCreate(c)
  BY DEF CancelCreate, Says, CancelSays, CancelTells
<1>10. QED
  BY <1>1, <1>2, <1>3, <1>4, <1>5, <1>6, <1>7, <1>8, <1>9 DEF CancelStep

-----------------------------------------------------------------------------
(* What callers are told of a task's end is the end it has.                *)

LEMMA NextSays ==
  ASSUME Limit = NoLimit, Shape, Registered, Says, [Next]_vars
  PROVE  Says'
<1>1. CASE \E s \in Sends :
             \/ \E t \in Tasks, m \in Modes : SendExisting(s, t, m) \/ SendNew(s, t, m)
             \/ SendConfigRefused(s) \/ SendDropped(s) \/ SendStep(s)
  BY <1>1, SendStepSays
<1>2. CASE \E s \in Sends : DriveStep(s)
  BY <1>2, DriveStepSays
<1>3. CASE \E c \in Cancels : \/ \E t \in Tasks : CancelLoad(c, t)
                              \/ CancelDropped(c) \/ CancelStep(c)
  BY <1>3, CancelStepSays
<1>4. CASE \E u \in Subs : \/ \E t \in Tasks : SubRegister(u, t)
                           \/ SubDropped(u) \/ SubStep(u)
  BY <1>4, SubStepSays
<1>5. CASE UNCHANGED vars
  <2>1. UNCHANGED <<store, minted, exec, send, drive, cancel, sub, stream, seen, pushed>>
    BY <1>5 DEF vars, handlers, manager, streams
  <2>2. Onward
    BY <2>1, StoreStays DEF Onward, IdsGoOn
  <2>3. QED
    BY <2>1, <2>2, SaysKept DEF Shape
<1>6. QED
  BY <1>1, <1>2, <1>3, <1>4, <1>5, Zenon DEF Next, Settled

LEMMA InitSays ==
  ASSUME Init
  PROVE  Says
<1>1. ~IsTerminal("None") /\ ~IsTerminal("none")
  BY DEF IsTerminal, TerminalStates
<1>2. ASSUME NEW s \in Sends PROVE SendSays(s) /\ ExecSays(s) /\ DriveSays(s)
  <2>1. SendSays(s)
    BY <1>1 DEF Init, SendSays, SendTells, Told, Keeps
  <2>2. exec[s].snapshot = NoTask /\ exec[s].sent = <<>>
    BY DEF Init, NewExecution
  <2>3. ExecSays(s)
    BY <2>2 DEF ExecSays, ExecTells, Keeps
  <2>4. DriveSays(s)
    BY DEF Init, DriveSays, DriveTells, Keeps
  <2>5. QED
    BY <2>1, <2>3, <2>4
<1>3. \A c \in Cancels : CancelSays(c)
  BY DEF Init, CancelSays, CancelTells, Keeps
<1>4. \A u \in Subs : SubSays(u)
  BY DEF Init, SubSays, Keeps
<1>5. ASSUME NEW p \in Sends \union Subs PROVE StreamSays(p)
  <2>1. /\ stream[p].src \notin Sends /\ stream[p].sub.snapshot = NoTask /\ seen[p] = <<>>
    BY ModelAssumption DEF Init, NoStream, Subscription
  <2>2. QED
    BY <2>1 DEF StreamSays, Keeps
<1>6. StoreSays
  BY DEF Init, StoreSays, Stored
<1>7. QED
  BY <1>2, <1>3, <1>4, <1>5, <1>6 DEF Says

(* Over a store that purges nothing, whoever is told that a task ended, by *)
(* a stream, by the answer to a send or by a webhook, is told the end the  *)
(* store keeps, however drive_execution and cancel_task interleave.        *)
THEOREM OneEndForAll ==
  ASSUME Limit = NoLimit
  PROVE  Spec => []TerminalAgreement
<1>1. Init => Shape /\ Registered /\ Says
  BY InitShape, InitRegistered, InitSays
<1>2. Shape /\ Registered /\ Says /\ [Next]_vars => (Shape /\ Registered /\ Says)'
  BY NextShape, NextRegistered, NextSays
<1>3. Says => TerminalAgreement
  <2>1. \A t, x : Told(store, t, x) => Agrees(t, x)
    BY DEF Told, Agrees
  <2>2. QED
    BY <2>1 DEF Says, SendSays, SendTells, StreamSays, StoreSays, TerminalAgreement
<1>4. QED
  BY <1>1, <1>2, <1>3, PTL DEF Spec

(* ... and an execution that failed leaves a finished task behind: every   *)
(* failure path of drive_execution goes through fail_task.                 *)
THEOREM FailedTurnsEnd ==
  ASSUME Limit = NoLimit
  PROVE  Spec => []FailedTurnIsOver
<1>1. Init => Shape /\ Registered /\ Says
  BY InitShape, InitRegistered, InitSays
<1>2. Shape /\ Registered /\ Says /\ [Next]_vars => (Shape /\ Registered /\ Says)'
  BY NextShape, NextRegistered, NextSays
<1>3. Says => FailedTurnIsOver
  BY DEF Says, DriveSays, DriveTells, IsOver, FailedTurnIsOver
<1>4. QED
  BY <1>1, <1>2, <1>3, PTL DEF Spec

-----------------------------------------------------------------------------
(* Whoever waits is released.                                              *)

LEMMA InLineKept ==
  ASSUME InLine,
         \A t \in Tasks :
           /\ \/ waiting'[t] = {} \/ registry'[t] = None
              \/ waiting'[t] \subseteq waiting[t] /\ registry[t] # None
           /\ \A u \in waiting'[t] : GoesToWait(u)' =>
                (u \in waiting[t] /\ GoesToWait(u)) \/ ~Finished(store', t)
           /\ Finished(store', t) =>
                Finished(store, t) \/ ReleasePending(t)' \/ waiting[t] = {}
           /\ ReleasePending(t) => ReleasePending(t)' \/ waiting'[t] = {}
  PROVE  InLine'
<1>1. ASSUME NEW t \in Tasks, registry'[t] # None PROVE waiting'[t] = {}
  BY <1>1 DEF InLine
<1>2. ASSUME NEW t \in Tasks, NEW u \in waiting'[t], GoesToWait(u)', Finished(store', t)
      PROVE  ReleasePending(t)'
  <2>1. u \in waiting[t] /\ GoesToWait(u)
    BY <1>2
  <2>2. Finished(store, t) \/ ReleasePending(t)'
    BY <1>2, <2>1
  <2>3. Finished(store, t) => ReleasePending(t)
    BY <2>1 DEF InLine
  <2>4. ReleasePending(t) => ReleasePending(t)'
    BY <1>2
  <2>5. QED
    BY <2>2, <2>3, <2>4
<1>3. QED
  BY <1>1, <1>2 DEF InLine

(* A step of a send or a drive: the only task it can end has a live turn.  *)
LEMMA TurnInLine ==
  ASSUME InLine, UNCHANGED <<sub, cancel, waiting>>,
         \A t \in Tasks : registry'[t] = registry[t] \/ registry'[t] = None,
         \A t \in Tasks : Finished(store', t) => Finished(store, t) \/ waiting[t] = {}
  PROVE  InLine'
<1>1. \A t \in Tasks : ReleasePending(t) => ReleasePending(t)'
  BY DEF ReleasePending
<1>2. \A u : GoesToWait(u)' => GoesToWait(u)
  BY DEF GoesToWait
<1>3. ASSUME NEW t \in Tasks
      PROVE  \/ registry'[t] = None
             \/ waiting'[t] \subseteq waiting[t] /\ registry[t] # None
  BY <1>3
<1>4. QED
  BY <1>1, <1>2, <1>3, InLineKept

LEMMA WritesThere ==
  ASSUME NEW t \in Tasks, NEW x, Writes(t, x), NEW w \in Tasks, w # t, Finished(store', w)
  PROVE  Finished(store, w)
  BY DEF Writes, Finished, Stored, StateOf

LEMMA SendInLine ==
  ASSUME Shape, Says, InLine, NEW s \in Sends,
         \/ \E t \in Tasks, m \in Modes : SendExisting(s, t, m) \/ SendNew(s, t, m)
         \/ SendConfigRefused(s) \/ SendDropped(s) \/ SendStep(s)
  PROVE  InLine'
<1>1. CASE \E t \in Tasks, m \in Modes : SendNew(s, t, m)
  <2>1. PICK t \in Tasks, m \in Modes : SendNew(s, t, m)
    BY <1>1
  <2>. DEFINE task == [state |-> "Submitted", history |-> {s}]
  <2>2. /\ t \notin minted /\ store' = AfterCreate(store, t, task)
        /\ UNCHANGED <<sub, cancel, waiting, registry>>
    BY <2>1 DEF SendNew, manager
  <2>3. ~Stored(store, t)
    BY <2>2 DEF Says, StoreSays
  <2>4. task \in Task /\ ~IsTerminal(task.state)
    BY DEF Task, TaskState, LiveStates, IsTerminal, TerminalStates
  <2>. HIDE DEF task
  <2>5. Writes(t, task.state)
    BY <2>2, <2>3, <2>4, CreateWrites DEF Shape, Types
  <2>6. ~Finished(store', t)
    BY <2>4, <2>5 DEF Writes, Finished
  <2>7. \A w \in Tasks : Finished(store', w) => Finished(store, w)
    BY <2>5, <2>6, WritesThere
  <2>8. QED
    BY <2>2, <2>7, TurnInLine
<1>2. CASE \/ \E t \in Tasks, m \in Modes : SendExisting(s, t, m)
           \/ SendConfigRefused(s) \/ SendDropped(s) \/ SendSpawn(s) \/ SendReceive(s)
           \/ SendEnd(s) \/ SendReload(s) \/ Skip(s)
  <2>1. UNCHANGED <<store, sub, cancel, waiting, registry>>
    BY <1>2, Zenon DEF SendExisting, SendConfigRefused, SendDropped, SendSpawn, SendReceive,
       SendEnd, SendReload, Skip, manager, handlers
  <2>2. QED
    BY <2>1, TurnInLine
<1>3. CASE SendStart(s)
  <2>. DEFINE t == send[s].id
  <2>1. UNCHANGED <<store, sub, cancel>> /\ t \in Tasks
    BY <1>3 DEF SendStart, Shape, Holds, SendHolds
  <2>2. CASE UNCHANGED <<waiting, registry>>
    BY <2>1, <2>2, TurnInLine
  <2>3. CASE /\ waiting' = [waiting EXCEPT ![t] = {}]
             /\ registry' = [registry EXCEPT ![t] = s]
    <3>1. /\ waiting'[t] = {}
          /\ \A w \in Tasks \ {t} : waiting'[w] = waiting[w] /\ registry'[w] = registry[w]
      BY <2>1, <2>3 DEF Shape, Types
    <3>2. \A w \in Tasks : waiting'[w] = {} \/ (waiting'[w] = waiting[w]
                                                /\ registry'[w] = registry[w])
      BY <3>1
    <3>3. /\ \A w \in Tasks : ReleasePending(w) => ReleasePending(w)'
          /\ \A u : GoesToWait(u)' => GoesToWait(u)
      BY <2>1 DEF ReleasePending, GoesToWait
    <3>4. ASSUME NEW w \in Tasks
          PROVE  /\ \/ waiting'[w] = {} \/ registry'[w] = None
                    \/ waiting'[w] \subseteq waiting[w] /\ registry[w] # None
                 /\ \A u \in waiting'[w] : u \in waiting[w]
      BY <3>2
    <3>5. QED
      BY <2>1, <3>3, <3>4, InLineKept
  <2>4. QED
    BY <1>3, <2>2, <2>3 DEF SendStart, manager
<1>4. QED
  BY <1>1, <1>2, <1>3 DEF SendStep

(* A turn that ends its task is registered, so nobody waits, or a cancel   *)
(* has ended the task before.                                              *)
LEMMA LiveTurn ==
  ASSUME Shape, Registered, Says, InLine, NEW s \in Sends, DriveLive(s)
  PROVE  /\ send[s].id \in Tasks
         /\ Finished(store, send[s].id) \/ waiting[send[s].id] = {}
<1>. DEFINE t == send[s].id
<1>1. t \in Tasks /\ Running(s)
  BY DEF Shape, Holds, DriveHolds, DriveLive, Running
<1>2. CASE registry[t] = s
  BY <1>1, <1>2, ModelAssumption DEF InLine
<1>3. CASE registry[t] # s
  <2>1. PICK c \in Cancels : cancel[c].id = t /\ cancel[c].final # NoTask
    BY <1>1, <1>3 DEF Registered, MovedByCancel
  <2>2. IsOver(store, t)
    BY <2>1 DEF Says, CancelSays, CancelTells
  <2>3. QED
    BY <1>1, <2>2 DEF IsOver
<1>4. QED
  BY <1>1, <1>2, <1>3

LEMMA DriveInLine ==
  ASSUME Limit = NoLimit, Shape, Registered, Says, InLine, NEW s \in Sends, DriveStep(s)
  PROVE  InLine'
<1>1. CASE DriveFinish(s)
  <2>1. UNCHANGED <<store, sub, cancel, waiting>>
    BY <1>1 DEF DriveFinish
  <2>2. \A t \in Tasks : registry'[t] = registry[t] \/ registry'[t] = None
    BY <1>1 DEF DriveFinish, Unregister, Shape, Types
  <2>3. QED
    BY <2>1, <2>2, TurnInLine
<1>2. CASE DriveSave(s) \/ DriveFail(s)
  <2>. DEFINE t == send[s].id
  <2>1. DriveLive(s) /\ drive[s] \in DriveRec
        /\ UNCHANGED <<sub, cancel, waiting, registry>>
    BY <1>2 DEF DriveSave, DriveFail, DriveUnchanged, DriveLive, Shape, Types
  <2>2. t \in Tasks /\ (Finished(store, t) \/ waiting[t] = {})
    BY <2>1, LiveTurn
  <2>3. CASE UNCHANGED store
    BY <2>1, <2>3, TurnInLine
  <2>4. CASE \E task \in Task : SaveOutcome(t, task) = "saved"
                                /\ store' = AfterUpdate(store, t, task)
    <3>1. PICK task \in Task : SaveOutcome(t, task) = "saved"
                               /\ store' = AfterUpdate(store, t, task)
      BY <2>4
    <3>2. Writes(t, task.state)
      BY <2>2, <3>1, UpdateWrites DEF Shape, Types
    <3>3. \A w \in Tasks : Finished(store', w) => Finished(store, w) \/ waiting[w] = {}
      BY <2>2, <3>2, WritesThere
    <3>4. QED
      BY <2>1, <3>3, TurnInLine
  <2>5. drive[s].cur \in Task /\ drive[s].item \in Item
    BY <1>2, <2>1 DEF DriveSave, DriveFail, Shape, Holds, DriveHolds, DriveRec
  <2>6. CASE DriveSave(s)
    <3>1. Applied(drive[s].cur, drive[s].item) \in Task
      BY <2>5, AppliedTask
    <3>2. QED
      BY <2>3, <2>4, <2>6, <3>1 DEF DriveSave
  <2>7. CASE DriveFail(s)
    <3>1. [drive[s].cur EXCEPT !.state = "Failed"] \in Task
      BY <2>5, FailedTask
    <3>2. QED
      BY <2>3, <2>4, <2>7, <3>1 DEF DriveFail
  <2>8. QED
    BY <1>2, <2>6, <2>7
<1>3. CASE ~(DriveFinish(s) \/ DriveSave(s) \/ DriveFail(s))
  <2>1. /\ DriveStep(s) /\ ~DriveFinish(s) /\ ~DriveSave(s) /\ ~DriveFail(s)
        /\ ~DriveCreate(s) /\ ~DriveFailCreate(s)
    BY <1>3, DriveCreateSays
  <2>2. DriveUnchanged /\ UNCHANGED store
    BY <2>1, Zenon DEF DriveStep, DriveSnapshot, DriveEnd, DrivePull, DrivePush,
       DriveFailPush, DriveNumber, DriveSend
  <2>3. UNCHANGED <<store, sub, cancel, waiting, registry>>
    BY <2>2 DEF DriveUnchanged
  <2>4. QED
    BY <2>3, TurnInLine
<1>4. QED
  BY <1>1, <1>2, <1>3

(* A cancel that has begun goes on to its release.                         *)
CancelGoes(d) == d.pc \notin {"idle", "begin", "raced", "done"}

LEMMA CancelInLineMoves ==
  ASSUME Shape, InLine, NEW c \in Cancels, NEW d, cancel' = [cancel EXCEPT ![c] = d],
         UNCHANGED <<sub, waiting>>,
         \A t \in Tasks : registry'[t] = registry[t] \/ registry'[t] = None,
         CancelGoes(cancel[c]) => CancelGoes(d) /\ d.id = cancel[c].id,
         \A t \in Tasks : Finished(store', t) =>
           Finished(store, t) \/ (CancelGoes(d) /\ d.id = t)
  PROVE  InLine'
<1>1. cancel'[c] = d /\ \A b \in Cancels \ {c} : cancel'[b] = cancel[b]
  BY DEF Shape, Types
<1>2. \A t \in Tasks : CancelGoes(d) /\ d.id = t => ReleasePending(t)'
  BY <1>1 DEF ReleasePending, CancelGoes
<1>3. ASSUME NEW t \in Tasks, ReleasePending(t) PROVE ReleasePending(t)'
  <2>1. PICK b \in Cancels : cancel[b].id = t /\ CancelGoes(cancel[b])
    BY <1>3 DEF ReleasePending, CancelGoes
  <2>2. cancel'[b].id = t /\ CancelGoes(cancel'[b])
    BY <1>1, <2>1
  <2>3. QED
    BY <2>2 DEF ReleasePending, CancelGoes
<1>4. \A u : GoesToWait(u)' => GoesToWait(u)
  BY DEF GoesToWait
<1>5. \A t \in Tasks : \/ registry'[t] = None
                       \/ waiting'[t] \subseteq waiting[t] /\ registry[t] # None
  OBVIOUS
<1>6. \A t \in Tasks : Finished(store', t) => Finished(store, t) \/ ReleasePending(t)'
  BY <1>2
<1>7. QED
  BY <1>3, <1>4, <1>5, <1>6, InLineKept

(* ... whatever step of the handler comes, but the release itself.         *)
LEMMA CancelStays ==
  ASSUME Shape, InLine, NEW c \in Cancels, NEW d, cancel' = [cancel EXCEPT ![c] = d],
         UNCHANGED <<store, registry>>, CancelUnchanged,
         CancelGoes(cancel[c]) => CancelGoes(d) /\ d.id = cancel[c].id
  PROVE  InLine'
<1>1. UNCHANGED <<sub, waiting>>
  BY DEF CancelUnchanged
<1>2. QED
  BY <1>1, CancelInLineMoves

LEMMA UnwindInLine ==
  ASSUME Shape, InLine, NEW c \in Cancels, NEW reply, Unwind(c, reply),
         UNCHANGED <<store, registry>>, CancelUnchanged
  PROVE  InLine'
<1>. DEFINE d == [cancel[c] EXCEPT !.pc = "release", !.active = None, !.reply = reply]
<1>1. cancel[c] \in CancelRec
  BY CancelHeld
<1>2. cancel' = [cancel EXCEPT ![c] = d]
  BY DEF Unwind, Shape, Types
<1>3. d.pc = "release" /\ d.id = cancel[c].id
  BY <1>1 DEF CancelRec
<1>. HIDE DEF d
<1>4. QED
  BY <1>2, <1>3, CancelStays DEF CancelGoes

LEMMA ConcludeInLine ==
  ASSUME Shape, InLine, NEW c \in Cancels, NEW reply, Conclude(c, reply),
         ~CancelGoes(cancel[c]), UNCHANGED <<store, registry>>, CancelUnchanged
  PROVE  InLine'
<1>. DEFINE d == [cancel[c] EXCEPT !.pc = "done", !.reply = reply]
<1>1. cancel' = [cancel EXCEPT ![c] = d]
  BY DEF Conclude, Shape, Types
<1>2. QED
  BY <1>1, CancelStays

LEMMA CancelPcInLine ==
  ASSUME Shape, InLine, NEW c \in Cancels, NEW pc,
         CancelGoes(cancel[c]) => pc \notin {"idle", "begin", "raced", "done"},
         cancel' = [cancel EXCEPT ![c].pc = pc],
         UNCHANGED <<store, registry>>, CancelUnchanged
  PROVE  InLine'
<1>. DEFINE d == [cancel[c] EXCEPT !.pc = pc]
<1>1. cancel[c] \in CancelRec
  BY CancelHeld
<1>2. cancel' = [cancel EXCEPT ![c] = d]
  BY DEF Shape, Types
<1>3. d.pc = pc /\ d.id = cancel[c].id
  BY <1>1 DEF CancelRec
<1>. HIDE DEF d
<1>4. QED
  BY <1>2, <1>3, CancelStays DEF CancelGoes

(* The step that ends the task is the one that owes it a release.          *)
LEMMA CancelBeginInLine ==
  ASSUME Limit = NoLimit, Shape, InLine, NEW c \in Cancels, CancelBegin(c)
  PROVE  InLine'
<1>. DEFINE t    == cancel[c].id
            task == CanceledTask(store, t)
            d    == [cancel[c] EXCEPT !.pc = "lookup", !.cur = task, !.final = task]
<1>1. /\ cancel[c] \in CancelRec /\ cancel[c].pc = "begin" /\ t \in Tasks /\ StoreOK(store)
      /\ CancelUnchanged /\ UNCHANGED registry /\ UNCHANGED <<sub, waiting>>
      /\ ~CancelGoes(cancel[c])
  BY CancelHeld DEF CancelBegin, CancelUnchanged, CancelGoes
<1>2. CASE /\ CanBeginCancel(store, t) /\ store' = AfterBeginCancel(store, t)
           /\ cancel' = [cancel EXCEPT ![c].pc = "lookup", ![c].cur = task, ![c].final = task]
  <2>1. Writes(t, task.state)
    BY <1>1, <1>2, BeginCancelWrites
  <2>2. cancel' = [cancel EXCEPT ![c] = d]
    BY <1>2 DEF Shape, Types
  <2>. HIDE DEF task
  <2>3. d.pc = "lookup" /\ d.id = t
    BY <1>1 DEF CancelRec
  <2>. HIDE DEF d
  <2>4. CancelGoes(d)
    BY <2>3 DEF CancelGoes
  <2>5. \A w \in Tasks : Finished(store', w) => Finished(store, w) \/ w = t
    BY <1>1, <2>1, WritesThere
  <2>6. QED
    BY <1>1, <2>2, <2>3, <2>4, <2>5, CancelInLineMoves
<1>3. CASE cancel' = [cancel EXCEPT ![c].pc = "raced"] /\ UNCHANGED store
  BY <1>1, <1>3, CancelPcInLine
<1>4. CASE Conclude(c, "notFound") /\ UNCHANGED store
  BY <1>1, <1>4, ConcludeInLine
<1>5. QED
  BY <1>2, <1>3, <1>4 DEF CancelBegin

LEMMA CancelSaveInLine ==
  ASSUME Limit = NoLimit, Shape, InLine, NEW c \in Cancels, CancelSave(c)
  PROVE  InLine'
<1>. DEFINE t    == cancel[c].id
            pc   == AfterCancelSave(c)
            task == Applied(cancel[c].cur, cancel[c].item)
            d    == [cancel[c] EXCEPT !.pc = pc, !.cur = task]
<1>1. /\ cancel[c] \in CancelRec /\ cancel[c].pc = "save" /\ t \in Tasks
      /\ cancel[c].cur \in Task /\ StoreOK(store)
      /\ CancelUnchanged /\ UNCHANGED registry /\ UNCHANGED <<sub, waiting>>
  BY CancelHeld DEF CancelSave, CancelUnchanged
<1>2. task \in Task
  BY <1>1, AppliedTask DEF CancelRec
<1>3. pc \notin {"idle", "begin", "raced", "done"}
  BY AfterCancelSavePc
<1>. HIDE DEF pc
<1>4. CASE /\ SaveOutcome(t, task) = "saved" /\ store' = AfterUpdate(store, t, task)
           /\ cancel' = [cancel EXCEPT ![c].pc = pc, ![c].cur = task]
  <2>1. Writes(t, task.state)
    BY <1>1, <1>2, <1>4, UpdateWrites
  <2>2. cancel' = [cancel EXCEPT ![c] = d]
    BY <1>4 DEF Shape, Types
  <2>. HIDE DEF task
  <2>3. d.pc = pc /\ d.id = t
    BY <1>1 DEF CancelRec
  <2>. HIDE DEF d
  <2>4. CancelGoes(d)
    BY <1>3, <2>3 DEF CancelGoes
  <2>5. \A w \in Tasks : Finished(store', w) => Finished(store, w) \/ w = t
    BY <1>1, <2>1, WritesThere
  <2>6. QED
    BY <1>1, <2>2, <2>3, <2>4, <2>5, CancelInLineMoves
<1>5. CASE cancel' = [cancel EXCEPT ![c].pc = "create"] /\ UNCHANGED store
  <2>1. "create" \notin {"idle", "begin", "raced", "done"}
    OBVIOUS
  <2>2. QED
    BY <1>1, <1>5, <2>1, CancelPcInLine
<1>6. CASE Unwind(c, "error") /\ UNCHANGED store
  BY <1>1, <1>6, UnwindInLine
<1>7. QED
  BY <1>4, <1>5, <1>6 DEF CancelSave, pc

LEMMA CancelReleaseInLine ==
  ASSUME Shape, InLine, NEW c \in Cancels, CancelRelease(c)
  PROVE  InLine'
<1>. DEFINE t == cancel[c].id
<1>1. /\ t \in Tasks /\ UNCHANGED <<store, registry, sub>>
      /\ waiting' = [waiting EXCEPT ![t] = {}]
      /\ cancel' = [cancel EXCEPT ![c].pc = "done"]
  BY CancelHeld DEF CancelRelease
<1>2. waiting'[t] = {} /\ \A w \in Tasks \ {t} : waiting'[w] = waiting[w]
  BY <1>1 DEF Shape, Types
<1>3. \A b \in Cancels \ {c} : cancel'[b] = cancel[b]
  BY <1>1 DEF Shape, Types
<1>4. ASSUME NEW w \in Tasks, ReleasePending(w), w # t PROVE ReleasePending(w)'
  <2>1. PICK b \in Cancels : cancel[b].id = w /\ CancelGoes(cancel[b])
    BY <1>4 DEF ReleasePending, CancelGoes
  <2>2. cancel'[b] = cancel[b]
    BY <1>3, <1>4, <2>1
  <2>3. QED
    BY <2>1, <2>2 DEF ReleasePending, CancelGoes
<1>5. \A u : GoesToWait(u)' => GoesToWait(u)
  BY <1>1 DEF GoesToWait
<1>6. ASSUME NEW w \in Tasks
      PROVE  /\ \/ waiting'[w] = {} \/ registry'[w] = None
                \/ waiting'[w] \subseteq waiting[w] /\ registry[w] # None
             /\ \A u \in waiting'[w] : u \in waiting[w]
  BY <1>1, <1>2
<1>7. \A w \in Tasks : ReleasePending(w) => ReleasePending(w)' \/ waiting'[w] = {}
  BY <1>2, <1>4
<1>8. QED
  BY <1>1, <1>5, <1>6, <1>7, InLineKept

LEMMA CancelInLine ==
  ASSUME Limit = NoLimit, Shape, Says, InLine, NEW c \in Cancels,
         \/ \E t \in Tasks : CancelLoad(c, t)
         \/ CancelDropped(c) \/ CancelStep(c)
  PROVE  InLine'
<1>1. CASE \E t \in Tasks : CancelLoad(c, t)
  <2>1. PICK t \in Tasks : CancelLoad(c, t)
    BY <1>1
  <2>2. /\ ~CancelGoes(cancel[c]) /\ CancelUnchanged /\ UNCHANGED <<store, registry>>
        /\ \/ \E reply \in Replies : Conclude(c, reply)
           \/ cancel' = [cancel EXCEPT ![c].pc = "begin", ![c].id = t]
    BY <2>1 DEF CancelLoad, CancelGoes, Replies
  <2>3. CASE \E reply \in Replies : Conclude(c, reply)
    BY <2>2, <2>3, ConcludeInLine
  <2>4. CASE cancel' = [cancel EXCEPT ![c].pc = "begin", ![c].id = t]
    <3>. DEFINE d == [cancel[c] EXCEPT !.pc = "begin", !.id = t]
    <3>1. cancel' = [cancel EXCEPT ![c] = d]
      BY <2>4 DEF Shape, Types
    <3>2. QED
      BY <2>2, <3>1, CancelStays
  <2>5. QED
    BY <2>2, <2>3, <2>4
<1>2. CASE CancelDropped(c)
  <2>1. /\ CancelUnchanged /\ UNCHANGED <<store, registry>>
        /\ \/ ~CancelGoes(cancel[c]) /\ Conclude(c, "dropped")
           \/ Unwind(c, "dropped")
    BY <1>2 DEF CancelDropped, CancelGoes
  <2>2. QED
    BY <2>1, ConcludeInLine, UnwindInLine
<1>3. CASE CancelRaced(c)
  <2>1. /\ \E reply \in Replies : Conclude(c, reply)
        /\ ~CancelGoes(cancel[c]) /\ CancelUnchanged /\ UNCHANGED <<store, registry>>
    BY <1>3 DEF CancelRaced, CancelGoes, Replies
  <2>2. QED
    BY <2>1, ConcludeInLine
<1>4. CASE CancelBegin(c) \/ CancelSave(c) \/ CancelRelease(c)
  BY <1>4, CancelBeginInLine, CancelSaveInLine, CancelReleaseInLine
<1>5. CASE CancelFinish(c)
  <2>. DEFINE d == [cancel[c] EXCEPT !.pc = "reload", !.active = None]
  <2>1. /\ cancel[c] \in CancelRec /\ UNCHANGED <<store, sub, waiting>>
    BY <1>5, CancelHeld DEF CancelFinish, CancelUnchanged
  <2>2. \A t \in Tasks : registry'[t] = registry[t] \/ registry'[t] = None
    BY <1>5 DEF CancelFinish, Unregister, Shape, Types
  <2>3. cancel' = [cancel EXCEPT ![c] = d]
    BY <1>5 DEF CancelFinish, Shape, Types
  <2>4. d.pc = "reload" /\ d.id = cancel[c].id
    BY <2>1 DEF CancelRec
  <2>. HIDE DEF d
  <2>5. CancelGoes(d)
    BY <2>4 DEF CancelGoes
  <2>6. QED
    BY <2>1, <2>2, <2>3, <2>4, <2>5, CancelInLineMoves
<1>6. CASE \/ CancelLookup(c) \/ \E e \in CancelItems : CancelPull(c, e)
           \/ CancelNumber(c) \/ CancelNext(c) \/ CancelReload(c)
  <2>1. cancel[c] \in CancelRec /\ CancelUnchanged /\ UNCHANGED <<store, registry>>
    BY <1>6, CancelHeld DEF CancelLookup, CancelPull, CancelNumber, CancelNext, CancelReload
  <2>2. \E d : /\ cancel' = [cancel EXCEPT ![c] = d]
               /\ CancelGoes(d) /\ d.id = cancel[c].id
    <3>1. CASE CancelLookup(c)
      <4>. DEFINE d == [cancel[c] EXCEPT !.pc = "pull", !.active = registry[cancel[c].id]]
      <4>1. cancel' = [cancel EXCEPT ![c] = d]
        BY <3>1 DEF CancelLookup, Shape, Types
      <4>2. d.pc = "pull" /\ d.id = cancel[c].id
        BY <2>1 DEF CancelRec
      <4>. HIDE DEF d
      <4>3. QED
        BY <4>1, <4>2 DEF CancelGoes
    <3>2. CASE \E e \in CancelItems : CancelPull(c, e)
      <4>1. PICK e \in CancelItems : CancelPull(c, e)
        BY <3>2
      <4>. DEFINE pc  == IF e = Error
                         THEN IF cancel[c].active # None THEN "number" ELSE "errorPush"
                         ELSE IF NeedsSave(e) THEN "save" ELSE AfterCancelSave(c)
                  cur == IF e = Error THEN NoTask ELSE cancel[c].cur
                  d   == [cancel[c] EXCEPT !.item = e, !.count = cancel[c].count + 1,
                                           !.cur = cur, !.pc = pc]
      <4>2. cancel' = [cancel EXCEPT ![c] = d]
        BY <4>1 DEF CancelPull, Shape, Types
      <4>3. pc \notin {"idle", "begin", "raced", "done"}
        BY AfterCancelSavePc
      <4>. HIDE DEF pc, cur
      <4>4. d.pc = pc /\ d.id = cancel[c].id
        BY <2>1 DEF CancelRec
      <4>. HIDE DEF d
      <4>5. QED
        BY <4>2, <4>3, <4>4 DEF CancelGoes
    <3>3. CASE CancelNumber(c)
      <4>. DEFINE n == exec[cancel[c].active].sequence + 1
                  d == [cancel[c] EXCEPT !.pc = "send", !.sequence = n]
      <4>1. cancel' = [cancel EXCEPT ![c] = d]
        BY <3>3 DEF CancelNumber, Shape, Types
      <4>. HIDE DEF n
      <4>2. d.pc = "send" /\ d.id = cancel[c].id
        BY <2>1 DEF CancelRec
      <4>. HIDE DEF d
      <4>3. QED
        BY <4>1, <4>2 DEF CancelGoes
    <3>4. CASE CancelNext(c)
      <4>. DEFINE ends == IsTerminalEvent(cancel[c].item)
                  pc   == IF ends THEN "finish" ELSE "pull"
                  d    == [cancel[c] EXCEPT !.pc = pc, !.pushed = ends]
      <4>1. cancel' = [cancel EXCEPT ![c] = d] /\ pc \in {"finish", "pull"}
        BY <3>4 DEF CancelNext, Shape, Types
      <4>. HIDE DEF pc, ends
      <4>2. d.pc = pc /\ d.id = cancel[c].id
        BY <2>1 DEF CancelRec
      <4>. HIDE DEF d
      <4>3. QED
        BY <4>1, <4>2 DEF CancelGoes
    <3>5. CASE CancelReload(c)
      <4>. DEFINE final == store.entries[cancel[c].id].task
                  pc == IF PushOn /\ ~cancel[c].pushed THEN "finalPush" ELSE "release"
                  d  == [cancel[c] EXCEPT !.final = final, !.reply = "ok", !.pc = pc]
                  e  == [cancel[c] EXCEPT !.pc = "release", !.active = None,
                                          !.reply = "notFound"]
      <4>1. \/ cancel' = [cancel EXCEPT ![c] = d]
            \/ cancel' = [cancel EXCEPT ![c] = e]
        BY <3>5 DEF CancelReload, Unwind, Shape, Types
      <4>2. pc \in {"finalPush", "release"}
        OBVIOUS
      <4>. HIDE DEF pc, final
      <4>3. d.pc = pc /\ d.id = cancel[c].id /\ e.pc = "release" /\ e.id = cancel[c].id
        BY <2>1 DEF CancelRec
      <4>. HIDE DEF d, e
      <4>4. QED
        BY <4>1, <4>2, <4>3 DEF CancelGoes
    <3>6. QED
      BY <1>6, <3>1, <3>2, <3>3, <3>4, <3>5
  <2>3. QED
    BY <2>1, <2>2, CancelStays
<1>7. CASE CancelEnd(c) \/ CancelPush(c) \/ CancelSend(c) \/ CancelErrorPush(c)
           \/ CancelFinalPush(c)
  <2>1. CancelUnchanged /\ UNCHANGED <<store, registry>>
    BY <1>7 DEF CancelEnd, CancelPush, CancelSend, CancelErrorPush, CancelFinalPush
  <2>2. \/ Unwind(c, "error")
        \/ \E pc \in {"finish", "number", "next", "errorPush", "release"} :
             cancel' = [cancel EXCEPT ![c].pc = pc]
    BY <1>7 DEF CancelEnd, CancelPush, CancelSend, CancelErrorPush, CancelFinalPush
  <2>3. CASE Unwind(c, "error")
    BY <2>1, <2>3, UnwindInLine
  <2>4. CASE \E pc \in {"finish", "number", "next", "errorPush", "release"} :
               cancel' = [cancel EXCEPT ![c].pc = pc]
    <3>1. PICK pc \in {"finish", "number", "next", "errorPush", "release"} :
            cancel' = [cancel EXCEPT ![c].pc = pc]
      BY <2>4
    <3>2. QED
      BY <2>1, <3>1, CancelPcInLine
  <2>5. QED
    BY <2>2, <2>3, <2>4
<1>8. ~CancelCreate(c)
  BY DEF CancelCreate, Says, CancelSays, CancelTells
<1>9. QED
  BY <1>1, <1>2, <1>3, <1>4, <1>5, <1>6, <1>7, <1>8 DEF CancelStep

(* A step of a subscription ends no task and leaves the cancels alone.     *)
LEMMA SubInLineMoves ==
  ASSUME InLine, SubUnchanged,
         \A t \in Tasks : waiting'[t] \subseteq waiting[t] \/ registry[t] = None,
         \A t \in Tasks : \A u \in waiting'[t] : GoesToWait(u)' =>
           (u \in waiting[t] /\ GoesToWait(u)) \/ ~Finished(store, t)
  PROVE  InLine'
<1>1. UNCHANGED <<store, registry, cancel>>
  BY DEF SubUnchanged
<1>2. \A t \in Tasks : ReleasePending(t) => ReleasePending(t)'
  BY <1>1 DEF ReleasePending
<1>3. QED
  BY <1>1, <1>2, InLineKept

LEMMA WithdrawInLine ==
  ASSUME Shape, InLine, SubUnchanged, NEW u \in Subs, Withdraw(u)
  PROVE  InLine'
<1>1. \A t \in Tasks : waiting'[t] \subseteq waiting[t]
  BY DEF Withdraw, Shape, Types
<1>2. \A v \in Subs \ {u} : sub'[v] = sub[v]
  BY DEF Withdraw, Shape, Types
<1>3. sub'[u].pc = "done"
  BY DEF Withdraw, Shape, Types, SubRec
<1>4. ASSUME NEW t \in Tasks, NEW v \in waiting'[t], GoesToWait(v)'
      PROVE  v \in waiting[t] /\ GoesToWait(v)
  <2>1. v \in waiting[t] /\ v \in Subs
    BY <1>1 DEF Shape, Types
  <2>2. v # u
    BY <1>3, <1>4 DEF GoesToWait
  <2>3. QED
    BY <1>2, <1>4, <2>1, <2>2 DEF GoesToWait
<1>5. QED
  BY <1>1, <1>4, SubInLineMoves

(* A step that leaves who waits, and takes one that waits no further than  *)
(* it is, or past the read of a task that is not over.                     *)
LEMMA SubOnInLine ==
  ASSUME Shape, InLine, SubUnchanged, UNCHANGED waiting, NEW u \in Subs,
         \A v \in Subs \ {u} : sub'[v] = sub[v],
         \A t \in Tasks : u \in waiting[t] /\ GoesToWait(u)' =>
           GoesToWait(u) \/ ~Finished(store, t)
  PROVE  InLine'
<1>1. ASSUME NEW t \in Tasks, NEW v \in waiting'[t], GoesToWait(v)'
      PROVE  (v \in waiting[t] /\ GoesToWait(v)) \/ ~Finished(store, t)
  <2>1. v \in Subs /\ v \in waiting[t]
    BY DEF Shape, Types
  <2>2. CASE v = u
    BY <1>1, <2>1, <2>2
  <2>3. CASE v # u
    BY <1>1, <2>1, <2>3 DEF GoesToWait
  <2>4. QED
    BY <2>2, <2>3
<1>2. QED
  BY <1>1, SubInLineMoves

LEMMA SubInLine ==
  ASSUME Shape, Streams, InLine, NEW u \in Subs,
         \/ \E t \in Tasks : SubRegister(u, t)
         \/ SubDropped(u) \/ SubStep(u)
  PROVE  InLine'
<1>1. CASE \E t \in Tasks : SubRegister(u, t)
  <2>1. PICK t \in Tasks : SubRegister(u, t)
    BY <1>1
  <2>2. /\ SubUnchanged /\ sub[u].pc = "idle"
        /\ \/ sub' = [sub EXCEPT ![u].pc = "attaching", ![u].id = t] /\ UNCHANGED waiting
           \/ /\ sub' = [sub EXCEPT ![u].pc = "load", ![u].id = t]
              /\ registry[t] = None
              /\ waiting' = [waiting EXCEPT ![t] = waiting[t] \union {u}]
    BY <2>1 DEF SubRegister, Shape, Types
  <2>3. /\ \A v \in Subs \ {u} : sub'[v] = sub[v]
        /\ sub'[u].pc \in {"attaching", "load"}
    BY <2>2 DEF Shape, Types, SubRec
  <2>4. ~GoesToWait(u)'
    BY <2>3 DEF GoesToWait
  <2>5. CASE UNCHANGED waiting
    BY <2>2, <2>3, <2>4, <2>5, SubOnInLine
  <2>6. CASE registry[t] = None /\ waiting' = [waiting EXCEPT ![t] = waiting[t] \union {u}]
    <3>1. /\ waiting'[t] = waiting[t] \union {u}
          /\ \A w \in Tasks \ {t} : waiting'[w] = waiting[w]
      BY <2>6 DEF Shape, Types
    <3>2. \A w \in Tasks : waiting'[w] \subseteq waiting[w] \/ registry[w] = None
      BY <2>6, <3>1
    <3>3. ASSUME NEW w \in Tasks, NEW v \in waiting'[w], GoesToWait(v)'
          PROVE  v \in waiting[w] /\ GoesToWait(v)
      <4>1. v # u
        BY <2>4, <3>3
      <4>2. v \in waiting[w]
        <5>1. v \in waiting[w] \union {u}
          BY <3>1, <3>3
        <5>2. QED
          BY <4>1, <5>1
      <4>3. v \in Subs
        BY <4>2 DEF Shape, Types
      <4>4. QED
        BY <2>3, <3>3, <4>1, <4>2, <4>3 DEF GoesToWait
    <3>4. QED
      BY <2>2, <3>2, <3>3, SubInLineMoves
  <2>7. QED
    BY <2>2, <2>5, <2>6
<1>2. CASE SubDropped(u) \/ SubEnd(u)
  BY <1>2, WithdrawInLine DEF SubDropped, SubEnd
<1>3. CASE SubAttach(u)
  <2>1. /\ SubUnchanged /\ UNCHANGED waiting /\ sub[u].pc = "attaching"
        /\ \A v \in Subs \ {u} : sub'[v] = sub[v]
    BY <1>3 DEF SubAttach, Shape, Types
  <2>2. \A t \in Tasks : u \notin waiting[t]
    BY <2>1 DEF Shape, Holds, SubHolds
  <2>3. QED
    BY <2>1, <2>2, SubOnInLine
<1>4. CASE SubLoad(u)
  <2>1. SubUnchanged
    BY <1>4 DEF SubLoad
  <2>2. CASE Withdraw(u)
    BY <2>1, <2>2, WithdrawInLine
  <2>3. CASE /\ sub' = [sub EXCEPT ![u].pc = "decide",
                                   ![u].task = store.entries[sub[u].id].task]
             /\ UNCHANGED waiting
    <3>1. /\ \A v \in Subs \ {u} : sub'[v] = sub[v]
          /\ sub'[u].pc = "decide" /\ sub'[u].task = store.entries[sub[u].id].task
      BY <2>3 DEF Shape, Types, SubRec
    <3>2. ASSUME NEW t \in Tasks, u \in waiting[t], GoesToWait(u)'
          PROVE  ~Finished(store, t)
      <4>1. sub[u].id = t
        BY <3>2 DEF Shape, Holds, SubHolds
      <4>2. ~IsTerminal(store.entries[t].task.state)
        BY <3>1, <3>2, <4>1 DEF GoesToWait
      <4>3. QED
        BY <4>2 DEF Finished, StateOf
    <3>3. QED
      BY <2>1, <2>3, <3>1, <3>2, SubOnInLine
  <2>4. QED
    BY <1>4, <2>2, <2>3 DEF SubLoad
<1>5. CASE SubDecide(u)
  <2>1. SubUnchanged /\ sub[u].pc = "decide"
    BY <1>5 DEF SubDecide
  <2>2. CASE Withdraw(u)
    BY <2>1, <2>2, WithdrawInLine
  <2>3. CASE /\ sub' = [sub EXCEPT ![u].pc = "streaming"] /\ UNCHANGED waiting
             /\ Opened(u) \/ ~IsTerminal(sub[u].task.state)
    <3>1. \A v \in Subs \ {u} : sub'[v] = sub[v]
      BY <2>3 DEF Shape, Types
    <3>2. ASSUME NEW t \in Tasks, u \in waiting[t] PROVE GoesToWait(u)
      <4>1. ~Opened(u)
        BY <3>2 DEF Streams, Waits
      <4>2. QED
        BY <2>1, <2>3, <4>1 DEF GoesToWait
    <3>3. QED
      BY <2>1, <2>3, <3>1, <3>2, SubOnInLine
  <2>4. QED
    BY <1>5, <2>2, <2>3 DEF SubDecide
<1>6. CASE SubReceive(u) \/ Skip(u)
  <2>1. UNCHANGED <<store, sub, cancel, waiting, registry>>
    BY <1>6 DEF SubReceive, Skip, SubUnchanged, manager, handlers
  <2>2. QED
    BY <2>1, TurnInLine
<1>7. QED
  BY <1>1, <1>2, <1>3, <1>4, <1>5, <1>6 DEF SubStep

LEMMA NextInLine ==
  ASSUME Limit = NoLimit, Shape, Registered, Streams, Says, InLine, [Next]_vars
  PROVE  InLine'
<1>1. CASE \E s \in Sends :
             \/ \E t \in Tasks, m \in Modes : SendExisting(s, t, m) \/ SendNew(s, t, m)
             \/ SendConfigRefused(s) \/ SendDropped(s) \/ SendStep(s)
  BY <1>1, SendInLine
<1>2. CASE \E s \in Sends : DriveStep(s)
  BY <1>2, DriveInLine
<1>3. CASE \E c \in Cancels : \/ \E t \in Tasks : CancelLoad(c, t)
                              \/ CancelDropped(c) \/ CancelStep(c)
  BY <1>3, CancelInLine
<1>4. CASE \E u \in Subs : \/ \E t \in Tasks : SubRegister(u, t)
                           \/ SubDropped(u) \/ SubStep(u)
  BY <1>4, SubInLine
<1>5. CASE UNCHANGED vars
  <2>1. UNCHANGED <<store, sub, cancel, waiting, registry>>
    BY <1>5 DEF vars, handlers, manager
  <2>2. QED
    BY <2>1, TurnInLine
<1>6. QED
  BY <1>1, <1>2, <1>3, <1>4, <1>5, Zenon DEF Next, Settled

(* Over a store that purges nothing, no subscription waits for a turn that *)
(* cannot come: once its task is over, a cancel still has to release it    *)
(* (ExecutionManager::subscribe registers before subscribe_to_task reads   *)
(* the task; ReleaseOnDrop covers every way out of cancel_task).           *)
THEOREM WaitersAreReleased ==
  ASSUME Limit = NoLimit
  PROVE  Spec => []NoStrandedWaiter
<1>. DEFINE Inv == Shape /\ Registered /\ Streams /\ InOrder /\ Says /\ InLine
<1>1. Init => Inv
  <2>1. Init => Streams /\ InOrder
    BY InitStreams
  <2>2. Init => InLine
    BY DEF Init, InLine
  <2>3. QED
    BY <2>1, <2>2, InitShape, InitRegistered, InitSays
<1>2. Inv /\ [Next]_vars => Inv'
  BY NextShape, NextRegistered, NextOrder, NextSays, NextInLine
<1>3. Inv => NoStrandedWaiter
  BY DEF InLine, NoStrandedWaiter, GoesToWait
<1>. HIDE DEF Inv
<1>4. QED
  BY <1>1, <1>2, <1>3, PTL DEF Spec

-----------------------------------------------------------------------------
(* A cancel is heard of.                                                   *)

(* An executor whose cancel ends its task as CANCELED, or fails; what else *)
(* it reports can be saved, and pushed without an error.                   *)
CancelsWell ==
  \A e \in CancelItems :
    \/ e = Error
    \/ e.kind \in {"status", "task"} /\ e.state = "Canceled"
    \/ e.kind \notin {"status", "task", "append"} /\ ~PushFails

(* What a cancel that has moved its task knows: it is CANCELED, the items  *)
(* are its executor's, and once one has ended it the webhooks were told.   *)
Knows(told, d) ==
  /\ d.pc \in {"idle", "begin", "raced"} => d.final = NoTask
  /\ d.final # NoTask => d.final.state = "Canceled"
  /\ d.pc \in {"lookup", "pull", "save", "push", "next"} => d.cur.state = "Canceled"
  /\ d.pc \in {"number", "send"} => d.item = Error \/ d.cur.state = "Canceled"
  /\ d.pc \in {"save", "push"} => d.item \in CancelItems \ {Error}
  /\ d.pc \in {"number", "send", "next"} /\ IsTerminalEvent(d.item) =>
       "Canceled" \in told[d.id]
  /\ d.pushed => d.final # NoTask /\ "Canceled" \in told[d.id]
  /\ d.pc \in {"release", "done"} /\ d.final # NoTask =>
       d.reply = "dropped" \/ "Canceled" \in told[d.id]

CancelsKnow == \A c \in Cancels : Knows(pushed, cancel[c])

WebhooksTold == \A t \in Tasks : pushed[t] \subseteq pushed'[t]

(* A webhook is never untold.                                              *)
LEMMA PushedGrows ==
  ASSUME Types, NEW t \in Tasks, NEW e, pushed' = Pushed(t, e)
  PROVE  /\ WebhooksTold
         /\ e.kind \in {"task", "status"} => e.state \in pushed'[t]
<1>1. CASE e.kind \in {"task", "status"}
  <2>1. pushed' = [pushed EXCEPT ![t] = pushed[t] \union {e.state}]
    BY <1>1 DEF Pushed, Types
  <2>2. pushed'[t] = pushed[t] \union {e.state}
    BY <2>1 DEF Types
  <2>3. \A w \in Tasks \ {t} : pushed'[w] = pushed[w]
    BY <2>1 DEF Types
  <2>4. QED
    BY <2>2, <2>3 DEF WebhooksTold
<1>2. CASE e.kind \notin {"task", "status"}
  <2>1. pushed' = pushed
    BY <1>2 DEF Pushed, Types
  <2>2. QED
    BY <1>2, <2>1 DEF WebhooksTold
<1>3. QED
  BY <1>1, <1>2

LEMMA KnowsKept ==
  ASSUME Shape, WebhooksTold, NEW c \in Cancels, Knows(pushed, cancel[c])
  PROVE  Knows(pushed', cancel[c])
<1>1. /\ cancel[c].final # NoTask => cancel[c].id \in Tasks
      /\ cancel[c].pc \in {"number", "send", "next"} => cancel[c].id \in Tasks
  BY DEF Shape, Holds, CancelHolds
<1>2. cancel[c].id \in Tasks =>
        ("Canceled" \in pushed[cancel[c].id] => "Canceled" \in pushed'[cancel[c].id])
  BY DEF WebhooksTold
<1>3. QED
  BY <1>1, <1>2 DEF Knows

LEMMA KnowMoves ==
  ASSUME Shape, CancelsKnow, WebhooksTold, NEW c \in Cancels, NEW d,
         cancel' = [cancel EXCEPT ![c] = d], Knows(pushed', d)
  PROVE  CancelsKnow'
<1>1. cancel'[c] = d /\ \A b \in Cancels \ {c} : cancel'[b] = cancel[b]
  BY DEF Shape, Types
<1>2. ASSUME NEW b \in Cancels PROVE Knows(pushed', cancel'[b])
  <2>1. CASE b = c
    BY <1>1, <2>1
  <2>2. CASE b # c
    <3>1. Knows(pushed', cancel[b])
      BY KnowsKept DEF CancelsKnow
    <3>2. QED
      BY <1>1, <2>2, <3>1
  <2>3. QED
    BY <2>1, <2>2
<1>3. QED
  BY <1>2 DEF CancelsKnow

(* What is known of a cancel that has moved its task.                      *)
LEMMA MovedIsCanceled ==
  ASSUME Shape, Says, CancelsKnow, NEW c \in Cancels,
         cancel[c].pc \notin {"idle", "begin", "raced", "done"}
  PROVE  /\ cancel[c] \in CancelRec /\ cancel[c].id \in Tasks
         /\ cancel[c].final \in Task /\ cancel[c].final # NoTask
         /\ cancel[c].final.state = "Canceled"
         /\ Stored(store, cancel[c].id) /\ StateOf(store, cancel[c].id) = "Canceled"
<1>1. /\ cancel[c] \in CancelRec /\ cancel[c].id \in Tasks
      /\ cancel[c].final \in Task /\ cancel[c].final # NoTask
  BY CancelHeld, NoTaskAssumption
<1>2. cancel[c].final.state = "Canceled"
  BY <1>1 DEF CancelsKnow, Knows
<1>3. Told(store, cancel[c].id, "Canceled")
  BY <1>1, <1>2 DEF Says, CancelSays, CancelTells, Keeps
<1>4. QED
  BY <1>1, <1>2, <1>3 DEF Told, IsTerminal, TerminalStates

LEMMA UnwindKnows ==
  ASSUME Shape, CancelsKnow, WebhooksTold, NEW c \in Cancels, NEW reply,
         Unwind(c, reply), reply = "dropped" \/ "Canceled" \in pushed'[cancel[c].id]
  PROVE  CancelsKnow'
<1>. DEFINE d == [cancel[c] EXCEPT !.pc = "release", !.active = None, !.reply = reply]
<1>1. cancel[c] \in CancelRec /\ Knows(pushed', cancel[c])
  BY CancelHeld, KnowsKept DEF CancelsKnow
<1>2. cancel' = [cancel EXCEPT ![c] = d]
  BY DEF Unwind, Shape, Types
<1>3. /\ d.pc = "release" /\ d.id = cancel[c].id /\ d.final = cancel[c].final
      /\ d.pushed = cancel[c].pushed /\ d.reply = reply
  BY <1>1 DEF CancelRec
<1>. HIDE DEF d
<1>4. Knows(pushed', d)
  BY <1>1, <1>3 DEF Knows
<1>5. QED
  BY <1>2, <1>4, KnowMoves

LEMMA ConcludeKnows ==
  ASSUME Shape, CancelsKnow, WebhooksTold, NEW c \in Cancels, NEW reply,
         Conclude(c, reply), cancel[c].pc \in {"idle", "begin", "raced"}
  PROVE  CancelsKnow'
<1>. DEFINE d == [cancel[c] EXCEPT !.pc = "done", !.reply = reply]
<1>1. cancel[c] \in CancelRec /\ Knows(pushed', cancel[c])
  BY CancelHeld, KnowsKept DEF CancelsKnow
<1>2. cancel' = [cancel EXCEPT ![c] = d]
  BY DEF Conclude, Shape, Types
<1>3. /\ d.pc = "done" /\ d.id = cancel[c].id /\ d.final = cancel[c].final
      /\ d.pushed = cancel[c].pushed
  BY <1>1 DEF CancelRec
<1>. HIDE DEF d
<1>4. Knows(pushed', d)
  BY <1>1, <1>3 DEF Knows
<1>5. QED
  BY <1>2, <1>4, KnowMoves

(* The steps that leave the task and the item alone.                       *)
LEMMA PcKnows ==
  ASSUME Shape, CancelsKnow, WebhooksTold, NEW c \in Cancels, NEW pc, NEW d,
         cancel' = [cancel EXCEPT ![c] = d],
         d.pc = pc, d.id = cancel[c].id, d.final = cancel[c].final, d.cur = cancel[c].cur,
         d.item = cancel[c].item, d.pushed = cancel[c].pushed, d.reply = cancel[c].reply,
         \/ pc \in {"errorPush", "finish", "reload", "finalPush", "create"}
         \/ pc = "pull" /\ cancel[c].cur.state = "Canceled"
         \/ /\ pc \in {"number", "send", "next"}
            /\ pc = "next" => cancel[c].cur.state = "Canceled"
            /\ cancel[c].item = Error \/ cancel[c].cur.state = "Canceled"
            /\ IsTerminalEvent(cancel[c].item) => "Canceled" \in pushed'[cancel[c].id]
         \/ pc = "raced" /\ cancel[c].pc = "begin"
         \/ /\ pc \in {"release", "done"}
            /\ cancel[c].pc = "release" \/ "Canceled" \in pushed'[cancel[c].id]
  PROVE  CancelsKnow'
<1>1. Knows(pushed', cancel[c])
  BY KnowsKept DEF CancelsKnow
<1>2. Knows(pushed', d)
  BY <1>1 DEF Knows
<1>3. QED
  BY <1>2, KnowMoves

LEMMA PcStepKnows ==
  ASSUME Shape, CancelsKnow, WebhooksTold, NEW c \in Cancels, NEW pc,
         cancel' = [cancel EXCEPT ![c].pc = pc],
         \/ pc \in {"errorPush", "finish", "reload", "finalPush", "create"}
         \/ /\ pc \in {"number", "send", "next"}
            /\ pc = "next" => cancel[c].cur.state = "Canceled"
            /\ cancel[c].item = Error \/ cancel[c].cur.state = "Canceled"
            /\ IsTerminalEvent(cancel[c].item) => "Canceled" \in pushed'[cancel[c].id]
         \/ pc = "raced" /\ cancel[c].pc = "begin"
         \/ /\ pc \in {"release", "done"}
            /\ cancel[c].pc = "release" \/ "Canceled" \in pushed'[cancel[c].id]
  PROVE  CancelsKnow'
<1>. DEFINE d == [cancel[c] EXCEPT !.pc = pc]
<1>1. cancel[c] \in CancelRec
  BY CancelHeld
<1>2. cancel' = [cancel EXCEPT ![c] = d]
  BY DEF Shape, Types
<1>3. /\ d.pc = pc /\ d.id = cancel[c].id /\ d.final = cancel[c].final
      /\ d.cur = cancel[c].cur /\ d.item = cancel[c].item /\ d.pushed = cancel[c].pushed
      /\ d.reply = cancel[c].reply
  BY <1>1 DEF CancelRec
<1>. HIDE DEF d
<1>4. QED
  BY <1>2, <1>3, PcKnows

LEMMA WebhooksKept ==
  ASSUME UNCHANGED pushed
  PROVE  WebhooksTold
  BY DEF WebhooksTold

LEMMA CancelLoadKnows ==
  ASSUME Shape, CancelsKnow, NEW c \in Cancels, NEW t \in Tasks, CancelLoad(c, t)
  PROVE  CancelsKnow'
<1>. DEFINE d == [cancel[c] EXCEPT !.pc = "begin", !.id = t]
<1>1. /\ cancel[c] \in CancelRec /\ cancel[c].pc = "idle" /\ UNCHANGED pushed
      /\ \/ \E reply \in Replies : Conclude(c, reply)
         \/ cancel' = [cancel EXCEPT ![c].pc = "begin", ![c].id = t]
  BY CancelHeld DEF CancelLoad, Replies
<1>2. CASE \E reply \in Replies : Conclude(c, reply)
  BY <1>1, <1>2, WebhooksKept, ConcludeKnows
<1>3. CASE cancel' = [cancel EXCEPT ![c].pc = "begin", ![c].id = t]
  <2>1. cancel' = [cancel EXCEPT ![c] = d]
    BY <1>3 DEF Shape, Types
  <2>2. /\ d.pc = "begin" /\ d.final = cancel[c].final /\ d.pushed = cancel[c].pushed
    BY <1>1 DEF CancelRec
  <2>. HIDE DEF d
  <2>3. Knows(pushed, cancel[c])
    BY DEF CancelsKnow
  <2>4. Knows(pushed', d)
    BY <1>1, <2>2, <2>3 DEF Knows
  <2>5. QED
    BY <1>1, <2>1, <2>4, WebhooksKept, KnowMoves
<1>4. QED
  BY <1>1, <1>2, <1>3

LEMMA CancelBeginKnows ==
  ASSUME Shape, CancelsKnow, NEW c \in Cancels, CancelBegin(c)
  PROVE  CancelsKnow'
<1>. DEFINE t    == cancel[c].id
            task == CanceledTask(store, t)
            d    == [cancel[c] EXCEPT !.pc = "lookup", !.cur = task, !.final = task]
<1>1. /\ cancel[c] \in CancelRec /\ cancel[c].pc = "begin" /\ t \in Tasks /\ StoreOK(store)
      /\ UNCHANGED pushed
  BY CancelHeld DEF CancelBegin
<1>2. CASE /\ CanBeginCancel(store, t)
           /\ cancel' = [cancel EXCEPT ![c].pc = "lookup", ![c].cur = task, ![c].final = task]
  <2>1. store.entries[t].task \in Task
    BY <1>1, <1>2, StoredTask DEF CanBeginCancel
  <2>2. task.state = "Canceled"
    BY <2>1 DEF CanceledTask, Task
  <2>3. cancel' = [cancel EXCEPT ![c] = d]
    BY <1>2 DEF Shape, Types
  <2>. HIDE DEF task
  <2>4. /\ d.pc = "lookup" /\ d.cur = task /\ d.final = task /\ d.pushed = cancel[c].pushed
    BY <1>1 DEF CancelRec
  <2>. HIDE DEF d
  <2>5. Knows(pushed, cancel[c])
    BY DEF CancelsKnow
  <2>6. Knows(pushed', d)
    BY <1>1, <2>2, <2>4, <2>5 DEF Knows
  <2>7. QED
    BY <1>1, <2>3, <2>6, WebhooksKept, KnowMoves
<1>3. CASE cancel' = [cancel EXCEPT ![c].pc = "raced"]
  BY <1>1, <1>3, WebhooksKept, PcStepKnows
<1>4. CASE Conclude(c, "notFound")
  BY <1>1, <1>4, WebhooksKept, ConcludeKnows
<1>5. QED
  BY <1>2, <1>3, <1>4 DEF CancelBegin

LEMMA CancelLookupKnows ==
  ASSUME Shape, CancelsKnow, NEW c \in Cancels, CancelLookup(c)
  PROVE  CancelsKnow'
<1>. DEFINE x == registry[cancel[c].id]
            d == [cancel[c] EXCEPT !.pc = "pull", !.active = x]
<1>1. cancel[c] \in CancelRec /\ cancel[c].pc = "lookup" /\ UNCHANGED pushed
  BY CancelHeld DEF CancelLookup
<1>2. cancel' = [cancel EXCEPT ![c] = d]
  BY DEF CancelLookup, Shape, Types
<1>. HIDE DEF x
<1>3. /\ d.pc = "pull" /\ d.id = cancel[c].id /\ d.final = cancel[c].final
      /\ d.cur = cancel[c].cur /\ d.item = cancel[c].item /\ d.pushed = cancel[c].pushed
      /\ d.reply = cancel[c].reply
  BY <1>1 DEF CancelRec
<1>. HIDE DEF d
<1>4. cancel[c].cur.state = "Canceled"
  BY <1>1 DEF CancelsKnow, Knows
<1>5. QED
  BY <1>1, <1>2, <1>3, <1>4, WebhooksKept, PcKnows

LEMMA CancelPullKnows ==
  ASSUME PushOn, Shape, CancelsKnow, NEW c \in Cancels, NEW e \in CancelItems,
         CancelPull(c, e)
  PROVE  CancelsKnow'
<1>. DEFINE pc == IF e = Error THEN IF cancel[c].active # None THEN "number" ELSE "errorPush"
                  ELSE IF NeedsSave(e) THEN "save" ELSE AfterCancelSave(c)
            cur == IF e = Error THEN NoTask ELSE cancel[c].cur
            d == [cancel[c] EXCEPT !.item = e, !.count = cancel[c].count + 1, !.cur = cur,
                                   !.pc = pc]
<1>1. cancel[c] \in CancelRec /\ cancel[c].pc = "pull" /\ UNCHANGED pushed
  BY CancelHeld DEF CancelPull
<1>2. cancel' = [cancel EXCEPT ![c] = d]
  BY DEF CancelPull, Shape, Types
<1>3. /\ e = Error => pc \in {"number", "errorPush"}
      /\ e # Error => pc \in {"save", "push"} /\ cur = cancel[c].cur
  BY DEF AfterCancelSave
<1>. HIDE DEF pc, cur
<1>4. /\ d.pc = pc /\ d.id = cancel[c].id /\ d.cur = cur /\ d.final = cancel[c].final
      /\ d.item = e /\ d.pushed = cancel[c].pushed
  BY <1>1 DEF CancelRec
<1>. HIDE DEF d
<1>5. Knows(pushed, cancel[c])
  BY DEF CancelsKnow
<1>6. ~IsTerminalEvent(Error)
  BY DEF IsTerminalEvent, Error
<1>7. Knows(pushed', d)
  <2>1. CASE e = Error
    BY <1>1, <1>3, <1>4, <1>5, <1>6, <2>1 DEF Knows
  <2>2. CASE e # Error
    BY <1>1, <1>3, <1>4, <1>5, <2>2 DEF Knows
  <2>3. QED
    BY <2>1, <2>2
<1>8. QED
  BY <1>1, <1>2, <1>7, WebhooksKept, KnowMoves

(* An item of such an executor is saved: it does not move the task.        *)
LEMMA CancelSaveKnows ==
  ASSUME PushOn, CancelsWell, Shape, Says, CancelsKnow, NEW c \in Cancels, CancelSave(c)
  PROVE  CancelsKnow'
<1>. DEFINE t    == cancel[c].id
            pc   == AfterCancelSave(c)
            task == Applied(cancel[c].cur, cancel[c].item)
            d    == [cancel[c] EXCEPT !.pc = pc, !.cur = task]
<1>1. /\ cancel[c].pc = "save" /\ UNCHANGED pushed /\ cancel[c].cur \in Task
      /\ Knows(pushed, cancel[c])
  BY CancelHeld DEF CancelSave, CancelsKnow
<1>2. cancel[c] \in CancelRec /\ Stored(store, t) /\ StateOf(store, t) = "Canceled"
  BY <1>1, MovedIsCanceled
<1>3. /\ cancel[c].item \in CancelItems \ {Error} /\ cancel[c].cur.state = "Canceled"
  BY <1>1 DEF Knows
<1>4. /\ cancel[c].item.kind # "append"
      /\ cancel[c].item.kind \in {"task", "status"} => cancel[c].item.state = "Canceled"
  BY <1>3 DEF CancelsWell
<1>5. task.state = "Canceled"
  BY <1>1, <1>3, <1>4 DEF Applied, Task
<1>6. SaveOutcome(t, task) = "saved"
  BY <1>2, <1>5 DEF SaveOutcome, CanUpdate
<1>7. cancel' = [cancel EXCEPT ![c] = d]
  BY <1>4, <1>6 DEF CancelSave, Shape, Types
<1>8. pc = "push"
  BY DEF AfterCancelSave
<1>. HIDE DEF pc, task
<1>9. /\ d.pc = pc /\ d.id = t /\ d.cur = task /\ d.final = cancel[c].final
      /\ d.item = cancel[c].item /\ d.pushed = cancel[c].pushed
  BY <1>2 DEF CancelRec
<1>. HIDE DEF d
<1>10. Knows(pushed', d)
  BY <1>1, <1>3, <1>5, <1>8, <1>9 DEF Knows
<1>11. QED
  BY <1>1, <1>7, <1>10, WebhooksKept, KnowMoves

LEMMA CancelPushKnows ==
  ASSUME CancelsWell, Shape, Says, CancelsKnow, NEW c \in Cancels, CancelPush(c)
  PROVE  CancelsKnow'
<1>. DEFINE t  == cancel[c].id
            e  == cancel[c].item
            pc == IF cancel[c].active # None THEN "number" ELSE "next"
<1>1. /\ cancel[c].pc = "push" /\ t \in Tasks /\ pushed' = Pushed(t, e)
      /\ Knows(pushed, cancel[c])
  BY CancelHeld DEF CancelPush, CancelsKnow
<1>2. WebhooksTold /\ (e.kind \in {"task", "status"} => e.state \in pushed'[t])
  BY <1>1, PushedGrows DEF Shape
<1>3. e \in CancelItems \ {Error} /\ cancel[c].cur.state = "Canceled"
  BY <1>1 DEF Knows
<1>4. e.kind \in {"task", "status"} => "Canceled" \in pushed'[t]
  BY <1>2, <1>3 DEF CancelsWell
<1>5. CASE cancel' = [cancel EXCEPT ![c].pc = pc]
  <2>1. pc \in {"number", "next"}
    OBVIOUS
  <2>2. IsTerminalEvent(e) => "Canceled" \in pushed'[t]
    BY <1>4 DEF IsTerminalEvent
  <2>. HIDE DEF pc
  <2>3. QED
    BY <1>2, <1>3, <1>5, <2>1, <2>2, PcStepKnows
<1>6. CASE PushFails /\ Unwind(c, "error")
  <2>1. "Canceled" \in pushed'[t]
    BY <1>3, <1>4, <1>6 DEF CancelsWell
  <2>2. QED
    BY <1>2, <1>6, <2>1, UnwindKnows
<1>7. QED
  BY <1>5, <1>6 DEF CancelPush

LEMMA CancelPublishKnows ==
  ASSUME Shape, CancelsKnow, NEW c \in Cancels, CancelNumber(c) \/ CancelSend(c)
  PROVE  CancelsKnow'
<1>1. /\ cancel[c].pc \in {"number", "send"} /\ cancel[c] \in CancelRec /\ UNCHANGED pushed
      /\ Knows(pushed, cancel[c])
  BY CancelHeld DEF CancelNumber, CancelSend, CancelsKnow
<1>2. /\ cancel[c].item = Error \/ cancel[c].cur.state = "Canceled"
      /\ IsTerminalEvent(cancel[c].item) => "Canceled" \in pushed'[cancel[c].id]
  BY <1>1 DEF Knows
<1>3. CASE CancelNumber(c)
  <2>. DEFINE n == exec[cancel[c].active].sequence + 1
              d == [cancel[c] EXCEPT !.pc = "send", !.sequence = n]
  <2>1. cancel' = [cancel EXCEPT ![c] = d]
    BY <1>3 DEF CancelNumber, Shape, Types
  <2>. HIDE DEF n
  <2>2. /\ d.pc = "send" /\ d.id = cancel[c].id /\ d.final = cancel[c].final
        /\ d.cur = cancel[c].cur /\ d.item = cancel[c].item /\ d.pushed = cancel[c].pushed
        /\ d.reply = cancel[c].reply
    BY <1>1 DEF CancelRec
  <2>. HIDE DEF d
  <2>3. QED
    BY <1>1, <1>2, <2>1, <2>2, WebhooksKept, PcKnows
<1>4. CASE CancelSend(c)
  <2>. DEFINE pc == IF cancel[c].item = Error THEN "errorPush" ELSE "next"
  <2>1. cancel' = [cancel EXCEPT ![c].pc = pc]
    BY <1>4 DEF CancelSend
  <2>2. pc = "errorPush" \/ (pc = "next" /\ cancel[c].cur.state = "Canceled")
    BY <1>2
  <2>. HIDE DEF pc
  <2>3. QED
    BY <1>1, <1>2, <2>1, <2>2, WebhooksKept, PcStepKnows
<1>5. QED
  BY <1>3, <1>4

LEMMA CancelNextKnows ==
  ASSUME Shape, Says, CancelsKnow, NEW c \in Cancels, CancelNext(c)
  PROVE  CancelsKnow'
<1>. DEFINE ends == IsTerminalEvent(cancel[c].item)
            pc   == IF ends THEN "finish" ELSE "pull"
            d    == [cancel[c] EXCEPT !.pc = pc, !.pushed = ends]
<1>1. cancel[c].pc = "next" /\ UNCHANGED pushed /\ Knows(pushed, cancel[c])
  BY DEF CancelNext, CancelsKnow
<1>2. cancel[c] \in CancelRec /\ cancel[c].final # NoTask
  BY <1>1, MovedIsCanceled
<1>3. /\ cancel' = [cancel EXCEPT ![c] = d] /\ pc \in {"finish", "pull"}
      /\ ends => "Canceled" \in pushed'[cancel[c].id]
  BY <1>1 DEF CancelNext, Shape, Types, Knows
<1>. HIDE DEF pc, ends
<1>4. /\ d.pc = pc /\ d.id = cancel[c].id /\ d.final = cancel[c].final
      /\ d.cur = cancel[c].cur /\ d.pushed = ends
  BY <1>2 DEF CancelRec
<1>. HIDE DEF d
<1>5. Knows(pushed', d)
  BY <1>1, <1>2, <1>3, <1>4 DEF Knows
<1>6. QED
  BY <1>1, <1>3, <1>5, WebhooksKept, KnowMoves

LEMMA CancelErrorPushKnows ==
  ASSUME PushOn, Shape, Says, CancelsKnow, NEW c \in Cancels, CancelErrorPush(c)
  PROVE  CancelsKnow'
<1>. DEFINE t == cancel[c].id
            e == Status(StateOf(store, t))
<1>1. cancel[c].pc = "errorPush" /\ Unwind(c, "error")
  BY DEF CancelErrorPush
<1>2. t \in Tasks /\ Stored(store, t) /\ StateOf(store, t) = "Canceled"
  BY <1>1, MovedIsCanceled
<1>3. pushed' = Pushed(t, e)
  BY <1>2 DEF CancelErrorPush
<1>4. e.kind = "status" /\ e.state = "Canceled"
  BY <1>2 DEF Status
<1>. HIDE DEF e
<1>5. WebhooksTold /\ "Canceled" \in pushed'[t]
  BY <1>2, <1>3, <1>4, PushedGrows DEF Shape
<1>6. QED
  BY <1>1, <1>5, UnwindKnows

LEMMA CancelFinishKnows ==
  ASSUME Shape, CancelsKnow, NEW c \in Cancels, CancelFinish(c)
  PROVE  CancelsKnow'
<1>. DEFINE d == [cancel[c] EXCEPT !.pc = "reload", !.active = None]
<1>1. cancel[c] \in CancelRec /\ UNCHANGED pushed
  BY CancelHeld DEF CancelFinish
<1>2. cancel' = [cancel EXCEPT ![c] = d]
  BY DEF CancelFinish, Shape, Types
<1>3. /\ d.pc = "reload" /\ d.id = cancel[c].id /\ d.final = cancel[c].final
      /\ d.cur = cancel[c].cur /\ d.item = cancel[c].item /\ d.pushed = cancel[c].pushed
      /\ d.reply = cancel[c].reply
  BY <1>1 DEF CancelRec
<1>. HIDE DEF d
<1>4. QED
  BY <1>1, <1>2, <1>3, WebhooksKept, PcKnows

LEMMA CancelReloadKnows ==
  ASSUME PushOn, Shape, Says, CancelsKnow, NEW c \in Cancels, CancelReload(c)
  PROVE  CancelsKnow'
<1>. DEFINE t  == cancel[c].id
            final == store.entries[t].task
            pc == IF PushOn /\ ~cancel[c].pushed THEN "finalPush" ELSE "release"
            d  == [cancel[c] EXCEPT !.final = final, !.reply = "ok", !.pc = pc]
<1>1. cancel[c].pc = "reload" /\ UNCHANGED pushed /\ Knows(pushed, cancel[c])
  BY DEF CancelReload, CancelsKnow
<1>2. /\ cancel[c] \in CancelRec /\ cancel[c].final # NoTask /\ t \in Tasks
      /\ Stored(store, t) /\ StateOf(store, t) = "Canceled"
  BY <1>1, MovedIsCanceled
<1>3. cancel' = [cancel EXCEPT ![c] = d]
  BY <1>2 DEF CancelReload, Shape, Types
<1>4. /\ pc \in {"finalPush", "release"} /\ (pc = "release" => cancel[c].pushed)
      /\ final.state = "Canceled"
  BY <1>2 DEF CancelRec, StateOf
<1>5. final # NoTask
  BY <1>2, StoredTask, NoTaskAssumption DEF Shape, Types
<1>. HIDE DEF pc, final
<1>6. /\ d.pc = pc /\ d.id = t /\ d.final = final /\ d.pushed = cancel[c].pushed
      /\ d.cur = cancel[c].cur
  BY <1>2 DEF CancelRec
<1>. HIDE DEF d
<1>7. Knows(pushed', d)
  BY <1>1, <1>4, <1>5, <1>6 DEF Knows
<1>8. QED
  BY <1>1, <1>3, <1>7, WebhooksKept, KnowMoves

LEMMA CancelFinalPushKnows ==
  ASSUME Shape, Says, CancelsKnow, NEW c \in Cancels, CancelFinalPush(c)
  PROVE  CancelsKnow'
<1>. DEFINE t == cancel[c].id
            e == Status(cancel[c].final.state)
<1>1. cancel[c].pc = "finalPush" /\ pushed' = Pushed(t, e)
  BY DEF CancelFinalPush
<1>2. t \in Tasks /\ cancel[c].final.state = "Canceled"
  BY <1>1, MovedIsCanceled
<1>3. e.kind = "status" /\ e.state = "Canceled"
  BY <1>2 DEF Status
<1>. HIDE DEF e
<1>4. WebhooksTold /\ "Canceled" \in pushed'[t]
  BY <1>1, <1>2, <1>3, PushedGrows DEF Shape
<1>5. CASE cancel' = [cancel EXCEPT ![c].pc = "release"]
  BY <1>4, <1>5, PcStepKnows
<1>6. CASE Unwind(c, "error")
  BY <1>4, <1>6, UnwindKnows
<1>7. QED
  BY <1>5, <1>6 DEF CancelFinalPush

LEMMA CancelStepKnows ==
  ASSUME PushOn, CancelsWell, Shape, Says, CancelsKnow, NEW c \in Cancels,
         \/ \E t \in Tasks : CancelLoad(c, t)
         \/ CancelDropped(c) \/ CancelStep(c)
  PROVE  CancelsKnow'
<1>1. CASE \E t \in Tasks : CancelLoad(c, t)
  BY <1>1, CancelLoadKnows
<1>2. CASE CancelDropped(c)
  <2>1. /\ \/ Conclude(c, "dropped") /\ cancel[c].pc \in {"idle", "begin", "raced"}
           \/ Unwind(c, "dropped")
        /\ UNCHANGED pushed
    BY <1>2 DEF CancelDropped
  <2>2. QED
    BY <2>1, WebhooksKept, ConcludeKnows, UnwindKnows
<1>3. CASE CancelRaced(c)
  <2>1. /\ \E reply \in Replies : Conclude(c, reply)
        /\ cancel[c].pc = "raced" /\ UNCHANGED pushed
    BY <1>3 DEF CancelRaced, Replies
  <2>2. QED
    BY <2>1, WebhooksKept, ConcludeKnows
<1>4. CASE CancelBegin(c) \/ CancelLookup(c)
  BY <1>4, CancelBeginKnows, CancelLookupKnows
<1>5. CASE CancelEnd(c)
  <2>1. cancel' = [cancel EXCEPT ![c].pc = "finish"] /\ UNCHANGED pushed
    BY <1>5 DEF CancelEnd
  <2>2. QED
    BY <2>1, WebhooksKept, PcStepKnows
<1>6. CASE \E e \in CancelItems : CancelPull(c, e)
  BY <1>6, CancelPullKnows
<1>7. CASE CancelSave(c) \/ CancelPush(c)
  BY <1>7, CancelSaveKnows, CancelPushKnows
<1>8. CASE CancelNumber(c) \/ CancelSend(c) \/ CancelNext(c)
  BY <1>8, CancelPublishKnows, CancelNextKnows
<1>9. CASE CancelErrorPush(c) \/ CancelFinish(c) \/ CancelReload(c) \/ CancelFinalPush(c)
  BY <1>9, CancelErrorPushKnows, CancelFinishKnows, CancelReloadKnows, CancelFinalPushKnows
<1>10. CASE CancelRelease(c)
  <2>1. /\ cancel' = [cancel EXCEPT ![c].pc = "done"] /\ cancel[c].pc = "release"
        /\ UNCHANGED pushed
    BY <1>10 DEF CancelRelease
  <2>2. QED
    BY <2>1, WebhooksKept, PcStepKnows
<1>11. ~CancelCreate(c)
  BY DEF CancelCreate, Says, CancelSays, CancelTells
<1>12. QED
  BY <1>1, <1>2, <1>3, <1>4, <1>5, <1>6, <1>7, <1>8, <1>9, <1>10, <1>11 DEF CancelStep

LEMMA NextKnows ==
  ASSUME PushOn, CancelsWell, Shape, Says, CancelsKnow, [Next]_vars
  PROVE  CancelsKnow'
<1>1. ASSUME UNCHANGED cancel, WebhooksTold PROVE CancelsKnow'
  BY <1>1, KnowsKept DEF CancelsKnow
<1>2. CASE \E s \in Sends :
             \/ \E t \in Tasks, m \in Modes : SendExisting(s, t, m) \/ SendNew(s, t, m)
             \/ SendConfigRefused(s) \/ SendDropped(s) \/ SendStep(s)
  <2>1. UNCHANGED <<cancel, pushed>>
    BY <1>2, Zenon DEF SendExisting, SendNew, SendConfigRefused, SendDropped, SendStep,
       SendStart, SendSpawn, SendReceive, SendEnd, SendReload, Skip, handlers
  <2>2. QED
    BY <1>1, <2>1, WebhooksKept
<1>3. CASE \E s \in Sends : DriveStep(s)
  <2>1. PICK s \in Sends : DriveStep(s)
    BY <1>3
  <2>2. CASE DrivePush(s) \/ DriveFailPush(s)
    <3>1. send[s].id \in Tasks /\ UNCHANGED cancel
      BY <2>2 DEF DrivePush, DriveFailPush, DriveUnchanged, Shape, Holds, DriveHolds
    <3>2. UNCHANGED pushed \/ \E e : pushed' = Pushed(send[s].id, e)
      BY <2>2 DEF DrivePush, DriveFailPush
    <3>3. WebhooksTold
      BY <3>1, <3>2, WebhooksKept, PushedGrows DEF Shape
    <3>4. QED
      BY <1>1, <3>1, <3>3
  <2>3. CASE ~DrivePush(s) /\ ~DriveFailPush(s)
    <3>1. UNCHANGED <<cancel, pushed>>
      BY <2>1, <2>3, Zenon DEF DriveStep, DriveSnapshot, DriveEnd, DrivePull, DriveSave,
         DriveCreate, DriveFail, DriveFailCreate, DriveNumber, DriveSend, DriveFinish,
         DriveUnchanged
    <3>2. QED
      BY <1>1, <3>1, WebhooksKept
  <2>4. QED
    BY <2>2, <2>3
<1>4. CASE \E c \in Cancels : \/ \E t \in Tasks : CancelLoad(c, t)
                              \/ CancelDropped(c) \/ CancelStep(c)
  BY <1>4, CancelStepKnows
<1>5. CASE \E u \in Subs : \/ \E t \in Tasks : SubRegister(u, t)
                           \/ SubDropped(u) \/ SubStep(u)
  <2>1. UNCHANGED <<cancel, pushed>>
    BY <1>5, Zenon DEF SubRegister, SubDropped, SubStep, SubAttach, SubLoad, SubDecide,
       SubReceive, Skip, SubEnd, SubUnchanged, handlers
  <2>2. QED
    BY <1>1, <2>1, WebhooksKept
<1>6. CASE UNCHANGED vars
  <2>1. UNCHANGED <<cancel, pushed>>
    BY <1>6 DEF vars, handlers
  <2>2. QED
    BY <1>1, <2>1, WebhooksKept
<1>7. QED
  BY <1>2, <1>3, <1>4, <1>5, <1>6, Zenon DEF Next, Settled

(* With webhooks on, an executor that cancels well and a store that purges *)
(* nothing, every cancel that moved its task, returned and was not         *)
(* abandoned has sent CANCELED to the webhooks (cancel_task pushes it with *)
(* the executor's last event, before the executor's error, or by itself).  *)
THEOREM CancelsAreHeard ==
  ASSUME Limit = NoLimit, PushOn, CancelsWell
  PROVE  Spec => []CanceledIsPushed
<1>. DEFINE Inv == Shape /\ Registered /\ Says /\ CancelsKnow
<1>1. Init => Inv
  <2>1. Init => CancelsKnow
    BY DEF Init, CancelsKnow, Knows
  <2>2. QED
    BY <2>1, InitShape, InitRegistered, InitSays
<1>2. Inv /\ [Next]_vars => Inv'
  BY NextShape, NextRegistered, NextSays, NextKnows
<1>3. Inv => CanceledIsPushed
  BY DEF CancelsKnow, Knows, CanceledIsPushed
<1>. HIDE DEF Inv
<1>4. QED
  BY <1>1, <1>2, <1>3, PTL DEF Spec

=============================================================================
