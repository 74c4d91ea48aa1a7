------------------------ MODULE ActiveExecution_proofs ------------------------
(***************************************************************************)
(* For every set of publishers, subscribers and events and every capacity: *)
(* a subscription opens with the task as of the last event published; and  *)
(* with one publisher it misses nothing from there on.                     *)
(***************************************************************************)
EXTENDS ActiveExecution, SequenceTheorems, TLAPS

Sent == [event : Events, sequence : Nat]

(* What a subscription may yield: the snapshot, an event, or a lag.        *)
Yield == [event : Events \union {Snapshot(s) : s \in TaskState} \union {LagError},
          sequence : Nat]

Receiver == [pos : Nat, snapshot : ExecTask \union {NoTask}, min : Nat, done : BOOLEAN]

Shape ==
  /\ exec \in [snapshot : ExecTask, sequence : Nat, sent : Seq(Sent)]
  /\ publisher \in [Publishers -> [pc : {"idle", "numbered", "gone"},
                                   event : Events \union {Error}, sequence : Nat]]
  /\ \A p \in Publishers : publisher[p].pc = "numbered" => publisher[p].event \in Events
  /\ stream \in [Subscribers -> Receiver]
  /\ \A u \in Subscribers : stream[u].pos <= Len(exec.sent)
  /\ phase \in [Subscribers -> {"idle", "attaching", "open", "ended"}]
  /\ seen \in [Subscribers -> Seq(Yield)]
  /\ log \in Seq(Events)

(* The snapshot is the task as of the last event, errors aside.            *)
CurrentAt(snapshot, n) ==
  \A m \in snapshot.upto + 1 .. n : log[m].kind = "error"

Current ==
  /\ Len(log) = exec.sequence
  /\ \A j \in 1 .. Len(exec.sent) : exec.sent[j].sequence <= exec.sequence
  /\ \A p \in Publishers : publisher[p].pc = "numbered" =>
                             publisher[p].sequence <= exec.sequence
  /\ CurrentAt(exec.snapshot, exec.sequence)
  /\ \A u \in Subscribers :
       /\ stream[u].min <= exec.sequence
       /\ stream[u].snapshot # NoTask => CurrentAt(stream[u].snapshot, stream[u].min)

SInv == Shape /\ Current

-----------------------------------------------------------------------------
(* A subscription opens with the task as of the last event.                *)

LEMMA InitSInv == ExecInit => SInv
<1>. SUFFICES ASSUME ExecInit PROVE SInv
  OBVIOUS
<1>1. [state |-> "Submitted", upto |-> 0] \in ExecTask
  BY DEF ExecTask, TaskState, LiveStates
<1>2. /\ exec = [snapshot |-> [state |-> "Submitted", upto |-> 0], sequence |-> 0,
                 sent |-> <<>>]
      /\ publisher = [p \in Publishers |-> Idle]
      /\ stream = [u \in Subscribers |-> NoStream]
      /\ phase = [u \in Subscribers |-> "idle"]
      /\ seen = [u \in Subscribers |-> <<>>] /\ log = <<>>
  BY DEF ExecInit, NewExecution
<1>3. Idle \in [pc : {"idle", "numbered", "gone"}, event : Events \union {Error},
                sequence : Nat] /\ Idle.pc = "idle"
  BY DEF Idle
<1>4. NoStream \in Receiver /\ NoStream.pos = 0 /\ NoStream.min = 0
      /\ NoStream.snapshot = NoTask
  BY DEF NoStream, Subscription, Receiver
<1>5. Shape
  BY <1>1, <1>2, <1>3, <1>4, EmptySeq DEF Shape
<1>6. Current
  BY <1>2, <1>3, <1>4 DEF Current, CurrentAt
<1>7. QED
  BY <1>5, <1>6 DEF SInv

(* A publish keeps the snapshot a task, and moves its upto to the event    *)
(* numbered unless that is an error.                                       *)
LEMMA AdvanceShape ==
  ASSUME Shape, NEW e \in Events
  PROVE  LET n == exec.sequence + 1
             x == Advance(exec, TaskAfter(e, n))
         IN  /\ x \in [snapshot : ExecTask, sequence : Nat, sent : Seq(Sent)]
             /\ x.sequence = n /\ x.sent = exec.sent
             /\ e.kind = "error" => x.snapshot = exec.snapshot
             /\ e.kind # "error" => x.snapshot.upto = n
<1>. DEFINE n == exec.sequence + 1
            t == TaskAfter(e, n)
            x == Advance(exec, t)
<1>1. /\ exec \in [snapshot : ExecTask, sequence : Nat, sent : Seq(Sent)] /\ n \in Nat
  BY DEF Shape
<1>2. /\ e.kind = "error" => t = NoTask
      /\ e.kind # "error" => t \in ExecTask /\ t.upto = n
  <2>1. CASE e.kind = "error"
    BY <2>1 DEF TaskAfter
  <2>2. CASE e.kind \in {"status", "task"}
    <3>1. t = [state |-> e.state, upto |-> n]
      BY <2>2 DEF TaskAfter
    <3>2. QED
      BY <1>1, <2>2, <3>1, EventsAssumption DEF ExecTask
  <2>3. CASE e.kind \notin {"error", "status", "task"}
    <3>1. t = [exec.snapshot EXCEPT !.upto = n]
      BY <2>3 DEF TaskAfter
    <3>2. QED
      BY <1>1, <2>3, <3>1 DEF ExecTask
  <2>4. QED
    BY <2>1, <2>2, <2>3
<1>. HIDE DEF t, n
<1>3. x = [exec EXCEPT !.sequence = exec.sequence + 1,
                       !.snapshot = IF t = NoTask THEN exec.snapshot ELSE t]
  BY DEF Advance
<1>4. exec.sequence + 1 = n
  BY DEF n
<1>5. (IF t = NoTask THEN exec.snapshot ELSE t) \in ExecTask
  BY <1>1, <1>2
<1>6. e.kind # "error" => t # NoTask
  BY <1>2, NoTaskAssumption
<1>7. QED
  BY <1>1, <1>2, <1>3, <1>4, <1>5, <1>6 DEF n, t

LEMMA PublishNumberKeeps ==
  ASSUME SInv, NEW p \in Publishers, NEW e \in Events, PublishNumber(p, e)
  PROVE  SInv'
<1>. DEFINE n == exec.sequence + 1
<1>1. /\ exec' = Advance(exec, TaskAfter(e, n)) /\ log' = Append(log, e)
      /\ publisher' = [publisher EXCEPT ![p] = [pc |-> "numbered", event |-> e, sequence |-> n]]
      /\ UNCHANGED <<stream, phase, seen>>
  BY DEF PublishNumber
<1>2. /\ exec' \in [snapshot : ExecTask, sequence : Nat, sent : Seq(Sent)]
      /\ exec'.sequence = n /\ exec'.sent = exec.sent
      /\ e.kind = "error" => exec'.snapshot = exec.snapshot
      /\ e.kind # "error" => exec'.snapshot.upto = n
  BY <1>1, AdvanceShape DEF SInv
<1>3. /\ exec.sequence \in Nat /\ log \in Seq(Events) /\ Len(log) = exec.sequence
      /\ n \in Nat /\ exec.sequence <= n /\ n = exec.sequence + 1
  BY DEF SInv, Shape, Current
<1>. HIDE DEF n
<1>4. /\ log' \in Seq(Events) /\ Len(log') = n /\ log'[n] = e
      /\ \A m \in 1 .. exec.sequence : log'[m] = log[m]
  BY <1>1, <1>3, AppendProperties
<1>5. Shape'
  <2>1. [pc |-> "numbered", event |-> e, sequence |-> n] \in
           [pc : {"idle", "numbered", "gone"}, event : Events \union {Error}, sequence : Nat]
    BY <1>3
  <2>2. /\ publisher' \in [Publishers -> [pc : {"idle", "numbered", "gone"},
                                          event : Events \union {Error}, sequence : Nat]]
        /\ \A q \in Publishers : publisher'[q].pc = "numbered" => publisher'[q].event \in Events
    BY <1>1, <2>1 DEF SInv, Shape
  <2>3. QED
    BY <1>1, <1>2, <1>4, <2>2 DEF SInv, Shape
<1>6. Current'
  <2>1. Len(log') = exec'.sequence
    BY <1>2, <1>4
  <2>2. \A j \in 1 .. Len(exec'.sent) : exec'.sent[j].sequence <= exec'.sequence
    <3>1. \A j \in 1 .. Len(exec.sent) : exec.sent[j].sequence \in Nat
                                         /\ exec.sent[j].sequence <= exec.sequence
      <4>1. exec.sent \in Seq(Sent)
        BY DEF SInv, Shape
      <4>2. \A j \in 1 .. Len(exec.sent) : exec.sent[j] \in Sent
        BY <4>1, ElementOfSeq
      <4>3. QED
        BY <4>2 DEF SInv, Current, Sent
    <3>2. QED
      BY <1>2, <1>3, <3>1
  <2>3. \A q \in Publishers : publisher'[q].pc = "numbered" =>
                                publisher'[q].sequence <= exec'.sequence
    BY <1>1, <1>2, <1>3 DEF SInv, Shape, Current
  <2>4. CurrentAt(exec.snapshot, exec.sequence)' 
    <3>1. CASE e.kind = "error"
      <4>1. CurrentAt(exec.snapshot, exec.sequence) /\ exec.snapshot.upto \in Nat
        BY DEF SInv, Shape, Current, ExecTask
      <4>2. QED
        BY <1>2, <1>3, <1>4, <3>1, <4>1 DEF CurrentAt
    <3>2. CASE e.kind # "error"
      BY <1>2, <1>3, <3>2 DEF CurrentAt
    <3>3. QED
      BY <3>1, <3>2
  <2>5. ASSUME NEW u \in Subscribers
        PROVE  /\ stream'[u].min <= exec'.sequence
               /\ stream'[u].snapshot # NoTask =>
                    CurrentAt(stream[u].snapshot, stream[u].min)'
    <3>1. /\ stream[u].min \in Nat /\ stream[u].min <= exec.sequence
          /\ stream[u].snapshot \in ExecTask \union {NoTask}
          /\ stream[u].snapshot # NoTask => CurrentAt(stream[u].snapshot, stream[u].min)
      BY DEF SInv, Shape, Current, Receiver
    <3>2. stream'[u].min <= exec'.sequence
      BY <1>1, <1>2, <1>3, <3>1
    <3>3. ASSUME stream[u].snapshot # NoTask
          PROVE  CurrentAt(stream[u].snapshot, stream[u].min)'
      <4>1. stream[u].snapshot.upto \in Nat
        BY <3>1, <3>3 DEF ExecTask
      <4>2. QED
        BY <1>1, <1>3, <1>4, <3>1, <3>3, <4>1 DEF CurrentAt
    <3>4. QED
      BY <1>1, <3>2, <3>3
  <2>6. QED
    BY <2>1, <2>2, <2>3, <2>4, <2>5 DEF Current
<1>7. QED
  BY <1>5, <1>6 DEF SInv

(* What an appended event leaves of the events before it.                  *)
LEMMA BroadcastShape ==
  ASSUME Shape, NEW e \in Events, NEW n \in Nat, NEW L
  PROVE  LET x == Broadcast(exec, e, n, L)
         IN  /\ x \in [snapshot : ExecTask, sequence : Nat, sent : Seq(Sent)]
             /\ x.snapshot = exec.snapshot /\ x.sequence = exec.sequence
             /\ L = {} => x = exec
             /\ L # {} => /\ Len(x.sent) = Len(exec.sent) + 1
                          /\ x.sent[Len(exec.sent) + 1].sequence = n
             /\ \A j \in 1 .. Len(exec.sent) : x.sent[j] = exec.sent[j]
             /\ Len(exec.sent) \in Nat /\ Len(exec.sent) <= Len(x.sent)
<1>. DEFINE s == Append(exec.sent, [event |-> e, sequence |-> n])
            x == Broadcast(exec, e, n, L)
<1>1. /\ exec \in [snapshot : ExecTask, sequence : Nat, sent : Seq(Sent)]
      /\ exec.sent \in Seq(Sent) /\ Len(exec.sent) \in Nat
  BY LenProperties DEF Shape
<1>2. [event |-> e, sequence |-> n] \in Sent
  BY DEF Sent
<1>3. /\ s \in Seq(Sent) /\ Len(s) = Len(exec.sent) + 1
      /\ \A j \in 1 .. Len(exec.sent) : s[j] = exec.sent[j]
      /\ s[Len(exec.sent) + 1].sequence = n
  BY <1>1, <1>2, AppendProperties
<1>4. x = IF L = {} THEN exec ELSE [exec EXCEPT !.sent = s]
  BY DEF Broadcast
<1>. HIDE DEF s, x
<1>5. CASE L = {}
  BY <1>1, <1>4, <1>5 DEF x
<1>6. CASE L # {}
  <2>1. /\ x \in [snapshot : ExecTask, sequence : Nat, sent : Seq(Sent)]
        /\ x.snapshot = exec.snapshot /\ x.sequence = exec.sequence /\ x.sent = s
    BY <1>1, <1>3, <1>4, <1>6
  <2>2. QED
    BY <1>1, <1>3, <1>6, <2>1 DEF x
<1>7. QED
  BY <1>5, <1>6

LEMMA PublishSendKeeps ==
  ASSUME SInv, NEW p \in Publishers, PublishSend(p)
  PROVE  SInv'
<1>. DEFINE e == publisher[p].event
            n == publisher[p].sequence
            pc == IF EndsStream(e) THEN "gone" ELSE "idle"
<1>1. /\ publisher[p].pc = "numbered" /\ exec' = Broadcast(exec, e, n, Listeners)
      /\ publisher' = [publisher EXCEPT ![p].pc = pc]
      /\ UNCHANGED <<stream, phase, seen, log>>
  BY DEF PublishSend
<1>2. e \in Events /\ n \in Nat /\ n <= exec.sequence /\ pc \in {"gone", "idle"}
  BY <1>1 DEF SInv, Shape, Current
<1>. HIDE DEF e, n, pc
<1>3. /\ exec' \in [snapshot : ExecTask, sequence : Nat, sent : Seq(Sent)]
      /\ exec'.snapshot = exec.snapshot /\ exec'.sequence = exec.sequence
      /\ \/ exec' = exec
         \/ /\ Len(exec'.sent) = Len(exec.sent) + 1
            /\ exec'.sent[Len(exec.sent) + 1].sequence = n
      /\ \A j \in 1 .. Len(exec.sent) : exec'.sent[j] = exec.sent[j]
      /\ Len(exec.sent) \in Nat /\ Len(exec.sent) <= Len(exec'.sent)
  BY <1>1, <1>2, BroadcastShape DEF SInv
<1>4. /\ publisher' \in [Publishers -> [pc : {"idle", "numbered", "gone"},
                                        event : Events \union {Error}, sequence : Nat]]
      /\ \A q \in Publishers : /\ publisher'[q].pc = "numbered" =>
                                    publisher[q].pc = "numbered"
                               /\ publisher'[q].event = publisher[q].event
                               /\ publisher'[q].sequence = publisher[q].sequence
  BY <1>1, <1>2 DEF SInv, Shape
<1>5. Shape'
  <2>1. \A u \in Subscribers : stream[u].pos <= Len(exec'.sent)
    BY <1>3 DEF SInv, Shape, Receiver
  <2>2. QED
    BY <1>1, <1>3, <1>4, <2>1 DEF SInv, Shape
<1>6. Current'
  <2>1. \A j \in 1 .. Len(exec'.sent) : exec'.sent[j].sequence <= exec.sequence
    BY <1>2, <1>3 DEF SInv, Current
  <2>2. QED
    BY <1>1, <1>3, <1>4, <2>1 DEF SInv, Current, CurrentAt
<1>7. QED
  BY <1>5, <1>6 DEF SInv

LEMMA ReleaseKeeps ==
  ASSUME SInv, NEW p \in Publishers, Release(p)
  PROVE  SInv'
<1>1. /\ publisher' = [publisher EXCEPT ![p].pc = "gone"]
      /\ UNCHANGED <<exec, stream, phase, seen, log>>
  BY DEF Release
<1>2. /\ publisher' \in [Publishers -> [pc : {"idle", "numbered", "gone"},
                                        event : Events \union {Error}, sequence : Nat]]
      /\ \A q \in Publishers : /\ publisher'[q].pc = "numbered" =>
                                    publisher[q].pc = "numbered"
                               /\ publisher'[q].event = publisher[q].event
                               /\ publisher'[q].sequence = publisher[q].sequence
  BY <1>1 DEF SInv, Shape
<1>3. QED
  BY <1>1, <1>2 DEF SInv, Shape, Current, CurrentAt

(* What a step of u does: its receiver, its phase and what it has yielded. *)
Moves(u, r, ph, sn) ==
  /\ stream' = [stream EXCEPT ![u] = r]
  /\ phase'  = [phase EXCEPT ![u] = ph]
  /\ seen'   = [seen EXCEPT ![u] = sn]
  /\ UNCHANGED <<exec, publisher, log>>

Phases == {"idle", "attaching", "open", "ended"}

(* A subscription that moves within what was sent, keeping or giving up    *)
(* the snapshot it opened with.                                            *)
LEMMA StreamKeeps ==
  ASSUME SInv, NEW u \in Subscribers, NEW r \in Receiver, NEW ph \in Phases,
         NEW sn \in Seq(Yield), Moves(u, r, ph, sn),
         r.pos <= Len(exec.sent), r.min <= exec.sequence,
         r.snapshot # NoTask => CurrentAt(r.snapshot, r.min)
  PROVE  SInv'
<1>0. /\ stream' = [stream EXCEPT ![u] = r] /\ phase' = [phase EXCEPT ![u] = ph]
      /\ seen' = [seen EXCEPT ![u] = sn] /\ UNCHANGED <<exec, publisher, log>>
  BY DEF Moves
<1>1. Shape'
  BY <1>0 DEF SInv, Shape, Phases
<1>2. Current'
  <2>1. ASSUME NEW v \in Subscribers
        PROVE  /\ stream'[v].min <= exec.sequence
               /\ stream'[v].snapshot # NoTask => CurrentAt(stream'[v].snapshot, stream'[v].min)
    <3>1. CASE v = u
      BY <1>0, <3>1 DEF SInv, Shape
    <3>2. CASE v # u
      BY <1>0, <3>2 DEF SInv, Shape, Current
    <3>3. QED
      BY <3>1, <3>2
  <2>2. QED
    BY <1>0, <2>1 DEF SInv, Current, CurrentAt
<1>3. QED
  BY <1>1, <1>2 DEF SInv

(* The three things a poll yields: the snapshot, a lag, or the next event. *)
LEMMA DeliverShape ==
  ASSUME SInv, NEW u \in Subscribers, CanDeliver(exec, stream[u])
  PROVE  LET st == stream[u]
             r == AfterDelivery(exec, st)
             y == Delivery(exec, st)
         IN  /\ r \in Receiver /\ y \in Yield /\ r.snapshot = NoTask
             /\ r.pos <= Len(exec.sent) /\ r.min <= exec.sequence
             /\ \/ /\ st.snapshot # NoTask
                   /\ r.pos = st.pos /\ r.min = st.min /\ y.sequence = st.min
                \/ /\ st.snapshot = NoTask /\ r.done /\ y.event = LagError
                \/ /\ st.snapshot = NoTask /\ st.pos < Len(exec.sent)
                   /\ exec.sent[st.pos + 1].sequence > st.min
                   /\ r.pos = st.pos + 1 /\ r.min = exec.sent[st.pos + 1].sequence
                   /\ y = exec.sent[st.pos + 1]
<1>. DEFINE st == stream[u]
            h == exec.sent[st.pos + 1]
            r == AfterDelivery(exec, st)
            y == Delivery(exec, st)
<1>1. /\ st \in Receiver /\ st.pos \in Nat /\ st.min \in Nat /\ st.done \in BOOLEAN
      /\ st.snapshot \in ExecTask \union {NoTask} /\ st.pos <= Len(exec.sent)
      /\ st.min <= exec.sequence /\ exec.sent \in Seq(Sent) /\ Len(exec.sent) \in Nat
  BY LenProperties DEF SInv, Shape, Current, Receiver
<1>2. CanDeliver(exec, st)
  OBVIOUS
<1>. HIDE DEF st
<1>3. CASE st.snapshot # NoTask
  <2>1. st.snapshot \in ExecTask /\ st.snapshot.state \in TaskState
    BY <1>1, <1>3 DEF ExecTask
  <2>2. /\ r = [st EXCEPT !.snapshot = NoTask, !.done = IsTerminal(st.snapshot.state)]
        /\ y = [event |-> Snapshot(st.snapshot.state), sequence |-> st.min]
    BY <1>3 DEF AfterDelivery, Delivery
  <2>3. IsTerminal(st.snapshot.state) \in BOOLEAN
    BY DEF IsTerminal
  <2>4. /\ r \in Receiver /\ r.snapshot = NoTask /\ r.pos = st.pos /\ r.min = st.min
    BY <1>1, <2>2, <2>3 DEF Receiver
  <2>5. y \in Yield /\ y.sequence = st.min
    BY <1>1, <2>1, <2>2 DEF Yield
  <2>6. QED
    BY <1>1, <1>3, <2>4, <2>5 DEF st
<1>4. CASE st.snapshot = NoTask /\ Lagged(exec, st)
  <2>1. /\ r = [st EXCEPT !.done = TRUE]
        /\ y = [event |-> LagError, sequence |-> st.min]
    BY <1>4 DEF AfterDelivery, Delivery
  <2>2. /\ r \in Receiver /\ r.snapshot = NoTask /\ r.pos = st.pos /\ r.min = st.min /\ r.done
    BY <1>1, <1>4, <2>1 DEF Receiver
  <2>3. y \in Yield /\ y.event = LagError
    BY <1>1, <2>1 DEF Yield
  <2>4. QED
    BY <1>1, <1>4, <2>2, <2>3 DEF st
<1>5. CASE st.snapshot = NoTask /\ ~Lagged(exec, st)
  <2>1. st.pos < Len(exec.sent) /\ h.sequence > st.min
    BY <1>2, <1>5 DEF CanDeliver, HasNext, Head1
  <2>2. st.pos + 1 \in 1 .. Len(exec.sent) /\ st.pos + 1 \in Nat
    BY <1>1, <2>1
  <2>3. h \in Sent /\ h.sequence <= exec.sequence /\ h.sequence \in Nat
    <3>1. h \in Sent
      BY <1>1, <2>2, ElementOfSeq
    <3>2. QED
      BY <2>2, <3>1 DEF SInv, Current, Sent
  <2>4. /\ r = [st EXCEPT !.pos = st.pos + 1, !.min = h.sequence, !.done = EndsStream(h.event)]
        /\ y = h
    BY <1>5 DEF AfterDelivery, Delivery, Head1
  <2>5. EndsStream(h.event) \in BOOLEAN
    BY DEF EndsStream
  <2>6. /\ r \in Receiver /\ r.snapshot = NoTask /\ r.pos = st.pos + 1
        /\ r.min = h.sequence
    BY <1>1, <1>5, <2>2, <2>3, <2>4, <2>5 DEF Receiver
  <2>7. y \in Yield
    BY <2>3, <2>4 DEF Sent, Yield
  <2>8. QED
    BY <1>1, <1>5, <2>1, <2>2, <2>3, <2>4, <2>6, <2>7 DEF st
<1>6. QED
  BY <1>3, <1>4, <1>5

(* Each step of a subscriber is such a move.                               *)
LEMMA SubscriberKeeps ==
  ASSUME SInv, NEW u \in Subscribers,
         \/ SubscribeReceiver(u) \/ SubscribeSnapshot(u)
         \/ Deliver(u) \/ Skip(u) \/ End(u)
  PROVE  SInv'
<1>1. /\ stream[u] \in Receiver /\ phase[u] \in Phases /\ seen[u] \in Seq(Yield)
      /\ stream[u].pos <= Len(exec.sent) /\ stream[u].min <= exec.sequence
      /\ stream[u].snapshot # NoTask => CurrentAt(stream[u].snapshot, stream[u].min)
      /\ exec.sequence \in Nat /\ Len(exec.sent) \in Nat /\ exec.sent \in Seq(Sent)
      /\ exec.snapshot \in ExecTask /\ CurrentAt(exec.snapshot, exec.sequence)
  BY LenProperties DEF SInv, Shape, Current, Phases
<1>2. /\ phase = [phase EXCEPT ![u] = phase[u]]
      /\ seen = [seen EXCEPT ![u] = seen[u]]
      /\ stream = [stream EXCEPT ![u] = stream[u]]
  BY DEF SInv, Shape
<1>3. CASE SubscribeReceiver(u)
  <2>. DEFINE r == Subscription(Len(exec.sent), NoTask, 0)
  <2>1. Moves(u, r, "attaching", seen[u])
    BY <1>2, <1>3 DEF SubscribeReceiver, Moves
  <2>2. r \in Receiver /\ r.pos = Len(exec.sent) /\ r.min = 0 /\ r.snapshot = NoTask
    BY <1>1 DEF Subscription, Receiver
  <2>. HIDE DEF r
  <2>3. r.pos <= Len(exec.sent) /\ r.min <= exec.sequence /\ "attaching" \in Phases
    BY <1>1, <2>2 DEF Phases
  <2>4. QED
    BY <1>1, <2>1, <2>2, <2>3, StreamKeeps
<1>4. CASE SubscribeSnapshot(u)
  <2>. DEFINE r == [stream[u] EXCEPT !.snapshot = exec.snapshot, !.min = exec.sequence]
  <2>1. Moves(u, r, "open", seen[u])
    BY <1>2, <1>4 DEF SubscribeSnapshot, Moves, SInv, Shape
  <2>2. /\ r \in Receiver /\ r.pos = stream[u].pos /\ r.min = exec.sequence
        /\ r.snapshot = exec.snapshot
    BY <1>1 DEF Receiver
  <2>. HIDE DEF r
  <2>3. /\ r.pos <= Len(exec.sent) /\ r.min <= exec.sequence
        /\ CurrentAt(r.snapshot, r.min) /\ "open" \in Phases
    BY <1>1, <2>2 DEF Phases
  <2>4. QED
    BY <1>1, <2>1, <2>2, <2>3, StreamKeeps
<1>5. CASE Deliver(u)
  <2>. DEFINE r == AfterDelivery(exec, stream[u])
              y == Delivery(exec, stream[u])
  <2>1. Moves(u, r, phase[u], Append(seen[u], y)) /\ CanDeliver(exec, stream[u])
    BY <1>2, <1>5 DEF Deliver, Moves, SInv, Shape
  <2>2. /\ r \in Receiver /\ y \in Yield /\ r.snapshot = NoTask
        /\ r.pos <= Len(exec.sent) /\ r.min <= exec.sequence
    BY <2>1, DeliverShape
  <2>. HIDE DEF r, y
  <2>3. Append(seen[u], y) \in Seq(Yield)
    BY <1>1, <2>2, AppendProperties
  <2>4. QED
    BY <1>1, <2>1, <2>2, <2>3, StreamKeeps
<1>6. CASE Skip(u)
  <2>. DEFINE r == AfterSkip(stream[u])
  <2>1. Moves(u, r, phase[u], seen[u]) /\ CanSkip(exec, stream[u])
    BY <1>2, <1>6 DEF Skip, Moves, SInv, Shape
  <2>2. /\ r \in Receiver /\ r.pos = stream[u].pos + 1 /\ r.min = stream[u].min
        /\ r.snapshot = stream[u].snapshot
    <3>1. stream[u].pos + 1 \in Nat
      BY <1>1 DEF Receiver
    <3>2. QED
      BY <1>1, <3>1 DEF Receiver, AfterSkip
  <2>. HIDE DEF r
  <2>3. r.pos <= Len(exec.sent) /\ r.min <= exec.sequence
    BY <1>1, <2>1, <2>2 DEF CanSkip, HasNext, Receiver
  <2>4. QED
    BY <1>1, <2>1, <2>2, <2>3, StreamKeeps
<1>7. CASE End(u)
  <2>1. Moves(u, stream[u], "ended", seen[u]) /\ "ended" \in Phases
    BY <1>2, <1>7 DEF End, Moves, Phases
  <2>2. QED
    BY <1>1, <2>1, StreamKeeps
<1>8. QED
  BY <1>3, <1>4, <1>5, <1>6, <1>7

LEMMA NextSInv == SInv /\ [ExecNext]_execVars => SInv'
<1>. SUFFICES ASSUME SInv, [ExecNext]_execVars PROVE SInv'
  OBVIOUS
<1>1. ASSUME NEW p \in Publishers, NEW e \in Events, PublishNumber(p, e) PROVE SInv'
  BY <1>1, PublishNumberKeeps
<1>2. ASSUME NEW p \in Publishers, PublishSend(p) PROVE SInv'
  BY <1>2, PublishSendKeeps
<1>3. ASSUME NEW p \in Publishers, Release(p) PROVE SInv'
  BY <1>3, ReleaseKeeps
<1>4. ASSUME NEW u \in Subscribers,
             \/ SubscribeReceiver(u) \/ SubscribeSnapshot(u)
             \/ Deliver(u) \/ Skip(u) \/ End(u)
      PROVE  SInv'
  BY <1>4, SubscriberKeeps
<1>5. CASE UNCHANGED execVars
  BY <1>5 DEF execVars, SInv, Shape, Current, CurrentAt
<1>6. QED
  BY <1>1, <1>2, <1>3, <1>4, <1>5 DEF ExecNext

(* The execution, its publishers and its subscriptions keep their types: a *)
(* receiver never stands past the end of the channel.                      *)
THEOREM ExecutionTypeCorrect == ExecSpec => []ExecTypeOK
<1>1. SInv => ExecTypeOK
  <2>. SUFFICES ASSUME SInv PROVE ExecTypeOK
    OBVIOUS
  <2>1. ASSUME NEW u \in Subscribers PROVE stream[u].pos \in 0 .. Len(exec.sent)
    BY LenProperties DEF SInv, Shape, Receiver
  <2>2. QED
    BY <2>1 DEF SInv, Shape, ExecTypeOK, Receiver, Sent
<1>2. QED
  BY InitSInv, NextSInv, <1>1, PTL DEF ExecSpec

(* resubscribe opens a stream with the task as of the last event, however  *)
(* the publishers' steps fall between its receiver and its snapshot.       *)
THEOREM SnapshotsAreCurrent == ExecSpec => []SnapshotIsCurrent
<1>1. SInv => SnapshotIsCurrent
  BY DEF SInv, Current, CurrentAt, SnapshotIsCurrent
<1>2. QED
  BY InitSInv, NextSInv, <1>1, PTL DEF ExecSpec

-----------------------------------------------------------------------------
(* One publisher p.  Every number up to LastSent(p) was handed to the      *)
(* channel, or nobody was there to hear it.                                *)

LastSent(p) == IF publisher[p].pc = "numbered" THEN exec.sequence - 1 ELSE exec.sequence

(* How many events the subscription has not read yet.                      *)
Unread(u) == Len(exec.sent) - stream[u].pos

Joined(u) == phase[u] \in {"attaching", "open"}

Last(s) == s[Len(s)]

(* The numbers the publisher has given out.                                *)
Numbers(p) ==
  publisher[p].pc = "numbered" =>
    publisher[p].sequence = exec.sequence /\ exec.sequence > 0

(* The events a subscription has yet to read are the last ones published,  *)
(* without a gap; and while it runs it has yielded everything up to min.   *)
Gapless(p, u) ==
  Joined(u) => \A j \in stream[u].pos + 1 .. Len(exec.sent) :
                 exec.sent[j].sequence + (Len(exec.sent) - j) = LastSent(p)

Follows(p, u) ==
  /\ phase[u] \in {"idle", "attaching"} => seen[u] = <<>>
  /\ phase[u] = "open" =>
       /\ stream[u].snapshot # NoTask <=> seen[u] = <<>>
       /\ ~stream[u].done =>
            /\ stream[u].min >= LastSent(p) - Unread(u)
            /\ seen[u] # <<>> => Last(seen[u]).sequence = stream[u].min
  /\ phase[u] = "ended" /\ ~stream[u].done =>
       publisher[p].pc = "gone" /\ stream[u].min = exec.sequence

Consecutive(u) ==
  \A k \in 2 .. Len(seen[u]) :
    \/ seen[u][k].sequence = seen[u][k-1].sequence + 1
    \/ seen[u][k].event = LagError

Tracks(p, u) == Gapless(p, u) /\ Follows(p, u) /\ Consecutive(u)

PInv(p) == SInv /\ Numbers(p) /\ \A u \in Subscribers : Tracks(p, u)

LEMMA InitPInv == ASSUME NEW p \in Publishers, ExecInit PROVE PInv(p)
<1>1. SInv
  BY InitSInv
<1>2. /\ exec.sent = <<>> /\ publisher[p].pc = "idle"
      /\ \A u \in Subscribers : phase[u] = "idle" /\ seen[u] = <<>>
  BY DEF ExecInit, NewExecution, Idle
<1>3. Numbers(p)
  BY <1>2 DEF Numbers
<1>4. ASSUME NEW u \in Subscribers PROVE Tracks(p, u)
  BY <1>2 DEF Tracks, Gapless, Follows, Consecutive, Joined
<1>5. QED
  BY <1>1, <1>3, <1>4 DEF PInv

(* Numbering an event changes neither what was sent nor what is unread.    *)
LEMMA NumberTracks ==
  ASSUME NEW p \in Publishers, PInv(p), NEW e \in Events, PublishNumber(p, e)
  PROVE  PInv(p)'
<1>1. SInv'
  BY PublishNumberKeeps DEF PInv
<1>2. /\ publisher[p].pc = "idle" /\ publisher'[p].pc = "numbered"
      /\ publisher'[p].sequence = exec.sequence + 1
      /\ UNCHANGED <<stream, phase, seen>>
  BY DEF PublishNumber, PInv, SInv, Shape
<1>3. exec'.sequence = exec.sequence + 1 /\ exec'.sent = exec.sent /\ exec.sequence \in Nat
  BY AdvanceShape DEF PublishNumber, PInv, SInv, Shape
<1>4. Numbers(p)'
  BY <1>2, <1>3 DEF Numbers
<1>5. LastSent(p)' = LastSent(p)
  BY <1>2, <1>3 DEF LastSent
<1>6. ASSUME NEW u \in Subscribers PROVE Tracks(p, u)'
  <2>1. Gapless(p, u) /\ Follows(p, u) /\ Consecutive(u)
    BY DEF PInv, Tracks
  <2>2. Gapless(p, u)'
    BY <1>2, <1>3, <1>5, <2>1 DEF Gapless, Joined
  <2>3. Follows(p, u)'
    BY <1>2, <1>3, <1>5, <2>1 DEF Follows, Unread, Last
  <2>4. Consecutive(u)'
    BY <1>2, <2>1 DEF Consecutive
  <2>5. QED
    BY <2>2, <2>3, <2>4 DEF Tracks
<1>7. QED
  BY <1>1, <1>4, <1>6 DEF PInv

(* A count that grows by one with what is counted.                         *)
LEMMA OneMore ==
  ASSUME NEW a \in Int, NEW l \in Int, NEW j \in Int, NEW s \in Int, a + (l - j) = s - 1
  PROVE  a + (l + 1 - j) = s
  OBVIOUS

(* Sending it adds it to what every listener has to read; with no listener *)
(* there is nobody to miss it.                                             *)
LEMMA SendTracks ==
  ASSUME NEW p \in Publishers, PInv(p), PublishSend(p)
  PROVE  PInv(p)'
<1>. DEFINE e == publisher[p].event
            n == publisher[p].sequence
<1>1. SInv'
  BY PublishSendKeeps DEF PInv
<1>2. /\ publisher[p].pc = "numbered" /\ publisher'[p].pc \in {"gone", "idle"}
      /\ UNCHANGED <<stream, phase, seen>> /\ exec.sequence \in Nat
      /\ e \in Events /\ n \in Nat /\ n = exec.sequence
      /\ exec' = Broadcast(exec, e, n, Listeners)
  BY DEF PublishSend, PInv, SInv, Shape, Numbers
<1>3. /\ exec'.sequence = exec.sequence /\ Len(exec.sent) \in Nat
      /\ Listeners # {} => /\ Len(exec'.sent) = Len(exec.sent) + 1
                           /\ exec'.sent[Len(exec.sent) + 1].sequence = n
      /\ \A j \in 1 .. Len(exec.sent) : exec'.sent[j] = exec.sent[j]
  BY <1>2, BroadcastShape DEF PInv, SInv
<1>4. Numbers(p)'
  BY <1>2 DEF Numbers
<1>5. LastSent(p) = exec.sequence - 1 /\ LastSent(p)' = exec.sequence
  BY <1>2, <1>3 DEF LastSent
<1>6. \A j \in 1 .. Len(exec.sent) : exec.sent[j].sequence \in Nat
  <2>1. exec.sent \in Seq(Sent)
    BY DEF PInv, SInv, Shape
  <2>2. \A j \in 1 .. Len(exec.sent) : exec.sent[j] \in Sent
    BY <2>1, ElementOfSeq
  <2>3. QED
    BY <2>2 DEF Sent
<1>7. ASSUME NEW u \in Subscribers PROVE Tracks(p, u)'
  <2>1. /\ Gapless(p, u) /\ Follows(p, u) /\ Consecutive(u)
        /\ stream[u].pos \in Nat /\ stream[u].pos <= Len(exec.sent) /\ stream[u].min \in Nat
    BY DEF PInv, Tracks, SInv, Shape, Receiver
  <2>2. Joined(u) => Len(exec'.sent) = Len(exec.sent) + 1
                     /\ exec'.sent[Len(exec.sent) + 1].sequence = exec.sequence
    BY <1>2, <1>3 DEF Joined, Listeners
  <2>3. Gapless(p, u)'
    <3>1. ASSUME Joined(u), NEW j \in stream[u].pos + 1 .. Len(exec.sent) + 1
          PROVE  exec'.sent[j].sequence + (Len(exec'.sent) - j) = LastSent(p)'
      <4>0. Len(exec'.sent) = Len(exec.sent) + 1 /\ Len(exec.sent) \in Nat
        BY <1>3, <2>2, <3>1
      <4>1. CASE j = Len(exec.sent) + 1
        <5>1. exec'.sent[j].sequence = exec.sequence /\ exec.sequence \in Nat
          BY <1>2, <2>2, <3>1, <4>1
        <5>2. Len(exec'.sent) - j = 0
          BY <4>0, <4>1
        <5>3. QED
          BY <1>5, <5>1, <5>2
      <4>2. CASE j # Len(exec.sent) + 1
        <5>1. /\ j \in 1 .. Len(exec.sent) /\ j \in stream[u].pos + 1 .. Len(exec.sent)
              /\ j \in Int
          BY <1>3, <2>1, <4>2
        <5>2. exec.sent[j].sequence + (Len(exec.sent) - j) = exec.sequence - 1
          BY <1>5, <2>1, <3>1, <5>1 DEF Gapless
        <5>3. exec.sent[j].sequence \in Nat /\ exec'.sent[j] = exec.sent[j]
          BY <1>3, <1>6, <5>1
        <5>4. exec.sequence \in Nat
          BY <1>2
        <5>5. exec.sent[j].sequence + (Len(exec.sent) + 1 - j) = exec.sequence
          <6>1. /\ exec.sent[j].sequence \in Int /\ Len(exec.sent) \in Int
                /\ j \in Int /\ exec.sequence \in Int
            BY <4>0, <5>1, <5>3, <5>4
          <6>2. QED
            BY <5>2, <6>1, OneMore
        <5>6. QED
          BY <1>5, <4>0, <5>3, <5>5
      <4>3. QED
        BY <4>1, <4>2
    <3>2. QED
      BY <1>2, <2>2, <3>1 DEF Gapless, Joined
  <2>4. Follows(p, u)'
    <3>1. phase[u] = "open" => LastSent(p)' - Unread(u)' = LastSent(p) - Unread(u)
      <4>1. ASSUME phase[u] = "open" PROVE LastSent(p)' - Unread(u)' = LastSent(p) - Unread(u)
        <5>1. /\ Len(exec'.sent) = Len(exec.sent) + 1 /\ Len(exec.sent) \in Nat
              /\ stream'[u].pos = stream[u].pos /\ stream[u].pos \in Nat
          BY <1>2, <1>3, <2>1, <2>2, <4>1 DEF Joined
        <5>2. Unread(u)' = Unread(u) + 1 /\ Unread(u) \in Int
          BY <5>1 DEF Unread
        <5>3. exec.sequence \in Nat
          BY <1>2
        <5>4. QED
          BY <1>5, <5>2, <5>3
      <4>2. QED
        BY <4>1
    <3>2. ~(phase[u] = "ended" /\ ~stream[u].done)
      BY <1>2, <2>1 DEF Follows
    <3>3. QED
      BY <1>2, <2>1, <3>1, <3>2 DEF Follows, Last
  <2>5. Consecutive(u)'
    BY <1>2, <2>1 DEF Consecutive
  <2>6. QED
    BY <2>3, <2>4, <2>5 DEF Tracks
<1>8. QED
  BY <1>1, <1>4, <1>7 DEF PInv

LEMMA ReleaseTracks ==
  ASSUME NEW p \in Publishers, PInv(p), Release(p)
  PROVE  PInv(p)'
<1>1. SInv'
  BY ReleaseKeeps DEF PInv
<1>2. /\ publisher[p].pc = "idle" /\ publisher'[p].pc = "gone"
      /\ UNCHANGED <<exec, stream, phase, seen>>
  BY DEF Release, PInv, SInv, Shape
<1>3. Numbers(p)' /\ LastSent(p)' = LastSent(p)
  BY <1>2 DEF Numbers, LastSent
<1>4. ASSUME NEW u \in Subscribers PROVE Tracks(p, u)'
  <2>1. Gapless(p, u) /\ Follows(p, u) /\ Consecutive(u)
    BY DEF PInv, Tracks
  <2>2. QED
    BY <1>2, <1>3, <2>1 DEF Tracks, Gapless, Follows, Consecutive, Joined, Unread, Last
<1>5. QED
  BY <1>1, <1>3, <1>4 DEF PInv

-----------------------------------------------------------------------------
(* The steps of the subscriptions.                                         *)

(* A step of u is none of another subscription, nor of the publisher.      *)
LEMMA OthersTrack ==
  ASSUME NEW p \in Publishers, PInv(p), NEW u \in Subscribers, NEW r, NEW ph, NEW sn,
         Moves(u, r, ph, sn), SInv', Tracks(p, u)'
  PROVE  PInv(p)'
<1>1. /\ stream' = [stream EXCEPT ![u] = r] /\ phase' = [phase EXCEPT ![u] = ph]
      /\ seen' = [seen EXCEPT ![u] = sn] /\ UNCHANGED <<exec, publisher, log>>
  BY DEF Moves
<1>2. Numbers(p)'
  BY <1>1 DEF PInv, Numbers
<1>3. ASSUME NEW v \in Subscribers, v # u PROVE Tracks(p, v)'
  <2>1. stream'[v] = stream[v] /\ phase'[v] = phase[v] /\ seen'[v] = seen[v]
    BY <1>1, <1>3 DEF PInv, SInv, Shape
  <2>2. Gapless(p, v) /\ Follows(p, v) /\ Consecutive(v)
    BY DEF PInv, Tracks
  <2>3. QED
    BY <1>1, <2>1, <2>2 DEF Tracks, Gapless, Follows, Consecutive, Joined, Unread, Last, LastSent
<1>4. QED
  BY <1>2, <1>3 DEF PInv

(* What a step of u leaves of its own.                                     *)
LEMMA MoveOfU ==
  ASSUME NEW p, SInv, NEW u \in Subscribers, NEW r, NEW ph, NEW sn, Moves(u, r, ph, sn)
  PROVE  /\ stream'[u] = r /\ phase'[u] = ph /\ seen'[u] = sn
         /\ LastSent(p)' = LastSent(p) /\ UNCHANGED <<exec, publisher>>
  BY DEF Moves, SInv, Shape, LastSent

LEMMA JoinTracks ==
  ASSUME NEW p \in Publishers, PInv(p), NEW u \in Subscribers, SubscribeReceiver(u)
  PROVE  PInv(p)'
<1>. DEFINE r == Subscription(Len(exec.sent), NoTask, 0)
<1>1. SInv /\ SInv'
  BY SubscriberKeeps DEF PInv
<1>2. Moves(u, r, "attaching", seen[u]) /\ phase[u] = "idle"
  BY <1>1 DEF SubscribeReceiver, Moves, SInv, Shape
<1>3. r.pos = Len(exec.sent) /\ Len(exec.sent) \in Nat
  BY <1>1, LenProperties DEF Subscription, SInv, Shape
<1>. HIDE DEF r
<1>4. /\ stream'[u] = r /\ phase'[u] = "attaching" /\ seen'[u] = seen[u]
      /\ UNCHANGED exec
  BY <1>1, <1>2, MoveOfU
<1>5. Tracks(p, u)'
  <2>1. Follows(p, u) /\ Consecutive(u)
    BY DEF PInv, Tracks
  <2>2. Gapless(p, u)'
    BY <1>3, <1>4 DEF Gapless
  <2>3. Follows(p, u)' /\ Consecutive(u)'
    BY <1>2, <1>4, <2>1 DEF Follows, Consecutive
  <2>4. QED
    BY <2>2, <2>3 DEF Tracks
<1>6. QED
  BY <1>1, <1>2, <1>5, OthersTrack

LEMMA OpenTracks ==
  ASSUME NEW p \in Publishers, PInv(p), NEW u \in Subscribers, SubscribeSnapshot(u)
  PROVE  PInv(p)'
<1>. DEFINE r == [stream[u] EXCEPT !.snapshot = exec.snapshot, !.min = exec.sequence]
<1>1. SInv /\ SInv'
  BY SubscriberKeeps DEF PInv
<1>2. Moves(u, r, "open", seen[u]) /\ phase[u] = "attaching"
  BY <1>1 DEF SubscribeSnapshot, Moves, SInv, Shape
<1>3. /\ r.pos = stream[u].pos /\ r.min = exec.sequence /\ r.snapshot = exec.snapshot
      /\ stream[u].pos \in Nat /\ stream[u].pos <= Len(exec.sent)
      /\ exec.sequence \in Nat /\ Len(exec.sent) \in Nat /\ exec.snapshot # NoTask
  BY <1>1, LenProperties, NoTaskAssumption DEF SInv, Shape, Receiver
<1>. HIDE DEF r
<1>4. /\ stream'[u] = r /\ phase'[u] = "open" /\ seen'[u] = seen[u]
      /\ LastSent(p)' = LastSent(p) /\ UNCHANGED exec
  BY <1>1, <1>2, MoveOfU
<1>5. Tracks(p, u)'
  <2>1. Gapless(p, u) /\ Consecutive(u) /\ seen[u] = <<>>
    BY <1>2 DEF PInv, Tracks, Follows
  <2>2. Gapless(p, u)'
    BY <1>2, <1>3, <1>4, <2>1 DEF Gapless, Joined
  <2>3. exec.sequence >= LastSent(p) - (Len(exec.sent) - stream[u].pos)
    <3>1. LastSent(p) \in Int /\ LastSent(p) <= exec.sequence
      BY <1>3 DEF LastSent
    <3>2. QED
      BY <1>3, <3>1
  <2>4. Follows(p, u)'
    BY <1>3, <1>4, <2>1, <2>3 DEF Follows, Unread
  <2>5. Consecutive(u)'
    BY <1>4, <2>1 DEF Consecutive
  <2>6. QED
    BY <2>2, <2>4, <2>5 DEF Tracks
<1>6. QED
  BY <1>1, <1>2, <1>5, OthersTrack

(* Counted back from s by what is left, a bound holds.                     *)
LEMMA AtLeast ==
  ASSUME NEW a \in Int, NEW d \in Int, NEW s, NEW m \in Int, a + d = s, a <= m
  PROVE  m >= s - d
  OBVIOUS

(* The next number above m is m + 1 when nothing up to s lies between.     *)
LEMMA NextNumber ==
  ASSUME NEW a \in Int, NEW s \in Int, NEW l \in Int, NEW i \in Int, NEW m \in Int,
         a + (l - (i + 1)) = s, m >= s - (l - i), a > m
  PROVE  a = m + 1 /\ a >= s - (l - (i + 1))
  OBVIOUS

(* Events up to min are in the snapshot: passing over one loses nothing.   *)
LEMMA SkipTracks ==
  ASSUME NEW p \in Publishers, PInv(p), NEW u \in Subscribers, Skip(u)
  PROVE  PInv(p)'
<1>. DEFINE r == AfterSkip(stream[u])
            l == Len(exec.sent)
            i == stream[u].pos
<1>1. SInv /\ SInv'
  BY SubscriberKeeps DEF PInv
<1>2. Moves(u, r, "open", seen[u]) /\ phase[u] = "open" /\ CanSkip(exec, stream[u])
  BY <1>1 DEF Skip, Moves, SInv, Shape
<1>3. /\ r.pos = i + 1 /\ r.min = stream[u].min /\ r.snapshot = NoTask
      /\ ~r.done /\ ~stream[u].done /\ stream[u].snapshot = NoTask
      /\ i \in Nat /\ l \in Nat /\ i < l /\ exec.sent[i + 1].sequence <= stream[u].min
      /\ stream[u].min \in Nat
  BY <1>1, <1>2, LenProperties
     DEF SInv, Shape, Receiver, AfterSkip, CanSkip, HasNext, Head1
<1>. HIDE DEF r
<1>4. /\ stream'[u] = r /\ phase'[u] = "open" /\ seen'[u] = seen[u]
      /\ LastSent(p)' = LastSent(p) /\ UNCHANGED exec
  BY <1>1, <1>2, MoveOfU
<1>5. Tracks(p, u)'
  <2>1. Gapless(p, u) /\ Follows(p, u) /\ Consecutive(u)
    BY DEF PInv, Tracks
  <2>2. Gapless(p, u)'
    BY <1>2, <1>3, <1>4, <2>1 DEF Gapless, Joined
  <2>3. exec.sent[i + 1].sequence + (l - (i + 1)) = LastSent(p)
    <3>1. \A j \in i + 1 .. l : exec.sent[j].sequence + (l - j) = LastSent(p)
      BY <1>2, <2>1 DEF Gapless, Joined
    <3>2. i + 1 \in i + 1 .. l
      BY <1>3
    <3>3. QED
      BY <3>1, <3>2
  <2>4. exec.sent[i + 1].sequence \in Nat
    <3>1. exec.sent \in Seq(Sent) /\ i + 1 \in 1 .. Len(exec.sent)
      BY <1>1, <1>3 DEF SInv, Shape
    <3>2. exec.sent[i + 1] \in Sent
      BY <3>1, ElementOfSeq
    <3>3. QED
      BY <3>2 DEF Sent
  <2>5. stream[u].min >= LastSent(p) - (l - (i + 1))
    <3>1. l - (i + 1) \in Int /\ exec.sent[i + 1].sequence \in Int /\ stream[u].min \in Int
      BY <1>3, <2>4
    <3>2. QED
      BY <1>3, <2>3, <3>1, AtLeast
  <2>6. Follows(p, u)'
    BY <1>2, <1>3, <1>4, <2>1, <2>5 DEF Follows, Unread, Last
  <2>7. Consecutive(u)'
    BY <1>4, <2>1 DEF Consecutive
  <2>8. QED
    BY <2>2, <2>6, <2>7 DEF Tracks
<1>6. QED
  BY <1>1, <1>2, <1>5, OthersTrack

(* A poll reads one event more, or none.                                   *)
LEMMA HasNextOrStays ==
  ASSUME SInv, NEW u \in Subscribers, CanDeliver(exec, stream[u])
  PROVE  LET st == stream[u]
             r  == AfterDelivery(exec, st)
         IN  r.pos = st.pos \/ (r.pos = st.pos + 1 /\ st.pos < Len(exec.sent))
<1>. DEFINE st == stream[u]
<1>1. st \in Receiver
  BY DEF SInv, Shape
<1>2. CanDeliver(exec, st)
  OBVIOUS
<1>. HIDE DEF st
<1>3. AfterDelivery(exec, st).pos = st.pos
      \/ (AfterDelivery(exec, st).pos = st.pos + 1 /\ st.pos < Len(exec.sent))
  BY <1>1, <1>2 DEF Receiver, AfterDelivery, CanDeliver, HasNext
<1>4. QED
  BY <1>3 DEF st

(* The snapshot comes first, at min; then each event is the one after min, *)
(* or the stream ends with a lag.                                          *)
LEMMA DeliverTracks ==
  ASSUME NEW p \in Publishers, PInv(p), NEW u \in Subscribers, Deliver(u)
  PROVE  PInv(p)'
<1>. DEFINE r == AfterDelivery(exec, stream[u])
            y == Delivery(exec, stream[u])
            l == Len(exec.sent)
            i == stream[u].pos
            sn == Append(seen[u], y)
<1>1. SInv /\ SInv'
  BY SubscriberKeeps DEF PInv
<1>2. Moves(u, r, "open", sn) /\ phase[u] = "open" /\ CanDeliver(exec, stream[u])
  BY <1>1 DEF Deliver, Moves, SInv, Shape
<1>3. /\ ~stream[u].done /\ i \in Nat /\ l \in Nat /\ i <= l /\ stream[u].min \in Nat
      /\ seen[u] \in Seq(Yield) /\ exec.sent \in Seq(Sent)
  BY <1>1, <1>2, LenProperties DEF SInv, Shape, Receiver, CanDeliver
<1>4. /\ r \in Receiver /\ y \in Yield /\ r.snapshot = NoTask
      /\ \/ /\ stream[u].snapshot # NoTask
            /\ r.pos = i /\ r.min = stream[u].min /\ y.sequence = stream[u].min
         \/ /\ stream[u].snapshot = NoTask /\ r.done /\ y.event = LagError
         \/ /\ stream[u].snapshot = NoTask /\ i < l
            /\ exec.sent[i + 1].sequence > stream[u].min
            /\ r.pos = i + 1 /\ r.min = exec.sent[i + 1].sequence
            /\ y = exec.sent[i + 1]
  BY <1>1, <1>2, DeliverShape
<1>read. r.pos = i \/ (r.pos = i + 1 /\ i < l)
  BY <1>1, <1>2, <1>3, HasNextOrStays
<1>. HIDE DEF r, y
<1>5. /\ sn \in Seq(Yield) /\ Len(sn) = Len(seen[u]) + 1 /\ Len(seen[u]) \in Nat
      /\ \A k \in 1 .. Len(seen[u]) : sn[k] = seen[u][k]
      /\ sn[Len(seen[u]) + 1] = y
  BY <1>3, <1>4, AppendProperties, LenProperties
<1>6. sn # <<>> /\ Last(sn) = y
  BY <1>5 DEF Last
<1>. HIDE DEF sn
<1>7. /\ stream'[u] = r /\ phase'[u] = "open" /\ seen'[u] = sn
      /\ LastSent(p)' = LastSent(p) /\ UNCHANGED exec
  BY <1>1, <1>2, MoveOfU
<1>8. /\ Gapless(p, u) /\ Consecutive(u)
      /\ stream[u].snapshot # NoTask <=> seen[u] = <<>>
      /\ stream[u].min >= LastSent(p) - (l - i)
      /\ seen[u] # <<>> => Last(seen[u]).sequence = stream[u].min
  BY <1>2, <1>3 DEF PInv, Tracks, Follows, Unread
<1>gap. \A j \in i + 1 .. l : exec.sent[j].sequence + (l - j) = LastSent(p)
  BY <1>2, <1>8 DEF Gapless, Joined
<1>9. Gapless(p, u)'
  <2>1. \A j \in r.pos + 1 .. l : j \in i + 1 .. l
    BY <1>3, <1>read
  <2>2. \A j \in r.pos + 1 .. l : exec.sent[j].sequence + (l - j) = LastSent(p)
    BY <1>gap, <2>1
  <2>3. QED
    BY <1>7, <2>2 DEF Gapless
<1>10. LastSent(p) \in Int
  BY <1>1 DEF LastSent, SInv, Shape
<1>11. ASSUME stream[u].snapshot = NoTask, i < l,
              exec.sent[i + 1].sequence > stream[u].min
       PROVE  /\ exec.sent[i + 1].sequence = stream[u].min + 1
              /\ exec.sent[i + 1].sequence >= LastSent(p) - (l - (i + 1))
  <2>1. exec.sent[i + 1].sequence + (l - (i + 1)) = LastSent(p)
    <3>1. i + 1 \in i + 1 .. l
      BY <1>3, <1>11
    <3>2. QED
      BY <1>gap, <3>1
  <2>2. exec.sent[i + 1].sequence \in Int
    <3>1. i + 1 \in 1 .. Len(exec.sent)
      BY <1>3, <1>11
    <3>2. exec.sent[i + 1] \in Sent
      BY <1>3, <3>1, ElementOfSeq
    <3>3. QED
      BY <3>2 DEF Sent
  <2>3. l \in Int /\ i \in Int /\ stream[u].min \in Int
    BY <1>3
  <2>. HIDE DEF l, i
  <2>4. QED
    BY <1>8, <1>10, <1>11, <2>1, <2>2, <2>3, NextNumber
<1>12. Follows(p, u)'
  <2>1. r.snapshot = NoTask /\ sn # <<>>
    BY <1>4, <1>6
  <2>2. ~r.done => /\ r.min >= LastSent(p) - (l - r.pos)
                   /\ Last(sn).sequence = r.min
    BY <1>4, <1>6, <1>8, <1>11
  <2>3. QED
    BY <1>7, <2>1, <2>2 DEF Follows, Unread
<1>13. Consecutive(u)'
  <2>1. ASSUME NEW k \in 2 .. Len(sn)
        PROVE  sn[k].sequence = sn[k - 1].sequence + 1 \/ sn[k].event = LagError
    <3>1. CASE k = Len(sn)
      <4>1. seen[u] # <<>> /\ sn[k] = y /\ sn[k - 1] = Last(seen[u])
        <5>1. k = Len(seen[u]) + 1 /\ k - 1 = Len(seen[u]) /\ Len(seen[u]) \in 1 .. Len(seen[u])
          BY <1>5, <3>1
        <5>2. seen[u] # <<>>
          BY <5>1, EmptySeq
        <5>3. QED
          BY <1>5, <5>1, <5>2 DEF Last
      <4>2. y.sequence = stream[u].min + 1 \/ y.event = LagError
        BY <1>4, <1>8, <1>11, <4>1
      <4>3. QED
        BY <1>8, <4>1, <4>2
    <3>2. CASE k # Len(sn)
      <4>1. k \in 2 .. Len(seen[u]) /\ k - 1 \in 1 .. Len(seen[u]) /\ k \in 1 .. Len(seen[u])
        BY <1>5, <3>2
      <4>2. QED
        BY <1>5, <1>8, <4>1 DEF Consecutive
    <3>3. QED
      BY <3>1, <3>2
  <2>2. QED
    BY <1>7, <2>1 DEF Consecutive
<1>14. Tracks(p, u)'
  BY <1>9, <1>12, <1>13 DEF Tracks
<1>15. QED
  BY <1>1, <1>2, <1>14, OthersTrack

(* Once the publisher is gone and the channel is drained, min is the last  *)
(* number given out.                                                       *)
LEMMA EndTracks ==
  ASSUME NEW p \in Publishers, PInv(p), NEW u \in Subscribers, End(u)
  PROVE  PInv(p)'
<1>1. SInv /\ SInv'
  BY SubscriberKeeps DEF PInv
<1>2. /\ Moves(u, stream[u], "ended", seen[u]) /\ phase[u] = "open"
      /\ Exhausted(exec, stream[u], Closed)
  BY <1>1 DEF End, Moves, SInv, Shape
<1>3. /\ stream'[u] = stream[u] /\ phase'[u] = "ended" /\ seen'[u] = seen[u]
      /\ UNCHANGED <<exec, publisher>>
  BY <1>1, <1>2, MoveOfU
<1>4. Follows(p, u) /\ Consecutive(u)
  BY DEF PInv, Tracks
<1>5. ASSUME ~stream[u].done
      PROVE  publisher[p].pc = "gone" /\ stream[u].min = exec.sequence
  <2>1. publisher[p].pc = "gone" /\ ~HasNext(exec, stream[u])
    BY <1>2, <1>5 DEF Exhausted, Closed
  <2>2. /\ stream[u].pos \in Nat /\ Len(exec.sent) \in Nat
        /\ stream[u].pos <= Len(exec.sent) /\ stream[u].min \in Nat
        /\ stream[u].min <= exec.sequence /\ exec.sequence \in Nat
    BY <1>1, LenProperties DEF SInv, Shape, Current, Receiver
  <2>3. Unread(u) = 0
    BY <2>1, <2>2 DEF HasNext, Unread
  <2>4. stream[u].min >= LastSent(p) - 0 /\ LastSent(p) = exec.sequence
    BY <1>2, <1>4, <1>5, <2>1, <2>3 DEF Follows, LastSent
  <2>5. QED
    BY <2>1, <2>2, <2>4
<1>6. Tracks(p, u)'
  BY <1>3, <1>4, <1>5 DEF Tracks, Gapless, Follows, Consecutive, Joined
<1>7. QED
  BY <1>1, <1>2, <1>6, OthersTrack

LEMMA NextPInv ==
  ASSUME NEW p \in Publishers, Publishers = {p}
  PROVE  PInv(p) /\ [ExecNext]_execVars => PInv(p)'
<1>. SUFFICES ASSUME PInv(p), [ExecNext]_execVars PROVE PInv(p)'
  OBVIOUS
<1>1. ASSUME NEW e \in Events, PublishNumber(p, e) PROVE PInv(p)'
  BY <1>1, NumberTracks
<1>2. CASE PublishSend(p)
  BY <1>2, SendTracks
<1>3. CASE Release(p)
  BY <1>3, ReleaseTracks
<1>4. ASSUME NEW u \in Subscribers,
             \/ SubscribeReceiver(u) \/ SubscribeSnapshot(u)
             \/ Deliver(u) \/ Skip(u) \/ End(u)
      PROVE  PInv(p)'
  BY <1>4, JoinTracks, OpenTracks, DeliverTracks, SkipTracks, EndTracks
<1>5. CASE UNCHANGED execVars
  <2>1. SInv'
    BY <1>5, NextSInv DEF PInv
  <2>2. QED
    BY <1>5, <2>1 DEF execVars, PInv, Numbers, Tracks, Gapless, Follows, Consecutive, Joined,
                      Unread, Last, LastSent
<1>6. QED
  BY <1>1, <1>2, <1>3, <1>4, <1>5 DEF ExecNext

(* With one publisher, whatever the capacity and the number of             *)
(* subscribers, a subscription yields consecutive numbers until it is told *)
(* that it lagged, and a stream that ends of itself has shown everything.  *)
(* (A cancel adds a second publisher, and then this does not hold.)        *)
THEOREM OnePublisherMissesNothing ==
  ASSUME NEW p, Publishers = {p}
  PROVE  ExecSpec => []NothingMissed
<1>1. p \in Publishers
  OBVIOUS
<1>2. ExecInit => PInv(p)
  BY <1>1, InitPInv
<1>3. PInv(p) /\ [ExecNext]_execVars => PInv(p)'
  BY <1>1, NextPInv
<1>4. PInv(p) => NothingMissed
  <2>. SUFFICES ASSUME PInv(p), NEW u \in Subscribers
                PROVE  /\ Consecutive(u)
                       /\ phase[u] = "ended" /\ ~stream[u].done =>
                            stream[u].min = exec.sequence
    BY DEF NothingMissed, Consecutive
  <2>1. QED
    BY DEF PInv, Tracks, Follows
<1>5. QED
  BY <1>2, <1>3, <1>4, PTL DEF ExecSpec

=============================================================================
