---------------------------- MODULE ExecutionOps ----------------------------
(***************************************************************************)
(* The values the execution machinery of handler.rs works on: the events   *)
(* of an executor, the broadcast state of a running execution and one      *)
(* subscription to it.  The state machines that share them decide when     *)
(* each operation happens.                                                 *)
(*                                                                         *)
(* An execution is [snapshot, sequence, sent]: the state under its RwLock  *)
(* and the events handed to the broadcast channel so far.  A receiver is a *)
(* position in sent; the channel keeps the last Capacity of them.          *)
(***************************************************************************)
EXTENDS TaskStates, Integers, Sequences

CONSTANTS
  Capacity,   \* EXECUTION_BUFFER_CAPACITY
  NoTask      \* Option::None for a task

ASSUME CapacityAssumption == Capacity \in Nat \ {0}

(* StreamResponse, or an Err of the stream; "append" is an artifact chunk  *)
(* for an artifact the task does not have.                                 *)
Status(s)   == [kind |-> "status", state |-> s]
Snapshot(s) == [kind |-> "task", state |-> s]
Artifact    == [kind |-> "artifact", state |-> "None"]
Append0     == [kind |-> "append", state |-> "None"]
Message     == [kind |-> "message", state |-> "None"]
Error       == [kind |-> "error", state |-> "None"]
LagError    == [kind |-> "lagged", state |-> "None"]

IsTerminalEvent(e) == e.kind \in {"task", "status"} /\ IsTerminal(e.state)

EndsStream(e) == e.kind = "error" \/ IsTerminalEvent(e)

-----------------------------------------------------------------------------
(* ActiveExecution.                                                        *)

NewExecution(task) == [snapshot |-> task, sequence |-> 0, sent |-> <<>>]

(* First half of publish, under the state lock: the event is numbered and  *)
(* the task it leaves becomes the snapshot, if it leaves one.              *)
(* Slips: an event without a task clears the snapshot; the snapshot stays  *)
(* the one the execution started with.                                     *)
AdvanceClears(x, task) == [x EXCEPT !.sequence = @ + 1, !.snapshot = task]

AdvanceStale(x, task) == [x EXCEPT !.sequence = @ + 1]

Advance(x, task) ==
  [x EXCEPT !.sequence = @ + 1,
            !.snapshot = IF task = NoTask THEN @ ELSE task]

(* Second half, the lock released: nothing is sent when nobody listens.    *)
Broadcast(x, event, sequence, listeners) ==
  IF listeners = {}
  THEN x
  ELSE [x EXCEPT !.sent = Append(@, [event |-> event, sequence |-> sequence])]

SnapshotIsTerminal(x) == x.snapshot # NoTask /\ IsTerminal(x.snapshot.state)

-----------------------------------------------------------------------------
(* subscription_stream: the snapshot first, then the events above min.     *)

Subscription(pos, task, min) ==
  [pos |-> pos, snapshot |-> task, min |-> min, done |-> FALSE]

Head1(x, st) == x.sent[st.pos + 1]

HasNext(x, st) == st.pos < Len(x.sent)

Lagged(x, st) == Len(x.sent) - st.pos > Capacity

(* An event numbered at or below min is one the snapshot already shows.    *)
(* Slip: min_sequence taken for the number of the next event.              *)
SkipOneMore(x, st) ==
  /\ ~st.done /\ st.snapshot = NoTask
  /\ HasNext(x, st) /\ ~Lagged(x, st)
  /\ Head1(x, st).sequence <= st.min + 1

CanSkip(x, st) ==
  /\ ~st.done /\ st.snapshot = NoTask
  /\ HasNext(x, st) /\ ~Lagged(x, st)
  /\ Head1(x, st).sequence <= st.min

AfterSkip(st) == [st EXCEPT !.pos = @ + 1]

CanDeliver(x, st) ==
  /\ ~st.done
  /\ \/ st.snapshot # NoTask
     \/ Lagged(x, st)
     \/ HasNext(x, st) /\ Head1(x, st).sequence > st.min

Delivery(x, st) ==
  IF st.snapshot # NoTask
  THEN [event |-> Snapshot(st.snapshot.state), sequence |-> st.min]
  ELSE IF Lagged(x, st) THEN [event |-> LagError, sequence |-> st.min]
                        ELSE Head1(x, st)

(* Slip: min_sequence is not moved.                                        *)
DeliveryKeepsMin(x, st) ==
  IF st.snapshot # NoTask
  THEN [st EXCEPT !.snapshot = NoTask, !.done = IsTerminal(st.snapshot.state)]
  ELSE IF Lagged(x, st)
  THEN [st EXCEPT !.done = TRUE]
  ELSE [st EXCEPT !.pos = @ + 1, !.done = EndsStream(Head1(x, st).event)]

AfterDelivery(x, st) ==
  IF st.snapshot # NoTask
  THEN [st EXCEPT !.snapshot = NoTask, !.done = IsTerminal(st.snapshot.state)]
  ELSE IF Lagged(x, st)
  THEN [st EXCEPT !.done = TRUE]
  ELSE [st EXCEPT !.pos = @ + 1, !.min = Head1(x, st).sequence,
                  !.done = EndsStream(Head1(x, st).event)]

(* The stream yields None: it ended itself, or every sender is gone and    *)
(* the channel is drained.                                                 *)
(* Slips: a closed channel ends the stream undrained; Closed is not taken  *)
(* for an end.                                                             *)
ExhaustedEarly(x, st, closed) == st.done \/ (closed /\ st.snapshot = NoTask)

ExhaustedByDone(x, st, closed) == st.done

Exhausted(x, st, closed) ==
  \/ st.done
  \/ closed /\ st.snapshot = NoTask /\ ~HasNext(x, st)

=============================================================================
