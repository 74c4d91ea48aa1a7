--------------------------- MODULE ActiveExecution ---------------------------
(***************************************************************************)
(* One running execution and the subscriptions that join it while it runs. *)
(* A publisher is whoever holds the execution and publishes to it: the     *)
(* task that drives the executor and, during a cancel, the cancel handler. *)
(* publish and resubscribe each take two steps here, because the channel   *)
(* is used outside the state lock in both.                                 *)
(*                                                                         *)
(* A task is [state, upto]: upto, a history field, is the number of the    *)
(* last event the task reflects.  log[n] is the event numbered n.          *)
(* MaxPublished bounds the events of the execution.                        *)
(***************************************************************************)
EXTENDS ExecutionOps

CONSTANTS Publishers, Subscribers, Events, MaxPublished

ASSUME ExecBoundAssumption == MaxPublished \in Nat

ExecTask == [state : TaskState, upto : Nat]

(* An event of the stream carries a task state where its kind has one.     *)
ASSUME EventsAssumption ==
  \A e \in Events : e.kind \in {"status", "task"} => e.state \in TaskState

ASSUME NoTaskAssumption == NoTask \notin ExecTask

VARIABLES
  exec,      \* the ActiveExecution
  publisher, \* publisher[p]: its step, and the event it has numbered
  stream,    \* stream[u]: the subscription of u
  phase,     \* phase[u]: idle, attaching, open, ended
  seen,      \* seen[u]: what the subscription yielded
  log

execVars == <<exec, publisher, stream, phase, seen, log>>

NoStream == Subscription(0, NoTask, 0)

Idle == [pc |-> "idle", event |-> Error, sequence |-> 0]

ExecInit ==
  /\ exec      = NewExecution([state |-> "Submitted", upto |-> 0])
  /\ publisher = [p \in Publishers |-> Idle]
  /\ stream    = [u \in Subscribers |-> NoStream]
  /\ phase     = [u \in Subscribers |-> "idle"]
  /\ seen      = [u \in Subscribers |-> <<>>]
  /\ log       = <<>>

(* The task the publisher attaches to event n: none to an error.           *)
TaskAfter(e, n) ==
  CASE e.kind = "error"            -> NoTask
    [] e.kind \in {"status","task"} -> [state |-> e.state, upto |-> n]
    [] OTHER                       -> [exec.snapshot EXCEPT !.upto = n]

Listeners == {u \in Subscribers : phase[u] \in {"attaching", "open"}}

-----------------------------------------------------------------------------
(* publish: number the event and move the snapshot, then send it.          *)

PublishNumber(p, e) ==
  LET n == exec.sequence + 1
  IN  /\ publisher[p].pc = "idle"
      /\ n <= MaxPublished
      /\ exec' = Advance(exec, TaskAfter(e, n))
      /\ log' = Append(log, e)
      /\ publisher' = [publisher EXCEPT ![p] =
                         [pc |-> "numbered", event |-> e, sequence |-> n]]
      /\ UNCHANGED <<stream, phase, seen>>

(* After an event that ends the streams the publisher publishes no more.   *)
PublishSend(p) ==
  LET pending == publisher[p]
  IN  /\ pending.pc = "numbered"
      /\ exec' = Broadcast(exec, pending.event, pending.sequence, Listeners)
      /\ publisher' = [publisher EXCEPT ![p].pc =
                         IF EndsStream(pending.event) THEN "gone" ELSE "idle"]
      /\ UNCHANGED <<stream, phase, seen, log>>

(* The publisher lets go of the execution.                                 *)
Release(p) ==
  /\ publisher[p].pc = "idle"
  /\ publisher' = [publisher EXCEPT ![p].pc = "gone"]
  /\ UNCHANGED <<exec, stream, phase, seen, log>>

(* Every handle is dropped; an attaching subscriber holds the registry     *)
(* lock, so the registry's own handle outlives it.                         *)
Closed == /\ \A p \in Publishers : publisher[p].pc = "gone"
          /\ \A u \in Subscribers : phase[u] # "attaching"

-----------------------------------------------------------------------------
(* resubscribe: a receiver first, then the snapshot it starts from.        *)

SubscribeReceiver(u) ==
  /\ phase[u] = "idle"
  /\ \E p \in Publishers : publisher[p].pc # "gone"
  /\ stream' = [stream EXCEPT ![u] = Subscription(Len(exec.sent), NoTask, 0)]
  /\ phase'  = [phase EXCEPT ![u] = "attaching"]
  /\ UNCHANGED <<exec, publisher, seen, log>>

SubscribeSnapshot(u) ==
  /\ phase[u] = "attaching"
  /\ stream' = [stream EXCEPT ![u].snapshot = exec.snapshot,
                              ![u].min = exec.sequence]
  /\ phase'  = [phase EXCEPT ![u] = "open"]
  /\ UNCHANGED <<exec, publisher, seen, log>>

(* subscription_stream polled by its consumer.                             *)
Deliver(u) ==
  /\ phase[u] = "open" /\ CanDeliver(exec, stream[u])
  /\ seen'   = [seen EXCEPT ![u] = Append(@, Delivery(exec, stream[u]))]
  /\ stream' = [stream EXCEPT ![u] = AfterDelivery(exec, @)]
  /\ UNCHANGED <<exec, publisher, phase, log>>

Skip(u) ==
  /\ phase[u] = "open" /\ CanSkip(exec, stream[u])
  /\ stream' = [stream EXCEPT ![u] = AfterSkip(@)]
  /\ UNCHANGED <<exec, publisher, phase, seen, log>>

End(u) ==
  /\ phase[u] = "open" /\ Exhausted(exec, stream[u], Closed)
  /\ phase' = [phase EXCEPT ![u] = "ended"]
  /\ UNCHANGED <<exec, publisher, stream, seen, log>>

ExecNext ==
  \/ \E p \in Publishers :
       \/ \E e \in Events : PublishNumber(p, e)
       \/ PublishSend(p)
       \/ Release(p)
  \/ \E u \in Subscribers :
       \/ SubscribeReceiver(u) \/ SubscribeSnapshot(u)
       \/ Deliver(u) \/ Skip(u) \/ End(u)

ExecSpec == ExecInit /\ [][ExecNext]_execVars

(* The runtime keeps polling its tasks, executors finish, and consumers    *)
(* keep reading the streams they opened.                                   *)
ExecFairness ==
  /\ \A p \in Publishers : WF_execVars(PublishSend(p)) /\ WF_execVars(Release(p))
  /\ \A u \in Subscribers : /\ WF_execVars(SubscribeSnapshot(u))
                            /\ WF_execVars(Deliver(u) \/ Skip(u) \/ End(u))

FairExecSpec == ExecSpec /\ ExecFairness

-----------------------------------------------------------------------------

(* Types of the variables.                                                 *)
ExecTypeOK ==
  /\ exec.snapshot \in ExecTask /\ exec.sequence \in Nat
  /\ exec.sent \in Seq([event : Events, sequence : Nat])
  /\ \A p \in Publishers : publisher[p].pc \in {"idle", "numbered", "gone"}
  /\ \A u \in Subscribers :
       /\ stream[u].snapshot \in ExecTask \union {NoTask}
       /\ stream[u].pos \in 0 .. Len(exec.sent)
       /\ phase[u] \in {"idle", "attaching", "open", "ended"}
  /\ log \in Seq(Events)

(* The snapshot a subscription opens with is the task as of the last event *)
(* already published, as the doc of Resubscription says: no event up to    *)
(* its number changed the task after it.                                   *)
SnapshotIsCurrent ==
  \A u \in Subscribers :
    phase[u] = "open" /\ stream[u].snapshot # NoTask =>
      \A n \in stream[u].snapshot.upto + 1 .. stream[u].min :
        log[n].kind = "error"

(* With one publisher a subscription has every event from its snapshot on: *)
(* the numbers it yields are consecutive, and when its stream ends without *)
(* a terminal event or an error, nothing published is left that it has not *)
(* shown.                                                                  *)
NothingMissed ==
  \A u \in Subscribers :
    /\ \A k \in 2 .. Len(seen[u]) :
         \/ seen[u][k].sequence = seen[u][k-1].sequence + 1
         \/ seen[u][k].event = LagError
    /\ phase[u] = "ended" /\ ~stream[u].done => stream[u].min = exec.sequence

(* A subscription that joined is told the end: the stream of every         *)
(* consumer that keeps polling it comes to its end.                        *)
StreamsEnd ==
  \A u \in Subscribers : phase[u] = "attaching" ~> phase[u] = "ended"

=============================================================================
