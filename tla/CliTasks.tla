------------------------------- MODULE CliTasks -------------------------------
(***************************************************************************)
(* The task commands of a2acli over an agent and a network that may fail:  *)
(* send (with --stream, --async and the wait for the result), task get     *)
(* --wait, task cancel and task subscribe, which reconnects.               *)
(*                                                                         *)
(* One invocation runs one command to its exit.  The agent changes the     *)
(* task on its own; a call is answered, refused, or fails with its request *)
(* or its reply lost; an open stream may be cut at any moment and loses    *)
(* what is on the wire.  A deadline is kept as the time left to it.        *)
(***************************************************************************)
EXTENDS Integers, Sequences, TaskStates

CONSTANTS
  Invocations,       \* [op, wait, streaming]: the command, ~--async/--wait,
                     \*   whether the card declares streaming
  States,            \* the task states explored
  Timeout, Interval, \* --timeout, --poll-interval, in ticks
  MaxWire            \* events in flight

ASSUME CliBounds == Timeout \in Nat /\ Interval \in Nat \ {0} /\ MaxWire \in Nat \ {0}
ASSUME CliStates == States \subseteq TaskState
ASSUME CliInvocations ==
  Invocations \subseteq [op : {"send", "send --stream", "get", "cancel", "subscribe"},
                         wait : BOOLEAN, streaming : BOOLEAN]

NoState == "none"
NoDeadline == -1

VARIABLES
  cmd,      \* the invocation
  agent,    \* [state, streams, taken]: the task, whether streams are served,
            \*   how many messages were taken
  wire,     \* events on the open stream
  cli,      \* the process: its locals and where it stands
  quiet     \* history: ticks since the outage began, the poll began, or an
            \*   event was printed

cliVars == <<cmd, agent, wire, cli, quiet>>

Event(kind, state) == [kind |-> kind, state |-> state]

CliInit ==
  /\ cmd \in Invocations
  /\ \E s \in States, streams \in BOOLEAN :
       agent = [state |-> IF cmd.op \in {"send", "send --stream"} THEN NoState ELSE s,
                streams |-> streams, taken |-> 0]
  /\ wire = <<>>
  /\ cli = [pc |-> cmd.op, last |-> NoState, before |-> NoState, first |-> FALSE,
            budget |-> NoDeadline, nap |-> 0, shown |-> NoState, exit |-> "none",
            answer |-> "none"]
  /\ quiet = 0

-----------------------------------------------------------------------------

IsSettled(s) == s \in {"InputRequired", "AuthRequired"} \/ (s # NoState /\ IsTerminal(s))

Exits(c, how) == [c EXCEPT !.pc = "done", !.exit = how]

(* client.destroy() comes before every exit; after a success its own error *)
(* is reported.                                                            *)
Finish(c, how) ==
  \E end \in {how} \union IF how = "ok" THEN {"error"} ELSE {} : cli' = Exits(c, end)

Quietly == UNCHANGED <<cmd, agent, wire, quiet>>

(* A call that fails without having reached the agent.                     *)
CallFails ==
  /\ cli.pc \in {"send", "get", "cancel", "poll"}
       \/ (cli.pc = "send --stream" /\ cmd.streaming)
       \/ (cli.pc = "subscribe" /\ cmd.streaming)
  /\ Finish(cli, "error") /\ Quietly

(* The agent takes the message: the task is new, or takes another turn.    *)
Takes == \E s \in States : agent' = [agent EXCEPT !.taken = @ + 1, !.state = s]

(* settle_task: nothing to wait for, or wait_for_task_settled.             *)
Settle(c) ==
  IF cmd.wait /\ ~IsSettled(c.last)
  THEN cli' = [c EXCEPT !.pc = "poll", !.budget = Timeout]
  ELSE Finish(c, "ok")

(* A task received.  It is printed when the command is done with waiting;  *)
(* shown counts it at once, also where a TIMEOUT then prints no task.      *)
Got(s) == [cli EXCEPT !.last = s, !.shown = s]

(* send_and_maybe_wait: a task, a message, or a reply that is lost.        *)
SendMessage ==
  /\ cli.pc = "send" /\ Takes
  /\ Settle(Got(agent'.state)) \/ Finish(cli, "ok") \/ Finish(cli, "error")
  /\ UNCHANGED <<cmd, wire, quiet>>

GetTask ==
  /\ cli.pc = "get" /\ Settle(Got(agent.state)) /\ Quietly

CancelTask ==
  /\ cli.pc = "cancel"
  /\ IF IsTerminal(agent.state)
     THEN Finish(cli, "error") /\ UNCHANGED agent
     ELSE /\ agent' = [agent EXCEPT !.state = "Canceled"]
          /\ Finish(Got("Canceled"), "ok") \/ Finish(cli, "error")
  /\ UNCHANGED <<cmd, wire, quiet>>

(* Whether the error of a refused stream is answered by sending without.   *)
(* Slip: on any error.                                                     *)
FallsBackAlways(error) == TRUE

FallsBack(error) == error = "UNSUPPORTED_OPERATION"

SendInstead(error) ==
  IF FallsBack(error) THEN cli' = [cli EXCEPT !.pc = "send"] ELSE Finish(cli, "error")

(* send --stream: by the card, or by what the agent answers, with a stream *)
(* or without; or its reply is lost.                                       *)
SendStreaming ==
  /\ cli.pc = "send --stream"
  /\ UNCHANGED <<cmd, quiet>>
  /\ \/ ~cmd.streaming /\ cli' = [cli EXCEPT !.pc = "send"] /\ UNCHANGED <<agent, wire>>
     \/ /\ cmd.streaming /\ ~agent.streams
        /\ SendInstead("UNSUPPORTED_OPERATION") /\ UNCHANGED <<agent, wire>>
     \/ /\ cmd.streaming /\ agent.streams /\ Takes
        /\ \/ cli' = [cli EXCEPT !.pc = "read"] /\ wire' = <<Event("Task", agent'.state)>>
           \/ SendInstead("INTERNAL_ERROR") /\ UNCHANGED wire

-----------------------------------------------------------------------------
(* wait_for_task_settled.                                                  *)

Nap(c) ==
  [c EXCEPT !.pc = "nap", !.nap = IF Interval < c.budget THEN Interval ELSE c.budget]

Poll ==
  /\ cli.pc = "poll"
  /\ LET c == Got(agent.state)
     IN  CASE IsSettled(c.last)  -> Finish(c, "ok")
           [] ~IsSettled(c.last) /\ c.budget = 0 -> Finish(c, "timeout")
           [] OTHER              -> cli' = Nap(c)
  /\ Quietly

Wake ==
  /\ cli.pc = "nap" /\ cli.nap = 0
  /\ cli' = [cli EXCEPT !.pc = IF cmd.op = "subscribe" THEN "resubscribe" ELSE "poll"]
  /\ Quietly

-----------------------------------------------------------------------------
(* task subscribe.  subscribe_to_task of the agent refuses a task that is  *)
(* over; else the stream begins with the task.                             *)

Attach(c) ==
  /\ cli' = [c EXCEPT !.pc = "read", !.before = c.last]
  /\ wire' = <<Event("Task", agent.state)>>

Subscribe ==
  /\ cli.pc = "subscribe"
  /\ IF cmd.streaming /\ agent.streams /\ ~IsTerminal(agent.state)
     THEN Attach(cli) ELSE Finish(cli, "error") /\ UNCHANGED wire
  /\ UNCHANGED <<cmd, agent, quiet>>

(* The first event after a reconnect is not printed if it says nothing     *)
(* new.                                                                    *)
(* Slip: it is not printed.                                                *)
SuppressedFirst(e) == cli.first /\ e.state # NoState

Suppressed(e) == cli.first /\ e.state # NoState /\ e.state = cli.before

(* What an event that is printed does to the locals.                       *)
(* Slip: the deadline of the outage stays.                                 *)
PrintedKeeps(c, e) == [c EXCEPT !.shown = IF e.state = NoState THEN @ ELSE e.state]

Printed(c, e) ==
  [c EXCEPT !.shown = IF e.state = NoState THEN @ ELSE e.state, !.budget = NoDeadline]

(* One event of the stream: print_or_destroy and save_fileparts may fail.  *)
Read ==
  /\ cli.pc = "read" /\ wire # <<>>
  /\ wire' = Tail(wire)
  /\ LET e == Head(wire)
         c == [cli EXCEPT !.last = IF e.state = NoState THEN @ ELSE e.state,
                          !.first = FALSE]
     IN  \/ Finish(c, "error") /\ UNCHANGED quiet
         \/ Suppressed(e) /\ cli' = c /\ UNCHANGED quiet
         \/ ~Suppressed(e) /\ cli' = Printed(c, e) /\ quiet' = 0
  /\ UNCHANGED <<cmd, agent>>

(* The time an interruption leaves: outage_deadline.get_or_insert_with.    *)
BudgetAtCut == IF cli.budget = NoDeadline THEN Timeout ELSE cli.budget

(* The stream is over, by its end or by a failed connection.               *)
Over(cut) ==
  CASE cmd.op = "send --stream" -> Finish(cli, IF cut THEN "error" ELSE "ok")
    [] cmd.op = "subscribe" /\ IsSettled(cli.last) -> Finish(cli, "ok")
    [] OTHER -> cli' = [cli EXCEPT !.pc = "retry", !.budget = BudgetAtCut]

(* The agent ends the stream of a task that is over, once it was read.     *)
StreamEnds ==
  /\ cli.pc = "read" /\ wire = <<>> /\ IsTerminal(agent.state)
  /\ Over(FALSE) /\ Quietly

(* The connection is lost, or closed by something in between; or the agent *)
(* reports an error on the stream.                                         *)
StreamCut ==
  /\ cli.pc = "read" /\ wire' = <<>>
  /\ (\E cut \in BOOLEAN : Over(cut)) \/ Finish(cli, "error")
  /\ UNCHANGED <<cmd, agent, quiet>>

Retry ==
  /\ cli.pc = "retry"
  /\ IF cli.budget = 0 THEN Finish(cli, "timeout")
                       ELSE cli' = Nap([cli EXCEPT !.first = TRUE])
  /\ Quietly

(* The locals after a re-subscribe that failed.                            *)
(* Slip: the deadline is computed inside the retry loop.                   *)
RefusedRearms(why) == [cli EXCEPT !.pc = "retry", !.answer = why, !.budget = Timeout]

Refused(why) == [cli EXCEPT !.pc = "retry", !.answer = why]

Resubscribe ==
  /\ cli.pc = "resubscribe"
  /\ \/ cli' = Refused("unreachable") /\ UNCHANGED wire
     \/ /\ IsTerminal(agent.state)
        /\ cli' = Refused("UNSUPPORTED_OPERATION") /\ UNCHANGED wire
     \/ ~IsTerminal(agent.state) /\ Attach(cli)
  /\ UNCHANGED <<cmd, agent, quiet>>

-----------------------------------------------------------------------------
(* The agent and the clock.                                                *)

AgentEmits(e) ==
  wire' = IF cli.pc = "read" THEN Append(wire, e) ELSE wire

AgentMoves ==
  /\ agent.state # NoState /\ ~IsTerminal(agent.state) /\ Len(wire) < MaxWire
  /\ \/ \E s \in States : /\ agent' = [agent EXCEPT !.state = s]
                          /\ AgentEmits(Event("StatusUpdate", s))
     \/ UNCHANGED agent /\ AgentEmits(Event("ArtifactUpdate", NoState))
  /\ UNCHANGED <<cmd, cli, quiet>>

Tick ==
  /\ cli.pc # "done" /\ cli.budget > 0
  /\ cli' = [cli EXCEPT !.budget = @ - 1, !.nap = IF @ > 0 THEN @ - 1 ELSE 0]
  /\ quiet' = IF quiet < Timeout THEN quiet + 1 ELSE quiet
  /\ UNCHANGED <<cmd, agent, wire>>

CliStep ==
  \/ SendMessage \/ GetTask \/ CancelTask \/ SendStreaming \/ CallFails
  \/ Poll \/ Wake \/ Subscribe \/ Read \/ Retry \/ Resubscribe

CliNext == CliStep \/ StreamEnds \/ StreamCut \/ AgentMoves \/ Tick

(* The process runs, every call is answered or fails, an agent closes the  *)
(* stream of a task that is over, and time passes.                         *)
CliFairness == WF_cliVars(CliStep) /\ WF_cliVars(StreamEnds) /\ WF_cliVars(Tick)

CliSpec == CliInit /\ [][CliNext]_cliVars /\ CliFairness

-----------------------------------------------------------------------------

CliTypeOK ==
  /\ cmd \in Invocations
  /\ agent.state \in States \union {NoState, "Canceled"}
  /\ Len(wire) <= MaxWire
  /\ cli.exit \in {"none", "ok", "error", "timeout"}
  /\ cli.budget \in NoDeadline .. Timeout /\ cli.nap \in 0 .. Interval

(* A command that waits for its task exits with success only on a settled  *)
(* task, and with TIMEOUT only if a whole --timeout went by during which   *)
(* nothing was printed or, when polling, since the first poll, and the     *)
(* last state it saw was not settled: a healthy stream, or one outage      *)
(* after another, never adds up to a timeout.                              *)
ExitIsEarned ==
  /\ cli.exit = "ok" /\ cmd.wait /\ cli.last # NoState /\ cmd.op # "send --stream"
       => IsSettled(cli.last)
  /\ cli.exit = "timeout" => quiet = Timeout /\ ~IsSettled(cli.last)

(* The last state printed is the last state received, on every path        *)
(* through cuts and reconnects of a stream: what is left out after a       *)
(* reconnect was printed before.  (Of a wait that polls it says nothing:   *)
(* that prints its task at its end, and on a TIMEOUT none.)                *)
NothingHidden == cli.exit # "error" => cli.shown = cli.last

(* Whatever fails while a message is sent with --stream, the agent never   *)
(* takes it twice.                                                         *)
MessageTakenOnce == agent.taken <= 1

(* Once the task is over, or once polling began, the command exits.        *)
CommandEnds ==
  /\ (agent.state \in TerminalStates) ~> (cli.pc = "done")
  /\ (cli.pc = "poll") ~> (cli.pc = "done")

(* Reconnecting finds out what the task reached: a subscription does not   *)
(* give up with TIMEOUT when its last attempt reached the agent.           *)
ReconnectReconciles == cli.exit = "timeout" => cli.answer # "UNSUPPORTED_OPERATION"

=============================================================================
