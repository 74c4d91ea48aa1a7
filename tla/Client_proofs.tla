---------------------------- MODULE Client_proofs ----------------------------
(***************************************************************************)
(* The client.  For every timeout, interval, set of task states and set of *)
(* invocations: what a task command of the CLI reports is what it saw, it  *)
(* exits as the task deserves, and a message is sent once.  For every set  *)
(* of settings: an invocation starts from the settings its sources rank.   *)
(* For every card, list of preferences, list of interceptors and request:  *)
(* the interface in use is the best one, the interceptors pair up, what    *)
(* was sent arrives and an error stays what it was.  For every number of   *)
(* items and comments, however they are cut: a stream is read as written.  *)
(***************************************************************************)
EXTENDS CliTasks, CliStart, ClientCall, SseStream, Dispatch_proofs

(***************************************************************************)
(* A command about a task.                                                 *)
(***************************************************************************)

Seen == States \union {NoState, "Canceled"}

WireEvent == [kind : {"Task", "StatusUpdate", "ArtifactUpdate"}, state : Seen]

Places == {"send", "send --stream", "get", "cancel", "subscribe", "read", "poll",
           "nap", "retry", "resubscribe", "done"}

Process == [pc : Places, last : Seen, before : Seen, first : BOOLEAN,
            budget : NoDeadline .. Timeout, nap : 0 .. Interval, shown : Seen,
            exit : {"none", "ok", "error", "timeout"},
            answer : {"none", "unreachable", "UNSUPPORTED_OPERATION"}]

AgentShape == agent \in [state : Seen, streams : BOOLEAN, taken : Nat]

WireShape == wire \in Seq(WireEvent) /\ Len(wire) <= MaxWire

CliShape ==
  /\ cmd \in Invocations /\ AgentShape /\ WireShape
  /\ cli \in Process
  /\ quiet \in 0 .. Timeout

(* The loop a command may be in, and what it knows there: polling waits    *)
(* for the task, a subscription reconnects for a task it saw unsettled.    *)
Waits == cmd.wait /\ cmd.op # "subscribe" /\ cli.budget # NoDeadline

Reconnects == cmd.op = "subscribe" /\ cli.budget # NoDeadline /\ ~IsSettled(cli.last)

WhereItStands ==
  /\ cli.pc \in {"send", "send --stream", "get", "cancel", "subscribe"}
       => cli.last = NoState /\ cli.exit = "none" /\ ~cli.first
  /\ cli.pc \in {"get", "cancel", "subscribe", "send --stream"} => cmd.op = cli.pc
  /\ cli.pc = "send" => cmd.op \in {"send", "send --stream"}
  /\ cli.pc = "read" => cmd.op \in {"subscribe", "send --stream"}
  /\ cli.pc = "poll" => Waits
  /\ cli.pc = "nap" => Waits \/ Reconnects
  /\ cli.pc \in {"retry", "resubscribe"} => Reconnects
  /\ cli.pc # "done" <=> cli.exit = "none"

(* The time left and the silence so far make up at least --timeout.        *)
TimeAddsUp == cli.budget # NoDeadline => quiet + cli.budget >= Timeout

(* What the first event after a reconnect is compared with was printed.    *)
ComparedWithShown == cli.pc = "read" /\ cli.first => cli.before = cli.last

NotYetTaken == cli.pc \in {"send", "send --stream"} => agent.taken = 0

CliInv ==
  /\ CliShape /\ WhereItStands /\ TimeAddsUp /\ ComparedWithShown /\ NotYetTaken
  /\ ExitIsEarned /\ NothingHidden /\ MessageTakenOnce

-----------------------------------------------------------------------------

(* A sentinel is no state of a task.                                       *)
LEMMA StatesAreSeen ==
  /\ NoState \in Seen /\ "Canceled" \in Seen /\ States \subseteq Seen
  /\ NoState \notin TaskState
  /\ IsSettled("Canceled") /\ ~IsSettled(NoState)
BY CliStates
   DEF Seen, NoState, IsSettled, IsTerminal, TerminalStates, TaskState, LiveStates

LEMMA InitCliInv == CliInit => CliInv
<1>. SUFFICES ASSUME CliInit PROVE CliInv
  OBVIOUS
<1>1. /\ cmd \in Invocations
      /\ cli = [pc |-> cmd.op, last |-> NoState, before |-> NoState, first |-> FALSE,
                budget |-> NoDeadline, nap |-> 0, shown |-> NoState, exit |-> "none",
                answer |-> "none"]
      /\ wire = <<>> /\ quiet = 0
  BY DEF CliInit
<1>2. cmd.op \in {"send", "send --stream", "get", "cancel", "subscribe"}
  BY <1>1, CliInvocations
<1>3. agent \in [state : Seen, streams : BOOLEAN, taken : Nat] /\ agent.taken = 0
  <2>1. PICK s \in States, streams \in BOOLEAN :
          agent = [state |-> IF cmd.op \in {"send", "send --stream"} THEN NoState ELSE s,
                   streams |-> streams, taken |-> 0]
    BY DEF CliInit
  <2>2. (IF cmd.op \in {"send", "send --stream"} THEN NoState ELSE s) \in Seen
    BY StatesAreSeen
  <2>3. QED
    BY <2>1, <2>2
<1>4. CliShape
  <2>1. wire \in Seq(WireEvent) /\ Len(wire) <= MaxWire
    BY <1>1, CliBounds
  <2>2. cli \in Process
    <3>1. NoDeadline \in NoDeadline .. Timeout /\ 0 \in 0 .. Interval
      BY CliBounds DEF NoDeadline
    <3>2. cmd.op \in Places
      BY <1>2 DEF Places
    <3>3. QED
      BY <1>1, <3>1, <3>2, StatesAreSeen DEF Process
  <2>3. QED
    BY <1>1, <1>3, <2>1, <2>2, CliBounds DEF CliShape, AgentShape, WireShape
<1>5. WhereItStands /\ TimeAddsUp /\ ComparedWithShown /\ NotYetTaken
  BY <1>1, <1>2, <1>3 DEF WhereItStands, TimeAddsUp, ComparedWithShown, NotYetTaken
<1>6. ExitIsEarned /\ NothingHidden /\ MessageTakenOnce
  BY <1>1, <1>3 DEF ExitIsEarned, NothingHidden, MessageTakenOnce
<1>7. QED
  BY <1>4, <1>5, <1>6 DEF CliInv

(* The exit of a process that shows what it saw, with a success its        *)
(* command earned or a timeout that went by.                               *)
LEMMA FinishKeeps ==
  ASSUME CliInv, AgentShape', WireShape', UNCHANGED <<cmd, quiet>>,
         NEW c \in Process, NEW how \in {"ok", "error", "timeout"}, Finish(c, how),
         agent'.taken <= 1,
         how # "error" => c.shown = c.last,
         how = "ok" => \/ ~cmd.wait \/ c.last = NoState \/ cmd.op = "send --stream"
                       \/ IsSettled(c.last),
         how = "timeout" => quiet = Timeout /\ ~IsSettled(c.last),
         c.budget # NoDeadline => quiet + c.budget >= Timeout
  PROVE  CliInv'
<1>1. PICK end \in {how} \union IF how = "ok" THEN {"error"} ELSE {} : cli' = Exits(c, end)
  BY DEF Finish
<1>2. /\ cli'.pc = "done" /\ cli'.exit = end /\ cli'.last = c.last
      /\ cli'.shown = c.shown /\ cli'.budget = c.budget
  BY <1>1 DEF Exits, Process
<1>3. end \in {"ok", "error", "timeout"} /\ (end # "error" => end = how)
  BY <1>1
<1>4. CliShape'
  <2>1. cli' \in Process
    BY <1>1, <1>3 DEF Exits, Process, Places
  <2>2. QED
    BY <2>1 DEF CliInv, CliShape
<1>5. WhereItStands' /\ TimeAddsUp' /\ ComparedWithShown' /\ NotYetTaken'
  BY <1>2, <1>3 DEF WhereItStands, TimeAddsUp, ComparedWithShown, NotYetTaken
<1>6. ExitIsEarned' /\ NothingHidden' /\ MessageTakenOnce'
  BY <1>2, <1>3 DEF ExitIsEarned, NothingHidden, MessageTakenOnce, IsSettled
<1>7. QED
  BY <1>4, <1>5, <1>6 DEF CliInv

(* settle_task with what was received shown: an exit, or the wait begins.  *)
LEMMA SettleKeeps ==
  ASSUME CliInv, AgentShape', UNCHANGED <<cmd, wire, quiet>>,
         cmd.op # "subscribe", cli.exit = "none",
         NEW s \in Seen, Settle(Got(s)), agent'.taken <= 1
  PROVE  CliInv'
<1>. DEFINE c == Got(s)
<1>1. /\ c \in Process /\ c.last = s /\ c.shown = s /\ c.exit = "none"
      /\ c.budget = cli.budget /\ c.first = cli.first
  BY DEF CliInv, CliShape, Process, Got
<1>2. WireShape'
  BY DEF CliInv, CliShape, WireShape
<1>. HIDE DEF c
<1>3. CASE cmd.wait /\ ~IsSettled(c.last)
  <2>1. cli' = [c EXCEPT !.pc = "poll", !.budget = Timeout]
    BY <1>3 DEF Settle, c
  <2>2. /\ cli' \in Process /\ cli'.pc = "poll" /\ cli'.budget = Timeout
        /\ cli'.last = s /\ cli'.shown = s /\ cli'.exit = "none"
    <3>1. Timeout \in NoDeadline .. Timeout /\ "poll" \in Places
      BY CliBounds DEF NoDeadline, Places
    <3>2. QED
      BY <1>1, <2>1, <3>1 DEF Process
  <2>3. CliShape' /\ quiet + Timeout >= Timeout /\ Timeout # NoDeadline
    BY <1>2, <2>2, CliBounds DEF CliInv, CliShape, NoDeadline
  <2>4. WhereItStands' /\ TimeAddsUp' /\ ComparedWithShown' /\ NotYetTaken'
    BY <1>3, <2>2, <2>3
       DEF WhereItStands, TimeAddsUp, ComparedWithShown, NotYetTaken, Waits, Reconnects
  <2>5. ExitIsEarned' /\ NothingHidden' /\ MessageTakenOnce'
    BY <2>2 DEF ExitIsEarned, NothingHidden, MessageTakenOnce
  <2>6. QED
    BY <2>3, <2>4, <2>5 DEF CliInv
<1>4. CASE ~(cmd.wait /\ ~IsSettled(c.last))
  <2>1. Finish(c, "ok")
    BY <1>4 DEF Settle, c
  <2>2. QED
    BY <1>1, <1>2, <1>4, <2>1, FinishKeeps DEF CliInv, TimeAddsUp
<1>5. QED
  BY <1>3, <1>4

-----------------------------------------------------------------------------

LEMMA CallFailsKeeps == CliInv /\ CallFails => CliInv'
<1>. SUFFICES ASSUME CliInv, CallFails PROVE CliInv'
  OBVIOUS
<1>1. cli \in Process /\ Finish(cli, "error") /\ UNCHANGED <<cmd, agent, wire, quiet>>
  BY DEF CallFails, Quietly, CliInv, CliShape
<1>2. AgentShape' /\ WireShape' /\ agent'.taken <= 1
  BY <1>1 DEF CliInv, CliShape, AgentShape, WireShape, MessageTakenOnce
<1>3. QED
  BY <1>1, <1>2, FinishKeeps DEF CliInv, TimeAddsUp

(* The agent takes the message of a command that has not sent it yet.      *)
LEMMA TakesOne ==
  ASSUME CliInv, Takes, agent.taken = 0
  PROVE  AgentShape' /\ agent'.taken <= 1 /\ agent'.state \in Seen
<1>1. PICK s \in States : agent' = [agent EXCEPT !.taken = @ + 1, !.state = s]
  BY DEF Takes
<1>2. s \in Seen
  BY StatesAreSeen
<1>3. agent \in [state : Seen, streams : BOOLEAN, taken : Nat]
  BY DEF CliInv, CliShape, AgentShape
<1>4. agent' = [agent EXCEPT !.taken = 1, !.state = s]
  BY <1>1
<1>5. agent'.taken = 1 /\ agent'.state = s
  BY <1>3, <1>4
<1>6. agent' \in [state : Seen, streams : BOOLEAN, taken : Nat]
  BY <1>2, <1>3, <1>4
<1>7. QED
  BY <1>2, <1>5, <1>6 DEF AgentShape

LEMMA SendMessageKeeps == CliInv /\ SendMessage => CliInv'
<1>. SUFFICES ASSUME CliInv, SendMessage PROVE CliInv'
  OBVIOUS
<1>1. /\ cli.pc = "send" /\ Takes /\ UNCHANGED <<cmd, wire, quiet>>
      /\ cli \in Process /\ cli.last = NoState /\ cli.exit = "none"
      /\ cli.shown = cli.last /\ cmd.op # "subscribe" /\ agent.taken = 0
  BY DEF SendMessage, CliInv, CliShape, WhereItStands, NotYetTaken, NothingHidden
<1>2. AgentShape' /\ WireShape' /\ agent'.taken <= 1 /\ agent'.state \in Seen
  BY <1>1, TakesOne DEF CliInv, CliShape, WireShape
<1>3. CASE Settle(Got(agent'.state))
  BY <1>1, <1>2, <1>3, SettleKeeps
<1>4. ASSUME NEW how \in {"ok", "error"}, Finish(cli, how) PROVE CliInv'
  <2>1. cli.budget # NoDeadline => quiet + cli.budget >= Timeout
    BY DEF CliInv, TimeAddsUp
  <2>2. QED
    BY <1>1, <1>2, <1>4, <2>1, FinishKeeps
<1>5. QED
  BY <1>3, <1>4 DEF SendMessage

LEMMA GetTaskKeeps == CliInv /\ GetTask => CliInv'
<1>. SUFFICES ASSUME CliInv, GetTask PROVE CliInv'
  OBVIOUS
<1>1. /\ Settle(Got(agent.state)) /\ UNCHANGED <<cmd, agent, wire, quiet>>
      /\ cli.exit = "none" /\ cmd.op # "subscribe"
  BY DEF GetTask, Quietly, CliInv, WhereItStands
<1>2. AgentShape' /\ agent'.taken <= 1 /\ agent.state \in Seen
  BY <1>1 DEF CliInv, CliShape, AgentShape, MessageTakenOnce
<1>3. QED
  BY <1>1, <1>2, SettleKeeps

LEMMA CancelTaskKeeps == CliInv /\ CancelTask => CliInv'
<1>. SUFFICES ASSUME CliInv, CancelTask PROVE CliInv'
  OBVIOUS
<1>1. /\ UNCHANGED <<cmd, wire, quiet>> /\ cli \in Process /\ cli.exit = "none"
  BY DEF CancelTask, CliInv, CliShape, WhereItStands
<1>2. WireShape'
  BY <1>1 DEF CliInv, CliShape, WireShape
<1>3. CASE IsTerminal(agent.state)
  <2>1. Finish(cli, "error") /\ AgentShape' /\ agent'.taken <= 1
    BY <1>3 DEF CancelTask, CliInv, CliShape, AgentShape, MessageTakenOnce
  <2>2. QED
    BY <1>1, <1>2, <2>1, FinishKeeps DEF CliInv, TimeAddsUp
<1>4. CASE ~IsTerminal(agent.state)
  <2>1. /\ agent' = [agent EXCEPT !.state = "Canceled"]
        /\ Finish(Got("Canceled"), "ok") \/ Finish(cli, "error")
    BY <1>4 DEF CancelTask
  <2>2. AgentShape' /\ agent'.taken <= 1
    BY <2>1, StatesAreSeen DEF CliInv, CliShape, AgentShape, MessageTakenOnce
  <2>3. /\ Got("Canceled") \in Process /\ Got("Canceled").last = "Canceled"
        /\ Got("Canceled").shown = "Canceled" /\ Got("Canceled").budget = cli.budget
    BY <1>1, StatesAreSeen DEF Got, Process
  <2>4. CASE Finish(Got("Canceled"), "ok")
    BY <1>1, <1>2, <2>2, <2>3, <2>4, StatesAreSeen, FinishKeeps DEF CliInv, TimeAddsUp
  <2>5. CASE Finish(cli, "error")
    BY <1>1, <1>2, <2>2, <2>5, FinishKeeps DEF CliInv, TimeAddsUp
  <2>6. QED
    BY <2>1, <2>4, <2>5
<1>5. QED
  BY <1>3, <1>4

(* A stream was refused, or its answer lost: the message is sent without   *)
(* one only when the agent did not take it.                                *)
LEMMA SendStreamingKeeps == CliInv /\ SendStreaming => CliInv'
<1>. SUFFICES ASSUME CliInv, SendStreaming PROVE CliInv'
  OBVIOUS
<1>1. /\ cli.pc = "send --stream" /\ UNCHANGED <<cmd, quiet>> /\ cli \in Process
      /\ cli.last = NoState /\ cli.shown = NoState /\ cli.exit = "none"
      /\ ~cli.first /\ cmd.op = "send --stream" /\ agent.taken = 0
      /\ cli.budget # NoDeadline => quiet + cli.budget >= Timeout
  BY DEF SendStreaming, CliInv, CliShape, WhereItStands, NotYetTaken, NothingHidden, TimeAddsUp
<1>2. ASSUME cli' = [cli EXCEPT !.pc = "send"], UNCHANGED <<agent, wire>>
      PROVE  CliInv'
  <2>1. /\ cli' \in Process /\ cli'.pc = "send" /\ cli'.last = NoState
        /\ cli'.shown = NoState /\ cli'.exit = "none" /\ cli'.budget = cli.budget
        /\ ~cli'.first
    BY <1>1, <1>2 DEF Process, Places
  <2>2. CliShape'
    BY <1>1, <1>2, <2>1 DEF CliInv, CliShape, AgentShape, WireShape
  <2>3. WhereItStands' /\ TimeAddsUp' /\ ComparedWithShown' /\ NotYetTaken'
    BY <1>1, <1>2, <2>1 DEF WhereItStands, TimeAddsUp, ComparedWithShown, NotYetTaken
  <2>4. ExitIsEarned' /\ NothingHidden' /\ MessageTakenOnce'
    BY <1>2, <2>1 DEF CliInv, ExitIsEarned, NothingHidden, MessageTakenOnce
  <2>5. QED
    BY <2>2, <2>3, <2>4 DEF CliInv
<1>3. ASSUME Takes, cli' = [cli EXCEPT !.pc = "read"],
             wire' = <<Event("Task", agent'.state)>>
      PROVE  CliInv'
  <2>1. AgentShape' /\ agent'.taken <= 1 /\ agent'.state \in Seen
    BY <1>1, <1>3, TakesOne
  <2>2. Event("Task", agent'.state) \in WireEvent
    BY <2>1 DEF Event, WireEvent
  <2>3. WireShape'
    BY <1>3, <2>2, CliBounds DEF WireShape
  <2>4. /\ cli' \in Process /\ cli'.pc = "read" /\ cli'.last = NoState
        /\ cli'.shown = NoState /\ cli'.exit = "none" /\ cli'.budget = cli.budget
        /\ ~cli'.first
    BY <1>1, <1>3 DEF Process, Places
  <2>5. CliShape'
    BY <1>1, <2>1, <2>3, <2>4 DEF CliInv, CliShape
  <2>6. WhereItStands' /\ TimeAddsUp' /\ ComparedWithShown' /\ NotYetTaken'
    BY <1>1, <2>4 DEF WhereItStands, TimeAddsUp, ComparedWithShown, NotYetTaken
  <2>7. ExitIsEarned' /\ NothingHidden' /\ MessageTakenOnce'
    BY <1>1, <2>1, <2>4 DEF ExitIsEarned, NothingHidden, MessageTakenOnce
  <2>8. QED
    BY <2>5, <2>6, <2>7 DEF CliInv
<1>4. ASSUME Finish(cli, "error"), AgentShape', agent'.taken <= 1, UNCHANGED wire
      PROVE  CliInv'
  <2>1. WireShape'
    BY <1>4 DEF CliInv, CliShape, WireShape
  <2>2. QED
    BY <1>1, <1>4, <2>1, FinishKeeps
<1>5. CASE ~cmd.streaming /\ cli' = [cli EXCEPT !.pc = "send"] /\ UNCHANGED <<agent, wire>>
  BY <1>2, <1>5
<1>6. CASE SendInstead("UNSUPPORTED_OPERATION") /\ UNCHANGED <<agent, wire>>
  BY <1>2, <1>6 DEF SendInstead, FallsBack
<1>7. CASE /\ Takes /\ cli' = [cli EXCEPT !.pc = "read"]
           /\ wire' = <<Event("Task", agent'.state)>>
  BY <1>3, <1>7
<1>8. CASE Takes /\ SendInstead("INTERNAL_ERROR") /\ UNCHANGED wire
  <2>1. Finish(cli, "error") /\ AgentShape' /\ agent'.taken <= 1
    BY <1>1, <1>8, TakesOne DEF SendInstead, FallsBack
  <2>2. QED
    BY <1>4, <1>8, <2>1
<1>9. QED
  BY <1>5, <1>6, <1>7, <1>8 DEF SendStreaming

-----------------------------------------------------------------------------
(* Polling.                                                                *)

(* How long it sleeps: no longer than the time it has left.                *)
LEMMA NapShape ==
  ASSUME NEW c \in Process, c.budget # NoDeadline
  PROVE  /\ Nap(c) \in Process /\ Nap(c).pc = "nap" /\ Nap(c).budget = c.budget
         /\ Nap(c).last = c.last /\ Nap(c).shown = c.shown /\ Nap(c).exit = c.exit
<1>. DEFINE n == IF Interval < c.budget THEN Interval ELSE c.budget
<1>1. Nap(c) = [c EXCEPT !.pc = "nap", !.nap = n]
  BY DEF Nap
<1>2. n \in 0 .. Interval /\ "nap" \in Places
  <2>1. c.budget \in NoDeadline .. Timeout
    BY DEF Process
  <2>2. n \in 0 .. Interval
    BY <2>1, CliBounds DEF NoDeadline
  <2>3. QED
    BY <2>2 DEF Places
<1>. HIDE DEF n
<1>3. QED
  BY <1>1, <1>2 DEF Process

(* A process that goes on to sleep in the loop it is in.                   *)
LEMMA NapKeeps ==
  ASSUME CliInv, Quietly, NEW c \in Process, cli' = Nap(c),
         c.shown = c.last, c.exit = "none", c.budget # NoDeadline,
         quiet + c.budget >= Timeout,
         \/ cmd.wait /\ cmd.op # "subscribe"
         \/ cmd.op = "subscribe" /\ ~IsSettled(c.last)
  PROVE  CliInv'
<1>1. /\ cli' \in Process /\ cli'.pc = "nap" /\ cli'.budget = c.budget
      /\ cli'.last = c.last /\ cli'.shown = c.shown /\ cli'.exit = "none"
  BY NapShape
<1>2. CliShape' /\ MessageTakenOnce'
  BY <1>1 DEF CliInv, CliShape, AgentShape, WireShape, Quietly, MessageTakenOnce
<1>3. WhereItStands' /\ TimeAddsUp' /\ ComparedWithShown' /\ NotYetTaken'
  BY <1>1 DEF WhereItStands, TimeAddsUp, ComparedWithShown, NotYetTaken, Waits, Reconnects,
              IsSettled, Quietly
<1>4. ExitIsEarned' /\ NothingHidden'
  BY <1>1 DEF ExitIsEarned, NothingHidden
<1>5. QED
  BY <1>2, <1>3, <1>4 DEF CliInv

LEMMA PollKeeps == CliInv /\ Poll => CliInv'
<1>. SUFFICES ASSUME CliInv, Poll PROVE CliInv'
  OBVIOUS
<1>. DEFINE c == Got(agent.state)
<1>1. /\ cli.pc = "poll" /\ Quietly /\ cli \in Process /\ cli.exit = "none"
      /\ cmd.wait /\ cmd.op # "subscribe" /\ cli.budget # NoDeadline
      /\ quiet + cli.budget >= Timeout /\ quiet \in 0 .. Timeout
  BY DEF Poll, CliInv, CliShape, WhereItStands, Waits, TimeAddsUp
<1>2. AgentShape' /\ WireShape' /\ agent'.taken <= 1 /\ agent.state \in Seen
  BY <1>1 DEF CliInv, CliShape, AgentShape, WireShape, MessageTakenOnce, Quietly
<1>3. /\ c \in Process /\ c.shown = c.last /\ c.exit = "none" /\ c.budget = cli.budget
  BY <1>1, <1>2 DEF Got, Process
<1>4. \/ IsSettled(c.last) /\ Finish(c, "ok")
      \/ ~IsSettled(c.last) /\ c.budget = 0 /\ Finish(c, "timeout")
      \/ ~IsSettled(c.last) /\ c.budget # 0 /\ cli' = Nap(c)
  BY DEF Poll
<1>. HIDE DEF c
<1>5. CASE IsSettled(c.last) /\ Finish(c, "ok")
  BY <1>1, <1>2, <1>3, <1>5, FinishKeeps DEF Quietly
<1>6. CASE ~IsSettled(c.last) /\ c.budget = 0 /\ Finish(c, "timeout")
  <2>1. quiet = Timeout
    BY <1>1, <1>3, <1>6, CliBounds
  <2>2. QED
    BY <1>1, <1>2, <1>3, <1>6, <2>1, FinishKeeps DEF Quietly
<1>7. CASE cli' = Nap(c)
  BY <1>1, <1>3, <1>7, NapKeeps
<1>8. QED
  BY <1>4, <1>5, <1>6, <1>7

LEMMA WakeKeeps == CliInv /\ Wake => CliInv'
<1>. SUFFICES ASSUME CliInv, Wake PROVE CliInv'
  OBVIOUS
<1>. DEFINE p == IF cmd.op = "subscribe" THEN "resubscribe" ELSE "poll"
<1>1. /\ cli.pc = "nap" /\ Quietly /\ cli' = [cli EXCEPT !.pc = p]
      /\ cli \in Process /\ cli.exit = "none" /\ cli.shown = cli.last
      /\ Waits \/ Reconnects
  BY DEF Wake, CliInv, CliShape, WhereItStands, NothingHidden
<1>2. p \in Places /\ p \in {"resubscribe", "poll"} /\ (p = "poll" <=> cmd.op # "subscribe")
  BY DEF Places
<1>. HIDE DEF p
<1>3. /\ cli' \in Process /\ cli'.pc = p /\ cli'.budget = cli.budget
      /\ cli'.last = cli.last /\ cli'.shown = cli.shown /\ cli'.exit = "none"
  BY <1>1, <1>2 DEF Process
<1>4. CliShape' /\ MessageTakenOnce'
  BY <1>1, <1>3 DEF CliInv, CliShape, AgentShape, WireShape, Quietly, MessageTakenOnce
<1>5. WhereItStands' /\ TimeAddsUp' /\ ComparedWithShown' /\ NotYetTaken'
  BY <1>1, <1>2, <1>3 DEF CliInv, WhereItStands, TimeAddsUp, ComparedWithShown, NotYetTaken,
                          Waits, Reconnects, IsSettled, Quietly
<1>6. ExitIsEarned' /\ NothingHidden'
  BY <1>1, <1>3 DEF ExitIsEarned, NothingHidden
<1>7. QED
  BY <1>4, <1>5, <1>6 DEF CliInv

-----------------------------------------------------------------------------
(* Subscribing, reading and reconnecting.                                  *)

(* A stream that begins with the task it is about, whatever was printed    *)
(* before it is what its first event is compared with.                     *)
LEMMA AttachKeeps ==
  ASSUME CliInv, UNCHANGED <<cmd, agent, quiet>>, Attach(cli),
         cmd.op = "subscribe", cli.exit = "none"
  PROVE  CliInv'
<1>1. /\ cli' = [cli EXCEPT !.pc = "read", !.before = cli.last]
      /\ wire' = <<Event("Task", agent.state)>>
  BY DEF Attach
<1>2. cli \in Process /\ agent.state \in Seen /\ cli.shown = cli.last
  BY DEF CliInv, CliShape, AgentShape, NothingHidden
<1>3. /\ cli' \in Process /\ cli'.pc = "read" /\ cli'.budget = cli.budget
      /\ cli'.before = cli.last /\ cli'.last = cli.last /\ cli'.shown = cli.last
      /\ cli'.exit = "none"
  BY <1>1, <1>2 DEF Process, Places
<1>4. WireShape'
  <2>1. Event("Task", agent.state) \in WireEvent
    BY <1>2 DEF Event, WireEvent
  <2>2. QED
    BY <1>1, <2>1, CliBounds DEF WireShape
<1>5. CliShape' /\ MessageTakenOnce'
  BY <1>3, <1>4 DEF CliInv, CliShape, AgentShape, MessageTakenOnce
<1>6. WhereItStands' /\ TimeAddsUp' /\ ComparedWithShown' /\ NotYetTaken'
  BY <1>3 DEF CliInv, WhereItStands, TimeAddsUp, ComparedWithShown, NotYetTaken
<1>7. ExitIsEarned' /\ NothingHidden'
  BY <1>3 DEF ExitIsEarned, NothingHidden
<1>8. QED
  BY <1>5, <1>6, <1>7 DEF CliInv

LEMMA SubscribeKeeps == CliInv /\ Subscribe => CliInv'
<1>. SUFFICES ASSUME CliInv, Subscribe PROVE CliInv'
  OBVIOUS
<1>1. /\ UNCHANGED <<cmd, agent, quiet>> /\ cli \in Process
      /\ cmd.op = "subscribe" /\ cli.exit = "none"
  BY DEF Subscribe, CliInv, CliShape, WhereItStands
<1>2. CASE Attach(cli)
  BY <1>1, <1>2, AttachKeeps
<1>3. CASE Finish(cli, "error") /\ UNCHANGED wire
  <2>1. AgentShape' /\ WireShape' /\ agent'.taken <= 1
    BY <1>1, <1>3 DEF CliInv, CliShape, AgentShape, WireShape, MessageTakenOnce
  <2>2. QED
    BY <1>1, <1>3, <2>1, FinishKeeps DEF CliInv, TimeAddsUp
<1>4. QED
  BY <1>2, <1>3 DEF Subscribe

(* An event that is not printed says what was printed already.             *)
LEMMA ReadKeeps == CliInv /\ Read => CliInv'
<1>. SUFFICES ASSUME CliInv, Read PROVE CliInv'
  OBVIOUS
<1>. DEFINE e == Head(wire)
            l == IF e.state = NoState THEN cli.last ELSE e.state
            c == [cli EXCEPT !.last = l, !.first = FALSE]
<1>1. /\ cli.pc = "read" /\ UNCHANGED <<cmd, agent>> /\ cli \in Process
      /\ cli.exit = "none" /\ cli.shown = cli.last
      /\ cmd.op \in {"subscribe", "send --stream"}
      /\ cli.first => cli.before = cli.last
      /\ cli.budget # NoDeadline => quiet + cli.budget >= Timeout
  BY DEF Read, CliInv, CliShape, WhereItStands, NothingHidden, ComparedWithShown, TimeAddsUp
<1>2. e.state \in Seen /\ WireShape'
  <2>1. wire \in Seq(WireEvent) /\ wire # <<>> /\ wire' = Tail(wire) /\ Len(wire) <= MaxWire
    BY DEF Read, CliInv, CliShape, WireShape
  <2>2. e \in WireEvent
    BY <2>1
  <2>3. Tail(wire) \in Seq(WireEvent) /\ Len(Tail(wire)) <= MaxWire
    BY <2>1, CliBounds
  <2>4. QED
    BY <2>1, <2>2, <2>3 DEF WireEvent, WireShape
<1>3. \/ Finish(c, "error") /\ UNCHANGED quiet
      \/ Suppressed(e) /\ cli' = c /\ UNCHANGED quiet
      \/ ~Suppressed(e) /\ cli' = Printed(c, e) /\ quiet' = 0
  BY DEF Read
<1>. HIDE DEF e
<1>4. l \in Seen
  BY <1>1, <1>2 DEF Process
<1>5. /\ c \in Process /\ c.last = l /\ ~c.first /\ c.shown = cli.shown
      /\ c.budget = cli.budget /\ c.pc = "read" /\ c.exit = "none"
  BY <1>1, <1>4 DEF Process
<1>. HIDE DEF c
<1>6. AgentShape' /\ agent'.taken <= 1
  BY <1>1 DEF CliInv, CliShape, AgentShape, MessageTakenOnce
<1>7. CASE Finish(c, "error") /\ UNCHANGED quiet
  BY <1>1, <1>2, <1>5, <1>6, <1>7, FinishKeeps
<1>8. CASE Suppressed(e) /\ cli' = c /\ UNCHANGED quiet
  <2>1. c.shown = c.last
    BY <1>1, <1>5, <1>8 DEF Suppressed
  <2>2. CliShape' /\ MessageTakenOnce'
    BY <1>1, <1>2, <1>5, <1>6, <1>8 DEF CliInv, CliShape, MessageTakenOnce
  <2>3. WhereItStands' /\ TimeAddsUp' /\ ComparedWithShown' /\ NotYetTaken'
    BY <1>1, <1>5, <1>8 DEF WhereItStands, TimeAddsUp, ComparedWithShown, NotYetTaken
  <2>4. ExitIsEarned' /\ NothingHidden'
    BY <1>5, <1>8, <2>1 DEF ExitIsEarned, NothingHidden
  <2>5. QED
    BY <2>2, <2>3, <2>4 DEF CliInv
<1>9. CASE ~Suppressed(e) /\ cli' = Printed(c, e) /\ quiet' = 0
  <2>1. cli' = [c EXCEPT !.shown = IF e.state = NoState THEN c.shown ELSE e.state,
                         !.budget = NoDeadline]
    BY <1>9 DEF Printed
  <2>2. (IF e.state = NoState THEN c.shown ELSE e.state) = l
    BY <1>1, <1>5
  <2>3. NoDeadline \in NoDeadline .. Timeout /\ 0 \in 0 .. Timeout
    BY CliBounds DEF NoDeadline
  <2>4. /\ cli' \in Process /\ cli'.last = l /\ cli'.shown = l /\ ~cli'.first
        /\ cli'.budget = NoDeadline /\ cli'.pc = "read" /\ cli'.exit = "none"
    BY <1>4, <1>5, <2>1, <2>2, <2>3 DEF Process
  <2>5. CliShape' /\ MessageTakenOnce'
    BY <1>1, <1>2, <1>6, <1>9, <2>3, <2>4 DEF CliInv, CliShape, MessageTakenOnce
  <2>6. WhereItStands' /\ TimeAddsUp' /\ ComparedWithShown' /\ NotYetTaken'
    BY <1>1, <2>4 DEF WhereItStands, TimeAddsUp, ComparedWithShown, NotYetTaken
  <2>7. ExitIsEarned' /\ NothingHidden'
    BY <2>4 DEF ExitIsEarned, NothingHidden
  <2>8. QED
    BY <2>5, <2>6, <2>7 DEF CliInv
<1>10. QED
  BY <1>3, <1>7, <1>8, <1>9

(* The end of a stream: an outage that is under way keeps its deadline, a  *)
(* new one gets the whole timeout.                                         *)
LEMMA OverKeeps ==
  ASSUME CliInv, UNCHANGED <<cmd, agent, quiet>>, WireShape', cli.pc = "read",
         NEW cut \in BOOLEAN, Over(cut)
  PROVE  CliInv'
<1>1. /\ cli \in Process /\ cli.exit = "none" /\ cli.shown = cli.last
      /\ cmd.op \in {"subscribe", "send --stream"}
      /\ cli.budget # NoDeadline => quiet + cli.budget >= Timeout
      /\ quiet \in 0 .. Timeout
  BY DEF CliInv, CliShape, WhereItStands, NothingHidden, TimeAddsUp
<1>2. AgentShape' /\ agent'.taken <= 1
  BY DEF CliInv, CliShape, AgentShape, MessageTakenOnce
<1>3. ASSUME NEW how \in {"ok", "error"}, Finish(cli, how),
             cmd.op = "send --stream" \/ IsSettled(cli.last)
      PROVE  CliInv'
  BY <1>1, <1>2, <1>3, FinishKeeps
<1>4. CASE cmd.op = "send --stream"
  <2>1. Finish(cli, IF cut THEN "error" ELSE "ok")
    BY <1>4 DEF Over
  <2>2. QED
    BY <1>3, <1>4, <2>1
<1>5. CASE cmd.op = "subscribe" /\ IsSettled(cli.last)
  <2>1. Finish(cli, "ok")
    BY <1>5 DEF Over
  <2>2. QED
    BY <1>3, <1>5, <2>1
<1>6. CASE cmd.op = "subscribe" /\ ~IsSettled(cli.last)
  <2>1. cli' = [cli EXCEPT !.pc = "retry", !.budget = BudgetAtCut]
    BY <1>6 DEF Over
  <2>2. /\ BudgetAtCut \in NoDeadline .. Timeout /\ BudgetAtCut # NoDeadline
        /\ quiet + BudgetAtCut >= Timeout
    <3>1. cli.budget \in NoDeadline .. Timeout
      BY <1>1 DEF Process
    <3>2. CASE cli.budget = NoDeadline
      <4>1. BudgetAtCut = Timeout
        BY <3>2 DEF BudgetAtCut
      <4>2. quiet \in 0 .. Timeout
        BY <1>1
      <4>3. QED
        BY <4>1, <4>2, CliBounds DEF NoDeadline
    <3>3. CASE cli.budget # NoDeadline
      <4>1. BudgetAtCut = cli.budget
        BY <3>3 DEF BudgetAtCut
      <4>2. QED
        BY <1>1, <3>1, <3>3, <4>1
    <3>4. QED
      BY <3>2, <3>3
  <2>3. /\ cli' \in Process /\ cli'.pc = "retry" /\ cli'.budget = BudgetAtCut
        /\ cli'.last = cli.last /\ cli'.shown = cli.shown /\ cli'.exit = "none"
    BY <1>1, <2>1, <2>2 DEF Process, Places
  <2>4. CliShape' /\ MessageTakenOnce'
    BY <1>2, <2>3 DEF CliInv, CliShape, MessageTakenOnce
  <2>5. WhereItStands' /\ TimeAddsUp' /\ ComparedWithShown' /\ NotYetTaken'
    BY <1>1, <1>6, <2>2, <2>3
       DEF WhereItStands, TimeAddsUp, ComparedWithShown, NotYetTaken, Reconnects, IsSettled
  <2>6. ExitIsEarned' /\ NothingHidden'
    BY <1>1, <2>3 DEF ExitIsEarned, NothingHidden
  <2>7. QED
    BY <2>4, <2>5, <2>6 DEF CliInv
<1>7. QED
  BY <1>1, <1>4, <1>5, <1>6

LEMMA StreamEndsKeeps == CliInv /\ StreamEnds => CliInv'
<1>. SUFFICES ASSUME CliInv, StreamEnds PROVE CliInv'
  OBVIOUS
<1>1. /\ cli.pc = "read" /\ Over(FALSE) /\ UNCHANGED <<cmd, agent, wire, quiet>>
  BY DEF StreamEnds, Quietly
<1>2. WireShape'
  BY <1>1 DEF CliInv, CliShape, WireShape
<1>3. QED
  BY <1>1, <1>2, OverKeeps

LEMMA StreamCutKeeps == CliInv /\ StreamCut => CliInv'
<1>. SUFFICES ASSUME CliInv, StreamCut PROVE CliInv'
  OBVIOUS
<1>1. /\ cli.pc = "read" /\ wire' = <<>> /\ UNCHANGED <<cmd, agent, quiet>>
      /\ (\E cut \in BOOLEAN : Over(cut)) \/ Finish(cli, "error")
  BY DEF StreamCut
<1>2. WireShape' /\ AgentShape' /\ agent'.taken <= 1 /\ cli \in Process
  BY <1>1, CliBounds DEF CliInv, CliShape, WireShape, AgentShape, MessageTakenOnce
<1>3. CASE \E cut \in BOOLEAN : Over(cut)
  BY <1>1, <1>2, <1>3, OverKeeps
<1>4. CASE Finish(cli, "error")
  BY <1>1, <1>2, <1>4, FinishKeeps DEF CliInv, TimeAddsUp
<1>5. QED
  BY <1>1, <1>3, <1>4

LEMMA RetryKeeps == CliInv /\ Retry => CliInv'
<1>. SUFFICES ASSUME CliInv, Retry PROVE CliInv'
  OBVIOUS
<1>. DEFINE c == [cli EXCEPT !.first = TRUE]
<1>1. /\ cli \in Process /\ cli.exit = "none" /\ cli.shown = cli.last /\ Quietly
      /\ cmd.op = "subscribe" /\ cli.budget # NoDeadline /\ ~IsSettled(cli.last)
      /\ quiet + cli.budget >= Timeout /\ quiet \in 0 .. Timeout
  BY DEF Retry, CliInv, CliShape, WhereItStands, Reconnects, NothingHidden, TimeAddsUp
<1>2. CASE cli.budget = 0 /\ Finish(cli, "timeout")
  <2>1. AgentShape' /\ WireShape' /\ agent'.taken <= 1
    BY <1>1 DEF CliInv, CliShape, AgentShape, WireShape, MessageTakenOnce, Quietly
  <2>2. quiet = Timeout
    BY <1>1, <1>2, CliBounds
  <2>3. QED
    BY <1>1, <1>2, <2>1, <2>2, FinishKeeps DEF Quietly
<1>3. CASE cli' = Nap(c)
  <2>1. /\ c \in Process /\ c.shown = c.last /\ c.last = cli.last /\ c.exit = "none"
        /\ c.budget = cli.budget
    BY <1>1 DEF Process
  <2>. HIDE DEF c
  <2>2. QED
    BY <1>1, <1>3, <2>1, NapKeeps
<1>4. QED
  BY <1>2, <1>3 DEF Retry

LEMMA ResubscribeKeeps == CliInv /\ Resubscribe => CliInv'
<1>. SUFFICES ASSUME CliInv, Resubscribe PROVE CliInv'
  OBVIOUS
<1>1. /\ UNCHANGED <<cmd, agent, quiet>> /\ cli \in Process
      /\ cli.exit = "none" /\ cli.shown = cli.last /\ Reconnects
  BY DEF Resubscribe, CliInv, CliShape, WhereItStands, NothingHidden
<1>2. CASE Attach(cli)
  BY <1>1, <1>2, AttachKeeps DEF Reconnects
<1>3. ASSUME NEW why \in {"unreachable", "UNSUPPORTED_OPERATION"},
             cli' = Refused(why), UNCHANGED wire
      PROVE  CliInv'
  <2>1. /\ cli' \in Process /\ cli'.pc = "retry" /\ cli'.budget = cli.budget
        /\ cli'.last = cli.last /\ cli'.shown = cli.last /\ cli'.exit = "none"
    BY <1>1, <1>3 DEF Refused, Process, Places
  <2>2. CliShape' /\ MessageTakenOnce'
    BY <1>1, <1>3, <2>1 DEF CliInv, CliShape, AgentShape, WireShape, MessageTakenOnce
  <2>3. WhereItStands' /\ TimeAddsUp' /\ ComparedWithShown' /\ NotYetTaken'
    BY <1>1, <2>1 DEF CliInv, WhereItStands, TimeAddsUp, ComparedWithShown, NotYetTaken,
                      Reconnects, IsSettled
  <2>4. ExitIsEarned' /\ NothingHidden'
    BY <2>1 DEF ExitIsEarned, NothingHidden
  <2>5. QED
    BY <2>2, <2>3, <2>4 DEF CliInv
<1>4. QED
  BY <1>2, <1>3 DEF Resubscribe

-----------------------------------------------------------------------------
(* The agent and the clock.                                                *)

LEMMA AgentMovesKeeps == CliInv /\ AgentMoves => CliInv'
<1>. SUFFICES ASSUME CliInv, AgentMoves PROVE CliInv'
  OBVIOUS
<1>1. /\ UNCHANGED <<cmd, cli, quiet>> /\ Len(wire) < MaxWire
      /\ wire \in Seq(WireEvent) /\ agent \in [state : Seen, streams : BOOLEAN, taken : Nat]
      /\ agent.taken <= 1
  BY DEF AgentMoves, CliInv, CliShape, WireShape, AgentShape, MessageTakenOnce
<1>2. ASSUME NEW e \in WireEvent, AgentEmits(e) PROVE WireShape'
  <2>1. /\ Append(wire, e) \in Seq(WireEvent) /\ Len(Append(wire, e)) = Len(wire) + 1
        /\ Len(wire) \in Nat
    BY <1>1
  <2>2. QED
    BY <1>1, <1>2, <2>1, CliBounds DEF AgentEmits, WireShape
<1>3. AgentShape' /\ agent'.taken = agent.taken /\ WireShape'
  <2>1. ASSUME NEW s \in States, agent' = [agent EXCEPT !.state = s],
               AgentEmits(Event("StatusUpdate", s))
        PROVE  AgentShape' /\ agent'.taken = agent.taken /\ WireShape'
    <3>1. s \in Seen /\ Event("StatusUpdate", s) \in WireEvent
      BY StatesAreSeen DEF Event, WireEvent
    <3>2. QED
      BY <1>1, <1>2, <2>1, <3>1 DEF AgentShape
  <2>2. ASSUME UNCHANGED agent, AgentEmits(Event("ArtifactUpdate", NoState))
        PROVE  AgentShape' /\ agent'.taken = agent.taken /\ WireShape'
    <3>1. Event("ArtifactUpdate", NoState) \in WireEvent
      BY StatesAreSeen DEF Event, WireEvent
    <3>2. QED
      BY <1>1, <1>2, <2>2, <3>1 DEF AgentShape
  <2>3. QED
    BY <2>1, <2>2 DEF AgentMoves
<1>4. CliShape'
  BY <1>1, <1>3 DEF CliInv, CliShape
<1>5. WhereItStands' /\ TimeAddsUp' /\ ComparedWithShown' /\ NotYetTaken'
  BY <1>1, <1>3 DEF CliInv, WhereItStands, TimeAddsUp, ComparedWithShown, NotYetTaken,
                    Waits, Reconnects, IsSettled
<1>6. ExitIsEarned' /\ NothingHidden' /\ MessageTakenOnce'
  BY <1>1, <1>3 DEF CliInv, ExitIsEarned, NothingHidden, MessageTakenOnce, IsSettled
<1>7. QED
  BY <1>4, <1>5, <1>6 DEF CliInv

(* A tick takes from the time left what it adds to the silence.            *)
LEMMA TickKeeps == CliInv /\ Tick => CliInv'
<1>. SUFFICES ASSUME CliInv, Tick PROVE CliInv'
  OBVIOUS
<1>. DEFINE b == cli.budget - 1
            n == IF cli.nap > 0 THEN cli.nap - 1 ELSE 0
<1>1. /\ cli.pc # "done" /\ cli.budget > 0 /\ cli' = [cli EXCEPT !.budget = b, !.nap = n]
      /\ quiet' = IF quiet < Timeout THEN quiet + 1 ELSE quiet
      /\ UNCHANGED <<cmd, agent, wire>> /\ cli \in Process /\ quiet \in 0 .. Timeout
      /\ cli.budget # NoDeadline => quiet + cli.budget >= Timeout
      /\ cli.exit = "none"
  BY DEF Tick, CliInv, CliShape, TimeAddsUp, WhereItStands
<1>2. /\ cli.budget \in NoDeadline .. Timeout /\ cli.nap \in 0 .. Interval
  BY <1>1 DEF Process
<1>3. /\ b \in NoDeadline .. Timeout /\ n \in 0 .. Interval /\ b # NoDeadline
      /\ quiet' \in 0 .. Timeout /\ quiet' + b >= Timeout /\ cli.budget # NoDeadline
  BY <1>1, <1>2, CliBounds DEF NoDeadline
<1>. HIDE DEF b, n
<1>4. /\ cli' \in Process /\ cli'.pc = cli.pc /\ cli'.budget = b /\ cli'.last = cli.last
      /\ cli'.shown = cli.shown /\ cli'.exit = cli.exit /\ cli'.first = cli.first
      /\ cli'.before = cli.before
  BY <1>1, <1>3 DEF Process
<1>5. CliShape' /\ MessageTakenOnce'
  BY <1>1, <1>3, <1>4 DEF CliInv, CliShape, AgentShape, WireShape, MessageTakenOnce
<1>6. WhereItStands' /\ TimeAddsUp' /\ ComparedWithShown' /\ NotYetTaken'
  BY <1>1, <1>3, <1>4 DEF CliInv, WhereItStands, TimeAddsUp, ComparedWithShown, NotYetTaken,
                          Waits, Reconnects, IsSettled
<1>7. ExitIsEarned' /\ NothingHidden'
  BY <1>1, <1>4 DEF CliInv, ExitIsEarned, NothingHidden
<1>8. QED
  BY <1>5, <1>6, <1>7 DEF CliInv

-----------------------------------------------------------------------------

LEMMA NextCliInv == CliInv /\ [CliNext]_cliVars => CliInv'
<1>. SUFFICES ASSUME CliInv, [CliNext]_cliVars PROVE CliInv'
  OBVIOUS
<1>1. CASE CliStep
  BY <1>1, SendMessageKeeps, GetTaskKeeps, CancelTaskKeeps, SendStreamingKeeps,
     CallFailsKeeps, PollKeeps, WakeKeeps, SubscribeKeeps, ReadKeeps, RetryKeeps,
     ResubscribeKeeps DEF CliStep
<1>2. CASE StreamEnds
  BY <1>2, StreamEndsKeeps
<1>3. CASE StreamCut
  BY <1>3, StreamCutKeeps
<1>4. CASE AgentMoves
  BY <1>4, AgentMovesKeeps
<1>5. CASE Tick
  BY <1>5, TickKeeps
<1>6. CASE UNCHANGED cliVars
  BY <1>6 DEF cliVars, CliInv, CliShape, AgentShape, WireShape, WhereItStands, Waits,
              Reconnects, TimeAddsUp, ComparedWithShown, NotYetTaken, ExitIsEarned,
              NothingHidden, MessageTakenOnce, IsSettled
<1>7. QED
  BY <1>1, <1>2, <1>3, <1>4, <1>5, <1>6 DEF CliNext

LEMMA CliInvariant == CliSpec => []CliInv
<1>1. QED
  BY InitCliInv, NextCliInv, PTL DEF CliSpec

(* The locals of a task command keep their types: the time left and the    *)
(* nap never leave their ranges, and the wire holds its bound.             *)
THEOREM CliTypeCorrect == CliSpec => []CliTypeOK
<1>1. CliInv => CliTypeOK
  BY DEF CliInv, CliShape, AgentShape, WireShape, CliTypeOK, Process, Seen
<1>2. QED
  BY <1>1, CliInvariant, PTL

(* A waiting command succeeds only on a settled task, and times out only   *)
(* after a whole --timeout of silence: the deadline of wait_for_task_      *)
(* settled and outage_deadline of subscribe_with_resumption add up.        *)
THEOREM ExitsAreEarned == CliSpec => []ExitIsEarned
<1>1. CliInv => ExitIsEarned
  BY DEF CliInv
<1>2. QED
  BY <1>1, CliInvariant, PTL

(* What subscribe_with_resumption leaves out after a reconnect had been    *)
(* printed before.                                                         *)
THEOREM NothingIsHidden == CliSpec => []NothingHidden
<1>1. CliInv => NothingHidden
  BY DEF CliInv
<1>2. QED
  BY <1>1, CliInvariant, PTL

(* send --stream falls back to a plain send only if the agent did not take *)
(* the message.                                                            *)
THEOREM MessageIsTakenOnce == CliSpec => []MessageTakenOnce
<1>1. CliInv => MessageTakenOnce
  BY DEF CliInv
<1>2. QED
  BY <1>1, CliInvariant, PTL

-----------------------------------------------------------------------------
(***************************************************************************)
(* The start of an invocation.                                             *)
(***************************************************************************)

StartSpec == StartInit /\ [][StartNext]_startVars

(* A .env found in the working tree is not asked for these.                *)
LocalOf(k) == IF launch.discovered /\ k \in NotFromDiscoveredDotenv THEN Unset ELSE launch.local[k]

(* The environment of the process, before and after the .env files.        *)
Inherited ==
  [k \in Keys |-> [value |-> launch.env[k],
                   source |-> IF launch.env[k] = Unset THEN "default" ELSE "env"]]

Completed ==
  [k \in Keys |->
     CASE launch.env[k] # Unset -> [value |-> launch.env[k], source |-> "env"]
       [] launch.env[k] = Unset /\ LocalOf(k) # Unset -> [value |-> LocalOf(k), source |-> "local"]
       [] launch.env[k] = Unset /\ LocalOf(k) = Unset /\ launch.global[k] # Unset
            -> [value |-> launch.global[k], source |-> "global"]
       [] OTHER -> [value |-> Unset, source |-> "default"]]

Stages == {"load", "parse", "run", "prepare", "select", "fetch", "connect", "gate", "call", "done"}

StartExits ==
  /\ at \in Stages /\ exitStatus \in -1 .. 5 /\ (exitStatus = -1 <=> at # "done")

RefusedExit == exitStatus = 2

Answered == exitStatus \in {0, 1, 5}

CreatesPush == launch.op = "push create"

(* What the process did by now: the network is not touched before the card *)
(* is fetched, nor with a client that cannot be built, and no request is   *)
(* made before the last stage.                                             *)
Deeds ==
  /\ touched \in BOOLEAN /\ called \in BOOLEAN
  /\ at \in {"load", "parse", "run", "prepare", "select", "fetch"} => ~touched
  /\ at = "connect" /\ Unbuildable => ~touched
  /\ at # "done" => ~called /\ ~RefusedExit
  /\ called => Answered
  /\ RefusedExit /\ ~CreatesPush => ~touched

Environment ==
  /\ launch \in Launches
  /\ environ = IF at = "load" THEN Inherited ELSE Completed

StartInv == StartExits /\ Deeds /\ Environment

-----------------------------------------------------------------------------

(* What an error exits with.                                               *)
LEMMA ExitCodes ==
  /\ \A e \in {"Usage", "InvalidInput", "ReadFile"} : ExitCode(e) = 2
  /\ \A e \in {"CardFile", "unreachable", "not found"} : ExitCode(e) = 3
  /\ ExitCode("unauthorized") = 4 /\ ExitCode("Timeout") = 5
  /\ \A e \in {"CardInvalid", "CardSchemaInvalid", "A2A", "Json", "SaveFilePart"} : ExitCode(e) = 1
BY DEF ExitCode

LEMMA StartInitInv == StartInit => StartInv
<1> SUFFICES ASSUME StartInit PROVE StartInv
  OBVIOUS
<1>1. Environment
  BY DEF StartInit, Environment, Inherited
<1>2. at = "load" /\ ~touched /\ ~called /\ exitStatus = -1
  BY DEF StartInit
<1>3. touched \in BOOLEAN /\ called \in BOOLEAN
  BY DEF StartInit
<1>4. StartExits /\ ~RefusedExit
  BY <1>2 DEF StartExits, RefusedExit, Stages
<1>5. Deeds
  BY <1>2, <1>3, <1>4, Zenon DEF Deeds
<1> QED BY <1>1, <1>4, <1>5 DEF StartInv

(* The two files, one after the other, leave every setting with the        *)
(* strongest source that gives it.                                         *)
LEMMA DotenvCompletes ==
  ASSUME environ = Inherited
  PROVE  ApplyDotenvFile(ApplyDotenvFile(environ, launch.global, "global", FALSE),
                         launch.local, "local", launch.discovered) = Completed
BY DEF Inherited, Completed, ApplyDotenvFile, LocalOf, NotFromDiscoveredDotenv, Keys

LEMMA StartNextInv == StartInv /\ [StartNext]_startVars => StartInv'
<1> SUFFICES ASSUME StartInv, [StartNext]_startVars PROVE StartInv'
  OBVIOUS
<1> USE DEF StartInv
<1>0. CASE UNCHANGED startVars
  BY <1>0 DEF startVars, StartExits, Deeds, RefusedExit, Answered, Environment, Inherited, Completed, LocalOf,
              Unbuildable, Setting, Given, CreatesPush
<1>1. CASE LoadDotenvConfig
  <2>1. environ' = Completed
    BY <1>1, DotenvCompletes DEF LoadDotenvConfig, Environment
  <2>2. Environment'
    BY <1>1, <2>1 DEF LoadDotenvConfig, Goes, Environment, Completed, LocalOf
  <2>3. at = "load" /\ at' = "parse" /\ exitStatus' = exitStatus /\ touched' = touched /\ called' = called
    BY <1>1 DEF LoadDotenvConfig, Goes
  <2>4. StartExits' /\ ~RefusedExit'
    BY <2>3 DEF StartExits, RefusedExit, Stages
  <2>5. Deeds'
    BY <2>3, <2>4, Zenon DEF Deeds
  <2> QED BY <2>2, <2>4, <2>5
<1>2. ASSUME launch' = launch, environ' = environ, at # "load", at' # "load"
      PROVE  Environment' /\ (Unbuildable' <=> Unbuildable) /\ (CreatesPush' <=> CreatesPush)
  <2>1. launch' = launch /\ environ' = environ
    BY <1>2
  <2>2. Completed' = Completed
    BY <2>1 DEF Completed, LocalOf
  <2>3. Environment'
    BY <1>2, <2>2 DEF Environment
  <2>4. Unbuildable' <=> Unbuildable
    BY <2>1 DEF Unbuildable, Setting, Given
  <2>5. CreatesPush' <=> CreatesPush
    BY <2>1 DEF CreatesPush
  <2> QED BY <2>3, <2>4, <2>5
<1>3. CASE ParseArgs
  <2>1. /\ at = "parse" /\ launch' = launch /\ environ' = environ
        /\ touched' = touched /\ called' = called
    BY <1>3 DEF ParseArgs, Step, Locally
  <2>2. \/ at' = "done" /\ exitStatus' \in {0, 2}
        \/ at' = "run" /\ exitStatus' = exitStatus
    BY <1>3, ExitCodes DEF ParseArgs, Fails, Exit, Goes
  <2>3. Environment' /\ (Unbuildable' <=> Unbuildable) /\ (CreatesPush' <=> CreatesPush)
    BY <1>2, <2>1, <2>2
  <2>4. StartExits' /\ (at' # "done" => ~RefusedExit')
    BY <2>1, <2>2 DEF StartExits, RefusedExit, Stages
  <2>5. Deeds'
    BY <2>1, <2>2, <2>3, <2>4, Zenon DEF Deeds
  <2> QED BY <2>3, <2>4, <2>5
<1>4. CASE Run
  <2>1. /\ at = "run" /\ launch' = launch /\ environ' = environ
        /\ touched' = touched /\ called' = called
    BY <1>4 DEF Run, Step, Locally
  <2>2. \/ at' = "done" /\ exitStatus' \in {0, 2}
        \/ at' = "prepare" /\ exitStatus' = exitStatus
    BY <1>4, ExitCodes DEF Run, Fails, Exit, Goes
  <2>3. Environment' /\ (Unbuildable' <=> Unbuildable) /\ (CreatesPush' <=> CreatesPush)
    BY <1>2, <2>1, <2>2
  <2>4. StartExits' /\ (at' # "done" => ~RefusedExit')
    BY <2>1, <2>2 DEF StartExits, RefusedExit, Stages
  <2>5. Deeds'
    BY <2>1, <2>2, <2>3, <2>4, Zenon DEF Deeds
  <2> QED BY <2>3, <2>4, <2>5
<1>5. CASE PrepareInput
  <2>1. /\ at = "prepare" /\ launch' = launch /\ environ' = environ
        /\ touched' = touched /\ called' = called
    BY <1>5 DEF PrepareInput, Step, Locally
  <2>2. \/ at' = "done" /\ exitStatus' \in {2}
        \/ at' = "select" /\ exitStatus' = exitStatus
    BY <1>5, ExitCodes DEF PrepareInput, Fails, Exit, Goes
  <2>3. Environment' /\ (Unbuildable' <=> Unbuildable) /\ (CreatesPush' <=> CreatesPush)
    BY <1>2, <2>1, <2>2
  <2>4. StartExits' /\ (at' # "done" => ~RefusedExit')
    BY <2>1, <2>2 DEF StartExits, RefusedExit, Stages
  <2>5. Deeds'
    BY <2>1, <2>2, <2>3, <2>4, Zenon DEF Deeds
  <2> QED BY <2>3, <2>4, <2>5
<1>6. CASE ResolveAgentSelection
  <2>1. /\ at = "select" /\ launch' = launch /\ environ' = environ
        /\ touched' = touched /\ called' = called
    BY <1>6 DEF ResolveAgentSelection, Step, Locally
  <2>2. \/ at' = "done" /\ exitStatus' \in {0, 1, 2}
        \/ at' = "connect" /\ exitStatus' = exitStatus
        \/ at' = "fetch" /\ exitStatus' = exitStatus
    BY <1>6, ExitCodes DEF ResolveAgentSelection, PrintCard, Fails, Exit, Goes
  <2>3. Environment' /\ (Unbuildable' <=> Unbuildable) /\ (CreatesPush' <=> CreatesPush)
    BY <1>2, <2>1, <2>2
  <2>4. StartExits' /\ (at' # "done" => ~RefusedExit')
    BY <2>1, <2>2 DEF StartExits, RefusedExit, Stages
  <2>5. Deeds'
    BY <2>1, <2>2, <2>3, <2>4, Zenon DEF Deeds
  <2> QED BY <2>3, <2>4, <2>5
<1>7. CASE ResolveAgentCard
  <2>1. at = "fetch" /\ launch' = launch /\ environ' = environ /\ called' = called
    BY <1>7 DEF ResolveAgentCard, Step
  <2>2. ~touched /\ ~called /\ exitStatus = -1
    BY <2>1 DEF Deeds, StartExits
  <2>3. HasCard => \/ at' = "done" /\ exitStatus' \in {0, 1}
                   \/ at' = "connect" /\ exitStatus' = exitStatus
    BY ExitCodes DEF HasCard, PrintCard, Fails, Exit, Goes
  <2>4. ASSUME NEW e \in {"CardFile", "CardInvalid"}, Fails(e)
        PROVE  at' = "done" /\ exitStatus' \in {1, 3}
    BY <2>4, ExitCodes DEF Fails, Exit
  <2>5. ASSUME NEW e \in {"unreachable", "not found", "unauthorized", "CardInvalid"}, Fails(e)
        PROVE  at' = "done" /\ exitStatus' \in {1, 3, 4}
    BY <2>5, ExitCodes DEF Fails, Exit
  <2>6. Fails("InvalidInput") => at' = "done" /\ exitStatus' = 2
    BY ExitCodes DEF Fails, Exit
  <2>7. CASE touched' = touched /\ (HasCard \/ \E e \in {"CardFile", "CardInvalid"} : Fails(e))
    <3>1. \/ at' = "done" /\ exitStatus' \in {0, 1, 3}
          \/ at' = "connect" /\ exitStatus' = exitStatus
      BY <2>3, <2>4, <2>7
    <3>2. StartExits' /\ ~RefusedExit'
      BY <2>2, <3>1 DEF StartExits, RefusedExit, Stages
    <3>3. Deeds'
      BY <2>1, <2>2, <2>7, <3>1, <3>2, Zenon DEF Deeds
    <3> QED BY <1>2, <2>1, <3>1, <3>2, <3>3
  <2>8. CASE /\ touched' = TRUE /\ ~Unbuildable
             /\ \/ HasCard
                \/ \E e \in {"unreachable", "not found", "unauthorized", "CardInvalid"} : Fails(e)
    <3>1. \/ at' = "done" /\ exitStatus' \in {0, 1, 3, 4}
          \/ at' = "connect" /\ exitStatus' = exitStatus
      BY <2>3, <2>5, <2>8
    <3>2. StartExits' /\ ~RefusedExit'
      BY <2>2, <3>1 DEF StartExits, RefusedExit, Stages
    <3>3. Environment' /\ ~Unbuildable'
      BY <1>2, <2>1, <2>8, <3>1
    <3>4. Deeds'
      BY <2>1, <2>2, <2>8, <3>1, <3>2, <3>3, Zenon DEF Deeds
    <3> QED BY <3>2, <3>3, <3>4
  <2>9. CASE touched' = touched /\ Fails("InvalidInput")
    <3>1. at' = "done" /\ exitStatus' = 2
      BY <2>6, <2>9
    <3>2. StartExits'
      BY <3>1 DEF StartExits, Stages
    <3>3. Deeds'
      BY <2>1, <2>2, <2>9, <3>1, Zenon DEF Deeds
    <3> QED BY <1>2, <2>1, <3>1, <3>2, <3>3
  <2> QED BY <1>7, <2>7, <2>8, <2>9 DEF ResolveAgentCard
<1>8. CASE ResolveClient
  <2>1. at = "connect" /\ launch' = launch /\ environ' = environ /\ called' = called
    BY <1>8 DEF ResolveClient, Step
  <2>2. \/ at' = "done" /\ exitStatus' = 2 /\ touched' = touched /\ Unbuildable
        \/ touched' \in {touched, TRUE} /\ at' = "done" /\ exitStatus' = 1
        \/ touched' \in {touched, TRUE} /\ at' = "gate" /\ exitStatus' = exitStatus
    BY <1>8, ExitCodes DEF ResolveClient, Fails, Exit, Goes
  <2>3. Environment' /\ (Unbuildable' <=> Unbuildable) /\ (CreatesPush' <=> CreatesPush)
    BY <1>2, <2>1, <2>2
  <2>4. StartExits' /\ (~RefusedExit' \/ (at' = "done" /\ touched' = touched /\ Unbuildable))
    <3>1. \/ at' = "done" /\ exitStatus' \in {1, 2}
          \/ at' = "gate" /\ exitStatus' = exitStatus
      BY <2>2
    <3>2. exitStatus = -1
      BY <2>1 DEF StartExits
    <3>3. StartExits'
      BY <3>1, <3>2 DEF StartExits, Stages
    <3>4. exitStatus' = -1 \/ exitStatus' = 1 => ~RefusedExit'
      BY DEF RefusedExit
    <3> QED BY <2>2, <3>2, <3>3, <3>4
  <2>5. touched \in BOOLEAN /\ called \in BOOLEAN /\ ~called /\ (Unbuildable => ~touched)
    BY <2>1, Zenon DEF Deeds
  <2>6. touched' \in BOOLEAN /\ at' \in {"done", "gate"}
    BY <2>2, <2>5
  <2>7. Deeds'
    BY <2>1, <2>4, <2>5, <2>6, Zenon DEF Deeds
  <2> QED BY <2>3, <2>4, <2>7
<1>9. CASE RequireCapability
  <2>1. /\ at = "gate" /\ launch' = launch /\ environ' = environ
        /\ touched' = touched /\ called' = called
    BY <1>9 DEF RequireCapability, Step, Locally
  <2>2. \/ at' = "done" /\ exitStatus' = 1
        \/ at' = "done" /\ exitStatus' = 2 /\ CreatesPush
        \/ at' = "call" /\ exitStatus' = exitStatus
    BY <1>9, ExitCodes DEF RequireCapability, Fails, Exit, Goes, CreatesPush
  <2>3. Environment' /\ (Unbuildable' <=> Unbuildable) /\ (CreatesPush' <=> CreatesPush)
    BY <1>2, <2>1, <2>2
  <2>4. StartExits' /\ (~RefusedExit' \/ (at' = "done" /\ CreatesPush))
    BY <2>1, <2>2 DEF StartExits, RefusedExit, Stages
  <2>5. Deeds'
    BY <2>1, <2>2, <2>3, <2>4, Zenon DEF Deeds
  <2> QED BY <2>3, <2>4, <2>5
<1>10. CASE CallAgent
  <2>1. /\ at = "call" /\ launch' = launch /\ environ' = environ
        /\ touched' = TRUE /\ called' = TRUE
    BY <1>10 DEF CallAgent, Step
  <2>2. at' = "done" /\ exitStatus' \in {0, 1, 5}
    BY <1>10, ExitCodes DEF CallAgent, Fails, Exit
  <2>3. Environment'
    BY <1>2, <2>1, <2>2
  <2>4. StartExits' /\ Answered' /\ ~RefusedExit'
    BY <2>2 DEF StartExits, Answered, RefusedExit, Stages
  <2>5. Deeds'
    BY <2>1, <2>2, <2>4, Zenon DEF Deeds
  <2> QED BY <2>3, <2>4, <2>5
<1> QED
  BY <1>0, <1>1, <1>3, <1>4, <1>5, <1>6, <1>7, <1>8, <1>9, <1>10 DEF StartNext
(* Every setting has one of the five sources.                              *)
LEMMA SettingsByRank ==
  ASSUME Environment, at # "load", NEW k \in Keys
  PROVE  \E i \in 1 .. 5 :
           /\ Setting(k) = [value |-> SourcesOf(k)[i][2], source |-> SourcesOf(k)[i][1]]
           /\ SourcesOf(k)[i][2] # Unset \/ i = 5
           /\ \A j \in 1 .. i - 1 : SourcesOf(k)[j][2] = Unset
<1> DEFINE W(i) == /\ Setting(k) = [value |-> SourcesOf(k)[i][2], source |-> SourcesOf(k)[i][1]]
                   /\ SourcesOf(k)[i][2] # Unset \/ i = 5
                   /\ \A j \in 1 .. i - 1 : SourcesOf(k)[j][2] = Unset
<1>1. /\ SourcesOf(k)[1] = <<"flag", launch.flags[k]>>
      /\ SourcesOf(k)[2] = <<"env", launch.env[k]>>
      /\ SourcesOf(k)[3] = <<"local", LocalOf(k)>>
      /\ SourcesOf(k)[4] = <<"global", launch.global[k]>>
      /\ SourcesOf(k)[5] = <<"default", Unset>>
  BY DEF SourcesOf, LocalOf, NotFromDiscoveredDotenv
<1>2. environ[k] = CASE launch.env[k] # Unset -> [value |-> launch.env[k], source |-> "env"]
       [] launch.env[k] = Unset /\ LocalOf(k) # Unset -> [value |-> LocalOf(k), source |-> "local"]
       [] launch.env[k] = Unset /\ LocalOf(k) = Unset /\ launch.global[k] # Unset
            -> [value |-> launch.global[k], source |-> "global"]
       [] OTHER -> [value |-> Unset, source |-> "default"]
  BY DEF Environment, Completed
<1>3. /\ SourcesOf(k)[1][2] = launch.flags[k] /\ SourcesOf(k)[2][2] = launch.env[k]
      /\ SourcesOf(k)[3][2] = LocalOf(k) /\ SourcesOf(k)[4][2] = launch.global[k]
  BY <1>1
<1>4. CASE launch.flags[k] # Unset
  <2>1. Setting(k) = [value |-> SourcesOf(k)[1][2], source |-> SourcesOf(k)[1][1]]
    BY <1>1, <1>2, <1>4 DEF Setting
  <2>2. 1 .. 1 - 1 = {}
    OBVIOUS
  <2>3. W(1)
    BY <2>1, <2>2, <1>3, <1>4, Zenon
  <2> QED BY <2>3
<1>5. CASE launch.flags[k] = Unset /\ launch.env[k] # Unset
  <2>1. Setting(k) = [value |-> SourcesOf(k)[2][2], source |-> SourcesOf(k)[2][1]]
    BY <1>1, <1>2, <1>5 DEF Setting
  <2>2. ASSUME NEW j \in 1 .. 2 - 1 PROVE SourcesOf(k)[j][2] = Unset
    <3>1. j \in {1}
      OBVIOUS
    <3> QED BY <1>3, <1>5, <3>1
  <2>3. W(2)
    BY <2>1, <2>2, <1>3, <1>5, Zenon
  <2> QED BY <2>3
<1>6. CASE launch.flags[k] = Unset /\ launch.env[k] = Unset /\ LocalOf(k) # Unset
  <2>1. Setting(k) = [value |-> SourcesOf(k)[3][2], source |-> SourcesOf(k)[3][1]]
    BY <1>1, <1>2, <1>6 DEF Setting
  <2>2. ASSUME NEW j \in 1 .. 3 - 1 PROVE SourcesOf(k)[j][2] = Unset
    <3>1. j \in {1, 2}
      OBVIOUS
    <3> QED BY <1>3, <1>6, <3>1
  <2>3. W(3)
    BY <2>1, <2>2, <1>3, <1>6, Zenon
  <2> QED BY <2>3
<1>7. CASE /\ launch.flags[k] = Unset /\ launch.env[k] = Unset /\ LocalOf(k) = Unset
           /\ launch.global[k] # Unset
  <2>1. Setting(k) = [value |-> SourcesOf(k)[4][2], source |-> SourcesOf(k)[4][1]]
    BY <1>1, <1>2, <1>7 DEF Setting
  <2>2. ASSUME NEW j \in 1 .. 4 - 1 PROVE SourcesOf(k)[j][2] = Unset
    <3>1. j \in {1, 2, 3}
      OBVIOUS
    <3> QED BY <1>3, <1>7, <3>1
  <2>3. W(4)
    BY <2>1, <2>2, <1>3, <1>7, Zenon
  <2> QED BY <2>3
<1>8. CASE /\ launch.flags[k] = Unset /\ launch.env[k] = Unset /\ LocalOf(k) = Unset
           /\ launch.global[k] = Unset
  <2>1. Setting(k) = [value |-> SourcesOf(k)[5][2], source |-> SourcesOf(k)[5][1]]
    BY <1>1, <1>2, <1>8 DEF Setting
  <2>2. ASSUME NEW j \in 1 .. 5 - 1 PROVE SourcesOf(k)[j][2] = Unset
    <3>1. j \in {1, 2, 3, 4}
      OBVIOUS
    <3> QED BY <1>3, <1>8, <3>1
  <2>3. W(5)
    BY <2>1, <2>2, <1>3, <1>8, Zenon
  <2> QED BY <2>3
<1> QED BY <1>4, <1>5, <1>6, <1>7, <1>8

(* For every invocation: a setting comes from the strongest source that    *)
(* gives it, where a discovered .env does not count for ca-cert and        *)
(* unix-socket and counts for all the rest; a usage error needs no         *)
(* network; and after exit status 2, 3 or 4 no request has reached the     *)
(* agent (apply_dotenv_file, exit_code).                                   *)
THEOREM StartsAreSound == StartSpec => []StartIsSound
<1>1. StartInit => StartInv
  BY StartInitInv
<1>2. StartInv /\ [StartNext]_startVars => StartInv'
  BY StartNextInv
<1>3. StartInv => StartIsSound
  <2> SUFFICES ASSUME StartInv PROVE StartIsSound
    OBVIOUS
  <2>1. exitStatus \in {2, 3, 4} => ~called
    <3>1. exitStatus \in {2, 3, 4} => ~Answered
      BY DEF Answered
    <3> QED BY <3>1, Zenon DEF StartInv, Deeds
  <2>2. exitStatus = 2 /\ launch.op # "push create" => ~touched
    BY Zenon DEF StartInv, Deeds, RefusedExit, CreatesPush
  <2>3. at # "load" => \A k \in Keys : \E i \in 1 .. 5 :
          /\ Setting(k) = [value |-> SourcesOf(k)[i][2], source |-> SourcesOf(k)[i][1]]
          /\ SourcesOf(k)[i][2] # Unset \/ i = 5
          /\ \A j \in 1 .. i - 1 : SourcesOf(k)[j][2] = Unset
    BY SettingsByRank DEF StartInv
  <2> QED BY <2>1, <2>2, <2>3, Zenon DEF StartIsSound
<1> QED BY <1>1, <1>2, <1>3, PTL DEF StartSpec

-----------------------------------------------------------------------------
(***************************************************************************)
(* One call of the library.                                                *)
(***************************************************************************)

CallSpec == CallInit /\ [][CallNext]_callVars

Interface == [binding : STRING, url : Seq(STRING), version : Int \X Int, tenant : STRING]

(* The parts of a call, known to be what they are said to be.              *)
LEMMA SetupShape ==
  ASSUME setup \in Setups
  PROVE  /\ card \in Seq(Interface) /\ preferred \in Seq(STRING)
         /\ hooks \in Seq({"param", "version", "old", "any"})
         /\ request.answer \in Answers
BY SetupAssumption DEF card, preferred, hooks, request, Interface

LEMMA CandidatesShape ==
  ASSUME setup \in Setups
  PROVE  Candidates \in SUBSET Nat /\ 0 \notin Candidates
<1>1. card \in Seq(Interface)
  BY SetupShape
<1>2. DOMAIN card = 1 .. Len(card) /\ Len(card) \in Nat
  BY <1>1
<1> QED BY <1>2 DEF Candidates

(* The priority of an interface is the place of its binding among the      *)
(* preferred, or behind all of them.                                       *)
LEMMA PriorityShape ==
  ASSUME setup \in Setups, NEW i \in Candidates
  PROVE  /\ Priority(i) \in Nat
         /\ \/ /\ card[i].binding \notin Range(preferred)
               /\ Priority(i) = Len(preferred) + 1
            \/ /\ Priority(i) \in DOMAIN preferred /\ Priority(i) <= Len(preferred)
               /\ preferred[Priority(i)] = card[i].binding
               /\ card[i].binding \in Range(preferred)
<1> DEFINE places == {k \in DOMAIN preferred : preferred[k] = card[i].binding}
<1>1. preferred \in Seq(STRING)
  BY SetupShape
<1>2. DOMAIN preferred = 1 .. Len(preferred) /\ Len(preferred) \in Nat
  BY <1>1
<1>3. CASE places = {}
  <2>1. Priority(i) = Len(preferred) + 1
    BY <1>3 DEF Priority
  <2>2. card[i].binding \notin Range(preferred)
    BY <1>3, Zenon DEF Range
  <2> QED BY <1>2, <2>1, <2>2
<1>4. CASE places # {}
  <2>1. places \in SUBSET Nat
    BY <1>2
  <2>2. \E k \in places : \A m \in places : k <= m
    BY <1>4, <2>1, LeastNumber
  <2>3. Priority(i) = CHOOSE k \in places : \A m \in places : k <= m
    BY <1>4, Zenon DEF Priority
  <2>4. Priority(i) \in places
    BY <2>2, <2>3, Zenon
  <2>5. card[i].binding \in Range(preferred)
    BY <2>4, Zenon DEF Range
  <2>6. Priority(i) \in DOMAIN preferred /\ preferred[Priority(i)] = card[i].binding
    BY <2>4
  <2> QED BY <1>2, <2>5, <2>6
<1> QED BY <1>3, <1>4

(* Of the interfaces left, one precedes all the others.                    *)
LEMMA ForemostPrecedes ==
  ASSUME setup \in Setups, NEW left \in SUBSET Candidates, left # {}
  PROVE  Foremost(left) \in left /\ \A j \in left \ {Foremost(left)} : Precedes(Foremost(left), j)
<1> DEFINE priorities == {Priority(i) : i \in left}
<1>1. \A i \in left : i \in Nat /\ Priority(i) \in Nat
  BY CandidatesShape, PriorityShape
<1>2. PICK p \in priorities : \A m \in priorities : p <= m
  <2>1. priorities \in SUBSET Nat
    BY <1>1
  <2>2. priorities # {}
    OBVIOUS
  <2> QED BY <2>1, <2>2, LeastNumber
<1> DEFINE best == {i \in left : Priority(i) = p}
<1>3. PICK i \in best : \A j \in best : i <= j
  <2>1. best \in SUBSET Nat
    BY <1>1
  <2>2. best # {}
    BY <1>2
  <2> QED BY <2>1, <2>2, LeastNumber
<1>4. ASSUME NEW j \in left \ {i} PROVE Precedes(i, j)
  <2>1. i \in left /\ Priority(i) = p /\ Priority(i) <= Priority(j)
    BY <1>2, <1>3
  <2>2. i \in Nat /\ j \in Nat /\ Priority(i) \in Nat /\ Priority(j) \in Nat
    BY <1>1, <2>1
  <2>3. Priority(j) = p => i <= j
    BY <1>3
  <2> QED BY <2>1, <2>2, <2>3 DEF Precedes
<1>5. i \in left
  BY <1>3
<1> QED BY <1>4, <1>5, Zenon DEF Foremost

-----------------------------------------------------------------------------
(* The interface in use precedes every other that was not tried.           *)

Selected ==
  /\ setup \in Setups
  /\ pc = "select" => chosen = 0
  /\ chosen # 0 =>
       /\ chosen \in Candidates
       /\ \A i \in Candidates \ (tried \union {chosen}) : Precedes(chosen, i)

LEMMA SelectedIsBest == Selected => SelectionBest
<1> SUFFICES ASSUME Selected, chosen # 0, chosen \in Candidates,
                    NEW i \in Candidates \ (tried \union {chosen}), Precedes(chosen, i)
             PROVE  \/ /\ card[chosen].binding \in Range(preferred)
                       /\ card[i].binding \notin Range(preferred)
                    \/ \E k, m \in DOMAIN preferred :
                         /\ k < m /\ preferred[k] = card[chosen].binding
                         /\ preferred[m] = card[i].binding
                    \/ /\ chosen < i
                       /\ \/ card[i].binding = card[chosen].binding
                          \/ {card[i].binding, card[chosen].binding} \intersect Range(preferred) = {}
  BY DEF Selected, SelectionBest
<1> DEFINE c == card[chosen].binding
           b == card[i].binding
<1>1. setup \in Setups /\ preferred \in Seq(STRING) /\ Len(preferred) \in Nat
  BY SetupShape DEF Selected
<1>2. /\ Priority(i) \in Nat
      /\ \/ b \notin Range(preferred) /\ Priority(i) = Len(preferred) + 1
         \/ /\ Priority(i) \in DOMAIN preferred /\ Priority(i) <= Len(preferred)
            /\ preferred[Priority(i)] = b /\ b \in Range(preferred)
  BY <1>1, PriorityShape
<1>3. /\ Priority(chosen) \in Nat
      /\ \/ c \notin Range(preferred) /\ Priority(chosen) = Len(preferred) + 1
         \/ /\ Priority(chosen) \in DOMAIN preferred /\ Priority(chosen) <= Len(preferred)
            /\ preferred[Priority(chosen)] = c /\ c \in Range(preferred)
  BY <1>1, PriorityShape
<1>4. Priority(chosen) < Priority(i) \/ (Priority(chosen) = Priority(i) /\ chosen < i)
  BY DEF Precedes
<1> HIDE DEF c, b
<1>5. CASE Priority(chosen) < Priority(i)
  <2>1. c \in Range(preferred) /\ Priority(chosen) \in DOMAIN preferred
        /\ preferred[Priority(chosen)] = c
    BY <1>1, <1>2, <1>3, <1>5
  <2>2. CASE b \notin Range(preferred)
    BY <2>1, <2>2 DEF c, b
  <2>3. CASE b \in Range(preferred)
    BY <1>2, <1>5, <2>1, <2>3 DEF c, b
  <2> QED BY <2>2, <2>3
<1>6. CASE Priority(chosen) = Priority(i) /\ chosen < i
  <2>1. \/ b \notin Range(preferred) /\ c \notin Range(preferred)
        \/ b = c
    BY <1>1, <1>2, <1>3, <1>6
  <2>2. b \notin Range(preferred) /\ c \notin Range(preferred)
          => {b, c} \intersect Range(preferred) = {}
    OBVIOUS
  <2> QED BY <1>6, <2>1, <2>2 DEF c, b
<1> QED BY <1>4, <1>5, <1>6

LEMMA InitSelected == CallInit => Selected
BY DEF CallInit, Selected

LEMMA NextSelected == Selected /\ [CallNext]_callVars => Selected'
<1> SUFFICES ASSUME Selected, [CallNext]_callVars PROVE Selected'
  OBVIOUS
<1>1. setup' = setup
  BY DEF CallNext, callVars, SelectTransport, Before, Exchange, LegacySubscribe, OpenStream, After,
         ReadStream
<1>2. Candidates' = Candidates /\ \A i, j : Precedes(i, j)' = Precedes(i, j)
  BY <1>1 DEF Candidates, Precedes, Priority, Factories, card, preferred, defaults
<1>3. CASE SelectTransport
  <2> DEFINE left == Candidates \ tried
             next == Foremost(left)
  <2>1. pc = "select" /\ chosen = 0
    BY <1>3 DEF SelectTransport, Selected
  <2>2. \/ chosen' = chosen
        \/ left # {} /\ chosen' = next /\ pc' = "before" /\ tried' = tried
    BY <1>3 DEF SelectTransport
  <2>3. CASE chosen' = chosen
    BY <1>1, <2>1, <2>3 DEF Selected
  <2>4. CASE left # {} /\ chosen' = next /\ pc' = "before" /\ tried' = tried
    <3>1. next \in left /\ \A j \in left \ {next} : Precedes(next, j)
      BY <2>4, ForemostPrecedes DEF Selected
    <3> QED BY <1>1, <1>2, <2>4, <3>1 DEF Selected
  <2> QED BY <2>2, <2>3, <2>4
<1>4. CASE ~SelectTransport
  <2>1. tried' = tried /\ chosen' = chosen
    BY <1>4 DEF CallNext, callVars, Before, Exchange, LegacySubscribe, OpenStream, After, ReadStream
  <2>2. pc' = "select" => pc = "select"
    BY <1>4 DEF CallNext, callVars, Before, Exchange, LegacySubscribe, OpenStream, After, ReadStream,
                Fail, Attempt, Serve, Loses, Conclude
  <2> QED BY <1>1, <1>2, <2>1, <2>2 DEF Selected
<1> QED BY <1>3, <1>4

-----------------------------------------------------------------------------
(* Interceptors.  Asked, as far as they were, in order; told, as far as    *)
(* they were, from the last; and who must have been asked, or told, where  *)
(* the call stands.                                                        *)

AskedInOrder == asked = [i \in 1 .. Len(asked) |-> i] /\ Len(asked) \in 0 .. Len(hooks)

FromTheLast ==
  told = [i \in 1 .. Len(told) |-> Len(hooks) - i + 1] /\ Len(told) \in 0 .. Len(hooks)

AllAsked == Len(asked) = Len(hooks)

AllTold == Len(told) = Len(hooks)

NoneTold == Len(told) = 0

Went ==
  /\ pc \in {"select", "before", "exchange", "legacy"} => NoneTold
  /\ pc \in {"exchange", "legacy", "after", "stream"} => AllAsked
  /\ pc \in {"select", "before"} => seen = <<>>
  /\ pc = "stream" => AllTold
  /\ seen # <<>> \/ ~NoneTold => AllAsked
  /\ pc = "done" /\ AllAsked /\ outcome.kind = "ok" => AllTold

Hooked == setup \in Setups /\ AskedInOrder /\ FromTheLast /\ Went

LEMMA HookedPairsUp == Hooked => HooksPairUp
<1> SUFFICES ASSUME Hooked PROVE HooksPairUp
  OBVIOUS
<1>1. hooks \in Seq({"param", "version", "old", "any"})
  BY SetupShape DEF Hooked
<1> DEFINE n == Len(hooks)
           there == [i \in DOMAIN hooks |-> i]
           back == Reverse(there)
<1>2. DOMAIN hooks = 1 .. n /\ n \in Nat
  BY <1>1
<1>3. there \in Seq(Nat) /\ Len(there) = n /\ \A i \in 1 .. n : there[i] = i
  BY <1>2
<1>4. back \in Seq(Nat) /\ Len(back) = n /\ \A i \in 1 .. n : back[i] = n - i + 1
  <2> HIDE DEF there, n
  <2>1. back = [i \in 1 .. n |-> there[(n - i) + 1]]
    BY <1>3 DEF Reverse
  <2>2. \A i \in 1 .. n : n - i + 1 \in 1 .. n /\ there[n - i + 1] = n - i + 1
    BY <1>2, <1>3
  <2> QED BY <1>2, <2>1, <2>2
<1> HIDE DEF there, back, n
<1>5. IsPrefix(asked, there)
  <2>1. Len(asked) \in 0 .. n /\ asked = [i \in 1 .. Len(asked) |-> i]
    BY DEF Hooked, AskedInOrder, n
  <2>2. PICK m \in 0 .. n : m = Len(asked)
    BY <2>1
  <2>3. asked \in Seq(Nat) /\ SubSeq(asked, 1, m) = asked
    BY <1>2, <2>1, <2>2
  <2>4. SubSeq(there, 1, m) = asked
    BY <1>2, <1>3, <2>1, <2>2, <2>3
  <2> QED BY <1>2, <1>3, <2>2, <2>3, <2>4 DEF IsPrefix
<1>6. IsPrefix(told, back)
  <2>1. Len(told) \in 0 .. n /\ told = [i \in 1 .. Len(told) |-> n - i + 1]
    BY DEF Hooked, FromTheLast, n
  <2>2. PICK m \in 0 .. n : m = Len(told)
    BY <2>1
  <2>3. told \in Seq(Nat) /\ SubSeq(told, 1, m) = told
    BY <1>2, <2>1, <2>2
  <2>4. SubSeq(back, 1, m) = told
    BY <1>2, <1>4, <2>1, <2>2, <2>3
  <2> QED BY <1>2, <1>4, <2>2, <2>3, <2>4 DEF IsPrefix
<1>7. told # <<>> => ~NoneTold
  BY DEF Hooked, FromTheLast, NoneTold
<1>8. /\ seen # <<>> \/ told # <<>> => AllAsked
      /\ pc = "done" /\ AllAsked /\ outcome.kind = "ok" => AllTold
  BY <1>7 DEF Hooked, Went
<1> QED BY <1>5, <1>6, <1>8, Zenon DEF HooksPairUp, there, back, AllAsked, AllTold

LEMMA InitHooked == CallInit => Hooked
BY SetupShape DEF CallInit, Hooked, AskedInOrder, FromTheLast, Went, AllAsked, AllTold, NoneTold

(* One more that is asked, or told.                                        *)
LEMMA NextInOrder ==
  ASSUME setup \in Setups, AskedInOrder, Len(asked) < Len(hooks), setup' = setup,
         asked' = Append(asked, Len(asked) + 1)
  PROVE  AskedInOrder' /\ Len(asked)' = Len(asked) + 1
<1>1. hooks \in Seq({"param", "version", "old", "any"}) /\ Len(hooks) \in Nat /\ hooks' = hooks
  BY SetupShape DEF hooks
<1>2. PICK n \in Nat : n = Len(hooks)
  BY <1>1
<1>3. PICK m \in 0 .. n : m = Len(asked)
  BY <1>2 DEF AskedInOrder
<1>4. asked = [i \in 1 .. m |-> i]
  BY <1>3 DEF AskedInOrder
<1>5. asked' = [i \in 1 .. m + 1 |-> i]
  BY <1>3, <1>4
<1>6. Len(asked') = m + 1
  BY <1>3, <1>5
<1>7. Len(hooks') = n /\ m + 1 \in 0 .. n
  BY <1>1, <1>2, <1>3
<1> QED BY <1>3, <1>5, <1>6, <1>7 DEF AskedInOrder

LEMMA NextFromTheLast ==
  ASSUME setup \in Setups, FromTheLast, Len(told) < Len(hooks), setup' = setup,
         told' = Append(told, Len(hooks) - Len(told))
  PROVE  FromTheLast' /\ Len(told)' = Len(told) + 1
<1>1. hooks \in Seq({"param", "version", "old", "any"}) /\ Len(hooks) \in Nat /\ hooks' = hooks
  BY SetupShape DEF hooks
<1>2. PICK n \in Nat : n = Len(hooks)
  BY <1>1
<1>3. PICK m \in 0 .. n : m = Len(told)
  BY <1>2 DEF FromTheLast
<1>4. told = [i \in 1 .. m |-> n - i + 1]
  BY <1>2, <1>3 DEF FromTheLast
<1>5. told' = [i \in 1 .. m + 1 |-> n - i + 1]
  BY <1>2, <1>3, <1>4
<1>6. Len(told') = m + 1
  BY <1>3, <1>5
<1>7. Len(hooks') = n /\ m + 1 \in 0 .. n
  BY <1>1, <1>2, <1>3
<1> QED BY <1>2, <1>3, <1>5, <1>6, <1>7 DEF FromTheLast

(* Where an attempt leads.                                                 *)
Moves ==
  \/ pc = "exchange" /\ pc' = "legacy" /\ outcome' = outcome
  \/ pc \in {"exchange", "legacy"} /\ pc' = "after"
  \/ pc = "stream" /\ pc' = "done"

LEMMA ConcludeMoves ==
  ASSUME NEW r, Conclude(r), pc \in {"exchange", "legacy", "stream"} PROVE Moves
BY DEF Conclude, Moves

LEMMA AttemptMoves ==
  ASSUME Attempt, pc \in {"exchange", "legacy", "stream"} PROVE Moves
BY ConcludeMoves DEF Attempt, Serve, Loses

LEMMA MovesKeepHooked ==
  ASSUME Hooked, Moves, pc \in {"exchange", "legacy", "stream"},
         UNCHANGED <<setup, asked, told>>
  PROVE  Hooked'
<1>1. hooks' = hooks
  BY DEF hooks
<1>2. AskedInOrder' /\ FromTheLast'
  BY <1>1 DEF Hooked, AskedInOrder, FromTheLast
<1>3. (AllAsked' <=> AllAsked) /\ (AllTold' <=> AllTold) /\ (NoneTold' <=> NoneTold)
  BY <1>1 DEF AllAsked, AllTold, NoneTold
<1>4. Went'
  BY <1>3, Zenon DEF Hooked, Went, Moves
<1> QED BY <1>2, <1>4 DEF Hooked

LEMMA ErrorsAreErrors ==
  /\ \A e : Err(e).kind = "error"
  /\ \A e : Fail(e) => pc' = "done" /\ outcome'.kind = "error"
  /\ \A own : FinishCall(own).kind = "error"
BY DEF Err, Fail, FinishCall

LEMMA NextHooked == Hooked /\ [CallNext]_callVars => Hooked'
<1> SUFFICES ASSUME Hooked, [CallNext]_callVars PROVE Hooked'
  OBVIOUS
<1> DEFINE n == Len(hooks)
<1>1. hooks \in Seq({"param", "version", "old", "any"}) /\ n \in Nat
  BY SetupShape DEF Hooked
<1>2. setup' = setup /\ hooks' = hooks
  BY DEF CallNext, callVars, SelectTransport, Before, Exchange, LegacySubscribe, OpenStream, After,
         ReadStream, hooks
<1>3. CASE UNCHANGED callVars
  BY <1>2, <1>3 DEF callVars, Hooked, AskedInOrder, FromTheLast, Went, AllAsked, AllTold, NoneTold
<1>4. ASSUME asked' = asked, told' = told
      PROVE  /\ AskedInOrder' /\ FromTheLast'
             /\ (AllAsked' <=> AllAsked) /\ (AllTold' <=> AllTold) /\ (NoneTold' <=> NoneTold)
  BY <1>2, <1>4 DEF Hooked, AskedInOrder, FromTheLast, AllAsked, AllTold, NoneTold
<1>5. CASE SelectTransport
  <2>1. /\ asked' = asked /\ told' = told /\ seen' = seen /\ pc = "select"
        /\ \/ pc' \in {"select", "before"}
           \/ pc' = "done" /\ outcome'.kind = "error"
    BY <1>5, ErrorsAreErrors DEF SelectTransport
  <2>2. Went'
    BY <1>4, <2>1, Zenon DEF Hooked, Went
  <2> QED BY <1>2, <1>4, <2>1, <2>2 DEF Hooked
<1>6. CASE Before
  <2>1. /\ told' = told /\ seen' = seen /\ pc = "before"
        /\ \/ Len(asked) + 1 > n /\ pc' = "exchange" /\ asked' = asked
           \/ /\ ~(Len(asked) + 1 > n) /\ asked' = Append(asked, Len(asked) + 1)
              /\ pc' = pc \/ (pc' = "done" /\ outcome'.kind = "error")
    BY <1>6, ErrorsAreErrors DEF Before
  <2>2. FromTheLast' /\ (AllTold' <=> AllTold) /\ (NoneTold' <=> NoneTold)
    BY <1>2, <2>1 DEF Hooked, FromTheLast, AllTold, NoneTold
  <2>3. NoneTold /\ seen = <<>> /\ Len(asked) \in 0 .. n
    BY <2>1 DEF Hooked, Went, AskedInOrder
  <2>4. CASE Len(asked) + 1 > n /\ pc' = "exchange" /\ asked' = asked
    <3>1. AllAsked'
      BY <1>1, <1>2, <2>3, <2>4 DEF AllAsked
    <3>2. AskedInOrder'
      BY <1>4, <2>1, <2>4
    <3>3. Went'
      BY <2>1, <2>2, <2>3, <2>4, <3>1, Zenon DEF Went
    <3> QED BY <1>2, <2>2, <3>2, <3>3 DEF Hooked
  <2>5. CASE /\ ~(Len(asked) + 1 > n) /\ asked' = Append(asked, Len(asked) + 1)
             /\ pc' = pc \/ (pc' = "done" /\ outcome'.kind = "error")
    <3>1. Len(asked) < n
      BY <1>1, <2>3, <2>5
    <3>2. AskedInOrder'
      BY <1>2, <2>5, <3>1, NextInOrder DEF Hooked
    <3>3. Went'
      BY <2>1, <2>2, <2>3, <2>5, Zenon DEF Went
    <3> QED BY <1>2, <2>2, <3>2, <3>3 DEF Hooked
  <2> QED BY <2>1, <2>4, <2>5
<1>7. CASE After
  <2>1. /\ asked' = asked /\ seen' = seen /\ pc = "after"
        /\ \/ n - Len(told) = 0 /\ pc' \in {"stream", "done"} /\ told' = told /\ outcome' = outcome
           \/ /\ n - Len(told) # 0 /\ told' = Append(told, n - Len(told))
              /\ pc' = pc \/ (pc' = "done" /\ outcome'.kind = "error")
    BY <1>7, ErrorsAreErrors DEF After, NextAfter
  <2>2. AskedInOrder' /\ (AllAsked' <=> AllAsked) /\ AllAsked /\ Len(told) \in 0 .. n
    BY <1>2, <2>1 DEF Hooked, Went, AskedInOrder, FromTheLast, AllAsked
  <2>3. CASE n - Len(told) = 0 /\ pc' \in {"stream", "done"} /\ told' = told
    <3>1. AllTold' /\ FromTheLast'
      BY <1>1, <1>2, <1>4, <2>1, <2>2, <2>3 DEF AllTold
    <3>2. Went'
      BY <2>1, <2>2, <2>3, <3>1, Zenon DEF Went
    <3> QED BY <1>2, <2>2, <3>1, <3>2 DEF Hooked
  <2>4. CASE /\ n - Len(told) # 0 /\ told' = Append(told, n - Len(told))
             /\ pc' = pc \/ (pc' = "done" /\ outcome'.kind = "error")
    <3>1. Len(told) < n
      BY <1>1, <2>2, <2>4
    <3>2. FromTheLast'
      BY <1>2, <2>4, <3>1, NextFromTheLast DEF Hooked
    <3>3. Went'
      BY <2>1, <2>2, <2>4, Zenon DEF Went
    <3> QED BY <1>2, <2>2, <3>2, <3>3 DEF Hooked
  <2> QED BY <2>1, <2>3, <2>4
<1>8. CASE Exchange \/ LegacySubscribe \/ ReadStream
  <2>1. Attempt /\ pc \in {"exchange", "legacy", "stream"} /\ UNCHANGED <<setup, asked, told>>
    BY <1>8 DEF Exchange, LegacySubscribe, ReadStream
  <2> QED BY <2>1, AttemptMoves, MovesKeepHooked
<1>9. CASE OpenStream
  <2>1. (\E r : Conclude(r)) /\ pc = "exchange" /\ UNCHANGED <<setup, asked, told>>
    BY <1>9 DEF OpenStream
  <2> QED BY <2>1, ConcludeMoves, MovesKeepHooked
<1> QED BY <1>3, <1>5, <1>6, <1>7, <1>8, <1>9 DEF CallNext

(* The transport in use is that of the best interface one could be made    *)
(* for, whatever the card and the preferences                              *)
(* (create_from_card_selecting).                                           *)
THEOREM SelectionIsBest == CallSpec => []SelectionBest
<1>1. QED BY InitSelected, NextSelected, SelectedIsBest, PTL DEF CallSpec

(* Interceptors pair up, however many there are and whichever fails: each  *)
(* is asked in order before the request leaves, and told of the result in  *)
(* reverse (apply_before, apply_after).                                    *)
THEOREM HooksArePaired == CallSpec => []HooksPairUp
<1>1. QED BY InitHooked, NextHooked, HookedPairsUp, PTL DEF CallSpec

-----------------------------------------------------------------------------
(***************************************************************************)
(* The request and the answer: where the server takes the request the      *)
(* client makes, on every binding, and what comes back.                    *)
(***************************************************************************)

LEMMA Operations == DOMAIN Methods = DOMAIN RpcName
BY DEF Methods, RpcName

-----------------------------------------------------------------------------
(* What the conversions keep.                                              *)

LEMMA HistoryIsOptional ==
  ASSUME NEW m \in DOMAIN Shapes, "history_length" \in DOMAIN Shapes[m]
  PROVE  Shapes[m]["history_length"] = "optional"
<1> DEFINE Right(shape) ==
             "history_length" \in DOMAIN shape => shape["history_length"] = "optional"
<1>1. \A plain, default, optional, json :
        "history_length" \notin plain \union default \union json
          => Right(Fields(plain, default, optional, json))
  BY DEF Fields
<1>2. \A shape, field, kind :
        Right(shape) /\ field # "history_length" => Right(And(shape, field, kind))
  BY DEF And
<1> HIDE DEF Right
<1>3. Right(PartShape) /\ Right(MessageShape) /\ Right(TaskShape) /\ Right(ArtifactShape) /\
      Right(PushConfigShape) /\ Right(AuthenticationInfoShape) /\
      Right(SendMessageRequestShape) /\ Right(SendMessageConfigurationShape) /\
      Right(StatusUpdateShape) /\ Right(ArtifactUpdateShape) /\ Right(GetTaskRequestShape) /\
      Right(ListTasksResponseShape) /\ Right(CancelTaskRequestShape) /\
      Right(SubscribeToTaskRequestShape)
  BY <1>1
     DEF PartShape, MessageShape, TaskShape, ArtifactShape, PushConfigShape,
         AuthenticationInfoShape, SendMessageRequestShape, SendMessageConfigurationShape,
         StatusUpdateShape, ArtifactUpdateShape, GetTaskRequestShape, ListTasksResponseShape,
         CancelTaskRequestShape, SubscribeToTaskRequestShape
<1>4. Right(GetPushConfigRequestShape) /\ Right(ListPushConfigsRequestShape) /\
      Right(ListPushConfigsResponseShape) /\ Right(DeletePushConfigRequestShape) /\
      Right(GetExtendedAgentCardRequestShape) /\ Right(AgentCardShape) /\
      Right(AgentInterfaceShape) /\ Right(AgentProviderShape) /\ Right(AgentExtensionShape) /\
      Right(AgentCapabilitiesShape) /\ Right(AgentSkillShape) /\
      Right(AgentCardSignatureShape) /\ Right(SecuritySchemeShape) /\
      Right(SecurityRequirementShape) /\ Right(OAuthFlowsShape)
  BY <1>1
     DEF GetPushConfigRequestShape, ListPushConfigsRequestShape, ListPushConfigsResponseShape,
         DeletePushConfigRequestShape, GetExtendedAgentCardRequestShape, AgentCardShape,
         AgentInterfaceShape, AgentProviderShape, AgentExtensionShape, AgentCapabilitiesShape,
         AgentSkillShape, AgentCardSignatureShape, SecuritySchemeShape, SecurityRequirementShape,
         OAuthFlowsShape
<1>5. Right(TaskStatusShape) /\ Right(ListTasksRequestShape)
  BY <1>1, <1>2 DEF TaskStatusShape, ListTasksRequestShape
<1>6. Shapes["Part"] = PartShape /\ Shapes["Message"] = MessageShape /\
      Shapes["Task"] = TaskShape /\ Shapes["TaskStatus"] = TaskStatusShape /\
      Shapes["Artifact"] = ArtifactShape /\
      Shapes["TaskPushNotificationConfig"] = PushConfigShape /\
      Shapes["AuthenticationInfo"] = AuthenticationInfoShape /\
      Shapes["SendMessageRequest"] = SendMessageRequestShape /\
      Shapes["SendMessageConfiguration"] = SendMessageConfigurationShape /\
      Shapes["StatusUpdate"] = StatusUpdateShape /\
      Shapes["ArtifactUpdate"] = ArtifactUpdateShape /\
      Shapes["GetTaskRequest"] = GetTaskRequestShape /\
      Shapes["ListTasksRequest"] = ListTasksRequestShape /\
      Shapes["ListTasksResponse"] = ListTasksResponseShape /\
      Shapes["CancelTaskRequest"] = CancelTaskRequestShape /\
      Shapes["SubscribeToTaskRequest"] = SubscribeToTaskRequestShape /\
      Shapes["GetPushConfigRequest"] = GetPushConfigRequestShape /\
      Shapes["ListPushConfigsRequest"] = ListPushConfigsRequestShape /\
      Shapes["ListPushConfigsResponse"] = ListPushConfigsResponseShape /\
      Shapes["DeletePushConfigRequest"] = DeletePushConfigRequestShape /\
      Shapes["GetExtendedAgentCardRequest"] = GetExtendedAgentCardRequestShape /\
      Shapes["AgentCard"] = AgentCardShape /\ Shapes["AgentInterface"] = AgentInterfaceShape /\
      Shapes["AgentProvider"] = AgentProviderShape /\
      Shapes["AgentExtension"] = AgentExtensionShape /\
      Shapes["AgentCapabilities"] = AgentCapabilitiesShape /\
      Shapes["AgentSkill"] = AgentSkillShape /\
      Shapes["AgentCardSignature"] = AgentCardSignatureShape /\
      Shapes["SecurityScheme"] = SecuritySchemeShape /\
      Shapes["SecurityRequirement"] = SecurityRequirementShape /\
      Shapes["OAuthFlows"] = OAuthFlowsShape
  BY DEF Shapes
<1>7. DOMAIN Shapes =
        {"Part", "Message", "Task", "TaskStatus", "Artifact", "TaskPushNotificationConfig",
         "AuthenticationInfo", "SendMessageRequest", "SendMessageConfiguration", "StatusUpdate",
         "ArtifactUpdate", "GetTaskRequest", "ListTasksRequest", "ListTasksResponse",
         "CancelTaskRequest", "SubscribeToTaskRequest", "GetPushConfigRequest",
         "ListPushConfigsRequest", "ListPushConfigsResponse", "DeletePushConfigRequest",
         "GetExtendedAgentCardRequest", "AgentCard", "AgentInterface", "AgentProvider",
         "AgentExtension", "AgentCapabilities", "AgentSkill", "AgentCardSignature",
         "SecurityScheme", "SecurityRequirement", "OAuthFlows"}
  BY DEF Shapes
<1>8. Right(Shapes[m])
  BY <1>3, <1>4, <1>5, <1>6, <1>7
<1> QED BY <1>8 DEF Right

LEMMA ConvertedOrEmpty ==
  ASSUME NEW k, NEW v \in ValuesOf(k), v # "far"
  PROVE  LET x == FromProto(k, ToProto(k, v))
         IN  x = v \/ (x = "none" /\ v \in {"zero", "negative"} /\ k # "optional")
BY DEF ValuesOf, FromProto, ToProto

(* The request of a call that follows a field.                             *)
LEMMA FieldShape ==
  ASSUME setup \in Setups, request.side # "none"
  PROVE  /\ request.message \in DOMAIN Shapes /\ request.field \in DOMAIN Shapes[request.message]
         /\ request.value \in ValuesOf(KindOf(request))
<1>1. /\ request.method \in DOMAIN Methods /\ request.side \in {"request", "response"}
      /\ request.message \in Methods[request.method][request.side]
      /\ request.field \in DOMAIN Shapes[request.message]
      /\ request.value \in ValuesOf(Shapes[request.message][request.field])
  BY SetupAssumption DEF request
<1>2. request.message \in DOMAIN Shapes
  <2>1. \A x \in SendContent \union StreamContent \union PushConfigContent \union CardContent
             \union TaskContent \union {"GetTaskRequest", "ListTasksRequest", "ListTasksResponse",
             "CancelTaskRequest", "SubscribeToTaskRequest", "GetPushConfigRequest",
             "ListPushConfigsRequest", "ListPushConfigsResponse", "DeletePushConfigRequest",
             "GetExtendedAgentCardRequest"} : x \in DOMAIN Shapes
    BY DEF Shapes, SendContent, StreamContent, PushConfigContent, CardContent, TaskContent, Content
  <2>2. \A m \in DOMAIN Methods : \A side \in {"request", "response"} :
          Methods[m][side] \subseteq
            SendContent \union StreamContent \union PushConfigContent \union CardContent
             \union TaskContent \union {"GetTaskRequest", "ListTasksRequest", "ListTasksResponse",
             "CancelTaskRequest", "SubscribeToTaskRequest", "GetPushConfigRequest",
             "ListPushConfigsRequest", "ListPushConfigsResponse", "DeletePushConfigRequest",
             "GetExtendedAgentCardRequest"}
    BY DEF Methods, Call
  <2> QED BY <1>1, <2>1, <2>2
<1> QED BY <1>1, <1>2 DEF KindOf

(* A value followed means on arrival what it meant when it was sent.       *)
LEMMA MeaningKept ==
  ASSUME setup \in Setups, NEW side \in {"request", "response"}, request.side = side,
         request.value # "far"
  PROVE  Meaning(Value(side)) = Meaning(request.value)
<1> DEFINE v == request.value
           x == Value(side)
           f == request.field
<1>1. x = v \/ (x = "none" /\ v \in {"zero", "negative"} /\ f # "history_length")
  <2>1. request.side # "none" /\ v \in ValuesOf(KindOf(request))
    BY FieldShape
  <2>2. f = "history_length" => KindOf(request) = "optional"
    BY <2>1, FieldShape, HistoryIsOptional DEF KindOf
  <2>3. x = Query(request) \/ x = FromProto(KindOf(request), ToProto(KindOf(request), v))
    BY DEF Value, Converted
  <2>4. Query(request) = v \/ (Query(request) = "none" /\ v = "zero" /\ f = "status")
    BY DEF Query, None, NoTenant
  <2> QED BY <2>1, <2>2, <2>3, <2>4, ConvertedOrEmpty
<1> HIDE DEF x
<1>2. Meaning(x) = Meaning(v)
  BY <1>1 DEF Meaning, None, NoTenant
<1> QED BY <1>2 DEF x

-----------------------------------------------------------------------------
(* Versions.                                                               *)

LEMMA Negotiated ==
  ASSUME setup \in Setups, chosen \in DOMAIN card
  PROVE  LET v == Negotiate(card[chosen].version)
         IN  /\ v[1] = 1 /\ (flag # NoVersion => v = flag)
             /\ flag = NoVersion => v[2] <= Version[2]
<1> DEFINE d == card[chosen].version
           v == Negotiate(d)
<1>1. d \in Int \X Int
  <2>1. card \in Seq(Interface)
    BY SetupShape
  <2>2. card[chosen] \in Interface
    BY <2>1
  <2> QED BY <2>2 DEF Interface
<1>2. flag \in Int \X Int /\ (flag = NoVersion \/ flag[1] = 1)
  BY SetupAssumption DEF flag
<1>3. CASE flag # NoVersion
  <2>1. v = flag
    BY <1>3, Zenon DEF Negotiate
  <2> QED BY <1>2, <1>3, <2>1
<1>4. CASE flag = NoVersion /\ d[1] = 1 /\ d[2] < Version[2]
  <2>1. v = d
    BY <1>4 DEF Negotiate
  <2> QED BY <1>1, <1>4, <2>1 DEF Version
<1>5. CASE flag = NoVersion /\ ~(d[1] = 1 /\ d[2] < Version[2])
  <2>1. v = Version
    BY <1>5 DEF Negotiate
  <2> QED BY <1>5, <2>1 DEF Version
<1> QED BY <1>3, <1>4, <1>5

-----------------------------------------------------------------------------
(* Errors.                                                                 *)

CodedErrors ==
  [code : Codes \union {OtherCode}, details : SUBSET {"bad", "struct"}, missing : BOOLEAN]

(* What an error becomes that leaves the agent with a code of the protocol.*)
ErrorCodeOf(code) == IF code = OtherCode THEN "INTERNAL_ERROR" ELSE code

LEMMA ReasonsName ==
  ASSUME NEW code \in Codes \union {OtherCode}
  PROVE  /\ ReasonToErrorCode(ErrorReason(code)) = ErrorCodeOf(code)
         /\ ErrorCodeOf(code) # NoReason
<1>1. CASE code = OtherCode
  BY <1>1 DEF ErrorReason, ReasonToErrorCode, ErrorCodeOf, Codes, OtherCode, NoReason
<1>2. CASE code = "EXTENDED_CARD_NOT_CONFIGURED"
  BY <1>2 DEF ErrorReason, ReasonToErrorCode, ErrorCodeOf, Codes, OtherCode, NoReason
<1>3. CASE code \in Codes \ {"EXTENDED_CARD_NOT_CONFIGURED"}
  <2>1. ErrorReason(code) = code /\ ErrorCodeOf(code) = code
    BY <1>3 DEF ErrorReason, ErrorCodeOf, OtherCode, Codes
  <2>2. /\ code # "EXTENDED_AGENT_CARD_NOT_CONFIGURED" /\ code # "UNSUPPORTED_CONTENT_TYPE"
        /\ code # NoReason
    BY <1>3 DEF Codes, NoReason
  <2> QED BY <1>3, <2>1, <2>2 DEF ReasonToErrorCode
<1> QED BY <1>1, <1>2, <1>3

LEMMA NamedErrors ==
  ASSUME NEW e \in CodedErrors
  PROVE  /\ JsonRpcError(e) = Error(ErrorCodeOf(e.code), e.details \union {"info"}, e.missing)
         /\ RestError(e) = Error(ErrorCodeOf(e.code), e.details \union {"info"}, e.missing)
         /\ GrpcError(e) = Error(ErrorCodeOf(e.code), (e.details \intersect {"bad"}) \union {"info"},
                                 e.missing)
<1>1. \A own, details, missing :
        FromDetails(own, ErrorReason(e.code), details, missing)
          = Error(ErrorCodeOf(e.code), details, missing)
  BY ReasonsName DEF FromDetails, CodedErrors
<1> QED BY <1>1 DEF JsonRpcError, ParseJsonRpcError, ToJsonRpcError, RestError, ParseRestError,
                    RestErrorEnvelope, GrpcError, GrpcStatus

(* SLIM tells three codes apart.                                           *)
LEMMA SlimKeeps ==
  ASSUME NEW e, e.code \in {"TASK_NOT_FOUND", "TASK_NOT_CANCELABLE", "INVALID_PARAMS"}
  PROVE  SlimError(e) = Error(e.code, {}, e.missing)
BY DEF SlimError, SlimCode, GrpcCode, FromGrpcCode, Error

-----------------------------------------------------------------------------
(* What the server makes of the request of a call.                         *)

Five == {"JSONRPC", "HTTP+JSON", "GRPC", "SLIMRPC", "plugin"}

LEMMA BindingsKnown ==
  ASSUME setup \in Setups, chosen \in Candidates
  PROVE  Binding \in Five /\ chosen \in DOMAIN card
BY SetupAssumption DEF Candidates, Factories, Binding, Five

LEMMA RequestShape ==
  ASSUME setup \in Setups
  PROVE  /\ request.method \in DOMAIN Methods /\ request.ids \in Seq(Seq(STRING))
         /\ Len(request.ids) = IdCount(request.method)
BY SetupAssumption DEF request

(* The tenant the handler is to be given.                                  *)
RightTenant == IF card[chosen].tenant \in {None, ""} THEN Absent(request.tenant)
                                                     ELSE card[chosen].tenant

Right == Give(request.method, request.ids, RightTenant)

LEMMA TenantsAgree == Absent(Tenant) = RightTenant /\ TenantOf(Tenant) = RightTenant
BY DEF Absent, Tenant, RightTenant, TenantOf, HasTenant, None, NoTenant

LEMMA AddressedIs ==
  ASSUME Binding = "HTTP+JSON"
  PROVE  Unaddressable <=> Misaddressed(request.method, request.ids, Tenant)
BY Zenon DEF Unaddressable, Misaddressed, SubscribeSeg

Refuses(d) == \E e : d = Refuse(e) /\ e.code \in {"INVALID_PARAMS", "INVALID_REQUEST"}

Arrives(d) ==
  \/ d.kind = "http"
  \/ d = Refuse(UnsupportedVersion) /\ ~Speaks(params)
  \/ /\ d.kind = "give" /\ (~Unaddressable => d = Right)
     /\ Binding = "HTTP+JSON" => Speaks(params)
  \/ Unaddressable /\ Refuses(d)

LEMMA GiveKind == \A m, ids, t : Give(m, ids, t).kind = "give"
BY DEF Give

LEMMA RestDispatched ==
  ASSUME setup \in Setups, Binding = "HTTP+JSON",
         NEW w, w = RestRequest(request.method, Path, request.ids, Tenant, params),
         pc = "legacy" => request.method = "SubscribeToTask"
  PROVE  Arrives(HandleRest(w))
<1> DEFINE method == request.method
           ids == request.ids
           d == HandleRest(w)
<1>1. HttpVersionSupported(w) <=> Speaks(params)
  <2>1. w.headers = VersionHeaders(params) /\ w.queryVersion = <<>>
    BY DEF RestRequest
  <2> QED BY <2>1, HttpSpeaks
<1>2. Unversioned(w) => d = Refuse(UnsupportedVersion) /\ ~Speaks(params)
  BY <1>1, Zenon DEF Unversioned
<1>3. CASE Unaddressable
  <2>1. \/ d.kind = "http" \/ Unversioned(w)
        \/ HttpVersionSupported(w) /\ Sensible(d)
    BY RestRefusals, Operations
  <2>2. Sensible(d) => d.kind \in {"http", "give"} \/ Refuses(d)
    BY DEF Sensible, Refuses
  <2> QED BY <1>1, <1>2, <1>3, <2>1, <2>2, Zenon DEF Arrives
<1>4. CASE ~Unaddressable
  <2>1. ~Misaddressed(method, ids, Tenant)
    BY <1>4, AddressedIs
  <2>2. method \in DOMAIN Methods /\ ids \in Seq(Seq(STRING)) /\ Len(ids) = IdCount(method)
    BY RequestShape
  <2> HIDE DEF method, ids, d
  <2>3. CASE pc # "legacy"
    <3>1. w = RestRequest(method, RestPath(method, ids), ids, Tenant, params)
      BY <2>3 DEF Path, method, ids
    <3>2. Reaches(w, method, ids, Tenant)
      BY <2>1, <2>2, <3>1, RestArrives, Operations
    <3>3. \/ d.kind = "http" \/ Unversioned(w)
          \/ d = Right /\ HttpVersionSupported(w)
      BY <3>2, TenantsAgree, Zenon DEF Reaches, Right, method, ids, d
    <3>4. Right.kind = "give"
      BY GiveKind DEF Right
    <3> QED BY <1>1, <1>2, <3>3, <3>4, Zenon DEF Arrives, d
  <2>4. CASE pc = "legacy"
    <3>1. method = "SubscribeToTask" /\ IdCount(method) = 1
      BY <2>4 DEF method, IdCount
    <3>2. PICK x : ids = <<x>>
      <4>1. Len(ids) = 1 /\ ids = <<ids[1]>>
        BY <2>2, <3>1
      <4> QED BY <4>1
    <3>3. w = RestRequest("SubscribeToTask", LegacySubscribePath(<<x>>), <<x>>, Tenant, params)
      BY <2>4, <3>1, <3>2 DEF Path, method, ids
    <3>4. ~Misaddressed("SubscribeToTask", <<x>>, Tenant)
      BY <2>1, <3>1, <3>2
    <3>5. \/ HandleRest(w).kind = "http" \/ Unversioned(w)
          \/ /\ HandleRest(w) = Give("SubscribeToTask", <<x>>, NoTenant) /\ HttpVersionSupported(w)
             /\ ~HasTenant(Tenant)
      BY <3>3, <3>4, LegacyArrives, Operations
    <3>6. ~HasTenant(Tenant) => RightTenant = NoTenant
      BY TenantsAgree DEF TenantOf
    <3>7. \/ d.kind = "http" \/ Unversioned(w)
          \/ d = Right /\ HttpVersionSupported(w)
      BY <3>1, <3>2, <3>5, <3>6, Zenon DEF Right, method, ids, d
    <3>8. Right.kind = "give"
      BY GiveKind DEF Right
    <3> QED BY <1>1, <1>2, <3>7, <3>8, Zenon DEF Arrives, d
  <2> QED BY <2>3, <2>4 DEF d
<1> QED BY <1>3, <1>4

LEMMA NameDispatched ==
  ASSUME setup \in Setups, NEW d, Binding # "HTTP+JSON",
         \/ d = Refuse(UnsupportedVersion) /\ ~Speaks(params)
         \/ d = Right
  PROVE  Arrives(d)
<1>1. Right.kind = "give"
  BY GiveKind DEF Right
<1> QED BY <1>1, Zenon DEF Arrives

LEMMA DispatchedArrives ==
  ASSUME setup \in Setups, chosen \in Candidates,
         pc = "legacy" => Binding = "HTTP+JSON" /\ request.method = "SubscribeToTask"
  PROVE  Arrives(Dispatched)
<1>1. request.method \in DOMAIN Methods
  BY RequestShape
<1>2. Binding \in Five
  BY BindingsKnown
<1>3. CASE Binding = "HTTP+JSON"
  <2>1. Dispatched = HandleRest(RestRequest(request.method, Path, request.ids, Tenant, params))
    BY <1>3 DEF Dispatched
  <2> QED BY <1>3, <2>1, RestDispatched
<1>4. CASE Binding = "JSONRPC"
  <2>1. Dispatched = HandleJsonRpc(JsonRpcRequest(request.method, request.ids, Tenant, params))
    BY <1>4 DEF Dispatched
  <2>2. \/ Dispatched = Refuse(UnsupportedVersion) /\ ~Speaks(params)
        \/ Dispatched = Right
    BY <1>1, <2>1, JsonRpcArrives, Operations, TenantsAgree DEF Right
  <2> QED BY <1>4, <2>2, NameDispatched
<1>5. CASE Binding = "SLIMRPC"
  <2>1. Dispatched = HandleSlim(SlimRequest(request.method, request.ids, Absent(Tenant), params))
    BY <1>5 DEF Dispatched
  <2>2. Dispatched = Right
    BY <1>1, <2>1, SlimArrives, Operations, TenantsAgree DEF Right
  <2> QED BY <1>5, <2>2, NameDispatched
<1>6. CASE Binding \in {"GRPC", "plugin"}
  <2>1. Dispatched = HandleGrpc(GrpcRequest(request.method, request.ids, Absent(Tenant), params))
    BY <1>6 DEF Dispatched
  <2>2. \/ Dispatched = Refuse(UnsupportedVersion) /\ ~Speaks(params)
        \/ Dispatched = Right
    BY <1>1, <2>1, GrpcArrives, Operations, TenantsAgree DEF Right
  <2> QED BY <1>6, <2>2, NameDispatched
<1> QED BY <1>2, <1>3, <1>4, <1>5, <1>6 DEF Five

-----------------------------------------------------------------------------
(* What comes of an attempt.                                               *)

Lost(r) == r.kind = "error" /\ IsConnectionFailure(r.error)

NotTheVersion(r) == r.kind = "error" /\ r.error.code # "VERSION_NOT_SUPPORTED"

(* What a call may end with, by whether the handler's reply came (answered)*)
(* and what the handler was given.                                         *)
Settled(r, answered, given) ==
  \/ /\ answered
     /\ r = Reply \/ (request.answer = Success /\ Lost(r))
  \/ ~answered /\ Lost(r)
  \/ ~answered /\ Binding = "plugin" /\ NotTheVersion(r)
  \/ ~answered /\ given = <<>> /\ AllAsked /\ ~Speaks(params) /\ r.kind = "error"
  \/ /\ ~answered /\ Unaddressable
     /\ r.kind = "ok" \/ NotTheVersion(r)
  \/ ~answered /\ given = <<>> /\ r = Opened

(* A request the handler was given.                                        *)
Delivered(s) ==
  /\ s.version = Head(params) /\ s.value = Value("request")
  /\ ~Unaddressable =>
       s.method = request.method /\ s.ids = request.ids /\ s.tenant = RightTenant

Told == \E s : seen' = Append(seen, s) /\ Delivered(s) /\ (Binding = "HTTP+JSON" => Speaks(params))

(* An attempt, its reply or its failure.                                   *)
Comes(r) ==
  /\ Conclude(r) /\ r # Opened /\ Settled(r, replied', seen')
  /\ seen' = seen \/ Told

LEMMA FailuresLost ==
  /\ \A b : Lost(Err(Internal(b))) /\ Err(Internal(b)) # Opened
  /\ \A r \in Losses : r # Opened /\ (Lost(r) \/ (Binding = "plugin" /\ NotTheVersion(r)))
<1>1. \A b : Lost(Err(Internal(b))) /\ Err(Internal(b)) # Opened
  BY DEF Lost, Err, Internal, Error, IsConnectionFailure, Opened
<1>2. LET r == Err(GrpcError(Internal(FALSE))) IN r # Opened /\ NotTheVersion(r)
  <2> DEFINE e == Internal(FALSE)
  <2>1. e \in CodedErrors /\ e.code = "INTERNAL_ERROR"
    BY DEF Internal, Error, Codes, CodedErrors
  <2>2. GrpcError(e).code = ErrorCodeOf("INTERNAL_ERROR")
    <3> HIDE DEF e
    <3> QED BY <2>1, NamedErrors DEF Error
  <2>3. ErrorCodeOf("INTERNAL_ERROR") # "VERSION_NOT_SUPPORTED"
    BY DEF ErrorCodeOf, OtherCode
  <2> QED BY <2>2, <2>3 DEF Err, NotTheVersion, Opened
<1> QED BY <1>1, <1>2, Zenon DEF Losses

LEMMA LosesComes ==
  ASSUME Loses, seen' = seen \/ Told PROVE \E r : Comes(r)
<1>1. PICK r \in Losses : replied' = FALSE /\ Conclude(r)
  BY DEF Loses
<1>2. r # Opened /\ (Lost(r) \/ (Binding = "plugin" /\ NotTheVersion(r)))
  BY FailuresLost
<1>3. Settled(r, replied', seen')
  BY <1>1, <1>2 DEF Settled
<1> QED BY <1>1, <1>2, <1>3 DEF Comes

LEMMA ReplyComes ==
  ASSUME replied' = TRUE, Conclude(Reply), Told PROVE \E r : Comes(r)
<1>1. Reply # Opened
  BY DEF Reply, Ok, Err, Opened
<1>2. Settled(Reply, replied', seen')
  BY DEF Settled
<1> QED BY <1>1, <1>2 DEF Comes

LEMMA StrayComes ==
  ASSUME replied' = FALSE, NEW r \in Strays, Conclude(r), Told, Unaddressable PROVE \E q : Comes(q)
<1>1. r # Opened /\ (r.kind = "ok" \/ NotTheVersion(r))
  <2> DEFINE e == Error("TASK_NOT_FOUND", {}, TRUE)
  <2>1. e \in CodedErrors /\ e.code = "TASK_NOT_FOUND"
    BY DEF Error, Codes, CodedErrors
  <2>2. RestError(e).code = ErrorCodeOf("TASK_NOT_FOUND")
    <3> HIDE DEF e
    <3> QED BY <2>1, NamedErrors DEF Error
  <2>3. ErrorCodeOf("TASK_NOT_FOUND") # "VERSION_NOT_SUPPORTED"
    BY DEF ErrorCodeOf, OtherCode
  <2>4. CASE r = Err(RestError(e))
    BY <2>2, <2>3, <2>4 DEF Err, NotTheVersion, Opened
  <2>5. CASE r = Err(Internal(FALSE))
    BY <2>5 DEF Err, NotTheVersion, Opened, Internal, Error
  <2>6. CASE r = Ok("stray")
    BY <2>6 DEF Ok, Opened
  <2> QED BY <2>4, <2>5, <2>6, Zenon DEF Strays
<1>2. Settled(r, replied', seen')
  BY <1>1 DEF Settled
<1> QED BY <1>1, <1>2 DEF Comes

LEMMA RefusalComes ==
  ASSUME NEW e, replied' = FALSE, seen' = seen, Conclude(Refusal(e)), AllAsked,
         \/ ~Speaks(params) /\ seen = <<>>
         \/ Unaddressable /\ e.code \in {"INVALID_PARAMS", "INVALID_REQUEST"}
  PROVE  \E r : Comes(r)
<1>1. Refusal(e).kind = "error" /\ Refusal(e) # Opened
  BY DEF Refusal, Err, Opened
<1>2. Unaddressable /\ e.code \in {"INVALID_PARAMS", "INVALID_REQUEST"} => NotTheVersion(Refusal(e))
  <2> SUFFICES ASSUME Unaddressable, e.code \in {"INVALID_PARAMS", "INVALID_REQUEST"}
               PROVE  NotTheVersion(Refusal(e))
    OBVIOUS
  <2>1. Refusal(e) = Err(RestError(e))
    BY DEF Refusal, Unaddressable, ErrorOver
  <2>2. ReasonToErrorCode(ErrorReason(e.code)) = e.code /\ e.code # NoReason
    BY ReasonsName DEF ErrorCodeOf, OtherCode, Codes
  <2>3. RestError(e).code = e.code
    BY <2>2 DEF RestError, ParseRestError, RestErrorEnvelope, FromDetails, Error
  <2> QED BY <2>1, <2>3 DEF NotTheVersion, Err
<1>3. Settled(Refusal(e), replied', seen')
  BY <1>1, <1>2 DEF Settled
<1> QED BY <1>1, <1>3 DEF Comes

LEMMA AttemptComes ==
  ASSUME Attempt, setup \in Setups, chosen \in Candidates, AllAsked,
         pc = "legacy" => Binding = "HTTP+JSON" /\ request.method = "SubscribeToTask",
         seen # <<>> => Speaks(params)
  PROVE  \E r : Comes(r)
<1> DEFINE d == Dispatched
<1>1. Arrives(d)
  BY DispatchedArrives
<1> HIDE DEF d
<1>2. CASE seen' = seen /\ Loses
  BY <1>2, LosesComes
<1>3. CASE d.kind = "refuse" /\ seen' = seen /\ replied' = FALSE /\ Conclude(Refusal(d.error))
  <2>1. \/ d = Refuse(UnsupportedVersion) /\ ~Speaks(params)
        \/ Unaddressable /\ Refuses(d)
    BY <1>1, <1>3 DEF Arrives
  <2>2. Unaddressable /\ Refuses(d) => d.error.code \in {"INVALID_PARAMS", "INVALID_REQUEST"}
    BY DEF Refuses, Refuse
  <2>3. ~Speaks(params) => seen = <<>>
    OBVIOUS
  <2> QED BY <1>3, <2>1, <2>2, <2>3, RefusalComes, Zenon
<1>4. CASE d.kind = "http" /\ seen' = seen /\ replied' = FALSE
           /\ Conclude(Err(Internal(d.status \in {404, 405})))
  <2> DEFINE r == Err(Internal(d.status \in {404, 405}))
  <2>1. Lost(r) /\ r # Opened
    BY FailuresLost
  <2>2. Settled(r, replied', seen')
    BY <1>4, <2>1 DEF Settled
  <2> QED BY <1>4, <2>1, <2>2 DEF Comes
<1>5. CASE d.kind = "give" /\ Serve(d)
  <2>1. (~Unaddressable => d = Right) /\ (Binding = "HTTP+JSON" => Speaks(params))
    BY <1>1, <1>5 DEF Arrives, Refuses, Refuse
  <2> DEFINE s == [method |-> d.method, ids |-> d.ids, tenant |-> d.tenant,
                   version |-> Head(params), value |-> Value("request")]
  <2>2. ~Unaddressable =>
          d.method = request.method /\ d.ids = request.ids /\ d.tenant = RightTenant
    BY <2>1 DEF Right, Give
  <2>3. Delivered(s)
    BY <2>2 DEF Delivered
  <2>4. seen' = Append(seen, s)
    BY <1>5 DEF Serve
  <2> HIDE DEF s
  <2>5. Told
    BY <2>1, <2>3, <2>4 DEF Told
  <2>6. \/ Loses
        \/ replied' = TRUE /\ Conclude(Reply)
        \/ d.method # request.method /\ replied' = FALSE /\ \E r \in Strays : Conclude(r)
    BY <1>5 DEF Serve
  <2>7. CASE Loses
    BY <2>5, <2>7, LosesComes
  <2>8. CASE replied' = TRUE /\ Conclude(Reply)
    BY <2>5, <2>8, ReplyComes
  <2>9. CASE d.method # request.method /\ replied' = FALSE /\ \E r \in Strays : Conclude(r)
    <3>1. Unaddressable
      BY <2>2, <2>9
    <3>2. PICK r \in Strays : Conclude(r)
      BY <2>9
    <3> QED BY <2>5, <2>9, <3>1, <3>2, StrayComes
  <2> QED BY <2>6, <2>7, <2>8, <2>9
<1> QED BY <1>2, <1>3, <1>4, <1>5 DEF Attempt, d

-----------------------------------------------------------------------------
(* What is known of a call as it goes on.                                  *)

Recorded == \E S : seen \in Seq(S) /\ \A s \in S : Delivered(s)

(* The VersionInterceptor had the last word so far.                        *)
Versioned ==
  Len(asked) > 0 /\ hooks[Len(asked)] = "version"
    => params = <<Negotiate(card[chosen].version)>>

Sent ==
  /\ pc \notin {"select", "done"} => chosen # 0
  /\ pc = "select" => asked = <<>>
  /\ pc \in {"select", "before", "exchange", "stream"} => seen = <<>> /\ ~replied
  /\ pc \notin {"after", "done"} => outcome \in {Pending, Opened}
  /\ pc = "legacy" => /\ Binding = "HTTP+JSON" /\ request.method = "SubscribeToTask"
                      /\ seen # <<>> => Speaks(params)
  /\ chosen = 0 => outcome.kind # "ok" /\ seen = <<>>
  /\ Versioned
  /\ chosen # 0 => Recorded
  /\ pc \in {"after", "done"} /\ chosen # 0 => Settled(outcome, replied, seen)
  /\ pc = "done" => outcome # Opened

Underway == Selected /\ Hooked /\ Sent

LEMMA NothingSent == seen = <<>> => Recorded
<1>1. <<>> \in Seq({}) /\ \A s \in {} : Delivered(s)
  OBVIOUS
<1> QED BY <1>1 DEF Recorded

LEMMA InitSent == CallInit => Sent
<1> SUFFICES ASSUME CallInit PROVE Sent
  OBVIOUS
<1>1. /\ pc = "select" /\ chosen = 0 /\ asked = <<>> /\ seen = <<>> /\ ~replied
      /\ outcome = Pending /\ Len(asked) = 0
  BY DEF CallInit
<1>2. Versioned
  BY <1>1 DEF Versioned
<1> QED BY <1>1, <1>2 DEF Sent, Pending

LEMMA SameCall ==
  ASSUME UNCHANGED <<setup, chosen>>
  PROVE  /\ request' = request /\ Reply' = Reply /\ (Unaddressable' <=> Unaddressable)
         /\ Binding' = Binding /\ Value("request")' = Value("request")
         /\ RightTenant' = RightTenant /\ hooks' = hooks /\ card' = card
         /\ \A v : Negotiate(v)' = Negotiate(v)
<1>1. request' = request /\ hooks' = hooks /\ card' = card /\ flag' = flag
  BY DEF request, hooks, card, flag
<1>2. Binding' = Binding /\ Tenant' = Tenant /\ RightTenant' = RightTenant
  BY <1>1 DEF Binding, Tenant, RightTenant
<1>3. Value("request")' = Value("request") /\ Value("response")' = Value("response")
  BY <1>1, <1>2 DEF Value, Converted
<1>4. Reply' = Reply
  BY <1>1, <1>2, <1>3 DEF Reply
<1>5. Unaddressable' <=> Unaddressable
  BY <1>1, <1>2 DEF Unaddressable
<1>6. \A v : Negotiate(v)' = Negotiate(v)
  BY <1>1 DEF Negotiate
<1> QED BY <1>1, <1>2, <1>3, <1>4, <1>5, <1>6

LEMMA SameSettled ==
  ASSUME UNCHANGED <<setup, chosen, asked, params>>
  PROVE  /\ Settled(outcome, replied, seen)' <=> Settled(outcome', replied', seen')
         /\ \A s : Delivered(s)' <=> Delivered(s)
         /\ Versioned' <=> Versioned
         /\ Recorded /\ seen' = seen => Recorded'
<1>1. /\ request' = request /\ Reply' = Reply /\ (Unaddressable' <=> Unaddressable)
      /\ Binding' = Binding /\ Value("request")' = Value("request")
      /\ RightTenant' = RightTenant /\ hooks' = hooks /\ card' = card
  BY SameCall
<1>2. AllAsked' <=> AllAsked
  BY <1>1 DEF AllAsked
<1>3. Settled(outcome, replied, seen)' <=> Settled(outcome', replied', seen')
  BY <1>1, <1>2 DEF Settled
<1>4. \A s : Delivered(s)' <=> Delivered(s)
  BY <1>1 DEF Delivered
<1>5. Negotiate(card[chosen].version)' = Negotiate(card[chosen].version)
  BY DEF Negotiate, flag, card
<1>6. Versioned' <=> Versioned
  BY <1>1, <1>5 DEF Versioned
<1>7. Recorded /\ seen' = seen => Recorded'
  BY <1>4 DEF Recorded
<1> QED BY <1>3, <1>4, <1>6, <1>7

LEMMA ToldRecorded ==
  ASSUME Recorded, Told, UNCHANGED <<setup, chosen, asked, params>> PROVE Recorded'
<1>1. PICK S : seen \in Seq(S) /\ \A s \in S : Delivered(s)
  BY DEF Recorded
<1>2. PICK x : seen' = Append(seen, x) /\ Delivered(x)
  BY DEF Told
<1>3. Append(seen, x) \in Seq(S \union {x})
  <2>1. seen \in Seq(S \union {x})
    BY <1>1
  <2> QED BY <2>1
<1>4. \A s \in S \union {x} : Delivered(s)
  BY <1>1, <1>2
<1>5. \A s \in S \union {x} : Delivered(s)'
  BY <1>4, SameSettled
<1> QED BY <1>2, <1>3, <1>5 DEF Recorded

(* The steps, one by one.                                                  *)
LEMMA SelectSent ==
  ASSUME Underway, SelectTransport PROVE Sent'
<1> DEFINE left == Candidates \ tried
           next == Foremost(left)
<1>1. pc = "select" /\ chosen = 0 /\ setup \in Setups
  BY DEF SelectTransport, Underway, Selected
<1>2. asked = <<>> /\ seen = <<>> /\ ~replied /\ outcome \in {Pending, Opened}
  BY <1>1 DEF Underway, Sent
<1>3. UNCHANGED <<setup, asked, told, params, seen, replied>>
  BY DEF SelectTransport
<1>4. /\ \/ chosen' = chosen \/ (left # {} /\ chosen' = next)
      /\ \/ pc' = "done" /\ outcome'.kind = "error" /\ chosen' = chosen
         \/ pc' = pc /\ outcome' = outcome /\ chosen' = chosen
         \/ pc' = "before" /\ outcome' = outcome /\ left # {} /\ chosen' = next
  BY ErrorsAreErrors DEF SelectTransport
<1>5. left # {} => next # 0
  <2> SUFFICES ASSUME left # {} PROVE next # 0
    OBVIOUS
  <2>1. next \in left
    BY <1>1, ForemostPrecedes
  <2> HIDE DEF next
  <2> QED BY <1>1, <2>1, CandidatesShape
<1> HIDE DEF left, next
<1>6. Versioned' /\ Recorded'
  <2>1. asked' = <<>> /\ seen' = <<>>
    BY <1>2, <1>3
  <2>2. Len(asked') = 0
    BY <2>1
  <2>3. <<>> \in Seq({}) /\ \A s \in {} : Delivered(s)'
    OBVIOUS
  <2> QED BY <2>1, <2>2, <2>3 DEF Versioned, Recorded
<1>7. /\ pc' \in {"select", "before", "done"} /\ (pc' = "before" => chosen' # 0)
      /\ (pc' = "done" => outcome'.kind = "error" /\ chosen' = 0)
      /\ (pc' # "done" => outcome' = outcome)
  BY <1>1, <1>4, <1>5
<1>8. outcome' \in {Pending, Opened} => outcome'.kind # "ok"
  BY DEF Pending, Opened
<1>9. outcome'.kind = "error" => outcome' # Opened
  BY DEF Opened
<1> QED BY <1>2, <1>3, <1>6, <1>7, <1>8, <1>9, Zenon DEF Sent

LEMMA BeforeSent ==
  ASSUME Underway, Before PROVE Sent'
<1> DEFINE h == Len(asked) + 1
<1>1. setup \in Setups /\ pc = "before" /\ chosen # 0 /\ seen = <<>> /\ ~replied
      /\ outcome \in {Pending, Opened} /\ Versioned
  BY DEF Before, Underway, Selected, Sent
<1>2. UNCHANGED <<setup, tried, chosen, told, seen, replied>>
  BY DEF Before
<1>3. Recorded'
  <2>1. seen' = <<>> /\ <<>> \in Seq({}) /\ \A s \in {} : Delivered(s)'
    BY <1>1, <1>2
  <2> QED BY <2>1 DEF Recorded
<1>4. CASE h > Len(hooks)
  <2>1. pc' = "exchange" /\ UNCHANGED <<asked, params, outcome>>
    BY <1>4 DEF Before
  <2>2. Versioned'
    BY <1>1, <1>2, <2>1, SameSettled
  <2> QED BY <1>1, <1>2, <1>3, <2>1, <2>2, Zenon DEF Sent
<1>5. CASE ~(h > Len(hooks))
  <2>1. /\ asked' = Append(asked, h) /\ params' = Params(h)
        /\ \/ pc' = pc /\ outcome' = outcome
           \/ pc' = "done" /\ outcome' = Err(Internal(FALSE))
    BY <1>5 DEF Before, Fail
  <2>2. Len(asked)' = h
    <3>1. Len(asked) < Len(hooks) /\ AskedInOrder
      <4>1. Len(hooks) \in Nat
        <5>1. hooks \in Seq({"param", "version", "old", "any"})
          BY <1>1, SetupShape
        <5> QED BY <5>1
      <4> QED BY <1>5, <4>1 DEF Underway, Hooked, AskedInOrder
    <3> QED BY <1>1, <1>2, <2>1, <3>1, NextInOrder
  <2>3. hooks' = hooks /\ card' = card
    BY <1>2 DEF hooks, card
  <2>4. Versioned'
    <3>1. hooks[h] = "version" => params' = <<Negotiate(card[chosen].version)>>
      BY <2>1 DEF Params
    <3>2. Negotiate(card[chosen].version)' = Negotiate(card[chosen].version)
      BY <1>2 DEF Negotiate, flag, card
    <3> HIDE DEF h
    <3> QED BY <2>2, <2>3, <3>1, <3>2 DEF Versioned
  <2>5. CASE pc' = pc /\ outcome' = outcome
    BY <1>1, <1>2, <1>3, <2>4, <2>5, Zenon DEF Sent
  <2>6. CASE pc' = "done" /\ outcome' = Err(Internal(FALSE))
    <3>1. Lost(outcome') /\ outcome' # Opened
      BY <2>6, FailuresLost
    <3>2. Settled(outcome, replied, seen)'
      <4>1. ~replied' /\ Lost(outcome)'
        BY <1>1, <1>2, <3>1 DEF Lost
      <4> QED BY <4>1 DEF Settled
    <3> QED BY <1>1, <1>2, <1>3, <2>4, <2>6, <3>1, <3>2, Zenon DEF Sent
  <2> QED BY <2>1, <2>5, <2>6
<1> QED BY <1>4, <1>5

(* An attempt that came to something.                                      *)
LEMMA ComesSent ==
  ASSUME Sent, Selected, NEW r, Comes(r), pc \in {"exchange", "legacy", "stream"},
         UNCHANGED <<setup, tried, chosen, asked, told, params>>
  PROVE  Sent'
<1>1. /\ chosen # 0 /\ Recorded /\ Versioned /\ outcome \in {Pending, Opened}
      /\ seen # <<>> => Speaks(params)
  BY DEF Sent
<1>2. Recorded' /\ Versioned'
  BY <1>1, SameSettled, ToldRecorded DEF Comes
<1>3. CASE pc = "exchange" /\ RetriesLegacy(r)
  <2>1. pc' = "legacy" /\ outcome' = outcome /\ Binding = "HTTP+JSON"
        /\ request.method = "SubscribeToTask"
    BY <1>3 DEF Comes, Conclude, RetriesLegacy
  <2>2. seen' # <<>> => Speaks(params)'
    <3>1. seen' # <<>> => Speaks(params)
      BY <1>1, <2>1 DEF Comes, Told
    <3> QED BY <3>1 DEF Speaks
  <2>3. Binding' = "HTTP+JSON" /\ (request.method)' = "SubscribeToTask"
    BY <2>1, SameCall
  <2> QED BY <1>1, <1>2, <2>1, <2>2, <2>3, Zenon DEF Sent
<1>4. CASE ~(pc = "exchange" /\ RetriesLegacy(r))
  <2>1. pc' \in {"done", "after"} /\ outcome' = r
    BY <1>4 DEF Comes, Conclude
  <2>2. outcome' # Opened /\ Settled(outcome', replied', seen')
    BY <2>1 DEF Comes
  <2>3. Settled(outcome, replied, seen)'
    BY <2>2, SameSettled
  <2> QED BY <1>1, <1>2, <2>1, <2>2, <2>3, Zenon DEF Sent, Opened
<1> QED BY <1>3, <1>4

LEMMA AttemptSent ==
  ASSUME Underway, Exchange \/ LegacySubscribe \/ ReadStream PROVE Sent'
<1>1. /\ Attempt /\ pc \in {"exchange", "legacy", "stream"}
      /\ UNCHANGED <<setup, tried, chosen, asked, told, params>>
  BY DEF Exchange, LegacySubscribe, ReadStream
<1>2. setup \in Setups /\ AllAsked
  BY <1>1 DEF Underway, Selected, Hooked, Went
<1>3. chosen \in Candidates
  BY <1>1 DEF Underway, Selected, Sent
<1>4. /\ pc = "legacy" => Binding = "HTTP+JSON" /\ request.method = "SubscribeToTask"
      /\ seen # <<>> => Speaks(params)
  BY <1>1 DEF Underway, Sent
<1>5. PICK r : Comes(r)
  BY <1>1, <1>2, <1>3, <1>4, AttemptComes
<1> QED BY <1>1, <1>5, ComesSent DEF Underway

LEMMA OpenSent ==
  ASSUME Underway, OpenStream PROVE Sent'
<1>1. pc = "exchange" /\ Deferred /\ UNCHANGED <<setup, tried, chosen, asked, told, params, seen, replied>>
  BY DEF OpenStream
<1>2. /\ chosen # 0 /\ seen = <<>> /\ ~replied /\ setup \in Setups /\ AllAsked /\ Recorded
      /\ Versioned
  BY <1>1 DEF Underway, Sent, Selected, Hooked, Went
<1>3. chosen \in Candidates
  BY <1>2 DEF Underway, Selected
<1>4. Arrives(Dispatched)
  BY <1>1, <1>2, <1>3, DispatchedArrives
<1>5. Binding # "HTTP+JSON"
  BY <1>1 DEF Deferred
<1>6. PICK r : Conclude(r) /\ \/ r = Opened
                              \/ r = Refusal(Dispatched.error) /\ Dispatched.kind = "refuse"
                              \/ r = Err(Internal(FALSE))
  BY DEF OpenStream
<1>7. pc' = "after" /\ outcome' = r
  BY <1>1, <1>5, <1>6 DEF Conclude, RetriesLegacy
<1>8. Settled(r, replied', seen')
  <2>1. ~replied' /\ seen' = <<>>
    BY <1>1, <1>2
  <2>2. CASE r = Opened
    BY <2>1, <2>2 DEF Settled
  <2>3. CASE r = Err(Internal(FALSE))
    BY <2>1, <2>3, FailuresLost DEF Settled
  <2>4. CASE r = Refusal(Dispatched.error) /\ Dispatched.kind = "refuse"
    <3>1. ~Unaddressable
      BY <1>5 DEF Unaddressable
    <3>2. ~Speaks(params)
      BY <1>4, <2>4, <3>1 DEF Arrives
    <3>3. r.kind = "error"
      BY <2>4 DEF Refusal, Err
    <3> QED BY <1>2, <2>1, <3>2, <3>3 DEF Settled
  <2> QED BY <1>6, <2>2, <2>3, <2>4
<1>9. Settled(outcome, replied, seen)' /\ Versioned' /\ Recorded'
  BY <1>1, <1>2, <1>7, <1>8, SameSettled
<1> QED BY <1>1, <1>2, <1>7, <1>9, Zenon DEF Sent

LEMMA AfterSent ==
  ASSUME Underway, After PROVE Sent'
<1>1. pc = "after" /\ UNCHANGED <<setup, tried, chosen, asked, params, seen, replied>>
  BY DEF After
<1>2. chosen # 0 /\ Recorded /\ Versioned /\ Settled(outcome, replied, seen)
  BY <1>1 DEF Underway, Sent
<1>3. Versioned' /\ Recorded'
  BY <1>1, <1>2, SameSettled
<1>4. \/ pc' = (IF outcome = Opened THEN "stream" ELSE "done") /\ outcome' = outcome
      \/ pc' = pc /\ outcome' = outcome
      \/ pc' = "done" /\ outcome' = FinishCall(outcome)
  BY DEF After
<1>5. CASE outcome' = outcome
  <2>1. Settled(outcome, replied, seen)'
    BY <1>1, <1>2, <1>5, SameSettled
  <2>2. CASE pc' \in {"after", "done"} /\ (pc' = "done" => outcome # Opened)
    BY <1>1, <1>2, <1>3, <1>5, <2>1, <2>2, Zenon DEF Sent
  <2>3. CASE pc' = "stream" /\ outcome = Opened
    <3>1. seen = <<>> /\ ~replied
      <4>1. ~Lost(Opened) /\ ~NotTheVersion(Opened) /\ Opened.kind # "ok" /\ Opened.kind # "error"
            /\ Reply # Opened
        BY DEF Lost, NotTheVersion, Opened, Reply, Ok, Err
      <4> QED BY <1>2, <2>3, <4>1, Zenon DEF Settled
    <3> QED BY <1>1, <1>2, <1>3, <1>5, <2>3, <3>1, Zenon DEF Sent
  <2>4. CASE pc' = "done" /\ outcome # Opened
    BY <2>2, <2>4
  <2>5. CASE pc' = "done" /\ outcome = Opened
    <3>1. outcome' = FinishCall(outcome)
      BY <1>1, <1>4, <2>5
    <3>2. FinishCall(outcome).kind = "error" /\ Opened.kind # "error"
      BY ErrorsAreErrors DEF Opened
    <3> QED BY <1>5, <2>5, <3>1, <3>2
  <2> QED BY <1>1, <1>4, <2>2, <2>3, <2>4, <2>5
<1>6. CASE pc' = "done" /\ outcome' = FinishCall(outcome) /\ outcome' # outcome
  <2>1. outcome.kind # "error" /\ outcome' = Err(Internal(FALSE))
    BY <1>6 DEF FinishCall
  <2>2. Lost(outcome') /\ outcome' # Opened
    BY <2>1, FailuresLost
  <2>3. replied => request.answer = Success
    BY <1>2, <2>1 DEF Settled, Lost, Reply, Err
  <2>4. Settled(outcome', replied', seen')
    BY <1>1, <2>2, <2>3 DEF Settled
  <2>5. Settled(outcome, replied, seen)'
    BY <1>1, <2>4, SameSettled
  <2> QED BY <1>1, <1>2, <1>3, <1>6, <2>2, <2>5, Zenon DEF Sent
<1> QED BY <1>1, <1>4, <1>5, <1>6

LEMMA NextSent == Underway /\ [CallNext]_callVars => Sent'
<1> SUFFICES ASSUME Underway, [CallNext]_callVars PROVE Sent'
  OBVIOUS
<1>1. CASE UNCHANGED callVars
  <2>1. UNCHANGED <<setup, chosen, asked, params, seen, replied, outcome, pc>>
    BY <1>1 DEF callVars
  <2>2. Settled(outcome, replied, seen)' <=> Settled(outcome, replied, seen)
    BY <2>1, SameSettled
  <2>3. (Versioned' <=> Versioned) /\ (Recorded => Recorded')
    BY <2>1, SameSettled
  <2>4. Binding' = Binding /\ request' = request /\ (Speaks(params)' <=> Speaks(params))
    BY <2>1, SameCall DEF Speaks
  <2> QED BY <2>1, <2>2, <2>3, <2>4, Zenon DEF Underway, Sent
<1> QED BY <1>1, SelectSent, BeforeSent, AttemptSent, OpenSent, AfterSent DEF CallNext

LEMMA InitUnderway == CallInit => Underway
BY InitSelected, InitHooked, InitSent DEF Underway

LEMMA NextUnderway == Underway /\ [CallNext]_callVars => Underway'
BY NextSelected, NextHooked, NextSent DEF Underway

-----------------------------------------------------------------------------
(* What it says of the request and of the answer.                          *)

LEMMA VersionAgreed ==
  ASSUME Underway, chosen # 0, AllAsked, hooks # <<>>, Last(hooks) = "version"
  PROVE  LET v == Negotiate(card[chosen].version)
         IN  /\ Head(params) = v /\ Speaks(params) /\ v[1] = 1
             /\ (flag # NoVersion => v = flag) /\ (flag = NoVersion => v[2] <= Version[2])
<1> DEFINE v == Negotiate(card[chosen].version)
<1>1. setup \in Setups /\ chosen \in DOMAIN card
  BY BindingsKnown DEF Underway, Selected
<1>2. Len(asked) > 0 /\ hooks[Len(asked)] = "version"
  <2>1. hooks \in Seq({"param", "version", "old", "any"})
    BY <1>1, SetupShape
  <2>2. Len(hooks) > 0 /\ hooks[Len(hooks)] = "version"
    BY <2>1 DEF Last
  <2> QED BY <2>2 DEF AllAsked
<1>3. params = <<v>>
  BY <1>2 DEF Underway, Sent, Versioned
<1>4. /\ v[1] = 1 /\ (flag # NoVersion => v = flag)
      /\ flag = NoVersion => v[2] <= Version[2]
  BY <1>1, Negotiated
<1> HIDE DEF v
<1>5. Head(params) = v
  BY <1>3
<1>6. Speaks(params)
  BY <1>3, <1>4, SpeaksOne
<1> QED BY <1>4, <1>5, <1>6 DEF v

LEMMA UnderwayArrives == Underway => PayloadArrives
<1> SUFFICES ASSUME Underway PROVE PayloadArrives
  OBVIOUS
<1>0. setup \in Setups
  BY DEF Underway, Selected
<1>1. ASSUME NEW i \in DOMAIN seen
      PROVE  /\ chosen # 0 /\ AllAsked /\ Delivered(seen[i])
  <2>1. seen # <<>>
    BY <1>1
  <2>2. chosen # 0 /\ AllAsked
    BY <2>1 DEF Underway, Sent, Hooked, Went
  <2>3. PICK S : seen \in Seq(S) /\ \A s \in S : Delivered(s)
    BY <2>2 DEF Underway, Sent, Recorded
  <2> QED BY <1>1, <2>2, <2>3
<1>2. ASSUME NEW i \in DOMAIN seen, request.side = "request", request.value # "far"
      PROVE  Meaning(seen[i].value) = Meaning(request.value)
  <2>1. seen[i].value = Value("request")
    BY <1>1 DEF Delivered
  <2> QED BY <1>0, <1>2, <2>1, MeaningKept
<1>3. ASSUME NEW i \in DOMAIN seen, ~Unaddressable
      PROVE  /\ seen[i].method = request.method /\ seen[i].ids = request.ids
             /\ seen[i].tenant = RightTenant
  BY <1>1, <1>3 DEF Delivered
<1>4. ASSUME NEW i \in DOMAIN seen, hooks # <<>>, Last(hooks) = "version"
      PROVE  /\ flag # NoVersion => seen[i].version = flag
             /\ flag = NoVersion => seen[i].version[1] = 1 /\ seen[i].version[2] <= Version[2]
  <2>1. seen[i].version = Head(params)
    BY <1>1 DEF Delivered
  <2> QED BY <1>1, <1>4, <2>1, VersionAgreed
<1>5. ASSUME outcome.kind = "ok", request.side = "response", request.value # "far", ~Unaddressable
      PROVE  Meaning(outcome.value) = Meaning(request.value)
  <2>1. outcome \notin {Pending, Opened}
    BY <1>5 DEF Pending, Opened
  <2>2. chosen # 0 /\ Settled(outcome, replied, seen)
    BY <1>5, <2>1, Zenon DEF Underway, Sent
  <2>3. outcome = Reply
    BY <1>5, <2>1, <2>2 DEF Settled, Lost, NotTheVersion
  <2>4. outcome = Ok(Value("response"))
    BY <1>5, <2>3 DEF Reply, Err
  <2>5. outcome.value = Value("response")
    BY <2>4 DEF Ok
  <2> QED BY <1>0, <1>5, <2>5, MeaningKept
<1>6. ASSUME hooks # <<>>, Last(hooks) = "version", pc = "done", chosen # 0,
             request.answer = Success
      PROVE  outcome.kind = "ok" \/ outcome.error.code # "VERSION_NOT_SUPPORTED"
  <2>1. Settled(outcome, replied, seen) /\ outcome # Opened
    BY <1>6 DEF Underway, Sent
  <2>2. outcome = Reply => outcome.kind = "ok"
    BY <1>6 DEF Reply, Ok
  <2>3. Lost(outcome) => outcome.error.code # "VERSION_NOT_SUPPORTED"
    BY DEF Lost, IsConnectionFailure
  <2>4. AllAsked => Speaks(params)
    BY <1>6, VersionAgreed
  <2> QED BY <2>1, <2>2, <2>3, <2>4, Zenon DEF Settled, NotTheVersion
<1> QED BY <1>2, <1>3, <1>4, <1>5, <1>6, Zenon DEF PayloadArrives, RightTenant

LEMMA ErrorsArrive ==
  ASSUME NEW over \in {"JSONRPC", "HTTP+JSON", "GRPC"},
         NEW e \in CodedErrors
  PROVE  LET r == ErrorOver(over, e)
         IN  /\ r.code = ErrorCodeOf(e.code) /\ ~IsConnectionFailure(r)
             /\ "bad" \in e.details <=> "bad" \in r.details
<1> DEFINE r == ErrorOver(over, e)
<1>1. /\ r.code = ErrorCodeOf(e.code)
      /\ \/ r.details = e.details \union {"info"}
         \/ r.details = (e.details \intersect {"bad"}) \union {"info"}
  <2>1. r = JsonRpcError(e) \/ r = RestError(e) \/ r = GrpcError(e)
    BY DEF ErrorOver
  <2> QED BY <2>1, NamedErrors DEF Error
<1> HIDE DEF r
<1> QED BY <1>1 DEF IsConnectionFailure, r, CodedErrors

LEMMA UnderwaySurvives == Underway => ErrorSurvives
<1> DEFINE e == request.answer
           r == outcome
           code == IF e.code = OtherCode THEN "INTERNAL_ERROR" ELSE e.code
<1> SUFFICES ASSUME Underway, pc \in {"after", "done"}, chosen # 0, e # Success
             PROVE  /\ replied =>
                         /\ r.kind = "error"
                         /\ Binding \in {"JSONRPC", "HTTP+JSON", "GRPC"} =>
                              /\ r.error.code = code /\ ~IsConnectionFailure(r.error)
                              /\ "bad" \in e.details <=> "bad" \in r.error.details
                         /\ Binding \in {"SLIMRPC", "plugin"}
                              /\ code \in {"TASK_NOT_FOUND", "TASK_NOT_CANCELABLE", "INVALID_PARAMS"}
                              => r.error.code = code
                    /\ ~replied /\ seen # <<>> /\ Binding # "plugin" /\ ~Unaddressable
                         => IsConnectionFailure(r.error)
  BY Zenon DEF ErrorSurvives
<1>1. Settled(outcome, replied, seen)
  BY DEF Underway, Sent
<1>2. e \in CodedErrors
  BY SetupShape DEF Underway, Selected, Answers, CodedErrors
<1>3. code = ErrorCodeOf(e.code)
  BY DEF ErrorCodeOf
<1>4. ASSUME replied
      PROVE  r.kind = "error" /\ r.error = ErrorOver(Binding, e)
  <2>1. r = Reply
    BY <1>1, <1>4 DEF Settled
  <2> QED BY <2>1 DEF Reply, Err
<1>5. ASSUME ~replied, seen # <<>>, Binding # "plugin", ~Unaddressable
      PROVE  IsConnectionFailure(r.error)
  BY <1>1, <1>5, Zenon DEF Settled, Lost
<1> HIDE DEF e, r
<1>6. ASSUME replied, Binding \in {"JSONRPC", "HTTP+JSON", "GRPC"}
      PROVE  /\ r.error.code = code /\ ~IsConnectionFailure(r.error)
             /\ "bad" \in e.details <=> "bad" \in r.error.details
  BY <1>2, <1>3, <1>4, <1>6, ErrorsArrive
<1>7. ASSUME replied, Binding \in {"SLIMRPC", "plugin"},
             code \in {"TASK_NOT_FOUND", "TASK_NOT_CANCELABLE", "INVALID_PARAMS"}
      PROVE  r.error.code = code
  <2>1. e.code = code
    BY <1>7
  <2> HIDE DEF code
  <2>2. SlimError(e) = Error(code, {}, e.missing)
    BY <1>7, <2>1, SlimKeeps
  <2>3. GrpcError(SlimError(e)).code = code
    <3> DEFINE s == SlimError(e)
    <3>1. s.code = code /\ s \in CodedErrors
      BY <1>2, <1>7, <2>2 DEF Error, Codes, CodedErrors
    <3>2. ErrorCodeOf(code) = code
      BY <1>7 DEF ErrorCodeOf, OtherCode
    <3> HIDE DEF s
    <3>3. GrpcError(s).code = code
      BY <3>1, <3>2, NamedErrors DEF Error
    <3> QED BY <3>3 DEF s
  <2>4. SlimError(e).code = code
    BY <2>2 DEF Error
  <2> QED BY <1>4, <1>7, <2>3, <2>4 DEF ErrorOver
<1> QED BY <1>4, <1>5, <1>6, <1>7, Zenon DEF r

(* Whatever the card, the interceptors and the binding, a request that     *)
(* reaches the handler is the one that was made, with the tenant and the   *)
(* version it was to carry, and what is read of the reply means what the   *)
(* agent meant (TenantPath, VersionInterceptor, pbconv's conversions).     *)
THEOREM PayloadsArrive == CallSpec => []PayloadArrives
<1>1. QED BY InitUnderway, NextUnderway, UnderwayArrives, PTL DEF CallSpec

(* Every error the handler can answer reaches the caller as what it was,   *)
(* and a connection lost after the handler was reached looks like one      *)
(* (a2a_error_from_details, status_to_a2a_error, is_connection_failure).   *)
THEOREM ErrorsSurvive == CallSpec => []ErrorSurvives
<1>1. QED BY InitUnderway, NextUnderway, UnderwaySurvives, PTL DEF CallSpec

(***************************************************************************)
(* A stream of events, cut into chunks.                                    *)
(***************************************************************************)

(* A recursion over the number of rounds defines a function: of any two    *)
(* beginnings of it one continues the other.                               *)
Round(n, f, b) ==
  LET i == FindEventBoundary(b)
  IN  IF n = 0 \/ i = 0 THEN [items |-> <<>>, rest |-> b]
      ELSE LET more == f[n - 1][SubSeq(b, i + 2, Len(b))]
           IN  [items |-> ParseEvent(SubSeq(b, 1, i - 1)) \o more.items,
                rest |-> more.rest]

Rounds(f, n) == f = [k \in 0 .. n |-> [b \in Seq(Token) |-> Round(k, f, b)]]

LEMMA RoundsAgree ==
  ASSUME NEW n \in Nat, NEW m \in Nat, NEW f, NEW g, Rounds(f, n), Rounds(g, m)
  PROVE  \A k \in Nat : k <= n /\ k <= m => f[k] = g[k]
<1> DEFINE bad == {k \in Nat : k <= n /\ k <= m /\ f[k] # g[k]}
<1>1. SUFFICES ASSUME bad # {} PROVE FALSE
  OBVIOUS
<1>2. PICK k \in bad : \A j \in bad : k <= j
  <2>1. bad \in SUBSET Nat
    OBVIOUS
  <2> QED BY <1>1, <2>1, LeastNumber, Zenon
<1>3. /\ f[k] = [b \in Seq(Token) |-> Round(k, f, b)]
      /\ g[k] = [b \in Seq(Token) |-> Round(k, g, b)]
  <2>1. k \in 0 .. n /\ k \in 0 .. m
    BY <1>2
  <2>2. f = [j \in 0 .. n |-> [b \in Seq(Token) |-> Round(j, f, b)]]
    BY Zenon DEF Rounds
  <2>3. g = [j \in 0 .. m |-> [b \in Seq(Token) |-> Round(j, g, b)]]
    BY Zenon DEF Rounds
  <2>4. f[k] = [b \in Seq(Token) |-> Round(k, f, b)]
    BY <2>1, <2>2, Zenon
  <2>5. g[k] = [b \in Seq(Token) |-> Round(k, g, b)]
    BY <2>1, <2>3, Zenon
  <2> QED BY <2>4, <2>5
<1>4. ASSUME NEW b \in Seq(Token) PROVE Round(k, f, b) = Round(k, g, b)
  <2>1. CASE k = 0
    BY <2>1, Zenon DEF Round
  <2>2. CASE k # 0
    <3>1. k - 1 \in Nat /\ k - 1 <= n /\ k - 1 <= m /\ ~(k <= k - 1)
      BY <1>2, <2>2
    <3>2. f[k - 1] = g[k - 1]
      BY <1>2, <3>1
    <3> QED BY <3>2, Zenon DEF Round
  <2> QED BY <2>1, <2>2, Zenon
<1>5. [b \in Seq(Token) |-> Round(k, f, b)] = [b \in Seq(Token) |-> Round(k, g, b)]
  BY <1>4, Zenon
<1> QED BY <1>2, <1>3, <1>5

LEMMA RoundsExist == \A n \in Nat : \E f : Rounds(f, n)
<1> DEFINE bad == {n \in Nat : ~ \E f : Rounds(f, n)}
<1>1. SUFFICES ASSUME bad # {} PROVE FALSE
  OBVIOUS
<1>2. PICK n \in bad : \A j \in bad : n <= j
  <2>1. bad \in SUBSET Nat
    OBVIOUS
  <2> QED BY <1>1, <2>1, LeastNumber, Zenon
<1>3. CASE n = 0
  <2> DEFINE f == [k \in 0 .. 0 |-> [b \in Seq(Token) |-> [items |-> <<>>, rest |-> b]]]
  <2>1. ASSUME NEW k \in 0 .. 0, NEW b \in Seq(Token)
        PROVE  Round(k, f, b) = [items |-> <<>>, rest |-> b]
    <3>1. k = 0
      OBVIOUS
    <3> QED BY <3>1, Zenon DEF Round
  <2>2. f = [k \in 0 .. 0 |-> [b \in Seq(Token) |-> Round(k, f, b)]]
    <3> HIDE DEF f
    <3>1. \A k \in 0 .. 0 : [b \in Seq(Token) |-> Round(k, f, b)]
                            = [b \in Seq(Token) |-> [items |-> <<>>, rest |-> b]]
      BY <2>1, Zenon
    <3> QED BY <3>1, Zenon DEF f
  <2>3. Rounds(f, 0)
    <3> HIDE DEF f
    <3> QED BY <2>2, Zenon DEF Rounds
  <2> QED BY <1>2, <1>3, <2>3
<1>4. CASE n # 0
  <2>1. n - 1 \in Nat /\ ~(n <= n - 1)
    BY <1>2, <1>4
  <2>2. PICK g : Rounds(g, n - 1)
    BY <1>2, <2>1
  <2> DEFINE f == [k \in 0 .. n |-> IF k = n THEN [b \in Seq(Token) |-> Round(n, g, b)] ELSE g[k]]
  <2>3. \A k \in 0 .. n - 1 : f[k] = g[k]
    BY <2>1, <1>2
  <2>4. ASSUME NEW k \in 0 .. n PROVE f[k] = [b \in Seq(Token) |-> Round(k, f, b)]
    <3>1. \A b \in Seq(Token) : Round(k, f, b) = Round(k, g, b)
      <4>1. CASE k = 0
        <5> HIDE DEF f
        <5> QED BY <4>1, Zenon DEF Round
      <4>2. CASE k # 0
        <5>1. k - 1 \in 0 .. n - 1
          BY <4>2, <1>2
        <5>2. f[k - 1] = g[k - 1]
          BY <2>3, <5>1
        <5> HIDE DEF f
        <5> QED BY <5>2, Zenon DEF Round
      <4> QED BY <4>1, <4>2, Zenon
    <3>2. f[k] = [b \in Seq(Token) |-> Round(k, g, b)]
      <4>1. CASE k = n
        <5>1. f[k] = [b \in Seq(Token) |-> Round(n, g, b)]
          BY <4>1, Zenon
        <5> QED BY <4>1, <5>1, Zenon
      <4>2. CASE k # n
        <5>1. k \in 0 .. n - 1
          BY <4>2, <1>2
        <5>2. g = [j \in 0 .. n - 1 |-> [b \in Seq(Token) |-> Round(j, g, b)]]
          BY <2>2, Zenon DEF Rounds
        <5>3. g[k] = [b \in Seq(Token) |-> Round(k, g, b)]
          BY <5>1, <5>2, Zenon
        <5> QED BY <2>3, <5>1, <5>3, Zenon
      <4> QED BY <4>1, <4>2, Zenon
    <3> HIDE DEF f
    <3>3. [b \in Seq(Token) |-> Round(k, f, b)] = [b \in Seq(Token) |-> Round(k, g, b)]
      BY <3>1, Zenon
    <3> QED BY <3>2, <3>3, Zenon
  <2>5. f = [k \in 0 .. n |-> [b \in Seq(Token) |-> Round(k, f, b)]]
    <3>1. f = [k \in 0 .. n |-> f[k]]
      BY Zenon
    <3> HIDE DEF f
    <3>2. [k \in 0 .. n |-> f[k]] = [k \in 0 .. n |-> [b \in Seq(Token) |-> Round(k, f, b)]]
      BY <2>4, Zenon
    <3> QED BY <3>1, <3>2, Zenon
  <2>6. Rounds(f, n)
    <3> HIDE DEF f
    <3> QED BY <2>5, Zenon DEF Rounds
  <2> QED BY <1>2, <2>6
<1> QED BY <1>3, <1>4

LEMMA DrainIs ==
  \A n \in Nat, b \in Seq(Token) : Drain[n][b] = Round(n, Drain, b)
<1> DEFINE part(n) == CHOOSE f : Rounds(f, n)
           whole == [n \in Nat |-> part(n)[n]]
<1>1. \A n \in Nat : Rounds(part(n), n)
  BY RoundsExist, Zenon
<1>2. ASSUME NEW n \in Nat PROVE whole[n] = [b \in Seq(Token) |-> Round(n, whole, b)]
  <2>1. whole[n] = part(n)[n]
    BY Zenon
  <2>2. part(n)[n] = [b \in Seq(Token) |-> Round(n, part(n), b)]
    <3> HIDE DEF part
    <3>1. part(n) = [k \in 0 .. n |-> [b \in Seq(Token) |-> Round(k, part(n), b)]]
      BY <1>1, Zenon DEF Rounds
    <3>2. n \in 0 .. n
      OBVIOUS
    <3> QED BY <3>1, <3>2, Zenon
  <2>3. ASSUME NEW b \in Seq(Token) PROVE Round(n, part(n), b) = Round(n, whole, b)
    <3>1. CASE n = 0
      BY <3>1, Zenon DEF Round
    <3>2. CASE n # 0
      <4>1. n - 1 \in Nat /\ n - 1 <= n - 1 /\ n - 1 <= n
        BY <3>2
      <4>2. whole[n - 1] = part(n - 1)[n - 1]
        BY <4>1, Zenon
      <4> HIDE DEF part, whole
      <4>3. part(n - 1)[n - 1] = part(n)[n - 1]
        BY <1>1, <4>1, RoundsAgree
      <4> QED BY <4>2, <4>3, Zenon DEF Round
    <3> QED BY <3>1, <3>2, Zenon
  <2> HIDE DEF part, whole
  <2>4. [b \in Seq(Token) |-> Round(n, part(n), b)] = [b \in Seq(Token) |-> Round(n, whole, b)]
    BY <2>3, Zenon
  <2> QED BY <2>1, <2>2, <2>4, Zenon
<1>3. whole = [n \in Nat |-> [b \in Seq(Token) |-> Round(n, whole, b)]]
  <2>1. whole = [n \in Nat |-> whole[n]]
    OBVIOUS
  <2> HIDE DEF whole
  <2> QED BY <1>2, <2>1, Zenon
<1>4. Drain = [n \in Nat |-> [b \in Seq(Token) |-> Round(n, Drain, b)]]
  <2> HIDE DEF whole
  <2>1. \E f : f = [n \in Nat |-> [b \in Seq(Token) |-> Round(n, f, b)]]
    <3> WITNESS whole
    <3> QED BY <1>3, Zenon
  <2> QED BY <2>1, Zenon DEF Drain, Round
<1> DEFINE by == [n \in Nat |-> [b \in Seq(Token) |-> Round(n, Drain, b)]]
<1>5. \A n \in Nat, b \in Seq(Token) : by[n][b] = Round(n, Drain, b)
  OBVIOUS
<1>6. Drain = by
  BY <1>4, Zenon
<1> HIDE DEF by
<1> QED BY <1>5, <1>6, Zenon

-----------------------------------------------------------------------------
(* The first empty line, and what the callbacks make of an event.          *)

LEMMA FirstBoundary ==
  ASSUME NEW b \in Seq(Token)
  PROVE  /\ Boundaries(b) = {} => FindEventBoundary(b) = 0
         /\ Boundaries(b) # {} =>
              /\ FindEventBoundary(b) \in Boundaries(b)
              /\ \A j \in Boundaries(b) : FindEventBoundary(b) <= j
<1>1. Boundaries(b) \in SUBSET Nat
  BY DEF Boundaries
<1>2. ASSUME Boundaries(b) # {}
      PROVE  \E i \in Boundaries(b) : \A j \in Boundaries(b) : i <= j
  BY <1>1, <1>2, LeastNumber
<1>3. Boundaries(b) # {} =>
        FindEventBoundary(b) = CHOOSE i \in Boundaries(b) : \A j \in Boundaries(b) : i <= j
  BY DEF FindEventBoundary
<1>4. Boundaries(b) = {} => FindEventBoundary(b) = 0
  BY DEF FindEventBoundary
<1> QED BY <1>2, <1>3, <1>4, Zenon

SseItem == [n : 1 .. MaxItems, ok : BOOLEAN]

LEMMA TokensDiffer ==
  ASSUME NEW i, NEW it, NEW env
  PROVE  /\ LF # Id /\ LF # Data /\ LF # Comment /\ Id # Data /\ Id # Comment /\ Data # Comment
         /\ Half(i, it, env) \notin {LF, Id, Data, Comment}
         /\ LF.tag # "half" /\ Id.tag # "half" /\ Data.tag # "half" /\ Comment.tag # "half"
         /\ Half(i, it, env).tag = "half" /\ Half(i, it, env).i = i
         /\ Half(i, it, env).item = it /\ Half(i, it, env).env = env
<1>1. LF.tag = "lf" /\ Id.tag = "id" /\ Data.tag = "data:" /\ Comment.tag = ":"
  BY DEF LF, Id, Data, Comment
<1>2. /\ Half(i, it, env).tag = "half" /\ Half(i, it, env).i = i
      /\ Half(i, it, env).item = it /\ Half(i, it, env).env = env
  BY DEF Half
<1> QED BY <1>1, <1>2

LEMMA TokenIs ==
  /\ LF \in Token /\ Id \in Token /\ Data \in Token /\ Comment \in Token
  /\ binding \in {"JSONRPC", "HTTP+JSON"} =>
       \A it \in SseItem : Half(1, it, binding) \in Token /\ Half(2, it, binding) \in Token
BY DEF Token, SseItem

LEMMA NoPayload ==
  ASSUME NEW b, \A k \in DOMAIN b : b[k].tag # "half"
  PROVE  ParseEvent(b) = <<>>
<1>1. Halves(b) = {}
  BY DEF Halves, Range
<1>2. ~Whole(Halves(b))
  <2>1. {t.i : t \in {}} # {1, 2}
    OBVIOUS
  <2> QED BY <1>1, <2>1, Zenon DEF Whole
<1> QED BY <1>1, <1>2, Zenon DEF ParseEvent, ParseSseStream, ParseSseStreamRest

(* These bytes hold the two halves of this payload and no other.           *)
HoldsBoth(b, it) == Halves(b) = {Half(1, it, binding), Half(2, it, binding)}

LEMMA WholePayload ==
  ASSUME NEW b, NEW it, binding \in {"JSONRPC", "HTTP+JSON"}, HoldsBoth(b, it)
  PROVE  ParseEvent(b) = <<it>>
<1> DEFINE d == Halves(b)
<1>1. FirstHalf(d) = Half(1, it, binding)
  BY TokensDiffer DEF HoldsBoth, FirstHalf
<1>2. Whole(d) /\ d # {}
  BY TokensDiffer DEF HoldsBoth, Whole
<1>3. FirstHalf(d).env = binding /\ FirstHalf(d).item = it
  BY <1>1, TokensDiffer
<1>4. CASE binding = "JSONRPC"
  BY <1>2, <1>3, <1>4 DEF ParseEvent, ParseSseStream
<1>5. CASE binding = "HTTP+JSON"
  BY <1>2, <1>3, <1>5 DEF ParseEvent, ParseSseStreamRest
<1> QED BY <1>4, <1>5

LEMMA PartPayload ==
  ASSUME NEW b, NEW it, NEW i \in {1, 2}, Halves(b) = {Half(i, it, binding)}
  PROVE  ParseEvent(b) = <<Garbled>>
<1> DEFINE d == Halves(b)
<1>1. {t.i : t \in d} = {i}
  BY TokensDiffer
<1>2. ~Whole(d) /\ d # {}
  BY <1>1 DEF Whole
<1> QED BY <1>2 DEF ParseEvent, ParseSseStream, ParseSseStreamRest

-----------------------------------------------------------------------------
(* A sequence that is cut in two ways.                                     *)

LEMMA TokensConcat ==
  \A p, q, r \in Seq(Token) : (p \o q) \o r = p \o (q \o r)
BY ConcatAssociative

GoesOn(b, z, f, r) ==
  \E c \in Seq(Token) : Len(c) = Len(b) - Len(f) /\ b = f \o c /\ c \o z = r

LEMMA CutTwice ==
  ASSUME NEW b \in Seq(Token), NEW z \in Seq(Token), NEW f \in Seq(Token), NEW r \in Seq(Token),
         b \o z = f \o r
  PROVE  /\ \A k \in 1 .. Len(b) : k <= Len(f) => b[k] = f[k]
         /\ Len(b) >= Len(f) => GoesOn(b, z, f, r)
<1>1. \A k \in 1 .. Len(b) : (b \o z)[k] = b[k]
  OBVIOUS
<1>2. \A k \in 1 .. Len(f) : (f \o r)[k] = f[k]
  OBVIOUS
<1>3. \A k \in 1 .. Len(b) : k <= Len(f) => b[k] = f[k]
  BY <1>1, <1>2
<1>4. ASSUME Len(b) >= Len(f), NEW c, c = SubSeq(b, Len(f) + 1, Len(b))
      PROVE  c \in Seq(Token) /\ Len(c) = Len(b) - Len(f) /\ b = f \o c /\ c \o z = r
  <2>1. /\ c \in Seq(Token) /\ Len(c) = Len(b) - Len(f)
        /\ \A k \in 1 .. Len(c) : c[k] = b[Len(f) + k]
    <3>1. Len(f) + 1 \in 1 .. Len(b) + 1 /\ Len(b) \in Len(f) .. Len(b)
      BY <1>4
    <3>2. \A k \in Len(f) + 1 .. Len(b) : b[k] \in Token
      BY <1>4
    <3> QED BY <1>4, <3>1, <3>2, SubSeqProperties
  <2>2. b = f \o c
    <3>1. Len(f \o c) = Len(b) /\ f \o c \in Seq(Token)
      BY <2>1, <1>4
    <3>2. ASSUME NEW k \in 1 .. Len(b) PROVE b[k] = (f \o c)[k]
      <4>1. CASE k <= Len(f)
        <5>1. (f \o c)[k] = f[k]
          BY <4>1, <2>1
        <5> QED BY <4>1, <5>1, <1>3
      <4>2. CASE k > Len(f)
        <5>1. k - Len(f) \in 1 .. Len(c)
          BY <4>2, <2>1, <1>4
        <5>2. (f \o c)[k] = c[k - Len(f)]
          BY <4>2, <2>1, <3>1, <5>1
        <5>3. c[k - Len(f)] = b[Len(f) + (k - Len(f))]
          BY <5>1, <2>1
        <5> QED BY <5>2, <5>3
      <4>3. k <= Len(f) \/ k > Len(f)
        OBVIOUS
      <4> QED BY <4>1, <4>2, <4>3, Zenon
    <3> QED BY <3>1, <3>2, SeqEqual
  <2>3. c \o z = r
    <3>1. f \o (c \o z) = f \o r
      <4>1. (f \o c) \o z = f \o (c \o z)
        BY <2>1, TokensConcat, Zenon
      <4> QED BY <4>1, <2>2
    <3>2. c \o z \in Seq(Token)
      BY <2>1
    <3>3. \A s, t, v \in Seq(Token) : s \o t = s \o v => t = v
      BY ConcatSimplifications
    <3> QED BY <3>1, <3>2, <3>3, Zenon
  <2> QED BY <2>1, <2>2, <2>3
<1>5. ASSUME Len(b) >= Len(f) PROVE GoesOn(b, z, f, r)
  <2> DEFINE c == SubSeq(b, Len(f) + 1, Len(b))
  <2>1. c \in Seq(Token) /\ Len(c) = Len(b) - Len(f) /\ b = f \o c /\ c \o z = r
    BY <1>4, <1>5, Zenon
  <2> HIDE DEF c
  <2> QED BY <2>1, Zenon DEF GoesOn
<1> QED BY <1>3, <1>5, Zenon

-----------------------------------------------------------------------------
(* What is still to be parsed is a sequence of frames: of the items after  *)
(* the m-th, in their order, and of comments between them.  A set of pairs *)
(* of bytes and m that is closed under taking the first frame says so.     *)

CommentFrame == <<Comment, LF, LF>>

Peels(its, W) ==
  \A s \in Seq(Token), m \in Nat : <<s, m>> \in W =>
    \/ s = <<>> /\ m = Len(its)
    \/ m < Len(its) /\ \E r \in Seq(Token) : s = Frame(its[m + 1]) \o r /\ <<r, m + 1>> \in W
    \/ \E r \in Seq(Token) : s = CommentFrame \o r /\ <<r, m>> \in W

Frames(its, s, m) ==
  \E W \in SUBSET (Seq(Token) \X Nat) : Peels(its, W) /\ <<s, m>> \in W

LEMMA FramesPeel ==
  ASSUME NEW its, NEW s \in Seq(Token), NEW m \in Nat, Frames(its, s, m)
  PROVE  \/ s = <<>> /\ m = Len(its)
         \/ m < Len(its) /\ \E r \in Seq(Token) : s = Frame(its[m + 1]) \o r /\ Frames(its, r, m + 1)
         \/ \E r \in Seq(Token) : s = CommentFrame \o r /\ Frames(its, r, m)
<1>1. PICK W \in SUBSET (Seq(Token) \X Nat) : Peels(its, W) /\ <<s, m>> \in W
  BY Zenon DEF Frames
<1>2. \/ s = <<>> /\ m = Len(its)
      \/ m < Len(its) /\ \E r \in Seq(Token) : s = Frame(its[m + 1]) \o r /\ <<r, m + 1>> \in W
      \/ \E r \in Seq(Token) : s = CommentFrame \o r /\ <<r, m>> \in W
  BY <1>1, Zenon DEF Peels
<1>3. \A r, k : <<r, k>> \in W => Frames(its, r, k)
  BY <1>1, Zenon DEF Frames
<1> QED BY <1>2, <1>3, Zenon

LEMMA NoFrames == Frames(<<>>, <<>>, 0)
<1> DEFINE W == {<<<<>>, 0>>}
<1>1. W \in SUBSET (Seq(Token) \X Nat)
  <2>1. <<<<>>, 0>> \in Seq(Token) \X Nat
    <3>1. <<>> \in Seq(Token) /\ 0 \in Nat
      OBVIOUS
    <3> QED BY <3>1, Zenon
  <2> QED BY <2>1, Zenon
<1>2. Peels(<<>>, W)
  BY DEF Peels
<1> QED BY <1>1, <1>2, Zenon DEF Frames

(* One more frame at the end.                                              *)
Adds(its, more, f) ==
  \/ f = CommentFrame /\ more = its
  \/ f = Frame(more[Len(its) + 1]) /\ Len(more) = Len(its) + 1
     /\ \A k \in 1 .. Len(its) : more[k] = its[k]

LEMMA FrameTyped ==
  ASSUME binding \in {"JSONRPC", "HTTP+JSON"}
  PROVE  /\ CommentFrame \in Seq(Token) /\ Len(CommentFrame) = 3
         /\ \A it \in SseItem : Frame(it) \in Seq(Token) /\ Len(Frame(it)) = 7
BY TokenIs DEF CommentFrame, Frame

LEMMA FramesMore ==
  ASSUME NEW its \in Seq(SseItem), NEW more \in Seq(SseItem), NEW f \in Seq(Token),
         binding \in {"JSONRPC", "HTTP+JSON"}, Adds(its, more, f),
         NEW s \in Seq(Token), NEW m \in Nat, Frames(its, s, m)
  PROVE  Frames(more, s \o f, m)
<1>1. PICK W \in SUBSET (Seq(Token) \X Nat) : Peels(its, W) /\ <<s, m>> \in W
  BY Zenon DEF Frames
<1> DEFINE V == {v \in Seq(Token) \X Nat :
                   \/ v[1] = <<>> /\ v[2] = Len(more)
                   \/ \E r \in Seq(Token) : v[1] = r \o f /\ <<r, v[2]>> \in W}
<1>2. \A t \in Seq(Token), k \in Nat :
        <<t, k>> \in V <=> \/ t = <<>> /\ k = Len(more)
                           \/ \E r \in Seq(Token) : t = r \o f /\ <<r, k>> \in W
  OBVIOUS
<1>3. V \in SUBSET (Seq(Token) \X Nat)
  OBVIOUS
<1> HIDE DEF V
<1>4. \A r \in Seq(Token), k \in Nat : <<r, k>> \in W => r \o f \in Seq(Token) /\ <<r \o f, k>> \in V
  <2> SUFFICES ASSUME NEW r \in Seq(Token), NEW k \in Nat, <<r, k>> \in W
               PROVE  r \o f \in Seq(Token) /\ <<r \o f, k>> \in V
    OBVIOUS
  <2>1. r \o f \in Seq(Token)
    OBVIOUS
  <2> QED BY <1>2, <2>1, Zenon
<1>5. f \o <<>> = f /\ <<>> \o f = f /\ <<>> \in Seq(Token)
  OBVIOUS
<1>6. \A e \in Seq(Token), r \in Seq(Token) : (e \o r) \o f = e \o (r \o f)
  BY TokensConcat, Zenon
<1>7. Peels(more, V)
  <2> SUFFICES ASSUME NEW t \in Seq(Token), NEW k \in Nat, <<t, k>> \in V
               PROVE  \/ t = <<>> /\ k = Len(more)
                      \/ k < Len(more) /\ \E r \in Seq(Token) : t = Frame(more[k + 1]) \o r /\ <<r, k + 1>> \in V
                      \/ \E r \in Seq(Token) : t = CommentFrame \o r /\ <<r, k>> \in V
    BY Zenon DEF Peels
  <2>1. SUFFICES ASSUME NEW u \in Seq(Token), t = u \o f, <<u, k>> \in W
                 PROVE  \/ k < Len(more) /\ \E r \in Seq(Token) : t = Frame(more[k + 1]) \o r /\ <<r, k + 1>> \in V
                        \/ \E r \in Seq(Token) : t = CommentFrame \o r /\ <<r, k>> \in V
    BY <1>2, Zenon
  <2>2. \/ u = <<>> /\ k = Len(its)
        \/ k < Len(its) /\ \E r \in Seq(Token) : u = Frame(its[k + 1]) \o r /\ <<r, k + 1>> \in W
        \/ \E r \in Seq(Token) : u = CommentFrame \o r /\ <<r, k>> \in W
    BY <1>1, <2>1, Zenon DEF Peels
  <2>3. CASE u = <<>> /\ k = Len(its)
    <3>1. t = f \o <<>>
      BY <1>5, <2>1, <2>3, Zenon
    <3>2. CASE f = CommentFrame /\ more = its
      <4>1. <<<<>>, k>> \in V
        BY <1>2, <1>5, <2>3, <3>2, Zenon
      <4> QED BY <1>5, <3>1, <3>2, <4>1, Zenon
    <3>3. CASE f = Frame(more[Len(its) + 1]) /\ Len(more) = Len(its) + 1
      <4>1. k + 1 \in Nat /\ k < Len(more) /\ k + 1 = Len(more)
        BY <2>3, <3>3
      <4>2. <<<<>>, k + 1>> \in V
        BY <1>2, <1>5, <4>1, Zenon
      <4> QED BY <1>5, <2>3, <3>1, <3>3, <4>1, <4>2, Zenon
    <3> QED BY <3>2, <3>3, Zenon DEF Adds
  <2>4. CASE k < Len(its) /\ \E r \in Seq(Token) : u = Frame(its[k + 1]) \o r /\ <<r, k + 1>> \in W
    <3>1. PICK r \in Seq(Token) : u = Frame(its[k + 1]) \o r /\ <<r, k + 1>> \in W
      BY <2>4, Zenon
    <3>2. k + 1 \in Nat /\ k + 1 \in 1 .. Len(its) /\ its[k + 1] \in SseItem
      BY <2>4
    <3>3. Frame(its[k + 1]) \in Seq(Token)
      BY <3>2, FrameTyped, Zenon
    <3>4. t = Frame(its[k + 1]) \o (r \o f)
      BY <1>6, <2>1, <3>1, <3>3, Zenon
    <3>5. more[k + 1] = its[k + 1]
      BY <3>2, Zenon DEF Adds
    <3>6. k < Len(more)
      BY <2>4 DEF Adds
    <3>7. r \o f \in Seq(Token) /\ <<r \o f, k + 1>> \in V
      BY <1>4, <3>1, <3>2, Zenon
    <3> QED BY <3>4, <3>5, <3>6, <3>7, Zenon
  <2>5. CASE \E r \in Seq(Token) : u = CommentFrame \o r /\ <<r, k>> \in W
    <3>1. PICK r \in Seq(Token) : u = CommentFrame \o r /\ <<r, k>> \in W
      BY <2>5, Zenon
    <3>2. t = CommentFrame \o (r \o f)
      BY <1>6, <2>1, <3>1, FrameTyped, Zenon
    <3>3. r \o f \in Seq(Token) /\ <<r \o f, k>> \in V
      BY <1>4, <3>1, Zenon
    <3> QED BY <3>2, <3>3, Zenon
  <2> QED BY <2>2, <2>3, <2>4, <2>5, Zenon
<1>8. <<s \o f, m>> \in V
  BY <1>1, <1>4, Zenon
<1> QED BY <1>3, <1>7, <1>8, Zenon DEF Frames

-----------------------------------------------------------------------------
(* Whose payload is in some bytes.                                         *)

(* No second half is among the last two tokens.                            *)
EndsFramed(p) == \A k \in DOMAIN p : p[k].tag = "half" /\ p[k].i = 2 => k + 2 <= Len(p)

LEMMA ItemsOfConcat ==
  ASSUME NEW p \in Seq(Token), NEW q \in Seq(Token)
  PROVE  /\ BegunItems(p \o q) = BegunItems(p) \union BegunItems(q)
         /\ WholeItems(p \o q) = WholeItems(p) \union WholeItems(q)
         /\ EndsFramed(p) => FramedItems(p \o q) = WholeItems(p) \union FramedItems(q)
         /\ EndsFramed(p) /\ EndsFramed(q) => EndsFramed(p \o q)
<1> DEFINE h == p \o q
<1>1. /\ Len(h) = Len(p) + Len(q) /\ DOMAIN h = 1 .. Len(h)
      /\ DOMAIN p = 1 .. Len(p) /\ DOMAIN q = 1 .. Len(q)
      /\ Len(p) \in Nat /\ Len(q) \in Nat
  OBVIOUS
<1>2. \A k \in DOMAIN p : k \in DOMAIN h /\ h[k] = p[k]
  OBVIOUS
<1>3. \A k \in DOMAIN q : Len(p) + k \in DOMAIN h /\ h[Len(p) + k] = q[k]
  OBVIOUS
<1>4. \A k \in DOMAIN h : \/ k \in DOMAIN p /\ h[k] = p[k]
                          \/ k - Len(p) \in DOMAIN q /\ h[k] = q[k - Len(p)] /\ k = Len(p) + (k - Len(p))
  OBVIOUS
<1> HIDE DEF h
<1>5. BegunItems(h) = BegunItems(p) \union BegunItems(q)
  <2>1. ASSUME NEW x \in BegunItems(h) PROVE x \in BegunItems(p) \/ x \in BegunItems(q)
    <3>1. PICK k \in DOMAIN h : h[k].tag = "half" /\ h[k].i = 1 /\ x = h[k].item.n
      BY <2>1, Zenon DEF BegunItems
    <3>2. CASE k \in DOMAIN p /\ h[k] = p[k]
      BY <3>1, <3>2, Zenon DEF BegunItems
    <3>3. CASE k - Len(p) \in DOMAIN q /\ h[k] = q[k - Len(p)]
      BY <3>1, <3>3, Zenon DEF BegunItems
    <3> QED BY <1>4, <3>2, <3>3, Zenon
  <2>2. \A x : x \in BegunItems(p) => x \in BegunItems(h)
    BY <1>2, Zenon DEF BegunItems
  <2>3. \A x : x \in BegunItems(q) => x \in BegunItems(h)
    BY <1>3, Zenon DEF BegunItems
  <2> QED BY <2>1, <2>2, <2>3, Zenon
<1>6. WholeItems(h) = WholeItems(p) \union WholeItems(q)
  <2>1. ASSUME NEW x \in WholeItems(h) PROVE x \in WholeItems(p) \/ x \in WholeItems(q)
    <3>1. PICK k \in DOMAIN h : h[k].tag = "half" /\ h[k].i = 2 /\ x = h[k].item.n
      BY <2>1, Zenon DEF WholeItems
    <3>2. CASE k \in DOMAIN p /\ h[k] = p[k]
      BY <3>1, <3>2, Zenon DEF WholeItems
    <3>3. CASE k - Len(p) \in DOMAIN q /\ h[k] = q[k - Len(p)]
      BY <3>1, <3>3, Zenon DEF WholeItems
    <3> QED BY <1>4, <3>2, <3>3, Zenon
  <2>2. \A x : x \in WholeItems(p) => x \in WholeItems(h)
    BY <1>2, Zenon DEF WholeItems
  <2>3. \A x : x \in WholeItems(q) => x \in WholeItems(h)
    BY <1>3, Zenon DEF WholeItems
  <2> QED BY <2>1, <2>2, <2>3, Zenon
<1>7. ASSUME EndsFramed(p) PROVE FramedItems(h) = WholeItems(p) \union FramedItems(q)
  <2>1. ASSUME NEW x \in FramedItems(h) PROVE x \in WholeItems(p) \/ x \in FramedItems(q)
    <3>1. PICK k \in 1 .. Len(h) - 2 : h[k].tag = "half" /\ h[k].i = 2 /\ x = h[k].item.n
      BY <2>1, Zenon DEF FramedItems
    <3>2. k \in DOMAIN h
      BY <1>1
    <3>3. CASE k \in DOMAIN p /\ h[k] = p[k]
      BY <3>1, <3>3, Zenon DEF WholeItems
    <3>4. CASE k - Len(p) \in DOMAIN q /\ h[k] = q[k - Len(p)]
      <4>1. k - Len(p) \in 1 .. Len(q) - 2
        BY <1>1, <3>4
      <4> QED BY <3>1, <3>4, <4>1, Zenon DEF FramedItems
    <3> QED BY <1>4, <3>2, <3>3, <3>4, Zenon
  <2>2. ASSUME NEW x \in WholeItems(p) PROVE x \in FramedItems(h)
    <3>1. PICK k \in DOMAIN p : p[k].tag = "half" /\ p[k].i = 2 /\ x = p[k].item.n
      BY <2>2, Zenon DEF WholeItems
    <3>2. k + 2 <= Len(p)
      BY <1>7, <3>1, Zenon DEF EndsFramed
    <3>3. k \in 1 .. Len(h) - 2
      BY <1>1, <3>2
    <3> QED BY <1>2, <3>1, <3>3, Zenon DEF FramedItems
  <2>3. ASSUME NEW x \in FramedItems(q) PROVE x \in FramedItems(h)
    <3>1. PICK k \in 1 .. Len(q) - 2 : q[k].tag = "half" /\ q[k].i = 2 /\ x = q[k].item.n
      BY <2>3, Zenon DEF FramedItems
    <3>2. k \in DOMAIN q /\ Len(p) + k \in 1 .. Len(h) - 2
      BY <1>1
    <3> QED BY <1>3, <3>1, <3>2, Zenon DEF FramedItems
  <2> QED BY <2>1, <2>2, <2>3, Zenon
<1>8. ASSUME EndsFramed(p), EndsFramed(q) PROVE EndsFramed(h)
  <2> SUFFICES ASSUME NEW k \in DOMAIN h, h[k].tag = "half", h[k].i = 2 PROVE k + 2 <= Len(h)
    BY Zenon DEF EndsFramed
  <2>1. CASE k \in DOMAIN p /\ h[k] = p[k]
    <3>1. k + 2 <= Len(p)
      BY <1>8, <2>1, Zenon DEF EndsFramed
    <3> QED BY <1>1, <3>1, <2>1
  <2>2. CASE k - Len(p) \in DOMAIN q /\ h[k] = q[k - Len(p)]
    <3>1. (k - Len(p)) + 2 <= Len(q)
      BY <1>8, <2>2, Zenon DEF EndsFramed
    <3> QED BY <1>1, <3>1, <2>2
  <2> QED BY <1>4, <2>1, <2>2, Zenon
<1> QED BY <1>5, <1>6, <1>7, <1>8 DEF h

(* These bytes are whole frames, of the items m + 1 .. k.                  *)
Parsed(p, m, k) == BegunItems(p) = m + 1 .. k /\ WholeItems(p) = m + 1 .. k /\ EndsFramed(p)

LEMMA ParsedNothing ==
  ASSUME NEW m \in Nat PROVE Parsed(<<>>, m, m)
<1>1. DOMAIN <<>> = {} /\ m + 1 .. m = {}
  OBVIOUS
<1> QED BY <1>1 DEF Parsed, BegunItems, WholeItems, EndsFramed

LEMMA ItemHolds ==
  ASSUME NEW it \in SseItem, binding \in {"JSONRPC", "HTTP+JSON"}
  PROVE  /\ BegunItems(Frame(it)) = {it.n} /\ WholeItems(Frame(it)) = {it.n}
         /\ EndsFramed(Frame(it))
<1> DEFINE f == Frame(it)
<1>1. /\ DOMAIN f = 1 .. 7 /\ Len(f) = 7
      /\ f[1] = Id /\ f[2] = LF /\ f[3] = Data /\ f[4] = Half(1, it, binding)
      /\ f[5] = Half(2, it, binding) /\ f[6] = LF /\ f[7] = LF
  BY DEF Frame
<1> HIDE DEF f
<1>2. \A k \in 1 .. 7 : /\ f[k].tag = "half" <=> k \in {4, 5}
                        /\ k \in {4, 5} => f[k].i = k - 3 /\ f[k].item = it
  BY <1>1, TokensDiffer
<1>3. {j \in DOMAIN f : f[j].tag = "half" /\ f[j].i = 1} = {4}
  BY <1>1, <1>2
<1>4. {j \in DOMAIN f : f[j].tag = "half" /\ f[j].i = 2} = {5}
  BY <1>1, <1>2
<1>5. BegunItems(f) = {it.n} /\ WholeItems(f) = {it.n}
  BY <1>2, <1>3, <1>4 DEF BegunItems, WholeItems
<1>6. EndsFramed(f)
  BY <1>1, <1>2 DEF EndsFramed
<1> QED BY <1>5, <1>6 DEF f

LEMMA CommentHolds ==
  BegunItems(CommentFrame) = {} /\ WholeItems(CommentFrame) = {} /\ EndsFramed(CommentFrame)
<1> DEFINE c == CommentFrame
<1>1. DOMAIN c = 1 .. 3 /\ c[1] = Comment /\ c[2] = LF /\ c[3] = LF
  BY DEF CommentFrame
<1> HIDE DEF c
<1>2. \A k \in 1 .. 3 : c[k].tag # "half"
  BY <1>1, TokensDiffer
<1>3. BegunItems(c) = {} /\ WholeItems(c) = {} /\ EndsFramed(c)
  BY <1>1, <1>2 DEF BegunItems, WholeItems, EndsFramed
<1> QED BY <1>3 DEF c

LEMMA ParsedMore ==
  ASSUME NEW p \in Seq(Token), NEW q \in Seq(Token), NEW l \in Nat, NEW m \in Nat, NEW k \in Nat,
         l <= m, m <= k, Parsed(p, l, m), Parsed(q, m, k)
  PROVE  Parsed(p \o q, l, k)
<1>1. (l + 1 .. m) \union (m + 1 .. k) = l + 1 .. k
  OBVIOUS
<1>2. /\ BegunItems(p) = l + 1 .. m /\ WholeItems(p) = l + 1 .. m /\ EndsFramed(p)
      /\ BegunItems(q) = m + 1 .. k /\ WholeItems(q) = m + 1 .. k /\ EndsFramed(q)
  BY Zenon DEF Parsed
<1>3. /\ BegunItems(p \o q) = BegunItems(p) \union BegunItems(q)
      /\ WholeItems(p \o q) = WholeItems(p) \union WholeItems(q)
      /\ EndsFramed(p \o q)
  BY <1>2, ItemsOfConcat, Zenon
<1>4. BegunItems(p \o q) = l + 1 .. k /\ WholeItems(p \o q) = l + 1 .. k
  BY <1>1, <1>2, <1>3, Zenon
<1> QED BY <1>3, <1>4, Zenon DEF Parsed

-----------------------------------------------------------------------------
(* One round of the loop.                                                  *)

LEMMA FrontOf ==
  ASSUME NEW S, NEW f \in Seq(S), NEW c \in Seq(S)
  PROVE  /\ f \o c \in Seq(S) /\ Len(f \o c) = Len(f) + Len(c)
         /\ \A k \in 1 .. Len(f) : (f \o c)[k] = f[k]
         /\ SubSeq(f \o c, Len(f) + 1, Len(f \o c)) = c
<1>1. /\ f \o c \in Seq(S) /\ Len(f \o c) = Len(f) + Len(c)
      /\ \A k \in 1 .. Len(f) : (f \o c)[k] = f[k]
      /\ \A k \in 1 .. Len(c) : (f \o c)[Len(f) + k] = c[k]
  OBVIOUS
<1> DEFINE b == f \o c
<1> HIDE DEF b
<1>2. b \in Seq(S) /\ Len(b) = Len(f) + Len(c) /\ \A k \in 1 .. Len(c) : b[Len(f) + k] = c[k]
  BY <1>1 DEF b
<1>3. SubSeq(b, Len(f) + 1, Len(b)) = c
  BY <1>2
<1> QED BY <1>1, <1>3 DEF b

LEMMA ItemFramed ==
  ASSUME NEW it \in SseItem, binding \in {"JSONRPC", "HTTP+JSON"}, NEW c \in Seq(Token),
         NEW b, b = Frame(it) \o c
  PROVE  /\ FindEventBoundary(b) = 6
         /\ ParseEvent(SubSeq(b, 1, 5)) = <<it>>
         /\ SubSeq(b, 8, Len(b)) = c
<1> DEFINE f == Frame(it)
<1>1. /\ f \in Seq(Token) /\ Len(f) = 7
      /\ f[1] = Id /\ f[2] = LF /\ f[3] = Data /\ f[4] = Half(1, it, binding)
      /\ f[5] = Half(2, it, binding) /\ f[6] = LF /\ f[7] = LF
  BY FrameTyped DEF Frame
<1>2. /\ b \in Seq(Token) /\ Len(b) = 7 + Len(c) /\ \A k \in 1 .. 7 : b[k] = f[k]
      /\ SubSeq(b, 7 + 1, Len(b)) = c
  <2>1. b = f \o c
    OBVIOUS
  <2> HIDE DEF f
  <2>2. /\ f \o c \in Seq(Token) /\ Len(f \o c) = Len(f) + Len(c)
        /\ \A k \in 1 .. Len(f) : (f \o c)[k] = f[k]
        /\ SubSeq(f \o c, Len(f) + 1, Len(f \o c)) = c
    BY <1>1, FrontOf
  <2> QED BY <1>1, <2>1, <2>2, Zenon
<1> HIDE DEF f
<1>3. Boundaries(b) # {} /\ 6 \in Boundaries(b) /\ \A k \in 1 .. 5 : k \notin Boundaries(b)
  <2>1. b[6] = LF /\ b[7] = LF /\ 6 \in 1 .. Len(b) - 1
    BY <1>1, <1>2
  <2>2. b[1] # LF /\ b[3] # LF /\ b[4] # LF /\ b[5] # LF
    BY <1>1, <1>2, TokensDiffer
  <2>3. \A k \in 1 .. 5 : k = 1 \/ k = 2 \/ k = 3 \/ k = 4 \/ k = 5
    OBVIOUS
  <2>4. \A k \in 1 .. 5 : k \notin Boundaries(b)
    <3>1. 2 + 1 = 3
      OBVIOUS
    <3> QED BY <2>2, <2>3, <3>1, Zenon DEF Boundaries
  <2>5. 6 \in Boundaries(b)
    BY <2>1 DEF Boundaries
  <2> QED BY <2>4, <2>5
<1>4. FindEventBoundary(b) = 6
  <2>1. /\ FindEventBoundary(b) \in Boundaries(b) /\ FindEventBoundary(b) <= 6
    BY <1>2, <1>3, FirstBoundary
  <2>2. FindEventBoundary(b) \in 1 .. Len(b) - 1
    BY <2>1 DEF Boundaries
  <2> QED BY <1>2, <1>3, <2>1, <2>2
<1>5. ParseEvent(SubSeq(b, 1, 5)) = <<it>>
  <2> DEFINE e == SubSeq(b, 1, 5)
  <2>1. DOMAIN e = 1 .. 5 /\ \A k \in 1 .. 5 : e[k] = f[k]
    BY <1>2
  <2> HIDE DEF e
  <2>2. \A k \in 1 .. 5 : e[k].tag = "half" <=> k \in {4, 5}
    BY <1>1, <2>1, TokensDiffer
  <2>3. Halves(e) = {e[4], e[5]}
    BY <2>1, <2>2 DEF Halves, Range
  <2>4. HoldsBoth(e, it)
    <3>1. 4 \in 1 .. 5 /\ 5 \in 1 .. 5
      OBVIOUS
    <3> QED BY <1>1, <2>1, <2>3, <3>1, Zenon DEF HoldsBoth
  <2>5. ParseEvent(e) = <<it>>
    BY <2>4, WholePayload
  <2> QED BY <2>5, Zenon DEF e
<1>6. SubSeq(b, 8, Len(b)) = c
  BY <1>2
<1> QED BY <1>4, <1>5, <1>6

LEMMA CommentFramed ==
  ASSUME binding \in {"JSONRPC", "HTTP+JSON"}, NEW c \in Seq(Token),
         NEW b, b = CommentFrame \o c
  PROVE  /\ FindEventBoundary(b) = 2
         /\ ParseEvent(SubSeq(b, 1, 1)) = <<>>
         /\ SubSeq(b, 4, Len(b)) = c
<1> DEFINE f == CommentFrame
<1>1. f \in Seq(Token) /\ Len(f) = 3 /\ f[1] = Comment /\ f[2] = LF /\ f[3] = LF
  BY FrameTyped DEF CommentFrame
<1>2. /\ b \in Seq(Token) /\ Len(b) = 3 + Len(c) /\ \A k \in 1 .. 3 : b[k] = f[k]
      /\ SubSeq(b, 3 + 1, Len(b)) = c
  <2>1. b = f \o c
    OBVIOUS
  <2> HIDE DEF f
  <2>2. /\ f \o c \in Seq(Token) /\ Len(f \o c) = Len(f) + Len(c)
        /\ \A k \in 1 .. Len(f) : (f \o c)[k] = f[k]
        /\ SubSeq(f \o c, Len(f) + 1, Len(f \o c)) = c
    BY <1>1, FrontOf
  <2> QED BY <1>1, <2>1, <2>2, Zenon
<1> HIDE DEF f
<1>3. Boundaries(b) # {} /\ 2 \in Boundaries(b) /\ 1 \notin Boundaries(b)
  <2>1. b[2] = LF /\ b[3] = LF /\ 2 \in 1 .. Len(b) - 1 /\ b[1] # LF
    <3>1. /\ 1 \in 1 .. 3 /\ 2 \in 1 .. 3 /\ 3 \in 1 .. 3 /\ 2 \in 1 .. (3 + Len(c)) - 1
      OBVIOUS
    <3> QED BY <1>1, <1>2, <3>1, TokensDiffer, Zenon
  <2>2. 2 \in Boundaries(b)
    <3>1. 2 + 1 = 3
      OBVIOUS
    <3> QED BY <2>1, <3>1, Zenon DEF Boundaries
  <2>3. 1 \notin Boundaries(b)
    BY <2>1, Zenon DEF Boundaries
  <2> QED BY <2>2, <2>3
<1>4. FindEventBoundary(b) = 2
  <2>1. /\ FindEventBoundary(b) \in Boundaries(b) /\ FindEventBoundary(b) <= 2
    BY <1>2, <1>3, FirstBoundary
  <2>2. FindEventBoundary(b) \in 1 .. Len(b) - 1
    BY <2>1 DEF Boundaries
  <2> QED BY <1>2, <1>3, <2>1, <2>2
<1>5. ParseEvent(SubSeq(b, 1, 1)) = <<>>
  <2>1. DOMAIN SubSeq(b, 1, 1) = 1 .. 1 /\ SubSeq(b, 1, 1)[1] = Comment
    BY <1>1, <1>2
  <2> DEFINE e == SubSeq(b, 1, 1)
  <2> HIDE DEF e
  <2>2. \A k \in 1 .. 1 : k = 1
    OBVIOUS
  <2>3. \A k \in DOMAIN e : e[k].tag # "half"
    BY <2>1, <2>2, TokensDiffer, Zenon DEF e
  <2> QED BY <2>3, NoPayload, Zenon DEF e
<1>6. SubSeq(b, 4, Len(b)) = c
  BY <1>2
<1> QED BY <1>4, <1>5, <1>6

-----------------------------------------------------------------------------
(* How a buffer begins: with a whole frame, or with a part of one.         *)

BeginsItem(it, b) == Len(b) \in 1 .. 6 /\ \A k \in 1 .. Len(b) : b[k] = Frame(it)[k]

BeginsComment(b) == Len(b) \in 1 .. 2 /\ \A k \in 1 .. Len(b) : b[k] = CommentFrame[k]

Numbers(its) == its \in Seq(SseItem) /\ \A k \in 1 .. Len(its) : its[k].n = k

LEMMA Sizes ==
  ASSUME NEW b \in Seq(Token)
  PROVE  /\ Len(b) >= 7 \/ Len(b) \in 1 .. 6 \/ Len(b) = 0
         /\ Len(b) >= 3 \/ Len(b) \in 1 .. 2 \/ Len(b) = 0
         /\ Len(b) \in 1 .. 6 => \A k \in 1 .. Len(b) : k <= 7
         /\ Len(b) \in 1 .. 2 => \A k \in 1 .. Len(b) : k <= 3
<1> DEFINE n == Len(b)
<1>1. n \in Nat
  OBVIOUS
<1> HIDE DEF n
<1>2. /\ n >= 7 \/ n \in 1 .. 6 \/ n = 0
      /\ n >= 3 \/ n \in 1 .. 2 \/ n = 0
      /\ n \in 1 .. 6 => \A k \in 1 .. n : k <= 7
      /\ n \in 1 .. 2 => \A k \in 1 .. n : k <= 3
  BY <1>1
<1> QED BY <1>2, Zenon DEF n

LEMMA BufferBegins ==
  ASSUME binding \in {"JSONRPC", "HTTP+JSON"}, NEW its \in Seq(SseItem),
         NEW b \in Seq(Token), NEW z \in Seq(Token), NEW m \in Nat, Frames(its, b \o z, m)
  PROVE  \/ b = <<>>
         \/ m < Len(its) /\ \E c \in Seq(Token) :
              b = Frame(its[m + 1]) \o c /\ Len(c) = Len(b) - 7 /\ Frames(its, c \o z, m + 1)
         \/ m < Len(its) /\ BeginsItem(its[m + 1], b)
         \/ \E c \in Seq(Token) :
              b = CommentFrame \o c /\ Len(c) = Len(b) - 3 /\ Frames(its, c \o z, m)
         \/ BeginsComment(b)
<1>6. ASSUME NEW f \in Seq(Token), NEW r \in Seq(Token), b \o z = f \o r
      PROVE  /\ \A k \in 1 .. Len(b) : k <= Len(f) => b[k] = f[k]
             /\ Len(b) >= Len(f) => GoesOn(b, z, f, r)
  BY <1>6, CutTwice, Zenon
<1> DEFINE s == b \o z
<1>1. s \in Seq(Token) /\ Frames(its, s, m)
  OBVIOUS
<1>2. \/ s = <<>>
      \/ m < Len(its) /\ \E r \in Seq(Token) : s = Frame(its[m + 1]) \o r /\ Frames(its, r, m + 1)
      \/ \E r \in Seq(Token) : s = CommentFrame \o r /\ Frames(its, r, m)
  <2> HIDE DEF s
  <2> QED BY <1>1, FramesPeel, Zenon
<1>3. CASE s = <<>>
  <2>1. b = <<>>
    BY <1>3
  <2> QED BY <2>1
<1>4. CASE m < Len(its) /\ \E r \in Seq(Token) : s = Frame(its[m + 1]) \o r /\ Frames(its, r, m + 1)
  <2>1. PICK r \in Seq(Token) : s = Frame(its[m + 1]) \o r /\ Frames(its, r, m + 1)
    BY <1>4, Zenon
  <2>2. its[m + 1] \in SseItem
    BY <1>4
  <2> DEFINE f == Frame(its[m + 1])
  <2>3. f \in Seq(Token) /\ Len(f) = 7 /\ b \o z = f \o r
    BY <2>1, <2>2, FrameTyped, Zenon
  <2> HIDE DEF f
  <2>4. CASE Len(b) >= 7
    <3>1. PICK c \in Seq(Token) : Len(c) = Len(b) - 7 /\ b = f \o c /\ c \o z = r
      <4>1. Len(b) >= Len(f)
        BY <2>3, <2>4, Zenon
      <4>2. GoesOn(b, z, f, r)
        BY <2>3, <4>1, <1>6, Zenon
      <4>3. PICK c \in Seq(Token) : Len(c) = Len(b) - Len(f) /\ b = f \o c /\ c \o z = r
        BY <4>2, Zenon DEF GoesOn
      <4> QED BY <2>3, <4>3, Zenon
    <3> QED BY <1>4, <2>1, <3>1, Zenon DEF f
  <2>5. CASE Len(b) \in 1 .. 6
    <3>1. \A k \in 1 .. Len(b) : b[k] = f[k]
      <4>1. \A k \in 1 .. Len(b) : k <= Len(f) => b[k] = f[k]
        BY <2>3, <1>6, Zenon
      <4> QED BY <2>3, <2>5, <4>1, Sizes, Zenon
    <3> QED BY <1>4, <2>5, <3>1, Zenon DEF f, BeginsItem
  <2>6. CASE Len(b) = 0
    BY <2>6
  <2>7. Len(b) >= 7 \/ Len(b) \in 1 .. 6 \/ Len(b) = 0
    BY Sizes, Zenon
  <2> QED BY <2>4, <2>5, <2>6, <2>7, Zenon
<1>5. CASE \E r \in Seq(Token) : s = CommentFrame \o r /\ Frames(its, r, m)
  <2>1. PICK r \in Seq(Token) : s = CommentFrame \o r /\ Frames(its, r, m)
    BY <1>5, Zenon
  <2> DEFINE f == CommentFrame
  <2>3. f \in Seq(Token) /\ Len(f) = 3 /\ b \o z = f \o r
    BY <2>1, FrameTyped, Zenon
  <2> HIDE DEF f
  <2>4. CASE Len(b) >= 3
    <3>1. PICK c \in Seq(Token) : Len(c) = Len(b) - 3 /\ b = f \o c /\ c \o z = r
      <4>1. Len(b) >= Len(f)
        BY <2>3, <2>4, Zenon
      <4>2. GoesOn(b, z, f, r)
        BY <2>3, <4>1, <1>6, Zenon
      <4>3. PICK c \in Seq(Token) : Len(c) = Len(b) - Len(f) /\ b = f \o c /\ c \o z = r
        BY <4>2, Zenon DEF GoesOn
      <4> QED BY <2>3, <4>3, Zenon
    <3> QED BY <2>1, <3>1, Zenon DEF f
  <2>5. CASE Len(b) \in 1 .. 2
    <3>1. \A k \in 1 .. Len(b) : b[k] = f[k]
      <4>1. \A k \in 1 .. Len(b) : k <= Len(f) => b[k] = f[k]
        BY <2>3, <1>6, Zenon
      <4> QED BY <2>3, <2>5, <4>1, Sizes, Zenon
    <3> QED BY <2>5, <3>1, Zenon DEF f, BeginsComment
  <2>6. CASE Len(b) = 0
    BY <2>6
  <2>7. Len(b) >= 3 \/ Len(b) \in 1 .. 2 \/ Len(b) = 0
    BY Sizes, Zenon
  <2> QED BY <2>4, <2>5, <2>6, <2>7, Zenon
<1> QED BY <1>2, <1>3, <1>4, <1>5, Zenon

LEMMA PartOfItem ==
  ASSUME NEW it \in SseItem, binding \in {"JSONRPC", "HTTP+JSON"},
         NEW b \in Seq(Token), BeginsItem(it, b)
  PROVE  /\ Boundaries(b) = {} /\ FramedItems(b) = {}
         /\ WholeItems(b) = IF Len(b) >= 5 THEN {it.n} ELSE {}
         /\ BegunItems(b) = IF Len(b) >= 4 THEN {it.n} ELSE {}
         /\ Len(b) \in {1, 2, 4} => ParseStreamTail(b) = <<Garbled>>
         /\ Len(b) = 3 => ParseStreamTail(b) = <<>>
         /\ Len(b) \in {5, 6} => ParseStreamTail(b) = <<it>>
<1> DEFINE f == Frame(it)
<1>1. /\ f[1] = Id /\ f[2] = LF /\ f[3] = Data /\ f[4] = Half(1, it, binding)
      /\ f[5] = Half(2, it, binding) /\ f[6] = LF
  BY DEF Frame
<1> HIDE DEF f
<1>0. /\ LF # Id /\ LF # Data /\ Id # Data
      /\ LF.tag # "half" /\ Id.tag # "half" /\ Data.tag # "half"
      /\ \A i \in {1, 2} :
           /\ Half(i, it, binding) \notin {LF, Id, Data}
           /\ Half(i, it, binding).tag = "half" /\ Half(i, it, binding).i = i
           /\ Half(i, it, binding).item = it
  BY TokensDiffer
<1>2. /\ Len(b) \in 1 .. 6 /\ DOMAIN b = 1 .. Len(b)
      /\ \A k \in 1 .. Len(b) : b[k] = f[k]
  BY DEF BeginsItem, f
<1>3. \A k \in 1 .. 6 : k = 1 \/ k = 2 \/ k = 3 \/ k = 4 \/ k = 5 \/ k = 6
  OBVIOUS
<1>4. \A k \in 1 .. Len(b) : k \in 1 .. 6
  BY <1>2
<1>5. /\ b[1] = Id /\ 1 \in DOMAIN b
      /\ Len(b) >= 3 => b[3] = Data /\ 3 \in DOMAIN b
      /\ Len(b) >= 4 => b[4] = Half(1, it, binding) /\ 4 \in DOMAIN b
      /\ Len(b) >= 5 => b[5] = Half(2, it, binding) /\ 5 \in DOMAIN b
  BY <1>1, <1>2
<1>6. \A k \in 1 .. Len(b) : /\ b[k] = LF => k = 2 \/ k = 6
                             /\ b[k] = Data => k = 3
                             /\ b[k].tag = "half" => k = 4 \/ k = 5
  BY <1>1, <1>2, <1>3, <1>4, <1>0, Zenon
<1>7. Boundaries(b) = {}
  <2> SUFFICES ASSUME NEW i \in 1 .. Len(b) - 1, b[i] = LF, b[i + 1] = LF PROVE FALSE
    BY DEF Boundaries
  <2>1. i \in 1 .. Len(b) /\ i + 1 \in 1 .. Len(b)
    BY <1>2
  <2>2. (i = 2 \/ i = 6) /\ (i + 1 = 2 \/ i + 1 = 6)
    BY <1>6, <2>1, Zenon
  <2> QED BY <2>2
<1>8. /\ {j \in DOMAIN b : b[j].tag = "half" /\ b[j].i = 1} = IF Len(b) >= 4 THEN {4} ELSE {}
      /\ {j \in DOMAIN b : b[j].tag = "half" /\ b[j].i = 2} = IF Len(b) >= 5 THEN {5} ELSE {}
  <2>1. \A j \in DOMAIN b : b[j].tag = "half" => (j = 4 /\ b[j].i = 1) \/ (j = 5 /\ b[j].i = 2)
    <3>1. \A j \in DOMAIN b : (j = 4 => Len(b) >= 4) /\ (j = 5 => Len(b) >= 5)
      BY <1>2
    <3>2. Len(b) >= 5 => Len(b) >= 4
      BY <1>2
    <3> QED BY <1>2, <1>5, <1>6, <3>1, <3>2, <1>0, Zenon
  <2>2. /\ Len(b) >= 4 => b[4].tag = "half" /\ b[4].i = 1
        /\ Len(b) >= 5 => b[5].tag = "half" /\ b[5].i = 2
    BY <1>5, <1>0, Zenon
  <2>3. \A j \in DOMAIN b : (j = 4 => Len(b) >= 4) /\ (j = 5 => Len(b) >= 5)
    BY <1>2
  <2> QED BY <1>5, <2>1, <2>2, <2>3
<1>9. WholeItems(b) = IF Len(b) >= 5 THEN {it.n} ELSE {}
  <2>1. Len(b) >= 5 => b[5].item.n = it.n
    BY <1>5, <1>0, Zenon
  <2> QED BY <1>8, <2>1 DEF WholeItems
<1>10. BegunItems(b) = IF Len(b) >= 4 THEN {it.n} ELSE {}
  <2>1. Len(b) >= 4 => b[4].item.n = it.n
    BY <1>5, <1>0, Zenon
  <2> QED BY <1>8, <2>1 DEF BegunItems
<1>11. FramedItems(b) = {}
  <2> SUFFICES ASSUME NEW j \in 1 .. Len(b) - 2, b[j].tag = "half", b[j].i = 2 PROVE FALSE
    BY DEF FramedItems
  <2>1. j \in DOMAIN b
    BY <1>2
  <2>2. j \in IF Len(b) >= 5 THEN {5} ELSE {}
    BY <1>8, <2>1, Zenon
  <2> QED BY <1>2, <2>2
<1>12. ~ \A i \in DOMAIN b : b[i] = LF
  BY <1>5, <1>0, Zenon
<1>13. Len(b) \in {1, 2} => ParseStreamTail(b) = <<Garbled>>
  <2>1. Len(b) \in {1, 2} => ~ \E i \in DOMAIN b : b[i] = Data
    BY <1>2, <1>6
  <2> QED BY <1>12, <2>1, Zenon DEF ParseStreamTail
<1>14. Len(b) \in {3, 4, 5, 6} => ParseStreamTail(b) = ParseEvent(b)
  <2>1. Len(b) \in {3, 4, 5, 6} => \E i \in DOMAIN b : b[i] = Data
    BY <1>5
  <2> QED BY <1>12, <2>1, Zenon DEF ParseStreamTail
<1>15. ASSUME Len(b) = 3 PROVE ParseStreamTail(b) = <<>>
  <2>1. \A k \in DOMAIN b : b[k].tag # "half"
    BY <1>2, <1>6, <1>15
  <2>2. ParseEvent(b) = <<>>
    BY <2>1, NoPayload, Zenon
  <2> QED BY <1>14, <1>15, <2>2, Zenon
<1>16. ASSUME Len(b) = 4 PROVE ParseStreamTail(b) = <<Garbled>>
  <2>1. Halves(b) = {Half(1, it, binding)}
    <3>1. \A k \in DOMAIN b : b[k].tag = "half" => k = 4
      BY <1>2, <1>6, <1>16
    <3>2. b[4] = Half(1, it, binding) /\ 4 \in DOMAIN b /\ b[4].tag = "half"
      BY <1>5, <1>16, <1>0
    <3> QED BY <3>1, <3>2 DEF Halves, Range
  <2>2. ParseEvent(b) = <<Garbled>>
    BY <2>1, PartPayload
  <2> QED BY <1>14, <1>16, <2>2, Zenon
<1>17. ASSUME Len(b) \in {5, 6} PROVE ParseStreamTail(b) = <<it>>
  <2>1. HoldsBoth(b, it)
    <3>1. \A k \in DOMAIN b : b[k].tag = "half" => k = 4 \/ k = 5
      BY <1>2, <1>6
    <3>2. /\ b[4] = Half(1, it, binding) /\ 4 \in DOMAIN b /\ b[4].tag = "half"
          /\ b[5] = Half(2, it, binding) /\ 5 \in DOMAIN b /\ b[5].tag = "half"
      BY <1>5, <1>17, <1>0
    <3> QED BY <3>1, <3>2 DEF HoldsBoth, Halves, Range
  <2>2. ParseEvent(b) = <<it>>
    BY <2>1, WholePayload
  <2> QED BY <1>14, <1>17, <2>2, Zenon
<1> QED BY <1>7, <1>9, <1>10, <1>11, <1>13, <1>15, <1>16, <1>17, Zenon

LEMMA PartOfComment ==
  ASSUME NEW b \in Seq(Token), BeginsComment(b)
  PROVE  /\ Boundaries(b) = {} /\ FramedItems(b) = {} /\ WholeItems(b) = {} /\ BegunItems(b) = {}
         /\ ParseStreamTail(b) = <<Garbled>>
<1>1. /\ Len(b) \in 1 .. 2 /\ DOMAIN b = 1 .. Len(b) /\ b[1] = Comment /\ 1 \in DOMAIN b
      /\ \A k \in DOMAIN b : k = 1 \/ (k = 2 /\ b[k] = LF)
  <2> DEFINE f == CommentFrame
  <2>1. f[1] = Comment /\ f[2] = LF
    BY DEF CommentFrame
  <2> HIDE DEF f
  <2>2. Len(b) \in 1 .. 2 /\ \A k \in 1 .. Len(b) : b[k] = f[k]
    BY Zenon DEF BeginsComment, f
  <2>3. DOMAIN b = 1 .. Len(b)
    OBVIOUS
  <2>4. 1 \in 1 .. Len(b) /\ \A k \in 1 .. Len(b) : k = 1 \/ k = 2
    BY <2>2
  <2> QED BY <2>1, <2>2, <2>3, <2>4, Zenon
<1>2. \A k \in DOMAIN b : b[k].tag # "half" /\ b[k] # Data
  BY <1>1, TokensDiffer, Zenon
<1>3. Boundaries(b) = {}
  <2> SUFFICES ASSUME NEW i \in 1 .. Len(b) - 1, b[i] = LF PROVE FALSE
    BY DEF Boundaries
  <2>1. i = 1
    BY <1>1
  <2> QED BY <1>1, <2>1, TokensDiffer, Zenon
<1>4. WholeItems(b) = {} /\ BegunItems(b) = {}
  BY <1>2 DEF WholeItems, BegunItems
<1>5. FramedItems(b) = {}
  <2>1. \A j \in 1 .. Len(b) - 2 : j \in DOMAIN b
    BY <1>1
  <2> QED BY <1>2, <2>1 DEF FramedItems
<1>6. ~ \A i \in DOMAIN b : b[i] = LF
  BY <1>1, TokensDiffer, Zenon
<1>7. ~ \E i \in DOMAIN b : b[i] = Data
  BY <1>2, Zenon
<1>8. ParseStreamTail(b) = <<Garbled>>
  BY <1>6, <1>7, Zenon DEF ParseStreamTail
<1> QED BY <1>3, <1>4, <1>5, <1>8

-----------------------------------------------------------------------------
(* The loop: the items of the whole frames, and no whole frame left.       *)

Yields(its, z, m, b, d) ==
  \E k \in m .. Len(its), p \in Seq(Token) :
    /\ d.items = SubSeq(its, m + 1, k) /\ d.rest \in Seq(Token) /\ b = p \o d.rest
    /\ Boundaries(d.rest) = {} /\ Frames(its, d.rest \o z, k) /\ Parsed(p, m, k)

LEMMA NothingWhole ==
  ASSUME NEW its \in Seq(SseItem), NEW m \in 0 .. Len(its), NEW b \in Seq(Token), NEW z \in Seq(Token),
         Frames(its, b \o z, m), Boundaries(b) = {}, NEW n \in Nat
  PROVE  Yields(its, z, m, b, Drain[n][b])
<1>1. Drain[n][b] = [items |-> <<>>, rest |-> b]
  <2>1. FindEventBoundary(b) = 0
    BY FirstBoundary, Zenon
  <2>2. Round(n, Drain, b) = [items |-> <<>>, rest |-> b]
    BY <2>1, Zenon DEF Round
  <2> QED BY <2>2, DrainIs, Zenon
<1> DEFINE d == Drain[n][b]
<1>2. d.items = <<>> /\ d.rest = b
  BY <1>1
<1> HIDE DEF d
<1>3. m \in m .. Len(its) /\ m \in Nat /\ SubSeq(its, m + 1, m) = <<>> /\ <<>> \in Seq(Token)
  OBVIOUS
<1>4. <<>> \o b = b
  OBVIOUS
<1> QED BY <1>2, <1>3, <1>4, ParsedNothing, Zenon DEF Yields, d

LEMMA OneOf ==
  ASSUME NEW S, NEW s \in Seq(S), NEW j \in 1 .. Len(s) PROVE SubSeq(s, j, j) = <<s[j]>>
<1>1. j \in j .. Len(s) /\ s[j] \in S
  OBVIOUS
<1>2. SubSeq(s, j, j) = <<s[j]>> \o SubSeq(s, j + 1, j)
  BY <1>1, SubSeqRecursiveFirst, Zenon
<1>3. SubSeq(s, j + 1, j) = <<>>
  OBVIOUS
<1>4. \A x \in S : <<x>> \o <<>> = <<x>>
  OBVIOUS
<1> QED BY <1>1, <1>2, <1>3, <1>4, Zenon

(* One frame more in front.                                                *)
LEMMA OneMore ==
  ASSUME NEW its \in Seq(SseItem), NEW z \in Seq(Token), NEW m \in Nat, NEW l \in m .. Len(its),
         NEW f \in Seq(Token), Parsed(f, m, l),
         NEW c \in Seq(Token), NEW d, Yields(its, z, l, c, d),
         NEW all, all.items = SubSeq(its, m + 1, l) \o d.items, all.rest = d.rest
  PROVE  Yields(its, z, m, f \o c, all)
<1>1. PICK k \in l .. Len(its), p \in Seq(Token) :
        /\ d.items = SubSeq(its, l + 1, k) /\ d.rest \in Seq(Token) /\ c = p \o d.rest
        /\ Boundaries(d.rest) = {} /\ Frames(its, d.rest \o z, k) /\ Parsed(p, l, k)
  BY Zenon DEF Yields
<1>2. k \in m .. Len(its) /\ k \in Nat /\ l \in Nat /\ m <= l /\ l <= k
  OBVIOUS
<1>3. Parsed(f \o p, m, k)
  BY <1>1, <1>2, ParsedMore, Zenon
<1>4. f \o p \in Seq(Token)
  OBVIOUS
<1>5. f \o c = (f \o p) \o d.rest
  <2>1. d.rest \in Seq(Token) /\ c = p \o d.rest
    BY <1>1, Zenon
  <2>2. \A t \in Seq(Token) : (f \o p) \o t = f \o (p \o t)
    BY TokensConcat, Zenon
  <2> QED BY <2>1, <2>2, Zenon
<1>6. SubSeq(its, m + 1, l) \o SubSeq(its, l + 1, k) = SubSeq(its, m + 1, k)
  <2>1. m + 1 \in 1 .. Len(its) + 1 /\ l \in m + 1 - 1 .. Len(its) /\ k \in l .. Len(its)
    BY <1>2
  <2> QED BY <2>1, <1>2, ConcatAdjacentSubSeq
<1>7. all.items = SubSeq(its, m + 1, k)
  BY <1>1, <1>6, Zenon
<1> QED BY <1>1, <1>2, <1>3, <1>4, <1>5, <1>7, Zenon DEF Yields

LEMMA DrainYields ==
  ASSUME binding \in {"JSONRPC", "HTTP+JSON"}, NEW its, Numbers(its), NEW z \in Seq(Token)
  PROVE  \A n \in Nat : \A b \in Seq(Token) : \A m \in 0 .. Len(its) :
           Len(b) <= n /\ Frames(its, b \o z, m) => Yields(its, z, m, b, Drain[n][b])
<1>0. its \in Seq(SseItem) /\ Len(its) \in Nat
  BY DEF Numbers
<1> DEFINE Holds(n) == \A b \in Seq(Token) : \A m \in 0 .. Len(its) :
              Len(b) <= n /\ Frames(its, b \o z, m) => Yields(its, z, m, b, Drain[n][b])
           bad == {n \in Nat : ~Holds(n)}
<1> HIDE DEF Holds
<1>1. SUFFICES ASSUME bad # {} PROVE FALSE
  BY Zenon DEF Holds
<1>2. PICK n \in bad : \A j \in bad : n <= j
  <2>1. bad \in SUBSET Nat
    OBVIOUS
  <2> QED BY <1>1, <2>1, LeastNumber, Zenon
<1>3. n \in Nat /\ ~Holds(n)
  OBVIOUS
<1>4. n # 0 => n - 1 \in Nat /\ Holds(n - 1)
  <2>1. ASSUME n # 0 PROVE n - 1 \in Nat /\ ~(n <= n - 1)
    BY <1>3, <2>1
  <2> QED BY <1>2, <2>1
<1> HIDE DEF bad
<1>5. Holds(n)
  <2> SUFFICES ASSUME NEW b \in Seq(Token), NEW m \in 0 .. Len(its), Len(b) <= n, Frames(its, b \o z, m)
               PROVE  Yields(its, z, m, b, Drain[n][b])
    BY Zenon DEF Holds
  <2>1. m \in Nat /\ Len(b) \in Nat
    OBVIOUS
  <2>2. \/ b = <<>>
        \/ m < Len(its) /\ \E c \in Seq(Token) :
             b = Frame(its[m + 1]) \o c /\ Len(c) = Len(b) - 7 /\ Frames(its, c \o z, m + 1)
        \/ m < Len(its) /\ BeginsItem(its[m + 1], b)
        \/ \E c \in Seq(Token) :
             b = CommentFrame \o c /\ Len(c) = Len(b) - 3 /\ Frames(its, c \o z, m)
        \/ BeginsComment(b)
    BY <1>0, <2>1, BufferBegins, Zenon
  <2>3. CASE Boundaries(b) = {}
    BY <1>0, <1>3, <2>3, NothingWhole, Zenon
  <2>4. CASE b = <<>>
    <3>1. Boundaries(b) = {}
      BY <2>4 DEF Boundaries
    <3> QED BY <2>3, <3>1, Zenon
  <2>5. CASE m < Len(its) /\ BeginsItem(its[m + 1], b)
    <3>1. its[m + 1] \in SseItem
      BY <1>0, <2>1, <2>5
    <3>2. Boundaries(b) = {}
      BY <2>5, <3>1, PartOfItem, Zenon
    <3> QED BY <2>3, <3>2, Zenon
  <2>6. CASE BeginsComment(b)
    <3>1. Boundaries(b) = {}
      BY <2>6, PartOfComment, Zenon
    <3> QED BY <2>3, <3>1, Zenon
  <2>7. CASE m < Len(its) /\ \E c \in Seq(Token) :
               b = Frame(its[m + 1]) \o c /\ Len(c) = Len(b) - 7 /\ Frames(its, c \o z, m + 1)
    <3>1. PICK c \in Seq(Token) :
            b = Frame(its[m + 1]) \o c /\ Len(c) = Len(b) - 7 /\ Frames(its, c \o z, m + 1)
      BY <2>7, Zenon
    <3> DEFINE it == its[m + 1]
    <3>2. /\ m + 1 \in 0 .. Len(its) /\ m + 1 \in m .. Len(its) /\ it \in SseItem /\ it.n = m + 1
          /\ SubSeq(its, m + 1, m + 1) = <<it>>
      <4>1. m + 1 \in 0 .. Len(its) /\ m + 1 \in m .. Len(its) /\ m + 1 \in 1 .. Len(its)
        BY <1>0, <2>1, <2>7
      <4>2. it \in SseItem
        BY <1>0, <4>1
      <4>3. it.n = m + 1
        BY <4>1, Zenon DEF Numbers
      <4>4. \A j \in 1 .. Len(its) : SubSeq(its, j, j) = <<its[j]>>
        BY <1>0, OneOf, Zenon
      <4> QED BY <4>1, <4>2, <4>3, <4>4, Zenon
    <3>3. Len(c) \in Nat /\ n # 0 /\ Len(c) <= n - 1
      <4>1. Len(c) \in Nat
        OBVIOUS
      <4> QED BY <1>3, <2>1, <3>1, <4>1
    <3> HIDE DEF it
    <3>4. /\ FindEventBoundary(b) = 6 /\ ParseEvent(SubSeq(b, 1, 5)) = <<it>>
          /\ SubSeq(b, 8, Len(b)) = c
      BY <3>1, <3>2, ItemFramed, Zenon DEF it
    <3>5. Yields(its, z, m + 1, c, Drain[n - 1][c])
      BY <1>4, <3>1, <3>2, <3>3, Zenon DEF Holds
    <3>6. Drain[n][b] = [items |-> <<it>> \o Drain[n - 1][c].items, rest |-> Drain[n - 1][c].rest]
      <4>1. 6 + 2 = 8 /\ 6 - 1 = 5 /\ 6 # 0
        OBVIOUS
      <4>2. Round(n, Drain, b) = [items |-> <<it>> \o Drain[n - 1][c].items, rest |-> Drain[n - 1][c].rest]
        BY <3>3, <3>4, <4>1, Zenon DEF Round
      <4> QED BY <1>3, <4>2, DrainIs, Zenon
    <3>7. Frame(it) \in Seq(Token) /\ Parsed(Frame(it), m, m + 1)
      <4>1. (m + 1) .. (m + 1) = {m + 1}
        BY <2>1
      <4> QED BY <3>2, <4>1, FrameTyped, ItemHolds, Zenon DEF Parsed
    <3> DEFINE d == Drain[n - 1][c] all == Drain[n][b]
    <3>8. all.items = SubSeq(its, m + 1, m + 1) \o d.items /\ all.rest = d.rest
      <4> DEFINE x == <<it>> \o d.items
      <4>1. all = [items |-> x, rest |-> d.rest]
        BY <3>6, Zenon
      <4> HIDE DEF d, all, x
      <4>2. all.items = x /\ all.rest = d.rest
        BY <4>1
      <4> USE DEF x
      <4> QED BY <3>2, <4>2, Zenon
    <3> HIDE DEF d, all
    <3>9. Yields(its, z, m, Frame(it) \o c, all)
      BY <1>0, <2>1, <3>2, <3>5, <3>7, <3>8, OneMore, Zenon DEF d
    <3> QED BY <3>1, <3>9, Zenon DEF all, it
  <2>8. CASE \E c \in Seq(Token) :
               b = CommentFrame \o c /\ Len(c) = Len(b) - 3 /\ Frames(its, c \o z, m)
    <3>1. PICK c \in Seq(Token) :
            b = CommentFrame \o c /\ Len(c) = Len(b) - 3 /\ Frames(its, c \o z, m)
      BY <2>8, Zenon
    <3>2. m \in m .. Len(its) /\ SubSeq(its, m + 1, m) = <<>>
      BY <1>0
    <3>3. Len(c) \in Nat /\ n # 0 /\ Len(c) <= n - 1
      <4>1. Len(c) \in Nat
        OBVIOUS
      <4> QED BY <1>3, <2>1, <3>1, <4>1
    <3>4. /\ FindEventBoundary(b) = 2 /\ ParseEvent(SubSeq(b, 1, 1)) = <<>>
          /\ SubSeq(b, 4, Len(b)) = c
      BY <3>1, CommentFramed, Zenon
    <3>5. Yields(its, z, m, c, Drain[n - 1][c])
      BY <1>4, <3>1, <3>3, Zenon DEF Holds
    <3>6. Drain[n][b] = [items |-> <<>> \o Drain[n - 1][c].items, rest |-> Drain[n - 1][c].rest]
      <4>1. 2 + 2 = 4 /\ 2 - 1 = 1 /\ 2 # 0
        OBVIOUS
      <4>2. Round(n, Drain, b) = [items |-> <<>> \o Drain[n - 1][c].items, rest |-> Drain[n - 1][c].rest]
        BY <3>3, <3>4, <4>1, Zenon DEF Round
      <4> QED BY <1>3, <4>2, DrainIs, Zenon
    <3>7. CommentFrame \in Seq(Token) /\ Parsed(CommentFrame, m, m)
      <4>1. m + 1 .. m = {}
        BY <2>1
      <4> QED BY <4>1, FrameTyped, CommentHolds, Zenon DEF Parsed
    <3> DEFINE d == Drain[n - 1][c] all == Drain[n][b]
    <3>8. all.items = SubSeq(its, m + 1, m) \o d.items /\ all.rest = d.rest
      <4> DEFINE x == <<>> \o d.items
      <4>1. all = [items |-> x, rest |-> d.rest]
        BY <3>6, Zenon
      <4> HIDE DEF d, all, x
      <4>2. all.items = x /\ all.rest = d.rest
        BY <4>1
      <4> USE DEF x
      <4> QED BY <3>2, <4>2, Zenon
    <3> HIDE DEF d, all
    <3>9. Yields(its, z, m, CommentFrame \o c, all)
      BY <1>0, <2>1, <3>2, <3>5, <3>7, <3>8, OneMore, Zenon DEF d
    <3> QED BY <3>1, <3>9, Zenon DEF all
  <2> QED BY <2>2, <2>4, <2>5, <2>6, <2>7, <2>8, Zenon
<1> QED BY <1>3, <1>5, Zenon

-----------------------------------------------------------------------------
(* What the results amount to: the items 1 .. m, in their order.           *)

Tells(got, its, m) ==
  /\ \A k \in ItemPlaces(got) : got[k].n \in 1 .. m /\ got[k] = its[got[k].n]
  /\ \A k, l \in ItemPlaces(got) : k < l => got[k].n < got[l].n
  /\ ToldItems(got) = 1 .. m

SseResult == SseItem \union {Garbled}

LEMMA TellsNothing == ASSUME NEW its PROVE Tells(<<>>, its, 0)
<1>1. ItemPlaces(<<>>) = {} /\ 1 .. 0 = {}
  BY DEF ItemPlaces
<1>2. ToldItems(<<>>) = {}
  BY <1>1 DEF ToldItems
<1> QED BY <1>1, <1>2, Zenon DEF Tells

LEMMA ResultIs == SseItem \subseteq SseResult /\ Garbled \in SseResult /\ Garbled \notin SseItem
<1>1. Garbled.n = 0
  BY DEF Garbled
<1>2. \A it \in SseItem : it.n # 0
  BY DEF SseItem
<1> QED BY <1>1, <1>2, Zenon DEF SseResult

(* The places of one result more.                                          *)
LEMMA PlacesOfOneMore ==
  ASSUME NEW got \in Seq(SseResult), NEW x \in SseResult
  PROVE  /\ Append(got, x) \in Seq(SseResult)
         /\ \A k \in ItemPlaces(got) : k \in ItemPlaces(Append(got, x)) /\ Append(got, x)[k] = got[k]
                                       /\ k < Len(got) + 1
         /\ \A k \in ItemPlaces(Append(got, x)) : k \in ItemPlaces(got) \/ k = Len(got) + 1
         /\ Append(got, x)[Len(got) + 1] = x
         /\ Len(got) + 1 \in ItemPlaces(Append(got, x)) <=> x # Garbled
         /\ \A k \in ItemPlaces(got) : k \in Nat
<1> DEFINE new == Append(got, x)
<1>1. /\ new \in Seq(SseResult) /\ DOMAIN new = 1 .. Len(got) + 1 /\ DOMAIN got = 1 .. Len(got)
      /\ Len(got) \in Nat
      /\ new[Len(got) + 1] = x
      /\ \A k \in 1 .. Len(got) : new[k] = got[k]
  OBVIOUS
<1> HIDE DEF new
<1>2. \A k \in ItemPlaces(got) : k \in 1 .. Len(got) /\ got[k] # Garbled
  BY <1>1, Zenon DEF ItemPlaces
<1>3. \A k \in 1 .. Len(got) : k \in 1 .. Len(got) + 1 /\ k < Len(got) + 1 /\ k \in Nat
  BY <1>1
<1>4. \A k \in ItemPlaces(got) : k \in ItemPlaces(new) /\ new[k] = got[k] /\ k < Len(got) + 1 /\ k \in Nat
  BY <1>1, <1>2, <1>3, Zenon DEF ItemPlaces
<1>5. \A k \in ItemPlaces(new) : k \in ItemPlaces(got) \/ k = Len(got) + 1
  <2>1. \A k \in 1 .. Len(got) + 1 : k \in 1 .. Len(got) \/ k = Len(got) + 1
    BY <1>1
  <2>2. \A k \in ItemPlaces(new) : k \in 1 .. Len(got) + 1 /\ new[k] # Garbled
    BY <1>1, Zenon DEF ItemPlaces
  <2> QED BY <1>1, <2>1, <2>2, Zenon DEF ItemPlaces
<1>6. Len(got) + 1 \in ItemPlaces(new) <=> x # Garbled
  <2>1. Len(got) + 1 \in DOMAIN new
    BY <1>1
  <2> QED BY <1>1, <2>1, Zenon DEF ItemPlaces
<1> QED BY <1>1, <1>4, <1>5, <1>6, Zenon DEF new

LEMMA TellsGarbled ==
  ASSUME NEW got \in Seq(SseResult), NEW its, NEW m, Tells(got, its, m)
  PROVE  Tells(Append(got, Garbled), its, m)
<1> DEFINE new == Append(got, Garbled)
<1>1. /\ \A k : k \in ItemPlaces(new) <=> k \in ItemPlaces(got)
      /\ \A k \in ItemPlaces(got) : new[k] = got[k]
  <2> DEFINE x == Garbled
  <2>1. x \in SseResult /\ new = Append(got, x)
    BY ResultIs, Zenon
  <2> HIDE DEF new, x
  <2>2. /\ \A k \in ItemPlaces(got) : k \in ItemPlaces(new) /\ new[k] = got[k]
        /\ \A k \in ItemPlaces(new) : k \in ItemPlaces(got) \/ k = Len(got) + 1
        /\ Len(got) + 1 \in ItemPlaces(new) <=> x # Garbled
    BY <2>1, PlacesOfOneMore, Zenon
  <2> QED BY <2>2, Zenon DEF x
<1> HIDE DEF new
<1>2. ToldItems(new) = ToldItems(got)
  <2>1. \A x : x \in ToldItems(new) <=> x \in ToldItems(got)
    BY <1>1, Zenon DEF ToldItems
  <2> QED BY <2>1, Zenon
<1>3. Tells(new, its, m)
  BY <1>1, <1>2, Zenon DEF Tells
<1> QED BY <1>3 DEF new

LEMMA TellsOneMore ==
  ASSUME NEW got \in Seq(SseResult), NEW its, Numbers(its), NEW m \in Nat, m < Len(its),
         Tells(got, its, m)
  PROVE  Tells(Append(got, its[m + 1]), its, m + 1)
<1> DEFINE it == its[m + 1] new == Append(got, it) e == Len(got) + 1
<1>1. m + 1 \in 1 .. Len(its) /\ it \in SseItem
  BY DEF Numbers
<1>2. it.n = m + 1
  BY <1>1, Zenon DEF Numbers
<1>3. it # Garbled /\ it \in SseResult
  BY <1>1, ResultIs, Zenon
<1> HIDE DEF it
<1>4. /\ \A k \in ItemPlaces(got) : k \in ItemPlaces(new) /\ new[k] = got[k] /\ k < e /\ k \in Nat
      /\ \A k \in ItemPlaces(new) : k \in ItemPlaces(got) \/ k = e
      /\ new[e] = it /\ e \in ItemPlaces(new)
  BY <1>3, PlacesOfOneMore, Zenon
<1>5. e \in Nat
  OBVIOUS
<1> HIDE DEF new, e
<1>6. \A k \in ItemPlaces(got) : got[k].n \in 1 .. m /\ got[k] = its[got[k].n]
  BY Zenon DEF Tells
<1>7. \A j \in 1 .. m : j \in 1 .. m + 1 /\ j < m + 1
  OBVIOUS
<1>8. \A j \in 1 .. m + 1 : j \in 1 .. m \/ j = m + 1
  OBVIOUS
<1>9. m + 1 \in 1 .. m + 1
  OBVIOUS
<1>10. \A k \in ItemPlaces(new) : new[k].n \in 1 .. m + 1 /\ new[k] = its[new[k].n]
  <2> SUFFICES ASSUME NEW k \in ItemPlaces(new) PROVE new[k].n \in 1 .. m + 1 /\ new[k] = its[new[k].n]
    OBVIOUS
  <2>1. CASE k \in ItemPlaces(got)
    <3>1. new[k] = got[k]
      BY <1>4, <2>1, Zenon
    <3> QED BY <1>6, <1>7, <2>1, <3>1, Zenon
  <2>2. CASE k = e
    BY <1>2, <1>4, <1>9, <2>2, Zenon DEF it
  <2> QED BY <1>4, <2>1, <2>2, Zenon
<1>11. \A k, l \in ItemPlaces(new) : k < l => new[k].n < new[l].n
  <2> SUFFICES ASSUME NEW k \in ItemPlaces(new), NEW l \in ItemPlaces(new), k < l
               PROVE  new[k].n < new[l].n
    OBVIOUS
  <2>1. CASE k \in ItemPlaces(got) /\ l \in ItemPlaces(got)
    BY <1>4, <2>1, Zenon DEF Tells
  <2>2. CASE k \in ItemPlaces(got) /\ l = e
    BY <1>2, <1>4, <1>6, <1>7, <2>2, Zenon
  <2>3. CASE k = e
    <3>1. \A i, j \in Nat : i < j => ~(j < i) /\ i # j
      OBVIOUS
    <3>2. ~(k < l)
      <4>1. CASE l = e
        BY <2>3, <4>1, <3>1, <1>5, Zenon
      <4>2. CASE l \in ItemPlaces(got)
        BY <1>4, <1>5, <2>3, <4>2, <3>1, Zenon
      <4> QED BY <1>4, <4>1, <4>2, Zenon
    <3> QED BY <3>2, Zenon
  <2> QED BY <1>4, <2>1, <2>2, <2>3, Zenon
<1>12. ToldItems(new) = 1 .. m + 1
  <2>1. ToldItems(got) = 1 .. m
    BY Zenon DEF Tells
  <2>2. ASSUME NEW x \in ToldItems(new) PROVE x \in 1 .. m + 1
    BY <1>10, <2>2, Zenon DEF ToldItems
  <2>3. ASSUME NEW x \in 1 .. m + 1 PROVE x \in ToldItems(new)
    <3>1. CASE x \in 1 .. m
      <4>1. PICK k \in ItemPlaces(got) : x = got[k].n
        BY <2>1, <3>1, Zenon DEF ToldItems
      <4> QED BY <1>4, <4>1, Zenon DEF ToldItems
    <3>2. CASE x = m + 1
      BY <1>2, <1>4, <3>2, Zenon DEF ToldItems
    <3> QED BY <1>8, <2>3, <3>1, <3>2, Zenon
  <2> QED BY <2>2, <2>3, Zenon
<1>13. Tells(new, its, m + 1)
  BY <1>10, <1>11, <1>12, Zenon DEF Tells
<1> QED BY <1>13 DEF new, it

(* ... and of a run of items.                                              *)
LEMMA TellsItems ==
  ASSUME NEW got \in Seq(SseResult), NEW its, Numbers(its), NEW m \in 0 .. Len(its), Tells(got, its, m)
  PROVE  \A k \in m .. Len(its) : /\ got \o SubSeq(its, m + 1, k) \in Seq(SseResult)
                                  /\ Tells(got \o SubSeq(its, m + 1, k), its, k)
<1>0. its \in Seq(SseItem) /\ Len(its) \in Nat /\ m \in Nat /\ m <= Len(its)
  BY DEF Numbers
<1> DEFINE ext(k) == got \o SubSeq(its, m + 1, k)
           bad == {k \in Nat : m <= k /\ k <= Len(its) /\ ~(ext(k) \in Seq(SseResult) /\ Tells(ext(k), its, k))}
<1>1. SUFFICES ASSUME bad # {} PROVE FALSE
  BY <1>0
<1>2. PICK k \in bad : \A j \in bad : k <= j
  <2>1. bad \in SUBSET Nat
    OBVIOUS
  <2> QED BY <1>1, <2>1, LeastNumber, Zenon
<1>3. k \in Nat /\ m <= k /\ k <= Len(its) /\ ~(ext(k) \in Seq(SseResult) /\ Tells(ext(k), its, k))
  OBVIOUS
<1>4. CASE k = m
  <2>1. SubSeq(its, m + 1, m) = <<>>
    BY <1>0
  <2>2. ext(k) = got
    BY <1>4, <2>1
  <2> QED BY <1>3, <1>4, <2>2, Zenon
<1>5. CASE k # m
  <2>1. k - 1 \in Nat /\ m <= k - 1 /\ k - 1 < Len(its) /\ ~(k <= k - 1) /\ k - 1 <= Len(its) /\ (k - 1) + 1 = k
        /\ k \in m + 1 .. Len(its) /\ k \in 1 .. Len(its)
    BY <1>0, <1>3, <1>5
  <2>2. ext(k - 1) \in Seq(SseResult) /\ Tells(ext(k - 1), its, k - 1)
    <3>1. k - 1 \notin bad
      BY <1>2, <2>1
    <3> QED BY <2>1, <3>1
  <2>3. Tells(Append(ext(k - 1), its[k]), its, k)
    <3> DEFINE g == ext(k - 1)
    <3> HIDE DEF g, ext
    <3>1. Tells(Append(g, its[(k - 1) + 1]), its, (k - 1) + 1)
      BY <2>1, <2>2, TellsOneMore, Zenon DEF g
    <3> QED BY <2>1, <3>1, Zenon DEF g
  <2>4. ext(k) = Append(ext(k - 1), its[k]) /\ its[k] \in SseItem
    <3>1. its[k] \in SseItem
      BY <1>0, <2>1
    <3>2. SubSeq(its, m + 1, k) = Append(SubSeq(its, m + 1, k - 1), its[k])
      BY <1>0, <2>1
    <3>3. SubSeq(its, m + 1, k - 1) \in Seq(SseItem)
      BY <1>0, <2>1
    <3>4. \A u \in Seq(SseResult), v \in Seq(SseItem), x \in SseItem : u \o Append(v, x) = Append(u \o v, x)
      <4>1. \A v \in Seq(SseItem) : v \in Seq(SseResult)
        BY ResultIs
      <4>2. \A u \in Seq(SseResult), v \in Seq(SseResult), x \in SseResult : u \o Append(v, x) = Append(u \o v, x)
        OBVIOUS
      <4> QED BY <4>1, <4>2, ResultIs, Zenon
    <3> QED BY <3>1, <3>2, <3>3, <3>4, Zenon
  <2>5. ext(k) \in Seq(SseResult)
    <3>1. its[k] \in SseResult
      BY <2>4, ResultIs, Zenon
    <3> DEFINE g == ext(k - 1)
    <3> HIDE DEF g
    <3>2. Append(g, its[k]) \in Seq(SseResult)
      BY <2>2, <3>1, PlacesOfOneMore, Zenon DEF g
    <3> QED BY <2>4, <3>2, Zenon DEF g
  <2> HIDE DEF ext
  <2> QED BY <1>3, <2>3, <2>4, <2>5, Zenon
<1> QED BY <1>4, <1>5

LEMMA TellsLater ==
  ASSUME NEW got, NEW its, NEW more, NEW m, NEW n, m <= n, m \in Nat, n \in Nat,
         \A k \in 1 .. n : more[k] = its[k], Tells(got, its, m)
  PROVE  Tells(got, more, m)
<1>1. \A k \in 1 .. m : k \in 1 .. n
  OBVIOUS
<1>2. \A k \in ItemPlaces(got) : got[k].n \in 1 .. m /\ got[k] = more[got[k].n]
  BY <1>1, Zenon DEF Tells
<1> QED BY <1>2, Zenon DEF Tells

-----------------------------------------------------------------------------
(* The account of a stream: what was received is whole frames, parsed, and *)
(* the buffer; what is buffered, on the way or lost is frames as well; the *)
(* results are the items of the parsed ones.                               *)

Accounts(its, f, z, b, h, got) ==
  \E m \in 0 .. Len(its), p \in Seq(Token) :
    /\ Frames(its, b \o (f \o z), m) /\ h = p \o b /\ Parsed(p, 0, m)
    /\ Tells(got, its, m)

LEMMA NoAccount == Accounts(<<>>, <<>>, <<>>, <<>>, <<>>, <<>> \o <<>>)
<1>1. <<>> \o (<<>> \o <<>>) = <<>> /\ <<>> = <<>> \o <<>> /\ <<>> \in Seq(Token) /\ 0 \in 0 .. Len(<<>>)
      /\ 0 \in Nat
  OBVIOUS
<1>2. Frames(<<>>, <<>> \o (<<>> \o <<>>), 0)
  BY <1>1, NoFrames, Zenon
<1>3. Tells(<<>> \o <<>>, <<>>, 0)
  BY <1>1, TellsNothing, Zenon
<1>4. Parsed(<<>>, 0, 0)
  BY <1>1, ParsedNothing, Zenon
<1> QED BY <1>1, <1>2, <1>3, <1>4, Zenon DEF Accounts

LEMMA AccountOfFrame ==
  ASSUME binding \in {"JSONRPC", "HTTP+JSON"},
         NEW its \in Seq(SseItem), NEW more \in Seq(SseItem), NEW e \in Seq(Token), Adds(its, more, e),
         Len(its) <= Len(more), NEW f \in Seq(Token), NEW b \in Seq(Token), NEW h, NEW got,
         Accounts(its, f, <<>>, b, h, got)
  PROVE  Accounts(more, f \o e, <<>>, b, h, got)
<1>1. PICK m \in 0 .. Len(its), p \in Seq(Token) :
        /\ Frames(its, b \o (f \o <<>>), m) /\ h = p \o b /\ Parsed(p, 0, m)
        /\ Tells(got, its, m)
  BY Zenon DEF Accounts
<1>2. m \in Nat /\ m \in 0 .. Len(more) /\ m <= Len(its) /\ Len(its) \in Nat
  OBVIOUS
<1>3. b \o (f \o <<>>) \in Seq(Token)
  OBVIOUS
<1>4. (b \o (f \o <<>>)) \o e = b \o ((f \o e) \o <<>>)
  <2>1. f \o <<>> = f /\ (f \o e) \o <<>> = f \o e
    OBVIOUS
  <2>2. (b \o f) \o e = b \o (f \o e)
    BY TokensConcat, Zenon
  <2> QED BY <2>1, <2>2, Zenon
<1>5. Frames(more, b \o ((f \o e) \o <<>>), m)
  <2> DEFINE s == b \o (f \o <<>>)
  <2> HIDE DEF s
  <2>1. Frames(more, s \o e, m)
    BY <1>1, <1>2, <1>3, FramesMore, Zenon DEF s
  <2> QED BY <1>4, <2>1, Zenon DEF s
<1>6. Tells(got, more, m)
  <2>1. \A k \in 1 .. Len(its) : more[k] = its[k]
    BY Zenon DEF Adds
  <2> QED BY <1>1, <1>2, <2>1, TellsLater, Zenon
<1> QED BY <1>1, <1>2, <1>5, <1>6, Zenon DEF Accounts

LEMMA AccountOfLoss ==
  ASSUME NEW its, NEW f \in Seq(Token), NEW z \in Seq(Token), NEW b, NEW h, NEW got,
         Accounts(its, f, z, b, h, got)
  PROVE  f \o z \in Seq(Token) /\ Accounts(its, <<>>, f \o z, b, h, got)
<1>1. f \o z \in Seq(Token) /\ <<>> \o (f \o z) = f \o z
  OBVIOUS
<1> QED BY <1>1, Zenon DEF Accounts

LEMMA AccountOfError ==
  ASSUME NEW its, NEW f, NEW z, NEW b, NEW h, NEW got \in Seq(SseResult),
         Accounts(its, f, z, b, h, got)
  PROVE  Accounts(its, f, z, b, h, Append(got, Garbled))
BY TellsGarbled, Zenon DEF Accounts

LEMMA CutOnce ==
  ASSUME NEW S, NEW f \in Seq(S), NEW n \in 1 .. Len(f)
  PROVE  /\ SubSeq(f, 1, n) \in Seq(S) /\ SubSeq(f, n + 1, Len(f)) \in Seq(S)
         /\ f = SubSeq(f, 1, n) \o SubSeq(f, n + 1, Len(f))
<1>1. 1 \in 1 .. Len(f) + 1 /\ n \in 1 - 1 .. Len(f) /\ Len(f) \in n .. Len(f)
  OBVIOUS
<1>2. SubSeq(f, 1, n) \o SubSeq(f, n + 1, Len(f)) = SubSeq(f, 1, Len(f))
  BY <1>1, ConcatAdjacentSubSeq
<1>3. SubSeq(f, 1, Len(f)) = f
  OBVIOUS
<1>4. SubSeq(f, 1, n) \in Seq(S)
  OBVIOUS
<1>5. SubSeq(f, n + 1, Len(f)) \in Seq(S)
  OBVIOUS
<1> QED BY <1>2, <1>3, <1>4, <1>5, Zenon

LEMMA TokensRecut ==
  ASSUME NEW b \in Seq(Token), NEW c \in Seq(Token), NEW r \in Seq(Token), NEW z \in Seq(Token),
         NEW its, NEW m, Frames(its, b \o ((c \o r) \o z), m)
  PROVE  Frames(its, (b \o c) \o (r \o z), m)
<1> DEFINE y == r \o z
<1>1. y \in Seq(Token)
  OBVIOUS
<1>2. (c \o r) \o z = c \o y
  BY TokensConcat, Zenon
<1> HIDE DEF y
<1>3. (b \o c) \o y = b \o (c \o y)
  BY <1>1, TokensConcat, Zenon
<1> QED BY <1>2, <1>3, Zenon DEF y

LEMMA AccountOfChunk ==
  ASSUME binding \in {"JSONRPC", "HTTP+JSON"}, NEW its, Numbers(its),
         NEW c \in Seq(Token), NEW r \in Seq(Token), NEW z \in Seq(Token), NEW b \in Seq(Token),
         NEW h, NEW got \in Seq(SseResult), Accounts(its, c \o r, z, b, h, got),
         NEW d, d = DrainAll(b \o c)
  PROVE  /\ d.rest \in Seq(Token) /\ Boundaries(d.rest) = {} /\ d.items \in Seq(SseResult)
         /\ h \o c \in Seq(Token)
         /\ Accounts(its, r, z, d.rest, h \o c, got \o d.items)
<1>1. PICK m \in 0 .. Len(its), p \in Seq(Token) :
        /\ Frames(its, b \o ((c \o r) \o z), m) /\ h = p \o b /\ Parsed(p, 0, m)
        /\ Tells(got, its, m)
  BY Zenon DEF Accounts
<1>2. its \in Seq(SseItem) /\ Len(its) \in Nat /\ m \in Nat /\ m <= Len(its) /\ 0 \in Nat /\ 0 <= m
  BY DEF Numbers
<1> DEFINE bc == b \o c rz == r \o z
<1>3. bc \in Seq(Token) /\ Len(bc) \in Nat /\ Len(bc) <= Len(bc) /\ rz \in Seq(Token)
  OBVIOUS
<1>4. Frames(its, bc \o rz, m)
  BY <1>1, TokensRecut, Zenon
<1>5. Yields(its, rz, m, bc, d)
  <2>1. d = Drain[Len(bc)][bc]
    BY Zenon DEF DrainAll
  <2> HIDE DEF bc, rz
  <2>2. Yields(its, rz, m, bc, Drain[Len(bc)][bc])
    BY <1>3, <1>4, DrainYields, Zenon
  <2> QED BY <2>1, <2>2, Zenon
<1>6. PICK k \in m .. Len(its), q \in Seq(Token) :
        /\ d.items = SubSeq(its, m + 1, k) /\ d.rest \in Seq(Token) /\ bc = q \o d.rest
        /\ Boundaries(d.rest) = {} /\ Frames(its, d.rest \o rz, k) /\ Parsed(q, m, k)
  BY <1>5, Zenon DEF Yields
<1>7. k \in Nat /\ m <= k /\ k \in 0 .. Len(its)
  BY <1>2
<1>8. p \o q \in Seq(Token) /\ h \o c \in Seq(Token) /\ h \o c = (p \o q) \o d.rest
  <2>1. p \o q \in Seq(Token) /\ p \o bc \in Seq(Token)
    OBVIOUS
  <2>2. (p \o b) \o c = p \o bc
    BY TokensConcat, Zenon
  <2>3. (p \o q) \o d.rest = p \o (q \o d.rest)
    <3>1. d.rest \in Seq(Token)
      BY <1>6, Zenon
    <3>2. \A t \in Seq(Token) : (p \o q) \o t = p \o (q \o t)
      BY TokensConcat, Zenon
    <3> QED BY <3>1, <3>2, Zenon
  <2> HIDE DEF bc
  <2> QED BY <1>1, <1>6, <2>1, <2>2, <2>3, Zenon
<1>9. Parsed(p \o q, 0, k)
  BY <1>1, <1>2, <1>6, <1>7, ParsedMore, Zenon
<1>10. Tells(got \o d.items, its, k)
  BY <1>1, <1>6, TellsItems, Zenon
<1>11. Accounts(its, r, z, d.rest, h \o c, got \o d.items)
  BY <1>6, <1>7, <1>8, <1>9, <1>10, Zenon DEF Accounts
<1>12. d.items \in Seq(SseResult)
  <2>1. d.items \in Seq(SseItem)
    <3>1. SubSeq(its, m + 1, k) \in Seq(SseItem)
      BY <1>2, <1>7
    <3> QED BY <1>6, <3>1, Zenon
  <2>2. \A v \in Seq(SseItem) : v \in Seq(SseResult)
    BY ResultIs
  <2> QED BY <2>1, <2>2, Zenon
<1> QED BY <1>6, <1>8, <1>11, <1>12, Zenon

-----------------------------------------------------------------------------
(* StreamFaithful of these items, results and tokens.                      *)

FaithfulOf(its, got, h, l, y) ==
  /\ \A k \in ItemPlaces(got) :
       /\ got[k].n \in DOMAIN its /\ got[k] = its[got[k].n]
       /\ 1 .. got[k].n \subseteq ToldItems(got)
  /\ \A i, j \in ItemPlaces(got) : i < j => got[i].n < got[j].n
  /\ ToldItems(got) \subseteq WholeItems(h)
  /\ l # "closed" => ToldItems(got) = FramedItems(h)
  /\ l = "closed" /\ Garbled \notin Range(y) => ToldItems(got) = BegunItems(h)

LEMMA FaithfulFrom ==
  ASSUME NEW its, Numbers(its), NEW got, NEW h, NEW l, NEW y, NEW m \in 0 .. Len(its),
         Tells(got, its, m), 1 .. m \subseteq WholeItems(h),
         l # "closed" => 1 .. m = FramedItems(h),
         l = "closed" /\ Garbled \notin Range(y) => 1 .. m = BegunItems(h)
  PROVE  FaithfulOf(its, got, h, l, y)
<1>1. DOMAIN its = 1 .. Len(its) /\ Len(its) \in Nat
  BY DEF Numbers
<1>2. \A n \in 1 .. m : n \in DOMAIN its /\ 1 .. n \subseteq 1 .. m
  BY <1>1
<1> QED BY <1>2, Zenon DEF Tells, FaithfulOf

LEMMA OneAtEnd ==
  ASSUME NEW S, NEW s \in Seq(S), NEW x \in S
  PROVE  /\ s \o <<>> = s /\ s \o <<x>> = Append(s, x) /\ Append(s, x) \in Seq(S)
         /\ x \in Range(Append(s, x))
<1>1. s \o <<>> = s
  OBVIOUS
<1>2. s \o <<x>> = Append(s, x)
  OBVIOUS
<1>3. Append(s, x) \in Seq(S) /\ Append(s, x)[Len(s) + 1] = x /\ Len(s) + 1 \in DOMAIN Append(s, x)
  OBVIOUS
<1>4. x \in Range(Append(s, x))
  BY <1>3, Zenon DEF Range
<1> QED BY <1>1, <1>2, <1>3, <1>4, Zenon

(* These bytes are whole frames and others.                                *)
ParsedThen(h, p, m, b) == h = p \o b /\ Parsed(p, 0, m)

LEMMA ParsedFront ==
  ASSUME NEW p \in Seq(Token), NEW b \in Seq(Token), NEW m, NEW h, ParsedThen(h, p, m, b)
  PROVE  /\ WholeItems(h) = (1 .. m) \union WholeItems(b)
         /\ BegunItems(h) = (1 .. m) \union BegunItems(b)
         /\ FramedItems(h) = (1 .. m) \union FramedItems(b)
<1>1. WholeItems(p) = 1 .. m /\ BegunItems(p) = 1 .. m /\ EndsFramed(p)
  <2>1. 0 + 1 = 1
    OBVIOUS
  <2> QED BY <2>1, Zenon DEF Parsed, ParsedThen
<1>2. /\ WholeItems(p \o b) = WholeItems(p) \union WholeItems(b)
      /\ BegunItems(p \o b) = BegunItems(p) \union BegunItems(b)
      /\ FramedItems(p \o b) = WholeItems(p) \union FramedItems(b)
  BY <1>1, ItemsOfConcat, Zenon
<1>3. /\ WholeItems(h) = WholeItems(p) \union WholeItems(b)
      /\ BegunItems(h) = BegunItems(p) \union BegunItems(b)
      /\ FramedItems(h) = WholeItems(p) \union FramedItems(b)
  BY <1>2, Zenon DEF ParsedThen
<1> QED BY <1>1, <1>3, Zenon

LEMMA AccountOfEnd ==
  ASSUME binding \in {"JSONRPC", "HTTP+JSON"}, NEW its, Numbers(its),
         NEW z \in Seq(Token), NEW b \in Seq(Token), NEW h, NEW got \in Seq(SseResult),
         Accounts(its, <<>>, z, b, h, got), Boundaries(b) = {}
  PROVE  /\ got \o ParseStreamTail(b) \in Seq(SseResult)
         /\ FaithfulOf(its, got \o ParseStreamTail(b), h, "closed", got \o ParseStreamTail(b))
<1>1. PICK m \in 0 .. Len(its), p \in Seq(Token) :
        /\ Frames(its, b \o (<<>> \o z), m) /\ h = p \o b /\ Parsed(p, 0, m)
        /\ Tells(got, its, m)
  BY Zenon DEF Accounts
<1>2. its \in Seq(SseItem) /\ Len(its) \in Nat /\ m \in Nat
  BY DEF Numbers
<1>3. Frames(its, b \o z, m)
  <2>1. <<>> \o z = z
    OBVIOUS
  <2> QED BY <1>1, <2>1, Zenon
<1> DEFINE t == ParseStreamTail(b) all == got \o t
<1>4. WholeItems(h) = (1 .. m) \union WholeItems(b) /\ BegunItems(h) = (1 .. m) \union BegunItems(b)
  <2>1. ParsedThen(h, p, m, b)
    BY <1>1, Zenon DEF ParsedThen
  <2> QED BY <2>1, ParsedFront, SMT
<1>5. FindEventBoundary(b) = 0
  BY FirstBoundary, Zenon
<1>6. ASSUME t = <<Garbled>> PROVE all \in Seq(SseResult) /\ FaithfulOf(its, all, h, "closed", all)
  <2>1. all = Append(got, Garbled) /\ all \in Seq(SseResult) /\ Garbled \in Range(all)
    <3>1. got \o <<Garbled>> = Append(got, Garbled) /\ Append(got, Garbled) \in Seq(SseResult)
          /\ Garbled \in Range(Append(got, Garbled))
      BY ResultIs, OneAtEnd, Zenon
    <3> QED BY <1>6, <3>1
  <2>2. Tells(all, its, m)
    BY <1>1, <2>1, TellsGarbled, Zenon
  <2> HIDE DEF all
  <2>3. FaithfulOf(its, all, h, "closed", all)
    <3>1. 1 .. m \subseteq WholeItems(h)
      BY <1>4, Zenon
    <3> QED BY <2>1, <2>2, <3>1, FaithfulFrom, Zenon
  <2> QED BY <2>1, <2>3
<1>7. ASSUME t = <<>>, BegunItems(b) = {} PROVE all \in Seq(SseResult) /\ FaithfulOf(its, all, h, "closed", all)
  <2>1. all = got
    BY <1>7
  <2> HIDE DEF all
  <2>2. FaithfulOf(its, all, h, "closed", all)
    <3>1. 1 .. m \subseteq WholeItems(h) /\ 1 .. m = BegunItems(h)
      BY <1>4, <1>7, Zenon
    <3> QED BY <1>1, <2>1, <3>1, FaithfulFrom, Zenon
  <2> QED BY <2>1, <2>2
<1>8. ASSUME m < Len(its), t = <<its[m + 1]>>, BegunItems(b) = {its[m + 1].n}, WholeItems(b) = {its[m + 1].n}
      PROVE  all \in Seq(SseResult) /\ FaithfulOf(its, all, h, "closed", all)
  <2>1. m + 1 \in 1 .. Len(its) /\ m + 1 \in 0 .. Len(its) /\ its[m + 1] \in SseItem
    BY <1>2, <1>8
  <2>2. its[m + 1].n = m + 1
    BY <2>1, Zenon DEF Numbers
  <2>3. all = Append(got, its[m + 1]) /\ all \in Seq(SseResult)
    <3>1. its[m + 1] \in SseResult
      BY <2>1, ResultIs, Zenon
    <3>2. got \o <<its[m + 1]>> = Append(got, its[m + 1]) /\ Append(got, its[m + 1]) \in Seq(SseResult)
      BY <3>1, OneAtEnd, Zenon
    <3> QED BY <1>8, <3>2
  <2>4. Tells(all, its, m + 1)
    BY <1>1, <1>2, <1>8, <2>3, TellsOneMore, Zenon
  <2> HIDE DEF all
  <2>5. FaithfulOf(its, all, h, "closed", all)
    <3>1. (1 .. m) \union {m + 1} = 1 .. m + 1
      BY <1>2
    <3>2. 1 .. m + 1 \subseteq WholeItems(h) /\ 1 .. m + 1 = BegunItems(h)
      BY <1>4, <1>8, <2>2, <3>1, Zenon
    <3> QED BY <2>1, <2>4, <3>2, FaithfulFrom, Zenon
  <2> QED BY <2>3, <2>5
<1> HIDE DEF t, all
<1>9. \/ b = <<>>
      \/ m < Len(its) /\ \E c \in Seq(Token) :
           b = Frame(its[m + 1]) \o c /\ Len(c) = Len(b) - 7 /\ Frames(its, c \o z, m + 1)
      \/ m < Len(its) /\ BeginsItem(its[m + 1], b)
      \/ \E c \in Seq(Token) :
           b = CommentFrame \o c /\ Len(c) = Len(b) - 3 /\ Frames(its, c \o z, m)
      \/ BeginsComment(b)
  BY <1>2, <1>3, BufferBegins, Zenon
<1>10. CASE b = <<>>
  <2>1. DOMAIN b = {}
    BY <1>10
  <2>2. t = <<>>
    BY <2>1, Zenon DEF t, ParseStreamTail
  <2>3. BegunItems(b) = {}
    BY <2>1 DEF BegunItems
  <2> QED BY <1>7, <2>2, <2>3 DEF t, all
<1>11. CASE m < Len(its) /\ \E c \in Seq(Token) : b = Frame(its[m + 1]) \o c
  <2>1. its[m + 1] \in SseItem
    BY <1>2, <1>11
  <2>2. FindEventBoundary(b) = 6
    BY <1>11, <2>1, ItemFramed, Zenon
  <2> QED BY <1>5, <2>2
<1>12. CASE \E c \in Seq(Token) : b = CommentFrame \o c
  <2>1. FindEventBoundary(b) = 2
    BY <1>12, CommentFramed, Zenon
  <2> QED BY <1>5, <2>1
<1>13. CASE BeginsComment(b)
  BY <1>6, <1>13, PartOfComment, Zenon DEF t, all
<1>14. CASE m < Len(its) /\ BeginsItem(its[m + 1], b)
  <2> DEFINE it == its[m + 1] n == Len(b)
  <2>1. it \in SseItem
    BY <1>2, <1>14
  <2> HIDE DEF it
  <2>2. BeginsItem(it, b)
    BY <1>14, Zenon DEF it
  <2>3. n \in 1 .. 6
    BY <2>2, Zenon DEF BeginsItem
  <2>4. /\ WholeItems(b) = IF n >= 5 THEN {it.n} ELSE {}
        /\ BegunItems(b) = IF n >= 4 THEN {it.n} ELSE {}
        /\ n \in {1, 2, 4} => t = <<Garbled>>
        /\ n = 3 => t = <<>>
        /\ n \in {5, 6} => t = <<it>>
    BY <2>1, <2>2, PartOfItem, Zenon DEF t
  <2> HIDE DEF n
  <2>5. n \in {1, 2, 4} \/ n = 3 \/ n \in {5, 6}
    BY <2>3
  <2>6. CASE n \in {1, 2, 4}
    BY <1>6, <2>4, <2>6, Zenon DEF t, all
  <2>7. CASE n = 3
    <3>1. BegunItems(b) = {}
      BY <2>4, <2>7
    <3> QED BY <1>7, <2>4, <2>7, <3>1, Zenon DEF t, all
  <2>8. CASE n \in {5, 6}
    <3>1. BegunItems(b) = {it.n} /\ WholeItems(b) = {it.n}
      BY <2>4, <2>8
    <3> QED BY <1>8, <1>14, <2>4, <2>8, <3>1, Zenon DEF t, all, it
  <2> QED BY <2>5, <2>6, <2>7, <2>8, Zenon
<1> QED BY <1>9, <1>10, <1>11, <1>12, <1>13, <1>14, Zenon DEF t, all

(* While the stream is not closed.                                         *)
LEMMA AccountIsFaithful ==
  ASSUME binding \in {"JSONRPC", "HTTP+JSON"}, NEW its, Numbers(its), NEW f \in Seq(Token),
         NEW z \in Seq(Token), NEW b \in Seq(Token), NEW h, NEW got \in Seq(SseResult), NEW l, NEW y,
         Accounts(its, f, z, b, h, got), Boundaries(b) = {}, l # "closed"
  PROVE  FaithfulOf(its, got, h, l, y)
<1>1. PICK m \in 0 .. Len(its), p \in Seq(Token) :
        /\ Frames(its, b \o (f \o z), m) /\ h = p \o b /\ Parsed(p, 0, m)
        /\ Tells(got, its, m)
  BY Zenon DEF Accounts
<1>2. its \in Seq(SseItem) /\ Len(its) \in Nat /\ m \in Nat
  BY DEF Numbers
<1> DEFINE fz == f \o z
<1>3. fz \in Seq(Token)
  OBVIOUS
<1> HIDE DEF fz
<1>4. FramedItems(b) = {}
  <2>1. FindEventBoundary(b) = 0
    BY FirstBoundary, Zenon
  <2>2. \/ b = <<>>
        \/ m < Len(its) /\ \E c \in Seq(Token) :
             b = Frame(its[m + 1]) \o c /\ Len(c) = Len(b) - 7 /\ Frames(its, c \o fz, m + 1)
        \/ m < Len(its) /\ BeginsItem(its[m + 1], b)
        \/ \E c \in Seq(Token) :
             b = CommentFrame \o c /\ Len(c) = Len(b) - 3 /\ Frames(its, c \o fz, m)
        \/ BeginsComment(b)
    <3>1. Frames(its, b \o fz, m)
      BY <1>1, Zenon DEF fz
    <3> QED BY <1>2, <1>3, <3>1, BufferBegins, Zenon
  <2>3. m < Len(its) => its[m + 1] \in SseItem
    BY <1>2
  <2>4. CASE b = <<>>
    BY <2>4 DEF FramedItems
  <2>5. CASE m < Len(its) /\ \E c \in Seq(Token) : b = Frame(its[m + 1]) \o c
    <3>1. FindEventBoundary(b) = 6
      BY <2>3, <2>5, ItemFramed, Zenon
    <3> QED BY <2>1, <3>1
  <2>6. CASE \E c \in Seq(Token) : b = CommentFrame \o c
    <3>1. FindEventBoundary(b) = 2
      BY <2>6, CommentFramed, Zenon
    <3> QED BY <2>1, <3>1
  <2>7. CASE m < Len(its) /\ BeginsItem(its[m + 1], b)
    BY <2>3, <2>7, PartOfItem, Zenon
  <2>8. CASE BeginsComment(b)
    BY <2>8, PartOfComment, Zenon
  <2> QED BY <2>2, <2>4, <2>5, <2>6, <2>7, <2>8, Zenon
<1>5. 1 .. m \subseteq WholeItems(h) /\ 1 .. m = FramedItems(h)
  <2>1. WholeItems(h) = (1 .. m) \union WholeItems(b) /\ FramedItems(h) = (1 .. m) \union FramedItems(b)
    <3>1. ParsedThen(h, p, m, b)
      BY <1>1, Zenon DEF ParsedThen
    <3> QED BY <3>1, ParsedFront, SMT
  <2> QED BY <1>4, <2>1, Zenon
<1> QED BY <1>1, <1>5, FaithfulFrom, Zenon

-----------------------------------------------------------------------------
(* The invariant.                                                          *)

SseTyped ==
  /\ binding \in {"JSONRPC", "HTTP+JSON"}
  /\ written \in [items : Seq(SseItem), comments : Nat] /\ Numbers(written.items)
  /\ feed \in Seq(Token) /\ buf \in Seq(Token) /\ heard \in Seq(Token)
  /\ pending \in Seq(SseResult) /\ yielded \in Seq(SseResult)
  /\ link \in {"open", "ended", "failing", "closed"}
  /\ Boundaries(buf) = {}
  /\ link = "failing" => feed = <<>>
  /\ link = "closed" => pending = <<>>

(* While it is not closed the account holds, of an end that may be lost.   *)
SseAccount ==
  \E z \in Seq(Token) :
    /\ link = "open" => z = <<>>
    /\ Accounts(written.items, feed, z, buf, heard, yielded \o pending)

SseSafe ==
  /\ SseTyped
  /\ link # "closed" => SseAccount
  /\ link = "closed" => StreamFaithful

LEMMA FaithfulIs ==
  /\ StreamFaithful <=> FaithfulOf(written.items, yielded \o pending, heard, link, yielded)
  /\ StreamFaithful' <=> FaithfulOf(written.items', yielded' \o pending', heard', link', yielded')
BY DEF StreamFaithful, FaithfulOf, ItemPlaces, ToldItems, WholeItems, BegunItems, FramedItems, Range

LEMMA FramesStay ==
  ASSUME binding' = binding, NEW its, NEW s, NEW m, Frames(its, s, m)
  PROVE  Frames(its, s, m)'
BY DEF Frames, Peels, Frame

LEMMA AccountsStay ==
  ASSUME binding' = binding, NEW its, NEW f, NEW z, NEW b, NEW h, NEW got,
         Accounts(its, f, z, b, h, got)
  PROVE  Accounts(its, f, z, b, h, got)'
BY FramesStay, Zenon DEF Accounts

LEMMA SafeFrom ==
  ASSUME SseTyped', binding' = binding, link' # "closed", NEW z \in Seq(Token),
         link' = "open" => z = <<>>,
         Accounts(written.items', feed', z, buf', heard', yielded' \o pending')
  PROVE  SseSafe'
<1>1. SseAccount'
  BY AccountsStay, Zenon DEF SseAccount
<1> QED BY <1>1, Zenon DEF SseSafe

LEMMA SseStarts == SseInit => SseSafe
<1> SUFFICES ASSUME SseInit PROVE SseSafe
  OBVIOUS
<1>1. SseTyped
  BY DEF SseInit, SseTyped, Numbers, Boundaries
<1>2. SseAccount
  <2>1. Accounts(written.items, feed, <<>>, buf, heard, yielded \o pending)
    <3>1. written.items = <<>>
      BY DEF SseInit
    <3> QED BY <3>1, NoAccount, Zenon DEF SseInit
  <2>2. <<>> \in Seq(Token)
    OBVIOUS
  <2> QED BY <2>1, <2>2, Zenon DEF SseAccount
<1>3. link = "open" /\ "open" # "closed"
  BY DEF SseInit
<1> QED BY <1>1, <1>2, <1>3, Zenon DEF SseSafe

(* Before a step, unless the stream is closed.                             *)
LEMMA SseBefore ==
  ASSUME SseSafe
  PROVE  /\ SseTyped /\ binding \in {"JSONRPC", "HTTP+JSON"}
         /\ written.items \in Seq(SseItem) /\ Numbers(written.items)
         /\ feed \in Seq(Token) /\ buf \in Seq(Token) /\ heard \in Seq(Token)
         /\ pending \in Seq(SseResult) /\ yielded \in Seq(SseResult)
         /\ yielded \o pending \in Seq(SseResult) /\ Boundaries(buf) = {}
         /\ link # "closed" =>
              \E z \in Seq(Token) : /\ link = "open" => z = <<>>
                                    /\ Accounts(written.items, feed, z, buf, heard, yielded \o pending)
<1>1. SseTyped /\ (link # "closed" => SseAccount)
  BY Zenon DEF SseSafe
<1>2. pending \in Seq(SseResult) /\ yielded \in Seq(SseResult)
  BY <1>1, Zenon DEF SseTyped
<1>3. yielded \o pending \in Seq(SseResult)
  BY <1>2
<1> QED BY <1>1, <1>2, <1>3, Zenon DEF SseTyped, SseAccount, Numbers

LEMMA WriteItemSafe == ASSUME SseSafe, WriteItem PROVE SseSafe'
<1>1. /\ SseTyped /\ binding \in {"JSONRPC", "HTTP+JSON"}
      /\ written.items \in Seq(SseItem) /\ Numbers(written.items)
      /\ feed \in Seq(Token) /\ buf \in Seq(Token)
  BY SseBefore, Zenon
<1>2. PICK ok \in BOOLEAN :
        LET it == [n |-> Len(written.items) + 1, ok |-> ok]
        IN  /\ written' = [written EXCEPT !.items = Append(@, it)]
            /\ feed' = feed \o Frame(it)
  BY Zenon DEF WriteItem
<1> DEFINE it == [n |-> Len(written.items) + 1, ok |-> ok]
           its == written.items
           more == Append(its, it)
<1>3. /\ link = "open" /\ Len(its) < MaxItems /\ binding' = binding /\ link' = link
      /\ buf' = buf /\ pending' = pending /\ yielded' = yielded /\ heard' = heard
  BY DEF WriteItem
<1>4. it \in SseItem /\ it.n = Len(its) + 1
  BY <1>1, <1>3, SseBounds DEF SseItem
<1>5. Frame(it) \in Seq(Token)
  BY <1>1, <1>4, FrameTyped, Zenon
<1>6. /\ written' = [written EXCEPT !.items = more] /\ feed' = feed \o Frame(it)
  BY <1>2
<1> HIDE DEF it
<1>7. /\ more \in Seq(SseItem) /\ Len(more) = Len(its) + 1 /\ Len(its) \in Nat /\ more[Len(its) + 1] = it
      /\ \A k \in 1 .. Len(its) : more[k] = its[k]
  BY <1>1, <1>4
<1> HIDE DEF its
<1>8. Numbers(more)
  <2>1. \A k \in 1 .. Len(its) + 1 : k \in 1 .. Len(its) \/ k = Len(its) + 1
    BY <1>7
  <2> HIDE DEF more
  <2>2. \A k \in 1 .. Len(its) : its[k].n = k
    BY <1>1, Zenon DEF Numbers, its
  <2> QED BY <1>4, <1>7, <2>1, <2>2, Zenon DEF Numbers
<1>9. Adds(its, more, Frame(it))
  BY <1>7, Zenon DEF Adds
<1>10. written' \in [items : Seq(SseItem), comments : Nat] /\ written'.items = more
  <2> HIDE DEF more
  <2>1. written \in [items : Seq(SseItem), comments : Nat]
    BY <1>1, Zenon DEF SseTyped
  <2> QED BY <1>6, <1>7, <2>1
<1>11. feed' \in Seq(Token)
  <2> DEFINE e == Frame(it)
  <2>1. e \in Seq(Token) /\ feed' = feed \o e
    BY <1>5, <1>6, Zenon
  <2> HIDE DEF e
  <2> QED BY <1>1, <2>1
<1> HIDE DEF more
<1>12. SseTyped'
  <2>1. Boundaries(buf)' = {}
    BY <1>1, <1>3 DEF SseTyped, Boundaries
  <2>2. Numbers(written.items)'
    BY <1>8, <1>10, Zenon DEF Numbers
  <2>3. link' # "failing" /\ link' # "closed"
    BY <1>3
  <2> QED BY <1>1, <1>3, <1>10, <1>11, <2>1, <2>2, <2>3 DEF SseTyped
<1>13. Accounts(its, feed, <<>>, buf, heard, yielded \o pending)
  <2>1. link # "closed"
    BY <1>3
  <2> QED BY <1>3, <2>1, SseBefore, Zenon DEF its
<1>14. Accounts(more, feed', <<>>, buf, heard, yielded \o pending)
  <2>1. Len(its) <= Len(more)
    BY <1>7
  <2>2. its \in Seq(SseItem)
    BY <1>1, Zenon DEF its
  <2>3. Accounts(more, feed \o Frame(it), <<>>, buf, heard, yielded \o pending)
    BY <1>1, <1>5, <1>7, <1>9, <1>13, <2>1, <2>2, AccountOfFrame, Zenon
  <2> QED BY <1>6, <2>3, Zenon
<1> QED
  <2>1. Accounts(written.items', feed', <<>>, buf', heard', yielded' \o pending')
    BY <1>3, <1>10, <1>14, Zenon
  <2>2. link' # "closed" /\ <<>> \in Seq(Token)
    BY <1>3
  <2> QED BY <1>3, <1>12, <2>1, <2>2, SafeFrom, Zenon

LEMMA KeepAliveSafe == ASSUME SseSafe, KeepAlive PROVE SseSafe'
<1>1. /\ SseTyped /\ binding \in {"JSONRPC", "HTTP+JSON"}
      /\ written.items \in Seq(SseItem) /\ Numbers(written.items)
      /\ feed \in Seq(Token) /\ buf \in Seq(Token)
  BY SseBefore, Zenon
<1>2. /\ link = "open" /\ binding' = binding /\ link' = link
      /\ buf' = buf /\ pending' = pending /\ yielded' = yielded /\ heard' = heard
      /\ written' = [written EXCEPT !.comments = @ + 1]
      /\ feed' = feed \o CommentFrame
  BY Zenon DEF KeepAlive, CommentFrame
<1>3. CommentFrame \in Seq(Token)
  BY <1>1, FrameTyped, Zenon
<1>4. written' \in [items : Seq(SseItem), comments : Nat] /\ written'.items = written.items
  <2>1. written \in [items : Seq(SseItem), comments : Nat]
    BY <1>1, Zenon DEF SseTyped
  <2> DEFINE n == written.comments + 1
  <2>2. n \in Nat
    BY <2>1
  <2>3. written' = [written EXCEPT !.comments = n]
    BY <1>2, Zenon
  <2> HIDE DEF n
  <2> QED BY <2>1, <2>2, <2>3
<1>5. feed' \in Seq(Token)
  BY <1>1, <1>2, <1>3
<1>6. SseTyped'
  <2>1. Boundaries(buf)' = {}
    BY <1>1, <1>2 DEF SseTyped, Boundaries
  <2>2. Numbers(written.items)'
    BY <1>1, <1>4, Zenon DEF Numbers
  <2>3. link' # "failing" /\ link' # "closed"
    BY <1>2
  <2> QED BY <1>1, <1>2, <1>4, <1>5, <2>1, <2>2, <2>3 DEF SseTyped
<1> DEFINE its == written.items
<1>7. its \in Seq(SseItem) /\ Len(its) <= Len(its)
  BY <1>1
<1> HIDE DEF its
<1>8. Accounts(its, feed, <<>>, buf, heard, yielded \o pending)
  <2>1. link # "closed"
    BY <1>2
  <2> QED BY <1>2, <2>1, SseBefore, Zenon DEF its
<1>9. Accounts(its, feed', <<>>, buf, heard, yielded \o pending)
  <2>1. Adds(its, its, CommentFrame)
    BY Zenon DEF Adds
  <2>2. Accounts(its, feed \o CommentFrame, <<>>, buf, heard, yielded \o pending)
    BY <1>1, <1>3, <1>7, <1>8, <2>1, AccountOfFrame, Zenon
  <2> QED BY <1>2, <2>2, Zenon
<1> QED
  <2>1. Accounts(written.items', feed', <<>>, buf', heard', yielded' \o pending')
    BY <1>2, <1>4, <1>9, Zenon DEF its
  <2>2. link' # "closed" /\ <<>> \in Seq(Token)
    BY <1>2
  <2> QED BY <1>2, <1>6, <2>1, <2>2, SafeFrom, Zenon

LEMMA EndResponseSafe == ASSUME SseSafe, EndResponse PROVE SseSafe'
<1>1. /\ SseTyped /\ Numbers(written.items)
  BY SseBefore, Zenon
<1>2. /\ link = "open" /\ binding' = binding /\ link' = "ended" /\ written' = written /\ feed' = feed
      /\ buf' = buf /\ pending' = pending /\ yielded' = yielded /\ heard' = heard
  BY DEF EndResponse
<1>3. link # "closed" /\ link' # "closed" /\ link' # "open" /\ link' # "failing"
  BY <1>2
<1>4. SseTyped'
  <2>1. Boundaries(buf)' = {} /\ Numbers(written.items)'
    BY <1>1, <1>2 DEF SseTyped, Boundaries, Numbers
  <2> QED BY <1>1, <1>2, <1>3, <2>1 DEF SseTyped
<1>5. PICK z \in Seq(Token) : Accounts(written.items, feed, z, buf, heard, yielded \o pending)
  BY <1>3, SseBefore, Zenon
<1>6. Accounts(written.items', feed', z, buf', heard', yielded' \o pending')
  BY <1>2, <1>5, Zenon
<1> QED BY <1>2, <1>3, <1>4, <1>6, SafeFrom, Zenon

LEMMA LoseConnectionSafe == ASSUME SseSafe, LoseConnection PROVE SseSafe'
<1>1. /\ SseTyped /\ Numbers(written.items) /\ feed \in Seq(Token)
  BY SseBefore, Zenon
<1>2. /\ link \in {"open", "ended"} /\ binding' = binding /\ link' \in {"failing", "ended"}
      /\ written' = written /\ feed' = <<>>
      /\ buf' = buf /\ pending' = pending /\ yielded' = yielded /\ heard' = heard
  BY DEF LoseConnection
<1>3. link # "closed" /\ link' # "closed" /\ link' # "open"
  BY <1>2
<1>4. SseTyped'
  <2>1. Boundaries(buf)' = {} /\ Numbers(written.items)'
    BY <1>1, <1>2 DEF SseTyped, Boundaries, Numbers
  <2>2. feed' \in Seq(Token)
    BY <1>2
  <2> QED BY <1>1, <1>2, <1>3, <2>1, <2>2 DEF SseTyped
<1>5. PICK z \in Seq(Token) : Accounts(written.items, feed, z, buf, heard, yielded \o pending)
  BY <1>3, SseBefore, Zenon
<1>6. feed \o z \in Seq(Token) /\ Accounts(written.items, <<>>, feed \o z, buf, heard, yielded \o pending)
  BY <1>1, <1>5, AccountOfLoss, Zenon
<1>7. Accounts(written.items', feed', feed \o z, buf', heard', yielded' \o pending')
  BY <1>2, <1>6, Zenon
<1> QED BY <1>2, <1>3, <1>4, <1>6, <1>7, SafeFrom, Zenon

LEMMA TakeChunkSafe == ASSUME SseSafe, TakeChunk PROVE SseSafe'
<1>1. /\ SseTyped /\ binding \in {"JSONRPC", "HTTP+JSON"} /\ Numbers(written.items)
      /\ feed \in Seq(Token) /\ buf \in Seq(Token)
      /\ yielded \in Seq(SseResult) /\ yielded \o pending \in Seq(SseResult)
  BY SseBefore, Zenon
<1>2. PICK n \in 1 .. Len(feed) :
        LET d == DrainAll(buf \o SubSeq(feed, 1, n))
        IN  /\ buf' = d.rest /\ pending' = d.items
            /\ heard' = heard \o SubSeq(feed, 1, n)
            /\ feed' = SubSeq(feed, n + 1, Len(feed))
  BY Zenon DEF TakeChunk
<1>3. /\ pending = <<>> /\ link \in {"open", "ended"} /\ binding' = binding /\ link' = link
      /\ written' = written /\ yielded' = yielded
  BY DEF TakeChunk
<1>4. link # "closed" /\ link' # "closed" /\ link' # "failing"
  BY <1>3
<1> DEFINE c == SubSeq(feed, 1, n) r == SubSeq(feed, n + 1, Len(feed)) d == DrainAll(buf \o c)
<1>5. c \in Seq(Token) /\ r \in Seq(Token) /\ feed = c \o r
  <2>1. /\ SubSeq(feed, 1, n) \in Seq(Token) /\ SubSeq(feed, n + 1, Len(feed)) \in Seq(Token)
        /\ feed = SubSeq(feed, 1, n) \o SubSeq(feed, n + 1, Len(feed))
    BY <1>1, CutOnce
  <2> QED BY <2>1, Zenon
<1>6. buf' = d.rest /\ pending' = d.items /\ heard' = heard \o c /\ feed' = r
  BY <1>2, Zenon
<1> HIDE DEF c, r
<1>7. PICK z \in Seq(Token) : /\ link = "open" => z = <<>>
                              /\ Accounts(written.items, feed, z, buf, heard, yielded \o pending)
  BY <1>4, SseBefore, Zenon
<1>8. yielded \o pending = yielded
  BY <1>1, <1>3
<1>9. Accounts(written.items, c \o r, z, buf, heard, yielded)
  BY <1>5, <1>7, <1>8, Zenon
<1>10. /\ d.rest \in Seq(Token) /\ Boundaries(d.rest) = {} /\ d.items \in Seq(SseResult)
       /\ heard \o c \in Seq(Token)
       /\ Accounts(written.items, r, z, d.rest, heard \o c, yielded \o d.items)
  <2> DEFINE its == written.items e == d
  <2> HIDE DEF its, e
  <2>1. Numbers(its) /\ e = DrainAll(buf \o c) /\ Accounts(its, c \o r, z, buf, heard, yielded)
    BY <1>1, <1>9, Zenon DEF its, e
  <2>2. /\ e.rest \in Seq(Token) /\ Boundaries(e.rest) = {} /\ e.items \in Seq(SseResult)
        /\ heard \o c \in Seq(Token)
        /\ Accounts(its, r, z, e.rest, heard \o c, yielded \o e.items)
    BY <1>1, <1>5, <2>1, AccountOfChunk, Zenon
  <2> QED BY <2>2, Zenon DEF its, e
<1> HIDE DEF d
<1>11. SseTyped'
  <2>1. Boundaries(buf)' = {} /\ Numbers(written.items)'
    BY <1>1, <1>3, <1>6, <1>10 DEF Boundaries, Numbers
  <2>2. feed' \in Seq(Token) /\ buf' \in Seq(Token) /\ heard' \in Seq(Token) /\ pending' \in Seq(SseResult)
    BY <1>5, <1>6, <1>10, Zenon
  <2> QED BY <1>1, <1>3, <1>4, <2>1, <2>2 DEF SseTyped
<1>12. Accounts(written.items', feed', z, buf', heard', yielded' \o pending')
  BY <1>3, <1>6, <1>10, Zenon
<1> QED BY <1>3, <1>4, <1>7, <1>11, <1>12, SafeFrom, Zenon

LEMMA TakeErrorSafe == ASSUME SseSafe, TakeError PROVE SseSafe'
<1>1. /\ SseTyped /\ Numbers(written.items)
      /\ yielded \in Seq(SseResult) /\ yielded \o pending \in Seq(SseResult)
  BY SseBefore, Zenon
<1>2. /\ pending = <<>> /\ pending' = <<Garbled>> /\ link = "failing" /\ link' = "ended"
      /\ binding' = binding /\ written' = written /\ feed' = feed
      /\ buf' = buf /\ yielded' = yielded /\ heard' = heard
  BY DEF TakeError
<1>3. link # "closed" /\ link' # "closed" /\ link' # "open" /\ link' # "failing"
  BY <1>2
<1>4. SseTyped'
  <2>1. Boundaries(buf)' = {} /\ Numbers(written.items)'
    BY <1>1, <1>2 DEF SseTyped, Boundaries, Numbers
  <2>2. pending' \in Seq(SseResult)
    BY <1>2, ResultIs
  <2> QED BY <1>1, <1>2, <1>3, <2>1, <2>2 DEF SseTyped
<1>5. PICK z \in Seq(Token) : Accounts(written.items, feed, z, buf, heard, yielded \o pending)
  BY <1>3, SseBefore, Zenon
<1>6. yielded \o pending = yielded /\ yielded' \o pending' = Append(yielded, Garbled)
  BY <1>1, <1>2, ResultIs
<1>7. Accounts(written.items, feed, z, buf, heard, Append(yielded, Garbled))
  <2>1. Accounts(written.items, feed, z, buf, heard, yielded)
    BY <1>5, <1>6, Zenon
  <2> QED BY <1>1, <2>1, AccountOfError, Zenon
<1>8. Accounts(written.items', feed', z, buf', heard', yielded' \o pending')
  BY <1>2, <1>6, <1>7, Zenon
<1> QED BY <1>2, <1>3, <1>4, <1>8, SafeFrom, Zenon

LEMMA TakeEndSafe == ASSUME SseSafe, TakeEnd PROVE SseSafe'
<1>1. /\ SseTyped /\ binding \in {"JSONRPC", "HTTP+JSON"} /\ Numbers(written.items) /\ buf \in Seq(Token)
      /\ yielded \in Seq(SseResult) /\ Boundaries(buf) = {}
  BY SseBefore, Zenon
<1> DEFINE t == ParseStreamTail(buf)
<1>2. /\ pending = <<>> /\ feed = <<>> /\ link = "ended" /\ link' = "closed" /\ buf' = <<>>
      /\ yielded' = yielded \o t
      /\ binding' = binding /\ written' = written /\ feed' = feed /\ pending' = pending /\ heard' = heard
  BY DEF TakeEnd
<1>3. link # "closed" /\ link' # "failing"
  BY <1>2
<1>4. PICK z \in Seq(Token) : Accounts(written.items, feed, z, buf, heard, yielded \o pending)
  BY <1>3, SseBefore, Zenon
<1>5. yielded \o pending = yielded
  BY <1>1, <1>2
<1>6. Accounts(written.items, <<>>, z, buf, heard, yielded)
  BY <1>2, <1>4, <1>5, Zenon
<1>7. yielded \o t \in Seq(SseResult) /\ FaithfulOf(written.items, yielded \o t, heard, "closed", yielded \o t)
  BY <1>1, <1>6, AccountOfEnd, Zenon
<1> HIDE DEF t
<1>8. yielded' \o pending' = yielded'
  BY <1>2, <1>7
<1>9. FaithfulOf(written.items', yielded' \o pending', heard', link', yielded')
  BY <1>2, <1>7, <1>8, Zenon
<1>10. SseTyped'
  <2>1. Boundaries(buf)' = {} /\ Numbers(written.items)'
    BY <1>1, <1>2 DEF SseTyped, Boundaries, Numbers
  <2>2. buf' \in Seq(Token) /\ yielded' \in Seq(SseResult)
    BY <1>2, <1>7
  <2> QED BY <1>1, <1>2, <1>3, <2>1, <2>2 DEF SseTyped
<1> QED BY <1>2, <1>9, <1>10, FaithfulIs, Zenon DEF SseSafe

LEMMA YieldSafe == ASSUME SseSafe, Yield PROVE SseSafe'
<1>1. /\ SseTyped /\ Numbers(written.items)
      /\ yielded \in Seq(SseResult) /\ pending \in Seq(SseResult)
  BY SseBefore, Zenon
<1>2. /\ pending # <<>> /\ pending' = Tail(pending) /\ yielded' = Append(yielded, Head(pending))
      /\ binding' = binding /\ written' = written /\ feed' = feed
      /\ buf' = buf /\ link' = link /\ heard' = heard
  BY DEF Yield
<1>3. link # "closed"
  BY <1>1, <1>2 DEF SseTyped
<1>4. /\ Tail(pending) \in Seq(SseResult) /\ Append(yielded, Head(pending)) \in Seq(SseResult)
      /\ Append(yielded, Head(pending)) \o Tail(pending) = yielded \o pending
  BY <1>1, <1>2
<1>5. SseTyped'
  <2>1. Boundaries(buf)' = {} /\ Numbers(written.items)'
    BY <1>1, <1>2 DEF SseTyped, Boundaries, Numbers
  <2> QED BY <1>1, <1>2, <1>3, <1>4, <2>1 DEF SseTyped
<1>6. PICK z \in Seq(Token) : /\ link = "open" => z = <<>>
                              /\ Accounts(written.items, feed, z, buf, heard, yielded \o pending)
  BY <1>3, SseBefore, Zenon
<1>7. yielded' \o pending' = yielded \o pending
  BY <1>2, <1>4, Zenon
<1>8. Accounts(written.items', feed', z, buf', heard', yielded' \o pending')
  BY <1>2, <1>6, <1>7, Zenon
<1> QED BY <1>2, <1>3, <1>5, <1>6, <1>8, SafeFrom, Zenon

LEMMA SafeIsFaithful == SseSafe => StreamFaithful
<1> SUFFICES ASSUME SseSafe PROVE StreamFaithful
  OBVIOUS
<1>1. CASE link = "closed"
  BY <1>1, Zenon DEF SseSafe
<1>2. CASE link # "closed"
  <2>1. /\ binding \in {"JSONRPC", "HTTP+JSON"} /\ Numbers(written.items)
        /\ feed \in Seq(Token) /\ buf \in Seq(Token) /\ yielded \o pending \in Seq(SseResult)
        /\ Boundaries(buf) = {}
    BY SseBefore, Zenon
  <2>2. PICK z \in Seq(Token) : Accounts(written.items, feed, z, buf, heard, yielded \o pending)
    BY <1>2, SseBefore, Zenon
  <2>3. FaithfulOf(written.items, yielded \o pending, heard, link, yielded)
    BY <1>2, <2>1, <2>2, AccountIsFaithful, Zenon
  <2> QED BY <2>3, FaithfulIs, Zenon
<1> QED BY <1>1, <1>2, Zenon

(* However the body is cut into chunks and wherever the connection fails,  *)
(* the caller of a stream gets the items the server wrote, unchanged, from *)
(* the first on without a gap, in their order, each once, and none that    *)
(* did not arrive whole (parse_sse_bytes, parse_stream_tail).              *)
THEOREM StreamsAreFaithful == SseSpec => []StreamFaithful
<1>1. ASSUME SseSafe, [SseNext]_sseVars PROVE SseSafe'
  <2>1. CASE WriteItem
    BY <1>1, <2>1, WriteItemSafe
  <2>2. CASE KeepAlive
    BY <1>1, <2>2, KeepAliveSafe
  <2>3. CASE EndResponse
    BY <1>1, <2>3, EndResponseSafe
  <2>4. CASE LoseConnection
    BY <1>1, <2>4, LoseConnectionSafe
  <2>5. CASE TakeChunk
    BY <1>1, <2>5, TakeChunkSafe
  <2>6. CASE TakeError
    BY <1>1, <2>6, TakeErrorSafe
  <2>7. CASE TakeEnd
    BY <1>1, <2>7, TakeEndSafe
  <2>8. CASE Yield
    BY <1>1, <2>8, YieldSafe
  <2>9. CASE UNCHANGED sseVars
    <3>1. /\ binding' = binding /\ written' = written /\ feed' = feed /\ link' = link
          /\ buf' = buf /\ pending' = pending /\ yielded' = yielded /\ heard' = heard
      BY <2>9 DEF sseVars
    <3>2. SseTyped'
      BY <1>1, <3>1 DEF SseSafe, SseTyped, Boundaries, Numbers
    <3>3. CASE link = "closed"
      <4>1. FaithfulOf(written.items, yielded \o pending, heard, link, yielded)
        BY <1>1, <3>3, FaithfulIs, Zenon DEF SseSafe
      <4>2. StreamFaithful'
        BY <3>1, <4>1, FaithfulIs, Zenon
      <4> QED BY <3>1, <3>2, <3>3, <4>2, Zenon DEF SseSafe
    <3>4. CASE link # "closed"
      <4>1. PICK z \in Seq(Token) : /\ link = "open" => z = <<>>
                                    /\ Accounts(written.items, feed, z, buf, heard, yielded \o pending)
        BY <1>1, <3>4, SseBefore, Zenon
      <4>2. Accounts(written.items', feed', z, buf', heard', yielded' \o pending')
        BY <3>1, <4>1, Zenon
      <4> QED BY <3>1, <3>2, <3>4, <4>1, <4>2, SafeFrom, Zenon
    <3> QED BY <3>3, <3>4, Zenon
  <2> QED BY <1>1, <2>1, <2>2, <2>3, <2>4, <2>5, <2>6, <2>7, <2>8, <2>9 DEF SseNext
<1> QED BY <1>1, SseStarts, SafeIsFaithful, PTL DEF SseSpec

=============================================================================
