---------------------------- MODULE TaskStates ----------------------------
(***************************************************************************)
(* The lifecycle states of an A2A task (a2a/src/types.rs, TaskState) and   *)
(* the terminal ones, in which no further change is permitted.             *)
(***************************************************************************)

TerminalStates == {"Completed", "Failed", "Canceled", "Rejected"}

LiveStates == {"Unspecified", "Submitted", "Working", "InputRequired",
               "AuthRequired"}

TaskState == LiveStates \union TerminalStates

IsTerminal(s) == s \in TerminalStates

=============================================================================
