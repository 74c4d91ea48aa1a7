---------------------------- MODULE MCServerState ----------------------------
(***************************************************************************)
(* The two pieces of state requests meet at, each behind a lock of its     *)
(* own: the store, with a walk over its pages, and one running execution,  *)
(* with the subscriptions that join it.  They share nothing here: a        *)
(* behaviour follows one of them, its focus (RequestHandler composes       *)
(* them).                                                                  *)
(***************************************************************************)
EXTENDS TaskListing, ActiveExecution

MCPageSizes == {0, 5}

(* Everything, and the running tasks of one context.                       *)
MCFilters == {[content |-> NoFilter, state |-> NoFilter]}
             \union [content : Contents, state : {"Working"}]

(* What an executor's stream can publish, one of each kind the             *)
(* subscriptions tell apart.                                               *)
MCEvents == {Status("Working"), Status("Completed"), Message, Error}

VARIABLE focus

stateVars == <<focus, listVars, execVars>>

StateInit == focus \in {"store", "execution"} /\ ListInit /\ ExecInit

StoreFocus == focus = "store" /\ ListNext /\ UNCHANGED <<focus, execVars>>

ExecFocus(A) == focus = "execution" /\ A /\ UNCHANGED <<focus, listVars>>

StateNext == StoreFocus \/ ExecFocus(ExecNext)

(* ExecFairness, of the behaviours that follow the execution.              *)
StateFairness ==
  /\ \A p \in Publishers : /\ WF_stateVars(ExecFocus(PublishSend(p)))
                           /\ WF_stateVars(ExecFocus(Release(p)))
  /\ \A u \in Subscribers :
       /\ WF_stateVars(ExecFocus(SubscribeSnapshot(u)))
       /\ WF_stateVars(ExecFocus(Deliver(u) \/ Skip(u) \/ End(u)))

StateSpec == StateInit /\ [][StateNext]_stateVars /\ StateFairness

=============================================================================
