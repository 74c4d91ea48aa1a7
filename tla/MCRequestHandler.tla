-------------------------- MODULE MCRequestHandler --------------------------
(* RequestHandler for TLC: the streams executors yield, one item of each   *)
(* kind the handler treats differently.                                    *)
EXTENDS RequestHandler

(* A turn: progress, an interrupted end, an end, and an executor's error.  *)
TurnItems == {Status("Working"), Status("Completed"), Error}

(* Every other kind of item: a question, a demand for credentials, whole   *)
(* task snapshots, artifacts, messages.                                    *)
AllItems == {Status("Working"), Status("InputRequired"), Status("AuthRequired"),
             Snapshot("Working"), Snapshot("Completed"), Artifact, Append0,
             Message, Error}

(* Items that are never an error: only a refused save fails the turn.      *)
PlainItems == {Status("Working"), Status("Completed")}

QuestionItems == {Status("InputRequired"), Status("Completed")}

CancelStray == {Status("Working"), Status("Canceled")}

CancelArtifact == {Artifact, Status("Canceled")}

(* What a well-behaved cancel emits, besides nothing at all.               *)
CancelEnds == {Status("Canceled"), Error}

(* ... and one that goes on before it ends.                                *)
CancelItemsAll == {Artifact, Status("Canceled"), Error}

=============================================================================
