--------------------------- MODULE TrainingStates ---------------------------
(***************************************************************************)
(* The training-job state machine of state_machine.py: the six statuses of *)
(* TrainingJobStatus, the transition table, and the two functions the      *)
(* store applies it with.  An ApiError(409) raised by the code is a guard  *)
(* that is FALSE here.                                                     *)
(***************************************************************************)

ActiveStatus == {"queued", "running"}

SettledStatus == {"succeeded", "failed", "cancelled", "deleted"}

Status == ActiveStatus \cup SettledStatus

TransitionTable ==
  [ queued    |-> {"running", "failed", "cancelled"},
    running   |-> {"succeeded", "failed", "cancelled"},
    succeeded |-> {"deleted"},
    deleted   |-> {},
    failed    |-> {},
    cancelled |-> {} ]

\* transition(current, target) returns target instead of raising.
CanMove(current, target) == current = target \/ target \in TransitionTable[current]

\* Faulty variants of cancel(): a status the table does not know, and a cancel
\* that overwrites a settled job.
CancelMisspelled(current) == IF current \in SettledStatus THEN current ELSE "canceled"
CancelOverwrites(current) == IF current = "deleted" THEN current ELSE "cancelled"

\* retry() accepts the job; the faulty variant retries whatever has settled.
RetriesSettled(current) == current \in SettledStatus
Retryable(current) == current \in {"failed", "cancelled"}

\* cancel(current): the status a cancel request leaves the job in.
CancelStatus(current) == IF current \in SettledStatus THEN current ELSE "cancelled"
=============================================================================
