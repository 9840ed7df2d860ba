------------------------------ MODULE JobQueue ------------------------------
(***************************************************************************)
(* What the job table promises its clients, without its implementation: a  *)
(* bounded admission of jobs, a life cycle per job that only moves along   *)
(* TRANSITION_TABLE, retries that are new jobs linked to a failed or       *)
(* cancelled one, and running slots that are refilled from the queue when  *)
(* they are freed.  Nothing is ever forgotten: a job that was admitted     *)
(* stays known, across restarts too.                                       *)
(***************************************************************************)
EXTENDS Naturals, FiniteSets, TrainingStates

CONSTANTS JobIds, QueueLimit, MaxRunning, None

VARIABLES
  state,    \* the status of every job id, "absent" before its admission
  origin    \* the job a job retries, or None

queueVars == <<state, origin>>

Jobs(s) == {j \in JobIds : state[j] \in s}

Running(f) == {j \in JobIds : f[j] = "running"}

Init ==
  /\ state = [j \in JobIds |-> "absent"]
  /\ origin = [j \in JobIds |-> None]

\* A job enters the queue, as a retry of o when o is a job.
Admit(j, o) ==
  /\ state[j] = "absent"
  /\ Cardinality(Jobs(ActiveStatus)) < QueueLimit
  /\ o # None => state[o] \in {"failed", "cancelled"}
  /\ state' = [state EXCEPT ![j] = "queued"]
  /\ origin' = [origin EXCEPT ![j] = o]

\* A job moves on without leaving a running slot.
Advance(j, s) ==
  /\ state[j] \in Status \ {"running"}
  /\ s \in TransitionTable[state[j]]
  /\ state' = [state EXCEPT ![j] = s]
  /\ UNCHANGED origin

\* A job leaves its running slot and queued jobs start, never more than fit,
\* and none is left queued while a slot is free.
Finish(j, s) ==
  /\ state[j] = "running"
  /\ s \in TransitionTable["running"]
  /\ \E started \in SUBSET Jobs({"queued"}) :
       /\ state' = [i \in JobIds |-> IF i = j THEN s
                                     ELSE IF i \in started THEN "running" ELSE state[i]]
       /\ started # {} => Cardinality(Running(state')) <= MaxRunning
       /\ started # Jobs({"queued"}) => Cardinality(Running(state')) >= MaxRunning
  /\ UNCHANGED origin

\* The artifacts of succeeded jobs expire together.
Retire(js) ==
  /\ js \subseteq Jobs({"succeeded"})
  /\ state' = [j \in JobIds |-> IF j \in js THEN "deleted" ELSE state[j]]
  /\ UNCHANGED origin

Next ==
  \/ \E j \in JobIds, o \in JobIds \cup {None} : Admit(j, o)
  \/ \E j \in JobIds, s \in Status : Advance(j, s) \/ Finish(j, s)
  \/ \E js \in SUBSET JobIds : Retire(js)

Spec == Init /\ [][Next]_queueVars
=============================================================================
