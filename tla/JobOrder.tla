------------------------------ MODULE JobOrder ------------------------------
(***************************************************************************)
(* JobStore with a history of the restarts, which the order of promotion   *)
(* depends on: _save() sorts the records by id, so that a process finds    *)
(* those of its predecessor in another order than that of their creation.  *)
(***************************************************************************)
EXTENDS JobStore

VARIABLE loaded  \* history: the jobs that this process has read from the file

orderVars == <<storeVars, loaded>>

OrderInit == Init /\ loaded = {}

OrderNext ==
  \/ Serve /\ UNCHANGED loaded
  \/ Restart /\ loaded' = Present(disk)

OrderSpec == OrderInit /\ [][OrderNext]_orderVars

-----------------------------------------------------------------------------
\* FIFO serial execution (_promote_queued_locked): the end of a job promotes a
\* queued one only when none that was created earlier is left waiting.  Jobs
\* read from the file wait in the order of their ids, but before all others.
PromotionIsFifo ==
  [][\A j, q \in JobIds :
       /\ jobs[j].status = "queued" /\ jobs'[j].status = "running"
       /\ \E i \in JobIds : jobs[i].status = "running" /\ jobs'[i].status # "running"
       /\ jobs[q].status = "queued" /\ jobs'[q].status = "queued"
       /\ ~({j, q} \subseteq loaded)
       => jobs[j].createdAt < jobs[q].createdAt]_orderVars
=============================================================================
