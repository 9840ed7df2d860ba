--------------------------- MODULE MCDurableStore ----------------------------
(***************************************************************************)
(* Small instances of DurableStore.                                        *)
(***************************************************************************)
EXTENDS DurableStore, TLC

CONSTANTS r1, r2

MCRequests == {r1, r2}

MCJobOf == r1 :> 2 @@ r2 :> 3

\* Job 2 can be retried once, as job 1; the other retries hash to ids that are
\* taken whenever they could be made.
MCRetryId == << <<1>>, <<1>>, <<3>> >>

MCConfigOf == [r \in Requests |-> "config"]
=============================================================================
