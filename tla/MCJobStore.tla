----------------------------- MODULE MCJobStore -----------------------------
(***************************************************************************)
(* A small instance of JobStore for deletions: ids 2, 1 of two requests,   *)
(* so that the order of creation is not that of the ids.                   *)
(***************************************************************************)
EXTENDS JobStore, TLC

CONSTANTS r1, r2

MCJobOf == r1 :> 2 @@ r2 :> 1

\* The retry of one job takes the id of the other, if that is still unknown.
MCRetryId == << <<2>>, <<1>> >>

\* Every request trains with one configuration.
MCConfigOf == [r \in Requests |-> "config"]
=============================================================================
