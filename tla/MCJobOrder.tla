----------------------------- MODULE MCJobOrder -----------------------------
(***************************************************************************)
(* A small instance of JobOrder for life cycles, with four requests that   *)
(* compete for a quota of three and one running slot.                      *)
(***************************************************************************)
EXTENDS JobOrder, TLC

CONSTANTS r1, r2, r3, r4

\* The order of creation is not that of the ids.
MCJobOf == r1 :> 1 @@ r2 :> 4 @@ r3 :> 2 @@ r4 :> 3

\* A retry takes the id of another request, if that is still unknown; 3 can be a
\* retry of 1, 2 or 4, and 2 a retry of 3.
MCRetryId == << <<3>>, <<3>>, <<2>>, <<3>> >>

\* Every request trains with one configuration.
MCConfigOf == [r \in Requests |-> "config"]
=============================================================================
