------------------------- MODULE MCTrainingService --------------------------
(***************************************************************************)
(* Small instances of TrainingService.                                     *)
(***************************************************************************)
EXTENDS TrainingService, TLC

CONSTANTS r1, r2

\* Two requests, with ids 1 and 2; the retry of job 1 would be job 2, and the
\* other way round, so that a retry finds a free id when only one was posted.
MCRequests == {r1, r2}

MCJobOf == r1 :> 1 @@ r2 :> 2

MCRetryId == << <<2>>, <<1>> >>

\* A third id, for the retry of job 1 or 2.
ThreeRetryId == << <<3>>, <<3>>, <<3>> >>

\* Job 1 and its retry 3 train on the GPU, job 2 on the fake worker, without a
\* retry.
MixedRetryId == << <<3>>, <<2>>, <<1>> >>

MCConfigOf == [r \in Requests |-> "config"]
=============================================================================
