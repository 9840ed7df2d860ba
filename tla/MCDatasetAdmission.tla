------------------------- MODULE MCDatasetAdmission -------------------------
(***************************************************************************)
(* Small instances of DatasetAdmission: one request on an own dataset, one *)
(* on the fixture, and one id for retries.                                 *)
(***************************************************************************)
EXTENDS DatasetAdmission, TLC

CONSTANTS r1, r2, own, fixture

MCJobOf == r1 :> 1 @@ r2 :> 2

MCRetryId == << <<3>>, <<3>>, <<3>> >>

MCConfigOf == r1 :> "config" @@ r2 :> "config"

MCDatasetOf == r1 :> own @@ r2 :> fixture
=============================================================================
