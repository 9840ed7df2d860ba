-------------------------- MODULE MCDatasetReview ---------------------------
(***************************************************************************)
(* A small instance of DatasetReview: an own dataset next to a fixture,    *)
(* and row counts below, at and above the bounds.                          *)
(***************************************************************************)
EXTENDS DatasetReview

CONSTANTS own1, own2, fixture
=============================================================================
