-------------------------- MODULE MCPackageIngest ---------------------------
(***************************************************************************)
(* Small instances of PackageIngest: up to three ingests of one dataset    *)
(* and a training run, all named by model values.                          *)
(***************************************************************************)
EXTENDS PackageIngest

CONSTANTS i1, i2, i3, t1
=============================================================================
