------------------------- MODULE MCArtifactDownload --------------------------
(***************************************************************************)
(* Small instances of ArtifactDownload.                                    *)
(***************************************************************************)
EXTENDS ArtifactDownload, TLC

CONSTANTS u1, u2

MCUploaders == {u1, u2}

\* The second artifact was registered, and expires, one tick after the first.
MCExpiresAt == <<2, 3>>

UploaderSymmetry == Permutations(MCUploaders)
=============================================================================
