--------------------------- MODULE MCScanControl ---------------------------
(* Small instances of ScanControl for TLC. *)
EXTENDS ScanControl

CONSTANTS l1, s1, s2, c1

OneLibrary == {l1}
TwoScans == {s1, s2}
OneClient == {c1}
=============================================================================
