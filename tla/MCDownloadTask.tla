--------------------------- MODULE MCDownloadTask ---------------------------
(* Instances of DownloadTask for TLC; the .cfg files give the constants.   *)
EXTENDS DownloadTask, TLC

\* Slots differ in nothing but their name.
SlotSymmetry == Permutations(Slots)
=============================================================================
