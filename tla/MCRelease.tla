------------------------------ MODULE MCRelease ------------------------------
(* The instance of ProcessingRefinesRelease for TLC.                         *)
EXTENDS MCProcessing, ProcessingRefinesRelease
=============================================================================
