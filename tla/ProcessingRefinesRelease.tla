---------------------- MODULE ProcessingRefinesRelease ----------------------
(***************************************************************************)
(* Processing implements RawRelease: the data of an observation is present *)
(* while a copy is on disk, at its live or at its trash path, and its      *)
(* verdict is the state of the run that was accepted or discarded.         *)
(***************************************************************************)
EXTENDS Processing

DataOf(o) ==
    IF raw[o] # {} THEN "present"
    ELSE IF observations[o].state = "ABSENT" THEN "absent"
    ELSE IF o \in lost THEN "lost" ELSE "gone"

VerdictOf(o) ==
    IF \E r \in RunsOf(o) : runs[r].state = "ACCEPTED" THEN "accept"
    ELSE IF \E r \in RunsOf(o) : runs[r].state = "DISCARDED" THEN "discard"
    ELSE "none"

Release == INSTANCE RawRelease WITH
    Observations <- Obs,
    Perishable   <- Losable,
    data         <- [o \in Obs |-> DataOf(o)],
    verdict      <- [o \in Obs |-> VerdictOf(o)],
    reported     <- ObservationsIn({"DELETED"})

(* Every step of every process maps to a step of RawRelease or changes      *)
(* nothing there: data is removed only after a verdict, verdicts do not     *)
(* change, and DELETED is reported only of data that is gone -- with        *)
(* commands and recovery finishing the same deletion at the same time.      *)
ImplementsRawRelease == Release!Spec
=============================================================================
