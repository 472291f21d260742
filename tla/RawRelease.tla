----------------------------- MODULE RawRelease -----------------------------
(***************************************************************************)
(* What the controller promises about the raw visibilities of an           *)
(* observation (README.md, ADR-001): they are kept until the operator      *)
(* gives a verdict, a verdict is given once, and the observation is        *)
(* reported DELETED only once the data is gone.  Processing implements     *)
(* this with a database, a rename, a removal and several processes.        *)
(***************************************************************************)
CONSTANTS
    Observations,
    Perishable      \* those whose data may be missing unasked

VARIABLES
    data,       \* data[o]: "absent", "present", "gone" or "lost"
    verdict,    \* verdict[o]: "none", "accept" or "discard"
    reported    \* the observations reported as deleted

releaseVars == <<data, verdict, reported>>

Init ==
    /\ data = [o \in Observations |-> "absent"]
    /\ verdict = [o \in Observations |-> "none"]
    /\ reported = {}

Keep(o) ==
    /\ data[o] = "absent"
    /\ \/ data' = [data EXCEPT ![o] = "present"]
       \/ o \in Perishable /\ data' = [data EXCEPT ![o] = "lost"]
    /\ UNCHANGED <<verdict, reported>>

Decide(o, v) ==
    /\ data[o] # "absent"
    /\ verdict[o] = "none"
    /\ o \notin reported
    /\ verdict' = [verdict EXCEPT ![o] = v]
    /\ UNCHANGED <<data, reported>>

Release(o) ==
    /\ data[o] = "present"
    /\ verdict[o] # "none"
    /\ data' = [data EXCEPT ![o] = "gone"]
    /\ UNCHANGED <<verdict, reported>>

Perish(o) ==
    /\ o \in Perishable
    /\ data[o] = "present"
    /\ verdict[o] = "none"
    /\ data' = [data EXCEPT ![o] = "lost"]
    /\ UNCHANGED <<verdict, reported>>

Report(o) ==
    /\ data[o] \in {"gone", "lost"}
    /\ o \notin reported
    /\ reported' = reported \cup {o}
    /\ UNCHANGED <<data, verdict>>

Next ==
    \E o \in Observations :
        \/ Keep(o)
        \/ \E v \in {"accept", "discard"} : Decide(o, v)
        \/ Release(o)
        \/ Perish(o)
        \/ Report(o)

Spec == Init /\ [][Next]_releaseVars
=============================================================================
