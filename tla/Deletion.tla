------------------------------ MODULE Deletion ------------------------------
(***************************************************************************)
(* The removal of raw visibilities (src/sdpctl/storage.py): the two        *)
(* multi-step routines that take an observation's Measurement Set off the  *)
(* disk and record it in the database.  Both are run by operating-system   *)
(* processes that do not exclude each other -- a command of the operator's *)
(* command line, the controller's startup recovery -- so each file-system  *)
(* call and each transaction is a step of its own.  rename and rmtree are  *)
(* seen as single steps; a call that raises (the path vanished under it,   *)
(* or the operating system refused) ends the routine, which Abandon is.    *)
(***************************************************************************)
EXTENDS Store

CONSTANTS
    Procs,      \* the processes that may be inside a routine
    None        \* no run: the target of a process that is not in a routine

ASSUME NoneAssumption == None \notin RunIds

VARIABLES
    raw,        \* raw[o]: where the MS of o exists, of {"live", "trash"}
    step,       \* step[p]: the next step of process p, "idle" outside routines
    target      \* target[p]: the run p works on; its observation is target[p][1]

Places == {"live", "trash"}

FinishSteps == {"rename", "remove", "mark"}
DropSteps   == {"dropLive", "dropTrash", "dropMark"}

(* Mutant: forgets which row is worked on.                                  *)
Become_Untargeted(p, s, r) ==
    /\ step' = [step EXCEPT ![p] = s]
    /\ UNCHANGED target

Become(p, s, r) ==
    /\ step' = [step EXCEPT ![p] = s]
    /\ target' = [target EXCEPT ![p] = r]

Continue(p, s) == Become(p, s, target[p])

Leave(p) == Become(p, "idle", None)

-----------------------------------------------------------------------------
(* finish_observation_deletion: rename the live MS to its trash path, remove *)
(* the trash copy, mark the row DELETED.  A live MS next to a trash copy is  *)
(* refused; then, as when the row is not DELETING, only Abandon is possible. *)

(* Mutants: only what this process renamed is removed; a deletion found     *)
(* behind the rename is refused.                                            *)
FinishRename_OwnTrashOnly(p) ==
    LET o == target[p][1] IN
    /\ step[p] = "rename"
    /\ observations[o].state = "DELETING"
    /\ raw' = [raw EXCEPT ![o] = IF "live" \in @ THEN {"trash"} ELSE @]
    /\ Continue(p, IF "live" \in raw[o] THEN "remove" ELSE "mark")
    /\ UNCHANGED dbVars

FinishRename_LiveOnly(p) ==
    LET o == target[p][1] IN
    /\ step[p] = "rename"
    /\ observations[o].state = "DELETING"
    /\ "live" \in raw[o]
    /\ raw' = [raw EXCEPT ![o] = {"trash"}]
    /\ Continue(p, "remove")
    /\ UNCHANGED dbVars

FinishRename(p) ==
    LET o == target[p][1] IN
    /\ step[p] = "rename"
    /\ observations[o].state = "DELETING"
    /\ "live" \in raw[o] => "trash" \notin raw[o]
    /\ raw' = [raw EXCEPT ![o] = IF "live" \in @ THEN {"trash"} ELSE @]
    /\ Continue(p, "remove")
    /\ UNCHANGED dbVars

FinishRemove(p) ==
    LET o == target[p][1] IN
    /\ step[p] = "remove"
    /\ raw' = [raw EXCEPT ![o] = @ \ {"trash"}]
    /\ Continue(p, "mark")
    /\ UNCHANGED dbVars

FinishMark(p) ==
    /\ step[p] = "mark"
    /\ TransitionObservation(target[p][1], "DELETING", "DELETED", 0, 0)
    /\ Leave(p)
    /\ UNCHANGED raw

-----------------------------------------------------------------------------
(* force_drop_observation_data, behind `resolve --drop`: remove the live MS, *)
(* then the trash copy, then mark the row DELETED.  The state read first is  *)
(* the expected state of the last step; it can only have become DELETED.     *)

(* Mutant: drops STORED data too.                                           *)
BeginDrop_AnyState(p, o) ==
    /\ step[p] = "idle"
    /\ observations[o].state \in {"STORED", "DELETING", "INCONSISTENT"}
    /\ Become(p, "dropLive", <<o, 1>>)
    /\ UNCHANGED <<dbVars, raw>>

BeginDrop(p, o) ==
    /\ step[p] = "idle"
    /\ observations[o].state \in {"DELETING", "INCONSISTENT"}
    /\ Become(p, "dropLive", <<o, 1>>)
    /\ UNCHANGED <<dbVars, raw>>

DropLive(p) ==
    /\ step[p] = "dropLive"
    /\ raw' = [raw EXCEPT ![target[p][1]] = @ \ {"live"}]
    /\ Continue(p, "dropTrash")
    /\ UNCHANGED dbVars

DropTrash(p) ==
    /\ step[p] = "dropTrash"
    /\ raw' = [raw EXCEPT ![target[p][1]] = @ \ {"trash"}]
    /\ Continue(p, "dropMark")
    /\ UNCHANGED dbVars

DropMark(p) ==
    LET o == target[p][1] IN
    /\ step[p] = "dropMark"
    /\ \/ TransitionObservation(o, "DELETING", "DELETED", 0, 0)
       \/ TransitionObservation(o, "INCONSISTENT", "DELETED", 0, 0)
    /\ Leave(p)
    /\ UNCHANGED raw

-----------------------------------------------------------------------------
(* A step of p raised, or p was killed: what it did so far stays done. *)
Abandon(p) ==
    /\ step[p] # "idle"
    /\ Leave(p)
    /\ UNCHANGED <<dbVars, raw>>

FinishStep(p) == FinishRename(p) \/ FinishRemove(p) \/ FinishMark(p)

DropStep(p) == DropLive(p) \/ DropTrash(p) \/ DropMark(p)
=============================================================================
