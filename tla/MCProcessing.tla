---------------------------- MODULE MCProcessing ----------------------------
(* Instances of Processing for TLC: the processes are the controller and     *)
(* one or two commands; commands are interchangeable.                        *)
EXTENDS Processing, TLC

CONSTANTS controller, c1, c2, o1, o2, none

OneCommand  == {controller, c1}
TwoCommands == {controller, c1, c2}

CommandSymmetry == Permutations(Cli)

(* Observations that are not treated differently are interchangeable too.   *)
BothSymmetry == CommandSymmetry \cup Permutations(Obs)
=============================================================================
