------------------------------- MODULE Loader -------------------------------
(***************************************************************************)
(* What loadKokiFiles (cmd/short.go) promises convertKokiModules: the      *)
(* sections of the files, one module for each, in the order of the command *)
(* line and of the file; or an error, or neither if the program dies.  How *)
(* files import each other is not visible here.                            *)
(***************************************************************************)
EXTENDS Integers, Sequences

VARIABLES
  wanted,     \* the sections of the files on the command line
  readable,   \* can all of these be read?
  loaded,     \* the sections loaded so far
  outcome     \* "running", "done" or "failed"

loaderVars == <<wanted, readable, loaded, outcome>>

Init ==
  /\ loaded = <<>>
  /\ outcome = "running"

\* The next section of the command line is the only one that can be loaded.
LoadNext ==
  /\ outcome = "running"
  /\ Len(loaded) < Len(wanted)
  /\ loaded' = Append(loaded, wanted[Len(loaded) + 1])
  /\ UNCHANGED <<wanted, readable, outcome>>

Succeed ==
  /\ outcome = "running"
  /\ readable
  /\ loaded = wanted
  /\ outcome' = "done"
  /\ UNCHANGED <<wanted, readable, loaded>>

Fail ==
  /\ outcome = "running"
  /\ outcome' = "failed"
  /\ UNCHANGED <<wanted, readable, loaded>>

Next == LoadNext \/ Succeed \/ Fail

Spec == Init /\ [][Next]_loaderVars
=============================================================================
