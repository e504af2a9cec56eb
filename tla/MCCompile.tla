----------------------------- MODULE MCCompile -----------------------------
(***************************************************************************)
(* The two halves of a compilation: a pseudocode program is read, printed  *)
(* and read again (MCPseudocode), and a program is built by one chain of   *)
(* tools (MCBuilds).  One half is chosen at the start; the other stays as  *)
(* it begins.                                                              *)
(***************************************************************************)
EXTENDS MCPseudocode, MCBuilds

VARIABLES half

compileVars == <<half, mcVars, mcBuildsVars>>
notFront == <<half, mcBuildsVars>>
notBack == <<half, mcVars>>

FrontStill == side = "declarations" /\ board = (CHOOSE b \in MCBoards : TRUE) /\ prints = "nowhere"
BackStill == route = "arduino" /\ sketch = [r \in Requests |-> <<"core">>]

CompileInit ==
    \/ half = "front" /\ BackStill /\ MCBuildsInit /\ MCInit
    \/ half = "back" /\ FrontStill /\ MCInit /\ MCBuildsInit

CompileNext ==
    \/ half = "front" /\ MCNext /\ UNCHANGED notFront
    \/ half = "back" /\ MCBuildsNext /\ UNCHANGED notBack

CompileSpec ==
    /\ CompileInit /\ [][CompileNext]_compileVars
    /\ \A r \in Requests :
           WF_compileVars(half = "back" /\ route = "arduino" /\ Step(r) /\ UNCHANGED notArduino
                          /\ UNCHANGED notBack)
=============================================================================
