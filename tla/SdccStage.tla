------------------------------ MODULE SdccStage ------------------------------
(***************************************************************************)
(* stage_toolchain: the vendored SDCC copied to /tmp, where it can be made *)
(* executable, on the first request that needs it.  /tmp outlives the      *)
(* server process, which may die between any two file operations, and may  *)
(* hold what an older bundle left there: the same programs, with library   *)
(* files that have changed or were not shipped yet.                        *)
(***************************************************************************)
EXTENDS Integers, FiniteSets

CONSTANTS
    Programs,  \* files of bin/
    Library,   \* files of share/
    Changed    \* those of them that differ from an older bundle's

Sdcc == "sdcc" \* STAGE_BIN_SENTINEL
Crt0 == "crt0" \* STAGE_SHARE_SENTINEL

None == "none"

\* The crt0 is "the newest thing in the bundle": an older bundle lacks it.
ASSUME StageAssumption ==
    /\ Sdcc \in Programs /\ Crt0 \in Library /\ None \notin Programs \cup Library
    /\ Changed \subseteq Library /\ (Changed # {} => Crt0 \in Changed)

States == {"absent", "torn", "old", "plain", "exec"}

VARIABLES
    binDir,  \* STAGE_BIN exists
    bin,     \* its files: "absent", "torn" (half copied), "plain" or "exec"
    share,   \* STAGE_SHARE's files: "absent", "torn", "old" or "plain"
    step,    \* where in stage_toolchain
    todo,    \* files the loop it is in has left
    open,    \* the file being copied, or None
    binOk, shareOk, \* what the first lines found
    probe    \* _EXEC_PROBE of sdcc: "unknown", "yes" or "no"

stageDisk == <<binDir, bin, share>>
stageProc == <<step, todo, open, binOk, shareOk, probe>>
stageVars == <<stageDisk, stageProc>>

There(tree) == {f \in DOMAIN tree : tree[f] # "absent"}

\* what an older bundle, without the crt0, may have left
OldShares == {[f \in Library |-> IF f \notin Changed THEN "plain"
                                 ELSE IF f = Crt0 \/ f \in missing THEN "absent" ELSE "old"]
                : missing \in SUBSET Changed}

StageInit ==
    /\ \/ /\ binDir = FALSE /\ bin = [f \in Programs |-> "absent"]
          /\ share = [f \in Library |-> "absent"]
       \/ /\ binDir = TRUE /\ bin = [f \in Programs |-> "exec"]
          /\ share \in OldShares
    /\ step = "idle" /\ todo = {} /\ open = None
    /\ binOk = FALSE /\ shareOk = FALSE /\ probe = "unknown"

At(s, next) == step = s /\ step' = next /\ open = None

\* The steps after the first check: wipe a bin/ without sdcc, copy bin/ if
\* there is none, overlay share/ unless it is fresh, set the executable bits.
AfterCheck(bo) == IF binDir /\ ~bo THEN "wipe" ELSE "mkdir"

\* bin_ok, share_ok and the early return
Check ==
    /\ step = "check" /\ open = None
    /\ binOk' = (binDir /\ bin[Sdcc] # "absent") /\ shareOk' = (share[Crt0] # "absent")
    /\ IF binOk' /\ shareOk' THEN step' = "staged" /\ todo' = {}
       ELSE step' = AfterCheck(binOk') /\ todo' = There(bin)
    /\ UNCHANGED <<stageDisk, open, probe>>

\* shutil.rmtree(STAGE_BIN), a file at a time
Wipe ==
    /\ step = "wipe"
    /\ IF todo # {}
         THEN \E f \in todo :
                /\ bin' = [bin EXCEPT ![f] = "absent"] /\ todo' = todo \ {f}
                /\ UNCHANGED <<step, binDir>>
         ELSE binDir' = FALSE /\ step' = "mkdir" /\ UNCHANGED <<bin, todo>>
    /\ UNCHANGED <<share, open, binOk, shareOk, probe>>

\* copytree creates STAGE_BIN; one that exists is left alone
MakeBin ==
    /\ At("mkdir", "copybin")
    /\ todo' = (IF binDir THEN {} ELSE Programs)
    /\ binDir' = TRUE
    /\ UNCHANGED <<bin, share, open, binOk, shareOk, probe>>

\* A copied file is there, half written, before it is whole.
CopyBin ==
    /\ step = "copybin"
    /\ \/ \E f \in todo :
            /\ open = None /\ open' = f
            /\ bin' = [bin EXCEPT ![f] = "torn"]
            /\ UNCHANGED <<step, todo>>
       \/ /\ open # None /\ open' = None
          /\ bin' = [bin EXCEPT ![open] = "plain"] /\ todo' = todo \ {open}
          /\ UNCHANGED step
       \/ /\ todo = {} /\ step' = "copyshare"
          /\ todo' = (IF shareOk THEN {} ELSE Library)
          /\ UNCHANGED <<bin, open>>
    /\ UNCHANGED <<binDir, share, binOk, shareOk, probe>>

\* mutant: files that are there are not copied again
CopyShareMissingOnly ==
    /\ step = "copyshare"
    /\ \/ \E f \in todo :
            /\ open = None /\ open' = f /\ share[f] = "absent"
            /\ share' = [share EXCEPT ![f] = "torn"]
            /\ UNCHANGED <<step, todo>>
       \/ /\ open # None /\ open' = None
          /\ share' = [share EXCEPT ![open] = "plain"] /\ todo' = todo \ {open}
          /\ UNCHANGED step
       \/ /\ \A f \in todo : share[f] # "absent"
          /\ open = None /\ step' = "chmod" /\ todo' = There(bin)
          /\ UNCHANGED <<share, open>>
    /\ UNCHANGED <<binDir, bin, binOk, shareOk, probe>>

\* dirs_exist_ok: files that are there are overwritten
CopyShare ==
    /\ step = "copyshare"
    /\ \/ \E f \in todo :
            /\ open = None /\ open' = f
            /\ share' = [share EXCEPT ![f] = "torn"]
            /\ UNCHANGED <<step, todo>>
       \/ /\ open # None /\ open' = None
          /\ share' = [share EXCEPT ![open] = "plain"] /\ todo' = todo \ {open}
          /\ UNCHANGED step
       \/ /\ todo = {} /\ step' = "chmod" /\ todo' = There(bin)
          /\ UNCHANGED <<share, open>>
    /\ UNCHANGED <<binDir, bin, binOk, shareOk, probe>>

\* a half copied file gets its bits like any other
Chmod ==
    /\ step = "chmod"
    /\ \/ \E f \in todo :
            /\ bin' = [bin EXCEPT ![f] = IF @ = "plain" THEN "exec" ELSE @]
            /\ todo' = todo \ {f} /\ UNCHANGED step
       \/ todo = {} /\ step' = "staged" /\ UNCHANGED <<bin, todo>>
    /\ UNCHANGED <<binDir, share, open, binOk, shareOk, probe>>

\* sdcc_bin_dir: whether sdcc can be executed is asked once per process.  A
\* half copied one may be refused by the kernel or be started and die.
Probe ==
    /\ At("staged", "ready")
    /\ IF probe # "unknown" THEN UNCHANGED probe
       ELSE probe' \in CASE bin[Sdcc] = "exec" -> {"yes"}
                         [] bin[Sdcc] = "torn" -> {"yes", "no"}
                         [] OTHER -> {"no"}
    /\ UNCHANGED <<stageDisk, todo, open, binOk, shareOk>>

StageStep == Check \/ Wipe \/ MakeBin \/ CopyBin \/ CopyShare \/ Chmod \/ Probe

\* the process ends, between two file operations or inside one
StageForgets ==
    /\ step' = "idle" /\ todo' = {} /\ open' = None
    /\ binOk' = FALSE /\ shareOk' = FALSE /\ probe' = "unknown"
    /\ UNCHANGED stageDisk

-----------------------------------------------------------------------------

Complete ==
    /\ \A f \in Programs : bin[f] = "exec"
    /\ \A f \in Library : share[f] = "plain"
=============================================================================
