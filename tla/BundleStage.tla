----------------------------- MODULE BundleStage -----------------------------
(***************************************************************************)
(* stage_avr, stage_arm, stage_riscv_gcc, stage_xtensa_gcc, stage_cc65: a  *)
(* vendored toolchain copied part by part to /tmp, its compressed programs *)
(* unpacked there, its programs made executable.  Only the AVR stage is    *)
(* stamped with the bundle it was made from, and only it is wiped when the *)
(* stamp is another one; the others take a stage that has its driver as it *)
(* is.  The process may die between any two steps, and /tmp may hold what  *)
(* an older bundle's process left, of any toolchain.                       *)
(***************************************************************************)
EXTENDS Integers, FiniteSets

CONSTANTS
    Bundles,  \* the toolchains: "avr" is the one that is stamped
    Parts,    \* top-level entries of a bundle
    Files,    \* files of a bundle
    PartOf,   \* [Files -> Parts]
    Driver,   \* the file whose presence means "staged": avr-gcc
    Packed,   \* files committed as .xz,
    Zipped,   \*   in these bundles
    Newer     \* files an older bundle has not, or has in another size

ASSUME BundleAssumption ==
    /\ PartOf \in [Files -> Parts] /\ Driver \in Files /\ Packed \subseteq Files
    /\ Newer \subseteq Files /\ "none" \notin Files \cup Parts

VARIABLES
    chain,   \* the toolchain the requests need
    dirs,    \* parts of the stage that exist
    file,    \* its files: "absent", "torn" (half copied), "old" or "new"
    xz,      \* the .xz beside them: "absent", "torn" or "new"
    bits,    \* files with the executable bit
    stamp,   \* .bundle-fingerprint: "none", "other" or "this" bundle's
    doing,   \* where in the function
    left,    \* parts, or files, its loop has left
    partNow, \* the part being copied
    copying, \* the file being copied, or NoFile
    runs     \* _EXEC_PROBE of the driver: "unknown", "yes" or "no"

bundleDisk == <<dirs, file, xz, bits, stamp>>
bundleProc == <<doing, left, partNow, copying, runs>>
bundleVars == <<chain, bundleDisk, bundleProc>>

NoFile == "none"
Stamped == chain = "avr"
Compressed == IF chain \in Zipped THEN Packed ELSE {}

\* An older bundle's stage, whole as that bundle was, with the driver; an AVR
\* one is stamped as such, or from before the stamp.
OldStage ==
    /\ dirs = Parts /\ xz = [f \in Packed |-> "absent"]
    /\ \E missing \in SUBSET (Newer \ {Driver}) :
         /\ file = [f \in Files |-> IF f \in missing THEN "absent"
                                    ELSE IF f \in Newer THEN "old" ELSE "new"]
         /\ bits = Files \ missing
    /\ stamp \in IF Stamped THEN {"none", "other"} ELSE {"none"}

NoStage ==
    /\ dirs = {} /\ file = [f \in Files |-> "absent"] /\ xz = [f \in Packed |-> "absent"]
    /\ bits = {} /\ stamp = "none"

BundleInit ==
    /\ NoStage \/ (chain \in Bundles /\ Newer # {} /\ OldStage)
    /\ doing = "idle" /\ left = {} /\ partNow = "none" /\ copying = NoFile /\ runs = "unknown"

\* the driver is there and _avr_stage_is_stale finds this bundle's stamp
Staged == file[Driver] # "absent" /\ (Stamped => stamp = "this")

Look ==
    /\ doing = "look"
    /\ doing' = IF Staged THEN "probe" ELSE IF Stamped THEN "wipe" ELSE "parts"
    /\ left' = IF Staged THEN {} ELSE Parts
    /\ UNCHANGED <<chain, bundleDisk, partNow, copying, runs>>

\* shutil.rmtree(AVR_STAGE), an entry at a time in any order
WipeStage ==
    /\ doing = "wipe"
    /\ \/ \E f \in Files :
            /\ file[f] # "absent" /\ file' = [file EXCEPT ![f] = "absent"]
            /\ bits' = bits \ {f} /\ UNCHANGED <<dirs, xz, stamp, doing>>
       \/ \E f \in Packed :
            /\ xz[f] # "absent" /\ xz' = [xz EXCEPT ![f] = "absent"]
            /\ UNCHANGED <<dirs, file, bits, stamp, doing>>
       \/ stamp # "none" /\ stamp' = "none" /\ UNCHANGED <<dirs, file, xz, bits, doing>>
       \/ /\ \A f \in Files : file[f] = "absent"
          /\ \A f \in Packed : xz[f] = "absent"
          /\ stamp = "none" /\ dirs' = {} /\ doing' = "parts"
          /\ UNCHANGED <<file, xz, bits, stamp>>
    /\ UNCHANGED <<chain, left, partNow, copying, runs>>

In(p) == {f \in Files : PartOf[f] = p}

\* mutant: the stamp is written before the copying
CopyPartStampsFirst ==
    /\ doing = "parts"
    /\ \/ \E p \in left :
            IF p \in dirs THEN left' = left \ {p} /\ UNCHANGED <<dirs, doing, partNow>>
            ELSE /\ dirs' = dirs \cup {p} /\ partNow' = p
                 /\ doing' = "files" /\ UNCHANGED left
       \/ left = {} /\ doing' = "unpack" /\ UNCHANGED <<dirs, left, partNow>>
    /\ stamp' = IF Stamped THEN "this" ELSE stamp
    /\ UNCHANGED <<chain, file, xz, bits, copying, runs>>

\* A part whose directory is there is left as it is; after the last, unpack.
CopyPart ==
    /\ doing = "parts"
    /\ \/ \E p \in left :
            IF p \in dirs THEN left' = left \ {p} /\ UNCHANGED <<dirs, doing, partNow>>
            ELSE /\ dirs' = dirs \cup {p} /\ partNow' = p
                 /\ doing' = "files" /\ UNCHANGED left
       \/ left = {} /\ doing' = "unpack" /\ UNCHANGED <<dirs, left, partNow>>
    /\ UNCHANGED <<chain, file, xz, bits, stamp, copying, runs>>

\* what copytree has yet to copy of the part
Uncopied == {f \in In(partNow) : IF f \in Compressed THEN xz[f] = "absent" ELSE file[f] = "absent"}

\* A file is there, half written, before it is whole; it loses its bits.
CopyFile ==
    /\ doing = "files"
    /\ \/ \E f \in Uncopied :
            /\ copying = NoFile /\ copying' = f
            /\ IF f \in Compressed THEN xz' = [xz EXCEPT ![f] = "torn"] /\ UNCHANGED file
                               ELSE file' = [file EXCEPT ![f] = "torn"] /\ UNCHANGED xz
            /\ UNCHANGED <<doing, left, partNow>>
       \/ /\ copying # NoFile /\ copying' = NoFile
          /\ IF copying \in Compressed THEN xz' = [xz EXCEPT ![copying] = "new"] /\ UNCHANGED file
                                   ELSE file' = [file EXCEPT ![copying] = "new"] /\ UNCHANGED xz
          /\ UNCHANGED <<doing, left, partNow>>
       \/ /\ Uncopied = {} /\ copying = NoFile
          /\ doing' = "parts" /\ left' = left \ {partNow} /\ partNow' = "none"
          /\ UNCHANGED <<file, xz, copying>>
    /\ UNCHANGED <<chain, dirs, bits, stamp, runs>>

\* bundle_xz.materialize: a .part that replaces the program, executable; a
\* torn .xz raises.
Unpack ==
    /\ doing = "unpack"
    /\ \/ \E f \in Packed :
            /\ xz[f] = "new" /\ xz' = [xz EXCEPT ![f] = "absent"]
            /\ file' = [file EXCEPT ![f] = "new"] /\ bits' = bits \cup {f}
            /\ UNCHANGED doing
       \/ /\ doing' = IF \E f \in Packed : xz[f] = "torn" THEN "raised" ELSE "stamp"
          /\ doing' = "raised" \/ \A f \in Packed : xz[f] = "absent"
          /\ UNCHANGED <<file, xz, bits>>
    /\ UNCHANGED <<chain, dirs, stamp, left, partNow, copying, runs>>

\* The stamp file is there, empty, before it is written.
Stamp ==
    /\ doing = "stamp"
    /\ \/ Stamped /\ stamp = "none" /\ stamp' = "other" /\ UNCHANGED <<doing, left>>
       \/ /\ Stamped => stamp # "none"
          /\ stamp' = IF Stamped THEN "this" ELSE stamp
          /\ doing' = "bits" /\ left' = Files
    /\ UNCHANGED <<chain, dirs, file, xz, bits, partNow, copying, runs>>

SetBits ==
    /\ doing = "bits"
    /\ \/ \E f \in left :
            /\ bits' = (IF file[f] = "absent" THEN bits ELSE bits \cup {f})
            /\ left' = left \ {f} /\ UNCHANGED doing
       \/ left = {} /\ doing' = "probe" /\ UNCHANGED <<bits, left>>
    /\ UNCHANGED <<chain, dirs, file, xz, stamp, partNow, copying, runs>>

\* The staged driver if it is there and can be executed, asked once per
\* process; else whatever PATH has.
ProbeDriver ==
    /\ doing = "probe" /\ doing' = "ready"
    /\ IF runs # "unknown" \/ file[Driver] = "absent" THEN UNCHANGED runs
       ELSE runs' \in IF Driver \notin bits THEN {"no"}
                      ELSE IF file[Driver] = "torn" THEN {"yes", "no"} ELSE {"yes"}
    /\ UNCHANGED <<chain, bundleDisk, left, partNow, copying>>

BundleStep ==
    \/ Look \/ WipeStage \/ CopyPart \/ CopyFile \/ Unpack \/ Stamp \/ SetBits \/ ProbeDriver

\* a request comes and goes, and the process may end
CallStage ==
    /\ doing \in {"idle", "ready", "raised"} /\ doing' = "look"
    /\ UNCHANGED <<chain, bundleDisk, left, partNow, copying, runs>>
BundleForgets ==
    /\ doing' = "idle" /\ left' = {} /\ partNow' = "none" /\ copying' = NoFile
    /\ runs' = "unknown" /\ UNCHANGED <<chain, bundleDisk>>

BundleSpec ==
    /\ chain \in Bundles /\ BundleInit
    /\ [][BundleStep \/ CallStage \/ BundleForgets]_bundleVars

-----------------------------------------------------------------------------

BundleTypeOK ==
    /\ dirs \subseteq Parts /\ bits \subseteq Files
    /\ file \in [Files -> {"absent", "torn", "old", "new"}]
    /\ xz \in [Packed -> {"absent", "torn", "new"}]
    /\ stamp \in {"none", "other", "this"}
    /\ doing \in {"idle", "look", "wipe", "parts", "files", "unpack", "raised",
                  "stamp", "bits", "probe", "ready"}
    /\ copying \in Files \cup {NoFile} /\ (doing = "files" => partNow \in Parts)
    /\ doing \in {"wipe", "parts", "files"} => left \subseteq Parts
    /\ doing = "bits" => left \subseteq Files

Whole == \A f \in Files : file[f] = "new"
BundleComplete == Whole /\ bits = Files

\* The stamp tells the truth: with this bundle's stamp and the driver there,
\* every file of the bundle is there, whole and of this bundle, wherever
\* earlier processes have died.
StampTellsTheBundle ==
    Stamped /\ stamp = "this" /\ file[Driver] # "absent" => Whole
=============================================================================
