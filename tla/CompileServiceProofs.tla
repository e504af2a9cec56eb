------------------------ MODULE CompileServiceProofs ------------------------
(***************************************************************************)
(* Proofs about the compile service: for any number of clients, any budget *)
(* and window, any toolchain, and however often the process dies.          *)
(***************************************************************************)
EXTENDS CompileService, FiniteSetTheorems, SequenceTheorems, TLAPS

-----------------------------------------------------------------------------
(* The AVR stage: its stamp tells the truth whatever the processes that staged it *)
(* lived through. *)

\* A file of a part that has been copied, packed or not.
Copied(f) ==
    IF f \in Compressed THEN xz[f] = "new" \/ (xz[f] = "absent" /\ file[f] = "new")
                        ELSE file[f] = "new"

\* A file of the part being copied: whole, not there yet, or the one at hand.
InHand(f) ==
    IF f \in Compressed THEN xz[f] \in {"absent", "new"} \/ copying = f
                        ELSE file[f] \in {"absent", "new"} \/ copying = f

\* Nothing is in a part that has no directory yet; every other part but the
\* one being copied is whole.
PartsWhole ==
    doing \in {"parts", "files", "unpack"} =>
        \A f \in Files :
            /\ PartOf[f] \notin dirs => file[f] = "absent" /\ (f \in Compressed => xz[f] = "absent")
            /\ PartOf[f] \in dirs /\ ~(doing = "files" /\ PartOf[f] = partNow) => Copied(f)

PartInHand ==
    doing = "files" =>
        /\ partNow \in dirs /\ copying \in In(partNow) \cup {NoFile}
        /\ \A f \in In(partNow) : InHand(f)

PartsLeft ==
    /\ doing = "wipe" => left = Parts
    /\ doing \in {"parts", "files"} => Parts \subseteq left \cup dirs
    /\ doing = "unpack" => Parts \subseteq dirs

StampedWhole == doing = "stamp" => Whole

OneAtATime == doing # "files" => copying = NoFile

OthersUnpacked == \A f \in Packed \ Compressed : xz[f] = "absent"

\* What the copying has done with is whole, if it began with an empty stage.
CopyInv ==
    /\ PartsWhole /\ PartInHand /\ PartsLeft /\ StampedWhole /\ OneAtATime /\ OthersUnpacked
    /\ doing # "raised"

\* There is nothing in the stage.
Empty ==
    /\ dirs = {} /\ \A f \in Files : file[f] = "absent"
    /\ \A f \in Packed : xz[f] = "absent"

BeginsEmpty == doing = "look" /\ ~Staged /\ ~Stamped => Empty

\* While an AVR stage is rebuilt it does not carry this bundle's stamp.
StampComesLast == doing \in {"parts", "files", "unpack", "stamp"} => stamp # "this"

\* What is being wiped has lost its driver or has another stamp.
WipedIsStale == doing = "wipe" => stamp # "this" \/ file[Driver] = "absent"

StampInv ==
    /\ StampComesLast /\ WipedIsStale
    /\ stamp = "this" /\ file[Driver] # "absent" => Whole

\* The stamped stage is wiped before it is copied to, so that it begins empty.
BundleInv == BundleTypeOK /\ (Stamped => CopyInv /\ StampInv)

-----------------------------------------------------------------------------

\* The state keeps its type.
LEMMA StepKeepsType == ASSUME BundleTypeOK, BundleStep \/ CallStage \/ BundleForgets
                       PROVE  BundleTypeOK'
<1> USE DEF BundleTypeOK, NoFile
<1>1. CASE Look BY <1>1 DEF Look, bundleDisk
<1>2. CASE WipeStage BY <1>2 DEF WipeStage
<1>3. CASE CopyPart BY <1>3 DEF CopyPart
<1>4. CASE CopyFile BY <1>4 DEF CopyFile, Uncopied, In
<1>5. CASE Unpack BY <1>5, BundleAssumption DEF Unpack
<1>6. CASE Stamp BY <1>6 DEF Stamp
<1>7. CASE SetBits BY <1>7 DEF SetBits
<1>8. CASE ProbeDriver BY <1>8 DEF ProbeDriver, bundleDisk
<1>9. CASE CallStage \/ BundleForgets BY <1>9 DEF CallStage, BundleForgets, bundleDisk
<1> QED BY <1>1, <1>2, <1>3, <1>4, <1>5, <1>6, <1>7, <1>8, <1>9 DEF BundleStep

\* No step changes the toolchain that is staged.
LEMMA StepKeepsChain ==
    ASSUME BundleStep \/ CallStage \/ BundleForgets
    PROVE  chain' = chain /\ Stamped' = Stamped /\ Compressed' = Compressed
<1>1. chain' = chain
  BY DEF BundleStep, Look, WipeStage, CopyPart, CopyFile, Unpack, Stamp, SetBits, ProbeDriver,
         CallStage, BundleForgets
<1> QED BY <1>1 DEF Stamped, Compressed

\* Where copying begins with an empty stage, every step leaves whole what the
\* copying has done with.
LEMMA StepKeepsCopies ==
    ASSUME BundleTypeOK, CopyInv, BeginsEmpty, BundleStep \/ CallStage \/ BundleForgets
    PROVE  CopyInv'
<1>s. Compressed' = Compressed BY StepKeepsChain
<1>p. \A f \in Files : PartOf[f] \in Parts BY BundleAssumption
<1>c. Compressed \subseteq Packed /\ Packed \subseteq Files BY BundleAssumption DEF Compressed
<1>n. \A f \in Files \cup Parts : f # NoFile BY BundleAssumption DEF NoFile
<1> USE DEF CopyInv
<1>1. CASE Look
  <2>1. doing' = "parts" => Empty BY <1>1 DEF Look, BeginsEmpty
  <2>2. PartsWhole' BY <2>1, <1>1, <1>s, <1>c DEF Look, bundleDisk, PartsWhole, Empty
  <2> QED
    BY <2>2, <1>1, <1>s
       DEF Look, bundleDisk, PartInHand, PartsLeft, StampedWhole, OneAtATime, OthersUnpacked
<1>2. CASE WipeStage
  <2>1. /\ left = Parts /\ copying = NoFile /\ left' = left /\ copying' = copying
        /\ doing' \in {"wipe", "parts"}
    BY <1>2 DEF WipeStage, PartsLeft, OneAtATime
  <2>2. doing' = "parts" =>
            /\ dirs' = {} /\ \A f \in Files : file'[f] = "absent"
            /\ \A f \in Packed : xz'[f] = "absent"
    BY <1>2 DEF WipeStage
  <2>3. PartsWhole' BY <2>1, <2>2, <1>s, <1>c DEF PartsWhole
  <2>4. OthersUnpacked' BY <1>2, <1>s, <1>c DEF OthersUnpacked, WipeStage, BundleTypeOK
  <2> QED
    BY <2>1, <2>2, <2>3, <2>4 DEF PartInHand, PartsLeft, StampedWhole, OneAtATime
<1>3. CASE CopyPart
  BY <1>3, <1>s
     DEF CopyPart, PartsWhole, PartInHand, PartsLeft, StampedWhole, OneAtATime, OthersUnpacked,
         Whole, Copied, InHand, In, BundleTypeOK
<1>4. CASE CopyFile
  <2>1. /\ doing = "files" /\ partNow \in dirs /\ Parts \subseteq left \cup dirs
        /\ dirs' = dirs /\ doing' \in {"files", "parts"}
    BY <1>4 DEF CopyFile, PartInHand, PartsLeft
  <2>2. StampedWhole' BY <2>1 DEF StampedWhole
  <2>3. \A f \in Files :
            /\ PartOf[f] \notin dirs => file[f] = "absent" /\ (f \in Compressed => xz[f] = "absent")
            /\ PartOf[f] \in dirs /\ PartOf[f] # partNow => Copied(f)
    BY <2>1 DEF PartsWhole
  <2>4. \A f \in In(partNow) : InHand(f)
    BY <2>1 DEF PartInHand
  <2>5. ASSUME NEW f \in Uncopied, copying = NoFile, copying' = f, UNCHANGED <<doing, left, partNow>>,
               IF f \in Compressed THEN xz' = [xz EXCEPT ![f] = "torn"] /\ UNCHANGED file
                                   ELSE file' = [file EXCEPT ![f] = "torn"] /\ UNCHANGED xz
        PROVE  CopyInv'
    <3>1. f \in In(partNow) /\ f \in Files BY <2>5 DEF Uncopied, In
    <3>2. \A g \in Files : g # f => file'[g] = file[g] /\ (g \in Compressed => xz'[g] = xz[g])
      BY <2>5 DEF BundleTypeOK, Compressed
    <3>3. PartsWhole'
      BY <2>1, <2>3, <2>5, <3>1, <3>2, <1>s DEF PartsWhole, Copied, In
    <3>4. PartInHand'
      BY <2>1, <2>4, <2>5, <3>1, <3>2, <1>s, <1>n DEF PartInHand, InHand, In
    <3>5. PartsLeft' /\ OneAtATime' BY <2>1, <2>5 DEF PartsLeft, OneAtATime
    <3>6. OthersUnpacked' BY <2>5, <1>s DEF OthersUnpacked, BundleTypeOK
    <3> QED BY <2>1, <2>2, <3>3, <3>4, <3>5, <3>6
  <2>6. ASSUME copying # NoFile, copying' = NoFile, UNCHANGED <<doing, left, partNow>>,
               IF copying \in Compressed
                 THEN xz' = [xz EXCEPT ![copying] = "new"] /\ UNCHANGED file
                 ELSE file' = [file EXCEPT ![copying] = "new"] /\ UNCHANGED xz
        PROVE  CopyInv'
    <3>1. copying \in In(partNow) /\ copying \in Files BY <2>1, <2>6 DEF PartInHand, In
    <3>2. \A g \in Files : g # copying => file'[g] = file[g] /\ (g \in Compressed => xz'[g] = xz[g])
      BY <2>6 DEF BundleTypeOK, Compressed
    <3>3. PartsWhole'
      BY <2>1, <2>3, <2>6, <3>1, <3>2, <1>s DEF PartsWhole, Copied, In
    <3>4. IF copying \in Compressed THEN xz'[copying] = "new" ELSE file'[copying] = "new"
      BY <2>6, <3>1 DEF BundleTypeOK, Compressed
    <3>5. PartInHand'
      <4>1. ASSUME NEW g \in In(partNow) PROVE
              IF g \in Compressed THEN xz'[g] \in {"absent", "new"} ELSE file'[g] \in {"absent", "new"}
        BY <4>1, <2>4, <3>2, <3>4 DEF InHand, In
      <4> QED BY <4>1, <2>1, <2>6, <1>s DEF PartInHand, InHand, In
    <3>6. PartsLeft' /\ OneAtATime' BY <2>1, <2>6 DEF PartsLeft, OneAtATime
    <3>7. OthersUnpacked' BY <2>6, <1>s DEF OthersUnpacked, BundleTypeOK
    <3> QED BY <2>1, <2>2, <3>3, <3>5, <3>6, <3>7
  <2>7. ASSUME Uncopied = {}, copying = NoFile, UNCHANGED <<file, xz, copying>>,
               doing' = "parts", left' = left \ {partNow}
        PROVE  CopyInv'
    <3>1. \A f \in In(partNow) : Copied(f)
      BY <2>4, <2>7, <1>n DEF Uncopied, InHand, Copied, In
    <3>2. PartsWhole' BY <2>1, <2>3, <2>7, <3>1, <1>s DEF PartsWhole, Copied, In
    <3>3. PartInHand' /\ PartsLeft' /\ OneAtATime'
      BY <2>1, <2>7 DEF PartInHand, PartsLeft, OneAtATime
    <3>4. OthersUnpacked' BY <2>7, <1>s DEF OthersUnpacked
    <3> QED BY <2>2, <2>7, <3>2, <3>3, <3>4
  <2> QED BY <1>4, <2>5, <2>6, <2>7 DEF CopyFile
<1>5. CASE Unpack
  <2>1. /\ doing = "unpack" /\ Parts \subseteq dirs /\ copying = NoFile
        /\ \A f \in Files : Copied(f)
    BY <1>5, <1>p DEF Unpack, PartsLeft, OneAtATime, PartsWhole
  <2>2. \A f \in Packed : xz[f] \in {"absent", "new"} /\ (xz[f] = "new" => f \in Compressed)
    BY <2>1, <1>c DEF Copied, OthersUnpacked
  <2>3. dirs' = dirs /\ copying' = copying /\ doing' \in {"unpack", "stamp"}
    BY <1>5, <2>1, <2>2 DEF Unpack
  <2>4. (\A f \in Files : Copied(f)') /\ OthersUnpacked'
    <3>1. ASSUME NEW g \in Packed, xz[g] = "new", xz' = [xz EXCEPT ![g] = "absent"],
                 file' = [file EXCEPT ![g] = "new"]
          PROVE  (\A f \in Files : Copied(f)') /\ OthersUnpacked'
      <4>1. \A f \in Files : file'[f] = "new" \/ (f # g /\ file'[f] = file[f])
        BY <3>1 DEF BundleTypeOK
      <4>2. \A f \in Packed : IF f = g THEN xz'[f] = "absent" ELSE xz'[f] = xz[f]
        BY <3>1 DEF BundleTypeOK
      <4>3. file'[g] = "new" BY <3>1, <1>c DEF BundleTypeOK
      <4> QED BY <2>1, <2>2, <4>1, <4>2, <4>3, <1>s, <1>c DEF Copied, OthersUnpacked
    <3>2. CASE UNCHANGED <<file, xz>> BY <3>2, <2>1, <1>s DEF Copied, OthersUnpacked
    <3> QED BY <1>5, <3>1, <3>2 DEF Unpack
  <2>5. StampedWhole'
    <3>1. doing' = "stamp" => UNCHANGED file /\ \A f \in Packed : xz[f] = "absent"
      BY <1>5, <2>1 DEF Unpack
    <3> QED BY <3>1, <2>1, <1>c DEF StampedWhole, Whole, Copied
  <2>6. PartsWhole' BY <2>3, <2>4, <2>1, <1>p DEF PartsWhole
  <2> QED BY <2>1, <2>3, <2>4, <2>5, <2>6 DEF PartInHand, PartsLeft, OneAtATime
<1>6. CASE Stamp
  BY <1>6, <1>s
     DEF Stamp, PartsWhole, PartInHand, PartsLeft, StampedWhole, OneAtATime, OthersUnpacked, Whole
<1>7. CASE SetBits
  BY <1>7, <1>s
     DEF SetBits, PartsWhole, PartInHand, PartsLeft, StampedWhole, OneAtATime, OthersUnpacked, Whole
<1>8. CASE ProbeDriver
  BY <1>8, <1>s
     DEF ProbeDriver, bundleDisk, PartsWhole, PartInHand, PartsLeft, StampedWhole, OneAtATime,
         OthersUnpacked, Whole
<1>9. CASE CallStage \/ BundleForgets
  BY <1>9, <1>s
     DEF CallStage, BundleForgets, bundleDisk, PartsWhole, PartInHand, PartsLeft, StampedWhole,
         OneAtATime, OthersUnpacked, Whole
<1> QED BY <1>1, <1>2, <1>3, <1>4, <1>5, <1>6, <1>7, <1>8, <1>9 DEF BundleStep

\* Every step of a stamped stage keeps what is said of its stamp.
LEMMA StepKeepsStamp ==
    ASSUME BundleTypeOK, CopyInv, StampInv, Stamped, BundleStep \/ CallStage \/ BundleForgets
    PROVE  StampInv'
<1>d. Driver \in Files BY BundleAssumption
<1>s. Stamped' BY StepKeepsChain
<1> USE DEF StampInv, StampComesLast, WipedIsStale
<1>1. CASE Look BY <1>1, <1>d DEF Look, bundleDisk, Staged, Whole
<1>2. CASE WipeStage
  <2>1. /\ stamp # "this" \/ file[Driver] = "absent"
        /\ stamp' \in {stamp, "none"} /\ doing' \in {"wipe", "parts"}
        /\ doing' = "parts" => stamp' # "this"
    BY <1>2 DEF WipeStage
  <2>2. file[Driver] = "absent" => file'[Driver] = "absent"
    BY <1>2, <1>d DEF WipeStage, BundleTypeOK
  <2> QED BY <2>1, <2>2
<1>3. CASE CopyPart BY <1>3 DEF CopyPart
<1>4. CASE CopyFile BY <1>4 DEF CopyFile
<1>5. CASE Unpack BY <1>5 DEF Unpack, CopyInv
<1>6. CASE Stamp BY <1>6 DEF Stamp, CopyInv, StampedWhole, Whole
<1>7. CASE SetBits BY <1>7 DEF SetBits, Whole
<1>8. CASE ProbeDriver BY <1>8 DEF ProbeDriver, bundleDisk, Whole
<1>9. CASE CallStage \/ BundleForgets BY <1>9 DEF CallStage, BundleForgets, bundleDisk, Whole
<1> QED BY <1>1, <1>2, <1>3, <1>4, <1>5, <1>6, <1>7, <1>8, <1>9 DEF BundleStep

\* The two together.
LEMMA StepKeepsBundle ==
    ASSUME BundleInv, [BundleStep \/ CallStage \/ BundleForgets]_bundleVars
    PROVE  BundleInv'
<1>1. CASE BundleStep \/ CallStage \/ BundleForgets
  <2>1. BundleTypeOK' BY <1>1, StepKeepsType DEF BundleInv
  <2>2. Stamped' = Stamped BY <1>1, StepKeepsChain
  <2>3. ASSUME Stamped PROVE CopyInv' /\ StampInv'
    <3>1. BundleTypeOK /\ CopyInv /\ StampInv /\ BeginsEmpty
      BY <2>3 DEF BundleInv, BeginsEmpty
    <3> QED BY <3>1, <1>1, <2>3, StepKeepsCopies, StepKeepsStamp
  <2> QED BY <2>1, <2>2, <2>3 DEF BundleInv
<1>2. CASE UNCHANGED bundleVars
  BY <1>2 DEF BundleInv, CopyInv, StampInv, bundleVars, bundleDisk, bundleProc, BundleTypeOK, Stamped,
              StampComesLast, WipedIsStale, PartsWhole, PartInHand, PartsLeft, StampedWhole,
              OneAtATime, OthersUnpacked, Whole, Copied, InHand, In, Compressed
<1> QED BY <1>1, <1>2

\* An untouched stage, and an older bundle's, satisfy the invariant.
LEMMA BundleInitHolds == ASSUME BundleInit PROVE BundleInv /\ CopyInv
<1>1. BundleTypeOK
  <2>1. CASE NoStage BY <2>1 DEF BundleInit, NoStage, BundleTypeOK, NoFile
  <2>2. CASE OldStage BY <2>2 DEF BundleInit, OldStage, BundleTypeOK, NoFile
  <2> QED BY <2>1, <2>2 DEF BundleInit
<1>2. stamp # "this" /\ doing = "idle" /\ copying = NoFile
  BY DEF BundleInit, NoStage, OldStage
<1>3. \A f \in Packed : xz[f] = "absent"
  BY DEF BundleInit, NoStage, OldStage
<1>4. CopyInv
  BY <1>2, <1>3 DEF CopyInv, PartsWhole, PartInHand, PartsLeft, StampedWhole, OneAtATime,
                    OthersUnpacked
<1>5. StampInv BY <1>2 DEF StampInv, StampComesLast, WipedIsStale
<1> QED BY <1>1, <1>4, <1>5 DEF BundleInv

\* Whatever the processes that staged it lived through, an AVR stage that
\* carries this bundle's stamp, with its driver, holds the whole bundle.
THEOREM StampAlwaysTells == BundleSpec => []StampTellsTheBundle
<1>1. BundleInit => BundleInv BY BundleInitHolds
<1>2. BundleInv /\ [BundleStep \/ CallStage \/ BundleForgets]_bundleVars => BundleInv'
  BY StepKeepsBundle
<1>3. BundleInv => StampTellsTheBundle BY DEF BundleInv, StampInv, StampTellsTheBundle
<1> QED BY <1>1, <1>2, <1>3, PTL DEF BundleSpec

\* A stamped stage never meets a half copied .xz, whatever the processes that
\* staged it lived through: unpacking does not raise.
THEOREM StampedNeverRaises == BundleSpec => [](Stamped => doing # "raised")
<1>1. BundleInit => BundleInv BY BundleInitHolds
<1>2. BundleInv /\ [BundleStep \/ CallStage \/ BundleForgets]_bundleVars => BundleInv'
  BY StepKeepsBundle
<1>3. BundleInv => (Stamped => doing # "raised") BY DEF BundleInv, CopyInv
<1> QED BY <1>1, <1>2, <1>3, PTL DEF BundleSpec

-----------------------------------------------------------------------------
(* The SDCC stage, of which no process has died. *)

Vacant == binDir = FALSE /\ (\A f \in Programs : bin[f] = "absent") /\ share[Crt0] = "absent"
Older == binDir = TRUE /\ (\A f \in Programs : bin[f] = "exec") /\ share[Crt0] = "absent"
Full == binDir = TRUE /\ Complete

InStage(f) == bin[f] \in {"plain", "exec"}

CopyingBin ==
    /\ binDir = TRUE /\ shareOk = FALSE
    /\ todo \subseteq Programs /\ open \in todo \cup {None}
    /\ \A f \in Programs \ todo : InStage(f)

CopyingShare ==
    /\ binDir = TRUE /\ \A f \in Programs : InStage(f)
    /\ todo \subseteq Library /\ open \in todo \cup {None}
    /\ \A f \in Library \ todo : share[f] = "plain"

SettingBits ==
    /\ binDir = TRUE /\ \A f \in Library : share[f] = "plain"
    /\ \A f \in Programs : InStage(f) /\ (f \notin todo => bin[f] = "exec")

StageTypeOK ==
    /\ binDir \in BOOLEAN /\ bin \in [Programs -> States] /\ share \in [Library -> States]
    /\ step \in {"idle", "check", "wipe", "mkdir", "copybin", "copyshare", "chmod", "staged",
                 "ready"}

\* Where in stage_toolchain, and what is in the stage by then.
StageInv ==
    /\ StageTypeOK
    /\ step # "wipe"
    /\ step \in {"idle", "check"} => Vacant \/ Older \/ Full
    /\ step = "mkdir" => (Vacant \/ Older) /\ shareOk = FALSE
    /\ step = "copybin" => CopyingBin
    /\ step = "copyshare" => CopyingShare
    /\ step = "chmod" => SettingBits
    /\ step \in {"staged", "ready"} => Full

\* Nothing, or what an older bundle's process left whole.
LEMMA StageInitHolds == StageInit => StageInv
<1> SUFFICES ASSUME StageInit PROVE StageInv
  OBVIOUS
<1>1. CASE /\ binDir = FALSE /\ bin = [f \in Programs |-> "absent"]
           /\ share = [f \in Library |-> "absent"]
  BY <1>1, StageAssumption DEF StageInit, StageInv, StageTypeOK, States, Vacant
<1>2. ASSUME NEW missing \in SUBSET Changed,
             binDir = TRUE, bin = [f \in Programs |-> "exec"],
             share = [f \in Library |-> IF f \notin Changed THEN "plain"
                        ELSE IF f = Crt0 \/ f \in missing THEN "absent" ELSE "old"]
      PROVE  StageInv
  <2>1. StageTypeOK BY <1>2 DEF StageInit, StageTypeOK, States
  <2>2. CASE Changed = {} BY <1>2, <2>1, <2>2 DEF StageInit, StageInv, Full, Complete
  <2>3. CASE Changed # {}
    BY <1>2, <2>1, <2>3, StageAssumption DEF StageInit, StageInv, Older
  <2> QED BY <2>2, <2>3
<1> QED BY <1>1, <1>2 DEF StageInit, OldShares

\* Staging that is let end leaves a whole stage, over an older one too.
LEMMA StageStepHolds == StageInv /\ StageStep => StageInv'
<1> SUFFICES ASSUME StageInv, StageStep PROVE StageInv'
  OBVIOUS
<1>n. \A f \in Programs \cup Library : f # None BY StageAssumption
<1>d. DOMAIN bin = Programs BY DEF StageInv, StageTypeOK
<1> USE DEF StageInv, StageTypeOK, InStage
<1>1. CASE Check
  BY <1>1, StageAssumption DEF Check, stageDisk, AfterCheck, Vacant, Older, Full, Complete
<1>2. CASE Wipe BY <1>2 DEF Wipe
<1>3. CASE MakeBin
  <2>1. CASE Vacant BY <1>3, <2>1 DEF MakeBin, At, Vacant, CopyingBin
  <2>2. CASE Older BY <1>3, <2>2 DEF MakeBin, At, Older, CopyingBin
  <2> QED BY <1>3, <2>1, <2>2 DEF MakeBin, At
<1>4. CASE CopyBin
  BY <1>4, <1>n DEF CopyBin, CopyingBin, CopyingShare, States
<1>5. CASE CopyShare
  BY <1>5, <1>n, <1>d DEF CopyShare, CopyingShare, SettingBits, There, States
<1>6. CASE Chmod BY <1>6 DEF Chmod, SettingBits, Full, Complete, States
<1>7. CASE Probe BY <1>7 DEF Probe, At, stageDisk, Full, Complete
<1> QED BY <1>1, <1>2, <1>3, <1>4, <1>5, <1>6, <1>7 DEF StageStep

-----------------------------------------------------------------------------
(* A stage of another toolchain, of which no process has died: a whole one,  *)
(* none, or a stamped one that will be wiped; or an older one that is never  *)
(* looked into.                                                              *)

CleanBundle ==
    /\ CopyInv
    /\ doing \in {"idle", "look"} => BundleComplete \/ Empty \/ (Stamped /\ ~Staged)
    /\ doing = "bits" => Whole /\ Files \subseteq bits \cup left
    /\ doing \in {"probe", "ready"} => BundleComplete

\* The older stage stands as it was found.
KeptBundle == OldStage /\ doing \in {"idle", "look", "probe", "ready"}

\* The request has been answered.
BundleRests ==
    /\ doing \in {"idle", "ready", "raised"} /\ doing' = "idle"
    /\ UNCHANGED <<chain, bundleDisk, left, partNow, copying, runs>>

-----------------------------------------------------------------------------
(* One request at a time, and what it works on. *)

RequestInv ==
    /\ client \in Clients \cup {None} /\ guarded \in BOOLEAN /\ (client = None => ~guarded)
    /\ SlotsCounted

AtWork ==
    /\ chain = "sdcc" => doing = "idle"
    /\ chain # "sdcc" => step = "idle"
    /\ client = None => step = "idle" /\ doing = "idle"

StagingInv ==
    /\ AtWork /\ BundleInv
    /\ chain = "sdcc" => ~older
    /\ ~torn => IF chain = "sdcc" THEN StageInv
                ELSE IF older /\ ~Stamped THEN KeptBundle ELSE CleanBundle

-----------------------------------------------------------------------------
(* The budget of an address. *)

OverAt(t, s) == Cardinality({i \in 1..Len(s) : s[i] <= t - Window})
FreshAt(t, s) == SubSeq(s, OverAt(t, s) + 1, Len(s))

\* Times of a clock that has come to t.
Timed(s, t) ==
    /\ s \in Seq(Nat)
    /\ \A i, j \in 1..Len(s) : i <= j => s[i] <= s[j]
    /\ \A i \in 1..Len(s) : s[i] <= t

\* What the table has of an address in the window, h, is what has been accepted
\* of it in the window, r.
Budget(t, h, r) ==
    /\ Timed(h, t) /\ Timed(r, t) /\ FreshAt(t, h) = FreshAt(t, r)
    /\ Len(FreshAt(t, r)) <= MaxPerIp /\ Len(r) <= MaxPerIp + 1
    /\ Len(r) > MaxPerIp => r[MaxPerIp + 1] - r[1] >= Window

WindowInv ==
    /\ now \in Nat /\ DOMAIN hits \subseteq Clients /\ recent \in [Clients -> Seq(Nat)]
    /\ \A c \in Clients : Budget(now, Hits(c), recent[c])

-----------------------------------------------------------------------------

\* The stage is clean at the start, unless an older one is there that has no stamp.
LEMMA CleanInitHolds == ASSUME BundleInit, dirs = {} \/ Stamped PROVE CleanBundle
<1>p. PartOf[Driver] \in Parts /\ Parts # {} BY BundleAssumption
<1>1. CopyInv BY BundleInitHolds
<1>2. doing = "idle" BY DEF BundleInit
<1>3. CASE NoStage BY <1>1, <1>2, <1>3 DEF NoStage, CleanBundle, Empty
<1>4. CASE Stamped /\ OldStage BY <1>1, <1>2, <1>4 DEF OldStage, CleanBundle, Staged
<1>5. OldStage => dirs # {} BY <1>p DEF OldStage
<1> QED BY <1>3, <1>4, <1>5 DEF BundleInit

\* Copying begins with an empty stage as long as no process has died in it.
LEMMA CleanBegins == CleanBundle => BeginsEmpty
BY BundleAssumption DEF CleanBundle, BeginsEmpty, BundleComplete, Whole, Staged

\* A step of the stage that no kill interrupts leaves it clean.
LEMMA CleanStepHolds ==
    ASSUME BundleInv, CleanBundle, BundleStep \/ CallStage
    PROVE  CleanBundle'
<1>t. BundleTypeOK BY DEF BundleInv
<1>1. CopyInv'
  BY CleanBegins, StepKeepsCopies, <1>t DEF CleanBundle
<1>s. Stamped' = Stamped BY StepKeepsChain
<1>d. Driver \in Files BY BundleAssumption
<1> USE <1>1, <1>t DEF CleanBundle
<1>2. CASE Look
  <2>1. Staged => BundleComplete BY <1>2, <1>d DEF Look, Empty, Staged
  <2>2. doing' \in {"probe", "wipe", "parts"} /\ (doing' = "probe" => Staged)
    BY <1>2 DEF Look
  <2>3. BundleComplete' = BundleComplete BY <1>2 DEF Look, bundleDisk, BundleComplete, Whole
  <2> QED BY <2>1, <2>2, <2>3
<1>3. CASE WipeStage BY <1>3 DEF WipeStage
<1>4. CASE CopyPart BY <1>4 DEF CopyPart
<1>5. CASE CopyFile BY <1>5 DEF CopyFile
<1>6. CASE Unpack BY <1>6 DEF Unpack
<1>7. CASE Stamp
  <2>1. doing = "stamp" /\ Whole /\ Whole' BY <1>7 DEF Stamp, CopyInv, StampedWhole, Whole
  <2>2. doing' = "stamp" \/ (doing' = "bits" /\ left' = Files) BY <1>7, <2>1 DEF Stamp
  <2> QED BY <2>1, <2>2
<1>8. CASE SetBits
  <2>1. doing = "bits" /\ Whole /\ Whole' /\ Files \subseteq bits \cup left
    BY <1>8 DEF SetBits, Whole
  <2>2. ASSUME NEW f \in left, bits' = (IF file[f] = "absent" THEN bits ELSE bits \cup {f}),
               left' = left \ {f}, UNCHANGED doing
        PROVE  CleanBundle'
    <3>1. bits' = bits \cup {f} BY <2>1, <2>2 DEF BundleTypeOK, Whole
    <3> QED BY <2>1, <2>2, <3>1
  <2>3. ASSUME left = {}, doing' = "probe", UNCHANGED <<bits, left>> PROVE CleanBundle'
    BY <2>1, <2>3 DEF BundleComplete, BundleTypeOK
  <2> QED BY <1>8, <2>2, <2>3 DEF SetBits
<1>9. CASE ProbeDriver
  BY <1>9 DEF ProbeDriver, bundleDisk, BundleComplete, Whole
<1>10. CASE CallStage
  BY <1>10, <1>s
     DEF CallStage, bundleDisk, BundleComplete, Whole, Empty, Staged, CopyInv
<1> QED BY <1>2, <1>3, <1>4, <1>5, <1>6, <1>7, <1>8, <1>9, <1>10 DEF BundleStep

\* An older stage that is not stamped has its driver, and is not touched.
LEMMA KeptStepHolds ==
    ASSUME KeptBundle, ~Stamped, BundleStep \/ CallStage PROVE KeptBundle'
<1>1. file[Driver] # "absent" BY BundleAssumption DEF KeptBundle, OldStage
<1>2. Staged BY <1>1 DEF Staged
<1>3. Look \/ ProbeDriver \/ CallStage
  BY DEF KeptBundle, BundleStep, WipeStage, CopyPart, CopyFile, Unpack, Stamp, SetBits
<1>4. UNCHANGED <<chain, bundleDisk>> /\ doing' \in {"look", "probe", "ready"}
  BY <1>2, <1>3 DEF Look, ProbeDriver, CallStage
<1> QED BY <1>4 DEF KeptBundle, OldStage, bundleDisk, Stamped

\* An answer leaves the stage as it is, and so does a process that ends there.
LEMMA RestKeeps ==
    ASSUME BundleInv,
           BundleRests \/ (BundleForgets /\ doing \in {"idle", "look", "probe", "ready"})
    PROVE  BundleInv' /\ (CleanBundle => CleanBundle') /\ (KeptBundle => KeptBundle')
<1>1. /\ UNCHANGED <<chain, bundleDisk>> /\ doing' = "idle"
      /\ doing \in {"idle", "look", "probe", "ready", "raised"}
      /\ copying' \in {copying, NoFile}
  BY DEF BundleRests, BundleForgets
<1>2. Stamped' = Stamped /\ Compressed' = Compressed BY <1>1 DEF Stamped, Compressed
<1>3. BundleTypeOK'
  BY <1>1 DEF BundleInv, BundleTypeOK, bundleDisk, NoFile
<1>4. CopyInv => CopyInv'
  BY <1>1, <1>2 DEF CopyInv, bundleDisk, PartsWhole, PartInHand, PartsLeft, StampedWhole,
                    OneAtATime, OthersUnpacked
<1>5. StampInv => StampInv'
  BY <1>1 DEF StampInv, bundleDisk, StampComesLast, WipedIsStale, Whole
<1>6. BundleInv' BY <1>2, <1>3, <1>4, <1>5 DEF BundleInv
<1>7. ASSUME CleanBundle PROVE CleanBundle'
  <2>1. BundleComplete \/ Empty \/ (Stamped /\ ~Staged)
    BY <1>1, <1>7 DEF CleanBundle, CopyInv
  <2>2. BundleComplete' \/ Empty' \/ (Stamped' /\ ~Staged')
    BY <1>1, <1>2, <2>1 DEF bundleDisk, BundleComplete, Whole, Empty, Staged
  <2> QED BY <1>1, <1>4, <1>7, <2>2 DEF CleanBundle
<1>8. KeptBundle => KeptBundle' BY <1>1, <1>2 DEF KeptBundle, OldStage, bundleDisk
<1> QED BY <1>6, <1>7, <1>8

-----------------------------------------------------------------------------

\* Each step takes a slot for a compile that begins, gives it back with the
\* answer, or forgets it with the process.
LEMMA StepKeepsRequest == RequestInv /\ [Next]_vars => RequestInv'
<1> SUFFICES ASSUME RequestInv, [Next]_vars PROVE RequestInv'
  OBVIOUS
<1> USE DEF RequestInv, SlotsCounted
<1>1. ASSUME NEW c \in Clients, Compile(c) PROVE RequestInv'
  <2>1. client = None /\ inflight = 0 /\ c # None BY <1>1, ServiceAssumption DEF Compile
  <2>2. \/ UNCHANGED <<client, guarded, inflight>>
        \/ client' = c /\ guarded' = TRUE /\ inflight' = 1
    BY <1>1, <2>1 DEF Compile, Turned, TakeSlot, Begin
  <2>3. CASE UNCHANGED <<client, guarded, inflight>> BY <2>3
  <2>4. CASE client' = c /\ guarded' = TRUE /\ inflight' = 1
    BY <1>1, <2>1, <2>4
  <2> QED BY <2>2, <2>3, <2>4
<1>2. ASSUME NEW c \in Clients, Download(c) PROVE RequestInv'
  BY <1>2, ServiceAssumption DEF Download, guardVars, Begin
<1>3. CASE Stage BY <1>3 DEF Stage, guardVars, requestVars
<1>4. CASE Done
  <2>1. client # None /\ client' = None /\ guarded' = FALSE BY <1>4 DEF Done, Leaves
  <2>2. CASE guarded
    <3>1. inflight = 1 BY <2>1, <2>2, Zenon DEF RequestInv, SlotsCounted
    <3>2. inflight' = 0 BY <1>4, <2>2, <3>1 DEF Done, GiveSlot
    <3> QED BY <2>1, <3>2, ServiceAssumption
  <2>3. CASE ~guarded BY <1>4, <2>1, <2>3 DEF Done
  <2> QED BY <2>2, <2>3
<1>5. CASE Tick BY <1>5 DEF Tick, requestVars
<1>6. CASE Crash BY <1>6, ServiceAssumption DEF Crash, GuardForgets
<1>7. CASE UNCHANGED vars BY <1>7 DEF vars, guardVars, requestVars
<1> QED BY <1>1, <1>2, <1>3, <1>4, <1>5, <1>6, <1>7 DEF Next, Serve

\* What a step of the service is to the stages: the chain that is not asked
\* for rests; a process that ends while it stages is remembered.
LEMMA StepStages ==
    ASSUME AtWork, [Next]_vars
    PROVE  /\ AtWork' /\ chain' = chain /\ older' = older /\ (torn => torn')
           /\ \/ UNCHANGED bundleVars \/ BundleRests
              \/ chain # "sdcc" /\ (BundleStep \/ CallStage)
              \/ BundleForgets /\ (torn' \/ doing \in {"idle", "look", "probe", "ready"})
           /\ \/ UNCHANGED stageVars \/ (chain = "sdcc" /\ StageStep)
              \/ /\ UNCHANGED stageDisk /\ step' \in {"idle", "check"}
                 /\ torn' \/ step \in {"idle", "check", "staged", "ready"}
<1> USE DEF AtWork
<1>1. ASSUME NEW c \in Clients, NEW g \in BOOLEAN, client = None, Begin(c, g), UNCHANGED <<torn, older>>
      PROVE  /\ AtWork' /\ chain' = chain
             /\ UNCHANGED bundleVars \/ (chain # "sdcc" /\ CallStage)
             /\ \/ UNCHANGED stageVars
                \/ /\ UNCHANGED stageDisk /\ step' = "check" /\ step = "idle"
  <2>1. CASE chain = "sdcc"
    BY <1>1, <2>1, ServiceAssumption DEF Begin, bundleVars, bundleProc
  <2>2. CASE chain # "sdcc"
    BY <1>1, <2>2, ServiceAssumption DEF Begin, CallStage, stageVars, stageProc
  <2> QED BY <2>1, <2>2
<1>2. ASSUME NEW c \in Clients, Compile(c)
      PROVE  \/ Begin(c, TRUE) /\ client = None
             \/ UNCHANGED <<stageVars, bundleVars, client>>
  BY <1>2 DEF Compile, Turned
<1>3. ASSUME NEW c \in Clients, Compile(c) \/ Download(c) PROVE UNCHANGED <<torn, older>>
  BY <1>3 DEF Compile, Download
<1>4. ASSUME NEW c \in Clients, Download(c) PROVE Begin(c, FALSE) /\ client = None
  BY <1>4 DEF Download
<1>5. CASE UNCHANGED <<stageVars, bundleVars, client, torn, older>>
  BY <1>5 DEF stageVars, stageProc, bundleVars, bundleProc
<1>6. CASE Stage /\ StageStep /\ UNCHANGED bundleVars
  <2>1. step # "idle" /\ UNCHANGED <<client, torn, older>> /\ client # None
    BY <1>6 DEF Stage, requestVars, StageStep, Check, Wipe, MakeBin, CopyBin, CopyShare, Chmod, Probe,
                  At
  <2> QED BY <1>6, <2>1 DEF bundleVars, bundleProc
<1>7. CASE Stage /\ BundleStep /\ UNCHANGED stageVars
  <2>1. doing # "idle" /\ UNCHANGED <<client, torn, older, chain>> /\ client # None
    BY <1>7, StepKeepsChain
       DEF Stage, requestVars, BundleStep, Look, WipeStage, CopyPart, CopyFile, Unpack, Stamp,
           SetBits, ProbeDriver
  <2> QED BY <1>7, <2>1 DEF stageVars, stageProc
<1>8. CASE Done
  <2>1. /\ client' = None /\ step' = "idle" /\ doing' = "idle" /\ UNCHANGED <<torn, older>>
        /\ UNCHANGED <<chain, bundleDisk, left, partNow, copying, runs>> /\ UNCHANGED stageDisk
    BY <1>8 DEF Done, Leaves
  <2>2. IF chain = "sdcc" THEN step = "ready" /\ doing = "idle"
                          ELSE step = "idle" /\ doing \in {"ready", "raised"}
    BY <1>8 DEF Done, Ready
  <2> QED BY <2>1, <2>2 DEF BundleRests
<1>9. CASE Tick BY <1>9, <1>5 DEF Tick, requestVars
<1>10. CASE Crash
  BY <1>10 DEF Crash, StageForgets, BundleForgets
<1>11. CASE UNCHANGED vars BY <1>11, <1>5 DEF vars, requestVars
<1>12. CASE \E c \in Clients : Compile(c) \/ Download(c)
  BY <1>12, <1>1, <1>2, <1>3, <1>4, <1>5
<1>13. CASE Stage BY <1>13, <1>6, <1>7 DEF Stage
<1> QED BY <1>8, <1>9, <1>10, <1>11, <1>12, <1>13 DEF Next, Serve

\* Every step of the service keeps the staging invariant.
LEMMA StepKeepsStaging == StagingInv /\ [Next]_vars => StagingInv'
<1> SUFFICES ASSUME StagingInv, [Next]_vars PROVE StagingInv'
  OBVIOUS
<1> USE DEF StagingInv
<1>1. /\ AtWork' /\ chain' = chain /\ older' = older /\ (torn => torn')
      /\ \/ UNCHANGED bundleVars \/ BundleRests
         \/ chain # "sdcc" /\ (BundleStep \/ CallStage)
         \/ BundleForgets /\ (torn' \/ doing \in {"idle", "look", "probe", "ready"})
      /\ \/ UNCHANGED stageVars \/ (chain = "sdcc" /\ StageStep)
         \/ /\ UNCHANGED stageDisk /\ step' \in {"idle", "check"}
            /\ torn' \/ step \in {"idle", "check", "staged", "ready"}
  BY StepStages
<1>2. BundleInv'
  <2>1. CASE UNCHANGED bundleVars BY <2>1, StepKeepsBundle
  <2>2. CASE BundleRests BY <2>2, RestKeeps
  <2>3. CASE BundleStep \/ CallStage \/ BundleForgets BY <2>3, StepKeepsBundle
  <2> QED BY <1>1, <2>1, <2>2, <2>3
<1>3. ASSUME ~torn', chain = "sdcc" PROVE StageInv'
  <2>1. StageInv BY <1>1, <1>3
  <2>2. CASE UNCHANGED stageVars
    BY <2>1, <2>2 DEF StageInv, StageTypeOK, stageVars, stageDisk, stageProc, Vacant, Older, Full,
                      Complete, CopyingBin, CopyingShare, SettingBits, InStage
  <2>3. CASE StageStep BY <2>1, <2>3, StageStepHolds
  <2>4. CASE /\ UNCHANGED stageDisk /\ step' \in {"idle", "check"}
             /\ step \in {"idle", "check", "staged", "ready"}
    BY <2>1, <2>4 DEF StageInv, StageTypeOK, stageDisk, Vacant, Older, Full, Complete
  <2> QED BY <1>1, <1>3, <2>2, <2>3, <2>4
<1>4. ASSUME ~torn', chain # "sdcc", ~(older /\ ~Stamped) PROVE CleanBundle'
  <2>1. CleanBundle BY <1>1, <1>4
  <2>2. CASE UNCHANGED bundleVars
    BY <2>1, <2>2 DEF CleanBundle, CopyInv, bundleVars, bundleDisk, bundleProc, Stamped, Staged,
         Empty,
         BundleComplete, PartsWhole, PartInHand, PartsLeft, StampedWhole,
         OneAtATime, OthersUnpacked, Whole, Copied, InHand, In, Compressed
  <2>3. CASE BundleRests BY <2>1, <2>3, RestKeeps
  <2>4. CASE BundleStep \/ CallStage BY <2>1, <2>4, CleanStepHolds
  <2>5. CASE BundleForgets /\ doing \in {"idle", "look", "probe", "ready"}
    BY <2>1, <2>5, RestKeeps
  <2> QED BY <1>1, <1>4, <2>2, <2>3, <2>4, <2>5
<1>5. ASSUME ~torn', chain # "sdcc", older, ~Stamped PROVE KeptBundle'
  <2>1. KeptBundle BY <1>1, <1>5
  <2>2. CASE UNCHANGED bundleVars
    BY <2>1, <2>2 DEF KeptBundle, OldStage, bundleVars, bundleDisk, bundleProc, Stamped
  <2>3. CASE BundleRests BY <2>1, <2>3, RestKeeps
  <2>4. CASE BundleStep \/ CallStage BY <2>1, <2>4, <1>5, KeptStepHolds
  <2>5. CASE BundleForgets /\ doing \in {"idle", "look", "probe", "ready"}
    BY <2>1, <2>5, RestKeeps
  <2> QED BY <1>1, <1>5, <2>2, <2>3, <2>4, <2>5
<1>6. Stamped' = Stamped BY <1>1 DEF Stamped
<1> QED BY <1>1, <1>2, <1>3, <1>4, <1>5, <1>6

\* Nothing has been asked yet.
LEMMA InitStages == Init => StagingInv
<1> SUFFICES ASSUME Init PROVE StagingInv
  OBVIOUS
<1>1. BundleInv BY BundleInitHolds DEF Init
<1>2. StageInv BY StageInitHolds DEF Init
<1>4. ~(older /\ ~Stamped) => CleanBundle BY CleanInitHolds DEF Init
<1>5. older => chain # "sdcc" /\ KeptBundle
  BY ServiceAssumption DEF Init, BundleInit, NoStage, KeptBundle
<1>3. AtWork BY DEF Init, AtWork, StageInit, BundleInit
<1>6. ~torn BY DEF Init
<1> QED BY <1>1, <1>2, <1>3, <1>4, <1>5, <1>6 DEF StagingInv

\* At most one compile is in progress, and the slots taken are the compiles in
\* progress: an exception in the build gives its slot back.
THEOREM SlotsAlwaysCounted == Spec => []SlotsCounted
<1>1. Init => RequestInv BY DEF Init, GuardInit, RequestInv, SlotsCounted
<1>2. RequestInv => SlotsCounted BY DEF RequestInv
<1> QED BY <1>1, <1>2, StepKeepsRequest, PTL DEF Spec

\* A stage that no process has died in is complete when a compile uses it,
\* for every toolchain and over what an older bundle has left; only an older
\* stage without a stamp is used, and stays, as it was left.
THEOREM UninterruptedAlwaysComplete == Spec => []UninterruptedComplete
<1>1. StagingInv => UninterruptedComplete
  BY DEF StagingInv, UninterruptedComplete, Unrenewed, KeptBundle, Ready, Usable, StageInv, Full,
         CleanBundle, CopyInv
<1> QED BY <1>1, InitStages, StepKeepsStaging, PTL DEF Spec

\* In the service too the stamp of the AVR stage tells the truth, through
\* every death of the process and every request.
THEOREM ServiceStampTells == Spec => []StampTellsTheBundle
<1>1. StagingInv => StampTellsTheBundle
  BY DEF StagingInv, BundleInv, StampInv, StampTellsTheBundle
<1> QED BY <1>1, InitStages, StepKeepsStaging, PTL DEF Spec

-----------------------------------------------------------------------------
(* Sliding the window over times that stand in order. *)

\* The times outside the window are the first ones.
LEMMA OverComesFirst ==
    ASSUME NEW t \in Nat, NEW s, Timed(s, t), NEW u \in Nat
    PROVE  /\ OverAt(u, s) \in 0..Len(s)
           /\ \A i \in 1..Len(s) : s[i] <= u - Window <=> i <= OverAt(u, s)
<1> DEFINE S == {i \in 1..Len(s) : s[i] <= u - Window}
           n == Cardinality(S)
<1>1. Len(s) \in Nat /\ \A i \in 1..Len(s) : s[i] \in Nat BY DEF Timed
<1>2. IsFiniteSet(1..Len(s)) /\ Cardinality(1..Len(s)) = Len(s)
  <2>1. \A b \in Nat : IsFiniteSet(1..b) /\ Cardinality(1..b) = b BY FS_Interval
  <2> QED BY <1>1, <2>1
<1>3. S \subseteq 1..Len(s) OBVIOUS
<1>4. IsFiniteSet(S) /\ n <= Len(s) /\ n \in Nat
  BY <1>2, <1>3, FS_Subset, FS_CardinalityType
<1>5. ASSUME NEW i \in S PROVE i \in 1..n
  <2>1. 1..i \subseteq S BY <1>1, <1>5, GuardAssumption DEF Timed
  <2>2. Cardinality(1..i) <= n BY <2>1, <1>4, FS_Subset
  <2>3. Cardinality(1..i) = i BY <1>1, <1>5, FS_Interval
  <2> QED BY <2>2, <2>3, <1>1
<1>6. IsFiniteSet(1..n) /\ Cardinality(1..n) = n BY <1>4, FS_Interval
<1>7. S = 1..n BY <1>5, <1>6, FS_Subset
<1>8. OverAt(u, s) = n BY DEF OverAt
<1> QED BY <1>1, <1>4, <1>7, <1>8

\* What is in the window is known from the last time that is not.
LEMMA FreshFrom ==
    ASSUME NEW t \in Nat, NEW s, Timed(s, t), NEW u \in Nat, NEW k \in 0..Len(s),
           \A i \in 1..Len(s) : s[i] <= u - Window <=> i <= k
    PROVE  OverAt(u, s) = k
<1>1. Len(s) \in Nat BY DEF Timed
<1>2. /\ OverAt(u, s) \in 0..Len(s)
      /\ \A i \in 1..Len(s) : s[i] <= u - Window <=> i <= OverAt(u, s)
  BY OverComesFirst
<1>3. ~(OverAt(u, s) < k)
  <2> SUFFICES ASSUME OverAt(u, s) < k PROVE FALSE OBVIOUS
  <2>1. k \in 1..Len(s) BY <1>1, <1>2
  <2> QED BY <1>2, <2>1
<1>4. ~(k < OverAt(u, s))
  <2> SUFFICES ASSUME k < OverAt(u, s) PROVE FALSE OBVIOUS
  <2>1. OverAt(u, s) \in 1..Len(s) BY <1>1, <1>2
  <2> QED BY <1>2, <2>1
<1> QED BY <1>1, <1>2, <1>3, <1>4

\* The times in the window: how many, which, and that they are in order.
LEMMA FreshTimes ==
    ASSUME NEW t \in Nat, NEW s, Timed(s, t), NEW u \in Nat
    PROVE  /\ Len(FreshAt(u, s)) = Len(s) - OverAt(u, s)
           /\ \A i \in 1..Len(FreshAt(u, s)) : /\ FreshAt(u, s)[i] = s[OverAt(u, s) + i]
                                             /\ FreshAt(u, s)[i] > u - Window
           /\ Timed(FreshAt(u, s), t)
<1> DEFINE k == OverAt(u, s)
<1>1. Len(s) \in Nat /\ (\A i \in 1..Len(s) : s[i] \in Nat) /\ s \in Seq(Nat) BY DEF Timed
<1>2. k \in 0..Len(s) /\ \A i \in 1..Len(s) : s[i] <= u - Window <=> i <= k
  BY OverComesFirst
<1> HIDE DEF k
<1>3. /\ SubSeq(s, k + 1, Len(s)) \in Seq(Nat)
      /\ Len(SubSeq(s, k + 1, Len(s))) = Len(s) - k
      /\ \A i \in 1..(Len(s) - k) : SubSeq(s, k + 1, Len(s))[i] = s[k + i]
  BY <1>1, <1>2
<1>4. FreshAt(u, s) = SubSeq(s, k + 1, Len(s)) BY DEF FreshAt, k
<1>5. \A i \in 1..(Len(s) - k) : FreshAt(u, s)[i] = s[k + i] /\ FreshAt(u, s)[i] > u - Window
  BY <1>1, <1>2, <1>3, <1>4, GuardAssumption
<1>6. Timed(FreshAt(u, s), t)
  BY <1>1, <1>2, <1>3, <1>4 DEF Timed
<1> QED BY <1>3, <1>4, <1>5, <1>6 DEF k

\* As the clock goes on, the window of a window is the window.
LEMMA FreshLater ==
    ASSUME NEW t \in Nat, NEW s, Timed(s, t), NEW u \in Nat, NEW v \in Nat, u <= v
    PROVE  FreshAt(v, FreshAt(u, s)) = FreshAt(v, s)
<1> DEFINE f == FreshAt(u, s)
           k == OverAt(u, s)
           m == OverAt(v, s)
<1>1. Len(s) \in Nat /\ (\A i \in 1..Len(s) : s[i] \in Nat) /\ s \in Seq(Nat) BY DEF Timed
<1>2. k \in 0..Len(s) /\ \A i \in 1..Len(s) : s[i] <= u - Window <=> i <= k
  BY OverComesFirst
<1>3. m \in 0..Len(s) /\ \A i \in 1..Len(s) : s[i] <= v - Window <=> i <= m
  BY OverComesFirst
<1>4. /\ Timed(f, t) /\ Len(f) = Len(s) - k
      /\ \A i \in 1..Len(f) : f[i] = s[k + i]
  BY FreshTimes
<1> HIDE DEF f, k, m
<1>5. k <= m
  <2> SUFFICES ASSUME m < k PROVE FALSE BY <1>2, <1>3
  <2>1. k \in 1..Len(s) BY <1>1, <1>2, <1>3
  <2> QED BY <2>1, <1>1, <1>2, <1>3, GuardAssumption
<1>6. OverAt(v, f) = m - k
  <2>1. m - k \in 0..Len(f) BY <1>1, <1>2, <1>3, <1>4, <1>5
  <2>2. ASSUME NEW i \in 1..Len(f) PROVE f[i] <= v - Window <=> i <= m - k
    <3>1. k + i \in 1..Len(s) /\ f[i] = s[k + i] BY <1>1, <1>2, <1>4
    <3> QED BY <3>1, <1>1, <1>2, <1>3
  <2> QED BY <2>1, <2>2, <1>4, FreshFrom
<1>7. /\ Timed(FreshAt(v, f), t) /\ Len(FreshAt(v, f)) = Len(s) - m
      /\ \A i \in 1..Len(FreshAt(v, f)) : FreshAt(v, f)[i] = f[m - k + i]
  <2>1. /\ Timed(FreshAt(v, f), t) /\ Len(FreshAt(v, f)) = Len(f) - OverAt(v, f)
        /\ \A i \in 1..Len(FreshAt(v, f)) : FreshAt(v, f)[i] = f[OverAt(v, f) + i]
    BY <1>4, FreshTimes
  <2>2. Len(f) - (m - k) = Len(s) - m BY <1>1, <1>2, <1>3, <1>4
  <2> QED BY <2>1, <2>2, <1>6
<1>8. /\ Timed(FreshAt(v, s), t) /\ Len(FreshAt(v, s)) = Len(s) - m
      /\ \A i \in 1..Len(FreshAt(v, s)) : FreshAt(v, s)[i] = s[m + i]
  BY FreshTimes DEF m
<1>9. ASSUME NEW i \in 1..(Len(s) - m) PROVE FreshAt(v, f)[i] = FreshAt(v, s)[i]
  <2>1. m - k + i \in 1..Len(f) BY <1>1, <1>2, <1>3, <1>4, <1>5
  <2>2. f[m - k + i] = s[k + (m - k + i)] BY <2>1, <1>4
  <2>3. k + (m - k + i) = m + i BY <1>1, <1>2, <1>3
  <2> QED BY <1>7, <1>8, <2>2, <2>3
<1>10. FreshAt(v, f) \in Seq(Nat) /\ FreshAt(v, s) \in Seq(Nat) BY <1>7, <1>8 DEF Timed
<1>11. FreshAt(v, f) = FreshAt(v, s) BY <1>7, <1>8, <1>9, <1>10, SeqEqual
<1> QED BY <1>11 DEF f

\* A request accepted now is in the window, after those that were.
LEMMA FreshAppend ==
    ASSUME NEW t \in Nat, NEW s, Timed(s, t)
    PROVE  /\ Timed(Append(s, t), t)
           /\ FreshAt(t, Append(s, t)) = Append(FreshAt(t, s), t)
<1> DEFINE a == Append(s, t)
           k == OverAt(t, s)
           f == FreshAt(t, s)
<1>1. Len(s) \in Nat /\ (\A i \in 1..Len(s) : s[i] \in Nat) /\ s \in Seq(Nat) BY DEF Timed
<1>2. /\ a \in Seq(Nat) /\ Len(a) = Len(s) + 1 /\ a[Len(s) + 1] = t
      /\ \A i \in 1..Len(s) : a[i] = s[i]
  BY <1>1
<1> HIDE DEF a
<1>3. Timed(a, t)
  <2>1. \A i \in 1..Len(a) : a[i] <= t /\ a[i] \in Nat /\ (i = Len(s) + 1 \/ i \in 1..Len(s))
    BY <1>1, <1>2 DEF Timed
  <2>2. ASSUME NEW i \in 1..Len(a), NEW j \in 1..Len(a), i <= j PROVE a[i] <= a[j]
    <3>1. CASE j = Len(s) + 1 BY <3>1, <1>2, <2>1
    <3>2. CASE j \in 1..Len(s)
      <4>1. i \in 1..Len(s) BY <3>2, <2>2, <1>1, <1>2
      <4> QED BY <3>2, <4>1, <2>2, <1>2 DEF Timed
    <3> QED BY <2>1, <3>1, <3>2
  <2> QED BY <1>2, <2>1, <2>2 DEF Timed
<1>4. k \in 0..Len(s) /\ \A i \in 1..Len(s) : s[i] <= t - Window <=> i <= k
  BY OverComesFirst
<1>5. Timed(f, t) /\ Len(f) = Len(s) - k /\ \A i \in 1..Len(f) : f[i] = s[k + i]
  BY FreshTimes
<1> HIDE DEF k, f
<1>6. OverAt(t, a) = k
  <2>1. k \in 0..Len(a) BY <1>1, <1>2, <1>4
  <2>2. ASSUME NEW i \in 1..Len(a) PROVE a[i] <= t - Window <=> i <= k
    <3>1. CASE i \in 1..Len(s) BY <3>1, <1>2, <1>4
    <3>2. CASE i = Len(s) + 1 BY <3>2, <1>1, <1>2, <1>4, GuardAssumption
    <3> QED BY <3>1, <3>2, <1>1, <1>2
  <2> QED BY <2>1, <2>2, <1>3, FreshFrom
<1>7. /\ Timed(FreshAt(t, a), t) /\ Len(FreshAt(t, a)) = Len(s) + 1 - k
      /\ \A i \in 1..Len(FreshAt(t, a)) : FreshAt(t, a)[i] = a[k + i]
  <2>1. /\ Timed(FreshAt(t, a), t) /\ Len(FreshAt(t, a)) = Len(a) - OverAt(t, a)
        /\ \A i \in 1..Len(FreshAt(t, a)) : FreshAt(t, a)[i] = a[OverAt(t, a) + i]
    BY <1>3, FreshTimes
  <2>2. Len(a) - OverAt(t, a) = Len(s) + 1 - k BY <1>1, <1>2, <1>4, <1>6
  <2> QED BY <2>1, <2>2, <1>6
<1>8. f \in Seq(Nat) /\ FreshAt(t, a) \in Seq(Nat) BY <1>5, <1>7 DEF Timed
<1>9. /\ Append(f, t) \in Seq(Nat) /\ Len(Append(f, t)) = Len(s) + 1 - k
      /\ Append(f, t)[Len(f) + 1] = t /\ \A i \in 1..Len(f) : Append(f, t)[i] = f[i]
  BY <1>1, <1>4, <1>5, <1>8
<1>10. ASSUME NEW i \in 1..(Len(s) + 1 - k) PROVE FreshAt(t, a)[i] = Append(f, t)[i]
  <2>1. CASE i \in 1..Len(f)
    <3>1. k + i \in 1..Len(s) BY <2>1, <1>1, <1>4, <1>5
    <3> QED BY <2>1, <3>1, <1>2, <1>5, <1>7, <1>9
  <2>2. CASE i = Len(f) + 1
    <3>1. k + i = Len(s) + 1 BY <2>2, <1>1, <1>4, <1>5
    <3> QED BY <2>2, <3>1, <1>2, <1>7, <1>9
  <2>3. Len(f) \in Nat /\ Len(s) + 1 - k = Len(f) + 1 BY <1>1, <1>4, <1>5
  <2>4. i \in 1..Len(f) \/ i = Len(f) + 1 BY <2>3
  <2> QED BY <2>1, <2>2, <2>4
<1>11. FreshAt(t, a) = Append(f, t) BY <1>7, <1>8, <1>9, <1>10, SeqEqual
<1> QED BY <1>3, <1>11 DEF a, f

\* A time that is not in the window may be forgotten.
LEMMA FreshTail ==
    ASSUME NEW t \in Nat, NEW s, Timed(s, t), NEW u \in Nat, Len(s) >= 1, s[1] <= u - Window
    PROVE  Timed(Tail(s), t) /\ FreshAt(u, Tail(s)) = FreshAt(u, s)
<1> DEFINE r == Tail(s)
           k == OverAt(u, s)
<1>1. Len(s) \in Nat /\ (\A i \in 1..Len(s) : s[i] \in Nat) /\ s \in Seq(Nat) /\ s # <<>>
  BY DEF Timed
<1>2. r \in Seq(Nat) /\ Len(r) = Len(s) - 1 /\ \A i \in 1..Len(r) : r[i] = s[i + 1]
  BY <1>1, HeadTailProperties
<1> HIDE DEF r
<1>3. \A i \in 1..Len(r) : i + 1 \in 1..Len(s) BY <1>1, <1>2
<1>4. Timed(r, t)
  <2>1. \A i \in 1..Len(r) : r[i] <= t BY <1>2, <1>3 DEF Timed
  <2>2. ASSUME NEW i \in 1..Len(r), NEW j \in 1..Len(r), i <= j PROVE r[i] <= r[j]
    <3>1. s[i + 1] <= s[j + 1] BY <1>3, <2>2 DEF Timed
    <3> QED BY <3>1, <1>2
  <2> QED BY <1>2, <2>1, <2>2 DEF Timed
<1>5. k \in 0..Len(s) /\ \A i \in 1..Len(s) : s[i] <= u - Window <=> i <= k
  BY OverComesFirst
<1> HIDE DEF k
<1>6. k >= 1 BY <1>1, <1>5
<1>7. OverAt(u, r) = k - 1
  <2>1. k - 1 \in 0..Len(r) BY <1>1, <1>2, <1>5, <1>6
  <2>2. ASSUME NEW i \in 1..Len(r) PROVE r[i] <= u - Window <=> i <= k - 1
    <3>1. i + 1 \in 1..Len(s) /\ r[i] = s[i + 1] BY <1>2, <1>3
    <3>2. s[i + 1] <= u - Window <=> i + 1 <= k BY <3>1, <1>5
    <3> QED BY <3>1, <3>2, <1>1, <1>5
  <2> QED BY <2>1, <2>2, <1>4, FreshFrom
<1>8. /\ Timed(FreshAt(u, r), t) /\ Len(FreshAt(u, r)) = Len(s) - k
      /\ \A i \in 1..Len(FreshAt(u, r)) : FreshAt(u, r)[i] = r[k - 1 + i]
  <2>1. /\ Timed(FreshAt(u, r), t) /\ Len(FreshAt(u, r)) = Len(r) - OverAt(u, r)
        /\ \A i \in 1..Len(FreshAt(u, r)) : FreshAt(u, r)[i] = r[OverAt(u, r) + i]
    BY <1>4, FreshTimes
  <2>2. Len(r) - (k - 1) = Len(s) - k BY <1>1, <1>2, <1>5
  <2> QED BY <2>1, <2>2, <1>7
<1>9. /\ Timed(FreshAt(u, s), t) /\ Len(FreshAt(u, s)) = Len(s) - k
      /\ \A i \in 1..Len(FreshAt(u, s)) : FreshAt(u, s)[i] = s[k + i]
  BY FreshTimes DEF k
<1>10. ASSUME NEW i \in 1..(Len(s) - k) PROVE FreshAt(u, r)[i] = FreshAt(u, s)[i]
  <2>1. k - 1 + i \in 1..Len(r) /\ (k - 1 + i) + 1 = k + i BY <1>1, <1>2, <1>5, <1>6
  <2> QED BY <2>1, <1>2, <1>8, <1>9
<1>11. FreshAt(u, r) \in Seq(Nat) /\ FreshAt(u, s) \in Seq(Nat) BY <1>8, <1>9 DEF Timed
<1>12. FreshAt(u, r) = FreshAt(u, s) BY <1>8, <1>9, <1>10, <1>11, SeqEqual
<1> QED BY <1>4, <1>12 DEF r

-----------------------------------------------------------------------------
(* What is done to the times of one address. *)

\* An empty list has nothing in the window.
LEMMA NothingFresh ==
    ASSUME NEW t \in Nat PROVE Timed(<<>>, t) /\ FreshAt(t, <<>>) = <<>>
<1>1. Timed(<<>>, t) BY DEF Timed
<1>2. Timed(FreshAt(t, <<>>), t) /\ Len(FreshAt(t, <<>>)) = 0 - OverAt(t, <<>>)
      /\ OverAt(t, <<>>) \in 0..0
  BY <1>1, FreshTimes, OverComesFirst
<1>3. FreshAt(t, <<>>) \in Seq(Nat) /\ Len(FreshAt(t, <<>>)) = 0 BY <1>2 DEF Timed
<1> QED BY <1>1, <1>3, EmptySeq

\* A budget nothing has been taken from.
LEMMA BudgetBegins == ASSUME NEW t \in Nat PROVE Budget(t, <<>>, <<>>)
BY NothingFresh, GuardAssumption DEF Budget

\* Time passing keeps the budget.
LEMMA BudgetTicks ==
    ASSUME NEW t \in Nat, NEW h, NEW r, Budget(t, h, r)
    PROVE  Budget(t + 1, h, r)
<1>1. Timed(h, t + 1) /\ Timed(r, t + 1) BY DEF Budget, Timed
<1>2. t + 1 \in Nat /\ t <= t + 1 OBVIOUS
<1>3. /\ FreshAt(t + 1, h) = FreshAt(t + 1, FreshAt(t, h))
      /\ FreshAt(t + 1, r) = FreshAt(t + 1, FreshAt(t, r))
  BY <1>2, FreshLater DEF Budget
<1>4. Timed(FreshAt(t, r), t) BY FreshTimes DEF Budget
<1>5. /\ Len(FreshAt(t + 1, FreshAt(t, r))) = Len(FreshAt(t, r)) - OverAt(t + 1, FreshAt(t, r))
      /\ OverAt(t + 1, FreshAt(t, r)) \in 0..Len(FreshAt(t, r))
  BY <1>2, <1>4, FreshTimes, OverComesFirst
<1>6. Len(FreshAt(t, r)) \in Nat BY <1>4 DEF Timed
<1>7. Len(FreshAt(t + 1, r)) <= MaxPerIp
  BY <1>3, <1>5, <1>6, GuardAssumption DEF Budget
<1> QED BY <1>1, <1>3, <1>7 DEF Budget

\* So does a refusal, which writes back the times still in the window.
LEMMA BudgetRefuses ==
    ASSUME NEW t \in Nat, NEW h, NEW r, Budget(t, h, r)
    PROVE  Budget(t, FreshAt(t, h), r)
<1>1. Timed(FreshAt(t, h), t) BY FreshTimes DEF Budget
<1>2. FreshAt(t, FreshAt(t, h)) = FreshAt(t, h) BY FreshLater DEF Budget
<1> QED BY <1>1, <1>2 DEF Budget

\* An address is dropped when its last request is out of the window.
LEMMA BudgetDrops ==
    ASSUME NEW t \in Nat, NEW h, NEW r, Budget(t, h, r), h = <<>> \/ h[Len(h)] <= t - Window
    PROVE  Budget(t, <<>>, r)
<1>1. Timed(h, t) /\ h \in Seq(Nat) /\ Len(h) \in Nat BY DEF Budget, Timed
<1>2. FreshAt(t, h) = <<>>
  <2>1. CASE h = <<>> BY <2>1, NothingFresh
  <2>2. CASE h # <<>>
    <3>1. Len(h) \in 1..Len(h) BY <2>2, <1>1, EmptySeq
    <3>2. Len(h) <= OverAt(t, h) /\ OverAt(t, h) \in 0..Len(h)
      BY <2>2, <3>1, <1>1, OverComesFirst
    <3>3. Len(FreshAt(t, h)) = Len(h) - OverAt(t, h) /\ Timed(FreshAt(t, h), t)
      BY <1>1, FreshTimes
    <3>4. Len(FreshAt(t, h)) = 0 /\ FreshAt(t, h) \in Seq(Nat) BY <3>2, <3>3, <1>1 DEF Timed
    <3> QED BY <3>4, EmptySeq
  <2> QED BY <2>1, <2>2
<1> QED BY <1>2, NothingFresh DEF Budget

\* A request is accepted: of MaxPerIp + 1 requests the first is by then out of
\* the window.
LEMMA BudgetAccepts ==
    ASSUME NEW t \in Nat, NEW h, NEW r, Budget(t, h, r), Len(FreshAt(t, h)) < MaxPerIp,
           NEW q, q = IF Len(Append(r, t)) > MaxPerIp + 1 THEN Tail(Append(r, t)) ELSE Append(r, t)
    PROVE  Budget(t, Append(FreshAt(t, h), t), q)
<1> DEFINE a == Append(r, t)
           f == FreshAt(t, h)
           k == OverAt(t, r)
<1>m. MaxPerIp \in Nat \ {0} /\ Window \in Nat \ {0} BY GuardAssumption
<1>1. /\ Timed(h, t) /\ Timed(r, t) /\ r \in Seq(Nat) /\ Len(r) \in Nat /\ f = FreshAt(t, r)
      /\ Len(r) <= MaxPerIp + 1
  BY DEF Budget, Timed
<1>2. Timed(a, t) /\ FreshAt(t, a) = Append(f, t) BY <1>1, FreshAppend
<1>3. Timed(f, t) /\ FreshAt(t, f) = f BY <1>1, FreshTimes, FreshLater
<1>4. Timed(Append(f, t), t) /\ FreshAt(t, Append(f, t)) = Append(f, t)
  BY <1>3, FreshAppend
<1>5. Len(a) = Len(r) + 1 /\ a[Len(r) + 1] = t /\ \A i \in 1..Len(r) : a[i] = r[i]
  BY <1>1
<1>6. /\ k \in 0..Len(r) /\ Len(f) = Len(r) - k
      /\ \A i \in 1..Len(r) : r[i] <= t - Window <=> i <= k
  BY <1>1, OverComesFirst, FreshTimes
<1>7. Len(Append(f, t)) = Len(f) + 1 /\ Len(f) < MaxPerIp /\ Len(f) \in Nat
  BY <1>3 DEF Timed
<1>8. a \in Seq(Nat) BY <1>2 DEF Timed
<1> HIDE DEF a, f, k
<1>9. CASE Len(a) > MaxPerIp + 1
  <2>1. q = Tail(a) BY <1>9 DEF a
  <2>2. Len(r) = MaxPerIp + 1 /\ k >= 2 BY <1>9, <1>1, <1>5, <1>6, <1>7, <1>m
  <2>3. 1 \in 1..Len(r) /\ 2 \in 1..Len(r) BY <2>2, <1>m
  <2>4. r[1] <= t - Window /\ r[2] <= t - Window BY <2>2, <2>3, <1>6
  <2>5. a[1] <= t - Window /\ Len(a) >= 1 BY <2>3, <2>4, <1>5, <1>1
  <2>6. Timed(q, t) /\ FreshAt(t, q) = Append(f, t) BY <2>1, <2>5, <1>2, FreshTail
  <2>7. Len(q) = Len(a) - 1 /\ \A i \in 1..Len(q) : q[i] = a[i + 1]
    <3>1. a # <<>> BY <2>5, <1>5, <1>1, EmptySeq
    <3> QED BY <2>1, <3>1, <1>8, HeadTailProperties
  <2>8. Len(q) = MaxPerIp + 1 BY <2>2, <2>7, <1>5, <1>m
  <2>9. q[1] = r[2] /\ q[MaxPerIp + 1] = t
    <3>1. 1 \in 1..Len(q) /\ MaxPerIp + 1 \in 1..Len(q) BY <2>8, <1>m
    <3>2. q[1] = a[1 + 1] /\ q[MaxPerIp + 1] = a[MaxPerIp + 1 + 1] BY <3>1, <2>7
    <3> QED BY <3>2, <2>2, <2>3, <1>5
  <2>10. r[2] \in Nat BY <2>3, <1>1
  <2>11. t - r[2] >= Window BY <2>4, <2>10, <1>m
  <2>12. q[MaxPerIp + 1] - q[1] >= Window BY <2>9, <2>11
  <2> QED BY <2>6, <2>8, <2>12, <1>4, <1>7, <1>m DEF Budget, f
<1>10. CASE ~(Len(a) > MaxPerIp + 1)
  <2>1. q = a BY <1>10 DEF a
  <2>2. ASSUME Len(a) > MaxPerIp PROVE a[MaxPerIp + 1] - a[1] >= Window
    <3>1. Len(r) = MaxPerIp /\ k >= 1
      <4>1. Len(r) = MaxPerIp BY <2>2, <1>10, <1>1, <1>5, <1>m
      <4>2. Len(f) = MaxPerIp - k BY <4>1, <1>6
      <4> QED BY <4>1, <4>2, <1>6, <1>7, <1>m
    <3>2. 1 \in 1..Len(r) BY <3>1, <1>m
    <3>3. r[1] <= t - Window /\ r[1] \in Nat BY <3>1, <3>2, <1>1, <1>6
    <3>4. a[1] = r[1] /\ a[MaxPerIp + 1] = t BY <3>1, <3>2, <1>5
    <3>5. t - r[1] >= Window BY <3>3, <1>m
    <3> QED BY <3>4, <3>5
  <2>3. Len(a) <= MaxPerIp + 1 BY <1>10, <1>1, <1>5, <1>m
  <2>4. Len(FreshAt(t, a)) <= MaxPerIp BY <1>2, <1>7, <1>m
  <2> QED BY <2>1, <2>2, <2>3, <2>4, <1>2, <1>4 DEF Budget, f
<1> QED BY <1>9, <1>10

-----------------------------------------------------------------------------
(* The table of the guard. *)

\* The addresses with nothing in the window may be dropped from the table.
LEMMA DropKeeps ==
    ASSUME NEW t \in Nat, t = now, NEW table, DOMAIN table \subseteq Clients,
           hits' = DropIdle(table)
    PROVE  /\ DOMAIN hits' \subseteq Clients
           /\ \A a \in Clients : \A r :
                LET h == IF a \in DOMAIN table THEN table[a] ELSE <<>>
                IN  Budget(t, h, r) => Budget(t, Hits(a)', r)
<1> DEFINE Kept == {b \in DOMAIN table : table[b] # <<>> /\ Last(table[b]) > Cutoff}
<1>1. CASE hits' = table BY <1>1 DEF Hits
<1>2. CASE hits' = [a \in Kept |-> table[a]]
  <2>1. DOMAIN hits' = Kept BY <1>2
  <2>2. ASSUME NEW a \in Clients, NEW r,
               Budget(t, IF a \in DOMAIN table THEN table[a] ELSE <<>>, r)
        PROVE  Budget(t, Hits(a)', r)
    <3>1. CASE a \in Kept
      <4>1. Hits(a)' = table[a] /\ a \in DOMAIN table BY <3>1, <1>2, <2>1 DEF Hits
      <4> QED BY <4>1, <2>2
    <3>2. CASE a \notin Kept
      <4>1. Hits(a)' = <<>> BY <3>2, <2>1 DEF Hits
      <4>2. CASE a \notin DOMAIN table BY <2>2, <4>1, <4>2
      <4>3. CASE a \in DOMAIN table
        <5>1. Budget(t, table[a], r) BY <2>2, <4>3
        <5>2. CASE table[a] = <<>> BY <4>1, <5>1, <5>2
        <5>3. CASE table[a] # <<>>
          <6>1. table[a] \in Seq(Nat) BY <5>1 DEF Budget, Timed
          <6>2. Len(table[a]) \in 1..Len(table[a]) BY <5>3, <6>1, EmptySeq
          <6>3. table[a][Len(table[a])] \in Nat BY <6>1, <6>2
          <6>4. ~(table[a][Len(table[a])] > t - Window)
            BY <3>2, <4>3, <5>3 DEF Last, Cutoff
          <6>5. table[a][Len(table[a])] <= t - Window BY <6>3, <6>4, GuardAssumption
          <6> QED BY <4>1, <5>1, <6>5, BudgetDrops
        <5> QED BY <5>2, <5>3
      <4> QED BY <4>2, <4>3
    <3> QED BY <3>1, <3>2
  <2> QED BY <2>1, <2>2
<1> QED BY <1>1, <1>2 DEF DropIdle

\* Every step of the service keeps the budget of every address.
LEMMA StepKeepsWindow == WindowInv /\ [Next]_vars => WindowInv'
<1> SUFFICES ASSUME WindowInv, [Next]_vars PROVE WindowInv'
  OBVIOUS
<1> USE DEF WindowInv
<1>f. ASSUME NEW s PROVE Fresh(s) = FreshAt(now, s)
  BY DEF Fresh, Over, FreshAt, OverAt, Cutoff
<1>1. ASSUME NEW c \in Clients, Accept(c), now' = now PROVE WindowInv'
  <2> DEFINE f == Append(FreshAt(now, Hits(c)), now)
             table == With(c, f)
             all == Append(recent[c], now)
             q == IF Len(all) > MaxPerIp + 1 THEN Tail(all) ELSE all
  <2>1. /\ Len(FreshAt(now, Hits(c))) < MaxPerIp /\ hits' = DropIdle(table)
        /\ recent' = [recent EXCEPT ![c] = q]
    BY <1>1, <1>f DEF Accept
  <2>2. Budget(now, f, q) BY <2>1, BudgetAccepts
  <2>3. DOMAIN table \subseteq Clients BY DEF With
  <2>4. recent' \in [Clients -> Seq(Nat)]
    <3>1. q \in Seq(Nat) BY <2>2 DEF Budget, Timed
    <3> QED BY <2>1, <3>1
  <2>5. ASSUME NEW a \in Clients
        PROVE  Budget(now, IF a \in DOMAIN table THEN table[a] ELSE <<>>, recent'[a])
    <3>1. CASE a = c
      <4>1. a \in DOMAIN table /\ table[a] = f /\ recent'[a] = q BY <3>1, <2>1 DEF With
      <4> QED BY <4>1, <2>2
    <3>2. CASE a # c
      <4>1. (IF a \in DOMAIN table THEN table[a] ELSE <<>>) = Hits(a) /\ recent'[a] = recent[a]
        BY <3>2, <2>1 DEF With, Hits
      <4> QED BY <4>1
    <3> QED BY <3>1, <3>2
  <2> HIDE DEF table
  <2>6. DOMAIN hits' \subseteq Clients /\ \A a \in Clients : Budget(now, Hits(a)', recent'[a])
    BY <2>1, <2>3, <2>5, DropKeeps
  <2> QED BY <1>1, <2>4, <2>6
<1>2. ASSUME NEW c \in Clients, Refuse(c), now' = now PROVE WindowInv'
  <2> DEFINE f == FreshAt(now, Hits(c))
  <2>1. hits' = With(c, f) /\ recent' = recent BY <1>2, <1>f DEF Refuse
  <2>2. Budget(now, f, recent[c]) BY BudgetRefuses
  <2>3. DOMAIN hits' \subseteq Clients BY <2>1 DEF With
  <2>4. ASSUME NEW a \in Clients PROVE Budget(now, Hits(a)', recent'[a])
    <3>1. CASE a = c
      <4>1. Hits(a)' = f BY <3>1, <2>1 DEF With, Hits
      <4> QED BY <4>1, <3>1, <2>1, <2>2
    <3>2. CASE a # c
      <4>1. Hits(a)' = Hits(a) BY <3>2, <2>1 DEF With, Hits
      <4> QED BY <4>1, <2>1
    <3> QED BY <3>1, <3>2
  <2> QED BY <1>2, <2>1, <2>3, <2>4
<1>3. CASE Clock /\ UNCHANGED <<hits, recent>>
  BY <1>3, BudgetTicks DEF Clock, Hits
<1>4. CASE GuardForgets /\ UNCHANGED now
  BY <1>4, BudgetBegins DEF GuardForgets, Hits
<1>5. CASE UNCHANGED <<now, hits, recent>> BY <1>5 DEF Hits
<1>6. CASE \E c \in Clients : Compile(c) \/ Download(c)
  BY <1>6, <1>1, <1>2, <1>5 DEF Compile, Download, guardVars
<1>7. CASE Serve BY <1>7, <1>5 DEF Serve, Stage, Done, guardVars
<1>8. CASE Tick BY <1>8, <1>3 DEF Tick
<1>9. CASE Crash BY <1>9, <1>4 DEF Crash
<1>10. CASE UNCHANGED vars BY <1>10, <1>5 DEF vars, guardVars
<1> QED BY <1>6, <1>7, <1>8, <1>9, <1>10 DEF Next

\* The budget of every address is exact, for every window, budget and number
\* of addresses, and whatever the table has dropped: never more than MaxPerIp
\* requests accepted in a window, and no refusal before there are as many.
THEOREM WindowAlwaysHolds == Spec => []WindowHolds
<1>1. Init => WindowInv BY BudgetBegins DEF Init, GuardInit, WindowInv, Hits
<1>2. WindowInv => WindowHolds
  <2> SUFFICES ASSUME WindowInv, NEW c \in Clients, Len(Fresh(Hits(c))) >= MaxPerIp
               PROVE  Counted(c) >= MaxPerIp
    BY DEF WindowHolds, WindowInv, Budget
  <2> DEFINE r == recent[c]
             Late == {i \in 1..Len(r) : r[i] > Cutoff}
  <2>1. now \in Nat /\ Timed(r, now) /\ r \in Seq(Nat) /\ Len(r) \in Nat
    BY DEF WindowInv, Budget, Timed
  <2>2. Fresh(Hits(c)) = FreshAt(now, r)
    BY DEF WindowInv, Budget, Fresh, Over, FreshAt, OverAt, Cutoff
  <2>3. /\ OverAt(now, r) \in 0..Len(r) /\ Len(FreshAt(now, r)) = Len(r) - OverAt(now, r)
        /\ \A i \in 1..Len(r) : r[i] <= now - Window <=> i <= OverAt(now, r)
    BY <2>1, FreshTimes, OverComesFirst
  <2>4. Late = (OverAt(now, r) + 1)..Len(r)
    <3>1. ASSUME NEW i \in 1..Len(r) PROVE r[i] > Cutoff <=> OverAt(now, r) + 1 <= i
      <4>1. r[i] \in Nat /\ (r[i] <= now - Window <=> i <= OverAt(now, r)) BY <2>1, <2>3
      <4> QED BY <4>1, <2>1, <2>3, GuardAssumption DEF Cutoff
    <3>2. (OverAt(now, r) + 1)..Len(r) \subseteq 1..Len(r) BY <2>1, <2>3
    <3>3. ASSUME NEW i \in Late PROVE i \in (OverAt(now, r) + 1)..Len(r)
      BY <3>1, <3>3, <2>1, <2>3
    <3>4. ASSUME NEW i \in (OverAt(now, r) + 1)..Len(r) PROVE i \in Late
      <4>1. i \in 1..Len(r) /\ OverAt(now, r) + 1 <= i BY <3>2, <2>1, <2>3
      <4> QED BY <4>1, <3>1
    <3> QED BY <3>3, <3>4
  <2>5. \A a \in Nat, b \in Nat : a <= b => Cardinality((a + 1)..b) = b - a
    <3> SUFFICES ASSUME NEW a \in Nat, NEW b \in Nat, a <= b
                 PROVE  Cardinality((a + 1)..b) = b - a
      OBVIOUS
    <3>1. a + 1 \in Int /\ b \in Int OBVIOUS
    <3>2. Cardinality((a + 1)..b) = IF a + 1 > b THEN 0 ELSE b - (a + 1) + 1
      BY <3>1, FS_Interval
    <3> QED BY <3>2
  <2>6. Cardinality(Late) = Len(r) - OverAt(now, r)
    <3>1. OverAt(now, r) \in Nat /\ OverAt(now, r) <= Len(r) BY <2>1, <2>3
    <3> HIDE DEF Late
    <3> QED BY <2>1, <2>4, <2>5, <3>1
  <2> QED BY <2>2, <2>3, <2>6 DEF Counted
<1> QED BY <1>1, <1>2, StepKeepsWindow, PTL DEF Spec
=============================================================================
