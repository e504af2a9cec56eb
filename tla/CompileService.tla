--------------------------- MODULE CompileService ---------------------------
(***************************************************************************)
(* /compile and /download in one uvicorn process: the guard, the staging  *)
(* of the toolchain that the target needs, and the compile.  The handlers  *)
(* are async functions that never await, so a request runs from its        *)
(* arrival to its answer before the next one is looked at; what            *)
(* interleaves with it is the clock, and the death of the process.  The    *)
(* toolchains share no file, so one is looked at in each behaviour.        *)
(***************************************************************************)
EXTENDS RateGuard, SdccStage, BundleStage

CONSTANTS MaxCrashes \* bound: times the process dies

ASSUME ServiceAssumption == None \notin Clients /\ "sdcc" \notin Bundles

VARIABLES
    client,  \* the request being served: its address, or None
    guarded, \* it came by /compile, with the guard
    answer,  \* how the last request was answered
    crashes, \* times the process has died
    torn,    \* history: it has died while staging
    older    \* history: /tmp held an older bundle's stage of the toolchain

requestVars == <<client, guarded, answer>>
vars == <<guardVars, stageVars, bundleVars, requestVars, crashes, torn, older>>

Answers == {"none", "429", "503", "image", "error", "500"}

Init ==
    /\ GuardInit /\ StageInit
    /\ chain \in Bundles \cup {"sdcc"} /\ BundleInit
    /\ client = None /\ guarded = FALSE /\ answer = "none"
    /\ crashes = 0 /\ torn = FALSE /\ older = (dirs # {})

\* build() begins: stage_toolchain, or the target's stage function, is called
Begin(c, g) ==
    /\ client' = c /\ guarded' = g /\ answer' = "none"
    /\ IF chain = "sdcc"
         THEN /\ step' = "check" /\ UNCHANGED bundleVars
              /\ UNCHANGED <<stageDisk, todo, open, binOk, shareOk, probe>>
         ELSE CallStage /\ UNCHANGED stageVars

\* an answer without a build
Turned(a) == answer' = a /\ UNCHANGED <<stageVars, bundleVars, client, guarded, inflight>>

\* _guarded_build
Compile(c) ==
    /\ client = None
    /\ \/ Refuse(c) /\ Turned("429")
       \/ Accept(c) /\ IF SlotFree THEN TakeSlot /\ Begin(c, TRUE) ELSE Turned("503")
    /\ UNCHANGED <<now, crashes, torn, older>>

\* /download calls build() itself
Download(c) ==
    /\ client = None
    /\ Begin(c, FALSE)
    /\ UNCHANGED <<guardVars, crashes, torn, older>>

Stage ==
    /\ client # None
    /\ \/ StageStep /\ UNCHANGED bundleVars
       \/ BundleStep /\ UNCHANGED stageVars
    /\ UNCHANGED <<guardVars, requestVars, crashes, torn, older>>

\* the stage function has returned, or raised
Ready == IF chain = "sdcc" THEN step = "ready" ELSE doing \in {"ready", "raised"}
Usable == IF chain = "sdcc" THEN Complete ELSE BundleComplete

\* A complete stage compiles and one with something missing fails.  An sdcc
\* that cannot be executed raises; another driver that cannot is no toolchain.
Outcome ==
    IF doing = "raised" THEN "500"
    ELSE IF Usable THEN "image"
    ELSE IF chain = "sdcc" /\ bin[Sdcc] # "exec" THEN "500" ELSE "error"

Leaves ==
    /\ client' = None /\ guarded' = FALSE
    /\ step' = "idle" /\ doing' = "idle"
    /\ UNCHANGED <<stageDisk, todo, open, binOk, shareOk, probe>>
    /\ UNCHANGED <<chain, bundleDisk, left, partNow, copying, runs>>

\* mutant: the slot is only given back by a build that ends well
DoneNoFinally ==
    /\ client # None /\ Ready /\ Leaves /\ answer' = Outcome
    /\ IF guarded /\ answer' # "500" THEN GiveSlot ELSE UNCHANGED inflight
    /\ UNCHANGED <<now, hits, recent, crashes, torn, older>>

\* mutant: a failed compile is staged and tried again
DoneRetries ==
    /\ client # None /\ Ready /\ answer' = Outcome
    /\ IF Usable THEN Leaves /\ (IF guarded THEN GiveSlot ELSE UNCHANGED inflight)
       ELSE /\ IF chain = "sdcc"
                 THEN /\ step' = "check" /\ UNCHANGED bundleVars
                      /\ UNCHANGED <<stageDisk, todo, open, binOk, shareOk, probe>>
                 ELSE CallStage /\ UNCHANGED stageVars
            /\ UNCHANGED <<inflight, client, guarded>>
    /\ UNCHANGED <<now, hits, recent, crashes, torn, older>>

\* the compilers, and the finally
Done ==
    /\ client # None /\ Ready /\ Leaves /\ answer' = Outcome
    /\ IF guarded THEN GiveSlot ELSE UNCHANGED inflight
    /\ UNCHANGED <<now, hits, recent, crashes, torn, older>>

Tick ==
    /\ Clock
    /\ UNCHANGED <<hits, inflight, recent, stageVars, bundleVars, requestVars, crashes, torn, older>>

Crash ==
    /\ crashes < MaxCrashes /\ crashes' = crashes + 1
    /\ torn' = (torn \/ step \notin {"idle", "check", "staged", "ready"}
                     \/ doing \notin {"idle", "look", "probe", "ready"})
    /\ GuardForgets /\ StageForgets /\ BundleForgets
    /\ client' = None /\ guarded' = FALSE /\ answer' = "none"
    /\ UNCHANGED <<now, older>>

Serve == Stage \/ Done

Next == (\E c \in Clients : Compile(c) \/ Download(c)) \/ Serve \/ Tick \/ Crash

Spec == Init /\ [][Next]_vars

\* The process, while it lives, goes on with the request it has begun.
FairSpec == Spec /\ WF_vars(Serve)

-----------------------------------------------------------------------------

\* The count of compiles in progress is the number there are: a build that
\* ends in an exception gives its slot back, and /download has none.
SlotsCounted == inflight = IF client # None /\ guarded THEN 1 ELSE 0

\* What an older bundle left of a toolchain without a stamp is never looked
\* into: it is used as it was left.
Unrenewed == older /\ ~Stamped /\ OldStage

\* A stage that no death of the process has interrupted is complete whenever
\* it is used, over what an older bundle has left too, with one exception: an
\* older stage of a toolchain without a stamp, which is used unchanged.
UninterruptedComplete == client # None /\ Ready /\ ~torn => Usable \/ Unrenewed

\* The check tells a complete stage from any other: what it lets a compile
\* use is complete.
CheckedComplete == step = "ready" => Complete

\* A request that has been let in is answered, or the process dies.
Answered == client # None ~> client = None
=============================================================================
