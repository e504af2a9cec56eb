------------------------ MODULE BuildPipelineProofs ------------------------
(***************************************************************************)
(* Proofs about the builds: for every request the endpoints can be asked,  *)
(* every chain, whichever tools refuse and whatever befalls one of them.   *)
(***************************************************************************)
EXTENDS BuildPipeline, SequenceTheorems, TLAPS

Chains == {"8051", "avr", "arm", "6502", "z80", "shecc", "riscv", "esp8266", "project",
           "asm 8051", "asm z80", "asm 6502", "asm avr", "asm arm"}

\* the tools a chain cannot be sure to hear when they refuse, or when they die
DeafToRefusal == {"packihx", "makebin", "sdld"}
DeafToDeath == {"objcopy", "packihx", "makebin", "sdas", "sdld"}

Tools == {"sdcc", "sdcc -c", "makebin", "packihx", "symtab", "avr-gcc", "objcopy", "size", "objdump",
          "arm-gcc", "entry", "cc65", "ca65", "crt0", "ld65", "shecc", "loader", "riscv-gcc",
          "xtensa-gcc", "sdas", "sdld"}

Calling == [tool : Tools, looks : SUBSET {"exit", "file", "verdict"},
            slow : {"error", "500", "go on"}, gone : {"error", "500", "go on"},
            without : {"500", "empty", "same"}, owned : BOOLEAN]

\* How every chain calls its tools: what is optional cannot fail the build, and
\* every other call is heard in one way or another.
Heard ==
    {c \in Calling :
        /\ c.tool \in Optional => c.looks = {} /\ c.slow = "go on" /\ c.gone = "go on"
        /\ c.tool \notin Optional \cup DeafToRefusal => c.looks # {}
        /\ c.slow = "go on" \/ "exit" \in c.looks \/ c.tool \in DeafToDeath}

\* A call that can be the first one: there is no image to go on with.
First(c) == c.slow # "go on" /\ c.gone # "go on" /\ {"exit", "file"} \cap c.looks # {}

\* A chain's calls.
Proper(calls) == calls \in Seq(Heard) /\ calls # <<>> /\ First(calls[1])

-----------------------------------------------------------------------------

\* A chain that begins with a call that tells of death is proper.
LEMMA ProperBegins ==
    ASSUME NEW c \in Heard, First(c), NEW rest \in Seq(Heard)
    PROVE  Proper(<<c>> \o rest)
<1>1. <<c>> \in Seq(Heard) /\ Len(<<c>>) = 1 /\ <<c>>[1] = c OBVIOUS
<1>2. /\ <<c>> \o rest \in Seq(Heard) /\ Len(<<c>> \o rest) = 1 + Len(rest)
      /\ (<<c>> \o rest)[1] = c /\ Len(rest) \in Nat
  BY <1>1, ConcatProperties
<1>3. <<c>> \o rest # <<>> BY <1>2, EmptySeq
<1> QED BY <1>2, <1>3 DEF Proper

\* The kinds of call.
LEMMA OwnedIs ==
    ASSUME NEW t \in Tools, t \notin Optional
    PROVE  /\ Owned(t) \in Heard /\ First(Owned(t))
           /\ Driver(t) \in Heard /\ First(Driver(t))
BY DEF Owned, Driver, Heard, Calling, First, DeafToRefusal, DeafToDeath

\* A call whose exit code is looked at is heard, and may come first.
LEMMA LookingIs ==
    ASSUME NEW t \in Tools, t \notin Optional, NEW l \in SUBSET {"exit", "file"}, "exit" \in l
    PROVE  /\ Looking(t, l) \in Heard /\ First(Looking(t, l))
           /\ Raising(t, l) \in Heard /\ First(Raising(t, l))
BY DEF Owned, Looking, Raising, Heard, Calling, First, DeafToRefusal, DeafToDeath

\* So is a call of which only the file is asked, for the tools it is used with.
LEMMA FileOnlyIs ==
    ASSUME NEW t \in {"sdas", "sdld", "objcopy"}
    PROVE  Raising(t, {"file"}) \in Heard /\ First(Raising(t, {"file"}))
<1>1. t \in Tools BY DEF Tools
<1>2. t \in DeafToDeath /\ t \notin Optional BY DEF DeafToDeath, Optional
<1>3. Raising(t, {"file"}) \in Calling BY <1>1 DEF Owned, Looking, Raising, Calling
<1>4. /\ Raising(t, {"file"}).tool = t /\ Raising(t, {"file"}).looks = {"file"}
      /\ Raising(t, {"file"}).slow = "500" /\ Raising(t, {"file"}).gone = "500"
  BY DEF Owned, Looking, Raising
<1> QED BY <1>2, <1>3, <1>4 DEF Heard, First

\* A converter nobody looks at is heard of as far as the converters are.
LEMMA BlindIs ==
    ASSUME NEW t \in {"packihx", "makebin"}, NEW w \in {"500", "empty", "same"}
    PROVE  Blind(t, w) \in Heard
<1>1. t \in Tools BY DEF Tools
<1>2. t \in DeafToDeath /\ t \in DeafToRefusal /\ t \notin Optional
  BY DEF DeafToDeath, DeafToRefusal, Optional
<1>3. Blind(t, w) \in Calling BY <1>1 DEF Owned, Looking, Raising, Blind, Calling
<1>4. Blind(t, w).tool = t BY DEF Owned, Looking, Raising, Blind
<1> QED BY <1>2, <1>3, <1>4 DEF Heard

\* A tool that only adds something never stops the chain.
LEMMA ExtraIs == ASSUME NEW t \in Optional PROVE Extra(t) \in Heard
<1>1. t \in Tools BY DEF Tools, Optional
<1>2. Extra(t) \in Calling BY <1>1 DEF Owned, Extra, Calling
<1>3. /\ Extra(t).tool = t /\ Extra(t).looks = {}
      /\ Extra(t).slow = "go on" /\ Extra(t).gone = "go on"
  BY DEF Owned, Extra
<1> QED BY <1>2, <1>3 DEF Heard

\* A call whose output is the answer is heard.
LEMMA VerdictIs == ASSUME NEW t \in Tools, t \notin Optional PROVE Verdict(t) \in Heard
BY DEF Owned, Extra, Verdict, Heard, Calling

\* Short chains.
LEMMA TwoCalls ==
    ASSUME NEW c \in Heard, First(c), NEW d \in Heard
    PROVE  Proper(<<c, d>>)
BY DEF Proper

\* A chain of four.
LEMMA FourCalls ==
    ASSUME NEW c \in Heard, First(c), NEW d \in Heard, NEW e \in Heard, NEW f \in Heard
    PROVE  Proper(<<c, d, e, f>>)
BY DEF Proper

\* A proper chain may be continued.
LEMMA ProperGoesOn ==
    ASSUME NEW calls, Proper(calls), NEW rest \in Seq(Heard)
    PROVE  Proper(calls \o rest)
<1>1. calls \in Seq(Heard) /\ Len(calls) \in Nat \ {0} BY EmptySeq DEF Proper
<1>2. /\ calls \o rest \in Seq(Heard) /\ Len(calls \o rest) = Len(calls) + Len(rest)
      /\ (calls \o rest)[1] = calls[1] /\ Len(rest) \in Nat
  BY <1>1, ConcatProperties
<1>3. calls \o rest # <<>> BY <1>1, <1>2, EmptySeq
<1> QED BY <1>2, <1>3 DEF Proper

\* What an optional tool adds to a chain is heard, asked for or not.
LEMMA ExtrasAre == ASSUME NEW t \in Optional PROVE Extras(t) \in Seq(Heard)
<1>1. <<Extra(t)>> \in Seq(Heard) /\ <<>> \in Seq(Heard) BY ExtraIs
<1> QED BY <1>1 DEF Extras

\* So is the conversion of an 8051 image.
LEMMA ImageCalls == SdccImage \in Seq(Heard)
<1>1. /\ <<Blind("makebin", "500")>> \in Seq(Heard) /\ <<Blind("packihx", "empty")>> \in Seq(Heard)
      /\ <<>> \in Seq(Heard)
  BY BlindIs
<1> QED BY <1>1 DEF SdccImage

\* Every chain begins with a call that is heard, and each that follows is
\* optional or heard in its way.
LEMMA CallsProper == \A c \in Chains : Proper(Calls(c))
<1>o. Optional = {"size", "symtab", "objdump"} BY DEF Optional
<1>1. Proper(Build8051)
  <2>1. Driver("sdcc") \in Heard /\ First(Driver("sdcc")) BY OwnedIs, <1>o DEF Tools
  <2>2. Proper(<<Driver("sdcc")>> \o SdccImage) BY <2>1, ImageCalls, ProperBegins
  <2>3. Extras("symtab") \in Seq(Heard) BY ExtrasAre, <1>o
  <2> QED BY <2>2, <2>3, ProperGoesOn DEF Build8051
<1>2. Proper(BuildAvr)
  <2>1. Driver("avr-gcc") \in Heard /\ First(Driver("avr-gcc")) BY OwnedIs, <1>o DEF Tools
  <2>2. Raising("objcopy", {"file"}) \in Heard BY FileOnlyIs
  <2>3. Extra("size") \in Heard BY ExtraIs, <1>o
  <2>4. Proper(<<Driver("avr-gcc"), Raising("objcopy", {"file"}), Extra("size")>>)
    BY <2>1, <2>2, <2>3 DEF Proper
  <2>5. Extras("objdump") \in Seq(Heard) BY ExtrasAre, <1>o
  <2> QED BY <2>4, <2>5, ProperGoesOn DEF BuildAvr
<1>3. Proper(BuildArm)
  <2>1. Driver("arm-gcc") \in Heard /\ First(Driver("arm-gcc")) BY OwnedIs, <1>o DEF Tools
  <2>2. Verdict("entry") \in Heard BY VerdictIs, <1>o DEF Tools
  <2>3. Raising("objcopy", {"file"}) \in Heard BY FileOnlyIs
  <2>4. Extra("size") \in Heard BY ExtraIs, <1>o
  <2>5. Proper(<<Driver("arm-gcc"), Verdict("entry"), Raising("objcopy", {"file"}), Extra("size")>>)
    BY <2>1, <2>2, <2>3, <2>4, FourCalls
  <2>6. Extras("objdump") \in Seq(Heard) BY ExtrasAre, <1>o
  <2> QED BY <2>5, <2>6, ProperGoesOn DEF BuildArm
<1>4. Proper(Build6502)
  <2>1. /\ Owned("cc65") \in Heard /\ First(Owned("cc65")) /\ Owned("ld65") \in Heard
        /\ Looking("ca65", {"exit"}) \in Heard /\ Looking("crt0", {"exit"}) \in Heard
    BY OwnedIs, LookingIs, <1>o DEF Tools
  <2> QED BY <2>1, FourCalls DEF Build6502
<1>5. Proper(BuildZ80)
  <2>1. Driver("sdcc") \in Heard /\ First(Driver("sdcc")) BY OwnedIs, <1>o DEF Tools
  <2>2. /\ <<Blind("makebin", "empty")>> \in Seq(Heard) /\ <<Blind("packihx", "same")>> \in Seq(Heard)
        /\ <<>> \in Seq(Heard)
    BY BlindIs
  <2>3. CASE ask.format = "ihx" BY <2>1, <2>2, <2>3, ProperBegins DEF BuildZ80
  <2>4. CASE ask.format = "bin" BY <2>1, <2>2, <2>4, ProperBegins DEF BuildZ80
  <2>5. CASE ask.format \notin {"ihx", "bin"} BY <2>1, <2>2, <2>5, ProperBegins DEF BuildZ80
  <2> QED BY <2>3, <2>4, <2>5
<1>6. Proper(BuildRiscv)
  <2>1. Shecc \in Heard /\ First(Shecc)
    BY <1>o DEF Shecc, Owned, Heard, Calling, First, Tools, DeafToRefusal, DeafToDeath
  <2>2. Verdict("loader") \in Heard BY VerdictIs, <1>o DEF Tools
  <2> QED BY <2>1, <2>2, TwoCalls DEF BuildRiscv
<1>7. Proper(BuildRiscvGcc) /\ Proper(BuildEsp8266)
  <2>1. /\ Owned("riscv-gcc") \in Heard /\ First(Owned("riscv-gcc"))
        /\ Owned("xtensa-gcc") \in Heard /\ First(Owned("xtensa-gcc"))
    BY OwnedIs, <1>o DEF Tools
  <2>2. Verdict("loader") \in Heard BY VerdictIs, <1>o DEF Tools
  <2> QED BY <2>1, <2>2, TwoCalls DEF BuildRiscvGcc, BuildEsp8266
<1>8. Proper(BuildProject)
  <2> DEFINE caught(k) == [k EXCEPT !.slow = "error"]
             images == [n \in 1..Len(SdccImage) |-> caught(SdccImage[n])]
  <2>1. /\ Looking("sdcc -c", {"exit"}) \in Heard /\ First(Looking("sdcc -c", {"exit"}))
        /\ Owned("sdcc") \in Heard
    BY OwnedIs, LookingIs, <1>o DEF Tools
  <2>2. Proper(<<Looking("sdcc -c", {"exit"}), Owned("sdcc")>>) BY <2>1, TwoCalls
  <2>3. /\ Len(SdccImage) \in Nat
        /\ \A n \in 1..Len(SdccImage) : SdccImage[n].tool \in {"packihx", "makebin"}
    <3>1. \A t, w : Blind(t, w).tool = t BY DEF Blind, Raising, Looking, Owned
    <3>2. SdccImage \in {<<>>, <<Blind("makebin", "500")>>, <<Blind("packihx", "empty")>>}
      BY DEF SdccImage
    <3> QED BY <3>1, <3>2
  <2>4. ASSUME NEW n \in 1..Len(SdccImage) PROVE caught(SdccImage[n]) \in Heard
    <3>1. SdccImage[n] \in Heard BY ImageCalls
    <3>2. SdccImage[n] \in Calling BY <3>1 DEF Heard
    <3>3. caught(SdccImage[n]) \in Calling BY <3>2 DEF Calling
    <3>4. caught(SdccImage[n]).tool = SdccImage[n].tool BY <3>2 DEF Calling
    <3>5. SdccImage[n].tool \in DeafToRefusal \cap DeafToDeath /\ SdccImage[n].tool \notin Optional
      BY <2>3, <1>o DEF DeafToRefusal, DeafToDeath
    <3> HIDE DEF caught
    <3> QED BY <3>3, <3>4, <3>5 DEF Heard
  <2>5. images \in Seq(Heard) BY <2>3, <2>4, SeqDef
  <2> QED BY <2>2, <2>5, ProperGoesOn DEF BuildProject
<1>9. Proper(Assemble8051) /\ Proper(AssembleZ80)
  <2>1. /\ Raising("sdas", {"file"}) \in Heard /\ First(Raising("sdas", {"file"}))
        /\ Raising("sdld", {"file"}) \in Heard
    BY FileOnlyIs
  <2>2. Proper(Assemble8051) BY <2>1, TwoCalls DEF Assemble8051
  <2>3. Raising("makebin", {"exit"}) \in Heard BY LookingIs, <1>o DEF Tools
  <2>4. <<Raising("makebin", {"exit"})>> \in Seq(Heard) BY <2>3
  <2> QED BY <2>2, <2>4, ProperGoesOn DEF AssembleZ80
<1>10. Proper(Assemble6502) /\ Proper(AssembleAvr) /\ Proper(AssembleArm)
  <2>1. ASSUME NEW t \in {"ca65", "ld65", "avr-gcc", "arm-gcc"}
        PROVE  Raising(t, {"exit", "file"}) \in Heard /\ First(Raising(t, {"exit", "file"}))
    BY LookingIs, <1>o DEF Tools
  <2>2. Raising("objcopy", {"file"}) \in Heard BY FileOnlyIs
  <2> QED BY <2>1, <2>2, TwoCalls DEF Assemble6502, AssembleAvr, AssembleArm
<1> QED
  BY <1>1, <1>2, <1>3, <1>4, <1>5, <1>6, <1>7, <1>8, <1>9, <1>10 DEF Chains, Calls

-----------------------------------------------------------------------------
(* The requests *)

\* What holds whichever tools may refuse.
PipeInv ==
    /\ at \in {"idle", "route", "check", "run", "done"} /\ (at # "idle" => ask \in Asked)
    /\ at \in {"check", "run"} => chain \in Chains
    /\ at = "run" => left \in Seq(Heard)
    /\ at # "done" => reply = "none"
    /\ CleansUp /\ ExtrasNeverFail

\* What there is of an image while the calls go on: nothing before the first
\* of them, and then a whole one, or what a tool nobody heard die has left.
ImageSoFar ==
    \/ image = "whole"
    \/ mishap # <<>> /\ mishap[1] \in DeafToDeath
    \/ image = "none" /\ left # <<>> /\ First(left[1])

\* What holds if every tool that may refuse is heard.
HearInv ==
    /\ at \in {"idle", "route", "check"} => refuser = None /\ mishap = <<>> /\ image = "none"
    /\ at = "run" => refuser \in Optional \cup {None} /\ ImageSoFar
    /\ RefusalsReported /\ ImageWhole

\* A request is sent to a chain that can serve it.
LEMMA RouteIsServed ==
    ASSUME at = "route", ask \in Asked, Route, at' = "check"
    PROVE  chain' \in Chains
<1>2. CASE ask.endpoint = "compile"
  <2>1. ~TurnedAway /\ chain' = ChainOf(Target)
    BY <1>2 DEF Route, Answer
  <2>2. CASE ask.language = "pseudocode"
    <3>1. Target = ask.device BY <2>2 DEF Target
    <3>2. ask.device \in {"small", "large", "avr"}
      BY <1>2, <2>1, <2>2, AskedAssumption DEF TurnedAway
    <3> QED BY <2>1, <3>1, <3>2 DEF ChainOf, Chains
  <2>3. CASE ask.language # "pseudocode"
    <3>1. Target = ask.target BY <2>3 DEF Target
    <3>2. ChainOf(ask.target) # "unknown" BY <2>1, <3>1 DEF TurnedAway
    <3>3. ChainOf(ask.target) \in Chains
      BY <1>2, <3>2, AskedAssumption DEF ChainOf, Chains
    <3> QED BY <2>1, <3>1, <3>3
  <2> QED BY <2>2, <2>3
<1>3. CASE ask.endpoint # "compile"
  <2>1. chain' = ask.target /\ ask.target # "unknown" BY <1>3 DEF Route, Answer
  <2>2. \/ ask.language = "keil" /\ chain' = "project"
        \/ /\ ask.language = "asm"
           /\ chain' \in {"asm 8051", "asm z80", "asm 6502", "asm avr", "asm arm"}
    BY <1>3, <2>1, AskedAssumption
  <2> QED BY <2>2 DEF Chains
<1> QED BY <1>2, <1>3

\* How a call can end.
LEMMA CallEnds ==
    ASSUME at = "run", NEW c \in Heard,
           EndsWell(c) \/ Refuses(c) \/ Dies(c) \/ TimesOut(c) \/ CannotStart(c)
    PROVE  \/ \E i : GoOn(i)
           \/ /\ at' = "done" /\ reply' \in {"error", "500"}
              /\ work' => mishap' # <<>> /\ mishap'[2] = "gone"
              /\ refuser' \in Optional \cup {None} =>
                    refuser' = refuser /\ mishap' # <<>> /\ mishap'[1] \notin Optional
<1>c. /\ c.slow \in {"error", "500", "go on"} /\ c.gone \in {"error", "500", "go on"}
      /\ c.tool \in Optional => c.looks = {} /\ c.slow = "go on" /\ c.gone = "go on"
  BY DEF Heard, Calling
<1>n. ASSUME NEW file, Unnoticed(c, file)
      PROVE  \/ \E i : GoOn(i)
             \/ at' = "done" /\ reply' = "500" /\ work' = FALSE /\ c.tool \notin Optional
  BY <1>n, <1>c DEF Unnoticed, Stop, Answer
<1>1. CASE EndsWell(c) BY <1>1 DEF EndsWell
<1>2. CASE Refuses(c)
  <2>1. PICK file : IF Noticed(c, file) \/ "verdict" \in c.looks THEN Stop("error", FALSE)
                    ELSE Unnoticed(c, file)
    BY <1>2 DEF Refuses
  <2>2. refuser' = c.tool /\ c.tool # None
    BY <1>2 DEF Refuses, Heard, Calling, Tools, None
  <2>3. CASE Noticed(c, file) \/ "verdict" \in c.looks
    <3>1. c.tool \notin Optional BY <2>3, <1>c DEF Noticed
    <3> QED BY <2>1, <2>2, <2>3, <3>1 DEF Stop, Answer
  <2>4. CASE ~(Noticed(c, file) \/ "verdict" \in c.looks) BY <2>1, <2>2, <2>4, <1>n
  <2> QED BY <2>3, <2>4
<1>3. CASE Dies(c)
  <2>1. PICK file : IF Noticed(c, file) THEN Stop("error", FALSE) ELSE Unnoticed(c, file)
    BY <1>3 DEF Dies
  <2>2. mishap' # <<>> /\ mishap'[1] = c.tool /\ refuser' = refuser
    BY <1>3 DEF Dies, Befalls
  <2>3. CASE Noticed(c, file)
    <3>1. c.tool \notin Optional BY <2>3, <1>c DEF Noticed
    <3> QED BY <2>1, <2>2, <2>3, <3>1 DEF Stop, Answer
  <2>4. CASE ~Noticed(c, file) BY <2>1, <2>2, <2>4, <1>n
  <2> QED BY <2>3, <2>4
<1>4. CASE TimesOut(c)
  <2>1. mishap' # <<>> /\ mishap'[1] = c.tool /\ refuser' = refuser
    BY <1>4 DEF TimesOut, Befalls
  <2> QED BY <1>4, <1>c, <2>1 DEF TimesOut, Stop, Answer
<1>5. CASE CannotStart(c)
  <2>1. mishap' # <<>> /\ mishap'[1] = c.tool /\ mishap'[2] = "gone" /\ refuser' = refuser
    BY <1>5 DEF CannotStart, Befalls
  <2> QED BY <1>5, <1>c, <2>1 DEF CannotStart, Stop, Answer
<1> QED BY <1>1, <1>2, <1>3, <1>4, <1>5

\* Every step of the pipeline keeps the invariant.
LEMMA StepKeepsPipe == PipeInv /\ [PipeNext]_pipeVars => PipeInv'
<1> SUFFICES ASSUME PipeInv, [PipeNext]_pipeVars PROVE PipeInv'
  OBVIOUS
<1> USE DEF PipeInv, CleansUp, ExtrasNeverFail, Answered
<1>1. CASE Ask BY <1>1 DEF Ask
<1>2. CASE Forget BY <1>2 DEF Forget
<1>3. CASE Route
  <2>1. CASE at' = "check"
    <3>1. reply' = "none" /\ ask' = ask BY <1>3, <2>1 DEF Route, Answer
    <3>2. chain' \in Chains BY <1>3, <2>1, RouteIsServed DEF Route
    <3> QED BY <2>1, <3>1, <3>2, <1>3 DEF Route
  <2>2. CASE at' # "check"
    <3>1. at' = "done" /\ reply' = "refused" /\ work' = FALSE /\ ask' = ask /\ ask \in Asked
      BY <1>3, <2>2 DEF Route, Answer
    <3> QED BY <3>1
  <2> QED BY <2>1, <2>2
<1>4. CASE Check
  <2>1. CASE BadValue
    <3>1. /\ at' = "done" /\ reply' = "refused" /\ work' = (chain = "8051")
          /\ UNCHANGED <<ask, chain>> /\ ask \in Asked
      BY <1>4, <2>1 DEF Check, Answer
    <3> QED BY <3>1
  <2>2. CASE ~BadValue
    <3>1. at' = "run" /\ left' = Calls(chain) /\ UNCHANGED <<reply, ask, chain>> /\ at = "check"
      BY <1>4, <2>2 DEF Check
    <3>2. left' \in Seq(Heard) BY <3>1, CallsProper DEF Proper
    <3> QED BY <3>1, <3>2
  <2> QED BY <2>1, <2>2
<1>5. CASE Call
  <2> DEFINE c == Head(left)
  <2>1. /\ at = "run" /\ left \in Seq(Heard) /\ left # <<>> /\ UNCHANGED <<ask, chain>>
        /\ EndsWell(c) \/ Refuses(c) \/ Dies(c) \/ TimesOut(c) \/ CannotStart(c)
    BY <1>5 DEF Call
  <2>2. c \in Heard /\ Tail(left) \in Seq(Heard) BY <2>1, HeadTailProperties
  <2> HIDE DEF c
  <2>3. \/ \E i : GoOn(i)
        \/ /\ at' = "done" /\ reply' \in {"error", "500"}
           /\ work' => mishap' # <<>> /\ mishap'[2] = "gone"
           /\ refuser' \in Optional \cup {None} =>
                 refuser' = refuser /\ mishap' # <<>> /\ mishap'[1] \notin Optional
    BY <2>1, <2>2, CallEnds
  <2>4. CASE \E i : GoOn(i)
    <3>1. left' = Tail(left) /\ UNCHANGED <<at, work, reply>> BY <2>4 DEF GoOn
    <3> QED BY <2>1, <2>2, <3>1
  <2>5. CASE ~\E i : GoOn(i) BY <2>1, <2>3, <2>5
  <2> QED BY <2>4, <2>5
<1>6. CASE Finish BY <1>6 DEF Finish, Answer
<1>7. CASE UNCHANGED pipeVars BY <1>7 DEF pipeVars
<1> QED BY <1>1, <1>2, <1>3, <1>4, <1>5, <1>6, <1>7 DEF PipeNext

\* A call that every refusal is heard of leaves a whole image, or is answered.
LEMMA CallIsHeard ==
    ASSUME Refusers \cap DeafToRefusal = {}, at = "run", NEW c \in Heard,
           refuser \in Optional \cup {None},
           \/ image = "whole"
           \/ mishap # <<>> /\ mishap[1] \in DeafToDeath
           \/ image = "none" /\ First(c),
           EndsWell(c) \/ Refuses(c) \/ Dies(c) \/ TimesOut(c) \/ CannotStart(c)
    PROVE  \/ /\ \E i : GoOn(i)
              /\ refuser' \in Optional \cup {None}
              /\ image' = "whole" \/ (mishap' # <<>> /\ mishap'[1] \in DeafToDeath)
           \/ /\ at' = "done" /\ reply' # "image"
              /\ reply' = "error" \/ refuser' \in Optional \cup {None} \/ mishap' # <<>>
<1>c. /\ c.slow \in {"error", "500", "go on"} /\ c.gone \in {"error", "500", "go on"}
      /\ c.looks \subseteq {"exit", "file", "verdict"}
      /\ c.tool \notin Optional \cup DeafToRefusal => c.looks # {}
      /\ c.tool \in Optional => c.slow = "go on"
      /\ c.slow = "go on" \/ "exit" \in c.looks \/ c.tool \in DeafToDeath
  BY DEF Heard, Calling
<1>f. First(c) => c.slow # "go on" /\ c.gone # "go on" /\ ("exit" \in c.looks \/ "file" \in c.looks)
  BY DEF First
<1>n. ASSUME NEW file, Unnoticed(c, file)
      PROVE  \/ c.slow = "go on" /\ GoOn(image)
             \/ file # "none" /\ GoOn(file)
             \/ \E i : GoOn(i) /\ c.slow # "go on" /\ file = "none"
             \/ at' = "done" /\ reply' = "500" /\ c.slow # "go on"
  BY <1>n DEF Unnoticed, Stop, Answer
<1>1. CASE EndsWell(c) BY <1>1 DEF EndsWell, GoOn
<1>2. CASE Refuses(c)
  <2>1. PICK file \in Left(c.tool, "refused") :
           IF Noticed(c, file) \/ "verdict" \in c.looks THEN Stop("error", FALSE)
           ELSE Unnoticed(c, file)
    BY <1>2 DEF Refuses
  <2>2. /\ refuser' = c.tool /\ UNCHANGED mishap /\ c.tool \notin DeafToRefusal
        /\ file = "none"
    BY <1>2, <2>1 DEF Refuses, Left, DeafToRefusal
  <2>3. CASE c.tool \in Optional
    <3>1. c.looks = {} /\ c.slow = "go on" BY <2>3 DEF Heard
    <3>2. Unnoticed(c, file) BY <2>1, <3>1 DEF Noticed
    <3>3. GoOn(image) BY <3>1, <3>2 DEF Unnoticed
    <3> QED BY <2>2, <2>3, <3>1, <3>3, <1>f DEF GoOn
  <2>4. CASE c.tool \notin Optional
    <3>1. "exit" \in c.looks \/ "file" \in c.looks \/ "verdict" \in c.looks
      BY <2>2, <2>4, <1>c
    <3>2. Stop("error", FALSE) BY <2>1, <2>2, <3>1 DEF Noticed
    <3> QED BY <3>2 DEF Stop, Answer
  <2> QED BY <2>3, <2>4
<1>3. CASE Dies(c)
  <2>1. PICK file : IF Noticed(c, file) THEN Stop("error", FALSE) ELSE Unnoticed(c, file)
    BY <1>3 DEF Dies
  <2>2. mishap' # <<>> /\ mishap'[1] = c.tool /\ refuser' = refuser /\ mishap = <<>>
    BY <1>3 DEF Dies, Befalls
  <2>3. CASE Noticed(c, file) BY <2>1, <2>2, <2>3 DEF Stop, Answer
  <2>4. CASE ~Noticed(c, file)
    <3>1. Unnoticed(c, file) /\ "exit" \notin c.looks BY <2>1, <2>4 DEF Noticed
    <3>2. CASE c.slow = "go on"
      <4>1. GoOn(image) BY <3>1, <3>2 DEF Unnoticed
      <4> QED BY <2>2, <3>2, <4>1, <1>f DEF GoOn
    <3>3. CASE c.slow # "go on"
      <4>1. c.tool \in DeafToDeath BY <3>1, <3>3, <1>c
      <4>2. (\E i : GoOn(i)) \/ (at' = "done" /\ reply' = "500") BY <3>1, <3>3, <1>n
      <4> QED BY <2>2, <4>1, <4>2
    <3> QED BY <3>2, <3>3
  <2> QED BY <2>3, <2>4
<1>4. CASE TimesOut(c)
  <2>1. mishap' # <<>> /\ refuser' = refuser /\ mishap = <<>> BY <1>4 DEF TimesOut, Befalls
  <2>2. CASE c.slow = "go on"
    <3>1. GoOn(image) BY <1>4, <2>2 DEF TimesOut
    <3> QED BY <2>1, <2>2, <3>1, <1>f DEF GoOn
  <2>3. CASE c.slow # "go on" BY <1>4, <2>1, <2>3, <1>c DEF TimesOut, Stop, Answer
  <2> QED BY <2>2, <2>3
<1>5. CASE CannotStart(c)
  <2>1. mishap' # <<>> /\ refuser' = refuser /\ mishap = <<>> BY <1>5 DEF CannotStart, Befalls
  <2>2. CASE c.gone = "go on"
    <3>1. GoOn(image) BY <1>5, <2>2 DEF CannotStart
    <3> QED BY <2>1, <2>2, <3>1, <1>f DEF GoOn
  <2>3. CASE c.gone # "go on" BY <1>5, <2>1, <2>3, <1>c DEF CannotStart, Stop, Answer
  <2> QED BY <2>2, <2>3
<1> QED BY <1>1, <1>2, <1>3, <1>4, <1>5

\* Where no deaf tool can refuse, every step keeps what was heard.
LEMMA StepKeepsHearing ==
    ASSUME Refusers \cap DeafToRefusal = {}, PipeInv, HearInv, [PipeNext]_pipeVars
    PROVE  HearInv'
<1> USE DEF HearInv, RefusalsReported, ImageWhole, Answered
<1>p. /\ at \in {"idle", "route", "check", "run", "done"} /\ (at = "run" => left \in Seq(Heard))
      /\ at # "done" => reply = "none"
      /\ at = "check" => chain \in Chains
  BY DEF PipeInv
<1>1. CASE Ask BY <1>1, <1>p DEF Ask
<1>2. CASE Forget BY <1>2 DEF Forget
<1>3. CASE Route
  <2>1. /\ at = "route" /\ at' \in {"check", "done"} /\ reply' \in {"none", "refused"}
        /\ UNCHANGED <<image, refuser, mishap>>
    BY <1>3, <1>p DEF Route, Answer
  <2> QED BY <2>1
<1>4. CASE Check
  <2>1. /\ at = "check" /\ UNCHANGED <<image, refuser, mishap>>
        /\ \/ at' = "done" /\ reply' = "refused"
           \/ at' = "run" /\ left' = Calls(chain) /\ reply' = "none"
    BY <1>4, <1>p DEF Check, Answer
  <2>2. left' = Calls(chain) => left' # <<>> /\ First(left'[1])
    BY <2>1, <1>p, CallsProper DEF Proper
  <2> QED BY <2>1, <2>2 DEF ImageSoFar, First
<1>5. CASE Call
  <2> DEFINE c == Head(left)
  <2>1. /\ at = "run" /\ left \in Seq(Heard) /\ left # <<>>
        /\ EndsWell(c) \/ Refuses(c) \/ Dies(c) \/ TimesOut(c) \/ CannotStart(c)
    BY <1>5, <1>p DEF Call
  <2>2. c \in Heard /\ c = left[1] BY <2>1, HeadTailProperties
  <2> HIDE DEF c
  <2>3. /\ refuser \in Optional \cup {None}
        /\ \/ image = "whole"
           \/ mishap # <<>> /\ mishap[1] \in DeafToDeath
           \/ image = "none" /\ First(c)
    BY <2>1, <2>2 DEF ImageSoFar
  <2>4. \/ /\ \E i : GoOn(i)
           /\ refuser' \in Optional \cup {None}
           /\ image' = "whole" \/ (mishap' # <<>> /\ mishap'[1] \in DeafToDeath)
        \/ /\ at' = "done" /\ reply' # "image"
           /\ reply' = "error" \/ refuser' \in Optional \cup {None} \/ mishap' # <<>>
    BY <2>1, <2>2, <2>3, CallIsHeard
  <2>5. CASE /\ \E i : GoOn(i)
             /\ refuser' \in Optional \cup {None}
             /\ image' = "whole" \/ (mishap' # <<>> /\ mishap'[1] \in DeafToDeath)
    <3>1. UNCHANGED <<at, reply>> BY <2>5 DEF GoOn
    <3> QED BY <2>1, <2>5, <3>1, <1>p DEF ImageSoFar
  <2>6. CASE /\ at' = "done" /\ reply' # "image"
             /\ reply' = "error" \/ refuser' \in Optional \cup {None} \/ mishap' # <<>>
    BY <2>6
  <2> QED BY <2>4, <2>5, <2>6
<1>6. CASE Finish BY <1>6 DEF Finish, Answer, ImageSoFar, DeafToDeath
<1>7. CASE UNCHANGED pipeVars BY <1>7 DEF pipeVars, ImageSoFar, First
<1> QED BY <1>1, <1>2, <1>3, <1>4, <1>5, <1>6, <1>7 DEF PipeNext

-----------------------------------------------------------------------------

\* Nothing has been asked.
LEMMA PipeBegins == PipeInit => PipeInv /\ HearInv
BY DEF PipeInit, PipeInv, HearInv, CleansUp, ExtrasNeverFail, RefusalsReported, ImageWhole, Answered

\* Whatever is asked and whatever befalls a tool, the work directory is gone
\* with the answer, but for a value refused in it by the 8051 chain and a
\* compiler that did not start.
THEOREM AlwaysCleansUp == PipeSpec => []CleansUp
<1>1. PipeInv => CleansUp BY DEF PipeInv
<1> QED BY <1>1, PipeBegins, StepKeepsPipe, PTL DEF PipeSpec

\* A size, a symbol table or a listing never costs an image, on any chain.
THEOREM ExtrasNeverCost == PipeSpec => []ExtrasNeverFail
<1>1. PipeInv => ExtrasNeverFail BY DEF PipeInv
<1> QED BY <1>1, PipeBegins, StepKeepsPipe, PTL DEF PipeSpec

\* If the converters and sdld, which nobody hears, refuse nothing, what any
\* other tool refuses is reported as an error.
THEOREM RefusalsAlwaysReported ==
    ASSUME Refusers \cap DeafToRefusal = {}
    PROVE  PipeSpec => []RefusalsReported
<1>1. PipeInit => PipeInv /\ HearInv BY PipeBegins
<1>2. PipeInv /\ HearInv /\ [PipeNext]_pipeVars => PipeInv' /\ HearInv'
  BY StepKeepsPipe, StepKeepsHearing
<1>3. HearInv => RefusalsReported BY DEF HearInv
<1> QED BY <1>1, <1>2, <1>3, PTL DEF PipeSpec

\* And an image that is answered is whole, unless a converter, sdas or sdld
\* has died while writing.
THEOREM ImagesAreWhole ==
    ASSUME Refusers \cap DeafToRefusal = {}
    PROVE  PipeSpec => []ImageWhole
<1>1. PipeInit => PipeInv /\ HearInv BY PipeBegins
<1>2. PipeInv /\ HearInv /\ [PipeNext]_pipeVars => PipeInv' /\ HearInv'
  BY StepKeepsPipe, StepKeepsHearing
<1>3. HearInv => ImageWhole BY DEF HearInv
<1> QED BY <1>1, <1>2, <1>3, PTL DEF PipeSpec
=============================================================================
