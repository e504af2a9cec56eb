--------------------------- MODULE BuildPipeline ---------------------------
(***************************************************************************)
(* From a request to its image: where /compile, /assemble and              *)
(* /translate-project send it, and the tools that are then run one after   *)
(* the other in a work directory.  Each tool may end well, refuse what it  *)
(* is given, die, take too long or not start, and what the code does then  *)
(* differs from call to call: that difference is the data of this module.  *)
(* The Arduino chain is in ArduinoCache.                                   *)
(***************************************************************************)
EXTENDS Naturals, Sequences

CONSTANTS
    Asked,      \* the requests: the fields are those of CompileReq, see TurnedAway
    Refusers    \* the tools that may refuse what they are given

\* What the three endpoints can be asked: a target, or the DEVICE of a pseudocode
\* program, is named by its chain; /assemble has no other language.
ASSUME AskedAssumption ==
    \A a \in Asked :
        \/ /\ a.endpoint = "compile"
           /\ a.device \in IF a.language = "pseudocode" THEN {"small", "large", "avr", "elsewhere"}
                                                       ELSE {"-"}
           /\ a.target \in {"small", "large", "avr", "arm", "6502", "z80", "shecc", "riscv",
                            "esp8266", "unknown"}
        \/ /\ a.endpoint = "project" /\ a.language = "keil"
           /\ a.target \in {"project", "unknown"}
        \/ /\ a.endpoint = "assemble" /\ a.language = "asm"
           /\ a.target \in {"asm 8051", "asm z80", "asm 6502", "asm avr", "asm arm", "unknown"}

VARIABLES
    ask,     \* the request being served, or None
    at,      \* "idle", "route", "check", "run", "done"
    chain,   \* the chain of tools it was sent to
    left,    \* the calls still to come
    work,    \* the work directory exists
    image,   \* "none", "whole", "torn", "empty"
    reply,   \* "none", "refused", "error", "image", "500"
    refuser, \* history: the tool that has refused
    mishap   \* history: <<tool, what befell it>>, bound: one a request

pipeVars == <<ask, at, chain, left, work, image, reply, refuser, mishap>>

None == "-"

-----------------------------------------------------------------------------
(* The calls.  `looks`: what is looked at after the call, the exit code,   *)
(* the file it was to write, or a verdict in its output.  `slow`, `gone`:  *)
(* what becomes of a timeout and of a program that does not start.         *)
(* `without`: what is answered from when nobody looked and nothing was     *)
(* written; "same" is the output of the call before.                       *)
(* `owned`: the call is made inside the try that removes the directory.    *)

Owned(t) == [tool |-> t, looks |-> {"exit", "file"}, slow |-> "error", gone |-> "500",
             without |-> "500", owned |-> TRUE]

\* the compile of most chains: the try begins after it
Driver(t) == [Owned(t) EXCEPT !.owned = FALSE]

Looking(t, l) == [Owned(t) EXCEPT !.looks = l]

\* assemble.py catches no timeout
Raising(t, l) == [Looking(t, l) EXCEPT !.slow = "500"]

\* a converter nobody looks at
Blind(t, w) == [Raising(t, {}) EXCEPT !.without = w]

\* what a failure of must not fail the build
Extra(t) == [Owned(t) EXCEPT !.looks = {}, !.slow = "go on", !.gone = "go on", !.without = "same"]

\* an output that is read for a verdict, when there is one
Verdict(t) == [Extra(t) EXCEPT !.looks = {"verdict"}]

-----------------------------------------------------------------------------
(* The chains *)

SdccImage == CASE ask.format = "ihx" -> <<>>
               [] ask.format = "bin" -> <<Blind("makebin", "500")>>
               [] OTHER              -> <<Blind("packihx", "empty")>>

Extras(t) == IF ask.symbols THEN <<Extra(t)>> ELSE <<>>

\* mutant: a failing symbol table is an error, as any other call
Build8051SymbolsFatal == <<Driver("sdcc")>> \o SdccImage \o IF ask.symbols THEN <<Owned("symtab")>> ELSE <<>>

Build8051 == <<Driver("sdcc")>> \o SdccImage \o Extras("symtab")

BuildAvr == <<Driver("avr-gcc"), Raising("objcopy", {"file"}), Extra("size")>> \o Extras("objdump")

BuildArm == <<Driver("arm-gcc"), Verdict("entry"), Raising("objcopy", {"file"}), Extra("size")>>
            \o Extras("objdump")

\* mutant: the exit code of the linker is not looked at
Build6502ExitUnread == <<Owned("cc65"), Looking("ca65", {"exit"}), Looking("crt0", {"exit"}),
                         Looking("ld65", {"file"})>>

Build6502 == <<Owned("cc65"), Looking("ca65", {"exit"}), Looking("crt0", {"exit"}), Owned("ld65")>>

BuildZ80 ==
    <<Driver("sdcc")>> \o
    CASE ask.format = "ihx" -> <<>>
      [] ask.format = "bin" -> <<Blind("makebin", "empty")>>
      [] OTHER              -> <<Blind("packihx", "same")>>

\* compile_c: a compiler that cannot run is RiscvUnavailable
Shecc == [Owned("shecc") EXCEPT !.gone = "error"]

BuildRiscv == <<Shecc, Verdict("loader")>>

BuildRiscvGcc == <<Owned("riscv-gcc"), Verdict("loader")>>

BuildEsp8266 == <<Owned("xtensa-gcc"), Verdict("loader")>>

\* the except of the endpoint is for the converters too
BuildProject ==
    LET caught(c) == [c EXCEPT !.slow = "error"] IN
    <<Looking("sdcc -c", {"exit"}), Owned("sdcc")>>
    \o [n \in 1..Len(SdccImage) |-> caught(SdccImage[n])]

Assemble8051 == <<Raising("sdas", {"file"}), Raising("sdld", {"file"})>>

AssembleZ80 == Assemble8051 \o <<Raising("makebin", {"exit"})>>

Assemble6502 == <<Raising("ca65", {"exit", "file"}), Raising("ld65", {"exit", "file"})>>

AssembleAvr == <<Raising("avr-gcc", {"exit", "file"}), Raising("objcopy", {"file"})>>

AssembleArm == <<Raising("arm-gcc", {"exit", "file"}), Raising("objcopy", {"file"})>>

Calls(c) ==
    CASE c = "8051"     -> Build8051
      [] c = "avr"      -> BuildAvr
      [] c = "arm"      -> BuildArm
      [] c = "6502"     -> Build6502
      [] c = "z80"      -> BuildZ80
      [] c = "shecc"    -> BuildRiscv
      [] c = "riscv"    -> BuildRiscvGcc
      [] c = "esp8266"  -> BuildEsp8266
      [] c = "project"  -> BuildProject
      [] c = "asm 8051" -> Assemble8051
      [] c = "asm z80"  -> AssembleZ80
      [] c = "asm 6502" -> Assemble6502
      [] c = "asm avr"  -> AssembleAvr
      [] c = "asm arm"  -> AssembleArm

\* what runs inside the service: it ends
InProcess == {"symtab", "loader"}

\* What a refused call, or one that died, has left where its output was to be.
\* sdld writes the program with what it cannot resolve left at 0.
Left(t, befell) ==
    IF befell = "refused" THEN IF t = "sdld" THEN {"torn"} ELSE {"none"}
    ELSE {"none", "torn"}

-----------------------------------------------------------------------------
(* Where a request goes.  A target is named by the chain of its part; the  *)
(* 8051 has a small and a large part.                                      *)

ChainOf(t) == IF t \in {"small", "large"} THEN "8051" ELSE t

\* The target of a pseudocode program is its DEVICE where that is an 8051.
Target == IF ask.language = "pseudocode" THEN ask.device ELSE ask.target

Formats == {"ihx", "hex", "bin"}

\* build() for pseudocode whose DEVICE avr-gcc compiles: the format is not looked at
Straight == ask.language = "pseudocode" /\ ask.device = "avr"

\* what is refused before a work directory is made
TurnedAway ==
    \/ ask.options = "path"
    \/ ask.language = "unknown"
    \/ ask.language = "pseudocode" /\ ask.device = "elsewhere"
    \/ ~Straight /\ ask.format \notin Formats
    \/ ChainOf(Target) = "unknown"
    \/ ask.language = "keil" /\ ask.translated /\ ChainOf(Target) # "8051"

\* A define or an option that is no plain value is refused in the work
\* directory, which build() leaves there; two chains do not look.
BadValue == ask.options = "value" /\ chain \notin {"shecc", "riscv", "esp8266"}

-----------------------------------------------------------------------------

PipeInit ==
    /\ ask = None /\ at = "idle"
    /\ chain = None /\ left = <<>> /\ work = FALSE
    /\ image = "none" /\ reply = "none" /\ refuser = None /\ mishap = <<>>

Ask ==
    /\ at = "idle"
    /\ ask' \in Asked /\ at' = "route"
    /\ UNCHANGED <<chain, left, work, image, reply, refuser, mishap>>

\* The answer is on its way; nothing of the request is remembered.
Forget ==
    /\ at = "done"
    /\ ask' = None /\ at' = "idle"
    /\ chain' = None /\ left' = <<>> /\ work' = FALSE
    /\ image' = "none" /\ reply' = "none" /\ refuser' = None /\ mishap' = <<>>

\* the answer, and the finally
Answer(r, w) == at' = "done" /\ reply' = r /\ work' = w /\ left' = <<>>

\* build(), assemble_source(), translate_project_endpoint()
Route ==
    /\ at = "route"
    /\ IF ask.endpoint = "compile"
         THEN IF TurnedAway THEN Answer("refused", FALSE) /\ UNCHANGED chain
              ELSE /\ chain' = ChainOf(Target)
                   /\ at' = "check" /\ UNCHANGED <<left, work, reply>>
       ELSE IF \/ ask.target = "unknown"
               \/ ask.endpoint = "project" /\ (ask.options = "path" \/ ask.format \notin Formats)
         THEN Answer("refused", FALSE) /\ UNCHANGED chain
       ELSE /\ chain' = ask.target
            /\ at' = "check" /\ UNCHANGED <<left, work, reply>>
    /\ UNCHANGED <<ask, image, refuser, mishap>>

\* the defines and the options
Check ==
    /\ at = "check"
    /\ IF BadValue THEN Answer("refused", chain = "8051")
       ELSE at' = "run" /\ work' = TRUE /\ left' = Calls(chain) /\ UNCHANGED reply
    /\ UNCHANGED <<ask, chain, image, refuser, mishap>>

GoOn(i) == left' = Tail(left) /\ image' = i /\ UNCHANGED <<at, work, reply>>
Stop(r, w) == Answer(r, w) /\ UNCHANGED image

\* mutant: `and` for `or`
NoticedBoth(c, file) == {"exit", "file"} \subseteq c.looks /\ file = "none"

\* result.returncode != 0 or not os.path.exists(..)
Noticed(c, file) == "exit" \in c.looks \/ ("file" \in c.looks /\ file = "none")

\* the build goes on after a call that failed unnoticed
Unnoticed(c, file) ==
    IF c.slow = "go on" THEN GoOn(image)
    ELSE IF file # "none" THEN GoOn(file)
    ELSE IF c.without = "500" THEN Stop("500", FALSE)
    ELSE GoOn(IF c.without = "same" THEN image ELSE c.without)

EndsWell(c) ==
    /\ GoOn(IF image = "none" THEN "whole" ELSE image)
    /\ UNCHANGED <<refuser, mishap>>

Refuses(c) ==
    /\ c.tool \in Refusers /\ refuser = None /\ refuser' = c.tool /\ UNCHANGED mishap
    /\ \E file \in Left(c.tool, "refused") :
         IF Noticed(c, file) \/ "verdict" \in c.looks THEN Stop("error", FALSE)
         ELSE Unnoticed(c, file)

Befalls(c, what) ==
    /\ mishap = <<>> /\ c.tool \notin InProcess /\ mishap' = <<c.tool, what>>
    /\ UNCHANGED refuser

Dies(c) ==
    /\ Befalls(c, "died")
    /\ \E file \in Left(c.tool, "died") :
         IF Noticed(c, file) THEN Stop("error", FALSE) ELSE Unnoticed(c, file)

\* mutants: the directory is only removed on the way out of the try
TimesOutInPlace(c) ==
    /\ Befalls(c, "slow")
    /\ IF c.slow = "go on" THEN GoOn(image) ELSE Stop(c.slow, ~c.owned)

\* TimeoutExpired: the tool has been killed
TimesOut(c) ==
    /\ Befalls(c, "slow")
    /\ IF c.slow = "go on" THEN GoOn(image) ELSE Stop(c.slow, FALSE)

\* OSError
CannotStart(c) ==
    /\ Befalls(c, "gone")
    /\ IF c.gone = "go on" THEN GoOn(image) ELSE Stop(c.gone, ~c.owned)

Call ==
    /\ at = "run" /\ left # <<>>
    /\ LET c == Head(left) IN EndsWell(c) \/ Refuses(c) \/ Dies(c) \/ TimesOut(c) \/ CannotStart(c)
    /\ UNCHANGED <<ask, chain>>

Finish ==
    /\ at = "run" /\ left = <<>>
    /\ Answer("image", FALSE)
    /\ UNCHANGED <<ask, chain, image, refuser, mishap>>

PipeNext == Ask \/ Forget \/ Route \/ Check \/ Call \/ Finish

PipeSpec == PipeInit /\ [][PipeNext]_pipeVars

-----------------------------------------------------------------------------

Answered == at = "done"

\* what a build can do without
Optional == {"size", "symtab", "objdump"}

\* Whatever a tool refuses, on whichever chain, is answered as an error: not
\* by an image made from what was there, and not by an exception.
RefusalsReported ==
    Answered /\ mishap = <<>> /\ refuser \notin Optional \cup {None} => reply = "error"

\* A size, a symbol table or a listing that cannot be had never costs the
\* image, whether its tool refuses, dies, hangs or is not there.
ExtrasNeverFail ==
    Answered /\ refuser \in Optional \cup {None} /\ (mishap # <<>> => mishap[1] \in Optional)
        => reply \in {"refused", "image"}

\* The image answered is whole, and there is one, though a tool may die at
\* any moment and leave half a file: every compiler and every linker a
\* compiler drives is heard.  Nobody hears the converters, sdas and sdld.
ImageWhole ==
    reply = "image" =>
        image = "whole" \/ (mishap # <<>> /\ mishap[1] \in {"objcopy", "packihx", "makebin", "sdas", "sdld"})

\* The work directory is gone when the request is answered, also when a tool
\* failed or was killed.  It stays where the code has left it: after a bad
\* value for the 8051, and when the compiler does not start.
CleansUp ==
    Answered /\ work =>
        \/ chain = "8051" /\ reply = "refused"
        \/ mishap # <<>> /\ mishap[2] = "gone"
=============================================================================
