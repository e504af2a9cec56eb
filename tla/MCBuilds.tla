------------------------------ MODULE MCBuilds ------------------------------
(* The builds: the Arduino route, with two requests, the core in two objects *)
(* and a library in one; or one of the other chains.                         *)
EXTENDS ArduinoCache, BuildPipeline, TLC

VARIABLES
    route  \* "arduino" or "tools"

MCSources == ("core" :> {"main", "tone"}) @@ ("servo" :> {"servo"})
MCSketches == {<<"core">>, <<"core", "servo">>}

Targets == {"small", "large", "avr", "arm", "6502", "z80", "shecc", "riscv", "esp8266", "unknown"}

MCAsked ==
    [endpoint : {"compile"}, language : {"c", "unknown"}, translated : {FALSE}, device : {"-"},
     target : Targets, format : {"ihx", "hex", "bin", "elf"}, options : {"plain", "path", "value"},
     symbols : BOOLEAN]
    \cup
    [endpoint : {"compile"}, language : {"keil"}, translated : BOOLEAN, device : {"-"},
     target : Targets, format : {"hex"}, options : {"plain"}, symbols : {FALSE}]
    \cup
    [endpoint : {"compile"}, language : {"pseudocode"}, translated : {FALSE},
     device : {"small", "large", "avr", "elsewhere"}, target : {"small", "large", "z80", "unknown"},
     format : {"hex", "elf"}, options : {"plain", "value"}, symbols : BOOLEAN]
    \cup
    [endpoint : {"project"}, language : {"keil"}, translated : {TRUE}, device : {"-"},
     target : {"project", "unknown"}, format : {"ihx", "hex", "bin", "elf"},
     options : {"plain", "path", "value"}, symbols : {FALSE}]
    \cup
    [endpoint : {"assemble"}, language : {"asm"}, translated : {FALSE}, device : {"-"},
     target : {"asm 8051", "asm z80", "asm 6502", "asm avr", "asm arm", "unknown"},
     format : {"hex"}, options : {"plain"}, symbols : {FALSE}]

notTools == <<route, vars>>
notArduino == <<route, pipeVars>>
mcBuildsVars == <<vars, notArduino>>

MCBuildsInit == Init /\ PipeInit /\ route \in {"arduino", "tools"}
          /\ (route = "tools" => sketch = [r \in Requests |-> <<"core">>])

MCBuildsNext ==
    \/ route = "arduino" /\ Next /\ UNCHANGED notArduino
    \/ route = "tools" /\ PipeNext /\ UNCHANGED notTools

MCBuildsFairSpec ==
    /\ MCBuildsInit /\ [][MCBuildsNext]_mcBuildsVars
    /\ \A r \in Requests : WF_mcBuildsVars(route = "arduino" /\ Step(r) /\ UNCHANGED notArduino)
=============================================================================
