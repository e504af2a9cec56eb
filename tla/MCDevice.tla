------------------------------ MODULE MCDevice ------------------------------
(***************************************************************************)
(* What runs on a board besides its scripts.  One of six machines is       *)
(* chosen at the start: the clock and the waits of a generated 8051        *)
(* program (MCClock); the ESP8266's delay and pulseIn, its waveforms, and  *)
(* its pin interrupts; the Arduino core's serial port, sending and         *)
(* receiving.  The others stay as they begin.                              *)
(***************************************************************************)
EXTENDS MCClock, EspTime, EspWave, EspPins, SerialPort, FiniteSets

\* An edge may be 4 ticks late (Late). The waves are PWM of 10 ticks, 9 of them high, and
\* beside it a tone of 18 that lasts a millisecond: the parts of 9 ticks, two of the tone
\* and one of the PWM, are more than twice as long as an edge may be late by, so that a pin
\* that misses an edge is seen at the wrong level, and so is one that is stuck, the tone's
\* at either level and the PWM's at LOW.  The PWM's other part is shorter than an edge may
\* be late by, and than the timer's least load: both of its edges may be due at once.

VARIABLE machine

timeOnly == <<callVars, pinVars, history>>
others == <<timeOnly, waveVars, sendVars, receiveVars>>
deviceVars == <<machine, mcVars, espClockVars, pinsVars, others>>

notClock == <<machine, espClockVars, pinsVars, others>>
notTime == <<machine, mcVars, pinsVars, waveVars, sendVars, receiveVars>>
notWave == <<machine, mcVars, pinsVars, timeOnly, sendVars, receiveVars>>
notPins == <<machine, mcVars, espClockVars, others>>
notSend == <<machine, mcVars, espClockVars, pinsVars, timeOnly, waveVars, receiveVars>>
notReceive == <<machine, mcVars, espClockVars, pinsVars, timeOnly, waveVars, sendVars>>

DeviceInit ==
    /\ machine \in {"clock", "time", "wave", "pins", "send", "receive"}
    /\ IF machine = "clock" THEN MCInit
       ELSE Init /\ wait = 0 /\ lowering = "task" /\ start = 0 /\ left = 0
    /\ TimeInit /\ WaveInit /\ PinsInit /\ SendInit /\ ReceiveInit

DeviceNext ==
    \/ machine = "clock" /\ MCNext /\ UNCHANGED notClock
    \/ machine = "time" /\ TimeNext /\ UNCHANGED notTime
    \/ machine = "wave" /\ WaveNext /\ UNCHANGED notWave
    \/ machine = "pins" /\ PinsNext /\ UNCHANGED notPins
    \/ machine = "send" /\ SendNext /\ UNCHANGED notSend
    \/ machine = "receive" /\ ReceiveNext /\ UNCHANGED notReceive

\* What each machine's specification is fair to, over its own variables: a step of the
\* machine that was chosen leaves the others alone.
Task(A) == machine = "clock" /\ lowering = "task" /\ A /\ UNCHANGED notTask
Lone(A) == machine = "clock" /\ lowering = "delay" /\ A /\ UNCHANGED notDelay

ClockIsFair ==
    /\ WF_mcVars(Task(Overflow /\ Timely) \/ Lone(DelayOverflow /\ PollsOn))
    /\ SF_mcVars(Task(Tick /\ Timely) \/ Lone(DelayTick /\ PollsOn))
    /\ WF_mcVars(Task(pc # "resumed" /\ TaskStep) \/ Lone(pc # "done" /\ DelayStep))

TimeIsFair ==
    /\ WF_timeVars(machine = "time" /\ TimeCount)
    /\ WF_timeVars(machine = "time" /\ Ends)
    /\ WF_timeVars(machine = "time" /\ CallPolls)

PinsAreFair ==
    /\ WF_pinsVars(machine = "pins" /\ PinInterrupt)
    /\ WF_pinsVars(machine = "pins" /\ Sketch)

PortIsFair ==
    /\ WF_sendVars(machine = "send" /\ Port)
    /\ WF_sendVars(machine = "send" /\ (DataEmpty \/ Marks))
    /\ WF_sendVars(machine = "send" /\ (Write \/ Flush))

Fairness == ClockIsFair /\ TimeIsFair /\ PinsAreFair /\ PortIsFair

DeviceFairSpec == DeviceInit /\ [][DeviceNext]_deviceVars /\ Fairness

-----------------------------------------------------------------------------

\* Every wait of a task and every delay of a lone script ends (8051), and every delay
\* and pulseIn (ESP8266); the edge of the pin that is served last is served; every
\* write and flush of the serial port ends, but for a write that `begin` has stranded.
Begun ==
    CASE machine = "clock" -> pc \in {"arming", "start"}
      [] machine = "time" -> InCall
      [] machine = "pins" -> (CHOOSE p \in Usable : \A q \in Usable : q <= p) \in unserved \ undone
      [] machine = "send" -> at # "sketch"
      [] OTHER -> FALSE

Over ==
    CASE machine = "clock" -> pc \in {"resumed", "done"}
      [] machine = "time" -> ~InCall
      [] machine = "pins" -> (CHOOSE p \in Usable : \A q \in Usable : q <= p) \notin unserved \ undone
      [] machine = "send" -> at = "sketch" \/ Stranded
      [] OTHER -> TRUE

EveryCallEnds == Begun ~> Over
=============================================================================
