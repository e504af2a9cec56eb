------------------------------ MODULE EspTime ------------------------------
(***************************************************************************)
(* The calls of the ESP8266's Arduino layer that wait by reading a clock:  *)
(* delay reads the millisecond count, pulseIn the counter itself, while    *)
(* interrupts come between any two of their reads.                         *)
(***************************************************************************)
EXTENDS EspClock

CONSTANTS
    PerUs,     \* ticks of a microsecond, 5
    MaxLag,    \* the most ticks between two reads of a program that polls,
               \* the interrupts between them included
    MinLevel,  \* the pin keeps a level for at least as many ticks
    MsAsked,   \* what `delay` is called with
    Timeouts   \* what `pulseIn` is called with

ASSUME TimeAssumption ==
    /\ PerUs \in Nat \ {0} /\ MaxLag \in Nat /\ MinLevel \in Nat
    /\ MaxBusy <= MaxLag /\ MaxLag < PerMs /\ 3 * MaxLag < MinLevel
    /\ MsAsked \subseteq 0..(MsTurn-1) /\ Timeouts \subseteq 0..(Turn-1)

VARIABLES
    callAt,    \* where the program is; "let", "next" and "time" are pulseIn's
               \* three loops, each with its read of the pin and of the counter
    from,      \* `start`, the local of the call
    asked,     \* the argument
    began,     \* pulseIn's local
    result,    \* what it returns
    level,     \* the pin is at `state`
    steady,    \* for how many ticks it has been, up to MinLevel
    elapsed,   \* history: ticks since the call
    unpolled,  \* history: ticks since the program's last step
    width,     \* history: of the last pulse, as far as it has come; Turn if it
               \* began before the call
    turned     \* history: the counter has come round in this call

callVars == <<callAt, from, asked, began, result>>
pinVars == <<level, steady>>
history == <<elapsed, unpolled, width, turned>>
timeVars == <<espClockVars, callVars, pinVars, history>>

\* No call has been made.
CallsBegin ==
    /\ callAt = "idle" /\ from = 0 /\ asked = 0 /\ began = 0 /\ result = 0
    /\ level = FALSE /\ steady = MinLevel
    /\ elapsed = 0 /\ unpolled = 0 /\ width = 0 /\ turned = FALSE

TimeInit == EspClockInit /\ CallsBegin

Answered == callAt \in {"delayed", "measured"}
InCall == callAt # "idle" /\ ~Answered
InPulse == InCall /\ callAt # "delay"

\* as far as DelayInTime and PulseMeasured tell `elapsed` apart
Longest == IF callAt = "delay" THEN (asked * PerMs) + MaxLag + 1 ELSE asked * PerUs

\* The timer counts, a program that polls keeps polling, and a pulse gets longer.
TimeCount ==
    /\ ~Answered
    /\ InCall => unpolled < MaxLag
    /\ Count
    /\ unpolled' = IF InCall THEN unpolled + 1 ELSE 0
    /\ elapsed' = IF InCall /\ elapsed < Longest THEN elapsed + 1 ELSE elapsed
    /\ turned' = (turned \/ (InCall /\ count' = 0))
    /\ steady' = IF InPulse /\ steady < MinLevel THEN steady + 1 ELSE steady
    /\ width' = IF InPulse /\ level /\ width < Turn /\ callAt \notin {"let", "letLate"} THEN width + 1 ELSE width
    /\ UNCHANGED <<callVars, level>>

\* The pin changes its level; a new pulse has no width yet.
Change ==
    /\ InPulse /\ steady = MinLevel
    /\ level' = ~level
    /\ steady' = 0
    /\ width' = IF level THEN width ELSE 0
    /\ UNCHANGED <<espClockVars, callVars, elapsed, unpolled, turned>>

\* Interrupts come, but not for ever, and end.
Comes == ~Answered /\ (InCall => unpolled < MaxLag) /\ Hold /\ UNCHANGED <<callVars, pinVars, history>>
Ends == (EspTick \/ Release) /\ UNCHANGED <<callVars, pinVars, history>>

-----------------------------------------------------------------------------

Runs == ~off /\ ~due

\* micros: an unsigned long, whose differences wrap at Turn as the counter does,
\* although its values are a fifth of the counter's.
Micros == count \div PerUs
Since(us) == Ticks(Micros - us)

Begins(where, at, n) ==
    /\ Runs /\ callAt = "idle"
    /\ callAt' = where /\ from' = at /\ asked' = n
    /\ elapsed' = 0 /\ unpolled' = 0 /\ turned' = FALSE
    /\ level' \in IF where = "delay" THEN {FALSE} ELSE BOOLEAN
    /\ steady' = MinLevel
    /\ width' = IF level' THEN Turn ELSE 0
    /\ UNCHANGED <<espClockVars, began, result>>

\* A step of the call under way.
Step(where) ==
    /\ callAt' = where /\ unpolled' = 0
    /\ UNCHANGED <<espClockVars, from, asked, pinVars, elapsed, width, turned>>

DelayBegins == \E n \in MsAsked : Begins("delay", milliseconds, n)

\* while (bw_millis() - start < milliseconds)
DelayPolls ==
    /\ Runs /\ callAt = "delay"
    /\ Step(IF Millis(milliseconds - from) < asked THEN "delay" ELSE "delayed")
    /\ UNCHANGED <<began, result>>

\* mutant: does not let a pulse end that is under way
PulseBeginsLate == \E n \in Timeouts : Begins("next", Micros, n)

PulseBegins == \E n \in Timeouts : Begins("let", Micros, n)

\* digitalRead(pin) == state, and what comes next if it is and if it is not
Looks(loop, yes, no) ==
    /\ Runs /\ callAt = loop
    /\ Step(IF level THEN yes ELSE no)
    /\ UNCHANGED <<began, result>>

\* micros() - start >= timeoutMicroseconds
GivesUp(after, loop) ==
    /\ Runs /\ callAt = after
    /\ Step(IF Since(from) >= asked THEN "measured" ELSE loop)
    /\ result' = 0
    /\ UNCHANGED began

\* unsigned long began = micros()
Notes ==
    /\ Runs /\ callAt = "note"
    /\ Step("time")
    /\ began' = Micros
    /\ UNCHANGED result

\* return micros() - began
Measures ==
    /\ Runs /\ callAt = "ended"
    /\ Step("measured")
    /\ result' = Since(began)
    /\ UNCHANGED began

PulsePolls ==
    \/ Looks("let", "letLate", "next")
    \/ Looks("next", "note", "nextLate")
    \/ Looks("time", "timeLate", "ended")
    \/ GivesUp("letLate", "let")
    \/ GivesUp("nextLate", "next")
    \/ GivesUp("timeLate", "time")
    \/ Notes
    \/ Measures

\* The sketch has its answer.
CallIsOver ==
    /\ Runs /\ Answered
    /\ callAt' = "idle" /\ from' = 0 /\ asked' = 0 /\ began' = 0 /\ result' = 0
    /\ elapsed' = 0 /\ unpolled' = 0 /\ width' = 0 /\ turned' = FALSE
    /\ level' = FALSE /\ steady' = MinLevel
    /\ UNCHANGED espClockVars

CallPolls == DelayPolls \/ PulsePolls

TimeNext ==
    TimeCount \/ Change \/ Comes \/ Ends \/ DelayBegins \/ PulseBegins \/ CallPolls \/ CallIsOver

TimeSpec == TimeInit /\ [][TimeNext]_timeVars

TimeFairSpec ==
    /\ TimeSpec
    /\ WF_timeVars(TimeCount)
    /\ WF_timeVars(Ends)
    /\ WF_timeVars(CallPolls)

-----------------------------------------------------------------------------

TimeTypeOK ==
    /\ EspClockTypeOK
    /\ callAt \in {"idle", "delay", "delayed", "let", "letLate", "next", "nextLate",
               "note", "time", "timeLate", "ended", "measured"}
    /\ from \in 0..((Turn-1) + (MsTurn-1)) /\ asked \in 0..((Turn-1) + (MsTurn-1))
    /\ began \in 0..(Turn-1) /\ result \in 0..(Turn-1)
    /\ level \in BOOLEAN /\ steady \in 0..MinLevel
    /\ elapsed \in 0..(Turn * PerMs) /\ unpolled \in 0..MaxLag /\ width \in 0..Turn

\* delay(n) is short by less than a millisecond, and no longer than n of them
\* and what the last read comes late.
DelayInTime ==
    callAt = "delayed" =>
        /\ elapsed > (asked - 1) * PerMs
        /\ elapsed <= (asked * PerMs) + MaxLag

\* Since the call d milliseconds have ended, the first of which was under way; at its
\* last poll `delay` has seen fewer than it is to wait for.
Passed(d) ==
    /\ wholeMs = Millis(from + d)
    /\ ((d - 1) * PerMs) + intoMs < elapsed
    /\ elapsed <= (d * PerMs) + intoMs
    /\ (d * PerMs) + intoMs < (IF asked = 0 THEN PerMs ELSE asked * PerMs) + unpolled

\* what DelayInTime follows from
EspDelayInv ==
    /\ DelayInTime
    /\ unpolled \in 0..MaxLag /\ elapsed \in Nat
    /\ callAt = "delay" =>
        /\ asked \in 0..(MsTurn-1) /\ from \in 0..(MsTurn-1)
        /\ elapsed <= (asked * PerMs) + unpolled
        /\ \E d \in 0..(MsTurn-1) : Passed(d)

\* What a poll may add to or take from a measured time: the pin is read once in two
\* steps, and the counter one step after that.
Slack == 3 * MaxLag

\* pulseIn gives the length of a whole pulse, to a microsecond and the reads at its
\* two ends, or 0: after its timeout, or for a pulse of no more than that. Excepted
\* is a call in which the counter comes round.
PulseMeasured ==
    callAt = "measured" /\ ~turned =>
        \/ /\ result * PerUs < width + PerUs + Slack
           /\ width < result * PerUs + PerUs + Slack
        \/ result = 0 /\ elapsed > (asked - 1) * PerUs

\* delay and pulseIn last as long as they say and measure what there is, to within
\* their reads.
CallsKeepTime == DelayInTime /\ PulseMeasured

\* The times of pulseIn in ticks of the counter, while it has not come round. The call's:
Asked ==
    /\ from * PerUs <= count
    /\ elapsed < asked * PerUs => count - elapsed < (from * PerUs) + PerUs

\* a rise no longer ago than some reads,
RisesSince(ticks) == level => width = steady /\ width <= ticks /\ width <= count

\* and where a pulse began that is being timed: `began` was read at most Slack later.
TimedFrom(rise) ==
    /\ began * PerUs <= count
    /\ (began * PerUs) - Slack <= rise
    /\ rise < (began * PerUs) + PerUs

\* Its fall is as recent.
FallsSince(ticks) ==
    IF level THEN width <= count /\ TimedFrom(count - width)
             ELSE steady <= ticks /\ TimedFrom((count - steady) - width)

\* where pulseIn has got to
Reads ==
    /\ Asked
    /\ callAt = "nextLate" => RisesSince(unpolled)
    /\ callAt = "next" => RisesSince(MaxLag + unpolled)
    /\ callAt = "note" => level /\ RisesSince((2 * MaxLag) + unpolled)
    /\ callAt = "timeLate" => FallsSince(unpolled)
    /\ callAt = "time" => FallsSince(MaxLag + unpolled)
    /\ callAt = "ended" => ~level /\ FallsSince((2 * MaxLag) + unpolled)

PulseTypeOK ==
    /\ steady \in 0..MinLevel /\ width \in 0..Turn /\ level \in BOOLEAN /\ turned \in BOOLEAN
    /\ from \in Nat /\ asked \in Nat /\ began \in Nat /\ elapsed \in Nat /\ unpolled \in 0..MaxLag

\* what PulseMeasured follows from
PulseInv ==
    /\ PulseTypeOK /\ PulseMeasured
    /\ InPulse /\ ~turned => Reads

\* Every call comes back.
CallsReturn == InCall ~> ~InCall
=============================================================================
