------------------------------ MODULE StkFlash ------------------------------
(***************************************************************************)
(* flashAvr: an image written to an AVR through its bootloader and read    *)
(* back, STK500v1 over a serial line.  The line is two queues: commands on *)
(* their way to the board, and bytes on their way back, some of which      *)
(* have arrived in the transport's buffer.  A command may be lost on the   *)
(* way, noise may come from a board that is resetting, and an answer may   *)
(* come after the host has given up on it.                                 *)
(*                                                                         *)
(* The bootloader is not in the repository: it is modelled from the        *)
(* commands flash.js sends and the simulated one of its test.              *)
(***************************************************************************)
EXTENDS Integers, Sequences, SequencesExt

CONSTANTS
    Images,     \* images, sequences of byte values
    Page,       \* bytes of a page, an even number
    Size,       \* bytes of flash the model looks at, at least those of an image
    Worn,       \* the sets of cells that may not take what is written
    Rates,      \* the baud rates probed, in order
    BoardRates, \* the rates the board may listen at
    Attempts,   \* sync attempts at each rate
    MaxNoise,   \* noise bytes from the board before it is synced
    MaxLost,    \* commands lost on the way
    Slow,       \* an answer may take longer than the read's deadline
    Verify      \* read the image back

StkAssumption ==
    /\ Page \in Nat \ {0} /\ Page % 2 = 0
    /\ \A i \in Images : Len(i) > 0 /\ Size >= Len(i)

InSync == "insync"
Ok     == "ok"
Noise  == "noise"
Erased == "erased"
Bad    == "bad"

VARIABLES
    image,     \* fixed: what is flashed
    stage,     \* the command the host is about, or how the flash ended
    at,        \* where in it: "write", "head", "payload" or "tail"
    rate,      \* index into Rates
    tries,     \* sync attempts made at this rate
    offset,    \* the page, as a byte offset
    payload,   \* what a READ_PAGE has returned
    toBoard,   \* commands on the line
    fromBoard, \* bytes on the line
    buffer,    \* bytes the transport has received
    address,   \* the bootloader's WORD address
    flash,     \* the chip's cells
    worn,      \* cells that do not take what is written
    listens,   \* the rate the board listens at
    awake,     \* the bootloader has answered since its reset
    noise,     \* noise bytes so far
    lost,      \* commands lost so far
    late       \* a read was given up while its answer was under way

host  == <<stage, at, rate, tries, offset, payload>>
fixed == <<image, worn, listens>>
chip  == <<address, flash, awake, fixed>>
fault == <<noise, lost, late>>
vars  == <<host, toBoard, fromBoard, buffer, chip, fault>>

PageAt(o) == SubSeq(image, o + 1, IF o + Page < Len(image) THEN o + Page ELSE Len(image))
PageData == PageAt(offset)

\* STK500 addresses flash in words.
WordAddress == offset \div 2

Cmd(s) ==
    CASE s = "sync" -> [op |-> "sync"]
      [] s \in {"enter", "venter"} -> [op |-> "enter"]
      [] s \in {"leave", "vleave", "vquit"} -> [op |-> "leave"]
      [] s \in {"load", "vload"} -> [op |-> "load", word |-> WordAddress]
      [] s = "prog" -> [op |-> "prog", data |-> PageData]
      [] s = "vread" -> [op |-> "read", count |-> Len(PageData)]

Expected == IF stage = "vread" THEN Len(PageData) ELSE 0

Over == stage \in {"done", "failed"}

Init ==
    /\ image \in Images
    /\ stage = "sync" /\ at = "open" /\ rate = 1 /\ tries = 0 /\ offset = 0
    /\ payload = <<>>
    /\ toBoard = <<>> /\ fromBoard = <<>> /\ buffer = <<>>
    /\ address = 0 /\ flash = [i \in 0..(Size-1) |-> Erased]
    /\ worn \in Worn /\ listens \in BoardRates /\ awake = FALSE
    /\ noise = 0 /\ lost = 0 /\ late = FALSE

-----------------------------------------------------------------------------
(* The transport: serialTransport and pulseReset *)

\* port.open and the DTR pulse: the board restarts in its bootloader.
Reset ==
    /\ at = "open" /\ at' = "settle"
    /\ toBoard' = <<>> /\ fromBoard' = <<>> /\ buffer' = <<>>
    /\ address' = 0 /\ awake' = FALSE
    /\ UNCHANGED <<stage, rate, tries, offset, payload, flash, fixed, fault>>

\* io.drain() after the pulse
Drain ==
    /\ at = "settle" /\ at' = "write"
    /\ buffer' = <<>>
    /\ UNCHANGED <<stage, rate, tries, offset, payload, toBoard, fromBoard, chip, fault>>

\* the pump moves what has come in to the buffer
Pump ==
    /\ fromBoard # <<>>
    /\ buffer' = Append(buffer, Head(fromBoard))
    /\ fromBoard' = Tail(fromBoard)
    /\ UNCHANGED <<host, toBoard, chip, fault>>

-----------------------------------------------------------------------------
(* The host: Stk500 and flashAvr *)

Write ==
    /\ at = "write" /\ ~Over
    /\ toBoard' = Append(toBoard, Cmd(stage))
    /\ at' = "head"
    /\ UNCHANGED <<stage, rate, tries, offset, payload, fromBoard, buffer, chip, fault>>

\* the page read back is not the image's
Differs == payload # PageData

\* What is sent once a command has been acknowledged.
Proceed ==
    LET more == offset + Page < Len(image)
        go(s, o) == stage' = s /\ offset' = o
    IN
    CASE stage = "sync"   -> go("enter", 0)
      [] stage = "enter"  -> go("load", 0)
      [] stage = "load"   -> go("prog", offset)
      [] stage = "prog"   -> IF more THEN go("load", offset + Page) ELSE go("leave", 0)
      [] stage = "leave"  -> IF Verify THEN go("venter", 0) ELSE go("done", 0)
      [] stage = "venter" -> go("vload", 0)
      [] stage = "vload"  -> go("vread", offset)
      [] stage = "vread"  -> IF Differs THEN go("vquit", 0)
                             ELSE IF more THEN go("vload", offset + Page)
                             ELSE go("vleave", 0)
      [] stage = "vleave" -> go("done", 0)
      [] stage = "vquit"  -> go("failed", 0)

MoreRates == rate < Len(Rates)

\* A command fails.  A sync is tried again on a drained buffer, then at the
\* next rate; any other failure ends the flash, the port closed.
Fail(rest) ==
    /\ payload' = <<>>
    /\ \/ /\ stage = "sync" /\ tries + 1 < Attempts
          /\ tries' = tries + 1 /\ at' = "write" /\ buffer' = <<>>
          /\ UNCHANGED <<stage, rate, offset, fromBoard>>
       \/ /\ stage = "sync" /\ tries + 1 >= Attempts /\ MoreRates
          /\ rate' = rate + 1 /\ tries' = 0 /\ at' = "open" /\ buffer' = <<>>
          /\ UNCHANGED <<stage, offset, fromBoard>>
       \/ /\ stage = "sync" => tries + 1 >= Attempts /\ ~MoreRates
          /\ stage' = "failed" /\ at' = "write" /\ buffer' = rest /\ offset' = 0
          /\ UNCHANGED <<rate, tries, fromBoard>>

\* the head byte: in sync or not
ReadHead ==
    /\ at = "head" /\ buffer # <<>>
    /\ IF Head(buffer) = InSync
         THEN /\ at' = (IF Expected > 0 THEN "payload" ELSE "tail")
              /\ buffer' = Tail(buffer)
              /\ UNCHANGED <<stage, rate, tries, offset, payload, fromBoard>>
         ELSE Fail(Tail(buffer))
    /\ UNCHANGED <<toBoard, chip, fault>>

ReadPayload ==
    /\ at = "payload" /\ Len(buffer) >= Expected
    /\ payload' = SubSeq(buffer, 1, Expected)
    /\ buffer' = SubSeq(buffer, Expected + 1, Len(buffer))
    /\ at' = "tail"
    /\ UNCHANGED <<stage, rate, tries, offset, toBoard, fromBoard, chip, fault>>

ReadTail ==
    /\ at = "tail" /\ buffer # <<>>
    /\ IF Head(buffer) = Ok
         THEN /\ Proceed
              /\ at' = "write" /\ payload' = <<>>
              /\ buffer' = Tail(buffer)
              /\ UNCHANGED <<rate, tries, fromBoard>>
         ELSE Fail(Tail(buffer))
    /\ UNCHANGED <<toBoard, chip, fault>>

\* The deadline passes with too few bytes in the buffer.
Missing ==
    \/ (at \in {"head", "tail"} /\ buffer = <<>>)
    \/ (at = "payload" /\ Len(buffer) < Expected)

Timeout ==
    /\ Missing
    /\ Slow \/ (toBoard = <<>> /\ fromBoard = <<>>)
    /\ Fail(buffer)
    /\ late' = (late \/ toBoard # <<>> \/ fromBoard # <<>>)
    /\ UNCHANGED <<toBoard, chip, noise, lost>>

Host == Reset \/ Drain \/ Write \/ ReadHead \/ ReadPayload \/ ReadTail \/ Timeout

-----------------------------------------------------------------------------
(* The bootloader and the line *)

Hears(op) ==
    /\ toBoard # <<>> /\ Rates[rate] = listens /\ Head(toBoard).op = op
    /\ toBoard' = Tail(toBoard) /\ awake' = TRUE
    /\ UNCHANGED <<host, buffer, fixed, fault>>

Ack == fromBoard' = fromBoard \o <<InSync, Ok>>

BoardAcks ==
    /\ Hears("sync") \/ Hears("enter") \/ Hears("leave")
    /\ Ack /\ UNCHANGED <<address, flash>>

BoardLoads ==
    /\ Hears("load")
    /\ address' = Head(toBoard).word
    /\ Ack /\ UNCHANGED flash

BoardPrograms ==
    /\ Hears("prog")
    /\ LET data == Head(toBoard).data
           first == 2 * address
       IN flash' = [i \in DOMAIN flash |->
                      IF i < first \/ i >= first + Len(data) THEN flash[i]
                      ELSE IF i \in worn THEN Bad ELSE data[i - first + 1]]
    /\ Ack /\ UNCHANGED address

\* cells beyond the ones the model looks at are erased
BoardReads ==
    /\ Hears("read")
    /\ fromBoard' = fromBoard \o <<InSync>>
                    \o [k \in 1..Head(toBoard).count |->
                          LET i == 2 * address + k - 1
                          IN IF i \in DOMAIN flash THEN flash[i] ELSE Erased]
                    \o <<Ok>>
    /\ UNCHANGED <<address, flash>>

\* At another rate the board sees noise, not commands.
BoardIsDeaf ==
    /\ toBoard # <<>> /\ Rates[rate] # listens
    /\ toBoard' = Tail(toBoard)
    /\ UNCHANGED <<host, fromBoard, buffer, chip, fault>>

\* a board emits noise before it is listening
BoardEmitsNoise ==
    /\ noise < MaxNoise /\ at # "open" /\ ~awake
    /\ noise' = noise + 1
    /\ fromBoard' = Append(fromBoard, Noise)
    /\ UNCHANGED <<host, toBoard, buffer, chip, lost, late>>

LoseCommand ==
    /\ lost < MaxLost /\ toBoard # <<>>
    /\ lost' = lost + 1
    /\ toBoard' = Tail(toBoard)
    /\ UNCHANGED <<host, fromBoard, buffer, chip, noise, late>>

Board == BoardAcks \/ BoardLoads \/ BoardPrograms \/ BoardReads \/ BoardIsDeaf

Next == Host \/ Pump \/ Board \/ BoardEmitsNoise \/ LoseCommand

Spec == Init /\ [][Next]_vars

\* The page's event loop runs and the line delivers.
FairSpec == Spec /\ WF_vars(Host) /\ WF_vars(Pump) /\ WF_vars(Board)

-----------------------------------------------------------------------------

\* No answer is out of step with its command.
InStep == noise = 0 /\ ~late

\* Where answers are out of step, bytes that are not those of the first page
\* may be taken for it: the end of one answer and the start of the next, and
\* after a lost LOAD_ADDRESS another page that is the same, or its start.
Mistakable ==
    \/ IsPrefix(<<Ok, InSync>>, image)
    \/ \E o \in 1..Len(image) - 1 : o % Page = 0 /\ IsPrefix(PageAt(o), PageAt(0))

\* What flashAvr reports as written and verified is in the chip, cell by cell,
\* whatever the line and the chip did on the way: any image while the answers
\* are in step, and out of step every one whose first page is not mistakable.
VerifiedMeansWritten ==
    stage = "done" /\ Verify /\ (Mistakable => InStep) =>
        \A i \in DOMAIN image : flash[i-1] = image[i]

\* A cell that holds anything holds the image's byte for it: no page is
\* written at another page's address or past the end of the image.  It takes
\* two faults to break this, an answer out of step and a lost LOAD_ADDRESS.
NothingElseWritten ==
    InStep \/ lost = 0 =>
        \A i \in DOMAIN flash :
            flash[i] \in {Erased, Bad} \/ (i < Len(image) /\ flash[i] = image[i+1])

Deaf == \A r \in 1..Len(Rates) : Rates[r] # listens

\* A board that answers every command in time, at a rate that is probed and
\* with cells that work, is never given up on.
GoodBoardIsFlashed == stage = "failed" => worn # {} \/ lost > 0 \/ late \/ Deaf

\* The same on a line without noise.
GoodQuietBoardIsFlashed == noise = 0 => GoodBoardIsFlashed

\* The flash always comes to an end, and the port is closed.
Ends == <>Over
=============================================================================
