------------------------------ MODULE MCFlash ------------------------------
(***************************************************************************)
(* The web page flashes with the flasher its user picks: one of the four   *)
(* state machines, chosen at the start.  They share the names of their     *)
(* variables; a variable the chosen one does not have is "unused", and the *)
(* chunks of StcIsp and the cells of PagedFlash, whose invariants are      *)
(* stated of them all, are none.                                           *)
(***************************************************************************)
EXTENDS StcIsp, PagedFlash

VARIABLES
    flasher,
    toBoard, fromBoard, late,                                   \* shared
    rate, payload, buffer, address, flash,                      \* StkFlash
    worn, listens, awake, noise,
    printed, failure, mode, typed, fd, main, small, sizes, started \* ReplFlash

\* Images of a full page and a short or a full one: one that starts like answers,
\* and one with such a page further on. A worn cell or none, a board at one of the
\* two rates probed or at another.
Stk == INSTANCE StkFlash WITH
    Images <- {<<"ok", "insync", "ok">>, <<"a", "b", "ok", "insync">>},
    Page <- 2, Size <- 5, Worn <- {{}, {1}},
    Rates <- <<115200, 57600>>, BoardRates <- {57600, 115200, 9600},
    Attempts <- 3, MaxNoise <- 2, MaxLost <- 2, Slow <- TRUE, Verify <- TRUE

\* StcIsp, extended: images on either side of the 512-byte padding, one that a part
\* of 12 chunks has no room for.

\* PagedFlash, extended: sixteen cells in pages of four, images that end inside a page
\* and inside a word, have a gap, begin in a later page, and reach past the code flash.

\* A program of two pieces, the second a short one.
Repl == INSTANCE ReplFlash WITH
    Source <- <<"a", "b", "c">>, Piece <- 2,
    Modes <- {"program", "catches", "stubborn", "repl", "raw"},
    MaxLost <- 1, MaxRuns <- 2

ASSUME BoundsAssumption ==
    Stk!StkAssumption /\ Repl!ReplAssumption

\* what a flasher has and none of the others; StkFlash and PagedFlash share `image`
stkOnly == <<rate, payload, buffer, address, flash, worn, listens, awake, noise>>
ispOnly == <<asked, length, next, pulses, greeting, hostRate, line, back,
             power, mcuRate, chunks, cycles>>
pagedOnly == <<job, mem, target, result, fault>>
replOnly == <<printed, failure, mode, typed, fd, main, small, sizes, started>>
serial == <<late, toBoard, fromBoard>>   \* of StkFlash and ReplFlash

notStk == <<flasher, part, runs, ispOnly, pagedOnly, replOnly>>
notIsp == <<flasher, at, offset, tries, runs, serial, stkOnly, pagedOnly, replOnly>>
notPaged == <<flasher, part, stage, lost, serial, stkOnly, ispOnly, replOnly>>
notRepl == <<flasher, tries, part, stkOnly, ispOnly, pagedOnly>>

vars == <<flasher, stage, lost, at, offset, tries, part, runs, serial,
          stkOnly, ispOnly, pagedOnly, replOnly>>

NoStk ==
    /\ rate = "unused" /\ payload = "unused" /\ buffer = "unused" /\ address = "unused"
    /\ flash = "unused" /\ worn = "unused" /\ listens = "unused" /\ awake = "unused"
    /\ noise = "unused"
NoIsp ==
    /\ asked = "unused" /\ length = "unused" /\ next = "unused" /\ pulses = "unused"
    /\ greeting = "unused" /\ hostRate = "unused" /\ line = "unused" /\ back = "unused"
    /\ power = "unused" /\ mcuRate = "unused" /\ chunks = <<>> /\ cycles = "unused"
NoImage == image = "unused"
NoPaged ==
    /\ tool = "unused" /\ base = "unused" /\ chip = "unused"
    /\ bad = "unused" /\ slow = "unused" /\ mem = <<>> /\ target = "unused" /\ result = "unused"
    /\ fault = "unused"
NoRepl ==
    /\ printed = "unused" /\ failure = "unused" /\ mode = "unused" /\ typed = "unused"
    /\ fd = "unused" /\ main = "unused" /\ small = "unused" /\ sizes = "unused"
    /\ started = "unused"
NoSerial == late = "unused" /\ toBoard = "unused" /\ fromBoard = "unused"

StkPicked ==
    /\ flasher = "stk" /\ Stk!Init
    /\ part = "unused" /\ runs = "unused" /\ NoIsp /\ NoPaged /\ NoRepl
IspPicked ==
    /\ flasher = "stc" /\ IspInit
    /\ at = "unused" /\ offset = "unused" /\ tries = "unused" /\ runs = "unused"
    /\ NoSerial /\ NoStk /\ NoPaged /\ NoRepl /\ NoImage
PagedPicked ==
    /\ flasher = "paged" /\ PagedInit
    /\ part = "unused" /\ stage = "unused" /\ lost = "unused" /\ NoSerial /\ NoStk /\ NoIsp /\ NoRepl
ReplPicked ==
    /\ flasher = "repl" /\ Repl!Init
    /\ tries = "unused" /\ part = "unused" /\ NoStk /\ NoIsp /\ NoPaged /\ NoImage

Init == StkPicked \/ IspPicked \/ PagedPicked \/ ReplPicked

Next ==
    \/ flasher = "stk" /\ Stk!Next /\ UNCHANGED notStk
    \/ flasher = "stc" /\ IspNext /\ UNCHANGED notIsp
    \/ flasher = "paged" /\ PagedNext /\ UNCHANGED notPaged
    \/ flasher = "repl" /\ Repl!Next /\ UNCHANGED notRepl

\* each flasher's own fairness
Fairness ==
    /\ WF_vars(flasher = "stk" /\ Stk!Host /\ UNCHANGED notStk)
    /\ WF_vars(flasher = "stk" /\ Stk!Pump /\ UNCHANGED notStk)
    /\ WF_vars(flasher = "stk" /\ Stk!Board /\ UNCHANGED notStk)
    /\ WF_vars(flasher = "stc" /\ IspHost /\ UNCHANGED notIsp)
    /\ WF_vars(flasher = "stc" /\ Mcu /\ UNCHANGED notIsp)
    /\ WF_vars(flasher = "paged" /\ PagedHost /\ UNCHANGED notPaged)
    /\ WF_vars(flasher = "repl" /\ Repl!Host /\ UNCHANGED notRepl)
    /\ WF_vars(flasher = "repl" /\ Repl!Timeout /\ UNCHANGED notRepl)
    /\ WF_vars(flasher = "repl" /\ Repl!Board /\ UNCHANGED notRepl)

FairSpec == Init /\ [][Next]_vars /\ Fairness

-----------------------------------------------------------------------------

\* A flasher that reports success has written the image, whatever the line and the
\* board did on the way, and a program that ReplFlash starts is whole. Of a MicroPython
\* board it knows the sizes alone: there a byte that the line has exchanged may be wrong.
\* What StkFlash has verified it has written, but for an image whose first page may be
\* mistaken, after an answer out of step. It writes no page at another page's address,
\* but after an answer out of step and a lost LOAD_ADDRESS together.
DoneMeansWritten ==
    /\ flasher = "stk" => Stk!VerifiedMeansWritten /\ Stk!NothingElseWritten
    /\ flasher = "stc" => DoneMeansFlashed
    /\ flasher = "paged" => ImageWritten
    /\ flasher = "repl" => Repl!DoneMeansWritten /\ Repl!StartedIsComplete

\* A board that does all it is asked, in time, is flashed, on top of whatever an
\* earlier attempt left: by StkFlash on a line without noise, at any rate it probes.
GoodBoardIsFlashed ==
    /\ flasher = "stk" => Stk!GoodQuietBoardIsFlashed
    /\ flasher = "paged" => GoodBoardIsPaged
    /\ flasher = "repl" => Repl!GoodBoardIsFlashed

\* Whatever the board does, every flash comes to an end, but one over USB whose
\* transfer is never answered.
Ends ==
    /\ flasher = "stk" => Stk!Ends
    /\ flasher = "stc" => IspEnds
    /\ flasher = "paged" => PagedEnds
    /\ flasher = "repl" => Repl!Ends
=============================================================================
