----------------------------- MODULE PagedFlash -----------------------------
(***************************************************************************)
(* The flashers that never resend: the EEPROM programmer, the Mega's       *)
(* STK500v2 bootloader, USBasp, the STM32 ROM loader, and SWD on an STM32  *)
(* or on the micro:bit's nRF52833.  Each is a fixed sequence of exchanges  *)
(* with a board that answers, refuses or falls silent; the first failure   *)
(* ends the attempt, and the user may start over on what it left.  A read  *)
(* from a serial port has a deadline.  A USB transfer has none: a board    *)
(* that never answers one is waited for until the user unplugs it.         *)
(***************************************************************************)
EXTENDS Integers, Sequences, FiniteSets, FiniteSetsExt

CONSTANTS
    Tools,    \* the flashers looked at
    Images,   \* images, each the set of addresses it has data for
    Bases,    \* first addresses an EEPROM is written from
    Page,     \* bytes in a page, and in one STM32 write (scaled)
    Word,     \* bytes in a word (scaled)
    Space,    \* cells of the board's memory
    CodeEnd,  \* end of the nRF's code flash
    PartSize, \* flash of the AVR that a USBasp finds
    IspReach, \* cells that a USBasp's two address bytes reach
    Slow,     \* whether the global erase may outlast the transport's timeout
    MaxRuns   \* bound: attempts

\* Flash has whole words and pages; nothing of an EEPROM's image is sent past its end.
ASSUME FlashAssumption ==
    /\ Tools \subseteq {"eeprom", "mega", "usbasp", "stm32", "swd", "daplink"}
    /\ Word \in Nat \ {0} /\ Page \in Nat \ {0} /\ Page % Word = 0
    /\ Space \in Nat /\ Space % Word = 0
    /\ CodeEnd \in Nat /\ CodeEnd % Page = 0 /\ CodeEnd <= Space
    /\ PartSize \in Nat /\ IspReach \in Nat \ {0} /\ IspReach % Word = 0
    /\ \A i \in Images : i # {} /\ i \subseteq 0..Space - 1
    /\ Bases \subseteq Nat /\ \A i \in Images, b \in Bases : \A a \in i : b + a < Space
    /\ Slow \subseteq BOOLEAN /\ MaxRuns \in Nat

Old == -1    \* what a cell held before
Blank == 0   \* 0xFF, an erased cell
Broken == -2 \* neither what was there nor what was sent
Sync == 3    \* attempts at Programming Enable

VARIABLES
    tool, image, base, chip, bad, slow, \* fixed: the job and the board; `chip`
             \* tells whether it has the part that the tool is for
    at,      \* index into the tool's sequence
    offset,     \* offset of the next page, chunk or word in it
    tries,   \* attempts at Programming Enable that missed
    mem,     \* the board's cells
    target,  \* what the target does: "app", "held" or "started"
    result,  \* "none", "done" or "error"; "silent" while a transfer is waited for in vain
    fault,   \* the board failed in this attempt
    runs     \* attempts

job == <<tool, image, base, chip, bad, slow>>
pagedVars == <<job, at, offset, tries, mem, target, result, fault, runs>>

-----------------------------------------------------------------------------
\* The exchanges of each flasher, in order.  "ask" stands for those that leave
\* the memory alone and whose answer is only checked for success.
Eeprom == <<"identify", "write", "ask">>
Mega == <<"ask", "ask", "write", "ask", "ask", "verify", "ask">>
\* mutant: the chip is not erased
UsbaspUnerased == <<"ask", "sync", "identify", "write", "verify">>
Usbasp == <<"ask", "sync", "identify", "erase", "write", "verify">>
Stm32 == <<"ask", "ask", "erase", "write", "start">>
Swd == <<"ask", "halt", "ask", "erase", "write", "start">>
\* mutant: pages are erased before the part is known
DaplinkHasty == <<"ask", "halt", "pages", "identify", "write", "start">>
Daplink == <<"ask", "halt", "identify", "pages", "write", "start">>

Exchanges ==
    CASE tool = "eeprom" -> Eeprom [] tool = "mega" -> Mega
      [] tool = "usbasp" -> Usbasp [] tool = "stm32" -> Stm32
      [] tool = "swd" -> Swd       [] tool = "daplink" -> Daplink

\* what is flashed over USB
Usb == {"usbasp", "swd", "daplink"}

Doing(what) == result = "none" /\ Exchanges[at] = what

-----------------------------------------------------------------------------
\* The image, as parseIntelHex pads it or as it is given: 0xFF in its gaps.
Length == Max(image) + 1
DataAt(a) == IF a \in image THEN a + 1 ELSE Blank

RoundDown(a, unit) == a - (a % unit)
RoundUp(a, unit) == RoundDown(a + unit - 1, unit)

\* where an image's writes begin and end
First == IF tool = "daplink" THEN RoundDown(Min(image), Word) ELSE 0
End == CASE tool \in {"stm32", "swd"} -> RoundUp(Length, Word)
         [] tool = "daplink" -> Min({Length, CodeEnd})
         [] OTHER -> Length

EepromBytes(o) == Min({Page - ((base + o) % Page), Length - o})
PageBytes(o) == Min({Page, End - o})
UsbaspBytes(o) == RoundUp(PageBytes(o), Word)

\* bytes sent by the write at offset o
Bytes(o) == CASE tool = "eeprom" -> EepromBytes(o)
              [] tool = "usbasp" -> UsbaspBytes(o)
              [] tool \in {"mega", "stm32"} -> PageBytes(o)
              [] OTHER -> Word

\* mutant: an EEPROM write advances by a page
AdvanceByPage(o) == o + (IF tool \in {"swd", "daplink"} THEN Word ELSE Page)

\* an EEPROM write advances by what was sent, the others by their unit
Advance(o) == o + (CASE tool = "eeprom" -> Bytes(o)
                     [] tool \in {"swd", "daplink"} -> Word
                     [] OTHER -> Page)

\* A USBasp sends the low 16 bits of a word address.
IspCell(a) == a % IspReach

-----------------------------------------------------------------------------
\* The boards.  An EEPROM's write wraps within a page; it replaces what was
\* there, as the Mega's bootloader does, which erases the page first; flash
\* that is not erased is spoilt.
Cell(a, start) == CASE tool = "eeprom" -> RoundDown(start, Page) + (a % Page)
                    [] tool = "usbasp" -> IspCell(a)
                    [] OTHER -> a

Takes(cell, byte) ==
    IF cell \in bad THEN Broken
    ELSE IF tool \in {"eeprom", "mega"} \/ mem[cell] \in {Blank, byte} THEN byte
    ELSE IF byte = Blank THEN mem[cell] ELSE Broken

Sent(o) == {o + i : i \in 0..Bytes(o) - 1}
Programmed ==
    LET at0 == base + offset
        from(c) == {a \in Sent(offset) : Cell(base + a, at0) = c}
    IN [c \in DOMAIN mem |->
          IF from(c) # {} THEN Takes(c, DataAt(Max(from(c))))
          ELSE IF tool = "mega" /\ RoundDown(c, Page) = offset THEN Blank ELSE mem[c]]

Erased(cells) == [c \in DOMAIN mem |-> IF c \in cells THEN Blank ELSE mem[c]]

\* the memory once the exchange at hand has succeeded
Effect == CASE Exchanges[at] = "erase" -> Erased(DOMAIN mem)
            [] Exchanges[at] = "pages" -> Erased({c \in DOMAIN mem : RoundDown(c, Page) = offset})
            [] Exchanges[at] = "write" -> Programmed
            [] OTHER -> mem

-----------------------------------------------------------------------------
Origin(what) == CASE what = "pages" -> RoundDown(First, Page)
                  [] what = "write" -> First
                  [] OTHER -> 0

Proceed ==
    IF at = Len(Exchanges)
    THEN result' = "done" /\ UNCHANGED <<at, offset>>
    ELSE at' = at + 1 /\ offset' = Origin(Exchanges[at + 1]) /\ UNCHANGED result

Fail == result' = "error" /\ UNCHANGED <<at, offset>>

PagedInit ==
    /\ tool \in Tools /\ image \in Images
    /\ base \in IF tool = "eeprom" THEN Bases ELSE {0}
    /\ chip \in {"right", "other"} /\ slow \in Slow
    /\ bad \in {{}} \cup {{c} : c \in {0, Max(image)}}
    /\ at = 1 /\ offset = Origin(Exchanges[1]) /\ tries = 0
    /\ mem = [c \in 0..Space - 1 |-> Old]
    /\ target = "app" /\ result = "none" /\ fault = FALSE /\ runs = 1

Ask == Doing("ask") /\ Proceed /\ UNCHANGED <<job, tries, mem, target, fault, runs>>

\* DHCSR: the core no longer runs while its flash is changed
Halt ==
    /\ Doing("halt") /\ target' = "held"
    /\ Proceed /\ UNCHANGED <<job, tries, mem, fault, runs>>

\* Programming Enable, of which the first attempts may miss
Enable ==
    /\ Doing("sync")
    /\ \/ Proceed /\ UNCHANGED <<tries, fault>>
       \/ /\ tries' = tries + 1
          /\ IF tries' < Sync THEN UNCHANGED <<at, offset, result, fault>>
                              ELSE Fail /\ fault' = TRUE
    /\ UNCHANGED <<job, mem, target, runs>>

\* A banner, a signature or a part number, and whether the image fits.
Fits == CASE tool = "usbasp" -> Length <= PartSize
          [] tool = "daplink" -> First < CodeEnd
          [] OTHER -> TRUE
Identify ==
    /\ Doing("identify")
    /\ IF chip = "right" /\ Fits THEN Proceed ELSE Fail
    /\ UNCHANGED <<job, tries, mem, target, fault, runs>>

\* The answer to a slow global erase comes after the read has timed out.
Erase ==
    /\ Doing("erase") /\ mem' = Effect
    /\ IF tool = "stm32" /\ slow THEN Fail ELSE Proceed
    /\ UNCHANGED <<job, tries, target, fault, runs>>

ErasePage ==
    /\ Doing("pages") /\ mem' = Effect
    /\ IF offset + Page < End THEN offset' = offset + Page /\ UNCHANGED <<at, result>> ELSE Proceed
    /\ UNCHANGED <<job, tries, target, fault, runs>>

\* The EEPROM programmer compares what it wrote and refuses a cell that failed.
Write ==
    /\ Doing("write") /\ mem' = Programmed
    /\ IF tool = "eeprom" /\ \E a \in Sent(offset) : base + a \in bad THEN Fail
       ELSE IF Advance(offset) < End THEN offset' = Advance(offset) /\ UNCHANGED <<at, result>>
       ELSE Proceed
    /\ UNCHANGED <<job, tries, target, fault, runs>>

\* A page of the image compared with what the board reads back.
ReadBack ==
    /\ Doing("verify")
    /\ IF \E a \in offset..Min({offset + Page, Length}) - 1 : mem[Cell(a, offset)] # DataAt(a) THEN Fail
       ELSE IF offset + Page < Length THEN offset' = offset + Page /\ UNCHANGED <<at, result>>
       ELSE Proceed
    /\ UNCHANGED <<job, tries, mem, target, fault, runs>>

\* GO, or a system reset
Start ==
    /\ Doing("start") /\ target' = "started"
    /\ Proceed /\ UNCHANGED <<job, tries, mem, fault, runs>>

\* mutant: a refused exchange is passed over
RefusedGoesOn ==
    /\ result = "none" /\ fault' = TRUE
    /\ \E k \in 0..Space : mem' = [c \in DOMAIN mem |-> IF c < k THEN Effect[c] ELSE mem[c]]
    /\ Proceed /\ UNCHANGED <<job, tries, target, runs>>

\* The board has done all of an exchange, some of it or nothing, and not said so.
Botched ==
    /\ result = "none" /\ fault' = TRUE
    /\ \E k \in 0..Space : mem' = [c \in DOMAIN mem |-> IF c < k THEN Effect[c] ELSE mem[c]]
    /\ target' \in IF Exchanges[at] = "start" THEN {target, "started"} ELSE {target}
    /\ UNCHANGED <<job, at, offset, tries, runs>>

\* It is refused, or its deadline passes.
Refused == Botched /\ Fail

\* A USB transfer goes unanswered. Nothing ends it.
FallsSilent == Botched /\ tool \in Usb /\ result' = "silent"

\* but the user, who may never do it
Unplug ==
    /\ result = "silent" /\ Fail
    /\ UNCHANGED <<job, tries, mem, target, fault, runs>>

\* the user resets the board and flashes again
Retry ==
    /\ result = "error" /\ runs < MaxRuns /\ runs' = runs + 1
    /\ at' = 1 /\ offset' = Origin(Exchanges[1]) /\ tries' = 0
    /\ result' = "none" /\ fault' = FALSE /\ target' = "app"
    /\ UNCHANGED <<job, mem>>

PagedHost == Ask \/ Halt \/ Enable \/ Identify \/ Erase \/ ErasePage \/ Write \/ ReadBack \/ Start
Finished == result # "none" /\ (result = "error" => runs = MaxRuns) /\ UNCHANGED pagedVars

PagedNext == PagedHost \/ Refused \/ FallsSilent \/ Unplug \/ Retry \/ Finished

PagedSpec == PagedInit /\ [][PagedNext]_pagedVars

\* An exchange is over when it is answered or refused and, over a serial port,
\* by its deadline at the latest; a transfer that is not answered is FallsSilent.
\* Nothing is fair to Unplug.
PagedFairSpec == PagedSpec /\ WF_pagedVars(PagedHost)

-----------------------------------------------------------------------------

Written == \A a \in First..End - 1 : mem[base + a] = DataAt(a)

\* A flasher that reports success has written the image, gaps and all: every
\* one of them on cells that work, those that compare on any.
ImageWritten ==
    result = "done" /\ (bad = {} \/ tool \in {"eeprom", "mega", "usbasp"}) => Written

\* What is not the part a flasher is for is neither erased nor written.
WrongPartUntouched ==
    chip = "other" /\ tool \in {"eeprom", "usbasp", "daplink"} => \A c \in DOMAIN mem : mem[c] = Old

\* Flashing changes no more than the image's own bytes on an EEPROM, its pages
\* on the Mega and the nRF; elsewhere the rest is erased, never written.
Changed == {c \in DOMAIN mem : mem[c] # Old}
RestKept ==
    \A c \in Changed :
        CASE tool = "eeprom" -> c - base \in 0..Length - 1
          [] tool = "mega" -> c < RoundUp(Length, Page)
          [] tool = "daplink" -> RoundDown(c, Page) \in RoundDown(First, Page)..End - 1
          [] OTHER -> c < End \/ mem[c] = Blank

\* No cell is written outside the image and its pages, nor any of a part that the
\* flasher is not for.
NothingElseWritten == RestKept /\ WrongPartUntouched

\* A target that is set going by its flasher has the whole image, however an
\* earlier attempt ended.
StartedIsComplete == target = "started" /\ bad = {} => Written

\* A board that does all it is asked is flashed, whatever an earlier attempt
\* left on it: the flash neither fails nor hangs.
GoodBoardIsPaged ==
    result \in {"error", "silent"} => fault \/ chip = "other" \/ bad # {} \/ ~Fits

\* An attempt ends, over a serial port whatever the board does, over USB unless
\* a board that has fallen silent leaves it waiting.
PagedEnds ==
    result = "none" ~> result \in {"done", "error"} \/ (tool \in Usb /\ result = "silent")
=============================================================================
