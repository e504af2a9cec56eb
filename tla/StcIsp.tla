------------------------------- MODULE StcIsp -------------------------------
(***************************************************************************)
(* flashStc: an STC12 programmed through the bootloader it enters at a     *)
(* cold power-on.  The host pulses 0x7F until it is greeted, negotiates a  *)
(* baud rate, closes and reopens the port at it, erases, writes 128-byte   *)
(* chunks and lets the part run.  Every packet is answered by one; nothing *)
(* is read back and nothing is sent twice.                                 *)
(*                                                                         *)
(* The part is not in the repository: it is modelled from the packets      *)
(* flashStc sends and the simulated one of its test.                       *)
(***************************************************************************)
EXTENDS Integers, Sequences

CONSTANTS
    Lengths,    \* lengths of images, in bytes
    Parts,      \* parts that may be on the line: "stc12", "stc15", "stc89", "unknown"
    Capacity,   \* bytes of code flash the model table gives the stc12 part
    MaxPulses,  \* pulses before the 30 s deadline
    MaxLost,    \* packets lost or garbled on the line
    MaxCycles   \* times the user takes the power away and gives it back

ASSUME IspAssumption ==
    /\ Lengths \subseteq Nat \ {0} /\ Capacity \in Nat /\ MaxPulses \in Nat \ {0}
    /\ MaxLost \in Nat /\ MaxCycles \in Nat

Block == 512    \* the image is padded to this
Chunk == 128    \* a write packet
Sector == 256   \* what the erase command counts in
Byte == 256     \* the count is one byte of it, an address two of a write

VARIABLES
    stage,    \* the packet the host is about, or how the flash ended
    asked,    \* it has been sent and its answer is awaited
    length,   \* bytes of the image
    next,     \* chunks of it written
    pulses,   \* 0x7F bytes sent
    greeting, \* the model magic the status packet announced, or "none"
    hostRate, \* the rate the port is open at
    line,     \* host to part: packets, each with the rate it is sent at
    back,     \* part to host
    part,     \* which part is on the line
    power,    \* "off", "isp": in its bootloader, or "app"
    mcuRate,  \* the rate the bootloader listens at
    chunks,   \* the part's flash: "old", "erased" or "new", by chunk
    lost, cycles

host == <<stage, asked, length, next, pulses, greeting, hostRate>>
mcu  == <<part, power, mcuRate, chunks>>
ispVars == <<host, line, back, mcu, lost, cycles>>

Up(n, k) == ((n + k - 1) \div k) * k

Padded == Up(length, Block)
Cells == 0..(Up(Capacity, Chunk) \div Chunk - 1)   \* the part's chunks
IspOver == stage \in {"done", "failed", "refused"}

\* mutant: the erase command given in blocks
BlocksErased == Padded \div Block

\* the erase command's `blocks`
Blocks == ((Padded \div Block) * 2) % Byte

Packet(s) ==
    [op |-> s, at |-> next % ((Byte * Byte) \div Chunk), blocks |-> Blocks, rate |-> hostRate]

\* mutant: the part is erased before the port is reopened and the part looked up
AfterHasty(s) ==
    CASE s = "handshake" -> "baudtest" [] s = "baudtest" -> "erase"
      [] s = "switch" -> "reopen" [] s = "erase" -> "switch"
      [] s = "write" -> IF (next + 1) * Chunk < Padded THEN "write" ELSE "finish"
      [] s = "finish" -> "run"

\* The stages after the greeting, in order; "write" is repeated.
After(s) ==
    CASE s = "handshake" -> "baudtest" [] s = "baudtest" -> "switch"
      [] s = "switch" -> "reopen" [] s = "erase" -> "write"
      [] s = "write" -> IF (next + 1) * Chunk < Padded THEN "write" ELSE "finish"
      [] s = "finish" -> "run"

\* The first byte of the answer each packet must get.
Answer(s) ==
    CASE s \in {"handshake", "baudtest"} -> "8f" [] s = "switch" -> "84"
      [] s \in {"erase", "write"} -> "00" [] s = "finish" -> "8d"

IspInit ==
    /\ stage = "pulse" /\ asked = FALSE /\ length \in Lengths /\ next = 0
    /\ pulses = 0 /\ greeting = "none" /\ hostRate = "slow"
    /\ line = <<>> /\ back = <<>>
    /\ part \in Parts /\ power \in {"off", "app"} /\ mcuRate = "slow"
    /\ chunks = [c \in Cells |-> "old"]
    /\ lost = 0 /\ cycles = 0

-----------------------------------------------------------------------------
(* The host *)

Quit(s) == stage' = s /\ asked' = FALSE

\* mutant: a deadline that starts again at every pulse
PulseUncounted ==
    /\ stage = "pulse" /\ ~asked /\ asked' = TRUE
    /\ line' = Append(line, Packet("pulse"))
    /\ UNCHANGED <<stage, pulses, length, next, greeting, hostRate, back, mcu, lost, cycles>>

\* io.write([0x7f]), the deadline tested first
Pulse ==
    /\ stage = "pulse" /\ ~asked
    /\ IF pulses = MaxPulses
         THEN Quit("failed") /\ UNCHANGED <<pulses, line>>
         ELSE /\ asked' = TRUE /\ pulses' = pulses + 1
              /\ line' = Append(line, Packet("pulse"))
              /\ UNCHANGED stage
    /\ UNCHANGED <<length, next, greeting, hostRate, back, mcu, lost, cycles>>

\* readStcPacket inside the try of the pulse loop: a status packet, or any
\* error at all, a read that times out included, and another pulse
Greeted ==
    /\ stage = "pulse" /\ asked /\ asked' = FALSE
    /\ \/ /\ back # <<>> /\ Head(back).ok
          /\ back' = Tail(back)
          /\ IF Head(back).byte = "status"
               THEN stage' = "handshake" /\ greeting' = Head(back).magic
               ELSE stage' = "failed" /\ UNCHANGED greeting
       \/ /\ back # <<>> /\ ~Head(back).ok
          /\ back' = Tail(back) /\ UNCHANGED <<stage, greeting>>
       \/ /\ back = <<>>
          /\ UNCHANGED <<stage, greeting, back>>
    /\ UNCHANGED <<length, next, pulses, hostRate, line, mcu, lost, cycles>>

Say ==
    /\ stage \in {"handshake", "baudtest", "switch", "erase", "write", "finish"}
    /\ ~asked /\ asked' = TRUE
    /\ line' = Append(line, Packet(stage))
    /\ UNCHANGED <<stage, length, next, pulses, greeting, hostRate, back, mcu, lost, cycles>>

\* readStcPacket: the expected answer, another one, a garbled one, or none in
\* four seconds.  Anything but the first ends the flash.
Hear ==
    /\ asked /\ stage # "pulse" /\ asked' = FALSE
    /\ IF back # <<>> /\ Head(back).ok /\ Head(back).byte = Answer(stage)
         THEN /\ stage' = After(stage)
              /\ next' = IF stage = "write" THEN next + 1 ELSE next
         ELSE stage' = "failed" /\ UNCHANGED next
    /\ back' = IF back = <<>> THEN <<>> ELSE Tail(back)
    /\ UNCHANGED <<length, pulses, greeting, hostRate, line, mcu, lost, cycles>>

\* The port is closed, reopened at the new rate, and only now is the part
\* looked up: a part of another protocol is refused by name.
Reopen ==
    /\ stage = "reopen"
    /\ hostRate' = "fast" /\ back' = <<>>
    /\ Quit(IF greeting \in {"stc15", "stc89"} THEN "refused" ELSE "erase")
    /\ UNCHANGED <<length, next, pulses, greeting, line, mcu, lost, cycles>>

\* say([0x82]): reset and run, unanswered
Run ==
    /\ stage = "run" /\ Quit("done")
    /\ line' = Append(line, Packet("run"))
    /\ UNCHANGED <<length, next, pulses, greeting, hostRate, back, mcu, lost, cycles>>

IspHost == Pulse \/ Say \/ Reopen \/ Run \/ ((line = <<>>) /\ (Greeted \/ Hear))

-----------------------------------------------------------------------------
(* The part and the user *)

Hears(op) ==
    /\ line # <<>> /\ power = "isp" /\ Head(line).op = op /\ Head(line).rate = mcuRate
    /\ line' = Tail(line)
    /\ UNCHANGED <<host, part, lost, cycles>>

Says(byte) == back' = Append(back, [ok |-> TRUE, byte |-> byte, magic |-> part])

McuGreets == Hears("pulse") /\ Says("status") /\ UNCHANGED <<power, mcuRate, chunks>>

McuAgrees ==
    /\ Hears("handshake") \/ Hears("baudtest") \/ Hears("finish")
    /\ Says(Answer(Head(line).op)) /\ UNCHANGED <<power, mcuRate, chunks>>

McuSwitches ==
    /\ Hears("switch")
    /\ mcuRate' = "fast" /\ Says("84") /\ UNCHANGED <<power, chunks>>

McuErases ==
    /\ Hears("erase")
    /\ chunks' = [c \in DOMAIN chunks |->
                    IF c < Head(line).blocks * (Sector \div Chunk) THEN "erased" ELSE chunks[c]]
    /\ Says("00") /\ UNCHANGED <<power, mcuRate>>

\* flash takes a write where it is erased
McuWrites ==
    /\ Hears("write")
    /\ IF Head(line).at \in DOMAIN chunks
         THEN /\ chunks' = [chunks EXCEPT ![Head(line).at] =
                              IF @ = "erased" THEN "new" ELSE "spoilt"]
              /\ Says("00")
         ELSE UNCHANGED <<chunks, back>>
    /\ UNCHANGED <<power, mcuRate>>

McuRuns == Hears("run") /\ power' = "app" /\ UNCHANGED <<back, mcuRate, chunks>>

\* a packet for a part that is off, runs its program or listens at another rate
Unheard ==
    /\ line # <<>> /\ (power # "isp" \/ Head(line).rate # mcuRate)
    /\ line' = Tail(line)
    /\ UNCHANGED <<host, back, mcu, lost, cycles>>

Lose ==
    /\ lost < MaxLost /\ lost' = lost + 1
    /\ \/ line # <<>> /\ line' = Tail(line) /\ UNCHANGED back
       \/ back # <<>> /\ back' = <<[Head(back) EXCEPT !.ok = FALSE]>> \o Tail(back)
          /\ UNCHANGED line
    /\ UNCHANGED <<host, mcu, cycles>>

PowerOff ==
    /\ power # "off" /\ cycles < MaxCycles
    /\ power' = "off" /\ cycles' = cycles + 1
    /\ UNCHANGED <<host, line, back, part, mcuRate, chunks, lost>>

PowerOn ==
    /\ power = "off" /\ power' = "isp" /\ mcuRate' = "slow"
    /\ UNCHANGED <<host, line, back, part, chunks, lost, cycles>>

Mcu == McuGreets \/ McuAgrees \/ McuSwitches \/ McuErases \/ McuWrites \/ McuRuns \/ Unheard

IspNext == IspHost \/ Mcu \/ Lose \/ PowerOff \/ PowerOn

IspSpec == IspInit /\ [][IspNext]_ispVars
IspFairSpec == IspSpec /\ WF_ispVars(IspHost) /\ WF_ispVars(Mcu)

-----------------------------------------------------------------------------

\* No chunk is written that the erase before it has not erased: the erase
\* counts the padded image, in its own unit.
WritesOnlyErased == \A c \in DOMAIN chunks : chunks[c] # "spoilt"

\* "done" is only said when every chunk of the padded image is in the part,
\* which has room for them, and nothing else has been written.
DoneMeansFlashed ==
    stage = "done" =>
        /\ 0..Padded \div Chunk - 1 \subseteq DOMAIN chunks
        /\ \A c \in DOMAIN chunks : (chunks[c] = "new") <=> c * Chunk < Padded

\* The old program is intact until the part has been recognised and told to
\* erase: a flash that ends before that leaves the part as it was.
EraseComesLast ==
    stage \in {"pulse", "handshake", "baudtest", "switch", "reopen", "refused"} =>
        \A c \in DOMAIN chunks : chunks[c] = "old"

\* The flash comes to an end, and the port is closed.
IspEnds == <>IspOver
=============================================================================
