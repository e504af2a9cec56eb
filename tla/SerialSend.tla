----------------------------- MODULE SerialSend -----------------------------
(***************************************************************************)
(* The sending half of the Arduino core's serial port: `write` and `flush` *)
(* in the sketch, the interrupt of the empty data register, and the port's *)
(* two registers, which empty themselves at any moment.  A byte is the     *)
(* number of its write, modulo Bytes.                                      *)
(***************************************************************************)
EXTENDS Integers, Sequences

CONSTANTS
    Size,      \* SERIAL_TX_BUFFER_SIZE
    Bytes      \* numbers of the bytes, more than can be under way at once

ASSUME SendAssumption == Size \in Nat \ {0, 1} /\ Bytes \in Nat /\ Bytes > Size + 1

VARIABLES
    buffer, head, tail,  \* _tx_buffer and its indices
    UDRIE,     \* the data register's interrupt is enabled
    TXC,       \* the transmission is complete
    written,   \* _written
    udr,       \* the data register, `None` when UDRE is set
    shift,     \* the shift register
    I,         \* the sketch has interrupts enabled (SREG_I)
    at,        \* the sketch's next statement
    irq,       \* _tx_udr_empty_irq: "out", or what it does next
    c,         \* the argument of write
    sent       \* history: the byte that is to leave the port next

sendVars == <<buffer, head, tail, UDRIE, TXC, written, udr, shift, I, at, irq, c, sent>>
ring == <<buffer, head, tail>>
flags == <<UDRIE, TXC, written>>
port == <<udr, shift>>

None == Bytes
UDRE == udr = None
Around(n) == n % Size

SendInit ==
    /\ buffer = [n \in 0..(Size-1) |-> 0] /\ head = 0 /\ tail = 0
    /\ UDRIE = FALSE /\ TXC = FALSE /\ written = FALSE
    /\ udr = None /\ shift = None
    /\ I = TRUE /\ irq = "out" /\ at = "sketch" /\ c = 0 /\ sent = 0

-----------------------------------------------------------------------------
(* The port *)

\* The data register moves on into the shift register.
Moves ==
    /\ shift = None /\ ~UDRE
    /\ shift' = udr /\ udr' = None
    /\ UNCHANGED <<ring, flags, I, at, irq, c, sent>>

\* A byte has left; the transmission is complete if no other waits. A byte takes
\* longer than the few instructions, with interrupts off, from *_udr = c to TXC.
ByteLeaves ==
    /\ shift # None
    /\ UDRE => irq = "out" /\ at # "direct clear"
    /\ shift' = None
    /\ TXC' = (TXC \/ UDRE)
    /\ sent' = (sent + 1) % Bytes
    /\ UNCHANGED <<ring, UDRIE, written, udr, I, at, irq, c>>

Port == Moves \/ ByteLeaves

-----------------------------------------------------------------------------
(* _tx_udr_empty_irq *)

\* c = _tx_buffer[tail], the next tail, *_udr = c
Hands(to) ==
    /\ udr' = buffer[tail]
    /\ tail' = Around(tail + 1)
    /\ irq' = "mark" /\ at' = to
    /\ UNCHANGED <<buffer, head, flags, shift, I, c, sent>>

\* mutant: leaves TXC as an earlier byte has set it
MarksOldTXC ==
    /\ irq = "mark"
    /\ UDRIE' = (UDRIE /\ head # tail)
    /\ irq' = "out"
    /\ UNCHANGED <<ring, TXC, written, port, I, at, c, sent>>

\* Clears TXC, and the interrupt's enabling when the buffer is empty.
Marks ==
    /\ irq = "mark"
    /\ TXC' = FALSE
    /\ UDRIE' = (UDRIE /\ head # tail)
    /\ irq' = "out"
    /\ UNCHANGED <<ring, written, port, I, at, c, sent>>

\* The interrupt comes between two statements of the sketch, but not into an
\* ATOMIC_BLOCK.
DataEmpty ==
    /\ irq = "out" /\ I /\ at # "direct clear" /\ UDRIE /\ UDRE
    /\ Hands(at)

-----------------------------------------------------------------------------
(* The sketch *)

Steps(here, to) == irq = "out" /\ at = here /\ at' = to /\ UNCHANGED irq

\* mutant: takes the shortcut although bytes wait in the buffer
WritesPast ==
    /\ Steps("sketch", "shortcut")
    /\ written' = TRUE
    /\ UNCHANGED <<ring, UDRIE, TXC, port, I, c, sent>>

\* _written = true, and the first half of the shortcut's condition
Writes ==
    /\ Steps("sketch", IF head = tail THEN "shortcut" ELSE "slot")
    /\ written' = TRUE
    /\ UNCHANGED <<ring, UDRIE, TXC, port, I, c, sent>>

Shortcut ==
    /\ Steps("shortcut", IF UDRE THEN "direct" ELSE "slot")
    /\ UNCHANGED <<ring, flags, port, I, c, sent>>

\* The ATOMIC_BLOCK of the shortcut: *_udr = c,
Direct ==
    /\ Steps("direct", "direct clear")
    /\ udr' = c /\ c' = (c + 1) % Bytes
    /\ UNCHANGED <<ring, flags, shift, I, sent>>

\* and then TXC is cleared.
DirectClear ==
    /\ Steps("direct clear", "sketch")
    /\ TXC' = FALSE
    /\ UNCHANGED <<ring, UDRIE, written, port, I, c, sent>>

\* while (i == _tx_buffer_tail)
HasRoom ==
    /\ Steps("slot", IF Around(head + 1) # tail THEN "store" ELSE "full")
    /\ UNCHANGED <<ring, flags, port, I, c, sent>>

\* The interrupt frees a place, or, when interrupts are off, the sketch itself does.
WaitsForRoom ==
    /\ I \/ ~UDRE
    /\ Steps("full", "slot")
    /\ UNCHANGED <<ring, flags, port, I, c, sent>>

MakesRoom ==
    /\ at = "full" /\ irq = "out" /\ ~I /\ UDRE
    /\ Hands("slot")

Store ==
    /\ Steps("store", "publish")
    /\ buffer' = [buffer EXCEPT ![head] = c]
    /\ UNCHANGED <<head, tail, flags, port, I, c, sent>>

\* The second ATOMIC_BLOCK.
Publish ==
    /\ Steps("publish", "sketch")
    /\ head' = Around(head + 1) /\ c' = (c + 1) % Bytes
    /\ UDRIE' = TRUE
    /\ UNCHANGED <<buffer, tail, TXC, written, port, I, sent>>

Write == Shortcut \/ Direct \/ DirectClear \/ HasRoom \/ WaitsForRoom \/ MakesRoom \/ Store \/ Publish

\* if (!_written) return
Flushes(to) ==
    /\ Steps("sketch", IF written THEN to ELSE "flushed")
    /\ UNCHANGED <<ring, flags, port, I, c, sent>>

\* bit_is_set(UDRIE) || bit_is_clear(TXC), in this order
LooksUDRIE ==
    /\ Steps("flush", IF UDRIE THEN "poll" ELSE "flush TXC")
    /\ UNCHANGED <<ring, flags, port, I, c, sent>>

LooksTXC ==
    /\ Steps("flush TXC", IF TXC THEN "flushed" ELSE "poll")
    /\ UNCHANGED <<ring, flags, port, I, c, sent>>

\* With interrupts off the sketch does the interrupt's work itself.
Polls ==
    /\ irq = "out" /\ at = "poll"
    /\ ~I /\ UDRIE /\ UDRE
    /\ Hands("flush")

LooksAgain ==
    /\ ~(~I /\ UDRIE /\ UDRE) /\ Steps("poll", "flush")
    /\ UNCHANGED <<ring, flags, port, I, c, sent>>

Returns ==
    /\ Steps("flushed", "sketch")
    /\ UNCHANGED <<ring, flags, port, I, c, sent>>

Flush == LooksUDRIE \/ LooksTXC \/ Polls \/ LooksAgain \/ Returns

\* begin, called again: the bytes that wait stay where they are.
Begin ==
    /\ Steps("sketch", "sketch")
    /\ written' = FALSE /\ UDRIE' = FALSE
    /\ UNCHANGED <<ring, TXC, port, I, c, sent>>

\* noInterrupts, interrupts
Switch ==
    /\ Steps("sketch", "sketch")
    /\ I' = ~I
    /\ UNCHANGED <<ring, flags, port, c, sent>>

SendNext ==
    Port \/ DataEmpty \/ Marks \/ Writes \/ Write \/ Flushes("flush") \/ Flush \/ Begin \/ Switch

SendSpec == SendInit /\ [][SendNext]_sendVars

SendFairSpec ==
    /\ SendSpec
    /\ WF_sendVars(Port) /\ WF_sendVars(Marks) /\ WF_sendVars(DataEmpty)
    /\ WF_sendVars(Write) /\ WF_sendVars(Flush)

-----------------------------------------------------------------------------

Waiting == (head - tail) % Size

\* The bytes under way, the first to leave first.
UnderWay ==
    (IF shift = None THEN <<>> ELSE <<shift>>)
    \o (IF UDRE THEN <<>> ELSE <<udr>>)
    \o [n \in 1..Waiting |-> buffer[Around(tail + n - 1)]]

SendTypeOK ==
    /\ buffer \in [0..(Size-1) -> 0..(Bytes-1)]
    /\ head \in 0..(Size-1) /\ tail \in 0..(Size-1)
    /\ UDRIE \in BOOLEAN /\ TXC \in BOOLEAN /\ written \in BOOLEAN /\ I \in BOOLEAN
    /\ udr \in 0..Bytes /\ shift \in 0..Bytes
    /\ c \in 0..(Bytes-1) /\ sent \in 0..(Bytes-1)

\* What has been written and has not left is under way, all of it, once and in order,
\* whichever of the three ways into the port each byte has taken.
SentInOrder ==
    UnderWay = [n \in 1..((c - sent) % Bytes) |-> (sent + n - 1) % Bytes]

\* When flush returns, every byte written has left the port; excepted is a flush
\* between begin and the first write.
FlushMeansSent == at = "flushed" /\ written => sent = c

\* Bytes wait and nothing will ask for them before the next write.
Stranded == head # tail /\ ~UDRIE /\ irq = "out"

\* A write and a flush come to an end, with interrupts on or off; excepted is a write
\* that finds the buffer full after `begin` has disabled the interrupt that empties it.
SendEnds == at # "sketch" ~> at = "sketch" \/ Stranded
=============================================================================
