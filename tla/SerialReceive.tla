--------------------------- MODULE SerialReceive ---------------------------
(***************************************************************************)
(* The receiving half of the Arduino core's serial port: the interrupt     *)
(* that stores a byte, and `available`, `peek`, `read` and `end` in the    *)
(* sketch, one access of the indices at a time.  A byte is the number of   *)
(* its arrival, modulo RxBytes.                                            *)
(***************************************************************************)
EXTENDS Integers, Sequences

CONSTANTS
    RxSize,    \* SERIAL_RX_BUFFER_SIZE
    RxBytes    \* numbers of the bytes, more than can wait at once

ASSUME ReceiveAssumption == RxSize \in Nat \ {0, 1} /\ RxBytes \in Nat /\ RxBytes > RxSize

VARIABLES
    rxBuffer, rxHead, rxTail,  \* _rx_buffer and its indices
    RXCIE,     \* the interrupt of a received byte is enabled
    arrived,   \* the number of the byte to arrive next
    rxAt,      \* the sketch's next statement
    found,     \* the head that `available` or `peek` has read
    got,       \* what the last call has returned, Nothing for -1
    kept       \* history: the bytes that had a place when they arrived, unread

receiveVars == <<rxBuffer, rxHead, rxTail, RXCIE, arrived, rxAt, found, got, kept>>
rxRing == <<rxBuffer, rxHead, rxTail>>

Nothing == RxBytes
RxAround(n) == n % RxSize

ReceiveInit ==
    /\ rxBuffer = [n \in 0..(RxSize-1) |-> 0] /\ rxHead = 0 /\ rxTail = 0
    /\ RXCIE = TRUE /\ arrived = 0
    /\ rxAt = "sketch" /\ found = 0 /\ got = Nothing
    /\ kept = <<>>

-----------------------------------------------------------------------------
(* _rx_complete_irq *)

\* The byte is stored, unless it has a parity error or there is no place; the sketch
\* stands still meanwhile.
RxStores ==
    /\ RXCIE /\ RxAround(rxHead + 1) # rxTail
    /\ rxBuffer' = [rxBuffer EXCEPT ![rxHead] = arrived]
    /\ rxHead' = RxAround(rxHead + 1)
    /\ arrived' = (arrived + 1) % RxBytes
    /\ kept' = Append(kept, arrived)
    /\ UNCHANGED <<rxTail, RXCIE, rxAt, found, got>>

Drops(parityError) ==
    /\ RXCIE /\ (parityError \/ RxAround(rxHead + 1) = rxTail)
    /\ arrived' = (arrived + 1) % RxBytes
    /\ UNCHANGED <<rxRing, RXCIE, rxAt, found, got, kept>>

\* A byte that arrives while the port is closed is not stored.
Misses ==
    /\ ~RXCIE
    /\ arrived' = (arrived + 1) % RxBytes
    /\ UNCHANGED <<rxRing, RXCIE, rxAt, found, got, kept>>

Arrives == RxStores \/ Drops(TRUE) \/ Drops(FALSE) \/ Misses

-----------------------------------------------------------------------------
(* The sketch *)

\* read and peek: the two indices are compared,
ReadAsks(next) ==
    /\ rxAt = "sketch"
    /\ rxAt' = IF rxHead = rxTail THEN "sketch" ELSE next
    /\ got' = Nothing
    /\ UNCHANGED <<rxRing, RXCIE, arrived, found, kept>>

\* the byte is read,
ReadLooks ==
    /\ rxAt \in {"read", "peek"}
    /\ got' = rxBuffer[rxTail]
    /\ rxAt' = IF rxAt = "read" THEN "advance" ELSE "peeked"
    /\ UNCHANGED <<rxRing, RXCIE, arrived, found, kept>>

\* and read gives its place free.
Advances ==
    /\ rxAt = "advance"
    /\ rxTail' = RxAround(rxTail + 1)
    /\ kept' = Tail(kept)
    /\ rxAt' = "sketch" /\ got' = Nothing
    /\ UNCHANGED <<rxBuffer, rxHead, RXCIE, arrived, found>>

\* available: first the head is read, and then the tail.
Available ==
    /\ rxAt = "sketch"
    /\ found' = rxHead /\ rxAt' = "count"
    /\ UNCHANGED <<rxRing, RXCIE, arrived, got, kept>>

Counts ==
    /\ rxAt = "count"
    /\ got' = RxAround(RxSize + found - rxTail)
    /\ rxAt' = "counted" /\ found' = 0
    /\ UNCHANGED <<rxRing, RXCIE, arrived, kept>>

CallReturns ==
    /\ rxAt \in {"peeked", "counted"}
    /\ rxAt' = "sketch" /\ got' = Nothing
    /\ UNCHANGED <<rxRing, RXCIE, arrived, found, kept>>

\* end: the interrupt is disabled, and then what has come is forgotten.
Closes ==
    /\ rxAt = "sketch" /\ RXCIE
    /\ RXCIE' = FALSE /\ rxAt' = "clear"
    /\ UNCHANGED <<rxRing, arrived, found, got, kept>>

Forgets ==
    /\ rxAt = "clear"
    /\ rxHead' = rxTail /\ kept' = <<>>
    /\ rxAt' = "sketch"
    /\ UNCHANGED <<rxBuffer, rxTail, RXCIE, arrived, found, got>>

\* begin, which may also be called of an open port
Opens ==
    /\ rxAt = "sketch"
    /\ RXCIE' = TRUE
    /\ UNCHANGED <<rxRing, arrived, rxAt, found, got, kept>>

RxSketch ==
    \/ ReadAsks("read") \/ ReadAsks("peek") \/ ReadLooks \/ Advances
    \/ Available \/ Counts \/ CallReturns \/ Closes \/ Forgets \/ Opens

ReceiveNext == Arrives \/ RxSketch

ReceiveSpec == ReceiveInit /\ [][ReceiveNext]_receiveVars

-----------------------------------------------------------------------------

ReceiveTypeOK ==
    /\ rxBuffer \in [0..(RxSize-1) -> 0..(RxBytes-1)]
    /\ rxHead \in 0..(RxSize-1) /\ rxTail \in 0..(RxSize-1) /\ found \in 0..(RxSize-1)
    /\ RXCIE \in BOOLEAN /\ arrived \in 0..(RxBytes-1) /\ got \in 0..RxBytes
    /\ kept \in Seq(0..(RxBytes-1)) /\ Len(kept) < RxSize

\* The sketch is given the bytes that had a place, each once and in the order of their
\* arrival, a byte is refused only if RxSize - 1 of them wait, and `available` promises
\* no byte that a read will not find, however the interrupt comes between.
ReceivedInOrder ==
    /\ kept = [n \in 1..RxAround(rxHead - rxTail) |-> rxBuffer[RxAround(rxTail + n - 1)]]
    /\ rxAt \in {"advance", "peeked"} => kept # <<>> /\ got = kept[1]
    /\ rxAt = "counted" => got <= Len(kept)
=============================================================================
