---------------------------- MODULE SerialProofs ----------------------------
(***************************************************************************)
(* Proofs about the serial port, for rings of any size: whichever way a    *)
(* byte takes into the port, whatever a call has read of the ring, and     *)
(* wherever the interrupt comes.                                           *)
(***************************************************************************)
EXTENDS SerialPort, SequenceTheorems, TLAPS

Places ==
    {"sketch", "shortcut", "direct", "direct clear", "slot", "full", "store", "publish",
     "flush", "flush TXC", "poll", "flushed"}

\* The bytes in the port, and the number of the byte that leaves k bytes from now.
Full(register) == IF register = None THEN 0 ELSE 1
InPort == Full(shift) + Full(udr)
Number(k) == (sent + k) % Bytes

\* What is under way is numbered from `sent` on, without a gap: the shift register, the
\* data register, the ring from its tail; and `c` is the number after them.
Numbered ==
    /\ shift # None => shift = sent
    /\ udr # None => udr = Number(Full(shift))
    /\ \A i \in 0..Waiting-1 : buffer[Around(tail + i)] = Number(InPort + i)
    /\ c = Number(InPort + Waiting)

\* What each of the three ways into the port may rely on: the shortcut, that no interrupt
\* comes into it; the ring, that the place it has found stays free; the interrupt and the
\* sketch that does its work, that there is a byte to hand over.
Ways ==
    /\ at \in Places /\ irq \in {"out", "mark"}
    /\ irq = "out" /\ UDRIE => head # tail
    /\ at \in {"shortcut", "direct", "direct clear"} => head = tail /\ ~UDRIE /\ irq = "out"
    /\ at = "direct" => UDRE
    /\ at = "full" /\ ~I => head # tail
    /\ at \in {"store", "publish"} => Around(head + 1) # tail
    /\ at = "publish" => buffer[head] = c

OrderInv == SendTypeOK /\ Ways /\ Numbered

\* What the two flags say: TXC is only set when the port is empty, but for the moment in
\* which the next byte has been handed over and it has not been cleared; the interrupt is
\* only disabled when the ring is empty, but for a byte that `write` is about to add.
Flags ==
    /\ TXC => (UDRE /\ shift = None) \/ irq = "mark" \/ at = "direct clear"
    /\ written /\ ~UDRIE => head = tail \/ at \in {"slot", "full", "store", "publish"}
    /\ at = "flush TXC" => ~UDRIE /\ irq = "out"
    /\ at = "flushed" /\ written =>
        ~UDRIE /\ irq = "out" /\ head = tail /\ UDRE /\ shift = None

FlushInv == OrderInv /\ Flags

\* The receiving half: what is kept is what waits in the ring, from its tail on;
RxWaiting == (rxHead - rxTail) % RxSize

Held ==
    /\ Len(kept) = RxWaiting
    /\ \A i \in 0..RxWaiting-1 : kept[i + 1] = rxBuffer[RxAround(rxTail + i)]

\* and what a call of the sketch knows of it between two of its steps: whatever arrives,
\* the byte that waits longest stays, and no fewer wait than did when the head was read.
Calls ==
    /\ rxAt \in {"sketch", "read", "advance", "peek", "peeked", "count", "counted", "clear"}
    /\ rxAt \in {"read", "peek", "advance", "peeked"} => kept # <<>>
    /\ rxAt \in {"advance", "peeked"} => got = kept[1]
    /\ rxAt = "count" => (found - rxTail) % RxSize <= Len(kept)
    /\ rxAt = "counted" => got <= Len(kept)
    /\ rxAt = "clear" => ~RXCIE

ReceiveInv == ReceiveTypeOK /\ Held /\ Calls

-----------------------------------------------------------------------------
(* Indices and numbers that come round *)

\* Nothing comes round below N, and once about it what was there.
LEMMA Around1 ==
    ASSUME NEW N \in Nat \ {0}, NEW x \in 0..(N-1)
    PROVE  x % N = x /\ (x + N) % N = x /\ (x - N) % N = x
OBVIOUS

\* A sum and a difference of two of them.
LEMMA Around2 ==
    ASSUME NEW N \in Nat \ {0}, NEW x \in 0..(N-1), NEW y \in 0..(N-1)
    PROVE  /\ (x + y) % N = IF x + y < N THEN x + y ELSE (x + y) - N
           /\ (x - y) % N = IF x >= y THEN x - y ELSE (x - y) + N
OBVIOUS

\* From the tail t of a ring of N places to its head h, and on by one place of either.
RingLaws(N, h, t) ==
    /\ (h + 1) % N \in 0..(N-1) /\ (t + 1) % N \in 0..(N-1)
    /\ (h - t) % N \in 0..(N-1) /\ ((h - t) % N = 0 <=> h = t)
    /\ (t + ((h - t) % N)) % N = h
    /\ (h + 1) % N # t => (((h + 1) % N) - t) % N = ((h - t) % N) + 1
    /\ h # t => (h - ((t + 1) % N)) % N = ((h - t) % N) - 1
    /\ h # t => (h + 1) % N # (t + 1) % N
    /\ h = t => (h + 1) % N # t

\* They hold of any ring.
LEMMA RingOf ==
    ASSUME NEW N \in Nat \ {0, 1}, NEW h \in 0..(N-1), NEW t \in 0..(N-1)
    PROVE  RingLaws(N, h, t)
<1> DEFINE up == (h + 1) % N
           next == (t + 1) % N
           d == (h - t) % N
<1>1. 1 \in 0..(N-1) OBVIOUS
<1>2. /\ up = IF h + 1 < N THEN h + 1 ELSE (h + 1) - N
      /\ next = IF t + 1 < N THEN t + 1 ELSE (t + 1) - N
  BY <1>1, Around2
<1>3. d = IF h >= t THEN h - t ELSE (h - t) + N BY Around2
<1> HIDE DEF up, next, d
<1>4. up \in 0..(N-1) /\ next \in 0..(N-1) BY <1>2
<1>5. d \in 0..(N-1) /\ (d = 0 <=> h = t) BY <1>3
<1>6. (t + d) % N = h
  <2>1. (t + d) % N = IF t + d < N THEN t + d ELSE (t + d) - N BY <1>5, Around2
  <2> QED BY <1>3, <1>5, <2>1
<1>7. (up - t) % N = IF up >= t THEN up - t ELSE (up - t) + N BY <1>4, Around2
<1>8. (h - next) % N = IF h >= next THEN h - next ELSE (h - next) + N BY <1>4, Around2
<1>9. up # t => (up - t) % N = d + 1 BY <1>2, <1>3, <1>7
<1>10. h # t => (h - next) % N = d - 1 BY <1>2, <1>3, <1>8
<1>11. (h # t => up # next) /\ (h = t => up # t) BY <1>2
<1> QED BY <1>4, <1>5, <1>6, <1>9, <1>10, <1>11 DEF RingLaws, up, next, d

\* The places of what waits in it, counted from the tail.
PlaceLaws(N, t, i) ==
    /\ (t + i) % N \in 0..(N-1)
    /\ i + 1 < N => (((t + 1) % N) + i) % N = (t + (i + 1)) % N
    /\ \A j \in 0..(N-1) : (t + i) % N = (t + j) % N => i = j

\* They hold of any ring.
LEMMA PlacesOf ==
    ASSUME NEW N \in Nat \ {0, 1}, NEW t \in 0..(N-1), NEW i \in 0..(N-1)
    PROVE  PlaceLaws(N, t, i)
<1>1. 1 \in 0..(N-1) OBVIOUS
<1>2. \A j \in 0..(N-1) : (t + j) % N = IF t + j < N THEN t + j ELSE (t + j) - N
  BY Around2
<1>3. (t + 1) % N = IF t + 1 < N THEN t + 1 ELSE (t + 1) - N BY <1>1, <1>2
<1>4. ASSUME i + 1 < N PROVE (((t + 1) % N) + i) % N = (t + (i + 1)) % N
  <2> DEFINE next == (t + 1) % N
  <2>1. next \in 0..(N-1) /\ next = IF t + 1 < N THEN t + 1 ELSE (t + 1) - N BY <1>3
  <2> HIDE DEF next
  <2>2. (next + i) % N = IF next + i < N THEN next + i ELSE (next + i) - N BY <2>1, Around2
  <2>3. (t + (i + 1)) % N = IF t + (i + 1) < N THEN t + (i + 1) ELSE (t + (i + 1)) - N
    BY <1>2, <1>4
  <2>4. (next + i) % N = (t + (i + 1)) % N BY <2>1, <2>2, <2>3
  <2> QED BY <2>4 DEF next
<1>5. (t + i) % N \in 0..(N-1) BY <1>2
<1>6. \A j \in 0..(N-1) : (t + i) % N = (t + j) % N => i = j BY <1>2
<1> QED BY <1>4, <1>5, <1>6 DEF PlaceLaws

\* The ring of the bytes to be sent,
LEMMA RingIs ==
    ASSUME NEW h \in 0..(Size-1), NEW t \in 0..(Size-1)
    PROVE  /\ Around(h + 1) \in 0..(Size-1) /\ Around(t + 1) \in 0..(Size-1)
           /\ (h - t) % Size \in 0..(Size-1) /\ ((h - t) % Size = 0 <=> h = t)
           /\ Around(t + ((h - t) % Size)) = h
           /\ Around(h + 1) # t => (Around(h + 1) - t) % Size = ((h - t) % Size) + 1
           /\ h # t => (h - Around(t + 1)) % Size = ((h - t) % Size) - 1
           /\ h # t => Around(h + 1) # Around(t + 1)
           /\ h = t => Around(h + 1) # t
<1>1. Size \in Nat \ {0, 1} BY SendAssumption
<1>2. RingLaws(Size, h, t) BY <1>1, RingOf
<1> QED BY <1>2, Zenon DEF RingLaws, Around

\* and the places of the bytes that wait.
LEMMA PlacesAre ==
    ASSUME NEW t \in 0..(Size-1), NEW i \in 0..(Size-1)
    PROVE  /\ Around(t + i) \in 0..(Size-1)
           /\ i + 1 < Size => Around(Around(t + 1) + i) = Around(t + (i + 1))
           /\ \A j \in 0..(Size-1) : Around(t + i) = Around(t + j) => i = j
<1>1. Size \in Nat \ {0, 1} BY SendAssumption
<1>2. PlaceLaws(Size, t, i) BY <1>1, PlacesOf
<1> QED BY <1>2, Zenon DEF PlaceLaws, Around

\* The numbers of the bytes.
LEMMA NumbersAre ==
    ASSUME sent \in 0..(Bytes-1), NEW k \in 0..(Bytes-1)
    PROVE  /\ Number(k) \in 0..(Bytes-1) /\ Number(0) = sent
           /\ (Number(k) + 1) % Bytes = Number(k + 1)
           /\ (Number(1) + k) % Bytes = Number(k + 1)
           /\ (Number(k) - sent) % Bytes = k
<1>1. Bytes \in Nat \ {0, 1} BY SendAssumption
<1>2. 1 \in 0..(Bytes-1) /\ 0 \in 0..(Bytes-1) BY <1>1
<1>3. \A j \in 0..(Bytes-1) : Number(j) = IF sent + j < Bytes THEN sent + j ELSE (sent + j) - Bytes
  BY <1>1, Around2 DEF Number
<1>4. \A j \in 0..(Bytes-1) : Number(j) \in 0..(Bytes-1) BY <1>1, <1>3
<1>5. Number(0) = sent BY <1>1, <1>2, <1>3
<1>6. (Number(k) - sent) % Bytes
        = IF Number(k) >= sent THEN Number(k) - sent ELSE (Number(k) - sent) + Bytes
  BY <1>1, <1>4, Around2
<1>7. (Number(k) - sent) % Bytes = k BY <1>1, <1>3, <1>6
<1>8. (Number(k) + 1) % Bytes = IF Number(k) + 1 < Bytes THEN Number(k) + 1 ELSE (Number(k) + 1) - Bytes
  BY <1>1, <1>2, <1>4, Around2
<1>9. (Number(1) + k) % Bytes = IF Number(1) + k < Bytes THEN Number(1) + k ELSE (Number(1) + k) - Bytes
  BY <1>1, <1>2, <1>4, Around2
<1>10. (Number(k) + 1) % Bytes = Number(k + 1) /\ (Number(1) + k) % Bytes = Number(k + 1)
  <2>1. CASE k + 1 < Bytes
    <3>1. Number(k + 1) = IF sent + (k + 1) < Bytes THEN sent + (k + 1) ELSE (sent + (k + 1)) - Bytes
      BY <1>1, <1>3, <2>1
    <3>2. /\ Number(k) = IF sent + k < Bytes THEN sent + k ELSE (sent + k) - Bytes
          /\ Number(1) = IF sent + 1 < Bytes THEN sent + 1 ELSE (sent + 1) - Bytes
      BY <1>2, <1>3
    <3> QED BY <1>1, <1>8, <1>9, <2>1, <3>1, <3>2
  <2>2. CASE k + 1 = Bytes
    <3>1. Number(k + 1) = sent BY <1>1, <2>2, Around1 DEF Number
    <3>2. /\ Number(k) = IF sent + k < Bytes THEN sent + k ELSE (sent + k) - Bytes
          /\ Number(1) = IF sent + 1 < Bytes THEN sent + 1 ELSE (sent + 1) - Bytes
      BY <1>2, <1>3
    <3> QED BY <1>1, <1>8, <1>9, <2>2, <3>1, <3>2
  <2> QED BY <1>1, <2>1, <2>2
<1> QED BY <1>4, <1>5, <1>7, <1>10

-----------------------------------------------------------------------------
(* The ways into the port *)

\* A byte in the ring is one a register can hold, and not an empty register.
LEMMA BytesAre == \A n \in 0..(Bytes-1) : n \in 0..Bytes /\ n # None /\ (n + 1) % Bytes \in 0..(Bytes-1)
BY SendAssumption DEF None

\* The interrupt, or the sketch that does its work, hands a byte over.
LEMMA HandsKeepsWays ==
    ASSUME SendTypeOK, Ways, head # tail, NEW to, Hands(to), irq = "out",
           to \in Places \ {"shortcut", "direct", "direct clear", "full"},
           to \in {"store", "publish"} => at = to
    PROVE  SendTypeOK' /\ Ways'
<1>a. head \in 0..(Size-1) /\ tail \in 0..(Size-1) /\ buffer[tail] \in 0..(Bytes-1)
  BY DEF SendTypeOK
<1>1. buffer[tail] \in 0..Bytes BY <1>a, BytesAre
<1>2. Around(tail + 1) \in 0..(Size-1) /\ Around(head + 1) # Around(tail + 1)
  BY <1>a, RingIs
<1>3. SendTypeOK' BY <1>1, <1>2 DEF SendTypeOK, Hands, flags
<1>4. Ways' BY <1>2, SendAssumption DEF Ways, Hands, flags, Places
<1> QED BY <1>3, <1>4

\* Every step keeps the types and what the ways into the port rely on.
LEMMA StepKeepsWays == SendTypeOK /\ Ways /\ [SendNext]_sendVars => SendTypeOK' /\ Ways'
<1> SUFFICES ASSUME SendTypeOK, Ways, [SendNext]_sendVars PROVE SendTypeOK' /\ Ways'
  OBVIOUS
<1> USE DEF ring, flags, port
<1>r. /\ head \in 0..(Size-1) /\ tail \in 0..(Size-1) /\ c \in 0..(Bytes-1)
      /\ Around(head + 1) \in 0..(Size-1) /\ (head = tail => Around(head + 1) # tail)
  BY RingIs DEF SendTypeOK
<1>b. /\ 0..(Bytes-1) \subseteq 0..Bytes /\ None \in 0..Bytes
      /\ \A n \in 0..(Bytes-1) : (n + 1) % Bytes \in 0..(Bytes-1) /\ n # None
  BY SendAssumption DEF None
<1>1. CASE Moves BY <1>1, <1>b DEF Moves, SendTypeOK, Ways, UDRE
<1>2. CASE ByteLeaves
  <2>1. SendTypeOK' BY <1>2, <1>b DEF ByteLeaves, SendTypeOK
  <2>2. Ways' BY <1>2 DEF ByteLeaves, Ways, UDRE
  <2> QED BY <2>1, <2>2
<1>3. CASE Marks
  <2>1. SendTypeOK' BY <1>3 DEF Marks, SendTypeOK
  <2>2. Ways' BY <1>3 DEF Marks, Ways, UDRE
  <2> QED BY <2>1, <2>2
<1>4. CASE DataEmpty
  <2>1. CASE at = "full"
    <3>1. head # tail /\ Hands("full") /\ I BY <1>4, <2>1 DEF DataEmpty, Ways
    <3>2. Around(tail + 1) \in 0..(Size-1) /\ buffer[tail] \in 0..(Bytes-1)
      BY RingIs, <1>r DEF SendTypeOK
    <3>3. SendTypeOK' BY <3>1, <3>2, <1>b DEF SendTypeOK, Hands
    <3>4. Ways' BY <3>1 DEF Ways, Hands, Places
    <3> QED BY <3>3, <3>4
  <2>2. CASE at # "full"
    <3>1. head # tail /\ Hands(at) /\ irq = "out" BY <1>4 DEF DataEmpty, Ways
    <3>2. at \in Places \ {"shortcut", "direct", "direct clear", "full"}
      BY <1>4, <2>2 DEF DataEmpty, Ways
    <3> QED BY <3>1, <3>2, HandsKeepsWays
  <2> QED BY <2>1, <2>2
<1>5. CASE MakesRoom
  <2>1. head # tail /\ Hands("slot") /\ irq = "out" BY <1>5 DEF MakesRoom, Ways
  <2> QED BY <2>1, HandsKeepsWays DEF Places
<1>6. CASE Polls
  <2>1. head # tail /\ Hands("flush") /\ irq = "out" BY <1>6 DEF Polls, Ways
  <2> QED BY <2>1, HandsKeepsWays DEF Places
<1>7. CASE Writes BY <1>7 DEF Writes, Steps, SendTypeOK, Ways, Places, UDRE
<1>8. CASE Shortcut BY <1>8 DEF Shortcut, Steps, SendTypeOK, Ways, Places, UDRE
<1>9. CASE Direct BY <1>9, <1>b DEF Direct, Steps, SendTypeOK, Ways, Places, UDRE
<1>10. CASE DirectClear BY <1>10 DEF DirectClear, Steps, SendTypeOK, Ways, Places, UDRE
<1>11. CASE HasRoom BY <1>11, <1>r DEF HasRoom, Steps, SendTypeOK, Ways, Places, UDRE
<1>12. CASE WaitsForRoom BY <1>12 DEF WaitsForRoom, Steps, SendTypeOK, Ways, Places, UDRE
<1>13. CASE Store BY <1>13, <1>r DEF Store, Steps, SendTypeOK, Ways, Places, UDRE
<1>14. CASE Publish BY <1>14, <1>r, <1>b DEF Publish, Steps, SendTypeOK, Ways, Places, UDRE
<1>15. CASE Flushes("flush") BY <1>15 DEF Flushes, Steps, SendTypeOK, Ways, Places, UDRE
<1>16. CASE LooksUDRIE BY <1>16 DEF LooksUDRIE, Steps, SendTypeOK, Ways, Places, UDRE
<1>17. CASE LooksTXC BY <1>17 DEF LooksTXC, Steps, SendTypeOK, Ways, Places, UDRE
<1>18. CASE LooksAgain BY <1>18 DEF LooksAgain, Steps, SendTypeOK, Ways, Places, UDRE
<1>19. CASE Returns BY <1>19 DEF Returns, Steps, SendTypeOK, Ways, Places, UDRE
<1>20. CASE Begin BY <1>20 DEF Begin, Steps, SendTypeOK, Ways, Places, UDRE
<1>21. CASE Switch BY <1>21 DEF Switch, Steps, SendTypeOK, Ways, Places, UDRE
<1>22. CASE UNCHANGED sendVars BY <1>22 DEF sendVars, SendTypeOK, Ways, UDRE
<1> QED
  BY <1>1, <1>2, <1>3, <1>4, <1>5, <1>6, <1>7, <1>8, <1>9, <1>10, <1>11, <1>12, <1>13, <1>14,
     <1>15, <1>16, <1>17, <1>18, <1>19, <1>20, <1>21, <1>22
  DEF SendNext, Port, Write, Flush

-----------------------------------------------------------------------------
(* Order *)

\* There are never as many bytes under way as there are numbers.
LEMMA FewUnderWay ==
    ASSUME SendTypeOK
    PROVE  /\ Waiting \in 0..(Size-1) /\ InPort \in 0..2 /\ Full(shift) \in 0..1
           /\ InPort + Waiting \in 0..(Bytes-1) /\ InPort + Waiting + 1 \in 0..Bytes
           /\ Bytes \in Nat /\ Size \in Nat \ {0, 1} /\ Bytes > Size + 1
           /\ (Waiting = 0 <=> head = tail)
<1>1. Bytes \in Nat /\ Size \in Nat \ {0, 1} /\ Bytes > Size + 1 BY SendAssumption
<1>2. head \in 0..(Size-1) /\ tail \in 0..(Size-1) BY DEF SendTypeOK
<1>3. Waiting \in 0..(Size-1) /\ (Waiting = 0 <=> head = tail) BY <1>2, RingIs DEF Waiting
<1>4. Full(shift) \in 0..1 /\ Full(udr) \in 0..1 BY DEF Full
<1>5. InPort \in 0..2 BY <1>4 DEF InPort
<1> QED BY <1>1, <1>3, <1>4, <1>5

\* A step that touches neither the ring, nor the port, nor the numbers.
LEMMA QuietKeepsOrder == Numbered /\ UNCHANGED <<ring, port, c, sent>> => Numbered'
BY DEF Numbered, ring, port, Number, InPort, Full, Waiting

\* The data register moves on: the bytes under way are the same.
LEMMA MovesKeepsOrder == SendTypeOK /\ Numbered /\ Moves => Numbered'
<1> SUFFICES ASSUME SendTypeOK, Numbered, Moves PROVE Numbered'
  OBVIOUS
<1>1. /\ shift = None /\ udr # None /\ shift' = udr /\ udr' = None
      /\ UNCHANGED <<buffer, head, tail, c, sent>>
  BY DEF Moves, UDRE, ring
<1>2. udr = sent BY <1>1, NumbersAre, SendAssumption DEF Numbered, Full, SendTypeOK
<1>3. InPort' = InPort /\ Waiting' = Waiting /\ \A k : Number(k)' = Number(k)
  BY <1>1 DEF InPort, Full, Waiting, Number
<1> QED BY <1>1, <1>2, <1>3 DEF Numbered

\* The first of them leaves, and each that follows is one nearer.
LEMMA LeavesKeepsOrder == SendTypeOK /\ Numbered /\ ByteLeaves => Numbered'
<1> SUFFICES ASSUME SendTypeOK, Numbered, ByteLeaves PROVE Numbered'
  OBVIOUS
<1>1. /\ shift # None /\ shift' = None /\ sent' = (sent + 1) % Bytes
      /\ UNCHANGED <<udr, buffer, head, tail, c>>
  BY DEF ByteLeaves, ring
<1>2. sent \in 0..(Bytes-1) BY DEF SendTypeOK
<1>3. \A k \in 0..(Bytes-1) : (sent' + k) % Bytes = Number(k + 1)
  BY <1>1, <1>2, NumbersAre DEF Number
<1>4. Full(shift) = 1 /\ Full(shift)' = 0 /\ InPort = InPort' + 1 /\ InPort' \in 0..1
  BY <1>1 DEF Full, InPort
<1>5. Waiting' = Waiting BY <1>1 DEF Waiting
<1>6. ASSUME udr' # None PROVE udr' = Number(Full(shift))'
  <2>1. udr = Number(1) BY <1>1, <1>4, <1>6 DEF Numbered, None
  <2>2. (sent' + 0) % Bytes = Number(0 + 1) BY <1>3, FewUnderWay
  <2> QED BY <1>1, <1>4, <2>1, <2>2 DEF Number
<1>7. c' = Number(InPort + Waiting)'
  <2>1. InPort' + Waiting \in 0..(Bytes-1) /\ InPort + Waiting = (InPort' + Waiting) + 1
    BY <1>4, FewUnderWay
  <2>2. (sent' + (InPort' + Waiting)) % Bytes = Number((InPort' + Waiting) + 1) BY <1>3, <2>1
  <2>3. c' = Number((InPort' + Waiting) + 1) BY <1>1, <2>1 DEF Numbered
  <2> QED BY <1>5, <2>2, <2>3 DEF Number
<1>8. ASSUME NEW i \in 0..Waiting'-1 PROVE buffer'[Around(tail + i)'] = Number(InPort + i)'
  <2>0. i \in Nat /\ i < Waiting BY <1>5, FewUnderWay
  <2>a. InPort' \in 0..1 /\ InPort = InPort' + 1 BY <1>4
  <2>b. InPort + Waiting \in 0..(Bytes-1) /\ Waiting \in 0..(Size-1) /\ Bytes \in Nat /\ Size \in Nat
    BY FewUnderWay
  <2>c. i \in 0..Waiting-1 BY <2>0, <2>b
  <2>d. InPort + i = (InPort' + i) + 1 BY <2>a, <2>0
  <2>e. InPort' + i \in 0..(Bytes-1)
    <3>1. ASSUME NEW p \in 0..1, NEW w \in 0..(Size-1), i < w, (p + 1) + w \in 0..(Bytes-1)
          PROVE  p + i \in 0..(Bytes-1)
      BY <3>1, <2>0, <2>b
    <3> QED BY <3>1, <2>a, <2>b, <2>0
  <2>1. InPort' + i \in 0..(Bytes-1) /\ InPort + i = (InPort' + i) + 1 /\ i \in 0..Waiting-1
    BY <2>c, <2>d, <2>e
  <2>2. buffer[Around(tail + i)] = Number((InPort' + i) + 1) BY <2>1 DEF Numbered
  <2>3. Around(tail + i)' = Around(tail + i) BY <1>1 DEF Around
  <2>4. (sent' + (InPort' + i)) % Bytes = Number((InPort' + i) + 1) BY <1>3, <2>1
  <2> QED BY <1>1, <2>2, <2>3, <2>4 DEF Number
<1> QED BY <1>1, <1>6, <1>7, <1>8 DEF Numbered

\* The first of the ring goes into the data register, and the ring begins with the next.
LEMMA HandsKeepsOrder ==
    ASSUME SendTypeOK, Numbered, head # tail, UDRE, NEW to, Hands(to)
    PROVE  Numbered'
<1>1. /\ udr = None /\ udr' = buffer[tail] /\ tail' = Around(tail + 1)
      /\ UNCHANGED <<buffer, head, shift, c, sent>>
  BY DEF Hands, UDRE
<1>2. /\ head \in 0..(Size-1) /\ tail \in 0..(Size-1) /\ buffer[tail] \in 0..(Bytes-1)
      /\ Size \in Nat \ {0, 1}
  BY FewUnderWay DEF SendTypeOK
<1>3. Waiting \in 1..(Size-1) /\ Waiting' = Waiting - 1
  <2>1. Waiting # 0 BY FewUnderWay
  <2>2. Waiting' = (head - Around(tail + 1)) % Size BY <1>1 DEF Waiting
  <2>3. Waiting' = Waiting - 1 BY <1>2, <2>2, RingIs DEF Waiting
  <2> QED BY <2>1, <2>3, FewUnderWay
<1>4. InPort = Full(shift) /\ InPort' = InPort + 1 /\ Full(shift)' = Full(shift) /\ InPort \in 0..1
  <2>1. Full(udr) = 0 /\ Full(udr)' = 1 BY <1>1, <1>2, BytesAre DEF Full, None
  <2>2. Full(shift)' = Full(shift) BY <1>1 DEF Full
  <2> QED BY <2>1, <2>2, FewUnderWay DEF InPort
<1>5. \A k : Number(k)' = Number(k) BY <1>1 DEF Number
<1>6. udr' = Number(Full(shift))'
  <2>1. 0 \in 0..Waiting-1 /\ Around(tail + 0) = tail BY <1>2, <1>3, Around1 DEF Around
  <2>2. buffer[tail] = Number(InPort + 0) BY <2>1 DEF Numbered
  <2> QED BY <1>1, <1>4, <1>5, <2>2
<1>7. c' = Number(InPort + Waiting)'
  <2>1. InPort' + Waiting' = InPort + Waiting BY <1>3, <1>4
  <2> QED BY <1>1, <1>5, <2>1 DEF Numbered, Number
<1>8. ASSUME NEW i \in 0..Waiting'-1 PROVE buffer'[Around(tail + i)'] = Number(InPort + i)'
  <2>1. i \in 0..(Size-1) /\ i + 1 < Size /\ i + 1 \in 0..Waiting-1 /\ InPort' + i = InPort + (i + 1)
    BY <1>2, <1>3, <1>4
  <2>2. Around(tail + i)' = Around(Around(tail + 1) + i) BY <1>1 DEF Around
  <2>3. Around(tail + i)' = Around(tail + (i + 1)) BY <1>2, <2>1, <2>2, PlacesAre
  <2>4. buffer[Around(tail + (i + 1))] = Number(InPort + (i + 1)) BY <2>1 DEF Numbered
  <2> QED BY <1>1, <2>1, <2>3, <2>4 DEF Number
<1> QED BY <1>1, <1>6, <1>7, <1>8 DEF Numbered

\* The shortcut: the ring is empty, so the byte follows the one in the shift register.
LEMMA DirectKeepsOrder == SendTypeOK /\ Ways /\ Numbered /\ Direct => Numbered'
<1> SUFFICES ASSUME SendTypeOK, Ways, Numbered, Direct PROVE Numbered'
  OBVIOUS
<1>1. /\ udr = None /\ udr' = c /\ head = tail /\ c' = (c + 1) % Bytes
      /\ UNCHANGED <<buffer, head, tail, shift, sent>>
  BY DEF Direct, Steps, Ways, UDRE, ring
<1>2. head \in 0..(Size-1) /\ c \in 0..(Bytes-1) /\ sent \in 0..(Bytes-1) BY DEF SendTypeOK
<1>3. Waiting = 0 /\ Waiting' = 0
  <2>1. Waiting = 0 BY <1>1, <1>2, RingIs DEF Waiting
  <2> QED BY <1>1, <2>1 DEF Waiting
<1>4. InPort = Full(shift) /\ InPort' = InPort + 1 /\ Full(shift)' = Full(shift) /\ InPort \in 0..1
  <2>1. Full(udr) = 0 /\ Full(udr)' = 1 BY <1>1, <1>2, BytesAre DEF Full, None
  <2>2. Full(shift)' = Full(shift) BY <1>1 DEF Full
  <2> QED BY <2>1, <2>2, FewUnderWay DEF InPort
<1>5. \A k : Number(k)' = Number(k) BY <1>1 DEF Number
<1>6. InPort \in 0..(Bytes-1) /\ c = Number(InPort)
  <2>1. InPort + Waiting = InPort BY <1>3, <1>4
  <2> QED BY <2>1, FewUnderWay DEF Numbered
<1>7. c' = Number(InPort + 1) BY <1>1, <1>2, <1>6, NumbersAre
<1>8. InPort' + Waiting' = InPort + 1 BY <1>3, <1>4
<1>9. c' = Number(InPort + Waiting)' BY <1>1, <1>7, <1>8 DEF Number
<1>10. udr' = Number(Full(shift))' BY <1>1, <1>4, <1>5, <1>6
<1>11. 0..Waiting'-1 = {} BY <1>3
<1> QED BY <1>1, <1>9, <1>10, <1>11 DEF Numbered

\* The byte is written where none waits.
LEMMA StoreKeepsOrder == SendTypeOK /\ Numbered /\ Store => Numbered'
<1> SUFFICES ASSUME SendTypeOK, Numbered, Store PROVE Numbered'
  OBVIOUS
<1>1. /\ buffer' = [buffer EXCEPT ![head] = c]
      /\ UNCHANGED <<head, tail, udr, shift, c, sent>>
  BY DEF Store, port
<1>2. head \in 0..(Size-1) /\ tail \in 0..(Size-1) BY DEF SendTypeOK
<1>3. Waiting' = Waiting /\ InPort' = InPort /\ (\A k : Number(k)' = Number(k))
  BY <1>1 DEF Waiting, InPort, Full, Number
<1>4. Around(tail + Waiting) = head /\ Waiting \in 0..(Size-1)
  BY <1>2, RingIs, FewUnderWay DEF Waiting
<1>5. ASSUME NEW i \in 0..Waiting'-1 PROVE buffer'[Around(tail + i)'] = Number(InPort + i)'
  <2>1. i \in 0..(Size-1) /\ i # Waiting /\ i \in 0..Waiting-1 BY <1>3, <1>4, FewUnderWay
  <2>2. Around(tail + i) \in 0..(Size-1) /\ Around(tail + i) # head BY <1>2, <1>4, <2>1, PlacesAre
  <2>3. buffer[Around(tail + i)] = Number(InPort + i) BY <2>1 DEF Numbered
  <2>4. buffer'[Around(tail + i)] = buffer[Around(tail + i)]
    BY <1>1, <2>2 DEF SendTypeOK
  <2>5. Around(tail + i)' = Around(tail + i) /\ Number(InPort + i)' = Number(InPort + i)
    BY <1>1, <1>3 DEF Around, Number
  <2> QED BY <2>3, <2>4, <2>5
<1> QED BY <1>1, <1>3, <1>5 DEF Numbered, Full

\* It joins those that wait as the last of them.
LEMMA PublishKeepsOrder == SendTypeOK /\ Ways /\ Numbered /\ Publish => Numbered'
<1> SUFFICES ASSUME SendTypeOK, Ways, Numbered, Publish PROVE Numbered'
  OBVIOUS
<1>1. /\ head' = Around(head + 1) /\ c' = (c + 1) % Bytes
      /\ Around(head + 1) # tail /\ buffer[head] = c
      /\ UNCHANGED <<buffer, tail, udr, shift, sent>>
  BY DEF Publish, Steps, Ways, port
<1>2. head \in 0..(Size-1) /\ tail \in 0..(Size-1) /\ sent \in 0..(Bytes-1) BY DEF SendTypeOK
<1>3. InPort' = InPort /\ Full(shift)' = Full(shift) /\ (\A k : Number(k)' = Number(k))
  BY <1>1 DEF InPort, Full, Number
<1>4. Waiting' = Waiting + 1 /\ Around(tail + Waiting) = head
  BY <1>1, <1>2, RingIs DEF Waiting
<1>5. c = Number(InPort + Waiting) BY DEF Numbered
<1>6. c' = Number((InPort + Waiting) + 1) BY <1>1, <1>2, <1>5, NumbersAre, FewUnderWay
<1>7. InPort' + Waiting' = (InPort + Waiting) + 1 BY <1>3, <1>4, FewUnderWay
<1>8. c' = Number(InPort + Waiting)' BY <1>1, <1>6, <1>7 DEF Number
<1>9. ASSUME NEW i \in 0..Waiting'-1 PROVE buffer'[Around(tail + i)'] = Number(InPort + i)'
  <2>1. i \in 0..Waiting-1 \/ i = Waiting BY <1>4, FewUnderWay
  <2>2. buffer[Around(tail + i)] = Number(InPort + i) BY <1>1, <1>4, <1>5, <2>1 DEF Numbered
  <2>3. Around(tail + i)' = Around(tail + i) /\ Number(InPort + i)' = Number(InPort + i)
    BY <1>1, <1>3 DEF Around, Number
  <2> QED BY <1>1, <2>2, <2>3
<1> QED BY <1>1, <1>3, <1>8, <1>9 DEF Numbered

\* Every step keeps the numbers.
LEMMA StepKeepsNumbers == OrderInv /\ [SendNext]_sendVars => Numbered'
<1> SUFFICES ASSUME SendTypeOK, Ways, Numbered, [SendNext]_sendVars PROVE Numbered'
  BY DEF OrderInv
<1>1. CASE Moves BY <1>1, MovesKeepsOrder
<1>2. CASE ByteLeaves BY <1>2, LeavesKeepsOrder
<1>3. CASE DataEmpty
  <2>1. head # tail /\ UDRE /\ Hands(at) BY <1>3 DEF DataEmpty, Ways
  <2> QED BY <2>1, HandsKeepsOrder
<1>4. CASE MakesRoom
  <2>1. head # tail /\ UDRE /\ Hands("slot") BY <1>4 DEF MakesRoom, Ways
  <2> QED BY <2>1, HandsKeepsOrder
<1>5. CASE Polls
  <2>1. head # tail /\ UDRE /\ Hands("flush") BY <1>5 DEF Polls, Ways
  <2> QED BY <2>1, HandsKeepsOrder
<1>6. CASE Direct BY <1>6, DirectKeepsOrder
<1>7. CASE Store BY <1>7, StoreKeepsOrder
<1>8. CASE Publish BY <1>8, PublishKeepsOrder
<1>9. CASE Marks \/ Writes \/ Shortcut \/ DirectClear \/ HasRoom
  BY <1>9, QuietKeepsOrder DEF Marks, Writes, Shortcut, DirectClear, HasRoom
<1>10. CASE WaitsForRoom \/ Flushes("flush") \/ LooksUDRIE \/ LooksTXC \/ LooksAgain
  BY <1>10, QuietKeepsOrder DEF WaitsForRoom, Flushes, LooksUDRIE, LooksTXC, LooksAgain
<1>11. CASE Returns \/ Begin \/ Switch
  BY <1>11, QuietKeepsOrder DEF Returns, Begin, Switch
<1>12. CASE UNCHANGED sendVars BY <1>12, QuietKeepsOrder DEF sendVars, ring, port
<1> QED
  BY <1>1, <1>2, <1>3, <1>4, <1>5, <1>6, <1>7, <1>8, <1>9, <1>10, <1>11, <1>12
  DEF SendNext, Port, Write, Flush

\* It begins with nothing under way.
LEMMA InitEstablishes == SendInit => FlushInv
<1> SUFFICES ASSUME SendInit PROVE FlushInv
  OBVIOUS
<1> USE DEF SendInit
<1>1. SendTypeOK
  <2>1. 0 \in 0..(Size-1) /\ 0 \in 0..(Bytes-1) /\ None \in 0..Bytes BY SendAssumption DEF None
  <2> QED BY <2>1 DEF SendTypeOK
<1>2. Ways BY DEF Ways, Places, UDRE
<1>3. Numbered
  <2>1. Waiting = 0 /\ InPort = 0 BY <1>1, FewUnderWay DEF InPort, Full
  <2>2. Number(InPort + Waiting) = 0 BY <1>1, <2>1, NumbersAre, FewUnderWay DEF Number
  <2>3. 0..Waiting-1 = {} BY <2>1
  <2> QED BY <2>2, <2>3 DEF Numbered
<1>4. Flags BY DEF Flags
<1> QED BY <1>1, <1>2, <1>3, <1>4 DEF FlushInv, OrderInv

-----------------------------------------------------------------------------
(* The flags *)

\* Every step keeps what the flags say.
LEMMA StepKeepsFlags == FlushInv /\ [SendNext]_sendVars => Flags'
<1> SUFFICES ASSUME SendTypeOK, Ways, Flags, [SendNext]_sendVars PROVE Flags'
  BY DEF FlushInv, OrderInv
<1> USE DEF ring, flags, port, UDRE
<1>1. CASE Moves BY <1>1 DEF Moves, Flags, Ways
<1>2. CASE ByteLeaves BY <1>2 DEF ByteLeaves, Flags, Ways
<1>3. CASE Marks BY <1>3 DEF Marks, Flags, Ways, SendTypeOK
<1>4. CASE DataEmpty BY <1>4 DEF DataEmpty, Hands, Flags, Ways
<1>5. CASE MakesRoom BY <1>5 DEF MakesRoom, Hands, Flags, Ways
<1>6. CASE Polls BY <1>6 DEF Polls, Hands, Flags, Ways
<1>7. CASE Writes BY <1>7 DEF Writes, Steps, Flags, Ways
<1>8. CASE Shortcut BY <1>8 DEF Shortcut, Steps, Flags, Ways
<1>9. CASE Direct BY <1>9 DEF Direct, Steps, Flags, Ways
<1>10. CASE DirectClear BY <1>10 DEF DirectClear, Steps, Flags, Ways
<1>11. CASE HasRoom BY <1>11 DEF HasRoom, Steps, Flags, Ways
<1>12. CASE WaitsForRoom BY <1>12 DEF WaitsForRoom, Steps, Flags, Ways
<1>13. CASE Store BY <1>13 DEF Store, Steps, Flags, Ways
<1>14. CASE Publish BY <1>14 DEF Publish, Steps, Flags, Ways
<1>15. CASE Flushes("flush") BY <1>15 DEF Flushes, Steps, Flags, Ways
<1>16. CASE LooksUDRIE BY <1>16 DEF LooksUDRIE, Steps, Flags, Ways
<1>17. CASE LooksTXC BY <1>17 DEF LooksTXC, Steps, Flags, Ways
<1>18. CASE LooksAgain BY <1>18 DEF LooksAgain, Steps, Flags, Ways
<1>19. CASE Returns BY <1>19 DEF Returns, Steps, Flags, Ways
<1>20. CASE Begin BY <1>20 DEF Begin, Steps, Flags, Ways
<1>21. CASE Switch BY <1>21 DEF Switch, Steps, Flags, Ways
<1>22. CASE UNCHANGED sendVars BY <1>22 DEF sendVars, Flags
<1> QED
  BY <1>1, <1>2, <1>3, <1>4, <1>5, <1>6, <1>7, <1>8, <1>9, <1>10, <1>11, <1>12, <1>13, <1>14,
     <1>15, <1>16, <1>17, <1>18, <1>19, <1>20, <1>21, <1>22
  DEF SendNext, Port, Write, Flush

-----------------------------------------------------------------------------
(* What they mean *)

\* The numbers are those of the sequence of the bytes under way.
LEMMA NumberedMeansInOrder == OrderInv => SentInOrder
<1> SUFFICES ASSUME SendTypeOK, Numbered PROVE SentInOrder
  BY DEF OrderInv
<1> DEFINE first == IF shift = None THEN <<>> ELSE <<shift>>
           second == IF UDRE THEN <<>> ELSE <<udr>>
           rest == [n \in 1..Waiting |-> buffer[Around(tail + n - 1)]]
           total == InPort + Waiting
           numbers == [n \in 1..total |-> (sent + n - 1) % Bytes]
<1>1. /\ Waiting \in 0..(Size-1) /\ InPort \in 0..2 /\ Full(shift) \in 0..1 /\ Full(udr) \in 0..1
      /\ total \in 0..(Bytes-1) /\ Bytes \in Nat /\ Size \in Nat
  BY FewUnderWay DEF Full
<1>2. (c - sent) % Bytes = total BY <1>1, NumbersAre DEF Numbered, SendTypeOK
<1>3. first \in Seq(Int) /\ Len(first) = Full(shift) /\ (Full(shift) = 1 => first[1] = sent)
  BY DEF Full, Numbered, SendTypeOK
<1>4. second \in Seq(Int) /\ Len(second) = Full(udr) /\ (Full(udr) = 1 => second[1] = Number(Full(shift)))
  BY DEF Full, Numbered, SendTypeOK, UDRE
<1>5. /\ rest \in Seq(Int) /\ Len(rest) = Waiting
      /\ \A n \in 1..Waiting : rest[n] = Number((InPort + n) - 1)
  <2>1. ASSUME NEW n \in 1..Waiting
        PROVE  buffer[Around(tail + n - 1)] = Number((InPort + n) - 1)
    <3>1. n - 1 \in 0..Waiting-1 /\ tail + n - 1 = tail + (n - 1) /\ (InPort + n) - 1 = InPort + (n - 1)
      BY <1>1 DEF SendTypeOK
    <3> QED BY <3>1 DEF Numbered
  <2>2. ASSUME NEW n \in 1..Waiting PROVE (InPort + n) - 1 \in 0..(Bytes-1)
    BY <1>1
  <2>3. ASSUME NEW n \in 1..Waiting PROVE buffer[Around(tail + n - 1)] \in Int
    <3>1. Number((InPort + n) - 1) \in 0..(Bytes-1) BY <2>2, <2>3, NumbersAre DEF SendTypeOK
    <3> QED BY <1>1, <2>1, <2>3, <3>1
  <2>4. rest \in [1..Waiting -> Int] BY <2>3
  <2>5. rest \in Seq(Int) /\ Len(rest) = Waiting BY <1>1, <2>4
  <2> QED BY <2>1, <2>5
<1> HIDE DEF first, second, rest
<1> DEFINE inPort == first \o second
           all == inPort \o rest
<1>6. /\ inPort \in Seq(Int) /\ Len(inPort) = InPort
      /\ \A i \in 1..InPort : inPort[i] = IF i <= Full(shift) THEN first[i] ELSE second[i - Full(shift)]
  BY <1>3, <1>4, ConcatProperties DEF InPort
<1>t. total = InPort + Waiting OBVIOUS
<1> HIDE DEF inPort, total
<1>7. /\ all \in Seq(Int) /\ Len(all) = total
      /\ \A i \in 1..total : all[i] = IF i <= InPort THEN inPort[i] ELSE rest[i - InPort]
  BY <1>5, <1>6, <1>t, ConcatProperties
<1> HIDE DEF all
<1>8. ASSUME NEW i \in 1..total PROVE all[i] = (sent + i - 1) % Bytes
  <2>1. i - 1 \in 0..(Bytes-1) /\ sent + i - 1 = sent + (i - 1) BY <1>1 DEF SendTypeOK
  <2>2. CASE i <= Full(shift)
    <3>1. i = 1 /\ Full(shift) = 1 /\ i \in 1..InPort /\ i - 1 = 0 BY <1>1, <2>2 DEF InPort
    <3>2. all[i] = sent BY <1>3, <1>6, <1>7, <2>2, <3>1
    <3>3. Number(0) = sent BY <1>1, NumbersAre DEF SendTypeOK
    <3> QED BY <2>1, <3>1, <3>2, <3>3 DEF Number
  <2>3. CASE i > Full(shift) /\ i <= InPort
    <3>1. Full(udr) = 1 /\ i - Full(shift) = 1 /\ i - 1 = Full(shift) /\ i \in 1..InPort
      BY <1>1, <2>3 DEF InPort
    <3>2. all[i] = inPort[i] BY <1>7, <2>3
    <3>3. inPort[i] = second[1] BY <1>1, <1>6, <2>3, <3>1
    <3> QED BY <1>4, <2>1, <3>1, <3>2, <3>3 DEF Number
  <2>4. CASE i > InPort
    <3>1. i - InPort \in 1..Waiting /\ (InPort + (i - InPort)) - 1 = i - 1 BY <1>1, <1>t, <2>4
    <3>2. ~(i <= InPort) BY <1>1, <2>4
    <3>3. all[i] = rest[i - InPort] BY <1>7, <3>2
    <3> QED BY <1>5, <2>1, <3>1, <3>3 DEF Number
  <2>5. i <= Full(shift) \/ (i > Full(shift) /\ i <= InPort) \/ i > InPort BY <1>1
  <2> QED BY <2>2, <2>3, <2>4, <2>5
<1>9. numbers \in Seq(Int) /\ Len(numbers) = total
  <2>1. \A n \in 1..total : (sent + n - 1) % Bytes \in Int BY <1>1 DEF SendTypeOK
  <2> QED BY <1>1, <2>1
<1>10. \A i \in 1..total : numbers[i] = (sent + i - 1) % Bytes OBVIOUS
<1> HIDE DEF numbers
<1>11. all = numbers BY <1>7, <1>8, <1>9, <1>10, SeqEqual
<1> QED BY <1>2, <1>11 DEF all, inPort, numbers, total, first, second, rest, SentInOrder, UnderWay

\* When nothing is under way, the next to leave is the next to be written.
LEMMA FlagsMeanSent == FlushInv => FlushMeansSent
<1> SUFFICES ASSUME SendTypeOK, Numbered, Flags, at = "flushed" /\ written PROVE sent = c
  BY DEF FlushInv, OrderInv, FlushMeansSent
<1>1. head = tail /\ udr = None /\ shift = None BY DEF Flags, UDRE
<1>2. InPort = 0 /\ Waiting = 0 BY <1>1, FewUnderWay DEF InPort, Full
<1>3. c = Number(0) BY <1>2 DEF Numbered
<1> QED BY <1>3, NumbersAre, FewUnderWay DEF SendTypeOK

-----------------------------------------------------------------------------

\* The inductive invariant: every step keeps its three parts.
LEMMA AlwaysNumbered == SendSpec => []FlushInv
<1>1. SendInit => FlushInv BY InitEstablishes
<1>2. FlushInv /\ [SendNext]_sendVars => FlushInv'
  BY StepKeepsWays, StepKeepsNumbers, StepKeepsFlags DEF FlushInv, OrderInv
<1> QED BY <1>1, <1>2, PTL DEF SendSpec

\* Whichever of its three ways into the port a byte takes, and wherever the interrupt
\* comes into write and flush, what has been written and has not left is under way, once
\* and in order: no byte overtakes another, is sent twice, or is lost.
THEOREM AlwaysSentInOrder == SendSpec => []SentInOrder
<1>1. FlushInv => SentInOrder BY NumberedMeansInOrder DEF FlushInv
<1> QED BY <1>1, AlwaysNumbered, PTL

\* When flush returns after a write, the byte last written has left the shift register.
THEOREM FlushAlwaysMeansSent == SendSpec => []FlushMeansSent
<1>1. FlushInv => FlushMeansSent BY FlagsMeanSent
<1> QED BY <1>1, AlwaysNumbered, PTL

-----------------------------------------------------------------------------
(* The receiving half *)

\* The indices, and the bytes that wait.
LEMMA RxFacts ==
    ASSUME ReceiveTypeOK
    PROVE  /\ RxSize \in Nat \ {0, 1} /\ RxBytes \in Nat \ {0} /\ RxSize < RxBytes
           /\ rxHead \in 0..(RxSize-1) /\ rxTail \in 0..(RxSize-1)
           /\ RxWaiting \in 0..(RxSize-1)
           /\ RingLaws(RxSize, rxHead, rxTail)
           /\ \A i \in 0..(RxSize-1) : PlaceLaws(RxSize, rxTail, i)
<1>1. RxSize \in Nat \ {0, 1} /\ RxBytes \in Nat \ {0} /\ RxSize < RxBytes BY ReceiveAssumption
<1>2. rxHead \in 0..(RxSize-1) /\ rxTail \in 0..(RxSize-1) BY DEF ReceiveTypeOK
<1>3. RingLaws(RxSize, rxHead, rxTail) BY <1>1, <1>2, RingOf
<1>4. \A i \in 0..(RxSize-1) : PlaceLaws(RxSize, rxTail, i) BY <1>1, <1>2, PlacesOf
<1>5. RxWaiting \in 0..(RxSize-1) BY <1>3 DEF RingLaws, RxWaiting
<1> QED BY <1>1, <1>2, <1>3, <1>4, <1>5

\* A byte that is stored goes to a place where none waits, and is the last of them.
LEMMA StoreKeepsHeld == ReceiveInv /\ RxStores => ReceiveInv'
<1> SUFFICES ASSUME ReceiveTypeOK, Held, Calls, RxStores PROVE ReceiveInv'
  BY DEF ReceiveInv
<1>1. /\ RXCIE /\ RxAround(rxHead + 1) # rxTail
      /\ rxBuffer' = [rxBuffer EXCEPT ![rxHead] = arrived]
      /\ rxHead' = RxAround(rxHead + 1)
      /\ arrived' = (arrived + 1) % RxBytes
      /\ kept' = Append(kept, arrived)
      /\ UNCHANGED <<rxTail, RXCIE, rxAt, found, got>>
  BY DEF RxStores
<1>2. /\ rxBuffer \in [0..(RxSize-1) -> 0..(RxBytes-1)]
      /\ arrived \in 0..(RxBytes-1) /\ kept \in Seq(0..(RxBytes-1))
  BY DEF ReceiveTypeOK
<1>3. RxWaiting' = RxWaiting + 1 /\ rxHead' \in 0..(RxSize-1)
  BY <1>1, RxFacts DEF RingLaws, RxWaiting, RxAround
<1>4. RxWaiting' \in 0..(RxSize-1)
  <2>1. rxHead' \in 0..(RxSize-1) /\ rxTail' \in 0..(RxSize-1) BY <1>1, <1>3, RxFacts
  <2>2. RingLaws(RxSize, rxHead', rxTail') BY <2>1, RxFacts, RingOf
  <2> QED BY <2>2 DEF RingLaws, RxWaiting
<1>5. kept' \in Seq(0..(RxBytes-1)) /\ Len(kept') = Len(kept) + 1 /\ kept' # <<>>
  BY <1>1, <1>2
<1>6. arrived' \in 0..(RxBytes-1) BY <1>1, <1>2, RxFacts
<1>7. ReceiveTypeOK'
  <2>1. rxBuffer' \in [0..(RxSize-1) -> 0..(RxBytes-1)] BY <1>1, <1>2
  <2>2. Len(kept') < RxSize BY <1>3, <1>4, <1>5, RxFacts DEF Held
  <2> QED BY <1>1, <1>3, <1>5, <1>6, <2>1, <2>2 DEF ReceiveTypeOK
<1>8. ASSUME NEW i \in 0..RxWaiting'-1
      PROVE  kept'[i + 1] = rxBuffer'[RxAround(rxTail + i)']
  <2>1. i \in 0..(RxSize-1) /\ RxWaiting \in 0..(RxSize-1) /\ i + 1 \in Nat BY <1>3, RxFacts
  <2>2. RxAround(rxTail + i) \in 0..(RxSize-1) /\ RxAround(rxTail + RxWaiting) = rxHead
    BY <2>1, RxFacts DEF PlaceLaws, RingLaws, RxAround, RxWaiting
  <2>3. RxAround(rxTail + i)' = RxAround(rxTail + i) BY <1>1 DEF RxAround
  <2>4. CASE i = RxWaiting
    <3>1. kept'[i + 1] = arrived BY <1>1, <1>2, <2>4 DEF Held
    <3>2. rxBuffer'[rxHead] = arrived BY <1>1, <1>2, RxFacts
    <3> QED BY <2>2, <2>3, <2>4, <3>1, <3>2
  <2>5. CASE i # RxWaiting
    <3>1. i \in 0..RxWaiting-1 BY <1>3, <2>1, <2>5
    <3>2. RxAround(rxTail + i) # rxHead
      BY <2>1, <2>2, <2>5, RxFacts DEF PlaceLaws, RxAround
    <3>3. rxBuffer'[RxAround(rxTail + i)] = rxBuffer[RxAround(rxTail + i)] BY <1>1, <1>2, <2>2, <3>2
    <3>4. kept'[i + 1] = kept[i + 1] BY <1>1, <1>2, <2>1, <3>1 DEF Held
    <3> QED BY <2>3, <3>1, <3>3, <3>4 DEF Held
  <2> QED BY <2>4, <2>5
<1>9. Held' BY <1>3, <1>5, <1>8 DEF Held
<1>10. kept # <<>> => kept'[1] = kept[1] BY <1>1, <1>2
<1>11. Calls'
  <2>1. (found - rxTail) % RxSize = (found' - rxTail') % RxSize BY <1>1
  <2>2. (found - rxTail) % RxSize \in Int BY RxFacts DEF ReceiveTypeOK
  <2>3. Len(kept) \in Nat /\ got \in Int BY <1>2, RxFacts DEF ReceiveTypeOK
  <2> QED BY <1>1, <1>5, <1>10, <2>1, <2>2, <2>3 DEF Calls
<1> QED BY <1>7, <1>9, <1>11 DEF ReceiveInv

\* `read` has given the place of the byte it returns free.
LEMMA AdvanceKeepsHeld == ReceiveInv /\ Advances => ReceiveInv'
<1> SUFFICES ASSUME ReceiveTypeOK, Held, Calls, Advances PROVE ReceiveInv'
  BY DEF ReceiveInv
<1>1. /\ rxTail' = RxAround(rxTail + 1) /\ kept' = Tail(kept) /\ kept # <<>>
      /\ rxAt' = "sketch" /\ got' = Nothing
      /\ UNCHANGED <<rxBuffer, rxHead, RXCIE, arrived, found>>
  BY DEF Advances, Calls
<1>2. kept \in Seq(0..(RxBytes-1)) BY DEF ReceiveTypeOK
<1>3. /\ kept' \in Seq(0..(RxBytes-1)) /\ Len(kept') = Len(kept) - 1 /\ Len(kept) \in Nat \ {0}
      /\ \A i \in 1..Len(kept)-1 : kept'[i] = kept[i + 1]
  BY <1>1, <1>2
<1>4. rxHead # rxTail BY <1>3, RxFacts DEF Held, RingLaws, RxWaiting
<1>5. RxWaiting' = RxWaiting - 1 /\ rxTail' \in 0..(RxSize-1)
  BY <1>1, <1>4, RxFacts DEF RingLaws, RxWaiting, RxAround
<1>6. ReceiveTypeOK'
  <2>1. Len(kept') < RxSize BY <1>3, RxFacts DEF ReceiveTypeOK
  <2>2. got' \in 0..RxBytes BY <1>1, RxFacts DEF Nothing
  <2> QED BY <1>1, <1>3, <1>5, <2>1, <2>2 DEF ReceiveTypeOK
<1>7. ASSUME NEW i \in 0..RxWaiting'-1
      PROVE  kept'[i + 1] = rxBuffer'[RxAround(rxTail + i)']
  <2>1. i \in 0..(RxSize-1) /\ i + 1 < RxSize /\ i + 1 \in 0..RxWaiting-1 /\ i + 1 \in 1..Len(kept)-1
    BY <1>5, RxFacts DEF Held
  <2>2. RxAround(rxTail + i)' = RxAround(rxTail + (i + 1))
    BY <1>1, <2>1, RxFacts DEF PlaceLaws, RxAround
  <2>3. kept'[i + 1] = kept[(i + 1) + 1] BY <1>3, <2>1
  <2> QED BY <1>1, <2>1, <2>2, <2>3 DEF Held
<1>8. Held' BY <1>3, <1>5, <1>7 DEF Held
<1>9. Calls' BY <1>1 DEF Calls
<1> QED BY <1>6, <1>8, <1>9 DEF ReceiveInv

\* `end` forgets the bytes that wait; none comes meanwhile.
LEMMA ForgetKeepsHeld == ReceiveInv /\ Forgets => ReceiveInv'
<1> SUFFICES ASSUME ReceiveTypeOK, Held, Calls, Forgets PROVE ReceiveInv'
  BY DEF ReceiveInv
<1>1. /\ rxHead' = rxTail /\ kept' = <<>> /\ rxAt' = "sketch"
      /\ UNCHANGED <<rxBuffer, rxTail, RXCIE, arrived, found, got>>
  BY DEF Forgets
<1>2. RingLaws(RxSize, rxTail, rxTail) BY RxFacts, RingOf
<1>3. RxWaiting' = 0 BY <1>1, <1>2, RxFacts DEF RingLaws, RxWaiting
<1>4. Len(kept') = 0 /\ kept' \in Seq(0..(RxBytes-1)) BY <1>1
<1>5. ReceiveTypeOK' BY <1>1, <1>4, RxFacts DEF ReceiveTypeOK
<1>6. 0..RxWaiting'-1 = {} BY <1>3
<1>7. Held' BY <1>3, <1>4, <1>6 DEF Held
<1>8. Calls' BY <1>1 DEF Calls
<1> QED BY <1>5, <1>7, <1>8 DEF ReceiveInv

\* A step that stores nothing and takes nothing leaves what is kept as it is.
LEMMA QuietKeepsHeld ==
    ASSUME Held, UNCHANGED <<rxRing, kept>>
    PROVE  Held'
<1>1. UNCHANGED <<rxBuffer, rxHead, rxTail, kept>> BY DEF rxRing
<1>2. RxWaiting' = RxWaiting BY <1>1 DEF RxWaiting
<1>3. ASSUME NEW i \in 0..RxWaiting'-1
      PROVE  kept'[i + 1] = rxBuffer'[RxAround(rxTail + i)']
  <2>1. RxAround(rxTail + i)' = RxAround(rxTail + i) BY <1>1 DEF RxAround
  <2> QED BY <1>1, <1>2, <2>1 DEF Held
<1> QED BY <1>1, <1>2, <1>3 DEF Held

\* The two reads of `available`: the head that is read first is none to come.
LEMMA CountKeepsHeld == ReceiveInv /\ (Available \/ Counts) => ReceiveInv'
<1> SUFFICES ASSUME ReceiveTypeOK, Held, Calls, Available \/ Counts PROVE ReceiveInv'
  BY DEF ReceiveInv
<1>1. UNCHANGED <<rxBuffer, rxHead, rxTail, RXCIE, arrived, kept>> BY DEF Available, Counts, rxRing
<1>2. Held' BY <1>1, QuietKeepsHeld DEF rxRing
<1>3. found \in 0..(RxSize-1) /\ kept \in Seq(0..(RxBytes-1)) /\ got \in 0..RxBytes BY DEF ReceiveTypeOK
<1>4. CASE Available
  <2>1. found' = rxHead /\ rxAt' = "count" /\ got' = got BY <1>4 DEF Available
  <2>2. (found' - rxTail') % RxSize = Len(kept') BY <1>1, <2>1 DEF Held, RxWaiting
  <2>3. ReceiveTypeOK' BY <1>1, <2>1, RxFacts DEF ReceiveTypeOK
  <2>4. Calls' BY <1>1, <1>3, <2>1, <2>2 DEF Calls
  <2> QED BY <1>2, <2>3, <2>4 DEF ReceiveInv
<1>5. CASE Counts
  <2> DEFINE d == (found - rxTail) % RxSize
  <2>1. rxAt = "count" /\ rxAt' = "counted" /\ found' = 0 /\ got' = RxAround(RxSize + found - rxTail)
    BY <1>5 DEF Counts
  <2>2. RingLaws(RxSize, found, rxTail) BY <1>3, RxFacts, RingOf
  <2>3. d \in 0..(RxSize-1) BY <2>2 DEF RingLaws
  <2>4. (RxSize + found - rxTail) % RxSize = d
    <3>1. d = IF found >= rxTail THEN found - rxTail ELSE (found - rxTail) + RxSize
      BY <1>3, RxFacts, Around2
    <3>2. RxSize + found - rxTail = (found - rxTail) + RxSize BY <1>3, RxFacts
    <3>3. CASE found >= rxTail
      <4>1. found - rxTail \in 0..(RxSize-1) BY <1>3, <3>3, RxFacts
      <4>2. ((found - rxTail) + RxSize) % RxSize = found - rxTail BY <4>1, RxFacts, Around1
      <4> QED BY <3>1, <3>2, <3>3, <4>2
    <3>4. CASE ~(found >= rxTail)
      <4>1. (found - rxTail) + RxSize \in 0..(RxSize-1) BY <1>3, <3>4, RxFacts
      <4>2. ((found - rxTail) + RxSize) % RxSize = (found - rxTail) + RxSize
        BY <4>1, RxFacts, Around1
      <4> QED BY <3>1, <3>2, <3>4, <4>2
    <3> QED BY <3>3, <3>4
  <2>5. got' = d BY <2>1, <2>4 DEF RxAround
  <2>6. d <= Len(kept) BY <2>1 DEF Calls
  <2> HIDE DEF d
  <2>7. ReceiveTypeOK'
    <3>1. found' \in 0..(RxSize-1) /\ got' \in 0..RxBytes BY <2>1, <2>3, <2>5, ReceiveAssumption
    <3> QED BY <1>1, <3>1 DEF ReceiveTypeOK
  <2>8. Calls' BY <1>1, <2>1, <2>5, <2>6 DEF Calls
  <2> QED BY <1>2, <2>7, <2>8 DEF ReceiveInv
<1> QED BY <1>4, <1>5

\* The rest: the first steps of read and peek, and what leaves the ring alone.
LEMMA OthersKeepHeld ==
    ASSUME ReceiveInv,
           \/ Drops(TRUE) \/ Drops(FALSE) \/ Misses
           \/ ReadAsks("read") \/ ReadAsks("peek") \/ ReadLooks
           \/ CallReturns \/ Closes \/ Opens \/ UNCHANGED receiveVars
    PROVE  ReceiveInv'
<1> USE DEF rxRing
<1>1. ReceiveTypeOK /\ Held /\ Calls BY DEF ReceiveInv
<1>2. UNCHANGED <<rxBuffer, rxHead, rxTail, found, kept>>
  BY DEF Drops, Misses, ReadAsks, ReadLooks, CallReturns, Closes, Opens, receiveVars
<1>3. Held' BY <1>1, <1>2, QuietKeepsHeld
<1>4. kept # <<>> => kept[1] = rxBuffer[rxTail]
  <2>1. PlaceLaws(RxSize, rxTail, 0) /\ RxAround(rxTail + 0) = rxTail
    BY <1>1, RxFacts, Around1 DEF RxAround
  <2>2. kept # <<>> => 0 \in 0..RxWaiting-1 BY <1>1, RxFacts DEF Held, ReceiveTypeOK
  <2> QED BY <1>1, <2>1, <2>2 DEF Held
<1>5. rxHead # rxTail => kept # <<>>
  BY <1>1, RxFacts DEF Held, RingLaws, RxWaiting, ReceiveTypeOK
<1>6. rxBuffer[rxTail] \in 0..(RxBytes-1) /\ (arrived + 1) % RxBytes \in 0..(RxBytes-1)
  <2>1. RxBytes \in Nat \ {0} /\ arrived \in 0..(RxBytes-1) BY <1>1, RxFacts DEF ReceiveTypeOK
  <2>2. (arrived + 1) % RxBytes \in 0..(RxBytes-1) BY <2>1
  <2> QED BY <1>1, <2>2 DEF ReceiveTypeOK
<1>7. ReceiveTypeOK'
  <2>1. arrived' = arrived \/ arrived' = (arrived + 1) % RxBytes
    BY DEF Drops, Misses, ReadAsks, ReadLooks, CallReturns, Closes, Opens, receiveVars
  <2>2. got' = got \/ got' = Nothing \/ got' = rxBuffer[rxTail]
    BY DEF Drops, Misses, ReadAsks, ReadLooks, CallReturns, Closes, Opens, receiveVars
  <2>3. RXCIE' \in BOOLEAN
    BY <1>1 DEF Drops, Misses, ReadAsks, ReadLooks, CallReturns, Closes, Opens, receiveVars,
             ReceiveTypeOK
  <2>4. Nothing \in 0..RxBytes /\ rxBuffer[rxTail] \in 0..RxBytes BY <1>1, <1>6, RxFacts DEF Nothing
  <2>5. got' \in 0..RxBytes BY <1>1, <2>2, <2>4 DEF ReceiveTypeOK
  <2>6. arrived' \in 0..(RxBytes-1) BY <1>1, <1>6, <2>1 DEF ReceiveTypeOK
  <2> QED BY <1>1, <1>2, <2>3, <2>5, <2>6 DEF ReceiveTypeOK
<1>8. Calls'
  <2>1. CASE Drops(TRUE) \/ Drops(FALSE) \/ Misses BY <1>1, <1>2, <2>1 DEF Drops, Misses, Calls
  <2>2. CASE ReadAsks("read") \/ ReadAsks("peek") BY <1>1, <1>2, <1>5, <2>2 DEF ReadAsks, Calls
  <2>3. CASE ReadLooks BY <1>1, <1>2, <1>4, <2>3 DEF ReadLooks, Calls
  <2>4. CASE CallReturns \/ Closes BY <1>1, <1>2, <2>4 DEF CallReturns, Closes, Calls
  <2>5. CASE Opens BY <1>1, <1>2, <2>5 DEF Opens, Calls
  <2>6. CASE UNCHANGED receiveVars BY <1>1, <2>6 DEF receiveVars, Calls
  <2> QED BY <2>1, <2>2, <2>3, <2>4, <2>5, <2>6
<1> QED BY <1>3, <1>7, <1>8 DEF ReceiveInv

\* It begins with nothing that waits.
LEMMA InitReceives == ReceiveInit => ReceiveInv
<1> SUFFICES ASSUME ReceiveInit PROVE ReceiveInv
  OBVIOUS
<1> USE DEF ReceiveInit
<1>1. ReceiveTypeOK BY ReceiveAssumption DEF ReceiveTypeOK, Nothing
<1>2. RxWaiting = 0 BY <1>1, RxFacts DEF RingLaws, RxWaiting
<1>3. Held
  <2>1. 0..RxWaiting-1 = {} /\ Len(kept) = 0 BY <1>2
  <2> QED BY <1>2, <2>1 DEF Held
<1>4. Calls BY DEF Calls
<1> QED BY <1>1, <1>3, <1>4 DEF ReceiveInv

\* The sequence kept is that of the bytes in the ring.
LEMMA HeldMeansInOrder == ReceiveInv => ReceivedInOrder
<1> SUFFICES ASSUME ReceiveTypeOK, Held, Calls PROVE ReceivedInOrder
  BY DEF ReceiveInv
<1> DEFINE waits == [n \in 1..RxWaiting |-> rxBuffer[RxAround(rxTail + n - 1)]]
<1>1. kept \in Seq(Int) /\ Len(kept) = RxWaiting /\ RxWaiting \in Nat
  BY RxFacts DEF ReceiveTypeOK, Held
<1>2. \A n \in 1..RxWaiting : kept[n] = rxBuffer[RxAround(rxTail + n - 1)]
  <2>1. ASSUME NEW n \in 1..RxWaiting PROVE kept[n] = rxBuffer[RxAround(rxTail + n - 1)]
    <3>1. n - 1 \in 0..RxWaiting-1 /\ (n - 1) + 1 = n /\ rxTail + n - 1 = rxTail + (n - 1)
      BY <1>1, RxFacts
    <3> QED BY <3>1 DEF Held
  <2> QED BY <2>1
<1>3. kept = waits
  <2>1. kept = [n \in 1..RxWaiting |-> kept[n]] BY <1>1
  <2> QED BY <1>2, <2>1
<1>4. RxAround(rxHead - rxTail) = RxWaiting BY DEF RxAround, RxWaiting
<1> QED BY <1>3, <1>4 DEF ReceivedInOrder, Calls

\* Every step of the interrupt and of the sketch keeps it.
LEMMA AlwaysReceives == ReceiveSpec => []ReceiveInv
<1>1. ReceiveInit => ReceiveInv BY InitReceives
<1>2. ReceiveInv /\ [ReceiveNext]_receiveVars => ReceiveInv'
  BY StoreKeepsHeld, AdvanceKeepsHeld, ForgetKeepsHeld, CountKeepsHeld, OthersKeepHeld
  DEF ReceiveNext, Arrives, RxSketch
<1> QED BY <1>1, <1>2, PTL DEF ReceiveSpec

\* For a ring of any size, the sketch reads the bytes that had a place when they arrived,
\* each once and in the order of their arrival, and `available` promises no byte that a
\* read will not find, wherever the interrupt comes between the steps of a call.
THEOREM AlwaysReceivedInOrder == ReceiveSpec => []ReceivedInOrder
<1>1. ReceiveInv => ReceivedInOrder BY HeldMeansInOrder
<1> QED BY <1>1, AlwaysReceives, PTL

-----------------------------------------------------------------------------
(* The port *)

\* A step of the port is a step of one half and leaves the other alone.
LEMMA PortIsBoth == SerialSpec => SendSpec /\ ReceiveSpec
<1>1. SerialInit => SendInit /\ ReceiveInit BY DEF SerialInit
<1>2. [SerialNext]_portVars => [SendNext]_sendVars /\ [ReceiveNext]_receiveVars
  BY DEF SerialNext, portVars
<1> QED BY <1>1, <1>2, PTL DEF SerialSpec, SendSpec, ReceiveSpec

\* For rings of any size, and whatever calls of the two halves come into each other, bytes
\* leave the port in the order of their writes and are read in the order of their arrival,
\* each once.
THEOREM AlwaysBytesInOrder == SerialSpec => []BytesInOrder
<1>1. SentInOrder /\ ReceivedInOrder => BytesInOrder BY DEF BytesInOrder
<1> QED BY <1>1, PortIsBoth, AlwaysSentInOrder, AlwaysReceivedInOrder, PTL

=============================================================================
