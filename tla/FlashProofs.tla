---------------------------- MODULE FlashProofs ----------------------------
(***************************************************************************)
(* Two of the web page's flashers.  What flashStc does to an STC12, for    *)
(* images of any lengths, a part of any size, and any number of pulses,    *)
(* packets lost and power cycles; and what the flashers that never resend  *)
(* do, for any images, sizes of page, word and memory, and any number of   *)
(* attempts that each end anywhere.                                        *)
(*                                                                         *)
(* The second argument has four parts, that PagedInv joins.  KeepInv:      *)
(* only the image's cells and its pages change, of a part that has been    *)
(* identified, because every loop stays between its bounds.                *)
(* WriteProgress: the image is in the memory up to the offset at hand,     *)
(* and what is to be written yet is erased.  Compared: what has been read  *)
(* back is the image's.  EndsLast: a flash is over, and a target set       *)
(* going, in the last exchange.                                            *)
(***************************************************************************)
EXTENDS StcIsp, PagedFlash, FiniteSetTheorems, WellFoundedInduction, TLAPS

-----------------------------------------------------------------------------
(* StcIsp: the invariants *)

\* The erase command counts 256-byte sectors in one byte: it can name 254 of them, and
\* every image of an STC12 (61440 bytes at most) is padded to fewer.
Countable == \A n \in Lengths : n <= 65024

ImageChunks == Padded \div Chunk

\* The part as it was, and with the first n chunks of the image in it.
Untouched == [c \in Cells |-> "old"]
Flashed(n) ==
    [c \in Cells |-> IF c < n THEN "new" ELSE IF c < ImageChunks THEN "erased" ELSE "old"]

Early == {"pulse", "handshake", "baudtest", "switch", "reopen", "refused"}
Sending == {"handshake", "baudtest", "switch", "erase", "write", "finish"}
Stages == Early \cup Sending \cup {"run", "done", "failed"}

\* One packet is under way at most, and it is the one the host is about: nothing is
\* sent before the answer or the timeout, and a read begins when the line is empty.
OnePacket ==
    /\ stage \in Stages /\ asked \in BOOLEAN /\ length \in Lengths /\ next \in Nat
    /\ asked => stage \in Sending \cup {"pulse"}
    /\ line # <<>> => \/ asked /\ line = <<Packet(stage)>>
                      \/ stage = "done" /\ line = <<Packet("run")>>
    /\ back # <<>> => asked /\ line = <<>> /\ \E a : back = <<a>>

\* Until the erase has reached it, the part is as it was.
NotYetErased ==
    stage \in Early \/ (stage = "erase" /\ (~asked \/ line # <<>>)) =>
        next = 0 /\ chunks = Untouched

ExchangeInv == OnePacket /\ NotYetErased

\* What the flash of the part holds at every stage: an answer on its way back says that
\* the command has been carried out, an answer that does not come says nothing.
Progress ==
    /\ stage = "erase" =>
        /\ next = 0
        /\ chunks \in {Untouched, Flashed(0)}
        /\ back # <<>> => chunks = Flashed(0)
    /\ stage = "write" =>
        /\ next < ImageChunks /\ 0..next - 1 \subseteq Cells
        /\ chunks = Flashed(next) \/ (asked /\ line = <<>> /\ chunks = Flashed(next + 1))
        /\ back # <<>> => next \in Cells /\ chunks = Flashed(next + 1)
    /\ stage \in {"finish", "run", "done"} =>
        chunks = Flashed(ImageChunks) /\ 0..ImageChunks - 1 \subseteq Cells
    /\ stage = "failed" => chunks = Untouched \/ \E n \in Nat : chunks = Flashed(n)

FlashInv == ExchangeInv /\ Progress

-----------------------------------------------------------------------------
(* Lengths *)

\* An image padded to k blocks is 4k chunks, and its erase command counts 2k sectors.
LEMMA ImageSizes ==
    ASSUME length \in Lengths
    PROVE  \E k \in Nat \ {0} :
             /\ Padded = 512 * k /\ ImageChunks = 4 * k
             /\ Countable => k <= 127 /\ Blocks = 2 * k
<1> DEFINE k == (length + 511) \div 512
<1>1. length \in Nat \ {0} BY IspAssumption
<1>2. k \in Nat \ {0} /\ 512 * k <= length + 511 /\ length <= 512 * k
  BY <1>1
<1> HIDE DEF k
<1>3. Padded = 512 * k BY <1>1, <1>2 DEF Padded, Up, Block, k
<1>4. (512 * k) \div 512 = k /\ (512 * k) \div 128 = 4 * k BY <1>2
<1>5. ImageChunks = 4 * k BY <1>3, <1>4 DEF ImageChunks, Chunk
<1>6. ASSUME Countable PROVE k <= 127 /\ Blocks = 2 * k
  <2>1. length <= 65024 BY <1>6 DEF Countable
  <2>2. k <= 127 BY <2>1, <1>1, <1>2
  <2>3. (2 * k) % 256 = 2 * k BY <2>2, <1>2
  <2>4. Blocks = (k * 2) % 256 BY <1>3, <1>4 DEF Blocks, Block, Byte
  <2>5. k * 2 = 2 * k BY <1>2
  <2> QED BY <2>2, <2>3, <2>4, <2>5
<1> QED BY <1>2, <1>3, <1>5, <1>6

\* The sectors of the erase command are the chunks of the image; the address of a chunk
\* fits its two bytes; the write after the last chunk is not sent.
LEMMA ImageCounts ==
    ASSUME length \in Lengths, Countable
    PROVE  /\ ImageChunks \in Nat \ {0} /\ Blocks * (Sector \div Chunk) = ImageChunks
           /\ \A n \in Nat : n < ImageChunks => n % ((Byte * Byte) \div Chunk) = n
           /\ \A n \in Nat : n * Chunk < Padded <=> n < ImageChunks
<1>1. PICK k \in Nat \ {0} :
        Padded = 512 * k /\ ImageChunks = 4 * k /\ k <= 127 /\ Blocks = 2 * k
  BY ImageSizes
<1>2. Sector \div Chunk = 2 /\ (Byte * Byte) \div Chunk = 512 /\ Chunk = 128
  BY DEF Sector, Chunk, Byte
<1>3. ImageChunks \in Nat \ {0} /\ ImageChunks <= 508 BY <1>1
<1>4. Blocks * 2 = ImageChunks BY <1>1
<1>5. ASSUME NEW n \in Nat, n < ImageChunks PROVE n % 512 = n
  BY <1>3, <1>5
<1>6. ASSUME NEW n \in Nat PROVE n * 128 < Padded <=> n < ImageChunks
  BY <1>1
<1> QED BY <1>2, <1>3, <1>4, <1>5, <1>6

\* The cells of the part.
LEMMA CellsAre == Cells \subseteq Nat
BY DEF Cells

-----------------------------------------------------------------------------
(* One packet at a time *)

\* A queue of one.
LEMMA One ==
    \A a : /\ Head(<<a>>) = a /\ Tail(<<a>>) = <<>> /\ Append(<<>>, a) = <<a>>
           /\ <<a>> # <<>> /\ <<a>> \o <<>> = <<a>>
OBVIOUS

\* What the host does to the packet under way.
LEMMA HostExchanges == ExchangeInv /\ IspHost => ExchangeInv'
<1> SUFFICES ASSUME ExchangeInv, IspHost PROVE ExchangeInv'
  OBVIOUS
<1> USE DEF ExchangeInv, OnePacket, NotYetErased, Stages, Early, Sending, Untouched, Cells
<1>1. CASE Pulse
  <2>1. line = <<>> /\ back = <<>> BY <1>1 DEF Pulse
  <2> QED BY <1>1, <2>1, One DEF Pulse, Quit, mcu, Packet, Blocks, Padded
<1>2. CASE Say
  <2>1. line = <<>> /\ back = <<>> BY <1>2 DEF Say
  <2>2. line' = <<Packet(stage)>>' /\ back' = <<>> /\ asked'
    BY <1>2, <2>1, One DEF Say, Packet, Blocks, Padded
  <2> QED BY <1>2, <2>2, One DEF Say, mcu
<1>3. CASE Reopen
  <2>1. line = <<>> BY <1>3 DEF Reopen
  <2> QED BY <1>3, <2>1 DEF Reopen, Quit, mcu
<1>4. CASE Run
  <2>1. line = <<>> /\ back = <<>> BY <1>4 DEF Run
  <2>2. line' = <<Packet("run")>>' /\ back' = <<>>
    BY <1>4, <2>1, One DEF Run, Packet, Blocks, Padded
  <2>3. asked' = FALSE /\ stage' = "done" /\ UNCHANGED <<length, next>>
    BY <1>4 DEF Run, Quit
  <2> QED BY <2>2, <2>3
<1>5. CASE line = <<>> /\ Greeted
  <2>1. line' = <<>> /\ ~asked' BY <1>5 DEF Greeted
  <2>2. back' = <<>> BY <1>5, One DEF Greeted
  <2> QED BY <1>5, <2>1, <2>2 DEF Greeted, mcu
<1>6. CASE line = <<>> /\ Hear
  <2>1. line' = <<>> /\ ~asked' BY <1>6 DEF Hear
  <2>2. back' = <<>> BY <1>6, One DEF Hear
  <2>3. next' \in Nat /\ (stage # "write" => next' = next) BY <1>6 DEF Hear
  <2>4. stage \in Sending BY <1>6 DEF Hear
  <2>5. stage' = "failed" \/ stage' = After(stage) BY <1>6 DEF Hear
  <2>6. After(stage) \in {"baudtest", "switch", "reopen", "write", "finish", "run"}
    BY <2>4 DEF After
  <2>7. After(stage) \in {"baudtest", "switch", "reopen"} => stage \in Early
    BY <2>4 DEF After
  <2> QED BY <1>6, <2>1, <2>2, <2>3, <2>5, <2>6, <2>7 DEF Hear, mcu
<1> QED BY <1>1, <1>2, <1>3, <1>4, <1>5, <1>6 DEF IspHost

\* What the part, the line and the user do to it.
LEMMA RestExchanges == ExchangeInv /\ (Mcu \/ Lose \/ PowerOff \/ PowerOn) => ExchangeInv'
<1> SUFFICES ASSUME ExchangeInv, Mcu \/ Lose \/ PowerOff \/ PowerOn PROVE ExchangeInv'
  OBVIOUS
<1> USE DEF ExchangeInv, OnePacket, NotYetErased, Stages, Early, Sending, Untouched, Cells, host
<1>h. ASSUME NEW op, Hears(op)
      PROVE  /\ line' = <<>> /\ line # <<>> /\ back = <<>> /\ UNCHANGED host
             /\ op = (IF stage = "done" THEN "run" ELSE stage)
             /\ stage # "done" => asked
  <2>1. line # <<>> /\ line' = Tail(line) /\ Head(line).op = op /\ UNCHANGED host
    BY <1>h DEF Hears
  <2>2. line = <<Packet(IF stage = "done" THEN "run" ELSE stage)>> BY <2>1
  <2>3. op = (IF stage = "done" THEN "run" ELSE stage) BY <2>1, <2>2, One DEF Packet
  <2> QED BY <2>1, <2>2, <2>3, One
<1>s. ASSUME NEW byte, Says(byte), back = <<>>
      PROVE  back' # <<>> /\ \E a : back' = <<a>>
  BY <1>s, One DEF Says
<1>1. CASE McuGreets
  <2>1. Hears("pulse") /\ Says("status") /\ UNCHANGED chunks BY <1>1 DEF McuGreets
  <2> QED BY <1>h, <1>s, <2>1
<1>2. CASE McuAgrees
  <2>1. UNCHANGED chunks /\ Says(Answer(Head(line).op)) BY <1>2 DEF McuAgrees
  <2>2. PICK op \in {"handshake", "baudtest", "finish"} : Hears(op) BY <1>2 DEF McuAgrees
  <2> QED BY <1>h, <1>s, <2>1, <2>2
<1>3. CASE McuSwitches
  <2>1. Hears("switch") /\ Says("84") /\ UNCHANGED chunks BY <1>3 DEF McuSwitches
  <2> QED BY <1>h, <1>s, <2>1
<1>4. CASE McuErases
  <2>1. Hears("erase") /\ Says("00") BY <1>4 DEF McuErases
  <2> QED BY <1>h, <1>s, <2>1
<1>5. CASE McuWrites
  <2>1. Hears("write") /\ (Says("00") \/ UNCHANGED back) BY <1>5 DEF McuWrites
  <2> QED BY <1>h, <1>s, <2>1
<1>6. CASE McuRuns
  <2>1. Hears("run") /\ UNCHANGED <<back, chunks>> BY <1>6 DEF McuRuns
  <2> QED BY <1>h, <2>1
<1>7. CASE Unheard
  <2>1. line # <<>> /\ line' = Tail(line) /\ UNCHANGED <<host, back, chunks>>
    BY <1>7 DEF Unheard, mcu
  <2>2. line' = <<>> /\ back = <<>> BY <2>1, One
  <2> QED BY <2>1, <2>2
<1>8. CASE Lose
  <2>1. UNCHANGED <<host, chunks>> BY <1>8 DEF Lose, mcu
  <2>2. CASE line # <<>> /\ line' = Tail(line) /\ UNCHANGED back
    <3>1. line' = <<>> /\ back = <<>> BY <2>2, One
    <3> QED BY <2>1, <2>2, <3>1
  <2>3. CASE /\ back # <<>> /\ back' = <<[Head(back) EXCEPT !.ok = FALSE]>> \o Tail(back)
             /\ UNCHANGED line
    <3>1. PICK a : back = <<a>> BY <2>3
    <3>2. back' = <<[a EXCEPT !.ok = FALSE]>> BY <2>3, <3>1, One
    <3> QED BY <2>1, <2>3, <3>2, One
  <2> QED BY <1>8, <2>2, <2>3 DEF Lose
<1>9. CASE PowerOff \/ PowerOn
  BY <1>9 DEF PowerOff, PowerOn, Packet, Blocks, Padded
<1> QED BY <1>1, <1>2, <1>3, <1>4, <1>5, <1>6, <1>7, <1>8, <1>9 DEF Mcu

\* Every step keeps one packet under way, and the part as it was.
LEMMA StepExchanges == ExchangeInv /\ [IspNext]_ispVars => ExchangeInv'
<1>1. ASSUME ExchangeInv, UNCHANGED ispVars PROVE ExchangeInv'
  BY <1>1 DEF ExchangeInv, OnePacket, NotYetErased, ispVars, host, mcu, Untouched, Cells,
              Packet, Blocks, Padded
<1> QED BY <1>1, HostExchanges, RestExchanges DEF IspNext

\* It is so at the start.
LEMMA InitExchanges == IspInit => ExchangeInv
<1> SUFFICES ASSUME IspInit PROVE ExchangeInv
  OBVIOUS
<1>1. OnePacket BY DEF IspInit, OnePacket, Stages, Early
<1>2. NotYetErased BY DEF IspInit, NotYetErased, Untouched
<1> QED BY <1>1, <1>2 DEF ExchangeInv

\* A flash that ends before the part has been recognised and told to erase leaves it as it
\* was: flashStc's packets are sent one at a time and the erase after all that may refuse
\* the part, so no packet lost or late, and no power cycle, brings it forward.
THEOREM NothingErasedEarly == IspSpec => []EraseComesLast
<1>1. ExchangeInv => EraseComesLast
  BY DEF ExchangeInv, NotYetErased, EraseComesLast, Early, Untouched
<1> QED BY <1>1, InitExchanges, StepExchanges, PTL DEF IspSpec

-----------------------------------------------------------------------------
(* What is in the part *)

\* The image is the same throughout.
LEMMA SameImage ==
    ASSUME UNCHANGED length
    PROVE  /\ Padded' = Padded /\ ImageChunks' = ImageChunks
           /\ Cells' = Cells /\ Untouched' = Untouched
           /\ \A n : Flashed(n)' = Flashed(n)
BY DEF Padded, ImageChunks, Cells, Untouched, Flashed

\* The host goes on only when the answer says that the command has been carried out.
LEMMA HostProgresses == ASSUME Countable PROVE FlashInv /\ IspHost => Progress'
<1> SUFFICES ASSUME FlashInv, IspHost PROVE Progress'
  OBVIOUS
<1> USE DEF FlashInv, ExchangeInv
<1>a. UNCHANGED <<length, chunks>>
  BY DEF IspHost, Pulse, Say, Reopen, Run, Greeted, Hear, mcu
<1>b. /\ ImageChunks' = ImageChunks /\ Cells' = Cells /\ Untouched' = Untouched
      /\ \A n : Flashed(n)' = Flashed(n)
  BY <1>a, SameImage
<1>c. /\ length \in Lengths /\ next \in Nat /\ stage \in Stages
      /\ stage \in Early => chunks = Untouched /\ next = 0
      /\ line # <<>> \/ back # <<>> => asked \/ stage = "done"
  BY DEF OnePacket, NotYetErased
<1>d. /\ ImageChunks \in Nat \ {0}
      /\ \A n \in Nat : n * Chunk < Padded <=> n < ImageChunks
  BY <1>c, ImageCounts
<1>1. CASE Pulse
  <2>1. stage' \in {"pulse", "failed"} /\ chunks = Untouched
    BY <1>1, <1>c DEF Pulse, Quit, Early
  <2> QED BY <2>1, <1>a, <1>b DEF Progress
<1>2. CASE Say
  <2>1. stage' = stage /\ next' = next /\ back' = <<>> /\ ~asked
    BY <1>2, <1>c DEF Say, Sending
  <2> QED BY <2>1, <1>a, <1>b DEF Progress
<1>3. CASE Reopen
  <2>1. /\ stage' \in {"refused", "erase"} /\ back' = <<>> /\ next' = 0
        /\ chunks = Untouched
    BY <1>3, <1>c DEF Reopen, Quit, Early
  <2> QED BY <2>1, <1>a, <1>b DEF Progress
<1>4. CASE Run
  <2>1. stage = "run" /\ stage' = "done" BY <1>4 DEF Run, Quit
  <2> QED BY <2>1, <1>a, <1>b DEF Progress
<1>5. CASE line = <<>> /\ Greeted
  <2>1. stage' \in {"pulse", "failed", "handshake"} /\ chunks = Untouched
    BY <1>5, <1>c DEF Greeted, Early
  <2> QED BY <2>1, <1>a, <1>b DEF Progress
<1>6. CASE line = <<>> /\ Hear
  <2>1. stage \in Sending /\ back' = <<>> /\ asked' = FALSE
    BY <1>6, One DEF Hear, OnePacket
  <2>2. CASE stage' = "failed" /\ next' = next
    <3>1. chunks = Untouched \/ \E n \in Nat : chunks = Flashed(n)
      <4>1. CASE stage \in {"erase", "write", "finish"}
        BY <4>1, <1>c, <1>d DEF Progress
      <4> QED BY <4>1, <2>1, <1>c DEF Sending, Early
    <3> QED BY <3>1, <2>2, <1>a, <1>b DEF Progress
  <2>3. CASE /\ back # <<>> /\ stage' = After(stage)
             /\ next' = IF stage = "write" THEN next + 1 ELSE next
    <3>1. CASE stage \in {"handshake", "baudtest", "switch"}
      <4>1. stage' \in {"baudtest", "switch", "reopen"} BY <3>1, <2>3 DEF After
      <4> QED BY <4>1 DEF Progress
    <3>2. CASE stage = "erase"
      <4>1. stage' = "write" /\ next' = 0 /\ chunks = Flashed(0) BY <3>2, <2>3 DEF After, Progress
      <4> QED BY <4>1, <2>1, <1>a, <1>b, <1>d DEF Progress
    <3>3. CASE stage = "write"
      <4>1. /\ next' = next + 1 /\ chunks = Flashed(next + 1)
            /\ next < ImageChunks /\ 0..next \subseteq Cells
        BY <3>3, <2>3, <1>c DEF Progress
      <4>2. CASE next + 1 < ImageChunks
        <5>1. stage' = "write" BY <4>2, <3>3, <2>3, <1>c, <1>d DEF After
        <5>2. 0..next' - 1 \subseteq Cells BY <4>1, <1>c
        <5> QED BY <5>1, <5>2, <4>1, <4>2, <2>1, <1>a, <1>b DEF Progress
      <4>3. CASE ~(next + 1 < ImageChunks)
        <5>1. stage' = "finish" BY <4>3, <3>3, <2>3, <1>c, <1>d DEF After
        <5>2. next + 1 = ImageChunks BY <4>1, <4>3, <1>c, <1>d
        <5>3. 0..ImageChunks - 1 \subseteq Cells BY <4>1, <5>2, <1>c
        <5> QED BY <5>1, <5>2, <5>3, <4>1, <1>a, <1>b DEF Progress
      <4> QED BY <4>2, <4>3
    <3>4. CASE stage = "finish"
      <4>1. stage' = "run" BY <3>4, <2>3 DEF After
      <4> QED BY <4>1, <3>4, <1>a, <1>b DEF Progress
    <3> QED BY <3>1, <3>2, <3>3, <3>4, <2>1 DEF Sending
  <2> QED BY <1>6, <2>2, <2>3 DEF Hear
<1> QED BY <1>1, <1>2, <1>3, <1>4, <1>5, <1>6 DEF IspHost

\* The part answers an erase when the image's chunks are blank, and a write when its chunk
\* is programmed.
LEMMA PartProgresses ==
    ASSUME Countable
    PROVE  FlashInv /\ (Mcu \/ Lose \/ PowerOff \/ PowerOn) => Progress'
<1> SUFFICES ASSUME FlashInv, Mcu \/ Lose \/ PowerOff \/ PowerOn PROVE Progress'
  OBVIOUS
<1> USE DEF FlashInv, ExchangeInv
<1>a. UNCHANGED host
  BY DEF Mcu, McuGreets, McuAgrees, McuSwitches, McuErases, McuWrites, McuRuns, Unheard,
         Hears, Lose, PowerOff, PowerOn
<1>b. /\ ImageChunks' = ImageChunks /\ Cells' = Cells /\ Untouched' = Untouched
      /\ \A n : Flashed(n)' = Flashed(n)
      /\ stage' = stage /\ next' = next /\ asked' = asked
  BY <1>a, SameImage DEF host
<1>c. length \in Lengths /\ next \in Nat BY DEF OnePacket
<1>d. /\ ImageChunks \in Nat \ {0} /\ Blocks * (Sector \div Chunk) = ImageChunks
      /\ \A n \in Nat : n < ImageChunks => n % ((Byte * Byte) \div Chunk) = n
  BY <1>c, ImageCounts
<1>e. \A c \in Cells : c \in Nat BY CellsAre
<1>1. CASE McuErases
  <2>1. stage = "erase" /\ line = <<Packet("erase")>> /\ line # <<>>
    BY <1>1, One DEF McuErases, Hears, OnePacket, Packet
  <2>2. Head(line).blocks = Blocks BY <2>1, One DEF Packet
  <2>3. chunks = Untouched BY <2>1 DEF NotYetErased
  <2>4. chunks' = [c \in DOMAIN chunks |-> IF c < ImageChunks THEN "erased" ELSE chunks[c]]
    BY <1>1, <2>2, <1>d DEF McuErases
  <2>5. chunks' = Flashed(0) BY <2>3, <2>4, <1>e DEF Untouched, Flashed
  <2> QED BY <2>1, <2>5, <1>b DEF Progress
<1>2. CASE McuWrites
  <2>1. stage = "write" /\ line = <<Packet("write")>> /\ line # <<>> /\ line' = <<>> /\ asked
    <3>1. line # <<>> /\ Head(line).op = "write" /\ line' = Tail(line)
      BY <1>2 DEF McuWrites, Hears
    <3>2. stage = "write" /\ line = <<Packet("write")>> BY <3>1, One DEF OnePacket, Packet
    <3>3. asked BY <3>1, <3>2 DEF OnePacket
    <3> QED BY <3>1, <3>2, <3>3, One
  <2>2. next < ImageChunks /\ chunks = Flashed(next) /\ DOMAIN chunks = Cells
    <3>1. next < ImageChunks /\ chunks = Flashed(next) BY <2>1, Zenon DEF Progress
    <3> QED BY <3>1 DEF Flashed
  <2>3. Head(line).at = next BY <2>1, <2>2, <1>c, <1>d, One DEF Packet
  <2>4. CASE next \in Cells
    <3>1. chunks' = [chunks EXCEPT ![next] = IF @ = "erased" THEN "new" ELSE "spoilt"]
      BY <1>2, <2>2, <2>3, <2>4 DEF McuWrites
    <3>2. chunks[next] = "erased" BY <2>2, <2>4, <1>c DEF Flashed
    <3>3. chunks' = [c \in Cells |-> IF c = next THEN "new" ELSE chunks[c]]
      BY <3>1, <3>2, <2>2, <2>4
    <3>4. ASSUME NEW c \in Cells
          PROVE  (IF c = next THEN "new" ELSE chunks[c])
                   = IF c < next + 1 THEN "new" ELSE IF c < ImageChunks THEN "erased" ELSE "old"
      BY <2>2, <1>c, <1>d, <1>e DEF Flashed
    <3>5. chunks' = Flashed(next + 1) BY <3>3, <3>4 DEF Flashed
    <3> QED BY <3>5, <2>1, <2>2, <2>4, <1>b DEF Progress
  <2>5. CASE next \notin Cells
    <3>1. chunks' = chunks /\ back' = back
      BY <1>2, <2>2, <2>3, <2>5 DEF McuWrites
    <3>2. back = <<>> BY <2>1 DEF OnePacket
    <3> QED BY <3>1, <3>2, <2>1, <2>2, <1>b DEF Progress
  <2> QED BY <2>4, <2>5
<1>3. CASE McuGreets \/ McuAgrees \/ McuSwitches \/ McuRuns
  <2>1. chunks' = chunks /\ line # <<>>
    BY <1>3 DEF McuGreets, McuAgrees, McuSwitches, McuRuns, Hears
  <2>2. stage \notin {"erase", "write"}
    BY <1>3, One DEF McuGreets, McuAgrees, McuSwitches, McuRuns, Hears, OnePacket, Packet
  <2> QED BY <2>1, <2>2, <1>b DEF Progress
<1>4. CASE Unheard \/ Lose \/ PowerOff \/ PowerOn
  <2>1. chunks' = chunks /\ (line = <<>> => line' = <<>>) /\ (back = <<>> => back' = <<>>)
    BY <1>4 DEF Unheard, Lose, PowerOff, PowerOn, mcu
  <2> QED BY <2>1, <1>b DEF Progress
<1> QED BY <1>1, <1>2, <1>3, <1>4 DEF Mcu

\* Every step keeps what is known of the part.
LEMMA StepProgresses == ASSUME Countable PROVE FlashInv /\ [IspNext]_ispVars => FlashInv'
<1>1. ASSUME FlashInv, UNCHANGED ispVars PROVE FlashInv'
  <2>1. ExchangeInv' BY <1>1, StepExchanges DEF FlashInv
  <2>2. UNCHANGED <<length, stage, asked, next, line, back, chunks>>
    BY <1>1 DEF ispVars, host, mcu
  <2> QED BY <1>1, <2>1, <2>2, SameImage DEF FlashInv, Progress
<1> QED BY <1>1, StepExchanges, HostProgresses, PartProgresses DEF IspNext, FlashInv

\* It is known at the start.
LEMMA InitProgresses == IspInit => FlashInv
BY InitExchanges DEF IspInit, FlashInv, Progress

\* No chunk is written that the erase before it has not erased, for every image whose
\* sectors the erase command can count: the erase counts the padded image in its own unit,
\* and every write waits for the answer to the one before.
THEOREM AlwaysWritesErased == Countable /\ IspSpec => []WritesOnlyErased
<1>1. FlashInv => WritesOnlyErased
  <2> SUFFICES ASSUME FlashInv PROVE WritesOnlyErased
    OBVIOUS
  <2>1. chunks = Untouched \/ \E n : chunks = Flashed(n)
    BY DEF FlashInv, ExchangeInv, OnePacket, NotYetErased, Progress, Stages, Sending, Early
  <2> QED BY <2>1 DEF WritesOnlyErased, Untouched, Flashed
<1>2. CASE Countable BY <1>1, <1>2, InitProgresses, StepProgresses, PTL DEF IspSpec
<1> QED BY <1>2

\* flashStc returns only when every chunk of the padded image is in the part, and nothing
\* else: every write was answered, and a write that is answered has been carried out.
THEOREM DoneMeansAllThere == Countable /\ IspSpec => []DoneMeansFlashed
<1>1. Countable /\ FlashInv => DoneMeansFlashed
  <2> SUFFICES ASSUME Countable, FlashInv, stage = "done"
               PROVE  /\ 0..ImageChunks - 1 \subseteq DOMAIN chunks
                      /\ \A c \in DOMAIN chunks : chunks[c] = "new" <=> c * Chunk < Padded
    BY DEF DoneMeansFlashed, ImageChunks
  <2>1. chunks = Flashed(ImageChunks) /\ 0..ImageChunks - 1 \subseteq Cells
    BY DEF FlashInv, Progress
  <2>2. DOMAIN chunks = Cells BY <2>1 DEF Flashed
  <2>3. length \in Lengths BY DEF FlashInv, ExchangeInv, OnePacket
  <2>4. ASSUME NEW c \in Cells PROVE chunks[c] = "new" <=> c * Chunk < Padded
    <3>1. c \in Nat BY CellsAre
    <3>2. c * Chunk < Padded <=> c < ImageChunks BY <3>1, <2>3, ImageCounts
    <3> QED BY <2>1, <3>2 DEF Flashed
  <2> QED BY <2>1, <2>2, <2>4
<1>2. CASE Countable BY <1>1, <1>2, InitProgresses, StepProgresses, PTL DEF IspSpec
<1> QED BY <1>2

-----------------------------------------------------------------------------
(* PagedFlash: the invariants *)

\* A USBasp's address reaches all of the part, as that of every part up to 128 KB.
WithinReach == PartSize <= IspReach

\* where each flasher identifies the part, and where it writes
IdentifyAt == IF tool = "eeprom" THEN 1 ELSE 3
WriteAt == CASE tool = "eeprom" -> 2 [] tool = "mega" -> 3 [] tool = "stm32" -> 4 [] OTHER -> 5
Erasing == {"usbasp", "stm32", "swd", "daplink"}
Identifying == {"eeprom", "usbasp", "daplink"}

\* what the offsets of its writes are multiples of
Unit == IF tool \in {"swd", "daplink"} THEN Word ELSE Page

Job ==
    /\ tool \in Tools /\ image \in Images /\ chip \in {"right", "other"} /\ slow \in Slow
    /\ IF tool = "eeprom" THEN base \in Bases ELSE base = 0

PagedTypeOK ==
    /\ Job /\ bad \subseteq 0..Length - 1
    /\ at \in 1..Len(Exchanges) /\ offset \in Nat /\ tries \in Nat /\ runs \in Nat
    /\ mem \in [0..Space - 1 -> Int] /\ fault \in BOOLEAN
    /\ target \in {"app", "held", "started"} /\ result \in {"none", "done", "error", "silent"}

\* Whoever is past the identification has the right part, and an image that fits.
IdentifiedAt(i) == tool \in Identifying /\ i > IdentifyAt => chip = "right" /\ Fits

\* The loops run over what they are to run over.
PlacedAt(i, o) ==
    /\ Exchanges[i] = "write" =>
        o \in First..End - 1 /\ (tool # "eeprom" => o % Unit = 0)
    /\ Exchanges[i] = "pages" => o \in RoundDown(First, Page)..End - 1 /\ o % Page = 0
    /\ Exchanges[i] = "verify" => o \in 0..Length - 1 /\ o % Page = 0

\* A cell may hold v: it is the image's or its pages', or has not been written.
Rest(c, v) ==
    v = Old \/ CASE tool = "eeprom" -> c - base \in 0..Length - 1
                 [] tool = "mega" -> c < RoundUp(Length, Page)
                 [] tool = "daplink" -> RoundDown(c, Page) \in RoundDown(First, Page)..End - 1
                 [] OTHER -> c < End \/ v = Blank
KeptIn(m) ==
    /\ \A c \in 0..Space - 1 : Rest(c, m[c])
    /\ chip = "other" /\ tool \in Identifying => \A c \in 0..Space - 1 : m[c] = Old

KeepInv ==
    /\ PagedTypeOK /\ IdentifiedAt(at) /\ KeptIn(mem)
    /\ result = "none" => PlacedAt(at, offset)

\* The image up to an offset; and the cells from one on, that are to take what is left.
WrittenTo(m, n) == \A a \in First..n - 1 : m[base + a] = DataAt(a)
Ours(c) == RoundDown(c, Page) \in RoundDown(First, Page)..End - 1
ErasedFrom(m, n) ==
    \A c \in 0..Space - 1 : n <= c /\ (tool = "daplink" => Ours(c)) => m[c] = Blank
PagesErased(m, n) ==
    \A c \in 0..Space - 1 : RoundDown(c, Page) \in RoundDown(First, Page)..n - 1 => m[c] = Blank

\* How far a flash has come, that no cell and no address spoils.
Unspoilt == (bad = {} \/ tool = "eeprom") /\ (tool = "usbasp" => WithinReach)
ProgressAt(i, o, m) ==
    /\ Exchanges[i] = "pages" => PagesErased(m, o)
    /\ i = WriteAt => WrittenTo(m, o) /\ (tool \in Erasing => ErasedFrom(m, o))
WriteProgress ==
    Unspoilt =>
        /\ result = "none" => ProgressAt(at, offset, mem)
        /\ at > WriteAt => WrittenTo(mem, End)

\* What has been read back is the image's.
ReadsBack == tool = "mega" \/ (tool = "usbasp" /\ WithinReach)
Compared ==
    ReadsBack =>
        /\ result = "none" /\ Exchanges[at] = "verify" => WrittenTo(mem, offset)
        /\ at > 6 \/ result = "done" => WrittenTo(mem, Length)

\* A flash is over, and a target set going, in the last exchange.
EndsLast ==
    /\ result = "done" => at = Len(Exchanges)
    /\ target = "started" => at = Len(Exchanges) /\ tool \in {"stm32", "swd", "daplink"}

PagedInv == KeepInv /\ WriteProgress /\ Compared /\ EndsLast

-----------------------------------------------------------------------------
(* Multiples *)

\* A number is a multiple and a remainder, in one way.
LEMMA Remainders ==
    ASSUME NEW u \in Nat \ {0}, NEW n \in Int
    PROVE  /\ (n \div u) \in Int /\ (n % u) \in 0..(u - 1)
           /\ n = (u * (n \div u)) + (n % u)
OBVIOUS

\* and so
LEMMA MultipleOf ==
    ASSUME NEW u \in Nat \ {0}, NEW k \in Int
    PROVE  (u * k) % u = 0
<1> DEFINE q == (u * k) \div u  r == (u * k) % u
<1>1. u * k \in Int
    OBVIOUS
<1>2. q \in Int /\ r \in 0..(u - 1) /\ u * k = (u * q) + r
    BY <1>1, Remainders
<1> HIDE DEF q, r
<1>3. k - q \in Int /\ u * (k - q) = r
    BY <1>2
<1>4. k - q = 0
    <2>1. CASE k - q >= 1
        <3>1. ((k - q) - 1) \in Nat /\ u * ((k - q) - 1) \in Nat
            BY <1>3, <2>1
        <3>2. u * ((k - q) - 1) = (u * (k - q)) - u
            BY <1>3
        <3> QED BY <1>2, <1>3, <3>1, <3>2
    <2>2. CASE k - q <= -1
        <3>1. ((0 - (k - q)) - 1) \in Nat /\ u * ((0 - (k - q)) - 1) \in Nat
            BY <1>3, <2>2
        <3>2. u * ((0 - (k - q)) - 1) = (0 - (u * (k - q))) - u
            BY <1>3
        <3> QED BY <1>2, <1>3, <3>1, <3>2
    <2> QED BY <1>3, <2>1, <2>2
<1>5. r = 0
    BY <1>3, <1>4
<1> QED BY <1>5 DEF r

\* One multiple and the next.
LEMMA NextMultiple ==
    ASSUME NEW u \in Nat \ {0}, NEW x \in Nat, NEW y \in Nat, x % u = 0, y % u = 0
    PROVE  /\ (x + u) % u = 0
           /\ x < y => x + u <= y
<1> DEFINE p == x \div u  q == y \div u
<1>1. p \in Int /\ q \in Int /\ x = u * p /\ y = u * q
    BY Remainders
<1> HIDE DEF p, q
<1>2. (x + u) % u = 0
    <2>1. x + u = u * (p + 1) /\ p + 1 \in Int
        BY <1>1
    <2> QED BY <2>1, MultipleOf
<1>3. ASSUME x < y PROVE x + u <= y
    <2>1. u * (q - p) = y - x /\ q - p \in Int
        BY <1>1
    <2>2. q - p >= 1
        <3>1. SUFFICES ASSUME q - p <= 0 PROVE FALSE
            BY <1>1
        <3>2. p - q \in Nat /\ u * (p - q) \in Nat /\ u * (p - q) = x - y
            BY <1>1, <3>1
        <3> QED BY <1>3, <3>2
    <2>3. (q - p) - 1 \in Nat /\ u * ((q - p) - 1) \in Nat /\ u * ((q - p) - 1) = (y - x) - u
        BY <1>1, <2>1, <2>2
    <2> QED BY <2>3
<1> QED BY <1>2, <1>3

\* RoundDown gives the multiple at or before a number.
LEMMA DownIs ==
    ASSUME NEW u \in Nat \ {0}, NEW a \in Nat
    PROVE  /\ RoundDown(a, u) \in Nat /\ RoundDown(a, u) <= a /\ a < RoundDown(a, u) + u
           /\ RoundDown(a, u) % u = 0
           /\ \A x \in Nat : x % u = 0 /\ x <= a => x <= RoundDown(a, u)
           /\ \A x \in Nat : x % u = 0 /\ x <= a /\ a < x + u =>
                  RoundDown(a, u) = x /\ a % u = a - x
<1> DEFINE q == a \div u  r == a % u
<1>1. q \in Int /\ r \in 0..(u - 1) /\ a = (u * q) + r /\ RoundDown(a, u) = a - r
    BY Remainders DEF RoundDown
<1> HIDE DEF q, r
<1>2. RoundDown(a, u) = u * q
    BY <1>1
<1>3. q >= 0
    <2>1. SUFFICES ASSUME q <= -1 PROVE FALSE
        BY <1>1
    <2>2. (-1) - q \in Nat /\ u * ((-1) - q) \in Nat /\ u * ((-1) - q) = (0 - u) - (u * q)
        BY <1>1, <2>1
    <2> QED BY <1>1, <2>2
<1>4. u * q \in Nat
    BY <1>1, <1>3
<1>5. RoundDown(a, u) \in Nat /\ RoundDown(a, u) <= a /\ a < RoundDown(a, u) + u
    BY <1>1, <1>2, <1>4
<1>6. RoundDown(a, u) % u = 0
    BY <1>1, <1>2, MultipleOf
<1>7. ASSUME NEW x \in Nat, x % u = 0, x <= a PROVE x <= RoundDown(a, u)
    BY <1>5, <1>6, <1>7, NextMultiple
<1>8. ASSUME NEW x \in Nat, x % u = 0, x <= a, a < x + u PROVE RoundDown(a, u) = x /\ a % u = a - x
    <2>1. RoundDown(a, u) = x
        BY <1>5, <1>6, <1>7, <1>8, NextMultiple
    <2> QED BY <1>1, <2>1 DEF r
<1> QED BY <1>5, <1>6, <1>7, <1>8

\* It takes the remainder away.
LEMMA RemainderIs ==
    ASSUME NEW u \in Nat \ {0}, NEW a \in Nat
    PROVE  /\ (a % u) \in 0..(u - 1) /\ (a % u) \in 0..a /\ (a < u => a % u = a)
           /\ RoundDown(a, u) = a - (a % u)
<1>1. (a % u) \in 0..(u - 1)
    BY Remainders
<1>2. RoundDown(a, u) = a - (a % u)
    BY DEF RoundDown
<1>3. RoundDown(a, u) \in Nat
    BY DownIs
<1>4. a < u => a % u = a
    OBVIOUS
<1> DEFINE r == a % u  d == RoundDown(a, u)
<1>5. r \in 0..(u - 1) /\ d \in Nat /\ d = a - r
    BY <1>1, <1>2, <1>3
<1> HIDE DEF r, d
<1>6. r \in 0..a
    BY <1>5
<1> QED BY <1>1, <1>2, <1>4, <1>6 DEF r

\* RoundUp, the multiple at or after it.
LEMMA UpIs ==
    ASSUME NEW u \in Nat \ {0}, NEW a \in Nat
    PROVE  /\ RoundUp(a, u) \in Nat /\ a <= RoundUp(a, u) /\ RoundUp(a, u) < a + u
           /\ RoundUp(a, u) % u = 0
           /\ \A y \in Nat : y % u = 0 /\ a <= y => RoundUp(a, u) <= y
           /\ a % u = 0 => RoundUp(a, u) = a
<1>1. a + u - 1 \in Nat
    OBVIOUS
<1>2. /\ RoundUp(a, u) \in Nat /\ RoundUp(a, u) <= a + u - 1 /\ a + u - 1 < RoundUp(a, u) + u
      /\ RoundUp(a, u) % u = 0
    BY <1>1, DownIs DEF RoundUp
<1>3. ASSUME NEW y \in Nat, y % u = 0, a <= y PROVE RoundUp(a, u) <= y
    BY <1>2, <1>3, NextMultiple
<1> QED BY <1>2, <1>3

\* A multiple of a page is one of a word.
LEMMA PagesAreWords ==
    ASSUME NEW x \in Nat, x % Page = 0
    PROVE  x % Word = 0
<1>1. Word \in Nat \ {0} /\ Page \in Nat \ {0} /\ Page % Word = 0
    BY FlashAssumption
<1> DEFINE p == Page \div Word  q == x \div Page
<1>2. p \in Int /\ q \in Int /\ Page = Word * p /\ x = Page * q
    BY <1>1, Remainders
<1> HIDE DEF p, q
<1>3. p * q \in Int /\ x = Word * (p * q)
    BY <1>1, <1>2
<1> QED BY <1>1, <1>3, MultipleOf

-----------------------------------------------------------------------------
(* Images *)

\* A set of naturals has a least member, and a greatest if it is bounded.
LEMMA ExtremesAre ==
    ASSUME NEW S \in SUBSET Nat, S # {}
    PROVE  /\ Min(S) \in S /\ \A y \in S : Min(S) <= y
           /\ \A n \in Nat : (\A y \in S : y <= n) => Max(S) \in S /\ \A y \in S : Max(S) >= y
<1>1. ASSUME NEW T \in SUBSET Nat, T # {} PROVE \E m \in T : \A k \in T : m <= k
    <2>1. IsWellFoundedOn(OpToRel(<, Nat), Nat) BY NatLessThanWellFounded
    <2>2. PICK m \in T : \A k \in T : ~ (<<k, m>> \in OpToRel(<, Nat)) BY <1>1, <2>1, WFMin
    <2>3. \A k \in T : ~(k < m) BY <2>2 DEF OpToRel
    <2> QED BY <2>3
<1>2. Min(S) \in S /\ \A y \in S : Min(S) <= y
    BY <1>1 DEF Min
<1>3. ASSUME NEW n \in Nat, \A y \in S : y <= n
      PROVE  Max(S) \in S /\ \A y \in S : Max(S) >= y
    <2> DEFINE T == {n - y : y \in S}
    <2>1. T \in SUBSET Nat /\ T # {}
        <3>1. ASSUME NEW y \in S PROVE n - y \in Nat
            <4>1. y \in Nat /\ y <= n
                BY <1>3
            <4> QED BY <4>1
        <3> QED BY <3>1
    <2> HIDE DEF T
    <2>2. PICK m \in T : \A k \in T : m <= k
        BY <1>1, <2>1
    <2>3. PICK x \in S : m = n - x
        BY <2>2 DEF T
    <2>4. ASSUME NEW y \in S PROVE x >= y
        <3>1. n - y \in T /\ x \in Nat /\ y \in Nat
            BY DEF T
        <3>2. m <= n - y
            BY <2>2, <3>1
        <3> QED BY <2>3, <3>1, <3>2
    <2>5. \E z \in S : \A y \in S : z >= y
        BY <2>4
    <2> QED BY <2>5 DEF Max
<1> QED BY <1>2, <1>3

\* The smaller of two numbers.
LEMMA MinOfTwo == \A a, b \in Int : Min({a, b}) = IF a <= b THEN a ELSE b
BY DEF Min

\* Only an EEPROM is written from elsewhere than 0.
LEMMA BaseIs ==
    ASSUME Job
    PROVE  base \in Nat /\ (tool # "eeprom" => base = 0)
<1>1. CASE tool = "eeprom"
    <2>1. base \in Bases
        BY <1>1 DEF Job
    <2>2. base \in Nat
        BY <2>1, FlashAssumption
    <2> QED BY <1>1, <2>2
<1>2. CASE tool # "eeprom"
    BY <1>2 DEF Job
<1> QED BY <1>1, <1>2

\* An image has a first and a last byte, and no data after it.
LEMMA ImageIs ==
    ASSUME Job
    PROVE  /\ Length \in Nat \ {0} /\ Length <= Space /\ Max(image) \in image
           /\ image \subseteq 0..Length - 1 /\ image # {} /\ image \subseteq Nat
           /\ \A a \in Nat : DataAt(a) \in Nat /\ (a >= Length => DataAt(a) = Blank)
<1>1. image # {} /\ image \subseteq 0..Space - 1 /\ Space \in Nat
    BY FlashAssumption DEF Job
<1>2. Max(image) \in image /\ \A y \in image : Max(image) >= y
    <2>1. image \in SUBSET Nat /\ Space - 1 \in Nat /\ \A y \in image : y <= Space - 1
        <3>1. \A y \in image : y \in Nat /\ y <= Space - 1
            BY <1>1
        <3>2. PICK y \in image : TRUE
            BY <1>1
        <3>3. y \in Nat /\ y <= Space - 1
            BY <3>1
        <3> QED BY <1>1, <3>1, <3>3
    <2>2. \A n \in Nat : (\A y \in image : y <= n) =>
              Max(image) \in image /\ \A y \in image : Max(image) >= y
        BY <1>1, <2>1, ExtremesAre
    <2> DEFINE n == Space - 1
    <2>3. n \in Nat /\ \A y \in image : y <= n
        BY <2>1
    <2> HIDE DEF n
    <2> QED BY <2>2, <2>3
<1>3. Length \in Nat \ {0} /\ Length <= Space /\ image \subseteq 0..Length - 1
    <2>1. Max(image) \in 0..Space - 1
        BY <1>1, <1>2
    <2>2. ASSUME NEW y \in image PROVE y \in 0..Length - 1
        <3>1. y \in 0..Space - 1 /\ Max(image) >= y
            BY <1>1, <1>2
        <3> QED BY <1>1, <2>1, <3>1 DEF Length
    <2> QED BY <1>1, <2>1, <2>2 DEF Length
<1>4. ASSUME NEW a \in Nat PROVE DataAt(a) \in Nat /\ (a >= Length => DataAt(a) = Blank)
    BY <1>3 DEF DataAt, Blank
<1> QED BY <1>1, <1>2, <1>3, <1>4

\* where the writes begin
LEMMA FirstIs ==
    ASSUME Job
    PROVE  /\ First \in Nat /\ First < Length /\ First % Word = 0
           /\ tool # "daplink" => First = 0
<1>1. Word \in Nat \ {0}
    BY FlashAssumption
<1>2. CASE tool = "daplink"
    <2>1. Min(image) \in Nat /\ Min(image) < Length
        <3>1. Min(image) \in image
            BY ImageIs, ExtremesAre
        <3> QED BY <3>1, ImageIs
    <2>2. First \in Nat /\ First <= Min(image) /\ First % Word = 0
        BY <1>1, <1>2, <2>1, DownIs DEF First
    <2> QED BY <1>2, <2>1, <2>2, ImageIs
<1>3. CASE tool # "daplink"
    <2>1. Word * 0 = 0
        BY <1>1
    <2>2. 0 % Word = 0
        BY <1>1, <2>1, MultipleOf
    <2> QED BY <1>3, <2>2, ImageIs DEF First
<1> QED BY <1>2, <1>3

\* and where they end
LEMMA EndIs ==
    ASSUME Job
    PROVE  /\ End \in Nat /\ End <= Space /\ (Fits => First < End)
           /\ tool \in {"stm32", "swd"} => End % Word = 0 /\ Length <= End
           /\ tool \in {"eeprom", "mega", "usbasp"} => End = Length
           /\ tool = "daplink" => End <= Length /\ End <= CodeEnd
<1>1. /\ Word \in Nat \ {0} /\ Space \in Nat /\ Space % Word = 0 /\ CodeEnd \in Nat /\ CodeEnd <= Space
      /\ Tools \subseteq {"eeprom", "mega", "usbasp", "stm32", "swd", "daplink"} /\ tool \in Tools
    BY FlashAssumption DEF Job
<1>2. Length \in Nat \ {0} /\ Length <= Space /\ First \in Nat /\ First < Length
    BY ImageIs, FirstIs
<1>3. CASE tool \in {"stm32", "swd"}
    <2>1. End = RoundUp(Length, Word)
        BY <1>3 DEF End
    <2>2. End \in Nat /\ Length <= End /\ End % Word = 0 /\ End <= Space
        BY <1>1, <1>2, <2>1, UpIs
    <2> QED BY <1>2, <1>3, <2>2
<1>4. CASE tool \in {"eeprom", "mega", "usbasp"}
    BY <1>2, <1>4 DEF End
<1>5. CASE tool = "daplink"
    <2>1. End = Min({Length, CodeEnd})
        BY <1>5 DEF End
    <2>2. End = IF Length <= CodeEnd THEN Length ELSE CodeEnd
        BY <1>1, <1>2, <2>1, MinOfTwo
    <2> QED BY <1>1, <1>2, <1>5, <2>2 DEF Fits
<1> QED BY <1>1, <1>3, <1>4, <1>5

-----------------------------------------------------------------------------
(* The sequences of exchanges *)

\* Their lengths.
LEMMA Lengths6 ==
    ASSUME tool \in {"eeprom", "mega", "usbasp", "stm32", "swd", "daplink"}
    PROVE  Len(Exchanges) = CASE tool = "eeprom" -> 3 [] tool = "mega" -> 7 [] tool = "stm32" -> 5 [] OTHER -> 6
BY DEF Exchanges, Eeprom, Mega, Usbasp, Stm32, Swd, Daplink

\* There are some.
LEMMA SomeExchanges ==
    ASSUME tool \in {"eeprom", "mega", "usbasp", "stm32", "swd", "daplink"}
    PROVE  Len(Exchanges) \in 3..7 /\ 1 \in 1..Len(Exchanges)
<1>1. Len(Exchanges) = 3 \/ Len(Exchanges) = 7 \/ Len(Exchanges) = 5 \/ Len(Exchanges) = 6
    BY Lengths6
<1> QED BY <1>1

\* What comes where.
LEMMA Phases ==
    ASSUME tool \in {"eeprom", "mega", "usbasp", "stm32", "swd", "daplink"}, NEW i \in 1..Len(Exchanges)
    PROVE  /\ Exchanges[i] = "write" <=> i = WriteAt
           /\ Exchanges[i] = "erase" <=> i = WriteAt - 1 /\ tool \in {"usbasp", "stm32", "swd"}
           /\ Exchanges[i] = "pages" <=> i = WriteAt - 1 /\ tool = "daplink"
           /\ Exchanges[i] = "verify" <=> i = 6 /\ tool \in {"mega", "usbasp"}
           /\ Exchanges[i] = "identify" <=> i = IdentifyAt /\ tool \in Identifying
           /\ Exchanges[i] = "start" <=> i = Len(Exchanges) /\ tool \in {"stm32", "swd", "daplink"}
<1>1. CASE tool = "eeprom"
    <2>1. Exchanges = <<"identify", "write", "ask">> /\ Len(Exchanges) = 3
        BY <1>1, Lengths6 DEF Exchanges, Eeprom
    <2>2. i \in 1..3
        BY <2>1
    <2>3. i = 1 \/ i = 2 \/ i = 3
        BY <2>2
    <2> QED BY <1>1, <2>1, <2>3 DEF WriteAt, IdentifyAt, Identifying
<1>2. CASE tool = "mega"
    <2>1. Exchanges = <<"ask", "ask", "write", "ask", "ask", "verify", "ask">> /\ Len(Exchanges) = 7
        BY <1>2, Lengths6 DEF Exchanges, Mega
    <2>2. i \in 1..7
        BY <2>1
    <2>3. i = 1 \/ i = 2 \/ i = 3 \/ i = 4 \/ i = 5 \/ i = 6 \/ i = 7
        BY <2>2
    <2> QED BY <1>2, <2>1, <2>3 DEF WriteAt, IdentifyAt, Identifying
<1>3. CASE tool = "usbasp"
    <2>1. Exchanges = <<"ask", "sync", "identify", "erase", "write", "verify">> /\ Len(Exchanges) = 6
        BY <1>3, Lengths6 DEF Exchanges, Usbasp
    <2>2. i \in 1..6
        BY <2>1
    <2>3. i = 1 \/ i = 2 \/ i = 3 \/ i = 4 \/ i = 5 \/ i = 6
        BY <2>2
    <2> QED BY <1>3, <2>1, <2>3 DEF WriteAt, IdentifyAt, Identifying
<1>4. CASE tool = "stm32"
    <2>1. Exchanges = <<"ask", "ask", "erase", "write", "start">> /\ Len(Exchanges) = 5
        BY <1>4, Lengths6 DEF Exchanges, Stm32
    <2>2. i \in 1..5
        BY <2>1
    <2>3. i = 1 \/ i = 2 \/ i = 3 \/ i = 4 \/ i = 5
        BY <2>2
    <2> QED BY <1>4, <2>1, <2>3 DEF WriteAt, IdentifyAt, Identifying
<1>5. CASE tool = "swd"
    <2>1. Exchanges = <<"ask", "halt", "ask", "erase", "write", "start">> /\ Len(Exchanges) = 6
        BY <1>5, Lengths6 DEF Exchanges, Swd
    <2>2. i \in 1..6
        BY <2>1
    <2>3. i = 1 \/ i = 2 \/ i = 3 \/ i = 4 \/ i = 5 \/ i = 6
        BY <2>2
    <2> QED BY <1>5, <2>1, <2>3 DEF WriteAt, IdentifyAt, Identifying
<1>6. CASE tool = "daplink"
    <2>1. Exchanges = <<"ask", "halt", "identify", "pages", "write", "start">> /\ Len(Exchanges) = 6
        BY <1>6, Lengths6 DEF Exchanges, Daplink
    <2>2. i \in 1..6
        BY <2>1
    <2>3. i = 1 \/ i = 2 \/ i = 3 \/ i = 4 \/ i = 5 \/ i = 6
        BY <2>2
    <2> QED BY <1>6, <2>1, <2>3 DEF WriteAt, IdentifyAt, Identifying
<1> QED BY <1>1, <1>2, <1>3, <1>4, <1>5, <1>6

-----------------------------------------------------------------------------
(* What every step keeps *)

\* The job does not change, nor what is made of it.
LEMMA JobSame ==
    ASSUME UNCHANGED job
    PROVE  /\ tool' = tool /\ image' = image /\ base' = base /\ chip' = chip /\ bad' = bad /\ slow' = slow
           /\ Exchanges' = Exchanges /\ First' = First /\ End' = End /\ Length' = Length
           /\ WriteAt' = WriteAt /\ IdentifyAt' = IdentifyAt /\ Unit' = Unit
           /\ (Fits' <=> Fits) /\ (Job' <=> Job) /\ (Unspoilt' <=> Unspoilt)
<1>1. tool' = tool /\ image' = image /\ base' = base /\ chip' = chip /\ bad' = bad /\ slow' = slow
    BY DEF job
<1>2. Exchanges' = Exchanges
    BY <1>1 DEF Exchanges, Eeprom, Mega, Usbasp, Stm32, Swd, Daplink
<1>3. Length' = Length
    BY <1>1 DEF Length
<1>4. First' = First
    BY <1>1 DEF First
<1>5. End' = End
    BY <1>1, <1>3 DEF End
<1>6. WriteAt' = WriteAt /\ IdentifyAt' = IdentifyAt /\ Unit' = Unit
    BY <1>1 DEF WriteAt, IdentifyAt, Unit
<1>7. Fits' <=> Fits
    BY <1>1, <1>3, <1>4 DEF Fits
<1>8. Job' <=> Job
    BY <1>1 DEF Job
<1>9. Unspoilt' <=> Unspoilt
    BY <1>1 DEF Unspoilt, WithinReach
<1> QED BY <1>1, <1>2, <1>3, <1>4, <1>5, <1>6, <1>7, <1>8, <1>9

\* What the next state is to satisfy.
LEMMA KeepNext ==
    ASSUME KeepInv, UNCHANGED job,
           at' \in 1..Len(Exchanges), offset' \in Nat, tries' \in Nat, runs' \in Nat,
           mem' \in [0..Space - 1 -> Int], fault' \in BOOLEAN,
           target' \in {"app", "held", "started"}, result' \in {"none", "done", "error", "silent"},
           IdentifiedAt(at'), KeptIn(mem'), result' = "none" => PlacedAt(at', offset')
    PROVE  KeepInv'
<1> USE JobSame
<1>1. PagedTypeOK'
    BY DEF KeepInv, PagedTypeOK
<1>2. IdentifiedAt(at)'
    BY DEF IdentifiedAt, Identifying
<1>3. KeptIn(mem)'
    BY DEF KeptIn, Rest, RoundUp, RoundDown, Old, Blank, Identifying
<1>4. ASSUME result' = "none" PROVE PlacedAt(at, offset)'
    BY <1>4 DEF PlacedAt, RoundDown
<1> QED BY <1>1, <1>2, <1>3, <1>4 DEF KeepInv

\* Where the next exchange begins.
LEMMA Proceeds ==
    ASSUME KeepInv, result = "none", Proceed, IdentifiedAt(at + 1)
    PROVE  /\ at' \in 1..Len(Exchanges) /\ offset' \in Nat /\ result' \in {"none", "done"}
           /\ IdentifiedAt(at')
           /\ result' = "none" =>
               PlacedAt(at', offset') /\ at' = at + 1 /\ offset' = Origin(Exchanges[at + 1])
           /\ result' = "done" => at' = at /\ at = Len(Exchanges)
<1>0. /\ Job /\ at \in 1..Len(Exchanges) /\ offset \in Nat /\ IdentifiedAt(at)
      /\ tool \in {"eeprom", "mega", "usbasp", "stm32", "swd", "daplink"}
      /\ Word \in Nat \ {0} /\ Page \in Nat \ {0}
    BY FlashAssumption DEF KeepInv, PagedTypeOK, Job
<1>1. CASE at = Len(Exchanges)
    BY <1>0, <1>1 DEF Proceed
<1>2. CASE at # Len(Exchanges)
    <2> DEFINE i == at + 1  o == Origin(Exchanges[i])
    <2>1. i \in 1..Len(Exchanges) /\ at' = i /\ offset' = o /\ result' = "none"
        <3>1. Len(Exchanges) \in Nat
            BY <1>0, Lengths6
        <3> QED BY <1>0, <1>2, <3>1 DEF Proceed
    <2>2. First \in Nat /\ First < Length /\ First % Word = 0 /\ (tool # "daplink" => First = 0)
        BY <1>0, FirstIs
    <2>3. End \in Nat /\ (Fits => First < End) /\ Length \in Nat
        BY <1>0, EndIs, ImageIs
    <2>4. /\ RoundDown(First, Page) \in Nat /\ RoundDown(First, Page) <= First
          /\ RoundDown(First, Page) % Page = 0
        BY <1>0, <2>2, DownIs
    <2>5. 0 % Page = 0
        BY <1>0
    <2>6. o \in Nat
        BY <2>2, <2>4 DEF Origin
    <2>7. PlacedAt(i, o)
        <3>1. ASSUME Exchanges[i] = "write"
              PROVE  o \in First..End - 1 /\ (tool # "eeprom" => o % Unit = 0)
            <4>1. o = First
                BY <3>1 DEF Origin
            <4>2. i = WriteAt
                BY <1>0, <2>1, <3>1, Phases
            <4>3. First < End
                <5>1. CASE tool = "daplink"
                    BY <1>0, <2>3, <4>2, <5>1 DEF IdentifiedAt, IdentifyAt, WriteAt, Identifying
                <5>2. CASE tool = "usbasp"
                    BY <1>0, <2>2, <5>2, EndIs
                <5>3. CASE tool \in {"eeprom", "mega", "stm32", "swd"}
                    BY <2>3, <5>3 DEF Fits
                <5> QED BY <1>0, <5>1, <5>2, <5>3
            <4>4. First % Unit = 0
                BY <2>2, <2>5 DEF Unit
            <4> QED BY <2>2, <2>3, <4>1, <4>3, <4>4
        <3>2. ASSUME Exchanges[i] = "pages"
              PROVE  o \in RoundDown(First, Page)..End - 1 /\ o % Page = 0
            <4>1. o = RoundDown(First, Page)
                BY <3>2 DEF Origin
            <4>2. i = WriteAt - 1 /\ tool = "daplink"
                BY <1>0, <2>1, <3>2, Phases
            <4>3. First < End
                BY <1>0, <2>3, <4>2 DEF IdentifiedAt, IdentifyAt, WriteAt, Identifying
            <4> QED BY <2>2, <2>3, <2>4, <4>1, <4>3
        <3>3. ASSUME Exchanges[i] = "verify"
              PROVE  o \in 0..Length - 1 /\ o % Page = 0
            BY <2>2, <2>3, <2>5, <3>3 DEF Origin
        <3> QED BY <3>1, <3>2, <3>3 DEF PlacedAt
    <2> HIDE DEF o
    <2> QED BY <2>1, <2>6, <2>7 DEF o
<1> QED BY <1>1, <1>2

-----------------------------------------------------------------------------
(* A write *)

\* It sends at least a byte, and goes on where it stopped; the last reaches the end.
\* It does not leave the image, but for the last word of a USBasp's and the nRF's, nor the
\* page of an EEPROM and of the nRF.
LEMMA Writes ==
    ASSUME PagedTypeOK, Exchanges[at] = "write", PlacedAt(at, offset)
    PROVE  /\ Bytes(offset) \in Nat \ {0} /\ Advance(offset) \in Nat /\ offset < Advance(offset)
           /\ Advance(offset) < End => offset + Bytes(offset) = Advance(offset)
           /\ Advance(offset) >= End => offset + Bytes(offset) >= End
           /\ tool # "eeprom" => Advance(offset) % Unit = 0
           /\ tool \notin {"usbasp", "daplink"} => offset + Bytes(offset) <= End
           /\ tool = "eeprom" =>
               base + offset + Bytes(offset) <= RoundDown(base + offset, Page) + Page
           /\ tool = "daplink" => offset + Bytes(offset) <= RoundDown(offset, Page) + Page
<1> DEFINE Right ==
           /\ Bytes(offset) \in Nat \ {0} /\ Advance(offset) \in Nat /\ offset < Advance(offset)
           /\ Advance(offset) < End => offset + Bytes(offset) = Advance(offset)
           /\ Advance(offset) >= End => offset + Bytes(offset) >= End
           /\ tool # "eeprom" => Advance(offset) % Unit = 0
           /\ tool \notin {"usbasp", "daplink"} => offset + Bytes(offset) <= End
           /\ tool = "eeprom" =>
               base + offset + Bytes(offset) <= RoundDown(base + offset, Page) + Page
           /\ tool = "daplink" => offset + Bytes(offset) <= RoundDown(offset, Page) + Page
<1>1. /\ Job /\ at \in 1..Len(Exchanges) /\ offset \in Nat
      /\ tool \in {"eeprom", "mega", "usbasp", "stm32", "swd", "daplink"}
      /\ Word \in Nat \ {0} /\ Page \in Nat \ {0} /\ Page % Word = 0
    BY FlashAssumption DEF PagedTypeOK, Job
<1>2. /\ First \in Nat /\ End \in Nat /\ Length \in Nat \ {0}
      /\ offset < End /\ First <= offset /\ (tool # "eeprom" => offset % Unit = 0)
    BY <1>1, FirstIs, EndIs, ImageIs DEF PlacedAt
<1>3. CASE tool = "eeprom"
    <2> DEFINE n == base + offset
    <2>1. n \in Nat /\ base \in Nat
        BY <1>1, BaseIs
    <2>2. End = Length
        BY <1>1, <1>3, EndIs
    <2>3. (n % Page) \in 0..Page - 1 /\ RoundDown(n, Page) = n - (n % Page)
        BY <1>1, <2>1, RemainderIs
    <2>4. Bytes(offset) = Min({Page - (n % Page), Length - offset})
        BY <1>3 DEF Bytes, EepromBytes
    <2>5. Advance(offset) = offset + Bytes(offset)
        BY <1>3 DEF Advance
    <2> DEFINE r == n % Page  d == RoundDown(n, Page)
    <2>6. r \in 0..Page - 1 /\ d = n - r
        BY <2>3
    <2>7. Bytes(offset) = IF Page - r <= Length - offset THEN Page - r ELSE Length - offset
        <3>1. Page - r \in Int /\ Length - offset \in Int
            BY <1>1, <1>2, <2>6
        <3>2. Bytes(offset) = Min({Page - r, Length - offset})
            BY <2>4
        <3> HIDE DEF r
        <3> QED BY <3>1, <3>2, MinOfTwo
    <2>8. n + Bytes(offset) <= d + Page
        <3> HIDE DEF n, r, d
        <3> QED BY <1>1, <1>2, <2>1, <2>6, <2>7
    <2>9. base + offset + Bytes(offset) <= RoundDown(base + offset, Page) + Page
        BY <2>8
    <2>10. Bytes(offset) \in Nat \ {0} /\ Bytes(offset) <= Length - offset
        <3> HIDE DEF n, r, d
        <3> QED BY <1>1, <1>2, <2>2, <2>6, <2>7
    <2> HIDE DEF n, r, d
    <2> QED BY <1>1, <1>2, <1>3, <2>2, <2>5, <2>9, <2>10
<1>4. CASE tool \in {"mega", "stm32", "usbasp"}
    <2>1. Unit = Page /\ Advance(offset) = offset + Page
        BY <1>4 DEF Unit, Advance
    <2>2. PageBytes(offset) = IF Page <= End - offset THEN Page ELSE End - offset
        <3>1. PageBytes(offset) = Min({Page, End - offset}) /\ End - offset \in Int /\ Page \in Int
            BY <1>1, <1>2 DEF PageBytes
        <3> QED BY <3>1, MinOfTwo
    <2>3. Advance(offset) % Unit = 0
        BY <1>1, <1>2, <1>4, <2>1, NextMultiple
    <2>4. CASE tool = "usbasp"
        <3>1. Bytes(offset) = RoundUp(PageBytes(offset), Word)
            BY <2>4 DEF Bytes, UsbaspBytes
        <3>2. PageBytes(offset) \in Nat \ {0}
            BY <1>1, <1>2, <2>2
        <3>3. /\ Bytes(offset) \in Nat /\ PageBytes(offset) <= Bytes(offset)
              /\ PageBytes(offset) = Page => Bytes(offset) = Page
            BY <1>1, <3>1, <3>2, UpIs
        <3> QED BY <1>1, <1>2, <2>1, <2>2, <2>3, <2>4, <3>2, <3>3
    <2>5. CASE tool # "usbasp"
        <3>1. Bytes(offset) = PageBytes(offset)
            BY <1>4, <2>5 DEF Bytes
        <3> QED BY <1>1, <1>2, <1>4, <2>1, <2>2, <2>3, <2>5, <3>1
    <2> QED BY <2>4, <2>5
<1>5. CASE tool \in {"swd", "daplink"}
    <2>1. Unit = Word /\ Advance(offset) = offset + Word /\ Bytes(offset) = Word
        BY <1>5 DEF Unit, Advance, Bytes
    <2>2. Advance(offset) % Unit = 0
        BY <1>1, <1>2, <1>5, <2>1, NextMultiple
    <2>3. tool = "swd" => offset + Word <= End
        BY <1>1, <1>2, <2>1, EndIs, NextMultiple
    <2>4. tool = "daplink" => offset + Word <= RoundDown(offset, Page) + Page
        <3> DEFINE p == RoundDown(offset, Page)
        <3>1. p \in Nat /\ p % Page = 0 /\ offset < p + Page
            BY <1>1, DownIs
        <3> HIDE DEF p
        <3>2. p + Page \in Nat /\ (p + Page) % Page = 0
            <4>1. p \in Nat /\ Page \in Nat \ {0} /\ p % Page = 0
                BY <1>1, <3>1
            <4>2. p + Page \in Nat
                BY <4>1
            <4>3. (p + Page) % Page = 0
                BY <4>1, NextMultiple
            <4> QED BY <4>2, <4>3
        <3>3. (p + Page) % Word = 0
            BY <3>2, PagesAreWords
        <3>4. offset + Word <= p + Page
            BY <1>1, <1>2, <1>5, <2>1, <3>1, <3>2, <3>3, NextMultiple
        <3> QED BY <3>4 DEF p
    <2> QED BY <1>1, <1>2, <1>5, <2>1, <2>2, <2>3, <2>4
<1> QED BY <1>1, <1>3, <1>4, <1>5

\* Where a byte of it goes: to its own cell, which is in the page for an EEPROM and for the
\* nRF, and a USBasp's below what its address reaches.
LEMMA Straight ==
    ASSUME PagedTypeOK, Exchanges[at] = "write", PlacedAt(at, offset), NEW a \in Sent(offset)
    PROVE  /\ a \in Nat /\ offset <= a /\ a < offset + Bytes(offset)
           /\ tool # "usbasp" => Cell(base + a, base + offset) = base + a
           /\ tool = "usbasp" => /\ Cell(base + a, base + offset) \in Nat
                                 /\ Cell(base + a, base + offset) <= a
                                 /\ a < IspReach => Cell(base + a, base + offset) = a
           /\ tool = "daplink" => RoundDown(a, Page) = RoundDown(offset, Page)
<1>1. /\ Job /\ offset \in Nat /\ Page \in Nat \ {0} /\ Bytes(offset) \in Nat \ {0} /\ IspReach \in Nat \ {0}
      /\ base \in Nat /\ (tool # "eeprom" => base = 0)
    BY Writes, BaseIs, FlashAssumption DEF PagedTypeOK
<1>2. a \in Nat /\ offset <= a /\ a < offset + Bytes(offset)
    BY <1>1 DEF Sent
<1>3. CASE tool = "eeprom"
    <2> DEFINE p == RoundDown(base + offset, Page)
    <2>1. base + offset \in Nat /\ base + a \in Nat
        BY <1>1, <1>2
    <2>2. p \in Nat /\ p <= base + offset /\ p % Page = 0
        BY <1>1, <2>1, DownIs
    <2>3. base + offset + Bytes(offset) <= p + Page
        BY <1>3, Writes
    <2>4. Cell(base + a, base + offset) = p + ((base + a) % Page)
        BY <1>3 DEF Cell
    <2> HIDE DEF p
    <2>5. p <= base + a /\ base + a < p + Page
        BY <1>1, <1>2, <2>2, <2>3
    <2>6. (base + a) % Page = (base + a) - p
        BY <1>1, <2>1, <2>2, <2>5, DownIs
    <2> QED BY <1>2, <1>3, <2>1, <2>2, <2>4, <2>6
<1>4. CASE tool = "usbasp"
    <2>1. Cell(base + a, base + offset) = a % IspReach
        BY <1>1, <1>2, <1>4 DEF Cell, IspCell
    <2> DEFINE r == a % IspReach
    <2>2. r \in 0..a /\ (a < IspReach => r = a)
        BY <1>1, <1>2, RemainderIs
    <2> HIDE DEF r
    <2> QED BY <1>2, <1>4, <2>1, <2>2 DEF r
<1>5. CASE tool = "daplink"
    <2>1. Cell(base + a, base + offset) = base + a
        BY <1>5 DEF Cell
    <2> DEFINE p == RoundDown(offset, Page)
    <2>2. p \in Nat /\ p <= offset /\ p % Page = 0 /\ offset + Bytes(offset) <= p + Page
        BY <1>1, <1>5, DownIs, Writes
    <2> HIDE DEF p
    <2>3. p <= a /\ a < p + Page
        BY <1>1, <1>2, <2>2
    <2>4. RoundDown(a, Page) = p
        BY <1>1, <1>2, <2>2, <2>3, DownIs
    <2> QED BY <1>2, <1>5, <2>1, <2>4 DEF p
<1>6. CASE tool \notin {"eeprom", "usbasp", "daplink"}
    BY <1>2, <1>6 DEF Cell
<1> QED BY <1>3, <1>4, <1>5, <1>6

\* The page it is in is one of the image's.
LEMMA Within ==
    ASSUME PagedTypeOK, Exchanges[at] = "write", PlacedAt(at, offset)
    PROVE  RoundDown(offset, Page) \in RoundDown(First, Page)..End - 1
<1>1. /\ Page \in Nat \ {0} /\ First \in Nat /\ End \in Nat /\ offset \in Nat
      /\ offset < End /\ First <= offset
    BY FlashAssumption, FirstIs, EndIs DEF PagedTypeOK, PlacedAt
<1> DEFINE p == RoundDown(offset, Page)  f == RoundDown(First, Page)
<1>2. p \in Nat /\ p <= offset /\ f \in Nat /\ f <= First /\ f % Page = 0
    BY <1>1, DownIs
<1>3. f <= offset
    <2> HIDE DEF p, f
    <2> QED BY <1>1, <1>2
<1>4. f <= p
    <2> HIDE DEF f
    <2> QED BY <1>1, <1>2, <1>3, DownIs
<1>5. p \in f..End - 1
    <2> HIDE DEF p, f
    <2> QED BY <1>1, <1>2, <1>4
<1> QED BY <1>5

\* A cell takes the last byte that goes to it; the Mega erases the rest of the page.
LEMMA ProgrammedIs ==
    ASSUME PagedTypeOK, Exchanges[at] = "write", PlacedAt(at, offset), NEW c \in 0..Space - 1
    PROVE  \/ \E a \in Sent(offset) :
                  Cell(base + a, base + offset) = c /\ Programmed[c] = Takes(c, DataAt(a))
           \/ /\ \A a \in Sent(offset) : Cell(base + a, base + offset) # c
              /\ Programmed[c] = IF tool = "mega" /\ RoundDown(c, Page) = offset THEN Blank ELSE mem[c]
<1> DEFINE F == {a \in Sent(offset) : Cell(base + a, base + offset) = c}
<1>1. c \in DOMAIN mem /\ offset \in Nat /\ Bytes(offset) \in Nat
    BY Writes DEF PagedTypeOK
<1>2. Programmed[c] =
          IF F # {} THEN Takes(c, DataAt(Max(F)))
          ELSE IF tool = "mega" /\ RoundDown(c, Page) = offset THEN Blank ELSE mem[c]
    BY <1>1 DEF Programmed
<1>3. CASE F # {}
    <2> DEFINE n == offset + Bytes(offset)
    <2>1. \A a \in F : a \in Nat /\ a <= n
        BY <1>1, Straight
    <2>2. F \in SUBSET Nat /\ n \in Nat /\ \A a \in F : a <= n
        BY <1>1, <2>1
    <2> HIDE DEF F, n
    <2>3. \A k \in Nat : (\A y \in F : y <= k) => Max(F) \in F /\ \A y \in F : Max(F) >= y
        BY <1>3, <2>2, ExtremesAre
    <2>4. Max(F) \in F
        BY <2>2, <2>3
    <2>5. Max(F) \in Sent(offset) /\ Cell(base + Max(F), base + offset) = c
        BY <2>4 DEF F
    <2>6. Programmed[c] = Takes(c, DataAt(Max(F)))
        BY <1>2, <1>3
    <2> QED BY <2>5, <2>6
<1>4. CASE F = {}
    <2>1. \A a \in Sent(offset) : Cell(base + a, base + offset) # c
        BY <1>4
    <2> QED BY <1>2, <1>4, <2>1
<1> QED BY <1>3, <1>4

\* What it may become.
LEMMA TakesIs ==
    ASSUME PagedTypeOK, NEW c \in 0..Space - 1, NEW a \in Nat
    PROVE  /\ Takes(c, DataAt(a)) \in Int /\ DataAt(a) \in Nat
           /\ c \notin bad /\ (tool \in {"eeprom", "mega"} \/ mem[c] = Blank) =>
                  Takes(c, DataAt(a)) = DataAt(a)
           /\ a >= Length /\ c \notin bad => Takes(c, DataAt(a)) \in {Blank, mem[c]}
<1>1. DataAt(a) \in Nat /\ (a >= Length => DataAt(a) = Blank) /\ mem[c] \in Int
    BY ImageIs DEF PagedTypeOK
<1> QED BY <1>1 DEF Takes, Broken, Blank

\* An exchange leaves a memory, in which only what may be is changed.
LEMMA EffectKeeps ==
    ASSUME KeepInv, result = "none"
    PROVE  Effect \in [0..Space - 1 -> Int] /\ KeptIn(Effect)
<1>1. /\ PagedTypeOK /\ IdentifiedAt(at) /\ KeptIn(mem) /\ PlacedAt(at, offset)
      /\ Job /\ at \in 1..Len(Exchanges) /\ offset \in Nat
      /\ tool \in {"eeprom", "mega", "usbasp", "stm32", "swd", "daplink"}
      /\ Page \in Nat \ {0} /\ DOMAIN mem = 0..Space - 1 /\ mem \in [0..Space - 1 -> Int]
      /\ base \in Nat /\ (tool # "eeprom" => base = 0)
    BY BaseIs, FlashAssumption DEF KeepInv, PagedTypeOK, Job
<1>2. /\ First \in Nat /\ End \in Nat /\ Length \in Nat \ {0}
    BY <1>1, FirstIs, EndIs, ImageIs
<1>3. CASE Exchanges[at] = "erase"
    <2>1. tool \in {"usbasp", "stm32", "swd"} /\ at = WriteAt - 1
        BY <1>1, <1>3, Phases
    <2>2. Effect = [c \in 0..Space - 1 |-> Blank]
        BY <1>1, <1>3 DEF Effect, Erased
    <2>3. \A c \in 0..Space - 1 : Rest(c, Effect[c])
        BY <2>1, <2>2 DEF Rest
    <2>4. ~(chip = "other" /\ tool \in Identifying)
        BY <1>1, <2>1 DEF IdentifiedAt, Identifying, IdentifyAt, WriteAt
    <2> QED BY <2>2, <2>3, <2>4 DEF KeptIn, Blank
<1>4. CASE Exchanges[at] = "pages"
    <2>1. tool = "daplink" /\ at = WriteAt - 1
        BY <1>1, <1>4, Phases
    <2>2. Effect = [c \in 0..Space - 1 |->
                        IF c \in {x \in 0..Space - 1 : RoundDown(x, Page) = offset} THEN Blank ELSE mem[c]]
        BY <1>1, <1>4 DEF Effect, Erased
    <2>3. ASSUME NEW c \in 0..Space - 1 PROVE Rest(c, Effect[c]) /\ Effect[c] \in Int
        <3>1. CASE RoundDown(c, Page) = offset
            <4>1. RoundDown(c, Page) \in RoundDown(First, Page)..End - 1
                BY <1>1, <1>4, <3>1 DEF PlacedAt
            <4>2. Effect[c] = Blank
                BY <2>2, <3>1
            <4> QED BY <2>1, <4>1, <4>2 DEF Rest, Blank
        <3>2. CASE RoundDown(c, Page) # offset
            <4>1. Effect[c] = mem[c]
                BY <2>2, <3>2
            <4> QED BY <1>1, <4>1 DEF KeptIn
        <3> QED BY <3>1, <3>2
    <2>4. ~(chip = "other" /\ tool \in Identifying)
        BY <1>1, <2>1 DEF IdentifiedAt, Identifying, IdentifyAt, WriteAt
    <2>5. Effect \in [0..Space - 1 -> Int]
        BY <2>2, <2>3
    <2> QED BY <2>3, <2>4, <2>5 DEF KeptIn
<1>5. CASE Exchanges[at] = "write"
    <2>1. Effect = Programmed /\ at = WriteAt
        BY <1>1, <1>5, Phases DEF Effect
    <2>2. ASSUME NEW c \in 0..Space - 1 PROVE Rest(c, Programmed[c]) /\ Programmed[c] \in Int
        <3>0. Rest(c, mem[c]) /\ mem[c] \in Int
            BY <1>1 DEF KeptIn
        <3>1. ASSUME NEW a \in Sent(offset), Cell(base + a, base + offset) = c,
                     Programmed[c] = Takes(c, DataAt(a))
              PROVE  Rest(c, Programmed[c]) /\ Programmed[c] \in Int
            <4>1. a \in Nat /\ offset <= a /\ a < offset + Bytes(offset) /\ Bytes(offset) \in Nat
                BY <1>1, <1>5, Straight, Writes
            <4>2. Takes(c, DataAt(a)) \in Int
                BY <1>1, <4>1, TakesIs
            <4>3. CASE tool = "eeprom"
                <5>1. offset + Bytes(offset) <= End /\ End = Length
                    BY <1>1, <1>5, <4>3, Writes, EndIs
                <5>2. c = base + a
                    BY <1>1, <1>5, <3>1, <4>3, Straight
                <5>3. c - base \in 0..Length - 1
                    BY <1>1, <1>2, <4>1, <5>1, <5>2
                <5> QED BY <3>1, <4>2, <4>3, <5>3 DEF Rest
            <4>4. CASE tool = "mega"
                <5>1. offset + Bytes(offset) <= End /\ End = Length
                    BY <1>1, <1>5, <4>4, Writes, EndIs
                <5>2. c = a
                    BY <1>1, <1>5, <3>1, <4>1, <4>4, Straight
                <5>3. RoundUp(Length, Page) \in Nat /\ Length <= RoundUp(Length, Page)
                    BY <1>1, <1>2, UpIs
                <5>4. c < RoundUp(Length, Page)
                    BY <1>1, <1>2, <4>1, <5>1, <5>2, <5>3
                <5> QED BY <3>1, <4>2, <4>4, <5>4 DEF Rest
            <4>5. CASE tool \in {"stm32", "swd"}
                <5>1. offset + Bytes(offset) <= End
                    BY <1>1, <1>5, <4>5, Writes
                <5>2. c = a
                    BY <1>1, <1>5, <3>1, <4>1, <4>5, Straight
                <5>3. c < End
                    BY <1>1, <1>2, <4>1, <5>1, <5>2
                <5> QED BY <3>1, <4>2, <4>5, <5>3 DEF Rest
            <4>6. CASE tool = "usbasp"
                <5>1. End = Length /\ c <= a /\ bad \subseteq 0..Length - 1
                    BY <1>1, <1>5, <3>1, <4>6, Straight, EndIs DEF PagedTypeOK
                <5>2. c < End \/ Programmed[c] = Blank \/ Programmed[c] = mem[c]
                    <6>1. SUFFICES ASSUME ~(c < End) PROVE Programmed[c] \in {Blank, mem[c]}
                        OBVIOUS
                    <6>2. a >= Length /\ c \notin bad
                        BY <1>2, <4>1, <5>1, <6>1
                    <6> QED BY <1>1, <3>1, <4>1, <6>2, TakesIs
                <5> QED BY <3>0, <3>1, <4>2, <4>6, <5>2 DEF Rest
            <4>7. CASE tool = "daplink"
                <5>1. c = a
                    BY <1>1, <1>5, <3>1, <4>1, <4>7, Straight
                <5>2. RoundDown(c, Page) = RoundDown(offset, Page)
                    BY <1>1, <1>5, <4>7, <5>1, Straight
                <5> QED BY <1>1, <1>5, <3>1, <4>2, <4>7, <5>2, Within DEF Rest
            <4> QED BY <1>1, <4>3, <4>4, <4>5, <4>6, <4>7
        <3>2. ASSUME Programmed[c] = IF tool = "mega" /\ RoundDown(c, Page) = offset THEN Blank ELSE mem[c]
              PROVE  Rest(c, Programmed[c]) /\ Programmed[c] \in Int
            <4>1. CASE tool = "mega" /\ RoundDown(c, Page) = offset
                <5>1. c < offset + Page /\ c \in Nat
                    BY <1>1, <4>1, DownIs
                <5>2. offset < Length /\ offset % Page = 0
                    BY <1>1, <1>2, <1>5, <4>1, EndIs DEF PlacedAt, Unit
                <5> DEFINE u == RoundUp(Length, Page)
                <5>3. u \in Nat /\ Length <= u /\ u % Page = 0
                    BY <1>1, <1>2, UpIs
                <5> HIDE DEF u
                <5>4. offset < u
                    BY <1>1, <1>2, <5>2, <5>3
                <5>5. offset + Page <= u
                    BY <1>1, <5>2, <5>3, <5>4, NextMultiple
                <5>6. c < u
                    BY <1>1, <5>1, <5>3, <5>5
                <5> QED BY <3>2, <4>1, <5>6 DEF Rest, Blank, u
            <4>2. CASE ~(tool = "mega" /\ RoundDown(c, Page) = offset)
                BY <3>0, <3>2, <4>2
            <4> QED BY <4>1, <4>2
        <3> QED BY <1>1, <1>5, <3>1, <3>2, ProgrammedIs
    <2>3. ~(chip = "other" /\ tool \in Identifying)
        BY <1>1, <2>1 DEF IdentifiedAt, Identifying, IdentifyAt, WriteAt
    <2>4. Programmed \in [0..Space - 1 -> Int]
        <3> DEFINE P(c) == IF {a \in Sent(offset) : Cell(base + a, base + offset) = c} # {}
                           THEN Takes(c, DataAt(Max({a \in Sent(offset) : Cell(base + a, base + offset) = c})))
                           ELSE IF tool = "mega" /\ RoundDown(c, Page) = offset THEN Blank ELSE mem[c]
        <3>1. Programmed = [c \in 0..Space - 1 |-> P(c)]
            BY <1>1 DEF Programmed
        <3> HIDE DEF P
        <3> QED BY <2>2, <3>1
    <2> QED BY <2>1, <2>2, <2>3, <2>4 DEF KeptIn
<1>6. CASE Exchanges[at] \notin {"erase", "pages", "write"}
    BY <1>1, <1>6 DEF Effect
<1> QED BY <1>3, <1>4, <1>5, <1>6

-----------------------------------------------------------------------------
(* The steps keep it *)

\* Only the identification lets a flasher past it.
LEMMA PastIdentify ==
    ASSUME KeepInv, Exchanges[at] # "identify"
    PROVE  IdentifiedAt(at + 1)
<1>1. /\ at \in 1..Len(Exchanges) /\ IdentifiedAt(at) /\ IdentifyAt \in Nat
      /\ tool \in {"eeprom", "mega", "usbasp", "stm32", "swd", "daplink"}
    BY FlashAssumption DEF KeepInv, PagedTypeOK, Job, IdentifyAt
<1>2. ~(at = IdentifyAt /\ tool \in Identifying)
    BY <1>1, Phases
<1> QED BY <1>1, <1>2 DEF IdentifiedAt

\* A board that did some of an exchange has cells as they were and as they are to be.
LEMMA SomeOfIt ==
    ASSUME KeepInv, result = "none", NEW k \in 0..Space,
           mem' = [c \in DOMAIN mem |-> IF c < k THEN Effect[c] ELSE mem[c]]
    PROVE  mem' \in [0..Space - 1 -> Int] /\ KeptIn(mem')
<1>1. /\ Effect \in [0..Space - 1 -> Int] /\ KeptIn(Effect) /\ KeptIn(mem)
      /\ mem \in [0..Space - 1 -> Int] /\ DOMAIN mem = 0..Space - 1
    BY EffectKeeps DEF KeepInv, PagedTypeOK
<1>2. ASSUME NEW c \in 0..Space - 1 PROVE mem'[c] = Effect[c] \/ mem'[c] = mem[c]
    BY <1>1
<1>3. ASSUME NEW c \in 0..Space - 1 PROVE Rest(c, mem'[c])
    <2>1. Rest(c, Effect[c]) /\ Rest(c, mem[c])
        BY <1>1 DEF KeptIn
    <2> QED BY <1>2, <2>1
<1>4. chip = "other" /\ tool \in Identifying => \A c \in 0..Space - 1 : mem'[c] = Old
    BY <1>1, <1>2 DEF KeptIn
<1>5. mem' \in [0..Space - 1 -> Int]
    BY <1>1
<1> QED BY <1>3, <1>4, <1>5 DEF KeptIn

\* at the start
LEMMA PagedKeepInit == PagedInit => KeepInv
<1> SUFFICES ASSUME PagedInit PROVE KeepInv
    OBVIOUS
<1>1. /\ tool \in {"eeprom", "mega", "usbasp", "stm32", "swd", "daplink"}
      /\ Word \in Nat \ {0} /\ Page \in Nat \ {0} /\ Space \in Nat /\ Job
    BY FlashAssumption DEF PagedInit, Job
<1>2. bad \subseteq 0..Length - 1
    <2>1. Length \in Nat \ {0} /\ Max(image) = Length - 1
        <3>1. Max(image) \in image /\ image \subseteq Nat /\ Length \in Nat \ {0}
            BY <1>1, ImageIs
        <3>2. Max(image) \in Nat
            BY <3>1
        <3> QED BY <3>1, <3>2 DEF Length
    <2>2. bad = {} \/ bad = {0} \/ bad = {Max(image)}
        BY DEF PagedInit
    <2> QED BY <2>1, <2>2
<1>3. /\ at = 1 /\ offset = Origin(Exchanges[1]) /\ result = "none" /\ target = "app"
      /\ tries = 0 /\ runs = 1 /\ fault = FALSE /\ mem = [c \in 0..Space - 1 |-> Old]
    BY DEF PagedInit
<1>4. 1 \in 1..Len(Exchanges)
    BY <1>1, SomeExchanges
<1>5. Exchanges[1] \notin {"write", "pages", "verify"}
    BY <1>1, <1>4, Phases DEF WriteAt
<1>6. offset = 0
    BY <1>3, <1>5 DEF Origin
<1>7. PagedTypeOK
    <2>1. mem \in [0..Space - 1 -> Int]
        <3>1. Old \in Int
            BY DEF Old
        <3> QED BY <1>3, <3>1
    <2>2. at \in 1..Len(Exchanges)
        BY <1>3, <1>4
    <2>3. offset \in Nat /\ tries \in Nat /\ runs \in Nat
        BY <1>3, <1>6
    <2>5. fault \in BOOLEAN
        BY <1>3
    <2>4. target \in {"app", "held", "started"} /\ result \in {"none", "done", "error", "silent"}
        BY <1>3
    <2> QED BY <1>1, <1>2, <2>1, <2>2, <2>3, <2>4, <2>5 DEF PagedTypeOK
<1>8. IdentifiedAt(at)
    BY <1>3 DEF IdentifiedAt, IdentifyAt
<1>9. KeptIn(mem)
    BY <1>3 DEF KeptIn, Rest
<1>10. PlacedAt(at, offset)
    BY <1>3, <1>5 DEF PlacedAt
<1> QED BY <1>7, <1>8, <1>9, <1>10 DEF KeepInv

\* and at every step
LEMMA PagedKeepStep == KeepInv /\ [PagedNext]_pagedVars => KeepInv'
<1> SUFFICES ASSUME KeepInv, [PagedNext]_pagedVars PROVE KeepInv'
    OBVIOUS
<1>1. /\ PagedTypeOK /\ IdentifiedAt(at) /\ KeptIn(mem) /\ (result = "none" => PlacedAt(at, offset))
      /\ Job /\ at \in 1..Len(Exchanges) /\ offset \in Nat /\ tries \in Nat /\ runs \in Nat
      /\ mem \in [0..Space - 1 -> Int] /\ fault \in BOOLEAN
      /\ target \in {"app", "held", "started"} /\ result \in {"none", "done", "error", "silent"}
    BY DEF KeepInv, PagedTypeOK
<1>2. /\ tool \in {"eeprom", "mega", "usbasp", "stm32", "swd", "daplink"}
      /\ Page \in Nat \ {0} /\ Space \in Nat
    BY <1>1, FlashAssumption DEF Job
<1>3. First \in Nat /\ End \in Nat /\ Length \in Nat \ {0}
    BY <1>1, FirstIs, EndIs, ImageIs
\* an exchange that leaves the memory and goes on to the next
<1>4. ASSUME result = "none", Proceed, IdentifiedAt(at + 1), UNCHANGED job,
             tries' \in Nat, runs' = runs, mem' \in [0..Space - 1 -> Int], KeptIn(mem'),
             fault' \in BOOLEAN, target' \in {"app", "held", "started"}
      PROVE  KeepInv'
    <2>1. /\ at' \in 1..Len(Exchanges) /\ offset' \in Nat /\ result' \in {"none", "done"}
          /\ IdentifiedAt(at') /\ (result' = "none" => PlacedAt(at', offset'))
        BY <1>4, Proceeds
    <2> QED BY <1>1, <1>4, <2>1, KeepNext
\* one that stays where it is, in the next of its pages if it is not over
<1>5. ASSUME UNCHANGED <<job, at>>, offset' \in Nat, tries' \in Nat, runs' = runs,
             mem' \in [0..Space - 1 -> Int], KeptIn(mem'),
             fault' \in BOOLEAN, target' \in {"app", "held", "started"},
             result' \in {"none", "done", "error", "silent"}, result' = "none" => PlacedAt(at, offset')
      PROVE  KeepInv'
    <2>1. at' = at /\ UNCHANGED job
        BY <1>5
    <2> QED BY <1>1, <1>5, <2>1, KeepNext
<1>6. CASE Ask
    <2>1. IdentifiedAt(at + 1)
        BY <1>6, PastIdentify DEF Ask, Doing
    <2> QED BY <1>1, <1>4, <1>6, <2>1 DEF Ask, Doing
<1>7. CASE Halt
    <2>1. IdentifiedAt(at + 1)
        BY <1>7, PastIdentify DEF Halt, Doing
    <2> QED BY <1>1, <1>4, <1>7, <2>1 DEF Halt, Doing
<1>8. CASE Enable
    <2>1. IdentifiedAt(at + 1) /\ result = "none"
        BY <1>8, PastIdentify DEF Enable, Doing
    <2>2. CASE Proceed /\ UNCHANGED <<tries, fault>>
        BY <1>1, <1>4, <1>8, <2>1, <2>2 DEF Enable
    <2>3. CASE tries' = tries + 1 /\ (IF tries' < Sync THEN UNCHANGED <<at, offset, result, fault>>
                                                       ELSE Fail /\ fault' = TRUE)
        <3>1. UNCHANGED <<job, at>> /\ offset' = offset /\ tries' \in Nat /\ runs' = runs /\ mem' = mem /\ target' = target
            BY <1>1, <1>8, <2>3 DEF Enable, Fail
        <3>2. fault' \in BOOLEAN
            BY <1>1, <2>3 DEF Fail
        <3>3. result' \in {"none", "error"} /\ (result' = "none" => result = "none")
            BY <2>1, <2>3 DEF Fail
        <3> QED BY <1>1, <1>5, <2>1, <3>1, <3>2, <3>3
    <2> QED BY <1>8, <2>2, <2>3 DEF Enable
<1>9. CASE Identify
    <2>1. CASE chip = "right" /\ Fits
        <3>1. IdentifiedAt(at + 1)
            BY <2>1 DEF IdentifiedAt
        <3> QED BY <1>1, <1>4, <1>9, <2>1, <3>1 DEF Identify, Doing
    <2>2. CASE ~(chip = "right" /\ Fits)
        <3>1. Fail
            BY <1>9, <2>2 DEF Identify
        <3> QED BY <1>1, <1>5, <1>9, <3>1 DEF Identify, Fail
    <2> QED BY <2>1, <2>2
<1>10. CASE Erase
    <2>1. IdentifiedAt(at + 1) /\ result = "none"
        BY <1>10, PastIdentify DEF Erase, Doing
    <2>2. mem' \in [0..Space - 1 -> Int] /\ KeptIn(mem')
        BY <1>10, <2>1, EffectKeeps DEF Erase
    <2>3. CASE Fail
        BY <1>1, <1>5, <1>10, <2>2, <2>3 DEF Erase, Fail
    <2>4. CASE Proceed
        BY <1>1, <1>4, <1>10, <2>1, <2>2, <2>4 DEF Erase
    <2> QED BY <1>10, <2>3, <2>4 DEF Erase
<1>11. CASE ErasePage
    <2>1. IdentifiedAt(at + 1) /\ result = "none" /\ Exchanges[at] = "pages"
        BY <1>11, PastIdentify DEF ErasePage, Doing
    <2>2. mem' \in [0..Space - 1 -> Int] /\ KeptIn(mem')
        BY <1>11, <2>1, EffectKeeps DEF ErasePage
    <2>3. CASE offset + Page < End
        <3>1. offset' = offset + Page /\ UNCHANGED <<at, result>>
            BY <1>11, <2>3 DEF ErasePage
        <3>2. RoundDown(First, Page) \in Nat
            BY <1>2, <1>3, DownIs
        <3>3. offset' % Page = 0
            <4>1. offset % Page = 0
                BY <1>1, <2>1 DEF PlacedAt
            <4> QED BY <1>1, <1>2, <3>1, <4>1, NextMultiple
        <3>4. offset' \in RoundDown(First, Page)..End - 1
            <4> DEFINE f == RoundDown(First, Page)
            <4>1. f <= offset /\ f \in Nat
                BY <1>1, <1>3, <2>1, <3>2 DEF PlacedAt
            <4> HIDE DEF f
            <4>2. offset' \in f..End - 1
                BY <1>1, <1>2, <1>3, <2>3, <3>1, <4>1
            <4> QED BY <4>2 DEF f
        <3>5. PlacedAt(at, offset')
            BY <2>1, <3>3, <3>4 DEF PlacedAt
        <3> QED BY <1>1, <1>2, <1>5, <1>11, <2>1, <2>2, <3>1, <3>5 DEF ErasePage
    <2>4. CASE ~(offset + Page < End)
        BY <1>1, <1>4, <1>11, <2>1, <2>2, <2>4 DEF ErasePage
    <2> QED BY <2>3, <2>4
<1>12. CASE Write
    <2>1. IdentifiedAt(at + 1) /\ result = "none" /\ Exchanges[at] = "write"
        BY <1>12, PastIdentify DEF Write, Doing
    <2>2. mem' \in [0..Space - 1 -> Int] /\ KeptIn(mem')
        BY <1>12, <2>1, EffectKeeps DEF Write, Effect
    <2>3. CASE Fail
        BY <1>1, <1>5, <1>12, <2>2, <2>3 DEF Write, Fail
    <2>4. CASE Advance(offset) < End /\ offset' = Advance(offset) /\ UNCHANGED <<at, result>>
        <3>1. Advance(offset) \in Nat /\ offset < Advance(offset) /\ (tool # "eeprom" => Advance(offset) % Unit = 0)
            BY <1>1, <2>1, Writes
        <3>2. First <= offset
            BY <1>1, <1>3, <2>1 DEF PlacedAt
        <3>3. PlacedAt(at, offset')
            BY <1>1, <1>3, <2>1, <2>4, <3>1, <3>2 DEF PlacedAt
        <3> QED BY <1>1, <1>5, <1>12, <2>1, <2>2, <2>4, <3>1, <3>3 DEF Write
    <2>5. CASE Proceed
        BY <1>1, <1>4, <1>12, <2>1, <2>2, <2>5 DEF Write
    <2> QED BY <1>12, <2>3, <2>4, <2>5 DEF Write
<1>13. CASE ReadBack
    <2>1. IdentifiedAt(at + 1) /\ result = "none" /\ Exchanges[at] = "verify"
        BY <1>13, PastIdentify DEF ReadBack, Doing
    <2>2. CASE Fail
        BY <1>1, <1>5, <1>13, <2>2 DEF ReadBack, Fail
    <2>3. CASE offset + Page < Length /\ offset' = offset + Page /\ UNCHANGED <<at, result>>
        <3>1. offset' % Page = 0
            <4>1. offset % Page = 0
                BY <1>1, <2>1 DEF PlacedAt
            <4> QED BY <1>1, <1>2, <2>3, <4>1, NextMultiple
        <3>2. PlacedAt(at, offset')
            BY <1>1, <1>2, <1>3, <2>1, <2>3, <3>1 DEF PlacedAt
        <3> QED BY <1>1, <1>2, <1>5, <1>13, <2>1, <2>3, <3>2 DEF ReadBack
    <2>4. CASE Proceed
        BY <1>1, <1>4, <1>13, <2>1, <2>4 DEF ReadBack
    <2> QED BY <1>13, <2>2, <2>3, <2>4 DEF ReadBack
<1>14. CASE Start
    <2>1. IdentifiedAt(at + 1)
        BY <1>14, PastIdentify DEF Start, Doing
    <2> QED BY <1>1, <1>4, <1>14, <2>1 DEF Start, Doing
<1>15. CASE Refused \/ FallsSilent
    <2>1. /\ result = "none" /\ fault' = TRUE /\ UNCHANGED <<job, at, offset, tries, runs>>
          /\ result' \in {"error", "silent"}
        BY <1>15 DEF Refused, FallsSilent, Botched, Fail
    <2>2. mem' \in [0..Space - 1 -> Int] /\ KeptIn(mem')
        <3>1. PICK k \in 0..Space : mem' = [c \in DOMAIN mem |-> IF c < k THEN Effect[c] ELSE mem[c]]
            BY <1>15 DEF Refused, FallsSilent, Botched
        <3> QED BY <2>1, <3>1, SomeOfIt
    <2>3. target' \in {"app", "held", "started"}
        BY <1>1, <1>15 DEF Refused, FallsSilent, Botched
    <2> QED BY <1>1, <1>5, <2>1, <2>2, <2>3
<1>16. CASE Retry
    <2>1. /\ UNCHANGED <<job, mem>> /\ at' = 1 /\ offset' = Origin(Exchanges[1]) /\ tries' = 0
          /\ result' = "none" /\ fault' = FALSE /\ target' = "app" /\ runs' = runs + 1
        BY <1>16 DEF Retry
    <2>2. 1 \in 1..Len(Exchanges)
        BY <1>2, SomeExchanges
    <2>3. Exchanges[1] \notin {"write", "pages", "verify"}
        BY <1>2, <2>2, Phases DEF WriteAt
    <2>4. offset' = 0
        BY <2>1, <2>3 DEF Origin
    <2>5. IdentifiedAt(at') /\ PlacedAt(at', offset')
        BY <2>1, <2>3 DEF IdentifiedAt, IdentifyAt, PlacedAt
    <2>6. /\ UNCHANGED job /\ mem' \in [0..Space - 1 -> Int] /\ KeptIn(mem')
          /\ at' \in 1..Len(Exchanges) /\ offset' \in Nat /\ tries' \in Nat /\ runs' \in Nat
        BY <1>1, <2>1, <2>2, <2>4
    <2>7. /\ fault' \in BOOLEAN
          /\ target' \in {"app", "held", "started"} /\ result' \in {"none", "done", "error", "silent"}
        BY <2>1
    <2> QED BY <2>5, <2>6, <2>7, KeepNext
<1>17. CASE Unplug
    <2>1. UNCHANGED <<job, at>> /\ UNCHANGED <<offset, tries, mem, target, fault, runs>> /\ result' = "error"
        BY <1>17 DEF Unplug, Fail
    <2> QED BY <1>1, <1>5, <2>1
<1>18. CASE Finished \/ UNCHANGED pagedVars
    BY <1>1, <1>5, <1>18 DEF Finished, pagedVars
<1> QED
    BY <1>6, <1>7, <1>8, <1>9, <1>10, <1>11, <1>12, <1>13, <1>14, <1>15, <1>16, <1>17, <1>18
       DEF PagedNext, PagedHost

\* The invariant of what is kept.
LEMMA PagedKeeps == PagedSpec => []KeepInv
BY PagedKeepInit, PagedKeepStep, PTL DEF PagedSpec

-----------------------------------------------------------------------------
(* The image comes *)

\* A multiple less another is a multiple.
LEMMA Difference ==
    ASSUME NEW u \in Nat \ {0}, NEW x \in Nat, NEW y \in Nat, x % u = 0, y % u = 0, x <= y
    PROVE  (y - x) % u = 0
<1> DEFINE p == x \div u  q == y \div u
<1>1. p \in Int /\ q \in Int /\ x = u * p /\ y = u * q
    BY Remainders
<1> HIDE DEF p, q
<1>2. y - x = u * (q - p) /\ q - p \in Int
    BY <1>1
<1> QED BY <1>2, MultipleOf

\* Within its reach a USBasp's bytes go to their own cells too, the padding of the last
\* word included.
LEMMA AllStraight ==
    ASSUME PagedTypeOK, Exchanges[at] = "write", PlacedAt(at, offset), IdentifiedAt(at), Unspoilt,
           NEW a \in Sent(offset)
    PROVE  Cell(base + a, base + offset) = base + a
<1>1. /\ Job /\ at \in 1..Len(Exchanges) /\ a \in Nat /\ a < offset + Bytes(offset)
      /\ offset \in Nat /\ Bytes(offset) \in Nat \ {0}
      /\ tool \in {"eeprom", "mega", "usbasp", "stm32", "swd", "daplink"}
      /\ Word \in Nat \ {0} /\ Page \in Nat \ {0} /\ IspReach \in Nat \ {0} /\ IspReach % Word = 0
      /\ PartSize \in Nat
    BY Straight, Writes, FlashAssumption DEF PagedTypeOK, Job
<1>2. CASE tool # "usbasp"
    BY <1>2, Straight
<1>3. CASE tool = "usbasp"
    <2>1. at = WriteAt /\ base = 0 /\ Length \in Nat \ {0} /\ End = Length
        BY <1>1, <1>3, Phases, BaseIs, ImageIs, EndIs
    <2>2. Length <= IspReach
        <3>1. Length <= PartSize
            BY <1>3, <2>1 DEF IdentifiedAt, Identifying, IdentifyAt, WriteAt, Fits
        <3> QED BY <1>1, <1>3, <2>1, <3>1 DEF Unspoilt, WithinReach
    <2>3. offset < Length /\ offset % Page = 0
        BY <1>1, <1>3, <2>1 DEF PlacedAt, Unit
    <2>4. offset % Word = 0
        BY <1>1, <2>3, PagesAreWords
    <2> DEFINE n == PageBytes(offset)  d == IspReach - offset
    <2>5. n \in Nat /\ n <= Length - offset
        <3>1. n = Min({Page, Length - offset}) /\ Length - offset \in Int /\ Page \in Int
            BY <1>1, <2>1 DEF PageBytes
        <3>2. n = IF Page <= Length - offset THEN Page ELSE Length - offset
            BY <3>1, MinOfTwo
        <3> HIDE DEF n
        <3> QED BY <1>1, <2>1, <2>3, <3>2
    <2>6. d \in Nat /\ d % Word = 0 /\ n <= d
        <3>1. offset <= IspReach /\ d \in Nat
            BY <1>1, <2>1, <2>2, <2>3
        <3>2. d % Word = 0
            BY <1>1, <2>4, <3>1, Difference
        <3>3. n <= d
            <4> HIDE DEF n
            <4> QED BY <1>1, <2>1, <2>2, <2>5
        <3> QED BY <3>1, <3>2, <3>3
    <2>7. Bytes(offset) = RoundUp(n, Word)
        BY <1>3 DEF Bytes, UsbaspBytes
    <2>8. Bytes(offset) <= d
        <3> HIDE DEF n, d
        <3> QED BY <1>1, <2>5, <2>6, <2>7, UpIs
    <2>9. a < IspReach
        BY <1>1, <2>8
    <2>10. Cell(base + a, base + offset) = a
        BY <1>3, <2>9, Straight
    <2> QED BY <1>1, <2>1, <2>10
<1> QED BY <1>2, <1>3

\* The image is inside the memory.
LEMMA Inside ==
    ASSUME Job, NEW a \in First..End - 1
    PROVE  a \in Nat /\ base + a \in 0..Space - 1
<1>1. /\ base \in Nat /\ (tool # "eeprom" => base = 0) /\ First \in Nat /\ End \in Nat /\ End <= Space
      /\ Space \in Nat /\ Length \in Nat \ {0} /\ Max(image) \in image /\ image \subseteq Nat
    BY BaseIs, FirstIs, EndIs, ImageIs, FlashAssumption
<1>2. a \in Nat /\ a < End
    BY <1>1
<1>3. CASE tool # "eeprom"
    BY <1>1, <1>2, <1>3
<1>4. CASE tool = "eeprom"
    <2>1. End = Length
        BY <1>4, EndIs
    <2>2. base + Max(image) < Space
        BY <1>1, <1>4, FlashAssumption DEF Job
    <2> DEFINE m == Max(image)
    <2>3. m \in Nat /\ Length = m + 1
        BY <1>1 DEF Length
    <2> HIDE DEF m
    <2>4. a <= m /\ base + m < Space
        BY <1>2, <2>1, <2>2, <2>3 DEF m
    <2> QED BY <1>1, <1>2, <2>3, <2>4
<1> QED BY <1>3, <1>4

\* A write puts its bytes where they are to be, and leaves those of the writes before.
LEMMA Burns ==
    ASSUME KeepInv, WriteProgress, Unspoilt, result = "none", Exchanges[at] = "write",
           tool = "eeprom" => \A a \in Sent(offset) : base + a \notin bad
    PROVE  /\ Advance(offset) < End => ProgressAt(at, Advance(offset), Programmed)
           /\ Advance(offset) >= End => WrittenTo(Programmed, End)
<1>1. /\ PagedTypeOK /\ IdentifiedAt(at) /\ PlacedAt(at, offset)
      /\ Job /\ at \in 1..Len(Exchanges) /\ offset \in Nat
      /\ tool \in {"eeprom", "mega", "usbasp", "stm32", "swd", "daplink"}
      /\ Page \in Nat \ {0} /\ base \in Nat /\ (tool # "eeprom" => base = 0)
    BY BaseIs, FlashAssumption DEF KeepInv, PagedTypeOK, Job
<1>2. First \in Nat /\ End \in Nat /\ First <= offset
    BY <1>1, FirstIs, EndIs DEF PlacedAt
<1>3. /\ Bytes(offset) \in Nat \ {0} /\ Advance(offset) \in Nat
      /\ Advance(offset) < End => offset + Bytes(offset) = Advance(offset)
      /\ Advance(offset) >= End => offset + Bytes(offset) >= End
    BY <1>1, Writes
<1>4. at = WriteAt /\ Exchanges[at] # "pages"
    BY <1>1, Phases
<1>5. WrittenTo(mem, offset) /\ (tool \in Erasing => ErasedFrom(mem, offset))
    BY <1>4 DEF WriteProgress, ProgressAt
<1>6. ASSUME NEW a \in Sent(offset) PROVE Cell(base + a, base + offset) = base + a /\ a \in Nat /\ offset <= a /\ a < offset + Bytes(offset)
    BY <1>1, AllStraight, Straight
<1>7. ASSUME NEW a \in First..End - 1, a < offset + Bytes(offset)
      PROVE  Programmed[base + a] = DataAt(a)
    <2> DEFINE c == base + a
    <2>1. a \in Nat /\ c \in 0..Space - 1
        BY <1>1, Inside
    <2>2. CASE a < offset
        <3>1. \A x \in Sent(offset) : Cell(base + x, base + offset) # c
            BY <1>1, <1>6, <2>1, <2>2
        <3>2. ~(tool = "mega" /\ RoundDown(c, Page) = offset)
            <4>1. c \in Nat /\ (tool = "mega" => c < offset)
                BY <1>1, <2>1, <2>2
            <4> HIDE DEF c
            <4>2. RoundDown(c, Page) <= c /\ RoundDown(c, Page) \in Nat
                BY <1>1, <4>1, DownIs
            <4> QED BY <1>1, <4>1, <4>2
        <3>3. Programmed[c] = mem[c]
            BY <1>1, <2>1, <3>1, <3>2, ProgrammedIs
        <3>4. mem[c] = DataAt(a)
            BY <1>1, <1>2, <1>5, <2>1, <2>2 DEF WrittenTo
        <3> QED BY <3>3, <3>4
    <2>3. CASE offset <= a
        <3>1. a \in Sent(offset)
            <4>1. a = offset + (a - offset) /\ a - offset \in 0..Bytes(offset) - 1
                BY <1>1, <1>3, <1>7, <2>1, <2>3
            <4> QED BY <4>1 DEF Sent
        <3>2. Programmed[c] = Takes(c, DataAt(a))
            <4>1. Cell(base + a, base + offset) = c
                BY <1>6, <3>1
            <4>2. PICK x \in Sent(offset) :
                      Cell(base + x, base + offset) = c /\ Programmed[c] = Takes(c, DataAt(x))
                BY <1>1, <2>1, <3>1, <4>1, ProgrammedIs
            <4>3. base + x = base + a /\ x \in Nat
                BY <1>6, <4>2
            <4>4. x = a
                BY <1>1, <2>1, <4>3
            <4> QED BY <4>2, <4>4
        <3>3. c \notin bad
            BY <3>1 DEF Unspoilt
        <3>4. tool \in {"eeprom", "mega"} \/ mem[c] = Blank
            <4>1. SUFFICES ASSUME tool \in Erasing PROVE mem[c] = Blank
                BY <1>1 DEF Erasing
            <4>2. c = a /\ offset <= c
                BY <1>1, <2>1, <2>3, <4>1 DEF Erasing
            <4>3. tool = "daplink" => Ours(c)
                BY <1>1, <3>1, <4>2, Straight, Within DEF Ours
            <4> QED BY <1>5, <2>1, <4>1, <4>2, <4>3 DEF ErasedFrom
        <3> QED BY <1>1, <2>1, <3>2, <3>3, <3>4, TakesIs
    <2> QED BY <1>1, <2>1, <2>2, <2>3
<1>8. ASSUME Advance(offset) < End PROVE ProgressAt(at, Advance(offset), Programmed)
    <2>1. offset + Bytes(offset) = Advance(offset)
        BY <1>3, <1>8
    <2>2. WrittenTo(Programmed, Advance(offset))
        BY <1>2, <1>3, <1>7, <1>8, <2>1 DEF WrittenTo
    <2>3. ASSUME tool \in Erasing PROVE ErasedFrom(Programmed, Advance(offset))
        <3> SUFFICES ASSUME NEW c \in 0..Space - 1, Advance(offset) <= c, tool = "daplink" => Ours(c)
                     PROVE  Programmed[c] = Blank
            BY DEF ErasedFrom
        <3>1. \A x \in Sent(offset) : Cell(base + x, base + offset) # c
            BY <1>1, <1>3, <1>6, <2>1, <2>3 DEF Erasing
        <3>2. Programmed[c] = mem[c]
            BY <1>1, <2>3, <3>1, ProgrammedIs DEF Erasing
        <3>3. offset <= c
            BY <1>1, <1>3, <2>1
        <3> QED BY <1>5, <2>3, <3>2, <3>3 DEF ErasedFrom
    <2> QED BY <1>4, <2>2, <2>3 DEF ProgressAt
<1>9. ASSUME Advance(offset) >= End PROVE WrittenTo(Programmed, End)
    BY <1>1, <1>2, <1>3, <1>7, <1>9 DEF WrittenTo
<1> QED BY <1>8, <1>9

\* A page erased, and the pages before it.
LEMMA PageGoes ==
    ASSUME KeepInv, result = "none", Exchanges[at] = "pages", PagesErased(mem, offset)
    PROVE  /\ offset + Page < End => PagesErased(Effect, offset + Page)
           /\ offset + Page >= End => ErasedFrom(Effect, First)
<1>1. /\ PagedTypeOK /\ PlacedAt(at, offset) /\ Job /\ at \in 1..Len(Exchanges) /\ offset \in Nat
      /\ tool \in {"eeprom", "mega", "usbasp", "stm32", "swd", "daplink"}
      /\ Page \in Nat \ {0} /\ DOMAIN mem = 0..Space - 1 /\ Space \in Nat
    BY FlashAssumption DEF KeepInv, PagedTypeOK, Job
<1>2. /\ tool = "daplink" /\ offset % Page = 0 /\ First \in Nat /\ End \in Nat
    BY <1>1, Phases, FirstIs, EndIs DEF PlacedAt
<1>3. Effect = [c \in 0..Space - 1 |->
                    IF c \in {x \in 0..Space - 1 : RoundDown(x, Page) = offset} THEN Blank ELSE mem[c]]
    BY <1>1 DEF Effect, Erased
<1>4. ASSUME NEW c \in 0..Space - 1, RoundDown(First, Page) <= RoundDown(c, Page),
             RoundDown(c, Page) < offset + Page
      PROVE  Effect[c] = Blank
    <2> DEFINE p == RoundDown(c, Page)  f == RoundDown(First, Page)
    <2>0. c \in Nat
        BY <1>1
    <2>1. p \in Nat /\ p % Page = 0 /\ f \in Nat
        BY <1>1, <1>2, <2>0, DownIs
    <2>2. CASE p = offset
        BY <1>3, <2>2
    <2>3. CASE p < offset
        <3>1. p \in f..offset - 1
            <4> HIDE DEF p, f
            <4>1. f <= p
                BY <1>4 DEF p, f
            <4> QED BY <1>1, <2>1, <2>3, <4>1
        <3>2. mem[c] = Blank
            BY <3>1 DEF PagesErased
        <3> QED BY <1>3, <3>2
    <2>4. CASE offset < p
        <3>1. p < offset + Page
            BY <1>4
        <3> HIDE DEF p
        <3>2. offset + Page <= p
            BY <1>1, <1>2, <2>1, <2>4, NextMultiple
        <3> QED BY <1>1, <2>1, <3>1, <3>2
    <2> HIDE DEF p
    <2> QED BY <1>1, <2>1, <2>2, <2>3, <2>4
<1>5. ASSUME NEW c \in 0..Space - 1
      PROVE  RoundDown(c, Page) \in Nat /\ RoundDown(First, Page) \in Nat
    <2>1. c \in Nat
        BY <1>1
    <2> QED BY <1>1, <1>2, <2>1, DownIs
<1>6. ASSUME offset + Page < End PROVE PagesErased(Effect, offset + Page)
    <2> SUFFICES ASSUME NEW c \in 0..Space - 1, RoundDown(c, Page) \in RoundDown(First, Page)..((offset + Page) - 1)
                 PROVE  Effect[c] = Blank
        BY DEF PagesErased
    <2> DEFINE p == RoundDown(c, Page)  f == RoundDown(First, Page)
    <2>1. p \in Nat /\ f \in Nat /\ p \in f..((offset + Page) - 1)
        BY <1>5
    <2>2. f <= p /\ p < offset + Page
        <3> HIDE DEF p, f
        <3> QED BY <1>1, <2>1
    <2> QED BY <1>4, <2>2
<1>7. ASSUME offset + Page >= End PROVE ErasedFrom(Effect, First)
    <2> SUFFICES ASSUME NEW c \in 0..Space - 1, Ours(c) PROVE Effect[c] = Blank
        BY <1>2 DEF ErasedFrom
    <2> DEFINE p == RoundDown(c, Page)  f == RoundDown(First, Page)
    <2>1. p \in Nat /\ f \in Nat /\ p \in f..End - 1
        BY <1>5 DEF Ours
    <2>2. f <= p /\ p < offset + Page
        <3> HIDE DEF p, f
        <3> QED BY <1>1, <1>2, <1>7, <2>1
    <2> QED BY <1>4, <2>2
<1> QED BY <1>6, <1>7

\* The flasher goes on to the next exchange with what that one begins from.
LEMMA Onward ==
    ASSUME KeepInv, result = "none", Proceed, IdentifiedAt(at + 1),
           at >= WriteAt => WrittenTo(mem', End),
           Exchanges[at] \in {"erase", "pages"} => ErasedFrom(mem', First)
    PROVE  /\ result' = "none" => ProgressAt(at', offset', mem')
           /\ at' > WriteAt => WrittenTo(mem', End)
<1>1. /\ Job /\ at \in 1..Len(Exchanges)
      /\ tool \in {"eeprom", "mega", "usbasp", "stm32", "swd", "daplink"}
      /\ Page \in Nat \ {0} /\ WriteAt \in Nat
    BY FlashAssumption DEF KeepInv, PagedTypeOK, Job, WriteAt
<1>2. /\ at' \in 1..Len(Exchanges) /\ result' \in {"none", "done"}
      /\ result' = "none" => at' = at + 1 /\ offset' = Origin(Exchanges[at + 1])
      /\ result' = "done" => at' = at
    BY Proceeds
<1>3. First \in Nat /\ RoundDown(First, Page) \in Nat
    BY <1>1, FirstIs, DownIs
<1>4. at' > WriteAt => at >= WriteAt
    BY <1>1, <1>2
<1>5. ASSUME result' = "none" PROVE ProgressAt(at', offset', mem')
    <2>1. ASSUME Exchanges[at'] = "pages" PROVE PagesErased(mem', offset')
        <3>1. offset' = RoundDown(First, Page)
            BY <1>2, <1>5, <2>1 DEF Origin
        <3>2. RoundDown(First, Page)..offset' - 1 = {}
            <4> DEFINE f == RoundDown(First, Page)
            <4>1. f \in Nat /\ offset' = f
                BY <1>3, <3>1
            <4> HIDE DEF f
            <4>2. f..offset' - 1 = {}
                BY <4>1
            <4> QED BY <4>2 DEF f
        <3> QED BY <3>2 DEF PagesErased
    <2>2. ASSUME at' = WriteAt PROVE WrittenTo(mem', offset') /\ (tool \in Erasing => ErasedFrom(mem', offset'))
        <3>1. Exchanges[at'] = "write"
            BY <1>1, <1>2, <2>2, Phases
        <3>2. offset' = First
            BY <1>2, <1>5, <3>1 DEF Origin
        <3>3. WrittenTo(mem', offset')
            BY <1>3, <3>2 DEF WrittenTo
        <3>4. at = WriteAt - 1
            BY <1>1, <1>2, <1>5, <2>2
        <3>5. tool \in Erasing => Exchanges[at] \in {"erase", "pages"}
            BY <1>1, <3>4, Phases DEF Erasing
        <3> QED BY <3>2, <3>3, <3>5
    <2> QED BY <2>1, <2>2 DEF ProgressAt
<1> QED BY <1>4, <1>5

\* The next state's progress, in the terms of this one.
LEMMA ProgressNext ==
    ASSUME KeepInv, UNCHANGED job,
           Unspoilt => /\ result' = "none" => ProgressAt(at', offset', mem')
                       /\ at' > WriteAt => WrittenTo(mem', End)
    PROVE  WriteProgress'
<1> USE JobSame
<1> SUFFICES ASSUME Unspoilt
             PROVE  (/\ result = "none" => ProgressAt(at, offset, mem)
                     /\ at > WriteAt => WrittenTo(mem, End))'
    BY DEF WriteProgress
<1>1. ASSUME at' > WriteAt PROVE WrittenTo(mem, End)'
    BY <1>1 DEF WrittenTo, DataAt, Blank
<1>2. ASSUME result' = "none" PROVE ProgressAt(at, offset, mem)'
    <2>1. ProgressAt(at', offset', mem')
        BY <1>2
    <2>2. (Exchanges[at] = "pages")' => PagesErased(mem, offset)'
        BY <2>1 DEF ProgressAt, PagesErased, RoundDown, Blank
    <2>3. (at = WriteAt)' => WrittenTo(mem, offset)'
        BY <2>1 DEF ProgressAt, WrittenTo, DataAt, Blank
    <2>4. (at = WriteAt)' => (tool \in Erasing => ErasedFrom(mem, offset))'
        BY <2>1 DEF ProgressAt, ErasedFrom, Erasing, Ours, RoundDown, Blank
    <2> QED BY <2>2, <2>3, <2>4 DEF ProgressAt
<1> QED BY <1>1, <1>2

\* An exchange that is neither an erasure nor a write leaves the memory alone.
LEMMA EffectNone ==
    ASSUME KeepInv, at > WriteAt
    PROVE  Effect = mem
<1>1. at \in 1..Len(Exchanges) /\ tool \in {"eeprom", "mega", "usbasp", "stm32", "swd", "daplink"} /\ WriteAt \in Nat
    BY FlashAssumption DEF KeepInv, PagedTypeOK, Job, WriteAt
<1>2. Exchanges[at] \notin {"erase", "pages", "write"}
    BY <1>1, Phases
<1> QED BY <1>2 DEF Effect

\* A memory that stays holds what it held.
LEMMA Stays ==
    ASSUME KeepInv, WriteProgress, Unspoilt, result = "none", mem' = mem,
           Exchanges[at] \notin {"erase", "pages", "write"}
    PROVE  /\ at >= WriteAt => WrittenTo(mem', End)
           /\ Exchanges[at] \in {"erase", "pages"} => ErasedFrom(mem', First)
<1>1. at \in 1..Len(Exchanges) /\ tool \in {"eeprom", "mega", "usbasp", "stm32", "swd", "daplink"} /\ WriteAt \in Nat
    BY FlashAssumption DEF KeepInv, PagedTypeOK, Job, WriteAt
<1>2. at # WriteAt
    BY <1>1, Phases
<1> QED BY <1>1, <1>2 DEF WriteProgress

\* Each step keeps the progress.
LEMMA ProgressStep == KeepInv /\ WriteProgress /\ [PagedNext]_pagedVars => WriteProgress'
<1> SUFFICES ASSUME KeepInv, WriteProgress, [PagedNext]_pagedVars PROVE WriteProgress'
    OBVIOUS
<1>1. /\ at \in 1..Len(Exchanges) /\ Job /\ WriteAt \in Nat
      /\ tool \in {"eeprom", "mega", "usbasp", "stm32", "swd", "daplink"}
      /\ (result = "none" => PlacedAt(at, offset))
    BY FlashAssumption DEF KeepInv, PagedTypeOK, Job, WriteAt
<1>2. First \in Nat /\ End \in Nat /\ Page \in Nat \ {0} /\ offset \in Nat
    BY <1>1, FirstIs, EndIs, FlashAssumption DEF KeepInv, PagedTypeOK
\* an exchange that leaves the memory and goes on
<1>3. ASSUME result = "none", Proceed, Exchanges[at] \notin {"erase", "pages", "write"},
             IdentifiedAt(at + 1), UNCHANGED <<job, mem>>
      PROVE  WriteProgress'
    <2>1. mem' = mem /\ UNCHANGED job
        BY <1>3
    <2> SUFFICES ASSUME Unspoilt
                 PROVE  /\ result' = "none" => ProgressAt(at', offset', mem')
                        /\ at' > WriteAt => WrittenTo(mem', End)
        BY <2>1, ProgressNext
    <2>2. /\ at >= WriteAt => WrittenTo(mem', End)
          /\ Exchanges[at] \in {"erase", "pages"} => ErasedFrom(mem', First)
        BY <1>3, <2>1, Stays
    <2> QED BY <1>3, <2>2, Onward
\* one that leaves it and stays, or fails
<1>4. ASSUME UNCHANGED <<job, at, mem>>,
             result' # "none" \/ (result = "none" /\ (Exchanges[at] \in {"write", "pages"} => offset' = offset))
      PROVE  WriteProgress'
    <2>1. mem' = mem /\ at' = at /\ UNCHANGED job
        BY <1>4
    <2> SUFFICES ASSUME Unspoilt
                 PROVE  /\ result' = "none" => ProgressAt(at', offset', mem')
                        /\ at' > WriteAt => WrittenTo(mem', End)
        BY <2>1, ProgressNext
    <2>2. at > WriteAt => WrittenTo(mem, End)
        BY DEF WriteProgress
    <2>3. ASSUME result' = "none" PROVE ProgressAt(at, offset', mem)
        <3>1. ProgressAt(at, offset, mem) /\ (Exchanges[at] \in {"write", "pages"} => offset' = offset)
            BY <1>4, <2>3 DEF WriteProgress
        <3>2. at = WriteAt => Exchanges[at] = "write"
            BY <1>1, Phases
        <3> QED BY <3>1, <3>2 DEF ProgressAt
    <2> QED BY <2>1, <2>2, <2>3
\* one that fails having changed it, before the image is written
<1>5. ASSUME UNCHANGED <<job, at>>, result' # "none", at <= WriteAt
      PROVE  WriteProgress'
    <2>1. at' = at /\ UNCHANGED job
        BY <1>5
    <2>2. ~(at' > WriteAt)
        BY <1>1, <1>5, <2>1
    <2> QED BY <1>5, <2>1, <2>2, ProgressNext
<1>6. CASE Ask
    <2>1. IdentifiedAt(at + 1)
        BY <1>6, PastIdentify DEF Ask, Doing
    <2> QED BY <1>3, <1>6, <2>1 DEF Ask, Doing
<1>7. CASE Halt
    <2>1. IdentifiedAt(at + 1)
        BY <1>7, PastIdentify DEF Halt, Doing
    <2> QED BY <1>3, <1>7, <2>1 DEF Halt, Doing
<1>8. CASE Enable
    <2>1. IdentifiedAt(at + 1) /\ result = "none" /\ Exchanges[at] = "sync" /\ UNCHANGED <<job, mem>>
        BY <1>8, PastIdentify DEF Enable, Doing
    <2>2. CASE Proceed
        BY <1>3, <2>1, <2>2
    <2>3. CASE tries' = tries + 1 /\ (IF tries' < Sync THEN UNCHANGED <<at, offset, result, fault>>
                                                       ELSE Fail /\ fault' = TRUE)
        <3>1. UNCHANGED <<job, at, mem>>
            BY <2>1, <2>3 DEF Fail
        <3>2. result' # "none" \/ offset' = offset
            BY <2>3 DEF Fail
        <3> QED BY <1>4, <2>1, <3>1, <3>2
    <2> QED BY <1>8, <2>2, <2>3 DEF Enable
<1>9. CASE Identify
    <2>1. CASE chip = "right" /\ Fits
        <3>1. IdentifiedAt(at + 1)
            BY <2>1 DEF IdentifiedAt
        <3> QED BY <1>3, <1>9, <2>1, <3>1 DEF Identify, Doing
    <2>2. CASE ~(chip = "right" /\ Fits)
        <3>1. Fail
            BY <1>9, <2>2 DEF Identify
        <3> QED BY <1>4, <1>9, <3>1 DEF Identify, Fail
    <2> QED BY <2>1, <2>2
<1>10. CASE Erase
    <2>1. /\ IdentifiedAt(at + 1) /\ result = "none" /\ Exchanges[at] = "erase"
          /\ UNCHANGED job /\ mem' = Effect
        BY <1>10, PastIdentify DEF Erase, Doing
    <2>2. at = WriteAt - 1 /\ tool \in {"usbasp", "stm32", "swd"}
        BY <1>1, <2>1, Phases
    <2>3. CASE Fail
        BY <1>1, <1>5, <2>1, <2>2, <2>3 DEF Fail
    <2>4. CASE Proceed
        <3>1. ErasedFrom(mem', First)
            <4>1. Effect = [c \in DOMAIN mem |-> Blank]
                BY <2>1 DEF Effect, Erased
            <4>2. DOMAIN mem = 0..Space - 1
                BY DEF KeepInv, PagedTypeOK
            <4> QED BY <2>1, <4>1, <4>2 DEF ErasedFrom
        <3>2. ~(at >= WriteAt)
            BY <1>1, <2>2
        <3> QED BY <2>1, <2>4, <3>1, <3>2, Onward, ProgressNext
    <2> QED BY <1>10, <2>3, <2>4 DEF Erase
<1>11. CASE ErasePage
    <2>1. /\ IdentifiedAt(at + 1) /\ result = "none" /\ Exchanges[at] = "pages"
          /\ UNCHANGED job /\ mem' = Effect
        BY <1>11, PastIdentify DEF ErasePage, Doing
    <2>2. at = WriteAt - 1
        BY <1>1, <2>1, Phases
    <2>3. ~(at >= WriteAt) /\ ~(at > WriteAt)
        BY <1>1, <2>2
    <2> SUFFICES ASSUME Unspoilt
                 PROVE  /\ result' = "none" => ProgressAt(at', offset', mem')
                        /\ at' > WriteAt => WrittenTo(mem', End)
        BY <2>1, ProgressNext
    <2>4. PagesErased(mem, offset)
        BY <2>1 DEF WriteProgress, ProgressAt
    <2>5. CASE offset + Page < End
        <3>1. offset' = offset + Page /\ at' = at
            BY <1>11, <2>5 DEF ErasePage
        <3>2. PagesErased(mem', offset')
            BY <2>1, <2>4, <2>5, <3>1, PageGoes
        <3>3. ProgressAt(at', offset', mem')
            BY <1>1, <2>2, <3>1, <3>2 DEF ProgressAt
        <3> QED BY <2>3, <3>1, <3>3
    <2>6. CASE ~(offset + Page < End)
        <3>1. Proceed
            BY <1>11, <2>6 DEF ErasePage
        <3>2. offset + Page >= End
            BY <1>2, <2>6
        <3>3. ErasedFrom(mem', First)
            BY <2>1, <2>4, <3>2, PageGoes
        <3> QED BY <2>1, <2>3, <3>1, <3>3, Onward
    <2> QED BY <2>5, <2>6
<1>12. CASE Write
    <2>1. /\ IdentifiedAt(at + 1) /\ result = "none" /\ Exchanges[at] = "write"
          /\ UNCHANGED job /\ mem' = Programmed
        BY <1>12, PastIdentify DEF Write, Doing
    <2>2. at = WriteAt
        BY <1>1, <2>1, Phases
    <2> DEFINE Worn == tool = "eeprom" /\ \E a \in Sent(offset) : base + a \in bad
    <2>3. CASE Worn
        <3>1. Fail
            BY <1>12, <2>3 DEF Write
        <3> QED BY <1>1, <1>5, <2>1, <2>2, <3>1 DEF Fail
    <2>4. CASE ~Worn
        <3> SUFFICES ASSUME Unspoilt
                     PROVE  /\ result' = "none" => ProgressAt(at', offset', mem')
                            /\ at' > WriteAt => WrittenTo(mem', End)
            BY <2>1, ProgressNext
        <3>1. /\ Advance(offset) < End => ProgressAt(at, Advance(offset), Programmed)
              /\ Advance(offset) >= End => WrittenTo(Programmed, End)
            BY <2>1, <2>4, Burns
        <3>2. Advance(offset) \in Nat
            BY <1>1, <2>1, Writes DEF KeepInv
        <3>3. CASE Advance(offset) < End
            <4>1. offset' = Advance(offset) /\ at' = at
                BY <1>12, <2>4, <3>3 DEF Write
            <4>2. ~(at' > WriteAt)
                BY <1>1, <2>2, <4>1
            <4> QED BY <2>1, <3>1, <3>3, <4>1, <4>2
        <3>4. CASE ~(Advance(offset) < End)
            <4>1. Proceed
                BY <1>12, <2>4, <3>4 DEF Write
            <4>2. WrittenTo(mem', End)
                BY <1>2, <2>1, <3>1, <3>2, <3>4
            <4> QED BY <2>1, <4>1, <4>2, Onward
        <3> QED BY <3>3, <3>4
    <2> QED BY <2>3, <2>4
<1>13. CASE ReadBack
    <2>1. IdentifiedAt(at + 1) /\ result = "none" /\ Exchanges[at] = "verify" /\ UNCHANGED <<job, mem>>
        BY <1>13, PastIdentify DEF ReadBack, Doing
    <2>2. CASE Fail
        BY <1>4, <2>1, <2>2 DEF Fail
    <2>3. CASE UNCHANGED <<at, result>>
        BY <1>4, <2>1, <2>3
    <2>4. CASE Proceed
        BY <1>3, <2>1, <2>4
    <2> QED BY <1>13, <2>2, <2>3, <2>4 DEF ReadBack
<1>14. CASE Start
    <2>1. IdentifiedAt(at + 1)
        BY <1>14, PastIdentify DEF Start, Doing
    <2> QED BY <1>3, <1>14, <2>1 DEF Start, Doing
<1>15. CASE Refused \/ FallsSilent
    <2>1. result = "none" /\ UNCHANGED <<job, at>> /\ result' # "none"
        BY <1>15 DEF Refused, FallsSilent, Botched, Fail
    <2>2. CASE at <= WriteAt
        BY <1>5, <2>1, <2>2
    <2>3. CASE at > WriteAt
        <3>1. PICK k \in 0..Space : mem' = [c \in DOMAIN mem |-> IF c < k THEN Effect[c] ELSE mem[c]]
            BY <1>15 DEF Refused, FallsSilent, Botched
        <3>2. Effect = mem /\ mem \in [0..Space - 1 -> Int]
            BY <2>3, EffectNone DEF KeepInv, PagedTypeOK
        <3>3. mem' = mem
            BY <3>1, <3>2
        <3> QED BY <1>4, <2>1, <3>3
    <2> QED BY <1>1, <2>2, <2>3
<1>16. CASE Retry
    <2>1. /\ UNCHANGED job /\ at' = 1 /\ 1 \in 1..Len(Exchanges)
        BY <1>1, <1>16, SomeExchanges DEF Retry
    <2>2. Exchanges[1] # "pages" /\ 1 # WriteAt /\ ~(1 > WriteAt)
        BY <1>1, <2>1, Phases DEF WriteAt
    <2>3. ProgressAt(at', offset', mem') /\ ~(at' > WriteAt)
        BY <2>1, <2>2 DEF ProgressAt
    <2> QED BY <2>1, <2>3, ProgressNext
<1>17. CASE Unplug
    <2>1. UNCHANGED <<job, at, mem>> /\ result' # "none"
        BY <1>17 DEF Unplug, Fail
    <2> QED BY <1>4, <2>1
<1>18. CASE Finished \/ UNCHANGED pagedVars
    <2>1. UNCHANGED <<job, at, mem>> /\ offset' = offset /\ result' = result
        BY <1>18 DEF Finished, pagedVars
    <2> QED BY <1>4, <2>1
<1> QED
    BY <1>6, <1>7, <1>8, <1>9, <1>10, <1>11, <1>12, <1>13, <1>14, <1>15, <1>16, <1>17, <1>18
       DEF PagedNext, PagedHost

\* A target is set going, and a flash is over, in the last exchange.
LEMMA EndsStep == KeepInv /\ EndsLast /\ [PagedNext]_pagedVars => EndsLast'
<1> SUFFICES ASSUME KeepInv, EndsLast, [PagedNext]_pagedVars PROVE EndsLast'
    OBVIOUS
<1>1. /\ at \in 1..Len(Exchanges) /\ target \in {"app", "held", "started"}
      /\ tool \in {"eeprom", "mega", "usbasp", "stm32", "swd", "daplink"}
    BY FlashAssumption DEF KeepInv, PagedTypeOK, Job
<1>2. Exchanges[at] = "start" <=> at = Len(Exchanges) /\ tool \in {"stm32", "swd", "daplink"}
    BY <1>1, Phases
<1>3. ASSUME UNCHANGED job,
             result' = "done" => at' = Len(Exchanges),
             target' = "started" => at' = Len(Exchanges) /\ tool \in {"stm32", "swd", "daplink"}
      PROVE  EndsLast'
    BY <1>3, JobSame DEF EndsLast
<1>4. ASSUME result = "none", Proceed PROVE /\ result' = "done" => at' = Len(Exchanges)
                                            /\ at = Len(Exchanges) => at' = at
    BY <1>4 DEF Proceed
<1>5. ASSUME Fail PROVE result' # "done" /\ at' = at
    BY <1>5 DEF Fail
<1>6. CASE PagedHost
    <2>1. result = "none" /\ UNCHANGED job
        BY <1>6 DEF PagedHost, Ask, Halt, Enable, Identify, Erase, ErasePage, Write, ReadBack, Start, Doing
    <2>2. Proceed \/ Fail \/ UNCHANGED <<at, result>>
        BY <1>6 DEF PagedHost, Ask, Halt, Enable, Identify, Erase, ErasePage, Write, ReadBack, Start
    <2>3. target' = "started" => at = Len(Exchanges) /\ tool \in {"stm32", "swd", "daplink"}
        BY <1>2, <1>6 DEF EndsLast, PagedHost, Ask, Halt, Enable, Identify, Erase, ErasePage, Write, ReadBack, Start, Doing
    <2>4. at = Len(Exchanges) => at' = at
        BY <1>4, <1>5, <2>1, <2>2
    <2>5. result' = "done" => at' = Len(Exchanges)
        BY <1>4, <1>5, <2>1, <2>2
    <2> QED BY <1>3, <2>1, <2>3, <2>4, <2>5
<1>7. CASE Refused \/ FallsSilent
    <2>1. UNCHANGED <<job, at>> /\ result' # "done"
        BY <1>7 DEF Refused, FallsSilent, Botched, Fail
    <2>2. target' = "started" => target = "started" \/ Exchanges[at] = "start"
        BY <1>7 DEF Refused, FallsSilent, Botched
    <2> QED BY <1>2, <1>3, <2>1, <2>2 DEF EndsLast
<1>8. CASE Retry
    BY <1>3, <1>8 DEF Retry
<1>9. CASE Unplug
    BY <1>3, <1>9 DEF Unplug, Fail, EndsLast
<1>10. CASE Finished \/ UNCHANGED pagedVars
    BY <1>3, <1>10 DEF Finished, pagedVars, EndsLast
<1> QED BY <1>6, <1>7, <1>8, <1>9, <1>10 DEF PagedNext

\* The Mega and, within its reach, a USBasp read back the cells of the image.
LEMMA ReadsTheirOwn ==
    ASSUME KeepInv, ReadsBack, Exchanges[at] = "verify", result = "none",
           NEW a \in offset..Min({offset + Page, Length}) - 1
    PROVE  Cell(a, offset) = a
<1>1. /\ Job /\ at \in 1..Len(Exchanges) /\ IdentifiedAt(at) /\ PlacedAt(at, offset)
      /\ tool \in {"mega", "usbasp"} /\ Page \in Nat \ {0} /\ IspReach \in Nat \ {0} /\ PartSize \in Nat
      /\ offset \in Nat
    BY FlashAssumption DEF KeepInv, PagedTypeOK, ReadsBack
<1>2. at = 6 /\ Length \in Nat
    BY <1>1, Phases, ImageIs
<1>3. a \in Nat /\ a < Length
    <2>1. Min({offset + Page, Length}) = IF offset + Page <= Length THEN offset + Page ELSE Length
        BY <1>1, <1>2, MinOfTwo
    <2> DEFINE m == Min({offset + Page, Length})
    <2>2. m \in Nat /\ m <= Length /\ a \in offset..m - 1
        BY <1>1, <1>2, <2>1
    <2> HIDE DEF m
    <2> QED BY <1>1, <1>2, <2>2
<1>4. CASE tool = "mega"
    BY <1>4 DEF Cell
<1>5. CASE tool = "usbasp"
    <2>1. Length <= PartSize /\ PartSize <= IspReach
        BY <1>1, <1>2, <1>5 DEF ReadsBack, WithinReach, IdentifiedAt, Identifying, IdentifyAt, Fits
    <2>2. a < IspReach
        BY <1>1, <1>2, <1>3, <2>1
    <2>3. a % IspReach = a
        BY <1>1, <1>3, <2>2
    <2> QED BY <1>5, <2>3 DEF Cell, IspCell
<1> QED BY <1>1, <1>4, <1>5

\* Each step keeps what has been compared.
LEMMA ComparedStep == KeepInv /\ Compared /\ EndsLast /\ [PagedNext]_pagedVars => Compared'
<1> SUFFICES ASSUME KeepInv, Compared, EndsLast, [PagedNext]_pagedVars PROVE Compared'
    OBVIOUS
<1>1. /\ at \in 1..Len(Exchanges) /\ Job /\ (result = "none" => PlacedAt(at, offset))
      /\ tool \in {"eeprom", "mega", "usbasp", "stm32", "swd", "daplink"}
      /\ result \in {"none", "done", "error", "silent"}
    BY FlashAssumption DEF KeepInv, PagedTypeOK, Job
<1>2. First \in Nat /\ Length \in Nat \ {0} /\ Page \in Nat \ {0} /\ offset \in Nat
    BY <1>1, FirstIs, ImageIs, FlashAssumption DEF KeepInv, PagedTypeOK
\* in the terms of this state
<1>3. ASSUME UNCHANGED job,
             ReadsBack => /\ result' = "none" /\ Exchanges[at'] = "verify" => WrittenTo(mem', offset')
                          /\ at' > 6 \/ result' = "done" => WrittenTo(mem', Length)
      PROVE  Compared'
    <2> USE JobSame
    <2>1. ReadsBack' <=> ReadsBack
        BY <1>3 DEF ReadsBack, WithinReach
    <2>2. SUFFICES ASSUME ReadsBack
                   PROVE  (/\ result = "none" /\ Exchanges[at] = "verify" => WrittenTo(mem, offset)
                           /\ at > 6 \/ result = "done" => WrittenTo(mem, Length))'
        BY <2>1 DEF Compared, ReadsBack
    <2>3. ASSUME result' = "none", Exchanges'[at'] = "verify" PROVE WrittenTo(mem, offset)'
        BY <1>3, <2>2, <2>3 DEF WrittenTo, DataAt, Blank
    <2>4. ASSUME at' > 6 \/ result' = "done" PROVE WrittenTo(mem, Length)'
        BY <1>3, <2>2, <2>4 DEF WrittenTo, DataAt, Blank
    <2> QED BY <2>3, <2>4
\* going on
<1>4. ASSUME result = "none", Proceed, IdentifiedAt(at + 1), UNCHANGED job,
             ReadsBack /\ at >= 6 => WrittenTo(mem', Length)
      PROVE  Compared'
    <2> SUFFICES ASSUME ReadsBack
                 PROVE  /\ result' = "none" /\ Exchanges[at'] = "verify" => WrittenTo(mem', offset')
                        /\ at' > 6 \/ result' = "done" => WrittenTo(mem', Length)
        BY <1>3, <1>4
    <2>1. /\ at' \in 1..Len(Exchanges) /\ result' \in {"none", "done"}
          /\ result' = "none" => at' = at + 1 /\ offset' = Origin(Exchanges[at + 1])
          /\ result' = "done" => at' = at /\ at = Len(Exchanges)
        BY <1>4, Proceeds
    <2>2. ASSUME result' = "none", Exchanges[at'] = "verify" PROVE WrittenTo(mem', offset')
        <3>1. offset' = 0 /\ First..0 - 1 = {}
            BY <1>2, <2>1, <2>2 DEF Origin
        <3> QED BY <3>1 DEF WrittenTo
    <2>3. ASSUME at' > 6 \/ result' = "done" PROVE WrittenTo(mem', Length)
        <3>1. tool \in {"mega", "usbasp"}
            BY DEF ReadsBack
        <3>2. Len(Exchanges) >= 6
            BY <3>1, Lengths6
        <3>3. at >= 6
            BY <1>1, <2>1, <2>3, <3>2
        <3> QED BY <1>4, <3>3
    <2> QED BY <2>2, <2>3
\* failing
<1>5. ASSUME UNCHANGED <<job, at>>, result' \in {"error", "silent"}, at > 6 => mem' = mem
      PROVE  Compared'
    <2>1. at' = at /\ UNCHANGED job
        BY <1>5
    <2> SUFFICES ASSUME ReadsBack, at > 6 PROVE WrittenTo(mem', Length)
        BY <1>3, <1>5, <2>1
    <2> QED BY <1>5 DEF Compared, ReadsBack
\* staying
<1>6. ASSUME UNCHANGED <<job, at, result>>, at > 6 \/ result = "done" => mem' = mem,
             Exchanges[at] = "verify" => offset' = offset /\ mem' = mem
      PROVE  Compared'
    <2>1. at' = at /\ result' = result /\ UNCHANGED job
        BY <1>6
    <2> SUFFICES ASSUME ReadsBack
                 PROVE  /\ result' = "none" /\ Exchanges[at'] = "verify" => WrittenTo(mem', offset')
                        /\ at' > 6 \/ result' = "done" => WrittenTo(mem', Length)
        BY <1>3, <2>1
    <2>2. /\ result = "none" /\ Exchanges[at] = "verify" => WrittenTo(mem, offset)
          /\ at > 6 \/ result = "done" => WrittenTo(mem, Length)
        BY DEF Compared, ReadsBack
    <2> QED BY <1>6, <2>1, <2>2
<1>7. ASSUME ReadsBack, Exchanges[at] \notin {"verify"}, at >= 6 PROVE at > 6 /\ Exchanges[at] = "ask"
    <2>1. at # 6
        BY <1>1, <1>7, Phases DEF ReadsBack
    <2>2. tool = "mega" /\ at = 7 /\ Len(Exchanges) = 7
        <3>1. tool \in {"mega", "usbasp"}
            BY <1>7 DEF ReadsBack
        <3>2. tool = "usbasp" => Len(Exchanges) = 6
            BY Lengths6
        <3>3. tool = "mega" => Len(Exchanges) = 7
            BY Lengths6
        <3> QED BY <1>1, <1>7, <2>1, <3>1, <3>2, <3>3
    <2>3. Exchanges = <<"ask", "ask", "write", "ask", "ask", "verify", "ask">>
        BY <2>2 DEF Exchanges, Mega
    <2> QED BY <2>2, <2>3
<1>8. ASSUME result = "none", Proceed, Exchanges[at] \notin {"verify"}, IdentifiedAt(at + 1), UNCHANGED job,
             Exchanges[at] = "ask" => mem' = mem
      PROVE  Compared'
    <2>1. ASSUME ReadsBack, at >= 6 PROVE WrittenTo(mem', Length)
        BY <1>7, <1>8, <2>1 DEF Compared, ReadsBack
    <2> QED BY <1>4, <1>8, <2>1
<1>9. CASE Ask
    <2>1. IdentifiedAt(at + 1)
        BY <1>9, PastIdentify DEF Ask, Doing
    <2> QED BY <1>8, <1>9, <2>1 DEF Ask, Doing
<1>10. CASE Halt
    <2>1. IdentifiedAt(at + 1)
        BY <1>10, PastIdentify DEF Halt, Doing
    <2> QED BY <1>8, <1>10, <2>1 DEF Halt, Doing
<1>11. CASE Enable
    <2>1. IdentifiedAt(at + 1) /\ result = "none" /\ Exchanges[at] = "sync" /\ UNCHANGED <<job, mem>>
        BY <1>11, PastIdentify DEF Enable, Doing
    <2>2. CASE Proceed
        BY <1>8, <2>1, <2>2
    <2>3. CASE Fail
        BY <1>5, <2>1, <2>3 DEF Fail
    <2>4. CASE UNCHANGED <<at, offset, result, fault>>
        BY <1>6, <2>1, <2>4
    <2> QED BY <1>11, <2>2, <2>3, <2>4 DEF Enable
<1>12. CASE Identify
    <2>1. CASE chip = "right" /\ Fits
        <3>1. IdentifiedAt(at + 1)
            BY <2>1 DEF IdentifiedAt
        <3> QED BY <1>8, <1>12, <2>1, <3>1 DEF Identify, Doing
    <2>2. CASE ~(chip = "right" /\ Fits)
        <3>1. Fail
            BY <1>12, <2>2 DEF Identify
        <3> QED BY <1>5, <1>12, <3>1 DEF Identify, Fail
    <2> QED BY <2>1, <2>2
<1>13. CASE Erase \/ ErasePage \/ Write
    <2>1. /\ IdentifiedAt(at + 1) /\ result = "none" /\ Exchanges[at] \in {"erase", "pages", "write"}
          /\ UNCHANGED job
        BY <1>13, PastIdentify DEF Erase, ErasePage, Write, Doing
    <2>2. ~(at > 6)
        <3>1. at <= WriteAt /\ WriteAt \in 2..5
            BY <1>1, <2>1, Phases DEF WriteAt
        <3> QED BY <1>1, <3>1
    <2>3. CASE Proceed
        BY <1>8, <2>1, <2>3
    <2>4. CASE Fail
        BY <1>5, <2>1, <2>2, <2>4 DEF Fail
    <2>5. CASE UNCHANGED <<at, result>>
        BY <1>6, <2>1, <2>2, <2>5
    <2> QED BY <1>13, <2>3, <2>4, <2>5 DEF Erase, ErasePage, Write
<1>14. CASE ReadBack
    <2>1. IdentifiedAt(at + 1) /\ result = "none" /\ Exchanges[at] = "verify" /\ mem' = mem /\ UNCHANGED job
        BY <1>14, PastIdentify DEF ReadBack, Doing
    <2>2. CASE Fail
        BY <1>5, <2>1, <2>2 DEF Fail
    <2> DEFINE m == Min({offset + Page, Length})
    <2>3. CASE \A a \in offset..m - 1 : mem[Cell(a, offset)] = DataAt(a)
        <3>1. ASSUME ReadsBack PROVE WrittenTo(mem, m)
            <4>1. WrittenTo(mem, offset) /\ base = 0 /\ First = 0
                BY <1>1, <2>1, <3>1, BaseIs, FirstIs DEF Compared, ReadsBack
            <4>2. ASSUME NEW a \in First..m - 1 PROVE mem[base + a] = DataAt(a)
                <5>1. m \in Nat /\ a \in Nat /\ a < m
                    <6>1. m = IF offset + Page <= Length THEN offset + Page ELSE Length
                        BY <1>2, MinOfTwo
                    <6>2. m \in Nat
                        BY <1>2, <6>1
                    <6> HIDE DEF m
                    <6> QED BY <1>2, <4>2, <6>2
                <5>2. CASE a < offset
                    BY <1>2, <4>1, <5>1, <5>2 DEF WrittenTo
                <5>3. CASE offset <= a
                    <6>1. a \in offset..m - 1
                        <7> HIDE DEF m
                        <7> QED BY <1>2, <5>1, <5>3
                    <6>2. Cell(a, offset) = a
                        BY <2>1, <3>1, <6>1, ReadsTheirOwn
                    <6>3. mem[a] = DataAt(a)
                        BY <2>3, <6>1, <6>2
                    <6> QED BY <4>1, <5>1, <6>3
                <5> QED BY <1>2, <5>1, <5>2, <5>3
            <4> QED BY <4>2 DEF WrittenTo
        <3>2. m = IF offset + Page <= Length THEN offset + Page ELSE Length
            BY <1>2, MinOfTwo
        <3> HIDE DEF m
        <3>3. CASE offset + Page < Length /\ offset' = offset + Page /\ UNCHANGED <<at, result>>
            <4>1. m = offset'
                BY <1>2, <3>2, <3>3
            <4>2. at' = at /\ result' = result /\ at = 6
                BY <1>1, <2>1, <3>3, Phases
            <4> QED BY <1>3, <2>1, <3>1, <4>1, <4>2
        <3>4. CASE ~(offset + Page < Length) /\ Proceed
            <4>1. m = Length
                BY <1>2, <3>2, <3>4
            <4> QED BY <1>4, <2>1, <3>1, <3>4, <4>1
        <3> QED BY <1>14, <2>2, <3>3, <3>4 DEF ReadBack
    <2>4. CASE \E a \in offset..m - 1 : mem[Cell(a, offset)] # DataAt(a)
        BY <1>14, <2>2, <2>4 DEF ReadBack
    <2> QED BY <2>3, <2>4
<1>15. CASE Start
    <2>1. IdentifiedAt(at + 1)
        BY <1>15, PastIdentify DEF Start, Doing
    <2> QED BY <1>8, <1>15, <2>1 DEF Start, Doing
<1>16. CASE Refused \/ FallsSilent
    <2>1. UNCHANGED <<job, at>> /\ result' \in {"error", "silent"}
        BY <1>16 DEF Refused, FallsSilent, Botched, Fail
    <2>2. ASSUME at > 6 PROVE mem' = mem
        <3>1. PICK k \in 0..Space : mem' = [c \in DOMAIN mem |-> IF c < k THEN Effect[c] ELSE mem[c]]
            BY <1>16 DEF Refused, FallsSilent, Botched
        <3>2. at > WriteAt
            BY <1>1, <2>2 DEF WriteAt
        <3>3. Effect = mem /\ mem \in [0..Space - 1 -> Int]
            BY <3>2, EffectNone DEF KeepInv, PagedTypeOK
        <3> QED BY <3>1, <3>3
    <2> QED BY <1>5, <2>1, <2>2
<1>17. CASE Retry
    <2>1. UNCHANGED job /\ at' = 1 /\ 1 \in 1..Len(Exchanges) /\ result' = "none"
        BY <1>1, <1>17, SomeExchanges DEF Retry
    <2>2. Exchanges[at'] # "verify" /\ ~(at' > 6)
        BY <1>1, <2>1, Phases
    <2> QED BY <1>3, <2>1, <2>2
<1>18. CASE Unplug
    <2>1. UNCHANGED <<job, at>> /\ result' = "error" /\ mem' = mem
        BY <1>18 DEF Unplug, Fail
    <2> QED BY <1>5, <2>1
<1>19. CASE Finished \/ UNCHANGED pagedVars
    <2>1. UNCHANGED <<job, at, result>> /\ offset' = offset /\ mem' = mem
        BY <1>19 DEF Finished, pagedVars
    <2> QED BY <1>6, <2>1
<1> QED
    BY <1>9, <1>10, <1>11, <1>12, <1>13, <1>14, <1>15, <1>16, <1>17, <1>18, <1>19
       DEF PagedNext, PagedHost

-----------------------------------------------------------------------------
(* PagedFlash: what holds *)

\* The invariant holds of every run.
LEMMA PagedInvariant == PagedSpec => []PagedInv
<1>1. PagedInit => PagedInv
    <2> SUFFICES ASSUME PagedInit PROVE PagedInv
        OBVIOUS
    <2>1. KeepInv
        BY PagedKeepInit
    <2>2. at = 1 /\ result = "none" /\ target = "app"
        BY DEF PagedInit
    <2>3. tool \in {"eeprom", "mega", "usbasp", "stm32", "swd", "daplink"} /\ at \in 1..Len(Exchanges)
        BY <2>1, FlashAssumption DEF KeepInv, PagedTypeOK, Job
    <2>4. Exchanges[at] \notin {"pages", "verify"} /\ at # WriteAt /\ ~(at > WriteAt) /\ ~(at > 6)
        BY <2>2, <2>3, Phases DEF WriteAt
    <2>5. WriteProgress /\ Compared /\ EndsLast
        BY <2>2, <2>4 DEF WriteProgress, ProgressAt, Compared, EndsLast
    <2> QED BY <2>1, <2>5 DEF PagedInv
<1>2. PagedInv /\ [PagedNext]_pagedVars => PagedInv'
    BY PagedKeepStep, ProgressStep, ComparedStep, EndsStep DEF PagedInv
<1> QED BY <1>1, <1>2, PTL DEF PagedSpec

\* NothingElseWritten (PagedFlash): whatever flasher, image and memory, and however its
\* attempts end, no cell is changed but the image's and its pages', and none at all of a part
\* that the flasher identifies and is not for (main loops of docs/flash.js).
THEOREM NothingElseIsWritten == PagedSpec => []NothingElseWritten
<1>1. KeepInv => NothingElseWritten
    <2> SUFFICES ASSUME KeepInv PROVE NothingElseWritten
        OBVIOUS
    <2>1. KeptIn(mem) /\ DOMAIN mem = 0..Space - 1
        BY DEF KeepInv, PagedTypeOK
    <2>2. RestKept
        BY <2>1 DEF RestKept, Changed, KeptIn, Rest
    <2>3. WrongPartUntouched
        BY <2>1 DEF WrongPartUntouched, KeptIn, Identifying
    <2> QED BY <2>2, <2>3 DEF NothingElseWritten
<1> QED BY <1>1, PagedKeeps, PTL

\* The writes are over when the last exchange comes.
LEMMA WritesComeFirst ==
    ASSUME KeepInv, at = Len(Exchanges)
    PROVE  at > WriteAt
<1>1. tool \in {"eeprom", "mega", "usbasp", "stm32", "swd", "daplink"}
    BY FlashAssumption DEF KeepInv, PagedTypeOK, Job
<1>2. CASE tool = "eeprom"
    <2>1. at = 3 /\ WriteAt = 2
        BY <1>2, Lengths6 DEF WriteAt
    <2> QED BY <2>1
<1>3. CASE tool = "mega"
    <2>1. at = 7 /\ WriteAt = 3
        BY <1>3, Lengths6 DEF WriteAt
    <2> QED BY <2>1
<1>4. CASE tool = "stm32"
    <2>1. at = 5 /\ WriteAt = 4
        BY <1>4, Lengths6 DEF WriteAt
    <2> QED BY <2>1
<1>5. CASE tool \in {"usbasp", "swd", "daplink"}
    <2>1. at = 6 /\ WriteAt = 5
        BY <1>5, Lengths6 DEF WriteAt
    <2> QED BY <2>1
<1> QED BY <1>1, <1>2, <1>3, <1>4, <1>5

\* StartedIsComplete (PagedFlash): an STM32 or an nRF that its flasher sets going has the whole
\* image, whatever an earlier attempt that failed left in its memory.
THEOREM StartedIsWhole == PagedSpec => []StartedIsComplete
<1>1. PagedInv => StartedIsComplete
    <2> SUFFICES ASSUME PagedInv, target = "started", bad = {} PROVE Written
        BY DEF StartedIsComplete
    <2>1. at = Len(Exchanges) /\ tool \in {"stm32", "swd", "daplink"}
        BY DEF PagedInv, EndsLast
    <2>2. at > WriteAt
        BY <2>1, WritesComeFirst DEF PagedInv
    <2>3. Unspoilt
        BY <2>1 DEF Unspoilt
    <2>4. WrittenTo(mem, End)
        BY <2>2, <2>3 DEF PagedInv, WriteProgress
    <2> QED BY <2>4 DEF WrittenTo, Written
<1> QED BY <1>1, PagedInvariant, PTL

\* ImageWritten (PagedFlash): a flasher that reports success has written every byte of the
\* image, on cells that work, and on any if it reads back; a part of a USBasp being one that
\* its 16-bit word addresses reach, as those up to 128 KB are.
THEOREM DoneIsWritten ==
    ASSUME WithinReach
    PROVE  PagedSpec => []ImageWritten
<1>1. PagedInv => ImageWritten
    <2> SUFFICES ASSUME PagedInv, result = "done",
                        bad = {} \/ tool \in {"eeprom", "mega", "usbasp"}
                 PROVE  Written
        BY DEF ImageWritten
    <2>1. at > WriteAt
        BY WritesComeFirst DEF PagedInv, EndsLast
    <2>2. WrittenTo(mem, End)
        <3>1. CASE bad = {} \/ tool = "eeprom"
            <4>1. Unspoilt
                BY <3>1 DEF Unspoilt
            <4> QED BY <2>1, <4>1 DEF PagedInv, WriteProgress
        <3>2. CASE tool \in {"mega", "usbasp"}
            <4>1. WrittenTo(mem, Length)
                BY <3>2 DEF PagedInv, Compared, ReadsBack
            <4>2. End = Length
                BY <3>2, EndIs DEF PagedInv, KeepInv, PagedTypeOK
            <4> QED BY <4>1, <4>2
        <3> QED BY <3>1, <3>2
    <2> QED BY <2>2 DEF WrittenTo, Written
<1> QED BY <1>1, PagedInvariant, PTL

\* GoodBoardIsPaged (PagedFlash): an attempt fails or hangs only if the board did, has a bad cell or
\* is not the part, or if the image does not fit; where no erasure outlasts the timeout.
THEOREM GoodBoardsArePaged ==
    ASSUME WithinReach, Slow = {FALSE}
    PROVE  PagedSpec => []GoodBoardIsPaged
<1>1. PagedInit => GoodBoardIsPaged
    BY DEF PagedInit, GoodBoardIsPaged
<1>2. PagedInv /\ GoodBoardIsPaged /\ [PagedNext]_pagedVars => GoodBoardIsPaged'
    <2> SUFFICES ASSUME PagedInv, GoodBoardIsPaged, [PagedNext]_pagedVars,
                        result' \in {"error", "silent"}
                 PROVE  fault' \/ chip' = "other" \/ bad' # {} \/ ~Fits'
        BY DEF GoodBoardIsPaged
    <2>1. UNCHANGED job
        BY DEF PagedNext, PagedHost, Ask, Halt, Enable, Identify, Erase, ErasePage, Write, ReadBack, Start,
               Refused, FallsSilent, Botched, Unplug, Retry, Finished, pagedVars
    <2>2. chip' = chip /\ bad' = bad /\ (Fits' <=> Fits) /\ slow = FALSE
        BY <2>1, JobSame DEF PagedInv, KeepInv, PagedTypeOK, Job
    <2>3. ASSUME Proceed, result = "none" PROVE FALSE
        BY <2>3 DEF Proceed
    <2>4. CASE Ask \/ Halt \/ Start \/ ErasePage
        BY <2>3, <2>4 DEF Ask, Halt, Start, ErasePage, Doing
    <2>5. CASE Enable
        BY <2>3, <2>5 DEF Enable, Doing
    <2>6. CASE Identify
        <3>1. chip = "other" \/ ~Fits
            BY <2>3, <2>6 DEF Identify, Doing, PagedInv, KeepInv, PagedTypeOK, Job
        <3> QED BY <2>2, <3>1
    <2>7. CASE Erase
        BY <2>2, <2>3, <2>7 DEF Erase, Doing
    <2>8. CASE Write
        <3>1. \E a \in Sent(offset) : base + a \in bad
            BY <2>3, <2>8 DEF Write, Doing
        <3> QED BY <2>2, <3>1
    <2>9. CASE ReadBack
        <3> SUFFICES ASSUME bad = {} PROVE FALSE
            BY <2>2
        <3>1. result = "none" /\ Exchanges[at] = "verify" /\ KeepInv
            BY <2>9 DEF ReadBack, Doing, PagedInv
        <3>2. PICK a \in offset..Min({offset + Page, Length}) - 1 : mem[Cell(a, offset)] # DataAt(a)
            BY <2>3, <2>9, <3>1 DEF ReadBack
        <3>3. /\ Job /\ at \in 1..Len(Exchanges) /\ PlacedAt(at, offset)
              /\ tool \in {"eeprom", "mega", "usbasp", "stm32", "swd", "daplink"}
              /\ Page \in Nat \ {0} /\ offset \in Nat
            BY <3>1, FlashAssumption DEF KeepInv, PagedTypeOK, Job
        <3>4. at = 6 /\ tool \in {"mega", "usbasp"}
            BY <3>1, <3>3, Phases
        <3>5. ReadsBack /\ Unspoilt /\ at > WriteAt /\ base = 0 /\ First = 0 /\ End = Length /\ Length \in Nat
            BY <3>3, <3>4, BaseIs, FirstIs, EndIs, ImageIs DEF ReadsBack, Unspoilt, WriteAt
        <3>6. Cell(a, offset) = a
            BY <3>1, <3>2, <3>5, ReadsTheirOwn
        <3>7. a \in First..End - 1
            <4> DEFINE m == Min({offset + Page, Length})
            <4>1. m = IF offset + Page <= Length THEN offset + Page ELSE Length
                BY <3>3, <3>5, MinOfTwo
            <4>2. a \in offset..m - 1
                BY <3>2
            <4> HIDE DEF m
            <4> QED BY <3>3, <3>5, <4>1, <4>2
        <3>8. mem[base + a] = DataAt(a)
            BY <3>5, <3>7 DEF PagedInv, WriteProgress, WrittenTo
        <3>9. base + a = a
            BY <3>5, <3>7
        <3> QED BY <3>2, <3>6, <3>8, <3>9
    <2>10. CASE Refused \/ FallsSilent
        BY <2>10 DEF Refused, FallsSilent, Botched
    <2>11. CASE Retry
        BY <2>11 DEF Retry
    <2>12. CASE Unplug \/ Finished \/ UNCHANGED pagedVars
        <3>1. result \in {"error", "silent"} /\ fault' = fault
            BY <2>12 DEF Unplug, Finished, pagedVars
        <3> QED BY <2>2, <3>1 DEF GoodBoardIsPaged
    <2> QED
        BY <2>4, <2>5, <2>6, <2>7, <2>8, <2>9, <2>10, <2>11, <2>12 DEF PagedNext, PagedHost
<1> QED BY <1>1, <1>2, PagedInvariant, PTL DEF PagedSpec

=============================================================================
