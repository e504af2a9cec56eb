----------------------------- MODULE ReplFlash ------------------------------
(***************************************************************************)
(* flashMicroPython: main.py written to a board that runs MicroPython,     *)
(* through its raw REPL. The program on the board is interrupted, the file *)
(* is opened, written a piece at a time and closed, its size is asked for, *)
(* and the board is told to start over. Every piece of code is acknowledged*)
(* and none is sent twice.                                                 *)
(*                                                                         *)
(* MicroPython is not in the repository: it is modelled from what flash.js *)
(* sends and waits for and the simulated board of its test.                *)
(***************************************************************************)
EXTENDS Integers, Sequences, SequencesExt

CONSTANTS
    Source,      \* the program, a sequence of bytes
    Piece,       \* `chunk`: bytes of one write
    Modes,       \* what the board may be doing when the flash begins
    MaxLost,     \* bytes lost or spoilt on the way to the board
    MaxRuns      \* flashes tried on one board

\* What a board may be doing: running a program that one interrupt stops, or
\* two, or none; sitting at a prompt; or left in raw mode by an earlier flash.
ReplAssumption ==
    /\ Modes \subseteq {"program", "catches", "stubborn", "repl", "raw"}
    /\ Piece \in Nat \ {0}
    /\ Source # <<>>

Garbled == "?"
Nothing == [op |-> "nothing", data |-> <<>>]

VARIABLES
    stage,     \* what the host is about, or how the flash ended
    at,        \* "interrupt", "send" or the marker it reads until
    offset,    \* bytes of the source sent
    printed,   \* the size the board has printed
    failure,   \* the board has printed a traceback
    toBoard,   \* code and control characters on the line
    fromBoard, \* what the board has said and the host has not read
    mode,      \* what the board is doing
    typed,     \* the code it has been sent and not told to run
    fd,        \* the file is open
    main,      \* main.py
    small,     \* the board has no room for the program
    sizes,     \* the board's os has `size`
    started,   \* main.py as it was when the board was last restarted by a flash
    lost, late, runs

host  == <<stage, at, offset, printed, failure>>
board == <<mode, typed, fd, main, small, sizes, started>>
vars  == <<host, toBoard, fromBoard, board, lost, late, runs>>

Over == stage \in {"done", "failed"}

Chunk == SubSeq(Source, offset + 1,
                IF offset + Piece < Len(Source) THEN offset + Piece ELSE Len(Source))

Control(c) == [op |-> c, data |-> <<>>]
Code == [op |-> stage, data |-> IF stage = "write" THEN Chunk ELSE <<>>]
Says(marker) == [says |-> marker, value |-> 0]

Init ==
    /\ stage = "enter" /\ at = "interrupt" /\ offset = 0 /\ printed = 0 /\ failure = FALSE
    /\ toBoard = <<>> /\ fromBoard = <<>>
    /\ mode \in Modes /\ typed = Nothing /\ fd = FALSE /\ main = <<>>
    /\ small \in BOOLEAN /\ sizes \in BOOLEAN /\ started = Source
    /\ lost = 0 /\ late = FALSE /\ runs = 1

-----------------------------------------------------------------------------
(* The host: RawRepl and flashMicroPython *)

\* enter: "the first stops a running program, the second lands in the REPL".
Interrupt ==
    /\ at = "interrupt" /\ ~Over
    /\ toBoard' = toBoard \o <<Control("ctrl-c"), Control("ctrl-c")>>
    /\ at' = "drain"
    /\ UNCHANGED <<stage, offset, printed, failure, fromBoard, board, lost, late, runs>>

\* What has arrived by now is dropped, not what is still to come.
Drain ==
    /\ at = "drain"
    /\ \E n \in 0..Len(fromBoard) : fromBoard' = SubSeq(fromBoard, n + 1, Len(fromBoard))
    /\ toBoard' = Append(toBoard, Control("ctrl-a"))
    /\ at' = "raw REPL"
    /\ UNCHANGED <<stage, offset, printed, failure, board, lost, late, runs>>

\* exec: the code and ctrl-d
Send ==
    /\ at = "send" /\ stage # "exit" /\ ~Over
    /\ toBoard' = toBoard \o <<Code, Control("ctrl-d")>>
    /\ at' = "OK"
    /\ UNCHANGED <<stage, offset, printed, failure, fromBoard, board, lost, late, runs>>

\* out of raw mode, and a restart; nothing is waited for
Exit ==
    /\ at = "send" /\ stage = "exit"
    /\ toBoard' = toBoard \o <<Control("ctrl-b"), Control("ctrl-d")>>
    /\ stage' = "done"
    /\ UNCHANGED <<at, offset, printed, failure, fromBoard, board, lost, late, runs>>

\* What follows a block of code that has run, or the prompt of raw mode.
Following ==
    CASE stage = "enter"  -> "create"
      [] stage = "create" -> "write"
      [] stage = "write"  -> IF offset + Piece < Len(Source) THEN "write" ELSE "close"
      [] stage = "close"  -> "size"
      [] stage = "size"   -> "exit"

Follows(next) ==
    /\ stage' = IF stage = "size" /\ printed # Len(Source) THEN "failed" ELSE next
    /\ at' = "send"
    /\ offset' = IF stage = "write" THEN offset + Piece ELSE offset

\* readUntil: what comes before the marker is skipped, but for what is printed
\* between OK and the two ctrl-d's that end the output and the errors.
Skip ==
    /\ Head(fromBoard).says # (IF at \in {"body", "error"} THEN "ctrl-d" ELSE at)
    /\ printed' = IF at = "body" /\ Head(fromBoard).says = "size"
                  THEN Head(fromBoard).value ELSE printed
    /\ failure' = (failure \/ (at = "error" /\ Head(fromBoard).says = "traceback"))
    /\ UNCHANGED <<stage, at, offset>>

Found ==
    /\ Head(fromBoard).says = IF at \in {"body", "error"} THEN "ctrl-d" ELSE at
    /\ UNCHANGED <<printed, failure>>
    /\ CASE at = "raw REPL" -> at' = ">" /\ UNCHANGED <<stage, offset>>
         [] at = "OK" -> at' = "body" /\ UNCHANGED <<stage, offset>>
         [] at = "body" -> at' = "error" /\ UNCHANGED <<stage, offset>>
         [] at = "error" -> /\ stage' = IF failure THEN "failed" ELSE stage
                            /\ at' = ">" /\ UNCHANGED offset
         [] at = ">" -> Follows(Following)

Reading == at \notin {"interrupt", "drain", "send"} /\ ~Over

ReadUntil ==
    /\ Reading /\ fromBoard # <<>>
    /\ Skip \/ Found
    /\ fromBoard' = Tail(fromBoard)
    /\ UNCHANGED <<toBoard, board, lost, late, runs>>

\* The marker does not come in time.
Timeout ==
    /\ Reading
    /\ stage' = "failed"
    /\ late' = (late \/ toBoard # <<>> \/ fromBoard # <<>>)
    /\ UNCHANGED <<at, offset, printed, failure, toBoard, fromBoard, board, lost, runs>>

\* Another attempt, on the board and the line as they are.
Retry ==
    /\ stage = "failed" /\ runs < MaxRuns
    /\ runs' = runs + 1
    /\ stage' = "enter" /\ at' = "interrupt" /\ offset' = 0 /\ printed' = 0 /\ failure' = FALSE
    /\ UNCHANGED <<toBoard, fromBoard, board, lost, late>>

Host == Interrupt \/ Drain \/ Send \/ Exit \/ ReadUntil

-----------------------------------------------------------------------------
(* MicroPython and the line *)

Hears(op) ==
    /\ toBoard # <<>> /\ Head(toBoard).op = op
    /\ toBoard' = Tail(toBoard)
    /\ UNCHANGED <<host, small, sizes, lost, late, runs>>

Answers(markers) == fromBoard' = fromBoard \o [i \in DOMAIN markers |-> Says(markers[i])]

Running == mode \in {"program", "catches", "stubborn"}

\* ctrl-c stops a program, or is caught by it, and empties what has been typed.
BoardStops ==
    /\ Hears("ctrl-c")
    /\ mode' = CASE mode = "catches" -> "program" [] mode = "program" -> "repl" [] OTHER -> mode
    /\ typed' = Nothing
    /\ IF mode \in {"program", "repl"} THEN Answers(<<"text", ">">>) ELSE UNCHANGED fromBoard
    /\ UNCHANGED <<fd, main, started>>

\* A running program takes everything else for its input.
BoardGoesOn ==
    /\ Running /\ toBoard # <<>> /\ Head(toBoard).op # "ctrl-c"
    /\ toBoard' = Tail(toBoard)
    /\ UNCHANGED <<host, fromBoard, board, lost, late, runs>>

BoardEntersRaw ==
    /\ ~Running /\ Hears("ctrl-a")
    /\ mode' = "raw" /\ typed' = Nothing
    /\ Answers(<<"raw REPL", ">">>)
    /\ UNCHANGED <<fd, main, started>>

BoardLeavesRaw ==
    /\ ~Running /\ Hears("ctrl-b")
    /\ mode' = "repl" /\ typed' = Nothing
    /\ Answers(<<"text", ">">>)
    /\ UNCHANGED <<fd, main, started>>

\* ctrl-d with nothing typed: everything starts over, and out of raw mode
\* main.py is run.
BoardRestarts ==
    /\ ~Running /\ typed = Nothing /\ Hears("ctrl-d")
    /\ fd' = FALSE
    /\ IF mode = "raw"
       THEN Answers(<<"OK", "raw REPL", ">">>) /\ UNCHANGED <<mode, started>>
       ELSE /\ mode' = "program" /\ started' = main
            /\ Answers(<<"text">>)
    /\ UNCHANGED <<typed, main>>

BoardIsTyped ==
    /\ mode = "raw"
    /\ \E op \in {"create", "write", "close", "size", "nonsense"} : Hears(op)
    /\ typed' = Head(toBoard)
    /\ UNCHANGED <<fromBoard, mode, fd, main, started>>

Succeeds == Answers(<<"OK", "ctrl-d", "ctrl-d", ">">>)
Raises == Answers(<<"OK", "ctrl-d", "traceback", "ctrl-d", ">">>)

Room == IF small THEN 1 ELSE Len(Source)

\* The code is run: a file without room takes what it can, or raises.
BoardRuns ==
    /\ mode = "raw" /\ typed # Nothing /\ Hears("ctrl-d")
    /\ typed' = Nothing
    /\ \/ typed.op = "create" /\ fd' = TRUE /\ main' = <<>> /\ Succeeds
       \/ /\ typed.op = "write" /\ fd
          /\ LET whole == main \o typed.data
             IN  \/ /\ main' = SubSeq(whole, 1, IF Len(whole) < Room THEN Len(whole) ELSE Room)
                    /\ Succeeds
                 \/ Len(whole) > Room /\ Raises /\ UNCHANGED main
          /\ UNCHANGED fd
       \/ typed.op = "close" /\ fd /\ fd' = FALSE /\ Succeeds /\ UNCHANGED main
       \/ /\ typed.op = "size" /\ sizes
          /\ fromBoard' = fromBoard \o <<Says("OK"), [says |-> "size", value |-> Len(main)],
                                         Says("ctrl-d"), Says("ctrl-d"), Says(">")>>
          /\ UNCHANGED <<fd, main>>
       \/ /\ \/ typed.op = "nonsense"
             \/ typed.op \in {"write", "close"} /\ ~fd
             \/ typed.op = "size" /\ ~sizes
          /\ Raises /\ UNCHANGED <<fd, main>>
    /\ UNCHANGED <<mode, started>>

\* A program prints; what it prints is no marker.
ProgramPrints ==
    /\ Running /\ (fromBoard # <<>> => Last(fromBoard).says # "text")
    /\ Answers(<<"text">>)
    /\ UNCHANGED <<host, toBoard, board, lost, late, runs>>

\* On the way to the board a character or a whole block is lost, or a byte of a
\* piece is, or is taken for another.
Lose ==
    /\ lost < MaxLost /\ toBoard # <<>> /\ lost' = lost + 1
    /\ LET sent == Head(toBoard)
           becomes(code) == toBoard' = <<code>> \o Tail(toBoard)
       IN  \/ toBoard' = Tail(toBoard)
           \/ sent.op \in {"create", "write", "close", "size"}
              /\ becomes([sent EXCEPT !.op = "nonsense"])
           \/ \E i \in DOMAIN sent.data :
                 \/ becomes([sent EXCEPT !.data = RemoveAt(@, i)])
                 \/ becomes([sent EXCEPT !.data[i] = Garbled])
    /\ UNCHANGED <<host, fromBoard, board, late, runs>>

Board == BoardStops \/ BoardGoesOn \/ BoardEntersRaw \/ BoardLeavesRaw \/ BoardRestarts
         \/ BoardIsTyped \/ BoardRuns

Next == Host \/ Timeout \/ Retry \/ Board \/ ProgramPrints \/ Lose

Spec == Init /\ [][Next]_vars

\* The page's event loop runs, deadlines pass and the board works.
FairSpec == Spec /\ WF_vars(Host) /\ WF_vars(Timeout) /\ WF_vars(Board)

-----------------------------------------------------------------------------

\* Byte for byte the source, but for bytes that were taken for others: only
\* the size is compared.
Whole(file) ==
    Len(file) = Len(Source) /\ \A i \in DOMAIN file : file[i] \in {Source[i], Garbled}

\* "A REPL that swallowed a chunk looks exactly like one that did not": what is
\* reported as written has every byte in its place, whatever was lost on the
\* way and whatever an earlier attempt has left on the line.
DoneMeansWritten == stage = "done" => Whole(main)

\* A board is only restarted by a flash with the whole program.
StartedIsComplete == Whole(started)

\* A board that hears and answers everything in time, whose program can be
\* interrupted, which has room and whose os knows `size`, is flashed; also after
\* a flash that failed.
GoodBoardIsFlashed ==
    stage = "failed" => lost > 0 \/ late \/ mode = "stubborn" \/ small \/ ~sizes

\* A flash ends, also one of a board that never stops printing.
Ends == ~Over ~> Over
=============================================================================
