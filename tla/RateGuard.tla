------------------------------ MODULE RateGuard ------------------------------
(***************************************************************************)
(* The compile endpoint's guard: a sliding window of accepted requests per *)
(* client address and a cap on compiles in progress, both in the memory of *)
(* one server process.                                                     *)
(***************************************************************************)
EXTENDS Integers, Sequences, FiniteSets, SequencesExt

CONSTANTS
    Clients,   \* client addresses
    Window,    \* _RL_WINDOW_S
    MaxPerIp,  \* _RL_MAX_PER_IP
    MaxFlight, \* _RL_MAX_INFLIGHT
    MaxKeys,   \* addresses remembered before the idle ones are dropped (4096)
    Horizon    \* bound: the clock stops here

ASSUME GuardAssumption ==
    /\ Window \in Nat \ {0} /\ MaxPerIp \in Nat \ {0} /\ MaxFlight \in Nat \ {0}

VARIABLES
    now,      \* the monotonic clock
    hits,     \* _rl_hits: address -> times, for the addresses it holds
    inflight, \* _rl_inflight
    recent    \* history: the last MaxPerIp + 1 accepted times of each address

guardVars == <<now, hits, inflight, recent>>

Cutoff == now - Window

\* hits[:] = [t for t in hits if t > cutoff]: the times are the clock's and stand
\* in its order, so that those in the window are the last ones.
Over(times) == Cardinality({i \in 1..Len(times) : times[i] <= Cutoff})
Fresh(times) == SubSeq(times, Over(times) + 1, Len(times))

Hits(c) == IF c \in DOMAIN hits THEN hits[c] ELSE <<>>

\* the table with the times of c replaced
With(c, times) == [a \in DOMAIN hits \cup {c} |-> IF a = c THEN times ELSE hits[a]]

\* mutant: an address is idle when its oldest request is
DropIdleByOldest(table) ==
    IF Cardinality(DOMAIN table) <= MaxKeys THEN table
    ELSE [a \in {b \in DOMAIN table : table[b] # <<>> /\ Head(table[b]) > Cutoff} |-> table[a]]

\* Over MaxKeys, the addresses with nothing in the window are dropped.
DropIdle(table) ==
    IF Cardinality(DOMAIN table) <= MaxKeys THEN table
    ELSE [a \in {b \in DOMAIN table : table[b] # <<>> /\ Last(table[b]) > Cutoff} |-> table[a]]

GuardInit == now = 0 /\ hits = <<>> /\ inflight = 0 /\ recent = [c \in Clients |-> <<>>]

\* _rate_ok: TRUE
Accept(c) ==
    /\ Len(Fresh(Hits(c))) < MaxPerIp
    /\ hits' = DropIdle(With(c, Append(Fresh(Hits(c)), now)))
    /\ recent' = [recent EXCEPT ![c] =
         LET all == Append(@, now) IN IF Len(all) > MaxPerIp + 1 THEN Tail(all) ELSE all]

\* _rate_ok: FALSE; the request is not recorded
Refuse(c) ==
    /\ Len(Fresh(Hits(c))) >= MaxPerIp
    /\ hits' = With(c, Fresh(Hits(c)))
    /\ UNCHANGED recent

\* _slot_acquire and _slot_release
SlotFree == inflight < MaxFlight
TakeSlot == inflight' = inflight + 1
GiveSlot == inflight' = IF inflight = 0 THEN 0 ELSE inflight - 1

Clock == now < Horizon /\ now' = now + 1

\* the process ends: the guard's memory is gone
GuardForgets == hits' = <<>> /\ inflight' = 0 /\ recent' = [c \in Clients |-> <<>>]

-----------------------------------------------------------------------------

\* However requests, refusals and the dropping of idle addresses follow each
\* other, the budget is exact: an address never has more than MaxPerIp
\* requests accepted within one window of time, and one with fewer is served,
\* however often it has been refused.
Counted(c) == Cardinality({i \in 1..Len(recent[c]) : recent[c][i] > Cutoff})
WindowHolds ==
    \A c \in Clients :
        /\ Len(recent[c]) > MaxPerIp => recent[c][MaxPerIp + 1] - recent[c][1] >= Window
        /\ Len(Fresh(Hits(c))) >= MaxPerIp => Counted(c) >= MaxPerIp
=============================================================================
