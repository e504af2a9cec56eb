--------------------------- MODULE MCBwScheduler ---------------------------
(***************************************************************************)
(* A family of programs, compiled by TaskLowering to C and to MicroPython, *)
(* run by BwScheduler and compared with ScratchContract.  The family has every statement, every   *)
(* nesting of a yield in a loop or a branch, hats, a lone script and       *)
(* procedures; x and y are variables, b and c input pins.                  *)
(***************************************************************************)
EXTENDS BwScheduler, TaskLowering, TLC

NumE(n) == [num |-> n]
VarE(v) == [var |-> v]
On(v)   == [var |-> v, is |-> TRUE]
Off(v)  == [var |-> v, is |-> FALSE]
set(v, n)      == [op |-> "set", var |-> v, to |-> NumE(n)]
change(v)      == [op |-> "change", var |-> v, by |-> 1]
wait(n)        == [op |-> "wait", ticks |-> n]
waitUntil(q)   == [op |-> "waituntil", cond |-> q]
forever(body)  == [op |-> "forever", body |-> body]
while(q, body) == [op |-> "while", cond |-> q, body |-> body]
repeat(n, body) == [op |-> "repeat", count |-> n, body |-> body]
if(q, body, orelse) == [op |-> "if", cond |-> q, body |-> body, orelse |-> orelse]
call(body)     == [op |-> "call", body |-> body]
stop           == [op |-> "stop"]
started(body)  == [hat |-> "none", body |-> body]
pressed(i, body) == [hat |-> i, body |-> body]

blink == started(<<forever(<<set("x", 1), wait(1), set("x", 0), wait(2)>>)>>)
count == started(<<repeat(NumE(2), <<change("y"), wait(1)>>)>>)
nested == started(<<repeat(NumE(2), <<repeat(VarE("x"), <<change("y")>>), change("x")>>),
                    set("y", 0)>>)
branches == started(<<forever(<<if(On("b"), <<set("x", 1), wait(2), change("y")>>,
                                            <<while(On("x"), <<change("x")>>)>>)>>)>>)
button == pressed("b", <<set("x", 1), wait(2), set("x", 0)>>)
release == pressed("b", <<repeat(NumE(2), <<change("y"), waitUntil(Off("b"))>>)>>)
stopper == started(<<waitUntil(On("b")), change("x"),
                     if(On("c"), <<stop>>, <<>>), change("y"), wait(1)>>)
caller == started(<<forever(<<call(<<change("x"), if(On("b"), <<set("y", 1)>>, <<>>)>>),
                              call(<<if(Off("x"), <<change("y")>>, <<change("x")>>)>>)>>)>>)
lone == started(<<repeat(NumE(2), <<wait(1), if(On("b"), <<change("x")>>, <<>>)>>),
                  waitUntil(On("c")),
                  forever(<<while(On("b"), <<change("y")>>), wait(2)>>)>>)
loneStop == started(<<repeat(VarE("y"), <<change("x")>>), change("y"),
                      if(On("b"), <<stop>>, <<wait(1)>>)>>)

InC(scripts) == [scripts |-> scripts, code |-> EmitC(scripts), watchful |-> TRUE]
InPython(scripts) == [scripts |-> scripts, code |-> EmitPy(scripts), watchful |-> FALSE]

Family == UNION { {InC(p), InPython(p)} : p \in {
    <<blink, count>>, <<nested, blink>>, <<branches, count>>, <<button, blink>>,
    <<release, count>>, <<stopper, blink>>, <<caller, count>>,
    <<lone>>, <<loneStop>>, <<button>> } }

\* a procedure that stops its script
StopInCallFamily ==
    { InC(<<started(<<call(<<if(On("b"), <<stop>>, <<>>)>>)>>), blink>>) }

-----------------------------------------------------------------------------
(* What is left of each script, read off the place of its task. *)

Resolve(item) ==
    IF "ctr" \notin DOMAIN item THEN item
    ELSE [op |-> item.op, body |-> item.body,
          left |-> item.plus + (IF "of" \in DOMAIN item
                                  THEN Value(item.of, env) - cnt[item.ctr]
                                  ELSE cnt[item.ctr])]

RestAt(line) ==
    LET r == line.rest IN
    IF r # <<>> /\ r[1].op = "ifFired"
      THEN IF fired THEN r[1].body ELSE <<>>
      ELSE [i \in DOMAIN r |-> Resolve(r[i])]

Rest(s) ==
    IF s = cur /\ pc > 0 THEN RestAt(Lines(s)[pc])
    ELSE IF Hat(s) # "none" /\ state[s] = 0 THEN <<>>
    ELSE RestAt(Lines(s)[Entry(s)])

Contract == INSTANCE ScratchContract WITH
    turn <- cur,
    begun <- pc # 0,
    rest <- [s \in Tasks |-> Rest(s)],
    sleep <- until

\* The C that stmts_task and stmts_c write does what the scripts say, in the
\* order they say it, and gives the processor away at every wait that is not
\* over and every loop back-edge, and nowhere else.
ImplementsContract == Contract!Spec
=============================================================================
