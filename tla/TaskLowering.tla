---------------------------- MODULE TaskLowering ----------------------------
(***************************************************************************)
(* The lowerings of a script's statements.  To C: stmts_task, the interior *)
(* of a Duff's device for a cooperative task, and stmts_c, straight-line   *)
(* code for a lone script and for procedures.  To MicroPython: _stmts, the *)
(* body of a generator or of a plain function.  The text is a sequence of  *)
(* instructions, an `if` or a loop a relative jump over its body.  Every   *)
(* instruction carries in `rest` what ScratchContract has left to do when  *)
(* control stands before it; `ctr` in an item there names the counter that *)
(* holds its `left`.                                                       *)
(***************************************************************************)
EXTENDS Integers, Sequences

Ended == 65535      \* task_state of a script that is over

Ins(name, rest) == [op |-> name, rest |-> rest]
State(n, rest)  == [op |-> "state", n |-> n, rest |-> rest]
Case(n, rest)   == [op |-> "case", n |-> n, rest |-> rest]
Test(c, skip, rest) == [op |-> "if", cond |-> c, skip |-> skip, rest |-> rest]
Jump(skip, rest)    == [op |-> "jump", skip |-> skip, rest |-> rest]

Asleep == [op |-> "asleep"]
Again(loop) == [op |-> "again", loop |-> loop]
Times(name, c, body, plus) ==
    [op |-> name, ctr |-> c, body |-> body, plus |-> plus]
TimesUp(name, c, of, body, plus) ==
    [op |-> name, ctr |-> c, of |-> of, body |-> body, plus |-> plus]

\* What a lowering has used up: the last yield state and the last counter.
Used(st, ctr) == [state |-> st, ctr |-> ctr]
Out(code, used) == [code |-> code, used |-> used]

RECURSIVE StmtsC(_, _, _), StmtC(_, _, _), StmtsTask(_, _, _), StmtTask(_, _, _)

\* stmts_c: nothing yields; a wait spins, and so does `stop`.
StmtsC(body, rest, u) ==
    IF body = <<>> THEN Out(<<>>, u)
    ELSE LET h == StmtC(Head(body), Tail(body) \o rest, u)
             r == StmtsC(Tail(body), rest, h.used)
         IN  Out(h.code \o r.code, r.used)

StmtC(s, rest, u) ==
    LET here == <<s>> \o rest IN
    CASE s.op \in {"set", "change"} -> Out(<<[op |-> s.op, stmt |-> s, rest |-> here]>>, u)
      [] s.op = "wait" ->
            Out(<< [op |-> "until", ticks |-> s.ticks, rest |-> here],
                   Ins("spindue", <<Asleep>> \o rest) >>, u)
      [] s.op = "waituntil" ->
            Out(<< [op |-> "spin", cond |-> s.cond, rest |-> here] >>, u)
      [] s.op = "call" ->
            LET b == StmtsC(s.body, rest, u)
            IN  Out(<<Ins("call", here)>> \o b.code, b.used)
      [] s.op = "stop" -> Out(<< Ins("hang", here) >>, u)
      [] s.op = "if" ->
            LET a == StmtsC(s.body, rest, u)
                b == StmtsC(s.orelse, rest, a.used)
            IN  Out(<<Test(s.cond, Len(a.code) + 2, here)>> \o a.code
                    \o <<Jump(Len(b.code) + 1, rest)>> \o b.code, b.used)
      [] s.op = "forever" ->
            LET b == StmtsC(s.body, <<Again(s)>> \o rest, u)
            IN  Out(<<Ins("for", here)>> \o b.code
                    \o <<Jump(-(Len(b.code) + 1), <<Again(s)>> \o rest)>>, b.used)
      [] s.op = "while" ->
            LET b == StmtsC(s.body, <<Again(s)>> \o rest, u)
            IN  Out(<<Test(s.cond, Len(b.code) + 2, here)>> \o b.code
                    \o <<Jump(-(Len(b.code) + 1), <<Again(s)>> \o rest)>>, b.used)
      [] s.op = "repeat" ->
            LET i == u.ctr + 1
                b == StmtsC(s.body, <<TimesUp("onedone", i, s.count, s.body, 0)>> \o rest,
                            Used(u.state, i))
                up(name, plus) == <<TimesUp(name, i, s.count, s.body, plus)>> \o rest
            IN  Out(<< [op |-> "zero", ctr |-> i, rest |-> here],
                       [op |-> "iflt", ctr |-> i, count |-> s.count,
                        skip |-> Len(b.code) + 3, rest |-> up("times", 0)] >>
                    \o b.code
                    \o << [op |-> "inc", ctr |-> i, rest |-> up("onedone", 0)],
                          Jump(-(Len(b.code) + 2), up("onedone", 1)) >>, b.used)

\* stmts_task: every wait and every loop back-edge is a numbered yield.
StmtsTask(body, rest, u) ==
    IF body = <<>> THEN Out(<<>>, u)
    ELSE LET h == StmtTask(Head(body), Tail(body) \o rest, u)
             r == StmtsTask(Tail(body), rest, h.used)
         IN  Out(h.code \o r.code, r.used)

StmtTask(s, rest, u) ==
    LET here == <<s>> \o rest
        n    == u.state + 1
        next == Used(n, u.ctr)
        back == <<Again(s)>> \o rest
    IN
    CASE s.op \in {"set", "change"} -> Out(<<[op |-> s.op, stmt |-> s, rest |-> here]>>, u)
      [] s.op = "wait" ->
            Out(<< [op |-> "until", ticks |-> s.ticks, rest |-> here],
                   State(n, <<Asleep>> \o rest), Case(n, <<Asleep>> \o rest),
                   Ins("due", <<Asleep>> \o rest) >>, next)
      [] s.op = "waituntil" ->
            Out(<< State(n, here), Case(n, here),
                   [op |-> "unless", cond |-> s.cond, rest |-> here] >>, next)
      [] s.op = "call" ->
            LET b == StmtsC(s.body, rest, u)
            IN  Out(<<Ins("call", here)>> \o b.code, b.used)
      [] s.op = "stop" -> Out(<< State(Ended, here), Ins("return", here) >>, u)
      [] s.op = "if" ->
            LET a == StmtsTask(s.body, rest, u)
                b == StmtsTask(s.orelse, rest, a.used)
            IN  Out(<<Test(s.cond, Len(a.code) + 2, here)>> \o a.code
                    \o <<Jump(Len(b.code) + 1, rest)>> \o b.code, b.used)
      [] s.op = "forever" ->
            LET b == StmtsTask(s.body, back, next)
            IN  Out(<<State(n, here), Case(n, here)>> \o b.code
                    \o <<State(n, back), Ins("return", back)>>, b.used)
      [] s.op = "while" ->
            LET b == StmtsTask(s.body, back, next)
            IN  Out(<<State(n, here), Case(n, here), Test(s.cond, Len(b.code) + 3, here)>>
                    \o b.code \o <<State(n, back), Ins("return", back)>>, b.used)
      [] s.op = "repeat" ->
            LET i == u.ctr + 1
                down(name, plus) == <<Times(name, i, s.body, plus)>> \o rest
                b == StmtsTask(s.body, down("onedone", 0), Used(n, i))
            IN  Out(<< [op |-> "load", ctr |-> i, count |-> s.count, rest |-> here],
                       State(n, down("times", 0)), Case(n, down("times", 0)),
                       [op |-> "ifnz", ctr |-> i, skip |-> Len(b.code) + 4,
                        rest |-> down("times", 0)] >>
                    \o b.code
                    \o << [op |-> "dec", ctr |-> i, rest |-> down("onedone", 0)],
                          State(n, down("onedone", 1)),
                          Ins("return", down("onedone", 1)) >>, b.used)

\* One task function of emit_c; a hat's body starts at case 1.
TaskFunction(script, ctr) ==
    LET hat  == script.hat # "none"
        body == StmtsTask(script.body, <<>>, Used(IF hat THEN 1 ELSE 0, ctr))
        gate == <<[op |-> "ifFired", body |-> script.body]>>
        head == IF hat THEN << Case(0, gate), Ins("gate", gate),
                               State(1, script.body), Case(1, script.body) >>
                ELSE << Case(0, script.body) >>
    IN  Out(head \o body.code
            \o << [op |-> "end", n |-> IF hat THEN 0 ELSE Ended, rest |-> <<>>] >>,
            body.used)

\* emit_c: scripts become tasks when there are several or one has a hat.
RECURSIVE TaskFunctions(_, _)
TaskFunctions(scripts, ctr) ==
    IF scripts = <<>> THEN <<>>
    ELSE LET f == TaskFunction(Head(scripts), ctr)
         IN  <<f.code>> \o TaskFunctions(Tail(scripts), f.used.ctr)

EmitC(scripts) ==
    IF Len(scripts) > 1 \/ \E s \in 1..Len(scripts) : scripts[s].hat # "none"
      THEN TaskFunctions(scripts, 0)
      ELSE << << Case(0, scripts[1].body) >>
              \o StmtsC(scripts[1].body, <<>>, Used(0, 0)).code
              \o << [op |-> "end", n |-> Ended, rest |-> <<>>] >> >>

-----------------------------------------------------------------------------
(* MicroPython: a task is a generator, its state the `yield` it stands at. *)

Yield(n, rest) == [op |-> "yield", n |-> n, rest |-> rest]

\* The end of a loop of `len` instructions and its head: back to the head,
\* in a task by way of a yield.
Round(tasks, n, len, back, top) ==
    IF tasks THEN <<Yield(n, back), Case(n, top), Jump(-(len + 2), top)>>
             ELSE <<Jump(-len, back)>>

\* `return` in a procedure's function leaves that and no more.
LeavesOnly(code) ==
    [k \in DOMAIN code |-> IF code[k].op = "leave" THEN Jump(Len(code) + 1 - k, code[k].rest)
                                                   ELSE code[k]]

RECURSIVE StmtsPy(_, _, _, _), StmtPy(_, _, _, _)

\* _stmts; `tasks` is false in a lone script and in procedures.
StmtsPy(body, rest, u, tasks) ==
    IF body = <<>> THEN Out(<<>>, u)
    ELSE LET h == StmtPy(Head(body), Tail(body) \o rest, u, tasks)
             r == StmtsPy(Tail(body), rest, h.used, tasks)
         IN  Out(h.code \o r.code, r.used)

StmtPy(s, rest, u, tasks) ==
    LET here == <<s>> \o rest
        n    == u.state + 1
        next == Used(n, u.ctr)
        back == <<Again(s)>> \o rest
        nap  == <<Asleep>> \o rest
    IN
    CASE s.op \in {"set", "change"} -> Out(<<[op |-> s.op, stmt |-> s, rest |-> here]>>, u)
      [] s.op = "wait" ->
            Out(<<[op |-> "until", ticks |-> s.ticks, rest |-> here]>>
                \o IF tasks THEN <<Case(n, nap), [op |-> "pending", n |-> n, rest |-> nap]>>
                            ELSE <<Ins("spindue", nap)>>, next)
      [] s.op = "waituntil" ->
            Out(IF tasks THEN << Case(n, here),
                                 [op |-> "unmet", n |-> n, cond |-> s.cond, rest |-> here] >>
                         ELSE << [op |-> "spin", cond |-> s.cond, rest |-> here] >>, next)
      [] s.op = "call" ->
            LET b == StmtsPy(s.body, rest, u, FALSE)
            IN  Out(<<Ins("call", here)>> \o LeavesOnly(b.code), b.used)
      [] s.op = "stop" -> Out(<<Ins("leave", here)>>, u)
      [] s.op = "if" ->
            LET a == StmtsPy(s.body, rest, u, tasks)
                b == StmtsPy(s.orelse, rest, a.used, tasks)
            IN  Out(<<Test(s.cond, Len(a.code) + 2, here)>> \o a.code
                    \o <<Jump(Len(b.code) + 1, rest)>> \o b.code, b.used)
      [] s.op = "forever" ->
            LET b == StmtsPy(s.body, back, next, tasks)
            IN  Out(<<Ins("for", here)>> \o b.code
                    \o Round(tasks, n, Len(b.code) + 1, back, here), b.used)
      [] s.op = "while" ->
            LET b == StmtsPy(s.body, back, next, tasks)
                r == Round(tasks, n, Len(b.code) + 1, back, here)
            IN  Out(<<Test(s.cond, Len(b.code) + Len(r) + 1, here)>> \o b.code \o r, b.used)
      [] s.op = "repeat" ->   \* for _ in range(count): the iterator counts on entry
            LET i == u.ctr + 1
                down(name, plus) == <<Times(name, i, s.body, plus)>> \o rest
                b == StmtsPy(s.body, down("onedone", 1), Used(n, i), tasks)
                r == Round(tasks, n, Len(b.code) + 1, down("onedone", 1), down("times", 0))
            IN  Out(<< [op |-> "load", ctr |-> i, count |-> s.count, rest |-> here],
                       [op |-> "range", ctr |-> i, skip |-> Len(b.code) + Len(r) + 1,
                        rest |-> down("times", 0)] >> \o b.code \o r, b.used)

\* A generator of emit.  A hat's is an endless loop whose head samples the
\* pin; a script that yields nowhere is given a yield at its end.
Generator(script, ctr) ==
    LET hat  == script.hat # "none"
        body == StmtsPy(script.body, <<>>, Used(0, ctr), TRUE)
        gate == <<[op |-> "ifFired", body |-> script.body]>>
        n    == body.used.state + 1
        yields == \E i \in DOMAIN body.code : body.code[i].op \in {"yield", "pending", "unmet"}
    IN  Out(IF hat
              THEN << Case(0, gate), [op |-> "unfired", skip |-> Len(body.code) + 1, rest |-> gate] >>
                   \o body.code \o <<Yield(0, <<>>)>>
              ELSE <<Case(0, script.body)>> \o body.code
                   \o (IF yields THEN <<>> ELSE <<Yield(n, <<>>), Case(n, <<>>)>>)
                   \o <<Ins("leave", <<>>)>>, body.used)

RECURSIVE Generators(_, _)
Generators(scripts, ctr) ==
    IF scripts = <<>> THEN <<>>
    ELSE LET g == Generator(Head(scripts), ctr)
         IN  <<g.code>> \o Generators(Tail(scripts), g.used.ctr)

\* emit of a MicroPython board
EmitPy(scripts) ==
    IF Len(scripts) > 1 \/ \E s \in 1..Len(scripts) : scripts[s].hat # "none"
      THEN Generators(scripts, 0)
      ELSE << << Case(0, scripts[1].body) >>
              \o StmtsPy(scripts[1].body, <<>>, Used(0, 0), FALSE).code
              \o << Ins("leave", <<>>) >> >>
=============================================================================
