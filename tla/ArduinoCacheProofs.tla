------------------------- MODULE ArduinoCacheProofs -------------------------
(***************************************************************************)
(* The object cache is safe for any number of requests, source sets and    *)
(* sketches: what it holds is whole, it stays, and nothing else is linked. *)
(*                                                                         *)
(* What makes CacheWhole inductive is what a request knows of its private  *)
(* directory when it renames it, and what makes LinksWhole inductive is    *)
(* how far a request has come: the keys it has listed have a directory,    *)
(* which nobody takes away, and the core has its archive before the first  *)
(* library is looked for.                                                  *)
(***************************************************************************)
EXTENDS ArduinoCache, TLAPS

Holds(r, m) == uses[r] = ObjectsOf(r, m) /\ \A i \in 1..m : dir[sketch[r][i]]

Before(r) == pc[r] \in {"look", "build", "rename", "list"}
AtCore(r) == pc[r] \in {"archive", "ar", "replace"}

Built(r) == \A o \in Objects :
              private[r][o] = IF o \in Sources[Key(r)] THEN "whole" ELSE "absent"

\* What a request knows of its own directory.
PrivateInv(r) ==
    /\ pc[r] = "build" => \A o \in Objects : o \notin Sources[Key(r)] => private[r][o] = "absent"
    /\ pc[r] = "rename" => Built(r)
    /\ pc[r] = "replace" => spare[r] = "whole"

\* What it knows of the cache.
SharedInv(r) ==
    /\ pc[r] = "list" => dir[Key(r)]
    /\ Before(r) => Holds(r, n[r] - 1)
    /\ AtCore(r) => n[r] = 1 /\ Holds(r, 1)
    /\ pc[r] = "link" => n[r] = Len(sketch[r]) /\ Holds(r, n[r])
    /\ (Before(r) /\ n[r] > 1) \/ pc[r] = "link" => archive[sketch[r][1]] = "whole"

MarkInv == \A k \in Keys : mark[k] = dir[k] /\ archive[k] # "part"

CacheInv ==
    /\ TypeOK /\ CacheWhole /\ MarkInv
    /\ \A r \in Requests : PrivateInv(r) /\ SharedInv(r)

-----------------------------------------------------------------------------

\* The key a request is about is one of the cache's.
LEMMA KeyType ==
    ASSUME TypeOK, NEW r \in Requests
    PROVE  /\ sketch[r] \in Seq(Keys) /\ Len(sketch[r]) \in Nat \ {0}
           /\ \A i \in 1..Len(sketch[r]) : sketch[r][i] \in Keys
           /\ n[r] \in 1..Len(sketch[r]) /\ Key(r) \in Keys
           /\ Sources[Key(r)] \subseteq Objects
<1>1. sketch[r] \in Sketches /\ n[r] \in Nat \ {0} /\ n[r] <= Len(sketch[r])
  BY DEF TypeOK
<1>2. sketch[r] \in Seq(Keys) /\ sketch[r] # <<>>
  BY <1>1, CacheAssumption
<1>3. Len(sketch[r]) \in Nat \ {0} /\ \A i \in 1..Len(sketch[r]) : sketch[r][i] \in Keys
  BY <1>2
<1>4. n[r] \in 1..Len(sketch[r])
  BY <1>1, <1>3
<1>5. Key(r) \in Keys
  BY <1>3, <1>4 DEF Key
<1>6. Sources[Key(r)] \subseteq Objects
  BY <1>5, CacheAssumption
<1> QED BY <1>1, <1>2, <1>3, <1>4, <1>5, <1>6

\* Moving on stays within the sketch.
LEMMA AdvanceType ==
    ASSUME TypeOK, NEW r \in Requests, Advance(r), UNCHANGED sketch
    PROVE  /\ pc' \in [Requests -> Where] /\ n' \in [Requests -> Nat \ {0}]
           /\ \A q \in Requests : n'[q] <= Len(sketch'[q])
<1> USE KeyType DEF TypeOK, Advance, More, Go, Where
<1>1. pc' \in [Requests -> Where] OBVIOUS
<1>2. n[r] \in Nat \ {0} /\ n[r] + 1 \in Nat \ {0} OBVIOUS
<1>3. n' \in [Requests -> Nat \ {0}] BY <1>2
<1>4. ASSUME NEW q \in Requests PROVE n'[q] <= Len(sketch'[q])
  <2>1. CASE q = r BY <2>1, <1>2
  <2>2. CASE q # r BY <2>2
  <2> QED BY <2>1, <2>2
<1> QED BY <1>1, <1>3, <1>4

\* Types are preserved by every step.
LEMMA TypeStep == TypeOK /\ [Next]_vars => TypeOK'
<1> SUFFICES ASSUME TypeOK, [Next]_vars PROVE TypeOK'
  OBVIOUS
<1> USE DEF Where, ObjStates, Go, NoObjects
<1>1. ASSUME NEW r \in Requests, Start(r) PROVE TypeOK'
  <2>1. PICK s \in Sketches : sketch' = [sketch EXCEPT ![r] = s]
    BY <1>1 DEF Start
  <2>2. Len(s) \in Nat \ {0}
    <3>1. s \in Seq(Keys) /\ s # <<>> BY CacheAssumption
    <3> QED BY <3>1
  <2>3. sketch' \in [Requests -> Sketches] /\ n' \in [Requests -> Nat \ {0}]
        /\ pc' \in [Requests -> Where] /\ uses' \in [Requests -> SUBSET (Keys \X Objects)]
    BY <1>1, <2>1 DEF Start, TypeOK
  <2>4. ASSUME NEW q \in Requests PROVE n'[q] <= Len(sketch'[q])
    <3>1. CASE q = r BY <3>1, <1>1, <2>1, <2>2 DEF Start, TypeOK
    <3>2. CASE q # r BY <3>2, <1>1, <2>1 DEF Start, TypeOK
    <3> QED BY <3>1, <3>2
  <2> QED BY <1>1, <2>3, <2>4 DEF Start, TypeOK, cache
<1>2. ASSUME NEW r \in Requests, Look(r) PROVE TypeOK'
  BY <1>2 DEF Look, TypeOK, cache
<1>3. ASSUME NEW r \in Requests, NEW o \in Objects, CompileBegins(r, o) PROVE TypeOK'
  <2>1. private' \in [Requests -> [Objects -> ObjStates]]
    BY <1>3 DEF CompileBegins, TypeOK
  <2> QED BY <1>3, <2>1 DEF CompileBegins, TypeOK, cache
<1>4. ASSUME NEW r \in Requests, NEW o \in Objects, CompileEnds(r, o) PROVE TypeOK'
  <2>1. private' \in [Requests -> [Objects -> ObjStates]]
    BY <1>4 DEF CompileEnds, TypeOK
  <2> QED BY <1>4, <2>1 DEF CompileEnds, TypeOK, cache
<1>5. ASSUME NEW r \in Requests, Collect(r) PROVE TypeOK'
  BY <1>5 DEF Collect, TypeOK, cache
<1>6. ASSUME NEW r \in Requests, Rename(r) PROVE TypeOK'
  <2>1. pc' \in [Requests -> Where] BY <1>6 DEF Rename, TypeOK
  <2>2. CASE dir[Key(r)]
    BY <1>6, <2>1, <2>2 DEF Rename, TypeOK
  <2>3. CASE ~dir[Key(r)]
    <3>1. dir' \in [Keys -> BOOLEAN] /\ mark' \in [Keys -> BOOLEAN]
      BY <1>6, <2>3 DEF Rename, TypeOK
    <3>2. objs' \in [Keys -> [Objects -> ObjStates]]
      <4>1. private[r] \in [Objects -> ObjStates] BY DEF TypeOK
      <4>2. objs' = [objs EXCEPT ![Key(r)] = private[r]] BY <1>6, <2>3 DEF Rename
      <4> QED BY <4>1, <4>2 DEF TypeOK
    <3> QED BY <1>6, <2>1, <3>1, <3>2 DEF Rename, TypeOK
  <2> QED BY <2>2, <2>3
<1>7. ASSUME NEW r \in Requests, List(r) PROVE TypeOK'
  <2>1. uses' \in [Requests -> SUBSET (Keys \X Objects)]
    BY <1>7, KeyType DEF List, TypeOK
  <2>2. CASE n[r] = 1
    BY <1>7, <2>1, <2>2 DEF List, TypeOK, cache
  <2>3. CASE n[r] # 1
    BY <1>7, <2>1, <2>3, AdvanceType DEF List, TypeOK, cache
  <2> QED BY <2>2, <2>3
<1>8. ASSUME NEW r \in Requests, Archive(r) PROVE TypeOK'
  <2>1. CASE archive[Key(r)] # "absent"
    BY <1>8, <2>1, AdvanceType DEF Archive, TypeOK, cache
  <2>2. CASE archive[Key(r)] = "absent"
    BY <1>8, <2>2 DEF Archive, TypeOK, cache
  <2> QED BY <2>1, <2>2
<1>9. ASSUME NEW r \in Requests, Ar(r) PROVE TypeOK'
  BY <1>9 DEF Ar, TypeOK, cache
<1>10. ASSUME NEW r \in Requests, Replace(r) PROVE TypeOK'
  <2>1. archive' \in [Keys -> {"absent", "part", "whole"}]
    BY <1>10 DEF Replace, TypeOK
  <2> QED BY <1>10, <2>1, AdvanceType DEF Replace, TypeOK
<1>11. ASSUME NEW r \in Requests, Link(r) PROVE TypeOK'
  BY <1>11 DEF Link, TypeOK, cache
<1>12. ASSUME NEW r \in Requests, Crash(r) PROVE TypeOK'
  BY <1>12 DEF Crash, TypeOK, cache
<1>13. CASE UNCHANGED vars
  BY <1>13 DEF vars, request, cache, TypeOK
<1> QED
  BY <1>1, <1>2, <1>3, <1>4, <1>5, <1>6, <1>7, <1>8, <1>9, <1>10, <1>11, <1>12, <1>13
  DEF Next, Step

\* TypeOK holds for any number of requests, keys and objects.
THEOREM CacheTypeOK == Spec => []TypeOK
<1>1. Init => TypeOK
  <2> SUFFICES ASSUME Init PROVE TypeOK
    OBVIOUS
  <2>1. ASSUME NEW r \in Requests PROVE n[r] <= Len(sketch[r])
    <3>1. sketch[r] \in Sketches BY DEF Init
    <3>2. sketch[r] \in Seq(Keys) /\ sketch[r] # <<>> BY <3>1, CacheAssumption
    <3> QED BY <3>2 DEF Init
  <2> QED BY <2>1 DEF Init, TypeOK, NoObjects, ObjStates, Where
<1> QED BY <1>1, TypeStep, PTL DEF Spec

-----------------------------------------------------------------------------

\* What one step may do to the cache.
CacheStep ==
    \A k \in Keys :
        /\ dir[k] => dir'[k] /\ objs'[k] = objs[k]
        /\ archive[k] = "whole" => archive'[k] = "whole"

\* Every step keeps the cache whole, and what is in it.
LEMMA CacheKept ==
    ASSUME CacheInv, [Next]_vars
    PROVE  CacheWhole' /\ MarkInv' /\ CacheStep
<1> USE DEF CacheWhole, MarkInv, CacheStep
<1>0. TypeOK /\ CacheWhole /\ MarkInv
  BY DEF CacheInv
<1>1. CASE UNCHANGED cache
  BY <1>0, <1>1 DEF cache
<1>2. ASSUME NEW r \in Requests, Rename(r) PROVE CacheWhole' /\ MarkInv' /\ CacheStep
  <2>1. Key(r) \in Keys
    BY <1>0, KeyType
  <2>2. CASE dir[Key(r)]
    BY <1>0, <1>2, <2>2 DEF Rename
  <2>3. CASE ~dir[Key(r)]
    <3>1. Built(r)
      BY <1>2 DEF CacheInv, PrivateInv, Rename
    <3>2. /\ dir' = [dir EXCEPT ![Key(r)] = TRUE] /\ mark' = [mark EXCEPT ![Key(r)] = TRUE]
          /\ objs' = [objs EXCEPT ![Key(r)] = private[r]] /\ archive' = archive
      BY <1>2, <2>3 DEF Rename
    <3>3. /\ \A k \in Keys : k # Key(r) => dir'[k] = dir[k] /\ mark'[k] = mark[k] /\ objs'[k] = objs[k]
          /\ dir'[Key(r)] = TRUE /\ mark'[Key(r)] = TRUE /\ objs'[Key(r)] = private[r]
      BY <1>0, <2>1, <3>2 DEF TypeOK
    <3>4. CacheWhole'
      <4> SUFFICES ASSUME NEW k \in Keys, dir'[k], NEW o \in Objects
                   PROVE  objs'[k][o] = IF o \in Sources[k] THEN "whole" ELSE "absent"
        OBVIOUS
      <4>1. CASE k = Key(r) BY <3>1, <3>3, <4>1 DEF Built
      <4>2. CASE k # Key(r) BY <1>0, <3>3, <4>2
      <4> QED BY <4>1, <4>2
    <3>5. MarkInv'
      <4> SUFFICES ASSUME NEW k \in Keys PROVE mark'[k] = dir'[k] /\ archive'[k] # "part"
        OBVIOUS
      <4>1. CASE k = Key(r) BY <1>0, <3>2, <3>3, <4>1
      <4>2. CASE k # Key(r) BY <1>0, <3>2, <3>3, <4>2
      <4> QED BY <4>1, <4>2
    <3>6. CacheStep
      <4> SUFFICES ASSUME NEW k \in Keys
                   PROVE  (dir[k] => dir'[k] /\ objs'[k] = objs[k]) /\ archive'[k] = archive[k]
        BY DEF CacheStep
      <4>1. CASE k = Key(r) BY <2>3, <3>2, <4>1
      <4>2. CASE k # Key(r) BY <3>2, <3>3, <4>2
      <4> QED BY <4>1, <4>2
    <3> QED BY <3>4, <3>5, <3>6
  <2> QED BY <2>2, <2>3
<1>3. ASSUME NEW r \in Requests, Replace(r) PROVE CacheWhole' /\ MarkInv' /\ CacheStep
  <2>1. Key(r) \in Keys
    BY <1>0, KeyType
  <2>2. spare[r] = "whole"
    BY <1>3 DEF CacheInv, PrivateInv, Replace
  <2>3. \A k \in Keys : archive'[k] = IF k = Key(r) THEN "whole" ELSE archive[k]
    BY <1>0, <1>3, <2>2 DEF Replace, TypeOK
  <2>4. UNCHANGED <<dir, mark, objs>>
    BY <1>3 DEF Replace
  <2> QED BY <1>0, <2>3, <2>4
<1>4. ASSUME NEW r \in Requests, Start(r) \/ Look(r) \/ Collect(r) \/ List(r) \/ Archive(r)
                                 \/ Ar(r) \/ Link(r) \/ Crash(r)
      PROVE UNCHANGED cache
  BY <1>4 DEF Start, Look, Collect, List, Archive, Ar, Link, Crash
<1>5. ASSUME NEW r \in Requests, NEW o \in Objects, CompileBegins(r, o) \/ CompileEnds(r, o)
      PROVE UNCHANGED cache
  BY <1>5 DEF CompileBegins, CompileEnds
<1>6. CASE UNCHANGED vars
  BY <1>1, <1>6 DEF vars
<1> QED
  BY <1>1, <1>2, <1>3, <1>4, <1>5, <1>6 DEF Next, Step

\* A request that does nothing keeps what it knows.
Idle(q) == /\ pc'[q] = pc[q] /\ sketch'[q] = sketch[q] /\ n'[q] = n[q]
           /\ private'[q] = private[q] /\ spare'[q] = spare[q] /\ uses'[q] = uses[q]

\* The keys a request has listed stay listed.
LEMMA HoldsKept ==
    ASSUME TypeOK, CacheStep, NEW q \in Requests, NEW m \in Nat, m <= Len(sketch[q]),
           Holds(q, m), sketch'[q] = sketch[q], uses'[q] = uses[q]
    PROVE  Holds(q, m)'
<1>1. \A i \in 1..m : sketch[q][i] \in Keys
  BY KeyType
<1>2. ObjectsOf(q, m)' = ObjectsOf(q, m)
  BY DEF ObjectsOf
<1> QED BY <1>1, <1>2 DEF Holds, CacheStep

\* A step that leaves the builder idle keeps the invariant.
LEMMA IdleKeeps ==
    ASSUME TypeOK, CacheStep, NEW q \in Requests, PrivateInv(q), SharedInv(q), Idle(q)
    PROVE  PrivateInv(q)' /\ SharedInv(q)'
<1>1. Key(q)' = Key(q) /\ Key(q) \in Keys
  BY KeyType DEF Idle, Key
<1>2. PrivateInv(q)'
  BY <1>1 DEF PrivateInv, Idle, Built
<1>3. n[q] \in 1..Len(sketch[q]) /\ Len(sketch[q]) \in Nat /\ sketch[q][1] \in Keys
  BY KeyType
<1>4. Before(q)' => Holds(q, n[q] - 1)'
  BY <1>3, HoldsKept DEF SharedInv, Idle, Before
<1>5. AtCore(q)' => n[q] = 1 /\ Holds(q, 1)'
  BY <1>3, HoldsKept DEF SharedInv, Idle, AtCore
<1>6. pc[q] = "link" => n[q] = Len(sketch[q]) /\ Holds(q, n[q])'
  BY <1>3, HoldsKept DEF SharedInv, Idle
<1>7. pc[q] = "list" => dir'[Key(q)]
  BY <1>1 DEF SharedInv, CacheStep
<1>8. (Before(q) /\ n[q] > 1) \/ pc[q] = "link" => archive'[sketch[q][1]] = "whole"
  BY <1>3 DEF SharedInv, CacheStep
<1>9. Before(q)' = Before(q) /\ AtCore(q)' = AtCore(q)
  BY DEF Before, AtCore, Idle
<1>10. SharedInv(q)'
  BY <1>1, <1>4, <1>5, <1>6, <1>7, <1>8, <1>9 DEF SharedInv, Idle, Holds, ObjectsOf
<1> QED BY <1>2, <1>10

\* A step is one request's.
LEMMA OthersIdle ==
    ASSUME TypeOK, NEW r \in Requests, Start(r) \/ Step(r) \/ Crash(r),
           NEW q \in Requests, q # r
    PROVE  Idle(q)
<1> USE DEF Idle, Go, TypeOK
<1>1. CASE Start(r) BY <1>1 DEF Start
<1>2. CASE Look(r) \/ Collect(r) BY <1>2 DEF Look, Collect
<1>3. CASE \E o \in Objects : CompileBegins(r, o) \/ CompileEnds(r, o)
  BY <1>3 DEF CompileBegins, CompileEnds
<1>4. CASE Rename(r) BY <1>4 DEF Rename
<1>5. CASE List(r) BY <1>5 DEF List, Advance
<1>6. CASE Archive(r) BY <1>6 DEF Archive, Advance
<1>7. CASE Ar(r) BY <1>7 DEF Ar
<1>8. CASE Replace(r) BY <1>8 DEF Replace, Advance
<1>9. CASE Link(r) \/ Crash(r) BY <1>9 DEF Link, Crash
<1> QED BY <1>1, <1>2, <1>3, <1>4, <1>5, <1>6, <1>7, <1>8, <1>9 DEF Step

\* Once the core is archived, moving on keeps what the request knows: it has
\* listed all its keys up to the one it was about.
LEMMA AdvanceKeeps ==
    ASSUME TypeOK, CacheStep, NEW r \in Requests, Advance(r), UNCHANGED sketch,
           NEW m \in Nat, m = n[r], Holds(r, m)', archive'[sketch[r][1]] = "whole"
    PROVE  SharedInv(r)' /\ PrivateInv(r)'
<1>1. n[r] \in 1..Len(sketch[r]) /\ Len(sketch[r]) \in Nat /\ n[r] \in Nat
  BY KeyType
<1>2. CASE More(r)
  <2>1. pc'[r] = "look" /\ n'[r] = n[r] + 1
    BY <1>1, <1>2 DEF Advance, Go, TypeOK
  <2>2. n'[r] - 1 = m
    BY <1>1, <2>1
  <2>3. Holds(r, n[r] - 1)'
    BY <2>2 DEF Holds, ObjectsOf
  <2> QED BY <2>1, <2>3 DEF SharedInv, PrivateInv, Before, AtCore
<1>3. CASE ~More(r)
  <2>1. pc'[r] = "link" /\ n'[r] = m /\ m = Len(sketch[r])
    BY <1>1, <1>3 DEF Advance, Go, TypeOK, More
  <2> QED BY <2>1 DEF SharedInv, PrivateInv, Before, AtCore, Holds, ObjectsOf
<1> QED BY <1>2, <1>3

\* Every step keeps what every request knows.
LEMMA RequestKept ==
    ASSUME CacheInv, [Next]_vars, CacheStep, CacheWhole', MarkInv'
    PROVE  \A q \in Requests : PrivateInv(q)' /\ SharedInv(q)'
<1>0. TypeOK /\ MarkInv /\ CacheWhole /\ \A q \in Requests : PrivateInv(q) /\ SharedInv(q)
  BY DEF CacheInv
<1>1. CASE UNCHANGED vars
  BY <1>0, <1>1, IdleKeeps DEF Idle, vars, request
<1>2. ASSUME NEW r \in Requests, Start(r) \/ Step(r) \/ Crash(r)
      PROVE  \A q \in Requests : PrivateInv(q)' /\ SharedInv(q)'
  <2>1. \A q \in Requests : q # r => PrivateInv(q)' /\ SharedInv(q)'
    BY <1>0, <1>2, OthersIdle, IdleKeeps
  <2>2. PrivateInv(r) /\ SharedInv(r) /\ Key(r) \in Keys /\ Sources[Key(r)] \subseteq Objects
        /\ n[r] \in 1..Len(sketch[r]) /\ Len(sketch[r]) \in Nat \ {0} /\ sketch[r][1] \in Keys
    BY <1>0, KeyType
  <2>3. CASE Start(r)
    <3>1. pc'[r] = "look" /\ n'[r] = 1 /\ uses'[r] = {}
      BY <1>0, <2>3 DEF Start, Go, TypeOK
    <3>2. Holds(r, n[r] - 1)'
      BY <3>1 DEF Holds, ObjectsOf
    <3> QED BY <2>1, <3>1, <3>2 DEF PrivateInv, SharedInv, Before, AtCore
  <2>4. CASE Look(r)
    <3>1. UNCHANGED <<sketch, n, uses, cache>> /\ pc'[r] \in {"list", "build"} /\ Before(r)
          /\ (pc'[r] = "list" => mark[Key(r)])
          /\ \A o \in Objects : private'[r][o] = "absent"
      BY <1>0, <2>4 DEF Look, Go, TypeOK, Before, NoObjects
    <3>2. Holds(r, n[r] - 1)'
      BY <2>2, <3>1 DEF Holds, ObjectsOf, SharedInv, cache
    <3>3. pc'[r] = "list" => dir'[Key(r)]
      BY <1>0, <2>2, <3>1 DEF MarkInv, cache
    <3> QED BY <2>1, <2>2, <3>1, <3>2, <3>3 DEF PrivateInv, SharedInv, Before, AtCore, Key, cache
  <2>5. CASE \E o \in Objects : CompileBegins(r, o) \/ CompileEnds(r, o)
    <3>1. PICK o \in Objects : CompileBegins(r, o) \/ CompileEnds(r, o)
      BY <2>5
    <3>2. UNCHANGED <<pc, sketch, n, spare, uses, cache>> /\ pc[r] = "build"
      BY <3>1 DEF CompileBegins, CompileEnds
    <3>3. o \in Sources[Key(r)]
      BY <2>2, <3>1, <3>2 DEF CompileBegins, CompileEnds, PrivateInv
    <3>4. \A x \in Objects : x # o => private'[r][x] = private[r][x]
      BY <1>0, <3>1 DEF CompileBegins, CompileEnds, TypeOK
    <3>5. PrivateInv(r)'
      BY <2>2, <3>2, <3>3, <3>4 DEF PrivateInv, Key
    <3>6. SharedInv(r)'
      BY <2>2, <3>2 DEF SharedInv, Before, AtCore, Holds, ObjectsOf, Key, cache
    <3> QED BY <2>1, <3>5, <3>6
  <2>6. CASE Collect(r)
    <3>1. UNCHANGED <<sketch, n, private, spare, uses, cache>> /\ pc[r] = "build" /\ Ended(r)
          /\ pc'[r] = IF \E o \in Sources[Key(r)] : private[r][o] = "failed" THEN "failed" ELSE "rename"
      BY <1>0, <2>6 DEF Collect, Go, TypeOK
    <3>2. pc'[r] = "rename" => Built(r)'
      BY <2>2, <3>1 DEF Built, PrivateInv, Ended, Key
    <3>3. PrivateInv(r)'
      BY <3>1, <3>2 DEF PrivateInv
    <3>4. SharedInv(r)'
      BY <2>2, <3>1 DEF SharedInv, Before, AtCore, Holds, ObjectsOf, Key, cache
    <3> QED BY <2>1, <3>3, <3>4
  <2>7. CASE Rename(r)
    <3>1. UNCHANGED <<sketch, n, private, spare, uses, archive>> /\ pc[r] = "rename" /\ pc'[r] = "list"
      BY <1>0, <2>7 DEF Rename, Go, TypeOK
    <3>2. dir'[Key(r)]
      BY <1>0, <2>2, <2>7 DEF Rename, TypeOK
    <3>3. Holds(r, n[r] - 1)
      BY <2>2, <3>1 DEF SharedInv, Before
    <3>4. n[r] - 1 \in Nat /\ n[r] - 1 <= Len(sketch[r])
      BY <2>2
    <3>5. Holds(r, n[r] - 1)'
      <4>1. sketch'[r] = sketch[r] /\ uses'[r] = uses[r] /\ n'[r] = n[r]
        BY <3>1
      <4>2. \A i \in 1..(n[r] - 1) : sketch[r][i] \in Keys
        BY <1>0, <2>2, KeyType
      <4> QED BY <3>3, <4>1, <4>2 DEF Holds, ObjectsOf, CacheStep
    <3>6. PrivateInv(r)'
      BY <3>1 DEF PrivateInv
    <3>7. SharedInv(r)'
      BY <2>2, <3>1, <3>2, <3>5 DEF SharedInv, Before, AtCore, Key
    <3> QED BY <2>1, <3>6, <3>7
  <2>8. CASE List(r)
    <3>1. /\ UNCHANGED <<sketch, private, spare, cache>> /\ pc[r] = "list" /\ Before(r)
          /\ uses'[r] = uses[r] \cup
               {<<Key(r), o>> : o \in {x \in Objects : objs[Key(r)][x] # "absent"}}
      BY <1>0, <2>8 DEF List, TypeOK, Before
    <3>2. Holds(r, n[r] - 1) /\ dir[Key(r)]
      BY <2>2, <3>1 DEF SharedInv
    <3>3. {x \in Objects : objs[Key(r)][x] # "absent"} = Sources[Key(r)]
      BY <1>0, <2>2, <3>2 DEF CacheWhole
    <3>4. uses'[r] = ObjectsOf(r, n[r])
      <4>1. uses[r] = ObjectsOf(r, n[r] - 1)
        BY <3>2 DEF Holds
      <4>2. \A i : i \in 1..n[r] <=> i \in 1..(n[r] - 1) \/ i = n[r]
        BY <2>2
      <4>3. ObjectsOf(r, n[r]) = ObjectsOf(r, n[r] - 1)
                                 \cup {<<Key(r), o>> : o \in Sources[Key(r)]}
        BY <2>2, <4>2 DEF ObjectsOf, Key
      <4> QED BY <3>1, <3>3, <4>1, <4>3
    <3>5. \A i \in 1..n[r] : dir'[sketch[r][i]]
      BY <2>2, <3>1, <3>2 DEF Holds, Key, cache
    <3>6. CASE n[r] = 1
      <4>1. n'[r] = 1 /\ pc'[r] = "archive"
        BY <1>0, <2>8, <3>6 DEF List, Go, TypeOK
      <4>2. Holds(r, 1)'
        BY <3>1, <3>4, <3>5, <3>6 DEF Holds, ObjectsOf
      <4> QED BY <2>1, <4>1, <4>2 DEF SharedInv, PrivateInv, Before, AtCore
    <3>7. CASE n[r] # 1
      <4>1. Advance(r)
        BY <2>8, <3>7 DEF List
      <4>2. archive'[sketch[r][1]] = "whole"
        BY <2>2, <3>1, <3>7 DEF SharedInv, cache
      <4>3. \A k \in Nat : k = n[r] => Holds(r, k)'
        BY <3>1, <3>4, <3>5 DEF Holds, ObjectsOf
      <4> QED BY <1>0, <2>1, <2>2, <3>1, <4>1, <4>2, <4>3, AdvanceKeeps
    <3> QED BY <3>6, <3>7
  <2>9. CASE Archive(r) \/ Replace(r)
    <3>1. n[r] = 1 /\ Holds(r, 1) /\ UNCHANGED <<sketch, uses, private, dir>> /\ AtCore(r)
      BY <2>2, <2>9 DEF Archive, Replace, SharedInv, AtCore, cache
    <3>2. CASE Advance(r)
      <4>1. archive'[sketch[r][1]] = "whole"
        <5>1. CASE Replace(r)
          BY <1>0, <2>2, <3>1, <5>1 DEF Replace, PrivateInv, Key, TypeOK
        <5>2. CASE Archive(r)
          BY <1>0, <2>2, <3>1, <3>2, <5>2 DEF Archive, Advance, Go, Key, TypeOK, MarkInv, cache
        <5> QED BY <2>9, <5>1, <5>2
      <4>2. Holds(r, 1)'
        BY <3>1 DEF Holds, ObjectsOf
      <4> QED BY <1>0, <2>1, <3>1, <3>2, <4>1, <4>2, AdvanceKeeps
    <3>3. CASE ~Advance(r)
      <4>1. pc'[r] = "ar" /\ n'[r] = 1
        BY <1>0, <2>9, <3>1, <3>3 DEF Archive, Replace, Go, TypeOK
      <4> QED BY <2>1, <3>1, <4>1 DEF SharedInv, PrivateInv, Before, AtCore, Holds, ObjectsOf
    <3> QED BY <3>2, <3>3
  <2>10. CASE Ar(r)
    <3>1. UNCHANGED <<sketch, n, uses, cache>> /\ n[r] = 1 /\ Holds(r, 1)
          /\ (pc'[r] = "failed" \/ (pc'[r] = "replace" /\ spare'[r] = "whole"))
      BY <1>0, <2>2, <2>10 DEF Ar, Go, TypeOK, SharedInv, AtCore
    <3> QED BY <2>1, <3>1 DEF SharedInv, PrivateInv, Before, AtCore, Holds, ObjectsOf, cache
  <2>11. CASE Link(r) \/ Crash(r)
    <3>1. pc'[r] \in {"done", "failed", "idle"}
      BY <1>0, <2>11 DEF Link, Crash, Go, TypeOK
    <3> QED BY <2>1, <3>1 DEF SharedInv, PrivateInv, Before, AtCore
  <2> QED
    BY <1>2, <2>3, <2>4, <2>5, <2>6, <2>7, <2>8, <2>9, <2>10, <2>11 DEF Step
<1> QED BY <1>1, <1>2 DEF Next

\* The invariant holds of every behaviour.
LEMMA CacheInvAlways == Spec => []CacheInv
<1>1. Init => CacheInv
  <2> SUFFICES ASSUME Init PROVE CacheInv
    OBVIOUS
  <2>1. TypeOK
    <3>1. ASSUME NEW r \in Requests PROVE n[r] <= Len(sketch[r])
      <4>1. sketch[r] \in Sketches BY DEF Init
      <4>2. sketch[r] \in Seq(Keys) /\ sketch[r] # <<>> BY <4>1, CacheAssumption
      <4> QED BY <4>2 DEF Init
    <3> QED BY <3>1 DEF Init, TypeOK, NoObjects, ObjStates, Where
  <2> QED BY <2>1 DEF Init, CacheInv, CacheWhole, MarkInv, PrivateInv, SharedInv, Before, AtCore
<1>2. CacheInv /\ [Next]_vars => CacheInv'
  BY TypeStep, CacheKept, RequestKept DEF CacheInv
<1> QED BY <1>1, <1>2, PTL DEF Spec

\* Every object in the cache is whole, for any number of requests.
THEOREM CacheAlwaysWhole == Spec => []CacheWhole
<1>1. CacheInv => CacheWhole
  BY DEF CacheInv
<1> QED BY <1>1, CacheInvAlways, PTL

\* What is linked is all that is needed, and whole.
THEOREM AlwaysLinksWhole == Spec => []LinksWhole
<1>1. CacheInv => LinksWhole
  <2> SUFFICES ASSUME CacheInv, NEW r \in Requests, pc[r] = "link"
               PROVE  /\ uses[r] = ObjectsOf(r, Len(sketch[r]))
                      /\ \A u \in uses[r] : objs[u[1]][u[2]] = "whole"
                      /\ archive[sketch[r][1]] = "whole"
    BY DEF LinksWhole
  <2>1. n[r] = Len(sketch[r]) /\ Holds(r, n[r]) /\ archive[sketch[r][1]] = "whole"
    BY DEF CacheInv, SharedInv
  <2>2. uses[r] = ObjectsOf(r, Len(sketch[r]))
    BY <2>1 DEF Holds
  <2>3. ASSUME NEW u \in uses[r] PROVE objs[u[1]][u[2]] = "whole"
    <3>1. u \in Keys \X Objects /\ u[2] \in Sources[u[1]]
      BY <2>2 DEF ObjectsOf
    <3>2. PICK i \in 1..Len(sketch[r]) : sketch[r][i] = u[1]
      BY <2>2 DEF ObjectsOf
    <3>3. dir[u[1]]
      BY <2>1, <3>2 DEF Holds
    <3> QED BY <3>1, <3>3 DEF CacheInv, CacheWhole
  <2> QED BY <2>1, <2>2, <2>3
<1> QED BY <1>1, CacheInvAlways, PTL

\* No step changes what is in the cache.
THEOREM CacheAlwaysStays == Spec => CacheStays
<1>1. CacheInv /\ [Next]_vars =>
        [\A k \in Keys : /\ dir[k] => dir'[k] /\ objs'[k] = objs[k]
                         /\ archive[k] = "whole" => archive'[k] = "whole"]_vars
  BY CacheKept DEF CacheStep
<1> QED BY <1>1, CacheInvAlways, PTL DEF Spec, CacheStays
=============================================================================
