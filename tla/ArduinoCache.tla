---------------------------- MODULE ArduinoCache ----------------------------
(***************************************************************************)
(* The Arduino route's object cache in /tmp.  A request needs the objects  *)
(* of the core, archived, and of each library its sketch includes; it      *)
(* takes a set from the cache or compiles it into a directory of its own,  *)
(* all files in parallel, and renames that into place.  Requests of        *)
(* several processes share the cache, and any of them may die anywhere.    *)
(***************************************************************************)
EXTENDS Integers, Sequences

CONSTANTS
    Requests, \* requests, one per process at a time
    Keys,     \* cache keys: a source set with everything that decides its objects
    Objects,  \* object files
    Sources,  \* Keys -> the objects a source set compiles to
    Sketches  \* what a sketch needs: a sequence of keys, the core's first

ASSUME CacheAssumption ==
    /\ Sources \in [Keys -> SUBSET Objects]
    /\ Sketches \subseteq Seq(Keys) /\ \A s \in Sketches : s # <<>>

VARIABLES
    pc,      \* where each request is
    sketch,  \* what it needs
    n,       \* which of those it is about
    private, \* the objects in its own directory: "absent", "part", "whole" or "failed"
    spare,   \* the archive it is making
    uses,    \* the objects it has listed, with their keys
    dir,     \* keys that have a directory in the cache
    mark,    \* .complete is in it
    objs,    \* the objects in it
    archive  \* core.a in it: "absent", "part" or "whole"

request == <<pc, sketch, n, private, spare, uses>>
cache   == <<dir, mark, objs, archive>>
vars    == <<request, cache>>

ObjStates == {"absent", "part", "whole", "failed"}
NoObjects == [o \in Objects |-> "absent"]
Key(r) == sketch[r][n[r]]

Init ==
    /\ pc = [r \in Requests |-> "idle"]
    /\ sketch \in [Requests -> Sketches] /\ n = [r \in Requests |-> 1]
    /\ private = [r \in Requests |-> NoObjects]
    /\ spare = [r \in Requests |-> "absent"]
    /\ uses = [r \in Requests |-> {}]
    /\ dir = [k \in Keys |-> FALSE] /\ mark = [k \in Keys |-> FALSE]
    /\ objs = [k \in Keys |-> NoObjects]
    /\ archive = [k \in Keys |-> "absent"]

Go(r, s) == pc' = [pc EXCEPT ![r] = s]

Start(r) ==
    /\ pc[r] \in {"idle", "done", "failed"} /\ Go(r, "look")
    /\ \E s \in Sketches : sketch' = [sketch EXCEPT ![r] = s]
    /\ n' = [n EXCEPT ![r] = 1] /\ uses' = [uses EXCEPT ![r] = {}]
    /\ UNCHANGED <<private, spare, cache>>

\* .complete is there, or a private directory with a name of its own is made
Look(r) ==
    /\ pc[r] = "look"
    /\ Go(r, IF mark[Key(r)] THEN "list" ELSE "build")
    /\ private' = [private EXCEPT ![r] = NoObjects]
    /\ UNCHANGED <<sketch, n, spare, uses, cache>>

\* _compile_one begins in one of the pool's threads
CompileBegins(r, o) ==
    /\ pc[r] = "build" /\ o \in Sources[Key(r)] /\ private[r][o] = "absent"
    /\ private' = [private EXCEPT ![r][o] = "part"]
    /\ UNCHANGED <<pc, sketch, n, spare, uses, cache>>

\* it ends with an object, or with an error or its timeout
CompileEnds(r, o) ==
    /\ pc[r] = "build" /\ private[r][o] = "part"
    /\ \E s \in {"whole", "failed"} : private' = [private EXCEPT ![r][o] = s]
    /\ UNCHANGED <<pc, sketch, n, spare, uses, cache>>

\* mutant: a compile that has failed is still waited for
EndedWhole(r) == \A o \in Sources[Key(r)] : private[r][o] = "whole"

Ended(r) == \A o \in Sources[Key(r)] : private[r][o] \in {"whole", "failed"}

\* mutant: the first result decides
CollectFirst(r) ==
    /\ pc[r] = "build" /\ Sources[Key(r)] # {}
    /\ \E o \in Sources[Key(r)] :
         /\ private[r][o] \in {"whole", "failed"}
         /\ Go(r, IF private[r][o] = "whole" THEN "rename" ELSE "failed")
    /\ UNCHANGED <<sketch, n, private, spare, uses, cache>>

\* every result is waited for; one failure fails the request and its
\* directory is removed, otherwise .complete is written in it
Collect(r) ==
    /\ pc[r] = "build" /\ Ended(r)
    /\ Go(r, IF \E o \in Sources[Key(r)] : private[r][o] = "failed" THEN "failed" ELSE "rename")
    /\ UNCHANGED <<sketch, n, private, spare, uses, cache>>

\* os.rename into place: it fails where a directory is, and the one that is
\* there is used
Rename(r) ==
    /\ pc[r] = "rename" /\ Go(r, "list")
    /\ IF dir[Key(r)] THEN UNCHANGED <<dir, mark, objs>>
       ELSE /\ dir' = [dir EXCEPT ![Key(r)] = TRUE]
            /\ mark' = [mark EXCEPT ![Key(r)] = TRUE]
            /\ objs' = [objs EXCEPT ![Key(r)] = private[r]]
    /\ UNCHANGED <<sketch, n, private, spare, uses, archive>>

\* After a key: the next one, or the link.
More(r) == n[r] < Len(sketch[r])

Advance(r) ==
    /\ Go(r, IF More(r) THEN "look" ELSE "link")
    /\ n' = [n EXCEPT ![r] = IF More(r) THEN @ + 1 ELSE @]

\* the .o files in the cache's directory
List(r) ==
    /\ pc[r] = "list"
    /\ uses' = [uses EXCEPT ![r] =
                  @ \cup {<<Key(r), o>> : o \in {x \in Objects : objs[Key(r)][x] # "absent"}}]
    /\ IF n[r] = 1 THEN Go(r, "archive") /\ UNCHANGED n ELSE Advance(r)
    /\ UNCHANGED <<sketch, private, spare, cache>>

\* _core_archive: core.a is there, or ar writes one under another name
Archive(r) ==
    /\ pc[r] = "archive"
    /\ IF archive[Key(r)] # "absent" THEN Advance(r) /\ UNCHANGED spare
       ELSE Go(r, "ar") /\ spare' = [spare EXCEPT ![r] = "part"] /\ UNCHANGED n
    /\ UNCHANGED <<sketch, private, uses, cache>>

\* mutant: ar writes core.a itself
ArInPlace(r) ==
    /\ pc[r] = "ar"
    /\ IF archive[Key(r)] = "part"
         THEN Go(r, "replace") /\ spare' = [spare EXCEPT ![r] = "whole"] /\ UNCHANGED archive
         ELSE /\ archive' = [archive EXCEPT ![Key(r)] = "part"]
              /\ UNCHANGED <<pc, spare>>
    /\ UNCHANGED <<sketch, n, private, uses, dir, mark, objs>>

\* mutant: its return code is not looked at
ArUnchecked(r) ==
    /\ pc[r] = "ar" /\ Go(r, "replace")
    /\ \E s \in {"whole", "part"} : spare' = [spare EXCEPT ![r] = s]
    /\ UNCHANGED <<sketch, n, private, uses, cache>>

Ar(r) ==
    /\ pc[r] = "ar"
    /\ \/ Go(r, "replace") /\ spare' = [spare EXCEPT ![r] = "whole"]
       \/ Go(r, "failed") /\ UNCHANGED spare
    /\ UNCHANGED <<sketch, n, private, uses, cache>>

\* os.replace: whatever core.a is there, it is this one now
Replace(r) ==
    /\ pc[r] = "replace" /\ Advance(r)
    /\ archive' = [archive EXCEPT ![Key(r)] = spare[r]]
    /\ UNCHANGED <<sketch, private, spare, uses, dir, mark, objs>>

\* the sketch is compiled and everything is linked, or that fails
Link(r) ==
    /\ pc[r] = "link"
    /\ Go(r, "done") \/ Go(r, "failed")
    /\ UNCHANGED <<sketch, n, private, spare, uses, cache>>

\* The process dies; its private directory stays, under a name nobody uses.
Crash(r) ==
    /\ pc[r] \notin {"idle", "done", "failed"} /\ Go(r, "idle")
    /\ UNCHANGED <<sketch, n, private, spare, uses, cache>>

Step(r) ==
    \/ Look(r) \/ Collect(r) \/ Rename(r) \/ List(r) \/ Archive(r) \/ Ar(r) \/ Replace(r)
    \/ Link(r) \/ \E o \in Objects : CompileBegins(r, o) \/ CompileEnds(r, o)

Next == \E r \in Requests : Start(r) \/ Step(r) \/ Crash(r)

Spec == Init /\ [][Next]_vars

\* a request that is being served goes on
FairSpec == Spec /\ \A r \in Requests : WF_vars(Step(r))

-----------------------------------------------------------------------------

Where == {"idle", "look", "build", "rename", "list", "archive", "ar", "replace",
          "link", "done", "failed"}

TypeOK ==
    /\ pc \in [Requests -> Where] /\ sketch \in [Requests -> Sketches]
    /\ n \in [Requests -> Nat \ {0}] /\ \A r \in Requests : n[r] <= Len(sketch[r])
    /\ private \in [Requests -> [Objects -> ObjStates]]
    /\ spare \in [Requests -> {"absent", "part", "whole"}]
    /\ uses \in [Requests -> SUBSET (Keys \X Objects)]
    /\ dir \in [Keys -> BOOLEAN] /\ mark \in [Keys -> BOOLEAN]
    /\ objs \in [Keys -> [Objects -> ObjStates]]
    /\ archive \in [Keys -> {"absent", "part", "whole"}]

\* the objects of the first m keys a request needs
ObjectsOf(r, m) ==
    {u \in Keys \X Objects : (\E i \in 1..m : sketch[r][i] = u[1]) /\ u[2] \in Sources[u[1]]}

\* What the cache holds is whole, whoever races, fails or dies: every object
\* of the source set and nothing else.
CacheWhole ==
    \A k \in Keys : dir[k] =>
        \A o \in Objects : objs[k][o] = IF o \in Sources[k] THEN "whole" ELSE "absent"

\* A request never links a half-written object or archive, nor without one
\* it needs.
LinksWhole ==
    \A r \in Requests : pc[r] = "link" =>
        /\ uses[r] = ObjectsOf(r, Len(sketch[r]))
        /\ \A u \in uses[r] : objs[u[1]][u[2]] = "whole"
        /\ archive[sketch[r][1]] = "whole"

\* What is in the cache stays as it is: a request that loses the race, or
\* makes the archive again, never changes what another may be linking.
CacheStays ==
    [][\A k \in Keys :
        /\ dir[k] => dir'[k] /\ objs'[k] = objs[k]
        /\ archive[k] = "whole" => archive'[k] = "whole"]_vars

\* A request ends, with an image or an error, or dies.
Ends == \A r \in Requests : pc[r] = "look" ~> pc[r] \in {"done", "failed", "idle"}
=============================================================================
