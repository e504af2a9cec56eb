------------------------------ MODULE EspPins ------------------------------
(***************************************************************************)
(* attachInterrupt and detachInterrupt of the ESP8266's Arduino layer, one *)
(* statement at a time, and pin_interrupt, which comes between any two of  *)
(* them.  The chip latches an edge of a pin whose interrupt is enabled.    *)
(***************************************************************************)
EXTENDS Integers, FiniteSets

CONSTANTS
    Usable,    \* the pins of a sketch; pin_interrupt goes through them in order
    Routines,  \* what a sketch attaches
    Once       \* those that detach their own pin

ASSUME PinsAssumption ==
    /\ Usable \subseteq 0..15 /\ Once \subseteq Routines
    /\ "none" \notin Routines

VARIABLES
    status,    \* GPIO_STATUS: the pins with an edge latched
    enabled,   \* the pins whose GPIO_PIN has an interrupt type
    routines,  \* routines[pin], "none" for 0
    unmasked,  \* the interrupt is attached and unmasked
    doing, pin,   \* the sketch: its next statement, and the argument
    isr,       \* pin_interrupt: "out", "clear", "loop", "routine"
    pending,   \* its locals
    next,
    unserved,  \* history: the pins with an edge since they were attached, and
               \* no call since then
    undone     \* history: the pins whose new routine has detached itself before
               \* attachInterrupt was through with it

pinsVars == <<status, enabled, routines, unmasked, doing, pin, isr, pending, next, unserved, undone>>
pinHistory == <<unserved, undone>>
table == <<status, enabled, routines, unmasked>>
sketch == <<doing, pin>>
handler == <<isr, pending, next>>

PinsInit ==
    /\ status = {} /\ enabled = {} /\ unmasked = FALSE
    /\ routines = [p \in Usable |-> "none"]
    /\ doing = "sketch" /\ pin = 0
    /\ isr = "out" /\ pending = {} /\ next = 0
    /\ unserved = {} /\ undone = {}

\* The chip latches an edge.
Edge == \E p \in enabled :
    /\ status' = status \cup {p}
    /\ unserved' = IF doing = "sketch" \/ pin # p THEN unserved \cup {p} ELSE unserved
    /\ UNCHANGED <<undone, enabled, routines, unmasked, sketch, handler>>

-----------------------------------------------------------------------------
(* attachInterrupt *)

\* A statement of the sketch, which stands still in the interrupt.
Statement(at, to) == isr = "out" /\ doing = at /\ doing' = to /\ UNCHANGED handler

Attach == \E p \in Usable, r \in Routines :
    /\ Statement("sketch", IF unmasked THEN "clear" ELSE "unmask")
    /\ pin' = p
    /\ routines' = [routines EXCEPT ![p] = r]
    /\ unserved' = unserved \ {p} /\ undone' = undone \ {p}
    /\ UNCHANGED <<status, enabled, unmasked>>

Unmask ==
    /\ Statement("unmask", "clear")
    /\ unmasked' = TRUE
    /\ UNCHANGED <<status, enabled, routines, pin, pinHistory>>

Forget ==
    /\ Statement("clear", "enable")
    /\ status' = status \ {pin}
    /\ UNCHANGED <<enabled, routines, unmasked, pin, pinHistory>>

Enable ==
    /\ Statement("enable", "sketch")
    /\ enabled' = enabled \cup {pin} /\ pin' = 0
    /\ UNCHANGED <<status, routines, unmasked, pinHistory>>

\* detachInterrupt
Disable == \E p \in Usable :
    /\ Statement("sketch", "remove")
    /\ pin' = p
    /\ enabled' = enabled \ {p}
    /\ unserved' = unserved \ {p}
    /\ UNCHANGED <<undone, status, routines, unmasked>>

Remove ==
    /\ Statement("remove", "sketch")
    /\ routines' = [routines EXCEPT ![pin] = "none"] /\ pin' = 0
    /\ UNCHANGED <<status, enabled, unmasked, pinHistory>>

Sketch == Attach \/ Unmask \/ Forget \/ Enable \/ Disable \/ Remove

-----------------------------------------------------------------------------
(* pin_interrupt *)

\* u32 pending = GPIO_STATUS
Interrupt ==
    /\ isr = "out" /\ unmasked /\ status # {}
    /\ pending' = status /\ next' = 0
    /\ isr' = "clear"
    /\ UNCHANGED <<table, sketch, pinHistory>>

\* mutant: all that is latched by now
ClearAll ==
    /\ isr = "clear"
    /\ status' = {}
    /\ isr' = "loop"
    /\ UNCHANGED <<enabled, routines, unmasked, sketch, pending, next, pinHistory>>

\* GPIO_STATUS_W1TC = pending
Clear ==
    /\ isr = "clear"
    /\ status' = status \ pending
    /\ isr' = "loop"
    /\ UNCHANGED <<enabled, routines, unmasked, sketch, pending, next, pinHistory>>

Serves(p) == p \in pending /\ routines[p] # "none"

\* The next pin of the loop, whose routine is called.
Calls == \E p \in Usable :
    /\ isr = "loop" /\ p >= next /\ Serves(p)
    /\ \A q \in Usable : q \in next..(p-1) => ~Serves(q)
    /\ isr' = IF routines[p] \in Once THEN "routine" ELSE "loop"
    /\ next' = IF routines[p] \in Once THEN p ELSE p + 1
    /\ unserved' = unserved \ {p}
    /\ UNCHANGED <<undone, table, sketch, pending>>

\* The routine detaches its pin.
DetachesItself ==
    /\ isr = "routine"
    /\ enabled' = enabled \ {next}
    /\ routines' = [routines EXCEPT ![next] = "none"]
    /\ unserved' = unserved \ {next}
    /\ undone' = IF doing # "sketch" /\ pin = next THEN undone \cup {next} ELSE undone
    /\ isr' = "loop" /\ next' = next + 1
    /\ UNCHANGED <<status, unmasked, sketch, pending>>

\* The loop is over.
Leaves ==
    /\ isr = "loop"
    /\ \A p \in Usable : p >= next => ~Serves(p)
    /\ isr' = "out" /\ pending' = {} /\ next' = 0
    /\ UNCHANGED <<table, sketch, pinHistory>>

PinInterrupt == Interrupt \/ Clear \/ Calls \/ DetachesItself \/ Leaves

PinsNext == Edge \/ Sketch \/ PinInterrupt

PinsSpec == PinsInit /\ [][PinsNext]_pinsVars
PinsFairSpec == PinsSpec /\ WF_pinsVars(PinInterrupt) /\ WF_pinsVars(Sketch)

-----------------------------------------------------------------------------

PinsTypeOK ==
    /\ status \subseteq Usable /\ enabled \subseteq Usable /\ unmasked \in BOOLEAN
    /\ routines \in [Usable -> Routines \cup {"none"}]
    /\ doing \in {"sketch", "unmask", "clear", "enable", "remove"} /\ pin \in Usable \cup {0}
    /\ isr \in {"out", "clear", "loop", "routine"}
    /\ pending \subseteq Usable /\ next \in 0..16
    /\ unserved \subseteq Usable /\ undone \subseteq Usable

\* A pin that is in line for its routine.
InLine(p) ==
    \/ p \in status
    \/ isr \in {"clear", "loop"} /\ p \in pending /\ p >= next
    \/ isr = "routine" /\ p \in pending /\ p > next

\* An edge that came after attachInterrupt has returned is still latched, or in the
\* part of `pending` that the loop has yet to go through, with a routine to call and
\* the interrupt unmasked: it is not cleared by the interrupt that serves another
\* pin, nor by the sketch that attaches one. Excepted is a pin that is attached again
\* without being detached: the new routine may be called for an old edge as soon as
\* it is in the table, and if it detaches itself, attachInterrupt goes on to enable a
\* pin that has no routine.
EdgesKept ==
    \A p \in unserved \ undone : unmasked /\ routines[p] # "none" /\ InLine(p)

\* What EdgesKept follows from: a pin whose interrupt is enabled can be served, unless
\* it is the one being attached or detached; that one has no edge to keep.
Servable(p) == p \in undone \/ (unmasked /\ routines[p] # "none")
Guarded == \A p \in enabled : doing = "sketch" \/ pin # p => Servable(p)

InStep ==
    /\ doing # "sketch" => pin \in Usable /\ pin \notin unserved
    /\ doing \in {"unmask", "clear", "enable"} => pin \in undone \/ routines[pin] # "none"
    /\ doing \in {"clear", "enable"} => unmasked
    /\ doing = "remove" => pin \notin enabled
    /\ isr = "clear" => next = 0
    /\ isr = "routine" => next \in Usable

EdgesInv == PinsTypeOK /\ EdgesKept /\ Guarded /\ InStep

\* Each such edge is served in the end, by a call of the pin's routine.
EdgesServed == \A p \in Usable : p \in unserved ~> p \notin unserved \/ p \in undone
=============================================================================
