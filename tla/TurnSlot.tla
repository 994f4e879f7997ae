------------------------------ MODULE TurnSlot ------------------------------
(***************************************************************************)
(* What a session promises about its turns: there is one slot; a turn that *)
(* was installed works only while it is in the slot, or evicted and on the *)
(* way to being cancelled; and a turn that left the slot never comes back. *)
(* Between being spawned and being installed a turn is offered, and may    *)
(* work already.  A turn that ended may stay in the slot until the next    *)
(* one replaces it.                                                        *)
(***************************************************************************)
CONSTANTS Turns, None

VARIABLES
    spawned,  \* turns there are or have been
    offered,  \* spawned turns that are not installed yet
    slot,     \* the turn installed last, None when it was taken out
    evicted,  \* turns taken out of the slot to be cancelled
    active    \* turns that work: neither ended nor cancelled

slotVars == <<spawned, offered, slot, evicted, active>>

Init == /\ spawned = {} /\ offered = {} /\ slot = None
        /\ evicted = {} /\ active = {}

Offer(t) ==
    /\ t \notin spawned
    /\ spawned' = spawned \cup {t}
    /\ offered' = offered \cup {t}
    /\ active' = active \cup {t}
    /\ UNCHANGED <<slot, evicted>>

\* The turn it replaces is cancelled.
Install(t) ==
    /\ t \in offered
    /\ offered' = offered \ {t}
    /\ slot' = t
    /\ active' = active \ {slot}
    /\ UNCHANGED <<spawned, evicted>>

\* The slot is cleared; its turn works on until it is cancelled.
Evict ==
    /\ slot # None
    /\ slot' = None
    /\ evicted' = evicted \cup {slot}
    /\ UNCHANGED <<spawned, offered, active>>

Cancel(t) ==
    /\ t \in evicted
    /\ evicted' = evicted \ {t}
    /\ active' = active \ {t}
    /\ UNCHANGED <<spawned, offered, slot>>

\* A turn ends by itself and may take itself, and nobody else, out of the slot.
End(t) ==
    /\ t \in spawned
    /\ active' = active \ {t}
    /\ slot' \in {slot} \cup IF slot = t THEN {None} ELSE {}
    /\ UNCHANGED <<spawned, offered, evicted>>

Next == Evict \/ \E t \in Turns : Offer(t) \/ Install(t) \/ Cancel(t) \/ End(t)

Spec == Init /\ [][Next]_slotVars
=============================================================================
