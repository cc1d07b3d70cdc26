----------------------------- MODULE UndoJournal -----------------------------
(***************************************************************************)
(* What the recovery record promises, whatever the engine does to keep the *)
(* promise: a set of controls is covered by a durable record, and a        *)
(* control may be modified only while it is covered.  Power loss resets    *)
(* the controls and voids the record.                                      *)
(***************************************************************************)
CONSTANT Controls

VARIABLES
    dirty,      \* controls that are not at stock
    covered     \* controls the durable record can restore

Init == dirty = {} /\ covered = {}

\* A new record replaces the old one: it must cover what is modified.
Publish ==
    /\ covered' \in SUBSET Controls
    /\ dirty \subseteq covered'
    /\ UNCHANGED dirty

Modify(c) ==
    /\ c \in covered
    /\ dirty' = dirty \cup {c}
    /\ UNCHANGED covered

Restore(c) ==
    /\ dirty' = dirty \ {c}
    /\ UNCHANGED covered

PowerLoss == dirty' = {} /\ covered' = {}

Next == \/ Publish
        \/ \E c \in Controls : Modify(c) \/ Restore(c)
        \/ PowerLoss

Spec == Init /\ [][Next]_<<dirty, covered>>

=============================================================================
