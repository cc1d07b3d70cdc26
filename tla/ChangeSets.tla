----------------------------- MODULE ChangeSets -----------------------------
(***************************************************************************)
(* The review of a change set: Capability.Normalize (internal/tuning/      *)
(* model.go) and ValidateChangeSet (validate.go).  The client reviews a    *)
(* change set with it, and the helper reviews it again with what it has    *)
(* discovered itself.                                                      *)
(*                                                                         *)
(* Numbers are integers in a unit small enough for every limit and step    *)
(* (the code compares floats with a tolerance of 1e-9); NaN and infinite   *)
(* requests, which are refused, are left out.                              *)
(***************************************************************************)
EXTENDS Integers, Sequences, FiniteSets

CONSTANT None   \* no range, no capability, a refusal

\* math.Round of n/d: halves away from zero.
Round(n, d) == IF n >= 0 THEN (2 * n + d) \div (2 * d) ELSE -((2 * (-n) + d) \div (2 * d))

\* The smaller and the greater of two numbers.
Least(a, b) == IF a <= b THEN a ELSE b
Greatest(a, b) == IF a >= b THEN a ELSE b

Numeric(x) == [kind |-> "numeric", of |-> x]
Choice(x) == [kind |-> "choice", of |-> x]
Vector(x) == [kind |-> "vector", of |-> x]
NoValue == [kind |-> "none", of |-> 0]

\* Capability, as far as a review reads it.
Capability(id, state, unit, current, range, choices, driver) ==
    [id |-> id, state |-> state, unit |-> unit, current |-> current,
     range |-> range, choices |-> choices, driver |-> driver]

VoltageControls == {"core", "cache"}
RatioControls == {"pcore", "ecore"}

Clamp(r, x) == Greatest(r.min, Least(r.max, x))

\* Capability.Normalize: the value that will be written, or None.
Normalized(c, v) ==
    LET r == c.range
        number == /\ v.kind = "numeric"
                  /\ ~(c.id \in VoltageControls /\ v.of > 0)
                  /\ r.max >= r.min /\ r.step > 0
        chosen == v.kind = "choice" /\ v.of \in c.choices
        ratios == c.unit = "ratio" /\ v.kind = "vector" /\ v.of # <<>>
        onStep == r.min + Round(Clamp(r, v.of) - r.min, r.step) * r.step
    IN CASE c.state # "supported" -> None
         [] c.state = "supported" /\ r # None ->
                IF number THEN Numeric(Clamp(r, onStep)) ELSE None
         [] c.state = "supported" /\ r = None /\ (c.choices # {} \/ c.unit = "choice") ->
                IF chosen THEN v ELSE None
         [] OTHER -> IF ratios THEN v ELSE None

\* validateRatio
RatioFits(current, requested) ==
    /\ current.kind = "vector"
    /\ Len(requested.of) = Len(current.of)
    /\ \A i \in DOMAIN requested.of :
          /\ i > 1 => requested.of[i] <= requested.of[i - 1]
          /\ requested.of[i] <= current.of[i]

\* effectiveNumeric: what the control will hold, None when that is unknown.
Effective(id, caps, changes) ==
    LET asked == {i \in DOMAIN changes : changes[i].id = id /\ changes[i].requested.kind = "numeric"}
    IN IF asked # {}
       THEN changes[CHOOSE i \in asked : \A j \in asked : i <= j].requested.of
       ELSE IF id \in DOMAIN caps /\ caps[id].current.kind = "numeric"
            THEN caps[id].current.of
            ELSE None

PowerRelationship_ChangedOnly(caps, changes) ==
    LET pl1 == Effective("pl1", << >>, changes)
        pl2 == Effective("pl2", << >>, changes)
    IN pl1 = None \/ pl2 = None \/ pl1 <= pl2

\* validatePowerRelationship, with what the change set leaves alone as it is.
PowerRelationship(caps, changes) ==
    LET pl1 == Effective("pl1", caps, changes)
        pl2 == Effective("pl2", caps, changes)
    IN pl1 = None \/ pl2 = None \/ pl1 <= pl2

Refused == [ok |-> FALSE, changes |-> <<>>, adjusted |-> {}]

\* ValidateChangeSet.  set: [generation, caps], caps by control; set.caps is a
\* function, as discovery never publishes a control twice.
ValidateChangeSet(set, request) ==
    LET changes == request.changes
        caps == set.caps
        value(i) == Normalized(caps[changes[i].id], changes[i].requested)
        accepted ==
            /\ request.generation = set.generation
            /\ \A i, j \in DOMAIN changes : changes[i].id = changes[j].id => i = j
            /\ \A i \in DOMAIN changes :
                  /\ changes[i].id \in DOMAIN caps
                  /\ value(i) # None
                  /\ changes[i].id \in RatioControls =>
                        RatioFits(caps[changes[i].id].current, value(i))
        normalized == [i \in DOMAIN changes |-> [id |-> changes[i].id, requested |-> value(i)]]
    IN IF accepted /\ PowerRelationship(caps, normalized)
       THEN [ok |-> TRUE, changes |-> normalized,
             adjusted |-> {changes[i].id : i \in {j \in DOMAIN changes :
                                                    value(j) # changes[j].requested}}]
       ELSE Refused

=============================================================================
