--------------------------- MODULE ControlDrivers ---------------------------
(***************************************************************************)
(* Every driver behind the one interface of internal/tuning/driver.go: the *)
(* control of the behaviour selects the driver, and all of them have to    *)
(* keep the same promises to the transaction engine.                       *)
(***************************************************************************)
EXTENDS PowercapDriver, PolicyDriver, ThermalDriver, MsrDriver

CONSTANTS
    Limits,     \* upper bounds a zone reports; 0 is none
    Powers,     \* what a power limit may hold
    Offers,     \* sets of preferences a policy may offer
    Choices,    \* preferences a policy may hold
    TjMax, MaxOffset, Offsets,
    Fields,     \* what the voltage field may hold
    Voltages,   \* voltage requests
    RatioTables,\* what the ratio register may hold
    RatioVectors

ASSUME DriversAssumption ==
    /\ Limits \subseteq Nat /\ TjMax \in Nat /\ MaxOffset \in Nat
    /\ Fields \subseteq Words /\ Leftovers["core"] \subseteq Words
    /\ RatioTables \subseteq Seq(Nat) /\ Leftovers["pcore"] \subseteq Seq(Nat)
    /\ Voltages \subseteq Int /\ RatioVectors \subseteq Seq(Int)

Requests == {Numeric(x) : x \in 0..2 * Watt + 1} \cup {Numeric(x) : x \in TjMax - MaxOffset - 1..TjMax + 1}
              \cup {Choice(c) : c \in Choices}

Init ==
    \/ PowercapInit(Limits, Powers)
    \/ PolicyInit(Offers, Choices)
    \/ ThermalInit(TjMax, MaxOffset, Offsets)
    \/ VoltageInit(Fields)
    \/ RatioInit(RatioTables)

Next ==
    \/ DriverNext
    \/ PowercapNext(Requests)
    \/ PolicyNext(Requests)
    \/ ThermalNext(Requests)
    \/ MsrNext(Voltages, RatioVectors)

Spec == Init /\ [][Next]_vars

-----------------------------------------------------------------------------
(* Properties                                                              *)

AtCapture == record = None \/ \A k \in DOMAIN record : file[record[k].path] = record[k].value

\* What the engine sees: an undo is part of the Apply that failed.
Phase == IF Running("undo") THEN "apply" ELSE IF Idle THEN "idle" ELSE call.name

Ended == IF Idle /\ last.name \in {"apply", "restore"}
         THEN IF last.ok THEN "ok" ELSE "failed"
         ELSE "none"

Contract == INSTANCE ControlContract WITH phase <- Phase, atCapture <- AtCapture, ended <- Ended

\* Every driver keeps the contract on which TuningEngine rests: between calls
\* and under a restore nothing moves away from the captured values, and a
\* restore is reported as done only when all attributes hold them, also when
\* another process restores with other sources than the captured ones.
ImplementsContract == Contract!Spec

Accepts(v) ==
    CASE InPowercap -> PowercapAccepts(v)
      [] InPolicy -> PolicyAccepts(v)
      [] InThermal -> ThermalAccepts(v)
      [] OTHER -> MsrAccepts(v)

\* A call fails only when something went wrong: an access failed, its context
\* ended, the attributes or the register are not what they were at the
\* capture.  And a value that passed the review of what the driver reported is
\* never refused by the driver's Prepare.
FailureHasCause ==
    /\ Idle /\ ~last.ok => excused
    /\ (Idle /\ op = None /\ capability # None) =>
          \A v \in Requests : Normalized(capability, v) # None => Accepts(Normalized(capability, v))

\* What attribute r.path is to hold after the change.
Asked(r) ==
    CASE InThermal -> fixed.tjMax - wanted
      [] InRatio -> [k \in DOMAIN r.value |-> IF k \in DOMAIN wanted THEN wanted[k] ELSE r.value[k]]
      [] OTHER -> wanted

Between(x, a, b) == (a <= x /\ x <= b) \/ (b <= x /\ x <= a)

Near(units, x) == 2 * (Unit * units - x) \in -Unit..Unit

\* At any moment, in the middle of a call and after a kill, an attribute that
\* no write failed on holds its captured value or the requested one, and a
\* voltage lies between the two: no undo and no restore overshoots.
FilesAreExplained ==
    record # None => \A k \in DOMAIN record :
        LET r == record[k]
        IN \/ r.path \in blamed
           \/ InVoltage /\ (Near(Units(file[r.path]), wanted)
                            \/ Between(Unit * Units(file[r.path]), DecodeVoltageOffset(r.value), wanted))
           \/ ~InVoltage /\ file[r.path] \in {r.value, Asked(r)}

\* When Apply succeeds every attribute holds what was reviewed: the requested
\* value, the nearest voltage the register can hold, the requested ratios with
\* the bytes behind them kept; and no zone is asked for more than its bound.
AppliedAsReviewed ==
    Idle /\ last = [name |-> "apply", ok |-> TRUE] =>
        \A k \in DOMAIN record :
            LET r == record[k]
            IN /\ IF InVoltage THEN Near(Units(file[r.path]), wanted) ELSE file[r.path] = Asked(r)
               /\ InPowercap => file[r.path] <= fixed.max[r.path]

=============================================================================
