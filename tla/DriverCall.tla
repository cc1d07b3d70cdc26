----------------------------- MODULE DriverCall -----------------------------
(***************************************************************************)
(* What the drivers of internal/tuning/intel have in common: one control,  *)
(* made of one or more attributes (sysfs files, a field of a register),    *)
(* and the calls the transaction engine and the discovery make on its      *)
(* driver (tuning.Driver, tuning.PreparedOperation).                       *)
(*                                                                         *)
(* A behaviour is about one control.  A process probes it, prepares a      *)
(* reviewed change, captures, applies and restores; it may be killed at    *)
(* every step, and the next one restores what the record holds.  A write   *)
(* is a step of its own, with the read that verifies it.                   *)
(*                                                                         *)
(* The hardware.  A write that fails, or that reads back something else,   *)
(* leaves any value, except that writing what is already there changes     *)
(* nothing.  An attribute may disappear and come back (a policy of a CPU   *)
(* taken offline, a zone of an unloaded module).                           *)
(***************************************************************************)
EXTENDS ChangeSets, Functions

CONSTANTS
    MaxFaults,  \* bound: failed accesses, cancellations, kills, disappearances
    Leftovers   \* Leftovers[c]: what a failed write of control c may leave

VARIABLES
    control,    \* the control of this behaviour
    fixed,      \* its attributes that nobody writes: limits, choices, locks
    file,       \* file[p]: what attribute p holds
    present,    \* the attributes that can be accessed
    driver,     \* what the driver keeps of its last Probe
    capability, \* what that Probe reported, or None
    op,         \* the prepared operation, or None
    record,     \* its snapshot, kept in the recovery record, or None
    call,       \* the call that runs
    last,       \* the last call and how it ended
    faults,     \* faults so far
    wanted,     \* history: what the captured operation was asked for
    blamed,     \* history: attributes of which a write failed since the capture
    excused     \* history: something went wrong since the call began

world == <<control, fixed, file, present>>
process == <<driver, capability, op, record, wanted>>
vars == <<control, fixed, file, present, driver, capability, op, record, call, last,
          faults, wanted, blamed, excused>>

\* i is the loop index, failed says that an iteration failed.
NoCall == [name |-> "none", i |-> 0, failed |-> FALSE, cancelled |-> FALSE]
Nothing == [name |-> "none", ok |-> TRUE]

Running(name) == call.name = name
Idle == Running("none")

\* Those of two attributes that are in kept, in their order.
Kept(pair, kept) ==
    LET one(p) == IF p \in kept THEN <<p>> ELSE <<>>
    IN one(pair[1]) \o one(pair[2])

Unprobed == [sources |-> <<>>, choices |-> {}]

DriverInit ==
    /\ driver = Unprobed /\ capability = None /\ op = None /\ record = None
    /\ call = NoCall /\ last = Nothing
    /\ faults = 0 /\ wanted = None /\ blamed = {} /\ excused = FALSE

Fault == /\ faults < MaxFaults
         /\ faults' = faults + 1
         /\ excused' = TRUE

\* Store.Write and the read back.  A missing attribute is no new fault.
Write(p, v, ok) ==
    \/ /\ ok
       /\ p \in present
       /\ file' = [file EXCEPT ![p] = v]
       /\ UNCHANGED <<faults, blamed, excused>>
    \/ /\ ~ok
       /\ p \notin present
       /\ blamed' = blamed \cup {p}
       /\ UNCHANGED <<file, faults, excused>>
    \/ /\ ~ok
       /\ p \in present
       /\ Fault
       /\ blamed' = blamed \cup {p}
       /\ \E w \in (IF file[p] = v THEN {v} ELSE Leftovers[control] \cup {file[p], v}) :
             file' = [file EXCEPT ![p] = w]

\* The attributes of ps are read: some cannot be, or all are.
Read(ps, ok) ==
    \/ ok /\ ps \subseteq present /\ UNCHANGED <<faults, excused>>
    \/ ~ok /\ ~(ps \subseteq present) /\ UNCHANGED <<faults, excused>>
    \/ ~ok /\ ps \subseteq present /\ Fault

Outcome(ok) ==
    /\ call' = NoCall
    /\ last' = [name |-> IF Running("undo") THEN "apply" ELSE call.name, ok |-> ok]

\* The attributes a snapshot names, and those that an operation, or a driver
\* asked to restore, knows.
Recorded == IF record = None THEN {} ELSE {r.path : r \in Range(record)}
Sources == IF op # None THEN op.sources ELSE driver.sources
Known == Range(Sources)

\* Driver.Probe reports c and remembers d; c is None when it reports nothing.
Probed(d, c) ==
    /\ Idle /\ op = None
    /\ driver' = d
    /\ capability' = c
    /\ UNCHANGED <<wanted, world, op, record, call, last, faults, blamed, excused>>

\* Driver.Probe fails: what it remembers is still that of the Probe before.
ProbeFails ==
    /\ Idle /\ op = None /\ capability # None
    /\ Fault
    /\ capability' = None
    /\ UNCHANGED <<wanted, world, driver, op, record, call, last, blamed>>

\* Driver.Prepare of a reviewed value, for the attributes ps.
Prepared(ps, v) ==
    /\ Idle /\ op = None /\ record = None /\ capability # None
    /\ op' = [sources |-> ps, requested |-> v, captured |-> FALSE]
    /\ last' = Nothing
    /\ excused' = (present # DOMAIN file)
    /\ UNCHANGED <<wanted, world, driver, capability, record, call, faults, blamed>>

\* PreparedOperation.Capture: one record per attribute, in their order.  When
\* it fails the engine drops the operation.
Captured(records) ==
    /\ Idle /\ op # None /\ record = None
    /\ \E ok \in BOOLEAN :
          /\ Read(Range(op.sources), ok)
          /\ last' = [name |-> "capture", ok |-> ok]
          /\ IF ok THEN /\ record' = records
                        /\ op' = [op EXCEPT !.captured = TRUE]
             ELSE op' = None /\ UNCHANGED record
    /\ wanted' = op.requested
    /\ blamed' = {}
    /\ UNCHANGED <<world, driver, capability, call>>

\* The engine calls PreparedOperation.Apply, once.
CallApply ==
    /\ Idle /\ op # None /\ record # None /\ last.name = "capture"
    /\ call' = [NoCall EXCEPT !.name = "apply", !.i = 1]
    /\ excused' = (fixed.locked \/ present # DOMAIN file)
    /\ UNCHANGED <<world, process, last, faults, blamed>>

\* The engine calls PreparedOperation.Restore, or after a restart
\* Driver.Restore.  What changed since the capture is an excuse to fail.
CallRestore ==
    /\ Idle /\ record # None
    /\ last \in {[name |-> "apply", ok |-> TRUE], [name |-> "apply", ok |-> FALSE],
                 [name |-> "restore", ok |-> FALSE], Nothing}
    /\ call' = [NoCall EXCEPT !.name = "restore", !.i = Len(record)]
    /\ excused' = (fixed.locked \/ Known # Recorded \/ present # DOMAIN file)
    /\ UNCHANGED <<world, process, last, faults, blamed>>

\* Nothing remains: the engine drops the record and the operation.
Finish ==
    /\ Idle /\ last = [name |-> "restore", ok |-> TRUE]
    /\ record' = None /\ op' = None /\ last' = Nothing
    /\ UNCHANGED <<wanted, world, driver, capability, call, faults, blamed, excused>>

\* The context of the call ends: a lease, a signal, the end of the session.
Cancel ==
    /\ call.name \in {"apply", "restore"} /\ ~call.cancelled
    /\ Fault
    /\ call' = [call EXCEPT !.cancelled = TRUE]
    /\ UNCHANGED <<world, process, last, blamed>>

Kill ==
    /\ Fault
    /\ driver' = Unprobed /\ capability' = None /\ op' = None
    /\ call' = NoCall /\ last' = Nothing
    /\ UNCHANGED <<wanted, world, record, blamed>>

Disappear(p) ==
    /\ p \in present
    /\ Fault
    /\ present' = present \ {p}
    /\ UNCHANGED <<control, fixed, file, process, call, last, blamed>>

Reappear(p) ==
    /\ p \notin present
    /\ present' = present \cup {p}
    /\ UNCHANGED <<control, fixed, file, process, call, last, faults, blamed, excused>>

DriverNext ==
    \/ CallApply \/ CallRestore \/ Finish \/ Cancel \/ Kill \/ ProbeFails
    \/ \E p \in DOMAIN file : Disappear(p) \/ Reappear(p)

=============================================================================
