---------------------------- MODULE SmokeHarness ----------------------------
(***************************************************************************)
(* cmd/tuning-smoke: the program that applies one conservative change set  *)
(* after the other to the real machine, restores each at once and writes   *)
(* down what it saw.  It drives the engine of TuningEngine, composed here  *)
(* step by step, and reviews its own change sets with ChangeSets.          *)
(*                                                                         *)
(* The engine's controls hold distances from the value at boot: Stock is   *)
(* 0, and Number gives the value a driver reports.  The firmware, or       *)
(* another program, may move a control too, which the engine's own module  *)
(* excludes.  A failed write of the report on a recovery that failed, the  *)
(* processor's identity, and the cases of registers that the driver never  *)
(* offers to write (ratios, voltages) are left out.                        *)
(***************************************************************************)
EXTENDS ChangeSets

CONSTANTS
    Procs, NoProc, Controls, Order, Values, Stock, NoRecord,    \* see TuningEngine
    MaxFaults, MaxBoots,
    Self,       \* the harness, one of Procs
    Machines,   \* what the controls hold at boot, their ranges, what is offered
    MaxRuns     \* bound: how often the harness is started

\* The entries of a report; None is the file that is not there.
Reports == [run : Nat, cases : Nat, error : BOOLEAN]

\* Nothing reads below its minimum, which is 0 for either power limit, and the
\* energy preference at boot is one of those that are listed.
ASSUME HarnessAssumption ==
    /\ Self \in Procs
    /\ Stock = 0 /\ Values \subseteq Int
    /\ None \notin Reports \cup [min : Int, max : Int, step : Int]
    /\ \A m \in Machines :
          /\ m.base \in [Controls -> Int] /\ m.min \in [Controls -> Int] /\ m.max \in [Controls -> Int]
          /\ \A c \in Controls \ {"epp"} : m.min[c] <= m.base[c]
          /\ {"pl1", "pl2"} \subseteq Controls => m.min["pl1"] = m.min["pl2"]
          /\ m.preferences \subseteq 1..4
          /\ "epp" \in Controls => m.base["epp"] \in m.preferences

VARIABLES
    hw, disk, boot, lock, pc, mem, idx, failed, faults,         \* see TuningEngine
    machine,
    runs,       \* how often it was started
    smoke,      \* the harness: its stage, the case, what it knows, its exit status
    report,     \* the file of --output: by which run, cases in it, does it tell of an error
    moved       \* history: controls moved by others, since boot and since they were verified

Engine == INSTANCE TuningEngine

\* What the engine takes for granted of its constants.
ASSUME EngineAssumption ==
    /\ NoProc \notin Procs /\ NoRecord \notin Engine!Records
    /\ Stock \in Values /\ Order \in [Controls -> Nat]
    /\ MaxFaults \in Nat /\ MaxBoots \in Nat

engineVars == <<hw, disk, boot, lock, pc, mem, idx, failed, faults>>
vars == <<engineVars, machine, runs, smoke, report, moved>>

Options == [mutate : BOOLEAN, confirmed : BOOLEAN, target : BOOLEAN, root : BOOLEAN, output : BOOLEAN]
Off == [stage |-> "off", mutate |-> FALSE, output |-> FALSE, stock |-> << >>, case |-> 0,
        error |-> FALSE, exit |-> "none"]

Init ==
    /\ Engine!Init
    /\ machine \in Machines
    /\ runs = 0
    /\ smoke = Off
    /\ report = None
    /\ moved = [ever |-> {}, late |-> {}]

-----------------------------------------------------------------------------
(* What it discovers, and what it makes of it.                             *)

Number(c, v) == machine.base[c] + v
Reported(c, v) == IF c = "epp" THEN Choice(Number(c, v)) ELSE Numeric(Number(c, v))

\* The capabilities of a reading: what the drivers that answered report.
Caps(reading) ==
    [c \in DOMAIN reading |->
        Capability(c, IF c \in machine.offered THEN "supported" ELSE "read_only", "W", Reported(c, reading[c]),
                   IF c = "epp" THEN None ELSE [min |-> machine.min[c], max |-> machine.max[c], step |-> 1],
                   IF c = "epp" THEN machine.preferences ELSE {}, "kernel")]

lowerNumeric(c, amount) == Greatest(c.range.min, c.current.of - amount)

\* The first of power, balance_power, balance_performance, performance.
mostSaving(preferences) == CHOOSE i \in preferences : \A j \in preferences : i <= j

Ask(id, value) == <<[id |-> id, requested |-> value]>>

\* PL1 and PL2 a step lower, with PL2 not below PL1; the thermal limit a step
\* lower; the most saving of the preferences, which are numbered in that order.
conservativeCases(caps) ==
    LET offered(id) == id \in DOMAIN caps /\ caps[id].state = "supported"
        lower(id) == lowerNumeric(caps[id], caps[id].range.step)
        pl1 == IF offered("pl1") THEN lower("pl1")
               ELSE IF "pl1" \in DOMAIN caps THEN caps["pl1"].current.of ELSE lower("pl2")
        case(id, value) == IF offered(id) THEN Ask(id, value) ELSE <<>>
        power == case("pl1", Numeric(pl1)) \o
                 case("pl2", IF offered("pl2") THEN Numeric(Greatest(lower("pl2"), pl1)) ELSE NoValue)
        thermal == case("tcc", IF offered("tcc") THEN Numeric(lower("tcc")) ELSE NoValue)
        epp == case("epp", Choice(mostSaving(machine.preferences)))
        exercise(changes) == IF changes = <<>> THEN <<>> ELSE <<changes>>
    IN exercise(power) \o exercise(thermal) \o exercise(epp)

Cases == conservativeCases(Caps(smoke.stock))
Case == Cases[smoke.case]
Ids(case) == {case[i].id : i \in DOMAIN case}

Fault == Engine!Fault

\* What a discovery can read: everything, or all but the controls of a driver
\* that does not answer (controls of one driver have the same order).
Readings == {hw} \cup {[d \in {e \in Controls : Order[e] # Order[c]} |-> hw[d]] : c \in Controls}

\* discover: it returns an error too when a driver does not answer.
discover(reading) ==
    /\ reading \in Readings
    /\ IF reading = hw THEN UNCHANGED faults ELSE Fault

\* emitReport: a temporary file, renamed; without --output there is no file.
emitReport(entry, ok) ==
    IF ok THEN report' = (IF smoke.output THEN entry ELSE report) /\ UNCHANGED faults
    ELSE smoke.output /\ Fault /\ UNCHANGED report

Entry(cases, error) == [run |-> runs, cases |-> cases, error |-> error]

Goto(stage) == smoke' = [smoke EXCEPT !.stage = stage]
Ends(status) == smoke' = [smoke EXCEPT !.stage = IF pc[Self] = "down" THEN "off" ELSE "leave",
                                       !.exit = status]

QuietEngine == UNCHANGED <<hw, disk, boot, lock, pc, mem, idx, failed>>
Quiet == UNCHANGED <<machine, runs, report, moved>>

-----------------------------------------------------------------------------
(* From the start to the first case.                                       *)

\* validateMutationGate and validateMutationEnvironment; then the lock.
Start(options) ==
    /\ smoke.stage = "off" /\ pc[Self] = "down" /\ runs < MaxRuns
    /\ runs' = runs + 1
    /\ LET begun == [Off EXCEPT !.mutate = options.mutate, !.output = options.output]
       IN IF ~options.mutate
          THEN smoke' = [begun EXCEPT !.stage = "look"] /\ UNCHANGED engineVars
          ELSE IF options.confirmed /\ options.target /\ options.root /\ options.output
          THEN smoke' = [begun EXCEPT !.stage = "hydrate"] /\ Engine!Start(Self)
          ELSE smoke' = [begun EXCEPT !.exit = "error"] /\ UNCHANGED engineVars
    /\ UNCHANGED <<machine, report, moved>>

\* The read-only mode: a report of what is there, without the lock.
Look ==
    /\ smoke.stage = "look"
    /\ \E saved \in BOOLEAN :
          /\ emitReport(Entry(0, FALSE), saved)
          /\ Ends(IF saved THEN "ok" ELSE "error")
    /\ QuietEngine /\ UNCHANGED <<machine, runs, moved>>

\* hydrateRecoverAndRediscover: a first discovery tells the engine which machine
\* this is.
Hydrate ==
    /\ smoke.stage = "hydrate"
    /\ \E reading \in Readings :
          /\ discover(reading)
          /\ smoke' = [smoke EXCEPT !.stage = "recover", !.stock = reading, !.error = reading # hw]
    /\ QuietEngine /\ Quiet

RecoverySteps ==
    \/ Engine!Load(Self) \/ Engine!RecoverSkip(Self) \/ Engine!RecoverRestore(Self)
    \/ Engine!RecoverSave(Self) \/ Engine!RecoverEnd(Self)

\* recoverBeforeMutation: an error, a record of another boot or a discrepancy
\* is written to the report, and nothing is tuned.
Recover ==
    /\ smoke.stage = "recover"
    /\ RecoverySteps
    /\ IF pc'[Self] = "down"
       THEN /\ smoke' = [smoke EXCEPT !.stage = "off", !.exit = "error", !.error = TRUE]
            /\ report' = Entry(0, TRUE)
       ELSE /\ Goto(IF pc'[Self] = "idle" THEN "rediscover" ELSE "recover")
            /\ UNCHANGED report
    /\ UNCHANGED <<machine, runs, moved>>

\* Stock is what is read after the recovery.
Rediscover ==
    /\ smoke.stage = "rediscover"
    /\ \E reading \in Readings :
          /\ discover(reading)
          /\ smoke' = [smoke EXCEPT !.stage = "ready", !.stock = reading, !.error = @ \/ reading # hw]
    /\ QuietEngine /\ Quiet

\* An incomplete probe ends the run, with a report; otherwise the report is
\* saved before anything is written.
Ready ==
    /\ smoke.stage = "ready"
    /\ \E saved \in BOOLEAN :
          /\ emitReport(Entry(0, smoke.error), saved)
          /\ IF saved /\ ~smoke.error
             THEN smoke' = [smoke EXCEPT !.stage = IF Cases = <<>> THEN "final" ELSE "case", !.case = 1]
             ELSE Ends("error")
    /\ QuietEngine /\ UNCHANGED <<machine, runs, moved>>

-----------------------------------------------------------------------------
(* exerciseCase                                                            *)

CaseReview == ValidateChangeSet([generation |-> "stock", caps |-> Caps(smoke.stock)],
                            [generation |-> "stock", changes |-> Case])

\* Engine.Apply: the review, then the capture of every control.  Refused, or
\* failing, it has done nothing, and the case ends.
Begin ==
    /\ smoke.stage = "case"
    /\ \/ /\ CaseReview.ok
          /\ Engine!Begin(Self)
          /\ mem'[Self].ops = [i \in DOMAIN CaseReview.changes |-> CaseReview.changes[i].id]
          /\ Goto("apply")
       \/ /\ IF CaseReview.ok THEN Fault ELSE UNCHANGED faults
          /\ smoke' = [smoke EXCEPT !.stage = "save", !.error = TRUE]
          /\ QuietEngine
    /\ Quiet

\* A write that succeeds leaves what was reviewed.
Write ==
    /\ Engine!Write(Self)
    /\ LET i == idx[Self] IN
       pc'[Self] = "mark" => Reported(mem[Self].ops[i], hw'[mem[Self].ops[i]]) = CaseReview.changes[i].requested

RollbackSteps ==
    \/ Engine!RollbackSkip(Self) \/ Engine!RollbackRestore(Self)
    \/ Engine!RollbackSave(Self) \/ Engine!RollbackEnd(Self)

\* An Apply that fails has rolled back by itself, or tried to; the case ends
\* there, and what it could not restore stays in the record.
Apply ==
    /\ smoke.stage = "apply"
    /\ \/ Engine!SaveRecord(Self) \/ Engine!Mark(Self) \/ Write \/ Engine!Activate(Self)
       \/ Engine!Rollback(Self) \/ RollbackSteps
    /\ smoke' = CASE pc'[Self] = "active" -> [smoke EXCEPT !.stage = "effective"]
                  [] pc'[Self] \in {"idle", "incomplete"} -> [smoke EXCEPT !.stage = "save", !.error = TRUE]
                  [] OTHER -> smoke
    /\ Quiet

\* The effective values are read; then the rollback starts, whatever was read.
Observe ==
    /\ smoke.stage = "effective"
    /\ \E reading \in Readings :
          /\ discover(reading)
          /\ smoke' = [smoke EXCEPT !.stage = "undo", !.error = reading # hw]
    /\ QuietEngine /\ Quiet

Undo ==
    /\ smoke.stage = "undo"
    /\ \/ pc[Self] = "active" /\ Engine!Rollback(Self)
       \/ RollbackSteps
    /\ smoke' = IF pc'[Self] \in {"idle", "incomplete"}
                THEN [smoke EXCEPT !.stage = "verify", !.error = @ \/ pc'[Self] = "incomplete"]
                ELSE smoke
    /\ Quiet

verifyRestored_OnlyPresence(reading) == Ids(Case) \subseteq DOMAIN reading

\* verifyRestored: every control of the case is there and is what it was.
verifyRestored(reading) ==
    \A c \in Ids(Case) : c \in DOMAIN reading /\ reading[c] = smoke.stock[c]

Verify ==
    /\ smoke.stage = "verify"
    /\ \E reading \in Readings :
          /\ discover(reading)
          /\ smoke' = [smoke EXCEPT !.stage = "save",
                           !.error = @ \/ reading # hw \/ ~verifyRestored(reading)]
          /\ moved' = [moved EXCEPT !.late = @ \ (Ids(Case) \cap DOMAIN reading)]
    /\ QuietEngine /\ UNCHANGED <<machine, runs, report>>

Save_IgnoresFailure ==
    /\ smoke.stage = "save"
    /\ \E saved \in BOOLEAN :
          /\ emitReport(Entry(smoke.case, smoke.error), saved)
          /\ smoke' = CASE smoke.error -> [smoke EXCEPT !.stage = "leave", !.exit = "error"]
                        [] smoke.case = Len(Cases) -> [smoke EXCEPT !.stage = "final"]
                        [] OTHER -> [smoke EXCEPT !.stage = "case", !.case = @ + 1]
    /\ QuietEngine /\ UNCHANGED <<machine, runs, moved>>

\* The report tells of the case before the next one begins; the first error
\* ends the run.
Save ==
    /\ smoke.stage = "save"
    /\ \E saved \in BOOLEAN :
          /\ emitReport(Entry(smoke.case, smoke.error), saved)
          /\ smoke' = CASE ~saved \/ smoke.error -> [smoke EXCEPT !.stage = "leave", !.exit = "error"]
                        [] saved /\ ~smoke.error /\ smoke.case = Len(Cases) -> [smoke EXCEPT !.stage = "final"]
                        [] OTHER -> [smoke EXCEPT !.stage = "case", !.case = @ + 1]
    /\ QuietEngine /\ UNCHANGED <<machine, runs, moved>>

\* The last report goes to the standard output too.
Final ==
    /\ smoke.stage = "final"
    /\ \E saved \in BOOLEAN :
          /\ emitReport(Entry(Len(Cases), FALSE), saved)
          /\ smoke' = [smoke EXCEPT !.stage = "leave", !.exit = IF saved THEN "ok" ELSE "error"]
    /\ QuietEngine /\ UNCHANGED <<machine, runs, moved>>

Leave ==
    /\ smoke.stage = "leave"
    /\ Engine!Exit(Self)
    /\ Goto("off")
    /\ Quiet

-----------------------------------------------------------------------------
(* What happens to it.                                                     *)

Kill ==
    /\ smoke.stage # "off"
    /\ Engine!Kill(Self)
    /\ smoke' = [Off EXCEPT !.exit = "killed"]
    /\ Quiet

Reboot ==
    /\ Engine!Reboot
    /\ smoke' = Off
    /\ moved' = [ever |-> {}, late |-> {}]
    /\ UNCHANGED <<machine, runs, report>>

\* The firmware, or another program, moves a control.
Firmware(c) ==
    /\ Fault
    /\ \E v \in Values \ {hw[c]} : hw' = [hw EXCEPT ![c] = v]
    /\ moved' = [ever |-> moved.ever \cup {c}, late |-> moved.late \cup {c}]
    /\ UNCHANGED <<disk, boot, lock, pc, mem, idx, failed, machine, runs, smoke, report>>

Next ==
    \/ \E options \in Options : Start(options)
    \/ Look \/ Hydrate \/ Recover \/ Rediscover \/ Ready
    \/ Begin \/ Apply \/ Observe \/ Undo \/ Verify \/ Save \/ Final \/ Leave
    \/ Kill \/ Reboot
    \/ \E c \in Controls : Firmware(c)

Spec == Init /\ [][Next]_vars

-----------------------------------------------------------------------------
(* Properties                                                              *)

\* When a mutating run succeeds, every control it exercised holds what it held
\* before, except one that others moved after it had been verified, and no
\* record is left: also when a control was moved in the middle of a case.  What
\* it took for stock is what the machine had at boot, unless others moved it:
\* whatever a killed run has left is restored before it is read.
SuccessMeansRestored ==
    smoke.exit = "ok" /\ smoke.mutate =>
        /\ disk = NoRecord
        /\ \A k \in DOMAIN Cases : \A c \in Ids(Cases[k]) \ moved.late : hw[c] = smoke.stock[c]
        /\ \A c \in DOMAIN smoke.stock \ moved.ever : smoke.stock[c] = Stock

\* As long as a case may have changed the machine, the report on disk is the one
\* of this run, has every case before it and tells of no error.
ReportIsAhead ==
    pc[Self] \in Engine!InTransaction \cup {"captured"} =>
        /\ report # None /\ report.run = runs
        /\ report.cases \in {smoke.case - 1, smoke.case} /\ (report.cases = smoke.case => smoke.stage = "leave")
        /\ report.error => smoke.stage = "leave"

\* No case raises a limit or asks for more performance, except that PL2 is
\* lifted to PL1 on a machine whose PL1 was above it.
NeverRaises ==
    pc[Self] = "active" =>
        \A c \in Ids(Case) \ moved.ever :
            \/ hw[c] <= smoke.stock[c]
            \/ c = "pl2" /\ Number("pl1", smoke.stock["pl1"]) > Number("pl2", smoke.stock["pl2"])

=============================================================================
