---------------------------- MODULE TuningEngine ----------------------------
(***************************************************************************)
(* The transaction engine of internal/tuning: transaction.go, recovery.go, *)
(* lock.go, and the order in which cmd/helper and session/server.go call   *)
(* it.                                                                     *)
(*                                                                         *)
(* A helper process owns the flock of lock.go for its whole life.  It      *)
(* first recovers what an earlier helper left (Recover), then applies      *)
(* change sets (Apply) and rolls them back (Rollback).  Apply journals a   *)
(* recovery record before it touches the hardware; the record outlives the *)
(* process.  Every step at which the process can be killed, and every call *)
(* that can fail (saving the record before or after its rename, removing   *)
(* it, writing a control, restoring a control), is a step of its own here. *)
(*                                                                         *)
(* Abstractions.  A control has one of Values, and Stock is what it holds  *)
(* when the machine boots.  A write that fails may leave anything; a       *)
(* restore that fails may leave anything unless the control was already at *)
(* the value it restores (the drivers only ever write snapshot values on   *)
(* that path).  Nothing but a helper writes the controls.                  *)
(*                                                                         *)
(* A definition named Op_Something is a faulty variant of Op.  No          *)
(* specification uses it: it is put in the place of Op to check that a     *)
(* property notices the fault.                                             *)
(***************************************************************************)
EXTENDS Integers, Sequences, FiniteSets

CONSTANTS
    Procs,      \* helper (and smoke-test) processes that may be started
    NoProc,     \* nobody holds session.lock
    Controls,   \* the controls the drivers expose
    Order,      \* Order[c]: PreparedOperation.Order of the control's driver
    Values,     \* what a control may hold
    Stock,      \* what a control holds at boot
    NoRecord,   \* recovery-v1.json does not exist
    MaxFaults,  \* bound: calls that fail and processes that are killed
    MaxBoots    \* bound: reboots

RecordStates == {"applying", "active", "rolling_back", "rollback_incomplete"}

\* RecoveryRecord.  ops is the order of Entries, applied the controls whose
\* entry has Applied set, snap their snapshots.
Records == [state: RecordStates, boot: Nat, ops: Seq(Controls),
            snap: [Controls -> Values], applied: SUBSET Controls]

ASSUME EngineAssumption ==
    /\ NoProc \notin Procs
    /\ NoRecord \notin Records
    /\ Stock \in Values
    /\ Order \in [Controls -> Nat]
    /\ MaxFaults \in Nat
    /\ MaxBoots \in Nat

VARIABLES
    hw,      \* what each control holds
    disk,    \* the published recovery record, or NoRecord
    boot,    \* the boot ID
    lock,    \* the holder of session.lock
    pc,      \* where each process is in Recover, Apply or Rollback
    mem,     \* the record each process works on (active.record, or the loaded one)
    idx,     \* the loop index over mem[p].ops
    failed,  \* rollbackErr / recoveryErr # nil
    faults   \* faults so far

vars == <<hw, disk, boot, lock, pc, mem, idx, failed, faults>>

Labels == {"down", "started", "idle", "captured", "mark", "write", "active",
           "roll", "restore", "restored", "incomplete",
           "rec_restore", "rec_restored"}

InRecovery == {"rec_restore", "rec_restored"}
InRollback == {"roll", "restore", "restored", "incomplete"}
\* The labels at which a process holds an ActiveTransaction that is not finished.
InTransaction == {"mark", "write", "active"} \cup InRollback

\* What Apply may be asked for: distinct controls, sorted by the order of
\* their drivers (sort.SliceStable); validation refuses duplicates.
Plans == { s \in UNION { [1..n -> Controls] : n \in 0..Cardinality(Controls) } :
             /\ \A i, j \in DOMAIN s : s[i] = s[j] => i = j
             /\ \A i, j \in DOMAIN s : i < j => Order[s[i]] <= Order[s[j]] }

\* Controls that are not at stock.
Dirty == {c \in Controls : hw[c] # Stock}

\* Controls that the record of this boot names as possibly modified.
Covered == IF disk # NoRecord /\ disk.boot = boot THEN disk.applied ELSE {}

Blank == [state |-> "applying", boot |-> 0, ops |-> <<>>,
          snap |-> [c \in Controls |-> Stock], applied |-> {}]

Init ==
    /\ hw = [c \in Controls |-> Stock]
    /\ disk = NoRecord
    /\ boot = 0
    /\ lock = NoProc
    /\ pc = [p \in Procs |-> "down"]
    /\ mem = [p \in Procs |-> Blank]
    /\ idx = [p \in Procs |-> 0]
    /\ failed = [p \in Procs |-> FALSE]
    /\ faults = 0

Goto(p, label) == pc' = [pc EXCEPT ![p] = label]

\* The process is gone: its memory and its flock with it.
Stop(p) ==
    /\ Goto(p, "down")
    /\ lock' = NoProc
    /\ mem' = [mem EXCEPT ![p] = Blank]
    /\ idx' = [idx EXCEPT ![p] = 0]
    /\ failed' = [failed EXCEPT ![p] = FALSE]

Fault == /\ faults < MaxFaults
         /\ faults' = faults + 1

\* FileRecoveryStore.Save: a temporary file, synced, renamed over the record,
\* then the directory synced.  A failure before the rename leaves the old
\* record, a failure after it has already published the new one.
Save(record, ok) ==
    \/ /\ ok
       /\ disk' = record
       /\ UNCHANGED faults
    \/ /\ ~ok
       /\ Fault
       /\ disk' \in {disk, record}

\* FileRecoveryStore.Remove: a missing record is no error.
Remove(ok) ==
    \/ /\ ok
       /\ disk' = NoRecord
       /\ UNCHANGED faults
    \/ /\ ~ok
       /\ Fault
       /\ UNCHANGED disk

\* PreparedOperation.Apply: on success the control holds the requested value,
\* on failure whatever the driver left (unchanged, written, or a mixture).
WriteControl(c, ok) ==
    /\ \E v \in Values : hw' = [hw EXCEPT ![c] = v]
    /\ IF ok THEN UNCHANGED faults ELSE Fault

\* PreparedOperation.Restore and Driver.Restore of snapshot value s.
RestoreControl(c, s, ok) ==
    \/ /\ ok
       /\ hw' = [hw EXCEPT ![c] = s]
       /\ UNCHANGED faults
    \/ /\ ~ok
       /\ Fault
       /\ \E v \in Values : /\ hw[c] = s => v = s
                            /\ hw' = [hw EXCEPT ![c] = v]

-----------------------------------------------------------------------------
(* A helper starts: the flock, then Recover before anything else.          *)

Start_NoFlock(p) ==
    /\ pc[p] = "down"
    /\ lock' = p
    /\ Goto(p, "started")
    /\ UNCHANGED <<hw, disk, boot, mem, idx, failed, faults>>

Start(p) ==
    /\ pc[p] = "down"
    /\ lock = NoProc
    /\ lock' = p
    /\ Goto(p, "started")
    /\ UNCHANGED <<hw, disk, boot, mem, idx, failed, faults>>

Load_IgnoresBoot(p) ==
    /\ pc[p] = "started"
    /\ \/ /\ disk = NoRecord
          /\ Goto(p, "idle")
          /\ UNCHANGED <<lock, mem, idx, failed>>
       \/ /\ disk # NoRecord
          /\ Goto(p, "rec_restore")
          /\ mem' = [mem EXCEPT ![p] = disk]
          /\ idx' = [idx EXCEPT ![p] = Len(disk.ops)]
          /\ failed' = [failed EXCEPT ![p] = FALSE]
          /\ UNCHANGED lock
    /\ UNCHANGED <<hw, disk, boot, faults>>

\* Engine.Recover up to its loop.  A record of another boot is kept and
\* reported as StaleBoot: the server refuses to go on and exits.
Load(p) ==
    /\ pc[p] = "started"
    /\ \/ /\ disk = NoRecord
          /\ Goto(p, "idle")
          /\ UNCHANGED <<lock, mem, idx, failed>>
       \/ /\ disk # NoRecord
          /\ disk.boot # boot
          /\ Stop(p)
       \/ /\ disk # NoRecord
          /\ disk.boot = boot
          /\ Goto(p, "rec_restore")
          /\ mem' = [mem EXCEPT ![p] = disk]
          /\ idx' = [idx EXCEPT ![p] = Len(disk.ops)]
          /\ failed' = [failed EXCEPT ![p] = FALSE]
          /\ UNCHANGED lock
    /\ UNCHANGED <<hw, disk, boot, faults>>

\* The control of the current loop iteration.
Current(p) == mem[p].ops[idx[p]]

Step(p, label, by) ==
    /\ Goto(p, label)
    /\ idx' = [idx EXCEPT ![p] = @ + by]

\* The loops of Recover and rollbackUnlocked skip an entry that is not Applied.
SkipEntry(p, loop) ==
    /\ pc[p] = loop
    /\ idx[p] > 0
    /\ Current(p) \notin mem[p].applied
    /\ Step(p, loop, -1)
    /\ UNCHANGED <<hw, disk, boot, lock, mem, failed, faults>>

\* Clears Applied before it knows that the control was restored.
RestoreEntry_ClearsFirst(p, loop, saving) ==
    /\ pc[p] = loop
    /\ idx[p] > 0
    /\ Current(p) \in mem[p].applied
    /\ \E ok \in BOOLEAN :
         /\ RestoreControl(Current(p), mem[p].snap[Current(p)], ok)
         /\ Goto(p, saving)
         /\ failed' = [failed EXCEPT ![p] = @ \/ ~ok]
    /\ mem' = [mem EXCEPT ![p].applied = @ \ {Current(p)}]
    /\ UNCHANGED <<disk, boot, lock, idx>>

\* Walks the entries in the order they were applied.
RestoreEntry_Forward(p, loop, saving) ==
    LET c == mem[p].ops[Len(mem[p].ops) + 1 - idx[p]] IN
    /\ pc[p] = loop
    /\ idx[p] > 0
    /\ c \in mem[p].applied
    /\ RestoreControl(c, mem[p].snap[c], TRUE)
    /\ Goto(p, saving)
    /\ mem' = [mem EXCEPT ![p].applied = @ \ {c}]
    /\ UNCHANGED <<disk, boot, lock, idx, failed>>

\* They restore an entry that is, and carry on with the next one on an error.
RestoreEntry(p, loop, saving) ==
    /\ pc[p] = loop
    /\ idx[p] > 0
    /\ Current(p) \in mem[p].applied
    /\ \E ok \in BOOLEAN :
         /\ RestoreControl(Current(p), mem[p].snap[Current(p)], ok)
         /\ IF ok
            THEN /\ Goto(p, saving)
                 /\ mem' = [mem EXCEPT ![p].applied = @ \ {Current(p)}]
                 /\ UNCHANGED <<idx, failed>>
            ELSE /\ Step(p, loop, -1)
                 /\ failed' = [failed EXCEPT ![p] = TRUE]
                 /\ UNCHANGED mem
    /\ UNCHANGED <<disk, boot, lock>>

\* After each restored entry the record is saved; a failed save counts as a
\* failed restoration although the control is back at its snapshot.
SaveEntry(p, loop, saving) ==
    /\ pc[p] = saving
    /\ \E ok \in BOOLEAN :
         /\ Save(mem[p], ok)
         /\ failed' = [failed EXCEPT ![p] = @ \/ ~ok]
    /\ Step(p, loop, -1)
    /\ UNCHANGED <<hw, boot, lock, mem>>

RecoverSkip(p) == SkipEntry(p, "rec_restore")
RecoverRestore(p) == RestoreEntry(p, "rec_restore", "rec_restored")
RecoverSave(p) == SaveEntry(p, "rec_restore", "rec_restored")

\* Recover returns: with an error the record stays and the helper exits,
\* otherwise the record is removed and tuning may start.
RecoverEnd(p) ==
    /\ pc[p] = "rec_restore"
    /\ idx[p] = 0
    /\ \/ /\ failed[p]
          /\ Stop(p)
          /\ UNCHANGED <<disk, faults>>
       \/ /\ ~failed[p]
          /\ Remove(TRUE)
          /\ Goto(p, "idle")
          /\ UNCHANGED <<lock, mem, idx, failed>>
       \/ /\ ~failed[p]
          /\ Remove(FALSE)
          /\ Stop(p)
    /\ UNCHANGED <<hw, boot>>

-----------------------------------------------------------------------------
(* Engine.Apply.                                                           *)

\* Validate, Prepare and Capture every control, in order, before anything is
\* written.  An error in any of them returns without a trace.
Begin(p) ==
    /\ pc[p] = "idle"
    /\ \E plan \in Plans :
         mem' = [mem EXCEPT ![p] = [state |-> "applying", boot |-> boot,
                                    ops |-> plan, snap |-> hw, applied |-> {}]]
    /\ Goto(p, "captured")
    /\ UNCHANGED <<hw, disk, boot, lock, idx, failed, faults>>

\* The first Save.  If it fails there is no active transaction, even when the
\* record was published.
SaveRecord(p) ==
    /\ pc[p] = "captured"
    /\ \E ok \in BOOLEAN :
         /\ Save(mem[p], ok)
         /\ Goto(p, IF ok THEN "mark" ELSE "idle")
    /\ idx' = [idx EXCEPT ![p] = 1]
    /\ UNCHANGED <<hw, boot, lock, mem, failed>>

Mark_InMemoryOnly(p) ==
    /\ pc[p] = "mark"
    /\ idx[p] <= Len(mem[p].ops)
    /\ mem' = [mem EXCEPT ![p].applied = @ \cup {Current(p)}]
    /\ Goto(p, "write")
    /\ UNCHANGED <<hw, disk, boot, lock, idx, failed, faults>>

\* Applied is persisted before the control is written: it means "possibly
\* modified".
Mark(p) ==
    /\ pc[p] = "mark"
    /\ idx[p] <= Len(mem[p].ops)
    /\ mem' = [mem EXCEPT ![p].applied = @ \cup {Current(p)}]
    /\ \E ok \in BOOLEAN :
         /\ Save(mem'[p], ok)
         /\ Goto(p, IF ok THEN "write" ELSE "roll")
    /\ UNCHANGED <<hw, boot, lock, idx, failed>>

Write(p) ==
    /\ pc[p] = "write"
    /\ \E ok \in BOOLEAN :
         /\ WriteControl(Current(p), ok)
         /\ IF ok THEN Step(p, "mark", 1) ELSE Step(p, "roll", 0)
    /\ UNCHANGED <<disk, boot, lock, mem, failed>>

Activate(p) ==
    /\ pc[p] = "mark"
    /\ idx[p] > Len(mem[p].ops)
    /\ mem' = [mem EXCEPT ![p].state = "active"]
    /\ \E ok \in BOOLEAN :
         /\ Save(mem'[p], ok)
         /\ Goto(p, IF ok THEN "active" ELSE "roll")
    /\ UNCHANGED <<hw, boot, lock, idx, failed>>

-----------------------------------------------------------------------------
(* ActiveTransaction.Rollback and the rollbacks inside Apply.              *)

Rollback_LastIndex(p) ==
    /\ pc[p] \in {"active", "roll", "incomplete"}
    /\ mem' = [mem EXCEPT ![p].state = "rolling_back"]
    /\ \E ok \in BOOLEAN : Save(mem'[p], ok)
    /\ Goto(p, "restore")
    /\ idx' = [idx EXCEPT ![p] = Len(mem[p].ops) - 1]
    /\ failed' = [failed EXCEPT ![p] = FALSE]
    /\ UNCHANGED <<hw, boot, lock>>

Rollback_NoRetry(p) ==
    /\ pc[p] \in {"active", "roll"}
    /\ mem' = [mem EXCEPT ![p].state = "rolling_back"]
    /\ \E ok \in BOOLEAN : Save(mem'[p], ok)
    /\ Goto(p, "restore")
    /\ idx' = [idx EXCEPT ![p] = Len(mem[p].ops)]
    /\ failed' = [failed EXCEPT ![p] = FALSE]
    /\ UNCHANGED <<hw, boot, lock>>

\* Called on a failed Apply, on revert, close, end of input, a signal, lease
\* expiry, and again after an incomplete rollback.  The result of the Save is
\* ignored.
Rollback(p) ==
    /\ pc[p] \in {"active", "roll", "incomplete"}
    /\ mem' = [mem EXCEPT ![p].state = "rolling_back"]
    /\ \E ok \in BOOLEAN : Save(mem'[p], ok)
    /\ Goto(p, "restore")
    /\ idx' = [idx EXCEPT ![p] = Len(mem[p].ops)]
    /\ failed' = [failed EXCEPT ![p] = FALSE]
    /\ UNCHANGED <<hw, boot, lock>>

RollbackSkip(p) == SkipEntry(p, "restore")
RollbackRestore(p) == RestoreEntry(p, "restore", "restored")
RollbackSave(p) == SaveEntry(p, "restore", "restored")

RollbackEnd_IgnoresErrors(p) ==
    /\ pc[p] = "restore"
    /\ idx[p] = 0
    /\ \E ok \in BOOLEAN :
         /\ Remove(ok)
         /\ Goto(p, IF ok THEN "idle" ELSE "incomplete")
    /\ UNCHANGED <<hw, boot, lock, mem, idx, failed>>

\* The rollback returns: with a RollbackError the transaction stays available
\* for another attempt, otherwise it is finished and its record removed.
RollbackEnd(p) ==
    /\ pc[p] = "restore"
    /\ idx[p] = 0
    /\ \/ /\ failed[p]
          /\ mem' = [mem EXCEPT ![p].state = "rollback_incomplete"]
          /\ \E ok \in BOOLEAN : Save(mem'[p], ok)
          /\ Goto(p, "incomplete")
       \/ /\ ~failed[p]
          /\ \E ok \in BOOLEAN :
               /\ Remove(ok)
               /\ Goto(p, IF ok THEN "idle" ELSE "incomplete")
          /\ UNCHANGED mem
    /\ UNCHANGED <<hw, boot, lock, idx, failed>>

-----------------------------------------------------------------------------
(* The end of a process, and of a boot.                                    *)

\* The session ends with nothing active, or with a rollback that failed once
\* more (Run joins its error and returns).
Exit(p) ==
    /\ pc[p] \in {"started", "idle", "incomplete"}
    /\ Stop(p)
    /\ UNCHANGED <<hw, disk, boot, faults>>

\* SIGKILL, a panic, the OOM killer: anywhere.
Kill(p) ==
    /\ pc[p] # "down"
    /\ Fault
    /\ Stop(p)
    /\ UNCHANGED <<hw, disk, boot>>

\* The controls are volatile; the record is in /run, or in a Directory that
\* may survive.
Reboot ==
    /\ boot < MaxBoots
    /\ boot' = boot + 1
    /\ hw' = [c \in Controls |-> Stock]
    /\ disk' \in {disk, NoRecord}
    /\ lock' = NoProc
    /\ pc' = [p \in Procs |-> "down"]
    /\ mem' = [p \in Procs |-> Blank]
    /\ idx' = [p \in Procs |-> 0]
    /\ failed' = [p \in Procs |-> FALSE]
    /\ UNCHANGED faults

Run(p) == \/ Load(p) \/ RecoverSkip(p) \/ RecoverRestore(p) \/ RecoverSave(p) \/ RecoverEnd(p)
          \/ SaveRecord(p) \/ Mark(p) \/ Write(p) \/ Activate(p)
          \/ RollbackSkip(p) \/ RollbackRestore(p) \/ RollbackSave(p) \/ RollbackEnd(p)

Next == \/ \E p \in Procs : Start(p) \/ Begin(p) \/ Run(p) \/ Rollback(p) \/ Exit(p) \/ Kill(p)
        \/ Reboot

Spec == Init /\ [][Next]_vars

-----------------------------------------------------------------------------
(* Properties.                                                             *)

TypeOK ==
    /\ hw \in [Controls -> Values]
    /\ disk \in Records \cup {NoRecord}
    /\ boot \in Nat
    /\ lock \in Procs \cup {NoProc}
    /\ pc \in [Procs -> Labels]
    /\ mem \in [Procs -> Records]
    /\ idx \in [Procs -> Nat]
    /\ failed \in [Procs -> BOOLEAN]
    /\ faults \in 0..MaxFaults

\* Whatever fails and wherever a process is killed, every control that is off
\* stock is named by a published record of this boot, so that the next helper
\* restores it (the comment on Applied in Apply: "possibly modified").
JournalCovers == Dirty \subseteq Covered

\* The snapshot a later recovery would write back is the stock value: no
\* transaction ever captures a control that an earlier one, of any process,
\* had left modified.
SnapshotsAreStock == \A c \in Covered : disk.snap[c] = Stock

\* When the helper can accept a change set (after Recover, after a finished
\* rollback, after "Apply failed; stock restoration completed") the hardware
\* is at stock.
ReadyMeansStock == \A p \in Procs : pc[p] \in {"idle", "captured"} => Dirty = {}

\* A RollbackError names every control still modified: it lists the entries
\* still Applied, as Remaining or as Unverified.
ReportIsComplete == \A p \in Procs : pc[p] = "incomplete" => Dirty \subseteq mem[p].applied

\* A record left by an earlier boot is evidence for an audit: no helper removes
\* it, overwrites it or restores from it (StaleBoot in Recover).
StaleRecordKept == [][disk # NoRecord /\ disk.boot # boot /\ boot' = boot => disk' = disk]_vars

\* Restoration is in reverse order of application: a control changes back only
\* when every control applied after it is already back, or failed to go back in
\* this same pass.
ReverseRestoration ==
    [][\A p \in Procs : pc[p] \in {"restore", "rec_restore"} /\ hw' # hw /\ ~failed[p] /\ pc'[p] # "down" =>
         \A i, j \in DOMAIN mem[p].ops :
            i < j /\ hw'[mem[p].ops[i]] # hw[mem[p].ops[i]] => hw[mem[p].ops[j]] = Stock]_vars

\* The abstract promise: an undo journal (UndoJournal).
Journal == INSTANCE UndoJournal WITH dirty <- Dirty, covered <- Covered
ImplementsUndoJournal == Journal!Spec

\* Fairness for liveness.  The steps of a running process are not delayed for
\* ever (WF on Run).  A transaction is eventually rolled back, and an incomplete
\* rollback retried, unless the process ends (the lease of session/server.go
\* sees to the first, the user to the second).  A user keeps starting helpers
\* and lets one of them probe.
Fairness ==
    /\ \A p \in Procs : WF_vars(Run(p)) /\ WF_vars(Rollback(p))
    /\ WF_vars(\E p \in Procs : Start(p))
    /\ SF_vars(\E p \in Procs : Load(p))

FairSpec == Spec /\ Fairness

\* Temporary tuning is temporary: with finitely many faults every modification
\* is eventually undone, through retries, kills and restarts.
EventuallyStock == (Dirty # {}) ~> (Dirty = {})

=============================================================================
