------------------------ MODULE TuningEngineProofs ------------------------
(***************************************************************************)
(* Machine-checked proofs about TuningEngine, for every set of processes,  *)
(* controls and values, every driver order and any number of faults and    *)
(* reboots.                                                                *)
(***************************************************************************)
EXTENDS TuningEngine, TLAPS

-----------------------------------------------------------------------------
(* Records.                                                                *)

\* A plan is a sequence of controls.
LEMMA PlanIsSequence == ASSUME NEW plan \in Plans PROVE plan \in Seq(Controls)
<1>1. PICK n \in 0..Cardinality(Controls) : plan \in [1..n -> Controls]
  BY DEF Plans
<1>2. n \in Nat
  BY <1>1
<1>3. QED
  BY <1>1, <1>2

\* Updating the fields the engine updates keeps a record a record and leaves
\* its other fields alone.
LEMMA AppliedUpdate ==
    ASSUME NEW r \in Records, NEW S \in SUBSET Controls
    PROVE  LET u == [r EXCEPT !.applied = S]
           IN  u \in Records /\ u.applied = S /\ u.ops = r.ops /\ u.boot = r.boot /\ u.snap = r.snap
BY DEF Records

LEMMA StateUpdate ==
    ASSUME NEW r \in Records, NEW st \in RecordStates
    PROVE  LET u == [r EXCEPT !.state = st]
           IN  u \in Records /\ u.applied = r.applied /\ u.ops = r.ops /\ u.boot = r.boot /\ u.snap = r.snap
BY DEF Records

LEMMA RecordFields ==
    ASSUME NEW r \in Records
    PROVE  /\ r.ops \in Seq(Controls) /\ Len(r.ops) \in Nat
           /\ r.boot \in Nat /\ r.snap \in [Controls -> Values] /\ r.applied \in SUBSET Controls
BY DEF Records

LEMMA BlankIsRecord == Blank \in Records
<1>1. <<>> \in Seq(Controls)
  OBVIOUS
<1>2. QED
  BY <1>1, EngineAssumption DEF Blank, Records, RecordStates

\* The loop index of a process that is at an entry names a control.
LEMMA CurrentIsControl ==
    ASSUME TypeOK, NEW p \in Procs, idx[p] \in 1..Len(mem[p].ops)
    PROVE  Current(p) \in Controls
<1>1. mem[p].ops \in Seq(Controls)
  BY DEF TypeOK, Records
<1>2. QED
  BY <1>1 DEF Current

-----------------------------------------------------------------------------
(* Type correctness.  Where the loop index stands is part of it: Current   *)
(* is only meaningful inside the record's entries.                         *)

Bounds(p) ==
    /\ pc[p] = "mark" => idx[p] >= 1
    /\ pc[p] \in {"write", "restored", "rec_restored"} => idx[p] \in 1..Len(mem[p].ops)
    /\ pc[p] \in {"restore", "rec_restore"} => idx[p] \in 0..Len(mem[p].ops)

TypeInv == TypeOK /\ \A p \in Procs : Bounds(p)

LEMMA TypeInit == Init => TypeInv
BY EngineAssumption, BlankIsRecord DEF Init, TypeInv, TypeOK, Bounds, Labels


\* Saving and removing the record.
LEMMA SaveType ==
    ASSUME TypeOK, NEW r \in Records, NEW ok \in BOOLEAN, Save(r, ok)
    PROVE  disk' \in Records \cup {NoRecord} /\ faults' \in 0..MaxFaults
BY EngineAssumption DEF TypeOK, Save, Fault

LEMMA RemoveType ==
    ASSUME TypeOK, NEW ok \in BOOLEAN, Remove(ok)
    PROVE  disk' \in Records \cup {NoRecord} /\ faults' \in 0..MaxFaults
BY EngineAssumption DEF TypeOK, Remove, Fault

\* A process stops.
LEMMA StopType ==
    ASSUME TypeInv, NEW p \in Procs, Stop(p), UNCHANGED <<hw, boot>>,
           disk' \in Records \cup {NoRecord}, faults' \in 0..MaxFaults
    PROVE  TypeInv'
<1>1. TypeOK'
  BY BlankIsRecord DEF TypeInv, TypeOK, Stop, Goto, Labels
<1>2. \A q \in Procs : Bounds(q)'
  BY DEF TypeInv, TypeOK, Bounds, Stop, Goto
<1>3. QED
  BY <1>1, <1>2 DEF TypeInv

LEMMA SkipType ==
    ASSUME TypeInv, NEW p \in Procs, NEW loop \in {"restore", "rec_restore"}, SkipEntry(p, loop)
    PROVE  TypeInv'
<1>1. idx[p] \in 1..Len(mem[p].ops)
  BY DEF TypeInv, TypeOK, Bounds, SkipEntry, Records
<1>2. TypeOK'
  BY <1>1 DEF TypeInv, TypeOK, SkipEntry, Step, Goto, Labels
<1>3. \A q \in Procs : Bounds(q)'
  BY <1>1 DEF TypeInv, TypeOK, Bounds, SkipEntry, Step, Goto
<1>4. QED
  BY <1>2, <1>3 DEF TypeInv

\* The two loops that share RestoreEntry and SaveEntry.
Loop(loop, saving) == \/ loop = "restore" /\ saving = "restored"
                      \/ loop = "rec_restore" /\ saving = "rec_restored"

LEMMA RestoreType ==
    ASSUME TypeInv, NEW p \in Procs,
           NEW loop, NEW saving, Loop(loop, saving),
           RestoreEntry(p, loop, saving)
    PROVE  TypeInv'
<1>0. idx[p] \in 1..Len(mem[p].ops)
  BY DEF TypeInv, TypeOK, Bounds, RestoreEntry, Records, Loop
<1>1. idx[p] \in 1..Len(mem[p].ops) /\ Current(p) \in Controls
  BY <1>0, CurrentIsControl DEF TypeInv
<1>2. mem[p].snap[Current(p)] \in Values
  BY <1>1 DEF TypeInv, TypeOK, Records
<1>3. PICK ok \in BOOLEAN :
         /\ RestoreControl(Current(p), mem[p].snap[Current(p)], ok)
         /\ IF ok
            THEN /\ Goto(p, saving)
                 /\ mem' = [mem EXCEPT ![p].applied = @ \ {Current(p)}]
                 /\ UNCHANGED <<idx, failed>>
            ELSE /\ Step(p, loop, -1)
                 /\ failed' = [failed EXCEPT ![p] = TRUE]
                 /\ UNCHANGED mem
  BY DEF RestoreEntry
<1>4. hw' \in [Controls -> Values] /\ faults' \in 0..MaxFaults
  <2>1. PICK v \in Values : hw' = [hw EXCEPT ![Current(p)] = v]
    BY <1>2, <1>3 DEF RestoreControl
  <2>2. hw' \in [Controls -> Values]
    BY <1>1, <2>1 DEF TypeInv, TypeOK
  <2>3. UNCHANGED faults \/ Fault
    BY <1>3 DEF RestoreControl
  <2>4. faults' \in 0..MaxFaults
    BY <2>3, EngineAssumption DEF Fault, TypeInv, TypeOK
  <2>5. QED
    BY <2>2, <2>4
<1>5. UNCHANGED <<disk, boot, lock>>
  BY DEF RestoreEntry
<1>6. CASE ok
  <2>1. mem' = [mem EXCEPT ![p] = [mem[p] EXCEPT !.applied = mem[p].applied \ {Current(p)}]]
    BY <1>3, <1>6 DEF TypeInv, TypeOK
  <2>2. mem[p].applied \ {Current(p)} \in SUBSET Controls /\ mem[p] \in Records
    BY DEF TypeInv, TypeOK, Records
  <2>3. [mem[p] EXCEPT !.applied = mem[p].applied \ {Current(p)}] \in Records
    BY <2>2, AppliedUpdate
  <2>4. TypeOK'
    BY <1>3, <1>4, <1>5, <1>6, <2>1, <2>3 DEF TypeInv, TypeOK, Goto, Labels, Loop
  <2>5. mem'[p].ops = mem[p].ops
    BY <2>1, <2>2 DEF TypeInv, TypeOK, Records
  <2>6. \A q \in Procs : Bounds(q)'
    BY <1>1, <1>3, <1>6, <2>1, <2>5 DEF TypeInv, TypeOK, Bounds, Goto, Loop
  <2>7. QED
    BY <2>4, <2>6 DEF TypeInv
<1>7. CASE ~ok
  <2>0. failed' \in [Procs -> BOOLEAN]
    BY <1>3, <1>7 DEF TypeInv, TypeOK
  <2>1. Step(p, loop, -1) /\ UNCHANGED mem
    BY <1>3, <1>7
  <2>2. pc' \in [Procs -> Labels] /\ idx' \in [Procs -> Nat]
    BY <1>1, <2>1 DEF TypeInv, TypeOK, Step, Goto, Labels, Loop
  <2>3. TypeOK'
    BY <1>4, <1>5, <2>0, <2>1, <2>2 DEF TypeInv, TypeOK
  <2>4. \A q \in Procs : Bounds(q)'
    BY <1>1, <2>1 DEF TypeInv, TypeOK, Bounds, Step, Goto, Loop
  <2>5. QED
    BY <2>3, <2>4 DEF TypeInv
<1>8. QED
  BY <1>6, <1>7

LEMMA SaveEntryType ==
    ASSUME TypeInv, NEW p \in Procs,
           NEW loop, NEW saving, Loop(loop, saving),
           SaveEntry(p, loop, saving)
    PROVE  TypeInv'
<1>1. idx[p] \in 1..Len(mem[p].ops)
  BY DEF TypeInv, TypeOK, Bounds, SaveEntry, Loop
<1>2. disk' \in Records \cup {NoRecord} /\ faults' \in 0..MaxFaults
  BY SaveType DEF SaveEntry, TypeInv, TypeOK
<1>3. failed' \in [Procs -> BOOLEAN]
  BY DEF SaveEntry, TypeInv, TypeOK
<1>4. TypeOK'
  BY <1>1, <1>2, <1>3 DEF TypeInv, TypeOK, SaveEntry, Step, Goto, Labels, Loop
<1>5. \A q \in Procs : Bounds(q)'
  BY <1>1 DEF TypeInv, TypeOK, Bounds, SaveEntry, Step, Goto, Loop
<1>6. QED
  BY <1>4, <1>5 DEF TypeInv

\* The variables of the running processes after a step of p that gives it
\* record r.
LEMMA RecordType ==
    ASSUME TypeInv, NEW p \in Procs, NEW r \in Records, mem' = [mem EXCEPT ![p] = r]
    PROVE  mem' \in [Procs -> Records] /\ mem'[p] = r /\ \A q \in Procs \ {p} : mem'[q] = mem[q]
BY DEF TypeInv, TypeOK

\* mem[p] is a record; saving it is well typed.
LEMMA MemType == ASSUME TypeInv, NEW p \in Procs PROVE mem[p] \in Records
BY DEF TypeInv, TypeOK

LEMMA LoadType == ASSUME TypeInv, NEW p \in Procs, Load(p) PROVE TypeInv'
<1>1. CASE disk = NoRecord
  <2>1. TypeOK'
    BY <1>1 DEF TypeInv, TypeOK, Load, Goto, Labels
  <2>2. \A q \in Procs : Bounds(q)'
    BY <1>1 DEF TypeInv, TypeOK, Bounds, Load, Goto
  <2>3. QED
    BY <2>1, <2>2 DEF TypeInv
<1>2. CASE disk # NoRecord /\ disk.boot # boot
  BY <1>2, StopType DEF Load, TypeInv, TypeOK
<1>3. CASE disk # NoRecord /\ disk.boot = boot
  <2>1. disk \in Records /\ Len(disk.ops) \in Nat
    BY <1>3, RecordFields DEF TypeInv, TypeOK
  <2>2. /\ Goto(p, "rec_restore") /\ UNCHANGED <<hw, disk, boot, lock, faults>>
        /\ mem' = [mem EXCEPT ![p] = disk] /\ idx' = [idx EXCEPT ![p] = Len(disk.ops)]
    BY <1>3 DEF Load
  <2>3. failed' \in [Procs -> BOOLEAN]
    BY <1>3 DEF Load, TypeInv, TypeOK
  <2>4. TypeOK'
    BY <2>1, <2>2, <2>3, RecordType DEF TypeInv, TypeOK, Goto, Labels
  <2>5. \A q \in Procs : Bounds(q)'
    BY <2>1, <2>2, RecordType DEF TypeInv, TypeOK, Bounds, Goto
  <2>6. QED
    BY <2>4, <2>5 DEF TypeInv
<1>4. QED
  BY <1>1, <1>2, <1>3

LEMMA RecoverEndType == ASSUME TypeInv, NEW p \in Procs, RecoverEnd(p) PROVE TypeInv'
<1>1. CASE Stop(p) /\ UNCHANGED <<disk, faults>>
  BY <1>1, StopType DEF RecoverEnd, TypeInv, TypeOK
<1>2. CASE Remove(TRUE) /\ Goto(p, "idle") /\ UNCHANGED <<lock, mem, idx, failed>>
  <2>1. TypeOK'
    BY <1>2, RemoveType DEF TypeInv, TypeOK, RecoverEnd, Goto, Labels
  <2>2. \A q \in Procs : Bounds(q)'
    BY <1>2 DEF TypeInv, TypeOK, Bounds, Goto
  <2>3. QED
    BY <2>1, <2>2 DEF TypeInv
<1>3. CASE Remove(FALSE) /\ Stop(p)
  BY <1>3, RemoveType, StopType DEF RecoverEnd, TypeInv
<1>4. QED
  BY <1>1, <1>2, <1>3 DEF RecoverEnd

LEMMA BeginType == ASSUME TypeInv, NEW p \in Procs, Begin(p) PROVE TypeInv'
<1>1. PICK plan \in Plans :
         mem' = [mem EXCEPT ![p] = [state |-> "applying", boot |-> boot,
                                    ops |-> plan, snap |-> hw, applied |-> {}]]
  BY DEF Begin
<1>2. [state |-> "applying", boot |-> boot, ops |-> plan, snap |-> hw, applied |-> {}] \in Records
  BY PlanIsSequence DEF TypeInv, TypeOK, Records, RecordStates
<1>3. TypeOK'
  BY <1>1, <1>2, RecordType DEF TypeInv, TypeOK, Begin, Goto, Labels
<1>4. \A q \in Procs : Bounds(q)'
  BY <1>1 DEF TypeInv, TypeOK, Bounds, Begin, Goto
<1>5. QED
  BY <1>3, <1>4 DEF TypeInv

LEMMA SaveRecordType == ASSUME TypeInv, NEW p \in Procs, SaveRecord(p) PROVE TypeInv'
<1>1. PICK ok \in BOOLEAN : Save(mem[p], ok) /\ Goto(p, IF ok THEN "mark" ELSE "idle")
  BY DEF SaveRecord
<1>2. disk' \in Records \cup {NoRecord} /\ faults' \in 0..MaxFaults
  BY <1>1, MemType, SaveType DEF TypeInv
<1>3. TypeOK'
  BY <1>1, <1>2 DEF TypeInv, TypeOK, SaveRecord, Goto, Labels
<1>4. \A q \in Procs : Bounds(q)'
  BY <1>1 DEF TypeInv, TypeOK, Bounds, SaveRecord, Goto
<1>5. QED
  BY <1>3, <1>4 DEF TypeInv

\* Mark, Activate, Rollback and RollbackEnd save the record they have updated.
LEMMA MarkType == ASSUME TypeInv, NEW p \in Procs, Mark(p) PROVE TypeInv'
<1> DEFINE r == [mem[p] EXCEPT !.applied = mem[p].applied \cup {Current(p)}]
<1>1. idx[p] \in 1..Len(mem[p].ops)
  BY MemType, RecordFields DEF Mark, TypeInv, TypeOK, Bounds
<1>2. r \in Records /\ r.ops = mem[p].ops
  <2>1. mem[p].applied \cup {Current(p)} \in SUBSET Controls
    BY <1>1, CurrentIsControl, MemType, RecordFields DEF TypeInv
  <2>2. QED
    BY <2>1, MemType, AppliedUpdate
<1>3. mem' = [mem EXCEPT ![p] = r]
  BY DEF Mark, TypeInv, TypeOK
<1> HIDE DEF r
<1>4. PICK ok \in BOOLEAN : Save(mem'[p], ok) /\ Goto(p, IF ok THEN "write" ELSE "roll")
  BY DEF Mark
<1>5. disk' \in Records \cup {NoRecord} /\ faults' \in 0..MaxFaults
  BY <1>2, <1>3, <1>4, RecordType, SaveType DEF TypeInv
<1>6. TypeOK'
  BY <1>2, <1>3, <1>4, <1>5, RecordType DEF TypeInv, TypeOK, Mark, Goto, Labels
<1>7. \A q \in Procs : Bounds(q)'
  BY <1>1, <1>2, <1>3, <1>4, RecordType DEF TypeInv, TypeOK, Bounds, Mark, Goto
<1>8. QED
  BY <1>6, <1>7 DEF TypeInv

LEMMA WriteType == ASSUME TypeInv, NEW p \in Procs, Write(p) PROVE TypeInv'
<1>1. idx[p] \in 1..Len(mem[p].ops)
  BY DEF Write, TypeInv, Bounds
<1>2. PICK ok \in BOOLEAN :
         /\ WriteControl(Current(p), ok)
         /\ IF ok THEN Step(p, "mark", 1) ELSE Step(p, "roll", 0)
  BY DEF Write
<1>3. hw' \in [Controls -> Values]
  BY <1>2 DEF WriteControl, TypeInv, TypeOK
<1>4. faults' \in 0..MaxFaults
  BY <1>2, EngineAssumption DEF WriteControl, Fault, TypeInv, TypeOK
<1>5. idx' \in [Procs -> Nat] /\ pc' \in [Procs -> Labels]
  <2>1. CASE ok
    <3>1. Step(p, "mark", 1)
      BY <1>2, <2>1
    <3>2. QED
      BY <3>1 DEF Step, Goto, Labels, TypeInv, TypeOK
  <2>2. CASE ~ok
    <3>1. Step(p, "roll", 0)
      BY <1>2, <2>2
    <3>2. QED
      BY <3>1 DEF Step, Goto, Labels, TypeInv, TypeOK
  <2>3. QED
    BY <2>1, <2>2
<1>6. TypeOK'
  BY <1>3, <1>4, <1>5 DEF TypeInv, TypeOK, Write
<1>7. \A q \in Procs : Bounds(q)'
  BY <1>1, <1>2 DEF TypeInv, TypeOK, Bounds, Write, Step, Goto
<1>8. QED
  BY <1>6, <1>7 DEF TypeInv

LEMMA ActivateType == ASSUME TypeInv, NEW p \in Procs, Activate(p) PROVE TypeInv'
<1> DEFINE r == [mem[p] EXCEPT !.state = "active"]
<1>1. r \in Records /\ r.ops = mem[p].ops
  BY MemType, StateUpdate DEF RecordStates
<1>2. mem' = [mem EXCEPT ![p] = r]
  BY DEF Activate, TypeInv, TypeOK
<1> HIDE DEF r
<1>3. PICK ok \in BOOLEAN : Save(mem'[p], ok) /\ Goto(p, IF ok THEN "active" ELSE "roll")
  BY DEF Activate
<1>4. disk' \in Records \cup {NoRecord} /\ faults' \in 0..MaxFaults
  BY <1>1, <1>2, <1>3, RecordType, SaveType DEF TypeInv
<1>5. TypeOK'
  BY <1>1, <1>2, <1>3, <1>4, RecordType DEF TypeInv, TypeOK, Activate, Goto, Labels
<1>6. \A q \in Procs : Bounds(q)'
  BY <1>1, <1>2, <1>3, RecordType DEF TypeInv, TypeOK, Bounds, Activate, Goto
<1>7. QED
  BY <1>5, <1>6 DEF TypeInv

LEMMA RollbackType == ASSUME TypeInv, NEW p \in Procs, Rollback(p) PROVE TypeInv'
<1> DEFINE r == [mem[p] EXCEPT !.state = "rolling_back"]
<1>1. r \in Records /\ r.ops = mem[p].ops /\ Len(mem[p].ops) \in Nat
  BY MemType, StateUpdate, RecordFields DEF RecordStates
<1>2. mem' = [mem EXCEPT ![p] = r]
  BY DEF Rollback, TypeInv, TypeOK
<1> HIDE DEF r
<1>3. PICK ok \in BOOLEAN : Save(mem'[p], ok)
  BY DEF Rollback
<1>4. disk' \in Records \cup {NoRecord} /\ faults' \in 0..MaxFaults
  BY <1>1, <1>2, <1>3, RecordType, SaveType DEF TypeInv
<1>5. failed' \in [Procs -> BOOLEAN]
  BY DEF Rollback, TypeInv, TypeOK
<1>6. TypeOK'
  BY <1>1, <1>2, <1>4, <1>5, RecordType DEF TypeInv, TypeOK, Rollback, Goto, Labels
<1>7. \A q \in Procs : Bounds(q)'
  BY <1>1, <1>2, RecordType DEF TypeInv, TypeOK, Bounds, Rollback, Goto
<1>8. QED
  BY <1>6, <1>7 DEF TypeInv

LEMMA RollbackEndType == ASSUME TypeInv, NEW p \in Procs, RollbackEnd(p) PROVE TypeInv'
<1>1. CASE failed[p]
  <2> DEFINE r == [mem[p] EXCEPT !.state = "rollback_incomplete"]
  <2>1. r \in Records
    BY MemType, StateUpdate DEF RecordStates
  <2>2. mem' = [mem EXCEPT ![p] = r]
    BY <1>1 DEF RollbackEnd, TypeInv, TypeOK
  <2> HIDE DEF r
  <2>3. PICK ok \in BOOLEAN : Save(mem'[p], ok)
    BY <1>1 DEF RollbackEnd
  <2>4. disk' \in Records \cup {NoRecord} /\ faults' \in 0..MaxFaults
    BY <2>1, <2>2, <2>3, RecordType, SaveType DEF TypeInv
  <2>5. TypeOK'
    BY <1>1, <2>1, <2>2, <2>4, RecordType DEF TypeInv, TypeOK, RollbackEnd, Goto, Labels
  <2>6. \A q \in Procs : Bounds(q)'
    BY <1>1, <2>2 DEF TypeInv, TypeOK, Bounds, RollbackEnd, Goto
  <2>7. QED
    BY <2>5, <2>6 DEF TypeInv
<1>2. CASE ~failed[p]
  <2>1. PICK ok \in BOOLEAN : Remove(ok) /\ Goto(p, IF ok THEN "idle" ELSE "incomplete")
    BY <1>2 DEF RollbackEnd
  <2>2. disk' \in Records \cup {NoRecord} /\ faults' \in 0..MaxFaults
    BY <2>1, RemoveType DEF TypeInv
  <2>3. TypeOK'
    BY <1>2, <2>1, <2>2 DEF TypeInv, TypeOK, RollbackEnd, Goto, Labels
  <2>4. \A q \in Procs : Bounds(q)'
    BY <1>2, <2>1 DEF TypeInv, TypeOK, Bounds, RollbackEnd, Goto
  <2>5. QED
    BY <2>3, <2>4 DEF TypeInv
<1>3. QED
  BY <1>1, <1>2

LEMMA RebootType == ASSUME TypeInv, Reboot PROVE TypeInv'
<1>1. TypeOK'
  BY BlankIsRecord, EngineAssumption DEF Reboot, TypeInv, TypeOK, Labels
<1>2. \A q \in Procs : Bounds(q)'
  BY DEF Reboot, Bounds
<1>3. QED
  BY <1>1, <1>2 DEF TypeInv

LEMMA TypeNext == TypeInv /\ [Next]_vars => TypeInv'
<1> SUFFICES ASSUME TypeInv, [Next]_vars PROVE TypeInv'
  OBVIOUS
<1>1. ASSUME NEW p \in Procs, Start(p) PROVE TypeInv'
  <2>1. TypeOK'
    BY <1>1 DEF Start, TypeInv, TypeOK, Goto, Labels
  <2>2. \A q \in Procs : Bounds(q)'
    BY <1>1 DEF Start, TypeInv, TypeOK, Bounds, Goto
  <2>3. QED
    BY <2>1, <2>2 DEF TypeInv
<1>2. ASSUME NEW p \in Procs, Exit(p) PROVE TypeInv'
  BY <1>2, StopType DEF Exit, TypeInv, TypeOK
<1>3. ASSUME NEW p \in Procs, Kill(p) PROVE TypeInv'
  BY <1>3, StopType, EngineAssumption DEF Kill, Fault, TypeInv, TypeOK
<1>4. ASSUME NEW p \in Procs, Run(p) PROVE TypeInv'
  <2>1. CASE RecoverSkip(p) \/ RollbackSkip(p)
    BY <2>1, SkipType DEF RecoverSkip, RollbackSkip
  <2>2. CASE RecoverRestore(p) \/ RollbackRestore(p)
    BY <2>2, RestoreType DEF RecoverRestore, RollbackRestore, Loop
  <2>3. CASE RecoverSave(p) \/ RollbackSave(p)
    BY <2>3, SaveEntryType DEF RecoverSave, RollbackSave, Loop
  <2>4. QED
    BY <1>4, <2>1, <2>2, <2>3, LoadType, RecoverEndType, SaveRecordType, MarkType, WriteType,
       ActivateType, RollbackEndType DEF Run
<1>5. CASE UNCHANGED vars
  BY <1>5 DEF vars, TypeInv, TypeOK, Bounds, Current
<1>6. QED
  BY <1>1, <1>2, <1>3, <1>4, <1>5, BeginType, RollbackType, RebootType DEF Next

\* Every variable keeps its type, and the loop indices stay inside the entries
\* of the record they index, through every failure, kill and reboot.
THEOREM TypeCorrect == Spec => []TypeOK
<1>1. TypeInv => TypeOK
  BY DEF TypeInv
<1>2. QED
  BY TypeInit, TypeNext, <1>1, PTL DEF Spec

-----------------------------------------------------------------------------
(* Safety.  The journal property is not inductive: it needs what each      *)
(* process knows about its own record, and that one process runs at a time.*)

\* The controls off stock, but for a set M that others than the engine may have
\* moved.  In the engine's own module nobody does, and M is empty; what a step
\* does to the other controls is the same for every M, and the smoke test's
\* proofs need it for the controls that the firmware has not touched.
Astray(M) == Dirty \ M

\* A record that may be published now, or restored from.
OkRecord(M, r) ==
    /\ r.boot = boot
    /\ \A c \in Controls \ M : r.snap[c] = Stock
    /\ Astray(M) \subseteq r.applied
    /\ \A c \in r.applied : \E j \in 1..Len(r.ops) : r.ops[j] = c
    /\ \A i, j \in 1..Len(r.ops) : r.ops[i] = r.ops[j] => i = j

DiskInv(M) ==
    /\ disk # NoRecord => disk.boot <= boot
    /\ disk # NoRecord /\ disk.boot = boot => OkRecord(M, disk)
    /\ disk = NoRecord \/ disk.boot # boot => Astray(M) = {}

Working == {"captured"} \cup InTransaction \cup InRecovery

\* Everything still to be restored is among the first k entries.
Within(p, k) == \A c \in mem[p].applied : \E j \in 1..k : mem[p].ops[j] = c

ProcInv(M, p) ==
    /\ pc[p] # "down" => lock = p
    /\ pc[p] \in {"idle", "captured"} => Astray(M) = {}
    /\ pc[p] \in Working => OkRecord(M, mem[p])
    /\ pc[p] = "write" => Current(p) \in mem[p].applied /\ Current(p) \in Covered
    /\ pc[p] \in {"restore", "rec_restore"} /\ ~failed[p] => Within(p, idx[p])
    /\ pc[p] \in {"restored", "rec_restored"} /\ ~failed[p] => Within(p, idx[p] - 1)

SafeInv(M) == DiskInv(M) /\ \A p \in Procs : ProcInv(M, p)

LEMMA SafeInit == ASSUME NEW M PROVE Init => SafeInv(M)
BY EngineAssumption DEF Init, SafeInv, DiskInv, ProcInv, Astray, Dirty, Working, InTransaction, InRecovery, InRollback

\* While one process runs, the others are down.
LEMMA OthersDown ==
    ASSUME NEW M, TypeInv, SafeInv(M), NEW p \in Procs, pc[p] # "down"
    PROVE  \A q \in Procs \ {p} : pc[q] = "down"
BY EngineAssumption DEF SafeInv, ProcInv, TypeInv, TypeOK

\* So a step of p only has to keep the invariant of p and of the disk.
LEMMA OneStep ==
    ASSUME NEW M, TypeInv, SafeInv(M), NEW p \in Procs, pc[p] # "down",
           \A q \in Procs \ {p} : pc'[q] = pc[q],
           DiskInv(M)', ProcInv(M, p)'
    PROVE  SafeInv(M)'
<1>1. \A q \in Procs \ {p} : pc'[q] = "down"
  BY OthersDown
<1>2. \A q \in Procs \ {p} : ProcInv(M, q)'
  BY <1>1 DEF ProcInv, Working, InTransaction, InRecovery, InRollback
<1>3. QED
  BY <1>2 DEF SafeInv

LEMMA StopSafe ==
    ASSUME NEW M, TypeInv, SafeInv(M), NEW p \in Procs, pc[p] # "down", Stop(p), DiskInv(M)'
    PROVE  SafeInv(M)'
<1>1. ProcInv(M, p)'
  BY DEF Stop, Goto, ProcInv, Working, InTransaction, InRecovery, InRollback, TypeInv, TypeOK
<1>2. QED
  BY <1>1, OneStep DEF Stop, Goto, TypeInv, TypeOK

\* The disk keeps its invariant when the modified controls only get fewer.
LEMMA DiskKept ==
    ASSUME NEW M, TypeInv, DiskInv(M), UNCHANGED <<disk, boot>>, Astray(M)' \subseteq Astray(M)
    PROVE  DiskInv(M)'
BY DEF DiskInv, OkRecord

LEMMA DiskSaved ==
    ASSUME NEW M, TypeInv, DiskInv(M), UNCHANGED <<hw, boot>>, NEW r \in Records, OkRecord(M, r),
           NEW ok \in BOOLEAN, Save(r, ok)
    PROVE  /\ DiskInv(M)'
           /\ ok => disk' = r
<1>1. Astray(M)' = Astray(M)
  BY DEF Astray, Dirty
<1>2. disk' = disk \/ disk' = r
  BY DEF Save
<1>3. ok => disk' = r
  BY DEF Save
<1>4. CASE disk' = disk
  BY <1>1, <1>3, <1>4 DEF DiskInv, OkRecord
<1>5. CASE disk' = r
  <2>1. r # NoRecord /\ r.boot <= boot
    BY EngineAssumption DEF OkRecord, TypeInv, TypeOK
  <2>2. OkRecord(M, disk)'
    BY <1>1, <1>5 DEF OkRecord
  <2>3. QED
    BY <1>1, <1>3, <1>5, <2>1, <2>2 DEF DiskInv, OkRecord
<1>6. QED
  BY <1>2, <1>4, <1>5

LEMMA DiskRemoved ==
    ASSUME NEW M, TypeInv, DiskInv(M), UNCHANGED <<hw, boot>>, Astray(M) = {}, NEW ok \in BOOLEAN, Remove(ok)
    PROVE  DiskInv(M)'
<1>1. Astray(M)' = {}
  BY DEF Astray, Dirty
<1>2. CASE disk' = disk
  BY <1>1, <1>2 DEF DiskInv, OkRecord
<1>3. CASE disk' = NoRecord
  BY <1>1, <1>3 DEF DiskInv
<1>4. QED
  BY <1>2, <1>3 DEF Remove

\* A restore never modifies another control, and never moves one away from stock.
LEMMA RestoreShrinks ==
    ASSUME NEW M, TypeInv, NEW c \in Controls, NEW s \in Values, s = Stock \/ c \in M,
           NEW ok \in BOOLEAN, RestoreControl(c, s, ok)
    PROVE  /\ Astray(M)' \subseteq Astray(M)
           /\ ok => Astray(M)' \subseteq Astray(M) \ {c}
BY EngineAssumption DEF RestoreControl, Astray, Dirty, TypeInv, TypeOK

LEMMA OkRecordKept ==
    ASSUME NEW M, NEW r \in Records, OkRecord(M, r), UNCHANGED boot, Astray(M)' \subseteq Astray(M)
    PROVE  /\ r.boot = boot' /\ Astray(M)' \subseteq r.applied
           /\ \A c \in Controls \ M : r.snap[c] = Stock
           /\ \A c \in r.applied : \E j \in 1..Len(r.ops) : r.ops[j] = c
BY DEF OkRecord

\* Nothing but pc, and mem, idx and failed of one process, changes.
LEMMA StartSafe == ASSUME NEW M, TypeInv, SafeInv(M), NEW p \in Procs, Start(p) PROVE SafeInv(M)'
<1>1. \A q \in Procs : pc[q] = "down"
  BY EngineAssumption DEF Start, SafeInv, ProcInv
<1>2. DiskInv(M)'
  BY DiskKept DEF Start, SafeInv, Astray, Dirty
<1>3. \A q \in Procs : ProcInv(M, q)'
  BY <1>1 DEF Start, Goto, ProcInv, Working, InTransaction, InRecovery, InRollback, TypeInv, TypeOK
<1>4. QED
  BY <1>2, <1>3 DEF SafeInv

LEMMA LoadSafe == ASSUME NEW M, TypeInv, SafeInv(M), NEW p \in Procs, Load(p) PROVE SafeInv(M)'
<1>0. Astray(M)' = Astray(M) /\ DiskInv(M)' /\ lock = p /\ pc[p] = "started" /\ UNCHANGED <<disk, boot>>
  BY DiskKept DEF Load, SafeInv, ProcInv, Astray, Dirty
<1>1. CASE disk = NoRecord
  <2>1. Astray(M) = {} /\ Goto(p, "idle") /\ lock' = lock
    BY <1>1 DEF Load, SafeInv, DiskInv
  <2>2. ProcInv(M, p)'
    BY <1>0, <2>1 DEF Goto, ProcInv, Working, InTransaction, InRecovery, InRollback, TypeInv, TypeOK
  <2>3. QED
    BY <1>0, <2>1, <2>2, OneStep DEF Goto, TypeInv, TypeOK
<1>2. CASE disk # NoRecord /\ disk.boot # boot
  BY <1>0, <1>2, StopSafe DEF Load
<1>3. CASE disk # NoRecord /\ disk.boot = boot
  <2>1. /\ Goto(p, "rec_restore") /\ lock' = lock
        /\ mem' = [mem EXCEPT ![p] = disk] /\ idx' = [idx EXCEPT ![p] = Len(disk.ops)]
    BY <1>3 DEF Load
  <2>2. pc'[p] = "rec_restore" /\ mem'[p] = disk /\ idx'[p] = Len(disk.ops)
    BY <2>1 DEF Goto, TypeInv, TypeOK
  <2>3. OkRecord(M, disk) /\ disk \in Records
    BY <1>3 DEF SafeInv, DiskInv, TypeInv, TypeOK
  <2>4. OkRecord(M, mem[p])'
    BY <1>0, <2>2, <2>3 DEF OkRecord
  <2>5. Within(p, idx[p])'
    BY <2>2, <2>3 DEF OkRecord, Within
  <2>6. ProcInv(M, p)'
    BY <1>0, <2>1, <2>2, <2>4, <2>5 DEF ProcInv
  <2>7. QED
    BY <1>0, <2>1, <2>6, OneStep DEF Goto, TypeInv, TypeOK
<1>4. QED
  BY <1>1, <1>2, <1>3

LEMMA SkipSafe ==
    ASSUME NEW M, TypeInv, SafeInv(M), NEW p \in Procs, NEW loop, NEW saving, Loop(loop, saving), SkipEntry(p, loop)
    PROVE  SafeInv(M)'
<1>1. /\ pc[p] = loop /\ pc'[p] = loop /\ idx'[p] = idx[p] - 1 /\ lock = p /\ lock' = p
      /\ idx[p] \in 1..Len(mem[p].ops) /\ Len(mem[p].ops) \in Nat
      /\ Current(p) \notin mem[p].applied /\ OkRecord(M, mem[p])
      /\ UNCHANGED <<disk, boot, mem, failed>> /\ Astray(M)' = Astray(M)
  BY MemType, RecordFields
     DEF SkipEntry, Step, Goto, Loop, SafeInv, ProcInv, Working, InRecovery, InTransaction, InRollback,
         Astray, Dirty, TypeInv, TypeOK, Bounds
<1>2. OkRecord(M, mem[p])'
  BY <1>1 DEF OkRecord
<1>3. ASSUME ~failed[p] PROVE Within(p, idx[p])'
  <2>1. Within(p, idx[p])
    BY <1>1, <1>3 DEF SafeInv, ProcInv, Loop
  <2>2. \A c \in mem[p].applied : \E j \in 1..(idx[p] - 1) : mem[p].ops[j] = c
    <3>1. TAKE c \in mem[p].applied
    <3>2. PICK j \in 1..idx[p] : mem[p].ops[j] = c
      BY <2>1 DEF Within
    <3>3. j # idx[p]
      BY <1>1, <3>2 DEF Current
    <3>4. QED
      BY <1>1, <3>2, <3>3
  <2>3. QED
    BY <1>1, <2>2 DEF Within
<1>4. ProcInv(M, p)'
  BY <1>1, <1>2, <1>3 DEF ProcInv, Loop
<1>5. DiskInv(M)'
  BY <1>1, DiskKept DEF SafeInv
<1>6. QED
  BY <1>1, <1>4, <1>5, OneStep DEF Loop, SkipEntry, Step, Goto, TypeInv, TypeOK

LEMMA RestoreSafe ==
    ASSUME NEW M, TypeInv, SafeInv(M), NEW p \in Procs, NEW loop, NEW saving, Loop(loop, saving),
           RestoreEntry(p, loop, saving)
    PROVE  SafeInv(M)'
<1>1. /\ pc[p] = loop /\ lock = p /\ lock' = p
      /\ idx[p] \in 1..Len(mem[p].ops) /\ Len(mem[p].ops) \in Nat
      /\ Current(p) \in mem[p].applied /\ OkRecord(M, mem[p]) /\ mem[p] \in Records
      /\ UNCHANGED <<disk, boot>>
  BY MemType, RecordFields
     DEF RestoreEntry, Loop, SafeInv, ProcInv, Working, InRecovery, InTransaction, InRollback,
         TypeInv, TypeOK, Bounds
<1>2. /\ Current(p) \in Controls /\ mem[p].snap[Current(p)] \in Values
      /\ mem[p].snap[Current(p)] = Stock \/ Current(p) \in M
  BY <1>1, CurrentIsControl, RecordFields DEF OkRecord, TypeInv
<1>3. PICK ok \in BOOLEAN :
         /\ RestoreControl(Current(p), mem[p].snap[Current(p)], ok)
         /\ IF ok
            THEN /\ Goto(p, saving)
                 /\ mem' = [mem EXCEPT ![p].applied = @ \ {Current(p)}]
                 /\ UNCHANGED <<idx, failed>>
            ELSE /\ Step(p, loop, -1)
                 /\ failed' = [failed EXCEPT ![p] = TRUE]
                 /\ UNCHANGED mem
  BY DEF RestoreEntry
<1>4. Astray(M)' \subseteq Astray(M) /\ (ok => Astray(M)' \subseteq Astray(M) \ {Current(p)})
  BY <1>2, <1>3, RestoreShrinks, ZenonT(60)
<1>5. DiskInv(M)'
  BY <1>1, <1>4, DiskKept DEF SafeInv
<1>6. CASE ok
  <2> DEFINE r == [mem[p] EXCEPT !.applied = mem[p].applied \ {Current(p)}]
  <2>1. pc' = [pc EXCEPT ![p] = saving] /\ mem' = [mem EXCEPT ![p] = r] /\ UNCHANGED <<idx, failed>>
    BY <1>3, <1>6 DEF Goto, TypeInv, TypeOK
  <2>2. /\ r \in Records /\ r.applied = mem[p].applied \ {Current(p)}
        /\ r.ops = mem[p].ops /\ r.boot = mem[p].boot /\ r.snap = mem[p].snap
    <3>1. mem[p].applied \ {Current(p)} \in SUBSET Controls
      BY <1>1, RecordFields
    <3>2. QED
      BY <1>1, <3>1, AppliedUpdate
  <2> HIDE DEF r
  <2>3. mem'[p] = r /\ pc'[p] = saving
    BY <2>1 DEF TypeInv, TypeOK
  <2>4. OkRecord(M, mem[p])'
    BY <1>1, <1>4, <1>6, <2>2, <2>3 DEF OkRecord
  <2>5. ASSUME ~failed'[p] PROVE Within(p, idx[p] - 1)'
    <3>1. Within(p, idx[p])
      BY <1>1, <2>1, <2>5 DEF SafeInv, ProcInv, Loop
    <3>2. \A c \in r.applied : \E j \in 1..(idx[p] - 1) : r.ops[j] = c
      <4>1. TAKE c \in r.applied
      <4>2. PICK j \in 1..idx[p] : mem[p].ops[j] = c
        BY <2>2, <3>1 DEF Within
      <4>3. j # idx[p]
        BY <2>2, <4>2 DEF Current
      <4>4. QED
        BY <1>1, <2>2, <4>2, <4>3
    <3>3. QED
      BY <2>1, <2>3, <3>2 DEF Within
  <2>6. ProcInv(M, p)'
    BY <1>1, <2>3, <2>4, <2>5 DEF ProcInv, Loop
  <2>7. QED
    BY <1>1, <1>5, <2>1, <2>6, OneStep DEF Loop, TypeInv, TypeOK
<1>7. CASE ~ok
  <2>1. Step(p, loop, -1) /\ failed' = [failed EXCEPT ![p] = TRUE] /\ UNCHANGED mem
    BY <1>3, <1>7
  <2>2. failed'[p] /\ pc'[p] = loop
    BY <2>1 DEF Step, Goto, TypeInv, TypeOK
  <2>3. OkRecord(M, mem[p])'
    BY <1>1, <1>4, <2>1 DEF OkRecord
  <2>4. ProcInv(M, p)'
    BY <1>1, <2>2, <2>3 DEF ProcInv, Loop
  <2>5. QED
    BY <1>1, <1>5, <2>1, <2>4, OneStep DEF Loop, Step, Goto, TypeInv, TypeOK
<1>8. QED
  BY <1>6, <1>7

LEMMA SaveEntrySafe ==
    ASSUME NEW M, TypeInv, SafeInv(M), NEW p \in Procs, NEW loop, NEW saving, Loop(loop, saving),
           SaveEntry(p, loop, saving)
    PROVE  SafeInv(M)'
<1>1. /\ pc[p] = saving /\ pc'[p] = loop /\ idx'[p] = idx[p] - 1 /\ lock = p /\ lock' = p
      /\ OkRecord(M, mem[p]) /\ mem[p] \in Records
      /\ UNCHANGED <<hw, boot, mem>> /\ Astray(M)' = Astray(M)
  BY MemType
     DEF SaveEntry, Step, Goto, Loop, SafeInv, ProcInv, Working, InRecovery, InTransaction, InRollback,
         Astray, Dirty, TypeInv, TypeOK
<1>2. PICK ok \in BOOLEAN : Save(mem[p], ok) /\ failed' = [failed EXCEPT ![p] = @ \/ ~ok]
  BY DEF SaveEntry
<1>3. DiskInv(M)'
  BY <1>1, <1>2, DiskSaved DEF SafeInv
<1>4. OkRecord(M, mem[p])'
  BY <1>1 DEF OkRecord
<1>5. ASSUME ~failed'[p] PROVE Within(p, idx[p])'
  <2>1. ~failed[p]
    BY <1>2, <1>5 DEF TypeInv, TypeOK
  <2>2. Within(p, idx[p] - 1)
    BY <1>1, <2>1 DEF SafeInv, ProcInv, Loop
  <2>3. QED
    BY <1>1, <2>2 DEF Within
<1>6. ProcInv(M, p)'
  BY <1>1, <1>4, <1>5 DEF ProcInv, Loop
<1>7. QED
  BY <1>1, <1>3, <1>6, OneStep DEF Loop, SaveEntry, Step, Goto, TypeInv, TypeOK

\* When a loop that met no error ends, nothing is modified.
LEMMA LoopDone ==
    ASSUME NEW M, TypeInv, SafeInv(M), NEW p \in Procs, pc[p] \in {"restore", "rec_restore"}, idx[p] = 0, ~failed[p]
    PROVE  Astray(M) = {}
<1>1. Within(p, 0) /\ OkRecord(M, mem[p])
  BY DEF SafeInv, ProcInv, Working, InRecovery, InTransaction, InRollback
<1>2. QED
  BY <1>1 DEF Within, OkRecord

LEMMA RecoverEndSafe == ASSUME NEW M, TypeInv, SafeInv(M), NEW p \in Procs, RecoverEnd(p) PROVE SafeInv(M)'
<1>1. pc[p] = "rec_restore" /\ idx[p] = 0 /\ lock = p /\ UNCHANGED <<hw, boot>> /\ Astray(M)' = Astray(M)
  BY DEF RecoverEnd, SafeInv, ProcInv, Astray, Dirty
<1>2. CASE Stop(p) /\ UNCHANGED <<disk, faults>>
  BY <1>1, <1>2, DiskKept, StopSafe DEF SafeInv
<1>3. CASE ~failed[p] /\ Remove(TRUE) /\ Goto(p, "idle") /\ UNCHANGED <<lock, mem, idx, failed>>
  <2>1. Astray(M) = {}
    BY <1>1, <1>3, LoopDone
  <2>2. DiskInv(M)'
    BY <1>1, <1>3, <2>1, DiskRemoved DEF SafeInv
  <2>3. ProcInv(M, p)'
    BY <1>1, <1>3, <2>1 DEF Goto, ProcInv, Working, InTransaction, InRecovery, InRollback, TypeInv, TypeOK
  <2>4. QED
    BY <1>1, <1>3, <2>2, <2>3, OneStep DEF Goto, TypeInv, TypeOK
<1>4. CASE ~failed[p] /\ Remove(FALSE) /\ Stop(p)
  <2>1. Astray(M) = {}
    BY <1>1, <1>4, LoopDone
  <2>2. DiskInv(M)'
    BY <1>1, <1>4, <2>1, DiskRemoved DEF SafeInv
  <2>3. QED
    BY <1>1, <1>4, <2>2, StopSafe
<1>5. QED
  BY <1>2, <1>3, <1>4 DEF RecoverEnd

LEMMA BeginSafe == ASSUME NEW M, TypeInv, SafeInv(M), NEW p \in Procs, Begin(p) PROVE SafeInv(M)'
<1> DEFINE r(plan) == [state |-> "applying", boot |-> boot, ops |-> plan, snap |-> hw, applied |-> {}]
<1>1. PICK plan \in Plans : mem' = [mem EXCEPT ![p] = r(plan)]
  BY DEF Begin
<1>2. /\ pc[p] = "idle" /\ pc'[p] = "captured" /\ lock = p /\ lock' = p /\ Astray(M) = {} /\ Astray(M)' = {}
      /\ UNCHANGED <<hw, disk, boot>> /\ mem'[p] = r(plan)
  BY <1>1 DEF Begin, Goto, SafeInv, ProcInv, Astray, Dirty, TypeInv, TypeOK
<1>3. \A c \in Controls \ M : hw[c] = Stock
  BY <1>2 DEF Astray, Dirty
<1>4. OkRecord(M, mem[p])'
  <2>1. \A i, j \in 1..Len(plan) : plan[i] = plan[j] => i = j
    BY PlanIsSequence DEF Plans
  <2>2. QED
    BY <1>2, <1>3, <2>1 DEF OkRecord
<1>5. ProcInv(M, p)'
  BY <1>2, <1>4 DEF ProcInv
<1>6. QED
  BY <1>2, <1>5, DiskKept, OneStep DEF Begin, Goto, SafeInv, TypeInv, TypeOK

LEMMA SaveRecordSafe == ASSUME NEW M, TypeInv, SafeInv(M), NEW p \in Procs, SaveRecord(p) PROVE SafeInv(M)'
<1>1. PICK ok \in BOOLEAN : Save(mem[p], ok) /\ Goto(p, IF ok THEN "mark" ELSE "idle")
  BY DEF SaveRecord
<1>2. /\ pc[p] = "captured" /\ pc'[p] \in {"mark", "idle"} /\ lock = p /\ lock' = p
      /\ Astray(M) = {} /\ Astray(M)' = {} /\ UNCHANGED <<hw, boot, mem>>
      /\ mem[p] \in Records /\ OkRecord(M, mem[p])
  BY <1>1, MemType DEF SaveRecord, Goto, SafeInv, ProcInv, Working, Astray, Dirty, TypeInv, TypeOK
<1>3. DiskInv(M)'
  BY <1>1, <1>2, DiskSaved DEF SafeInv
<1>4. OkRecord(M, mem[p])'
  BY <1>2 DEF OkRecord
<1>5. ProcInv(M, p)'
  BY <1>2, <1>4 DEF ProcInv
<1>6. QED
  BY <1>2, <1>3, <1>5, OneStep DEF SaveRecord, Goto, TypeInv, TypeOK

LEMMA MarkSafe == ASSUME NEW M, TypeInv, SafeInv(M), NEW p \in Procs, Mark(p) PROVE SafeInv(M)'
<1> DEFINE r == [mem[p] EXCEPT !.applied = mem[p].applied \cup {Current(p)}]
<1>1. idx[p] \in 1..Len(mem[p].ops) /\ mem[p] \in Records
  BY MemType, RecordFields DEF Mark, TypeInv, TypeOK, Bounds
<1>2. Current(p) \in Controls
  BY <1>1, CurrentIsControl DEF TypeInv
<1>3. /\ r \in Records /\ r.applied = mem[p].applied \cup {Current(p)}
      /\ r.ops = mem[p].ops /\ r.boot = mem[p].boot /\ r.snap = mem[p].snap
  <2>1. mem[p].applied \cup {Current(p)} \in SUBSET Controls
    BY <1>1, <1>2, RecordFields
  <2>2. QED
    BY <1>1, <2>1, AppliedUpdate
<1>4. mem'[p] = r
  BY DEF Mark, TypeInv, TypeOK
<1> HIDE DEF r
<1>5. PICK ok \in BOOLEAN : Save(r, ok) /\ Goto(p, IF ok THEN "write" ELSE "roll")
  BY <1>4 DEF Mark
<1>6. /\ lock = p /\ lock' = p /\ UNCHANGED <<hw, boot, idx>> /\ Astray(M)' = Astray(M)
      /\ pc'[p] = IF ok THEN "write" ELSE "roll"
  BY <1>5 DEF Mark, Goto, SafeInv, ProcInv, Astray, Dirty, TypeInv, TypeOK
<1>7. OkRecord(M, mem[p])
  BY DEF Mark, SafeInv, ProcInv, Working, InTransaction
<1>8. OkRecord(M, r)
  BY <1>1, <1>3, <1>7 DEF OkRecord, Current
<1>9. DiskInv(M)' /\ (ok => disk' = r)
  BY <1>3, <1>5, <1>6, <1>8, DiskSaved DEF SafeInv
<1>10. OkRecord(M, mem[p])'
  BY <1>4, <1>6, <1>8 DEF OkRecord
<1>11. ok => Current(p)' \in mem'[p].applied /\ Current(p)' \in Covered'
  <2>1. Current(p)' = Current(p)
    BY <1>3, <1>4, <1>6 DEF Current
  <2>2. r.boot = boot /\ r # NoRecord
    BY <1>3, <1>8, EngineAssumption DEF OkRecord
  <2>3. QED
    BY <1>3, <1>4, <1>6, <1>9, <2>1, <2>2 DEF Covered
<1>12. ProcInv(M, p)'
  BY <1>6, <1>10, <1>11 DEF ProcInv
<1>13. QED
  BY <1>9, <1>12, OneStep DEF Mark, Goto, TypeInv, TypeOK

LEMMA WriteSafe == ASSUME NEW M, TypeInv, SafeInv(M), NEW p \in Procs, Write(p) PROVE SafeInv(M)'
<1>1. /\ pc[p] = "write" /\ lock = p /\ lock' = p /\ UNCHANGED <<disk, boot, mem>>
      /\ Current(p) \in mem[p].applied /\ Current(p) \in Covered /\ OkRecord(M, mem[p])
  BY DEF Write, SafeInv, ProcInv, Working, InTransaction
<1>2. PICK ok \in BOOLEAN :
         /\ WriteControl(Current(p), ok)
         /\ IF ok THEN Step(p, "mark", 1) ELSE Step(p, "roll", 0)
  BY DEF Write
<1>3. Astray(M)' \subseteq Astray(M) \cup {Current(p)}
  BY <1>2 DEF WriteControl, Astray, Dirty, TypeInv, TypeOK
<1>4. pc'[p] \in {"mark", "roll"} /\ \A q \in Procs \ {p} : pc'[q] = pc[q]
  BY <1>2 DEF Step, Goto, TypeInv, TypeOK
<1>5. DiskInv(M)'
  BY <1>1, <1>3 DEF SafeInv, DiskInv, OkRecord, Covered
<1>6. OkRecord(M, mem[p])'
  BY <1>1, <1>3 DEF OkRecord
<1>7. ProcInv(M, p)'
  BY <1>1, <1>4, <1>6 DEF ProcInv
<1>8. QED
  BY <1>1, <1>4, <1>5, <1>7, OneStep

LEMMA ActivateSafe == ASSUME NEW M, TypeInv, SafeInv(M), NEW p \in Procs, Activate(p) PROVE SafeInv(M)'
<1> DEFINE r == [mem[p] EXCEPT !.state = "active"]
<1>1. /\ r \in Records /\ r.applied = mem[p].applied
      /\ r.ops = mem[p].ops /\ r.boot = mem[p].boot /\ r.snap = mem[p].snap
  BY MemType, StateUpdate DEF RecordStates
<1>2. mem'[p] = r
  BY DEF Activate, TypeInv, TypeOK
<1> HIDE DEF r
<1>3. PICK ok \in BOOLEAN : Save(r, ok) /\ Goto(p, IF ok THEN "active" ELSE "roll")
  BY <1>2 DEF Activate
<1>4. /\ lock = p /\ lock' = p /\ UNCHANGED <<hw, boot>> /\ Astray(M)' = Astray(M)
      /\ pc'[p] \in {"active", "roll"} /\ OkRecord(M, mem[p])
  BY <1>3 DEF Activate, Goto, SafeInv, ProcInv, Working, InTransaction, Astray, Dirty, TypeInv, TypeOK
<1>5. OkRecord(M, r)
  BY <1>1, <1>4 DEF OkRecord
<1>6. DiskInv(M)'
  BY <1>1, <1>3, <1>4, <1>5, DiskSaved DEF SafeInv
<1>7. OkRecord(M, mem[p])'
  BY <1>2, <1>4, <1>5 DEF OkRecord
<1>8. ProcInv(M, p)'
  BY <1>4, <1>7 DEF ProcInv
<1>9. QED
  BY <1>6, <1>8, OneStep DEF Activate, Goto, TypeInv, TypeOK

LEMMA RollbackSafe == ASSUME NEW M, TypeInv, SafeInv(M), NEW p \in Procs, Rollback(p) PROVE SafeInv(M)'
<1> DEFINE r == [mem[p] EXCEPT !.state = "rolling_back"]
<1>1. /\ r \in Records /\ r.applied = mem[p].applied
      /\ r.ops = mem[p].ops /\ r.boot = mem[p].boot /\ r.snap = mem[p].snap
  BY MemType, StateUpdate DEF RecordStates
<1>2. mem'[p] = r
  BY DEF Rollback, TypeInv, TypeOK
<1> HIDE DEF r
<1>3. PICK ok \in BOOLEAN : Save(r, ok)
  BY <1>2 DEF Rollback
<1>4. /\ lock = p /\ lock' = p /\ UNCHANGED <<hw, boot>> /\ Astray(M)' = Astray(M)
      /\ pc'[p] = "restore" /\ idx'[p] = Len(r.ops) /\ OkRecord(M, mem[p])
  BY <1>1 DEF Rollback, Goto, SafeInv, ProcInv, Working, InTransaction, InRollback, Astray, Dirty, TypeInv, TypeOK
<1>5. OkRecord(M, r)
  BY <1>1, <1>4 DEF OkRecord
<1>6. DiskInv(M)'
  BY <1>1, <1>3, <1>4, <1>5, DiskSaved DEF SafeInv
<1>7. OkRecord(M, mem[p])' /\ Within(p, idx[p])'
  BY <1>2, <1>4, <1>5 DEF OkRecord, Within
<1>8. ProcInv(M, p)'
  BY <1>4, <1>7 DEF ProcInv
<1>9. QED
  BY <1>6, <1>8, OneStep DEF Rollback, Goto, TypeInv, TypeOK

LEMMA RollbackEndSafe == ASSUME NEW M, TypeInv, SafeInv(M), NEW p \in Procs, RollbackEnd(p) PROVE SafeInv(M)'
<1>1. /\ pc[p] = "restore" /\ idx[p] = 0 /\ lock = p /\ lock' = p
      /\ UNCHANGED <<hw, boot>> /\ Astray(M)' = Astray(M) /\ OkRecord(M, mem[p])
      /\ \A q \in Procs \ {p} : pc'[q] = pc[q]
  BY DEF RollbackEnd, Goto, SafeInv, ProcInv, Working, InTransaction, InRollback, Astray, Dirty, TypeInv, TypeOK
<1>2. CASE failed[p]
  <2> DEFINE r == [mem[p] EXCEPT !.state = "rollback_incomplete"]
  <2>1. /\ r \in Records /\ r.applied = mem[p].applied
        /\ r.ops = mem[p].ops /\ r.boot = mem[p].boot /\ r.snap = mem[p].snap
    BY MemType, StateUpdate DEF RecordStates
  <2>2. mem'[p] = r /\ pc'[p] = "incomplete"
    BY <1>2 DEF RollbackEnd, Goto, TypeInv, TypeOK
  <2> HIDE DEF r
  <2>3. PICK ok \in BOOLEAN : Save(r, ok)
    BY <1>2, <2>2 DEF RollbackEnd
  <2>4. OkRecord(M, r)
    BY <1>1, <2>1 DEF OkRecord
  <2>5. DiskInv(M)'
    BY <1>1, <2>1, <2>3, <2>4, DiskSaved DEF SafeInv
  <2>6. OkRecord(M, mem[p])'
    BY <1>1, <2>2, <2>4 DEF OkRecord
  <2>7. ProcInv(M, p)'
    BY <1>1, <2>2, <2>6 DEF ProcInv
  <2>8. QED
    BY <1>1, <2>5, <2>7, OneStep
<1>3. CASE ~failed[p]
  <2>1. PICK ok \in BOOLEAN : Remove(ok) /\ Goto(p, IF ok THEN "idle" ELSE "incomplete")
    BY <1>3 DEF RollbackEnd
  <2>2. Astray(M) = {} /\ UNCHANGED mem /\ pc'[p] \in {"idle", "incomplete"}
    BY <1>1, <1>3, <2>1, LoopDone DEF RollbackEnd, Goto, TypeInv, TypeOK
  <2>3. DiskInv(M)'
    BY <1>1, <2>1, <2>2, DiskRemoved DEF SafeInv
  <2>4. OkRecord(M, mem[p])'
    BY <1>1, <2>2 DEF OkRecord
  <2>5. ProcInv(M, p)'
    BY <1>1, <2>2, <2>4 DEF ProcInv
  <2>6. QED
    BY <1>1, <2>3, <2>5, OneStep
<1>4. QED
  BY <1>2, <1>3

\* Nothing is off stock after a reboot, whoever had moved it before.
LEMMA RebootSafe == ASSUME NEW M, NEW N, TypeInv, SafeInv(M), Reboot PROVE SafeInv(N)'
<1>1. Astray(N)' = {} /\ \A p \in Procs : pc'[p] = "down"
  BY DEF Reboot, Astray, Dirty
<1>2. disk' # NoRecord => disk'.boot <= boot /\ disk'.boot \in Nat
  BY DEF Reboot, SafeInv, DiskInv, TypeInv, TypeOK, Records
<1>3. DiskInv(N)'
  BY <1>1, <1>2 DEF Reboot, DiskInv, TypeInv, TypeOK
<1>4. \A p \in Procs : ProcInv(N, p)'
  BY <1>1 DEF ProcInv, Working, InTransaction, InRecovery, InRollback
<1>5. QED
  BY <1>3, <1>4 DEF SafeInv

LEMMA SafeNext == ASSUME NEW M, TypeInv, SafeInv(M), [Next]_vars PROVE SafeInv(M)'
<1>1. ASSUME NEW p \in Procs, Exit(p) \/ Kill(p) PROVE SafeInv(M)'
  <2>1. DiskInv(M)' /\ pc[p] # "down" /\ Stop(p)
    BY <1>1, DiskKept DEF Exit, Kill, SafeInv, Astray, Dirty
  <2>2. QED
    BY <2>1, StopSafe
<1>2. ASSUME NEW p \in Procs, Run(p) PROVE SafeInv(M)'
  <2>1. CASE RecoverSkip(p) \/ RollbackSkip(p)
    BY <2>1, SkipSafe DEF RecoverSkip, RollbackSkip, Loop
  <2>2. CASE RecoverRestore(p) \/ RollbackRestore(p)
    BY <2>2, RestoreSafe DEF RecoverRestore, RollbackRestore, Loop
  <2>3. CASE RecoverSave(p) \/ RollbackSave(p)
    BY <2>3, SaveEntrySafe DEF RecoverSave, RollbackSave, Loop
  <2>4. QED
    BY <1>2, <2>1, <2>2, <2>3, LoadSafe, RecoverEndSafe, SaveRecordSafe, MarkSafe, WriteSafe,
       ActivateSafe, RollbackEndSafe DEF Run
<1>3. CASE UNCHANGED vars
  BY <1>3 DEF vars, SafeInv, DiskInv, ProcInv, OkRecord, Within, Astray, Dirty, Covered, Current
<1>4. QED
  BY <1>1, <1>2, <1>3, StartSafe, BeginSafe, RollbackSafe, RebootSafe DEF Next

-----------------------------------------------------------------------------
(* A helper past Load works in this boot, and so does the record it saves. *)

Fresh(p) == pc[p] \notin {"down", "started"} => disk = NoRecord \/ disk.boot = boot

FreshInv == \A p \in Procs : Fresh(p)

\* What a running process can do to the record.
LEMMA DiskStep ==
    ASSUME TypeInv, SafeInv({}), SafeInv({})', NEW p \in Procs, Begin(p) \/ Run(p) \/ Rollback(p)
    PROVE  /\ disk' \in {disk, NoRecord} \/ disk'.boot = boot
           /\ boot' = boot
           /\ pc[p] # "down" /\ \A q \in Procs \ {p} : pc'[q] = pc[q]
<1>1. CASE Begin(p) \/ Load(p) \/ RecoverSkip(p) \/ RecoverRestore(p) \/ Write(p)
           \/ RollbackSkip(p) \/ RollbackRestore(p)
  BY <1>1 DEF Begin, Load, RecoverSkip, RecoverRestore, Write, RollbackSkip, RollbackRestore,
              SkipEntry, RestoreEntry, Step, Stop, Goto, TypeInv, TypeOK
<1>2. CASE RecoverSave(p) \/ SaveRecord(p) \/ RollbackSave(p)
  <2>1. mem' = mem /\ boot' = boot /\ pc[p] \in Working /\ \A q \in Procs \ {p} : pc'[q] = pc[q]
    BY <1>2 DEF RecoverSave, SaveRecord, RollbackSave, SaveEntry, Step, Goto, Working, InTransaction,
                InRecovery, InRollback, TypeInv, TypeOK
  <2>2. mem[p].boot = boot
    BY <2>1 DEF SafeInv, ProcInv, OkRecord
  <2>3. disk' \in {disk, mem[p]}
    BY <1>2 DEF RecoverSave, SaveRecord, RollbackSave, SaveEntry, Save
  <2>4. QED
    BY <2>1, <2>2, <2>3 DEF Working, InTransaction, InRecovery, InRollback
<1>3. CASE Mark(p) \/ Activate(p) \/ Rollback(p)
  <2>1. /\ boot' = boot /\ pc'[p] \in Working /\ pc[p] # "down"
        /\ \A q \in Procs \ {p} : pc'[q] = pc[q]
    BY <1>3 DEF Mark, Activate, Rollback, Goto, Working, InTransaction, InRecovery, InRollback,
                TypeInv, TypeOK
  <2>2. mem'[p].boot = boot
    BY <2>1 DEF SafeInv, ProcInv, OkRecord
  <2>3. disk' \in {disk, mem'[p]}
    BY <1>3 DEF Mark, Activate, Rollback, Save
  <2>4. QED
    BY <2>1, <2>2, <2>3
<1>4. CASE RecoverEnd(p)
  BY <1>4 DEF RecoverEnd, Remove, Stop, Goto, TypeInv, TypeOK
<1>5. CASE RollbackEnd(p)
  <2>1. /\ boot' = boot /\ pc[p] = "restore" /\ \A q \in Procs \ {p} : pc'[q] = pc[q]
    BY <1>5 DEF RollbackEnd, Goto, TypeInv, TypeOK
  <2>2. CASE failed[p]
    <3>1. pc'[p] = "incomplete" /\ disk' \in {disk, mem'[p]}
      BY <1>5, <2>2 DEF RollbackEnd, Save, Goto, TypeInv, TypeOK
    <3>2. mem'[p].boot = boot
      BY <2>1, <3>1 DEF SafeInv, ProcInv, OkRecord, Working, InTransaction, InRollback
    <3>3. QED
      BY <2>1, <3>1, <3>2
  <2>3. CASE ~failed[p]
    BY <1>5, <2>1, <2>3 DEF RollbackEnd, Remove
  <2>4. QED
    BY <2>2, <2>3
<1>6. QED
  BY <1>1, <1>2, <1>3, <1>4, <1>5 DEF Run

LEMMA FreshNext == TypeInv /\ SafeInv({}) /\ SafeInv({})' /\ FreshInv /\ [Next]_vars => FreshInv'
<1> SUFFICES ASSUME TypeInv, SafeInv({}), SafeInv({})', FreshInv, [Next]_vars PROVE FreshInv'
  OBVIOUS
<1>1. ASSUME NEW p \in Procs, Start(p) PROVE FreshInv'
  BY <1>1 DEF Start, Goto, FreshInv, Fresh, TypeInv, TypeOK
<1>2. ASSUME NEW p \in Procs, Exit(p) \/ Kill(p) PROVE FreshInv'
  BY <1>2 DEF Exit, Kill, Stop, Goto, FreshInv, Fresh, TypeInv, TypeOK
<1>3. ASSUME NEW p \in Procs, Begin(p) \/ Run(p) \/ Rollback(p) PROVE FreshInv'
  <2>1. \A q \in Procs \ {p} : pc'[q] = "down"
    BY <1>3, DiskStep, OthersDown
  <2>2. CASE pc[p] = "started"
    <3>1. Load(p)
      BY <1>3, <2>2 DEF Begin, Run, Rollback, RecoverSkip, RecoverRestore, RecoverSave, RecoverEnd,
           SaveRecord, Mark, Write, Activate, RollbackSkip, RollbackRestore, RollbackSave, RollbackEnd,
           SkipEntry, RestoreEntry, SaveEntry
    <3>2. Fresh(p)'
      BY <3>1 DEF Load, Fresh, Stop, Goto, TypeInv, TypeOK
    <3>3. QED
      BY <2>1, <3>2 DEF FreshInv, Fresh
  <2>3. CASE pc[p] # "started"
    <3>1. Fresh(p)'
      BY <1>3, <2>3, DiskStep DEF FreshInv, Fresh
    <3>2. QED
      BY <2>1, <3>1 DEF FreshInv, Fresh
  <2>4. QED
    BY <2>2, <2>3
<1>4. CASE Reboot
  BY <1>4 DEF Reboot, FreshInv, Fresh
<1>5. CASE UNCHANGED vars
  BY <1>5 DEF vars, FreshInv, Fresh
<1>6. QED
  BY <1>1, <1>2, <1>3, <1>4, <1>5 DEF Next

LEMMA Safe == Spec => [](TypeInv /\ SafeInv({}) /\ FreshInv)
<1>1. Init => TypeInv /\ SafeInv({}) /\ FreshInv
  BY TypeInit, SafeInit DEF Init, FreshInv, Fresh
<1>2. TypeInv /\ SafeInv({}) /\ FreshInv /\ [Next]_vars => (TypeInv /\ SafeInv({}) /\ FreshInv)'
  BY TypeNext, SafeNext, FreshNext
<1>3. QED
  BY <1>1, <1>2, PTL DEF Spec

\* Every control off stock is named by a published record of this boot.
THEOREM JournalAlwaysCovers == Spec => []JournalCovers
<1>1. TypeInv /\ SafeInv({}) => JournalCovers
  BY DEF SafeInv, DiskInv, OkRecord, Astray, JournalCovers, Covered
<1>2. QED
  BY Safe, <1>1, PTL

\* A journaled snapshot is the stock value.
THEOREM SnapshotsAlwaysStock == Spec => []SnapshotsAreStock
<1>1. TypeInv /\ SafeInv({}) => SnapshotsAreStock
  BY DEF SafeInv, DiskInv, OkRecord, SnapshotsAreStock, Covered, TypeInv, TypeOK, Records
<1>2. QED
  BY Safe, <1>1, PTL

\* A helper that is ready for a change set has the hardware at stock.
THEOREM ReadyAlwaysStock == Spec => []ReadyMeansStock
<1>1. TypeInv /\ SafeInv({}) => ReadyMeansStock
  BY DEF SafeInv, ProcInv, Astray, ReadyMeansStock
<1>2. QED
  BY Safe, <1>1, PTL

\* An incomplete rollback reports every control that is still modified.
THEOREM ReportAlwaysComplete == Spec => []ReportIsComplete
<1>1. TypeInv /\ SafeInv({}) => ReportIsComplete
  BY DEF SafeInv, ProcInv, Astray, ReportIsComplete, OkRecord, Working, InTransaction, InRollback
<1>2. QED
  BY Safe, <1>1, PTL

-----------------------------------------------------------------------------
(* Action properties and refinement, from the same invariant.              *)

AllInv == TypeInv /\ SafeInv({}) /\ FreshInv

LEMMA StaleRecordStep ==
    ASSUME AllInv, AllInv', [Next]_vars, disk # NoRecord, disk.boot # boot, boot' = boot
    PROVE  disk' = disk
<1>1. ASSUME NEW p \in Procs, Begin(p) \/ Run(p) \/ Rollback(p) PROVE disk' = disk
  <2>1. pc[p] = "started"
    BY <1>1, DiskStep DEF AllInv, FreshInv, Fresh
  <2>2. Load(p)
    BY <1>1, <2>1 DEF Begin, Run, Rollback, RecoverSkip, RecoverRestore, RecoverSave, RecoverEnd,
         SaveRecord, Mark, Write, Activate, RollbackSkip, RollbackRestore, RollbackSave, RollbackEnd,
         SkipEntry, RestoreEntry, SaveEntry
  <2>3. QED
    BY <2>2 DEF Load
<1>2. QED
  BY <1>1 DEF Next, vars, Start, Exit, Kill, Reboot, AllInv, TypeInv, TypeOK

\* A record of an earlier boot is neither removed nor replaced.
THEOREM StaleRecordAlwaysKept == Spec => StaleRecordKept
<1>1. AllInv /\ AllInv' /\ [Next]_vars
        => [disk # NoRecord /\ disk.boot # boot /\ boot' = boot => disk' = disk]_vars
  BY StaleRecordStep
<1>2. Spec => []AllInv
  BY Safe, PTL DEF AllInv
<1>3. QED
  BY <1>1, <1>2, PTL DEF Spec, StaleRecordKept

\* Only a write, a restore and a reboot change a control.
LEMMA HardwareStep ==
    ASSUME AllInv, [Next]_vars, Dirty' # Dirty \/ hw' # hw
    PROVE  \/ Reboot
           \/ \E p \in Procs : Write(p) \/ RecoverRestore(p) \/ RollbackRestore(p)
<1>1. hw' # hw
  BY DEF Dirty
<1>2. QED
  BY <1>1 DEF Next, vars, Run, Start, Begin, Load, RecoverSkip, RecoverSave, RecoverEnd, SaveRecord,
      Mark, Activate, Rollback, RollbackSkip, RollbackSave, RollbackEnd, SkipEntry, SaveEntry, Exit, Kill

LEMMA ReverseStep ==
    ASSUME AllInv, AllInv', [Next]_vars, NEW p \in Procs,
           pc[p] \in {"restore", "rec_restore"}, hw' # hw, ~failed[p], pc'[p] # "down",
           NEW i \in DOMAIN mem[p].ops, NEW j \in DOMAIN mem[p].ops, i < j,
           hw'[mem[p].ops[i]] # hw[mem[p].ops[i]]
    PROVE  hw[mem[p].ops[j]] = Stock
<1>1. mem[p] \in Records /\ DOMAIN mem[p].ops = 1..Len(mem[p].ops)
  BY MemType, RecordFields DEF AllInv
<1>2. OkRecord({}, mem[p]) /\ Within(p, idx[p])
  BY DEF AllInv, SafeInv, ProcInv, Working, InRecovery, InTransaction, InRollback
<1>3. PICK q \in Procs : Write(q) \/ RecoverRestore(q) \/ RollbackRestore(q)
  BY HardwareStep DEF Reboot
<1>4. q = p
  BY <1>3, OthersDown DEF AllInv, Write, RecoverRestore, RollbackRestore, RestoreEntry
<1>5. RecoverRestore(p) \/ RollbackRestore(p)
  BY <1>3, <1>4 DEF Write
<1>6. mem[p].ops[i] = Current(p) /\ idx[p] \in 1..Len(mem[p].ops)
  <2>1. \E ok \in BOOLEAN, v \in Values \cup {mem[p].snap[Current(p)]} : hw' = [hw EXCEPT ![Current(p)] = v]
    BY <1>5 DEF RecoverRestore, RollbackRestore, RestoreEntry, RestoreControl
  <2>2. mem[p].ops[i] \in Controls
    BY <1>1, RecordFields
  <2>3. mem[p].ops[i] = Current(p)
    BY <2>1, <2>2 DEF AllInv, TypeInv, TypeOK
  <2>4. QED
    BY <1>1, <1>5, <2>3, RecordFields DEF RecoverRestore, RollbackRestore, RestoreEntry, AllInv, TypeInv, TypeOK, Bounds
<1>7. i = idx[p]
  BY <1>1, <1>2, <1>6 DEF OkRecord, Current
<1>8. mem[p].ops[j] \notin mem[p].applied
  BY <1>1, <1>2, <1>6, <1>7, SMTT(30) DEF OkRecord, Within
<1>9. mem[p].ops[j] \in Controls
  BY <1>1, RecordFields
<1>10. QED
  BY <1>2, <1>8, <1>9 DEF OkRecord, Astray, Dirty

\* Controls go back in the reverse of the order they were applied in.
THEOREM RestorationAlwaysReverse == Spec => ReverseRestoration
<1>1. AllInv /\ AllInv' /\ [Next]_vars
        => [\A p \in Procs : pc[p] \in {"restore", "rec_restore"} /\ hw' # hw /\ ~failed[p] /\ pc'[p] # "down" =>
              \A i, j \in DOMAIN mem[p].ops :
                 i < j /\ hw'[mem[p].ops[i]] # hw[mem[p].ops[i]] => hw[mem[p].ops[j]] = Stock]_vars
  BY ReverseStep
<1>2. Spec => []AllInv
  BY Safe, PTL DEF AllInv
<1>3. QED
  BY <1>1, <1>2, PTL DEF Spec, ReverseRestoration

\* Changing one control moves it into or out of Dirty.
LEMMA OneControl ==
    ASSUME TypeInv, NEW c \in Controls, NEW v \in Values, hw' = [hw EXCEPT ![c] = v]
    PROVE  Dirty' = Dirty \cup {c} \/ Dirty' = Dirty \ {c}
<1>1. CASE v = Stock
  BY <1>1 DEF Dirty, TypeInv, TypeOK
<1>2. CASE v # Stock
  BY <1>2 DEF Dirty, TypeInv, TypeOK
<1>3. QED
  BY <1>1, <1>2

LEMMA RefineStep ==
    ASSUME AllInv, AllInv', [Next]_vars
    PROVE  [Journal!Next]_<<Dirty, Covered>>
<1>1. Covered' \in SUBSET Controls /\ Dirty' \subseteq Covered' /\ Dirty \subseteq Covered
  BY DEF AllInv, SafeInv, DiskInv, OkRecord, Astray, Covered, TypeInv, TypeOK, Records
<1>2. CASE Dirty' = Dirty
  BY <1>1, <1>2 DEF Journal!Next, Journal!Publish
<1>3. CASE Reboot
  <2>1. Dirty' = {} /\ Covered' = {}
    BY <1>3 DEF Reboot, Dirty, Covered, AllInv, SafeInv, DiskInv, TypeInv, TypeOK, Records
  <2>2. QED
    BY <2>1 DEF Journal!Next, Journal!PowerLoss
<1>4. ASSUME NEW p \in Procs, Write(p) \/ RecoverRestore(p) \/ RollbackRestore(p)
      PROVE  [Journal!Next]_<<Dirty, Covered>>
  <2>1. idx[p] \in 1..Len(mem[p].ops)
    BY <1>4, MemType, RecordFields
       DEF Write, RecoverRestore, RollbackRestore, RestoreEntry, AllInv, TypeInv, TypeOK, Bounds
  <2>2. Current(p) \in Controls /\ mem[p].snap[Current(p)] \in Values
    BY <2>1, CurrentIsControl, MemType, RecordFields DEF AllInv, TypeInv
  <2>3. Covered' = Covered
    BY <1>4 DEF Write, RecoverRestore, RollbackRestore, RestoreEntry, Covered
  <2>4. PICK v \in Values : hw' = [hw EXCEPT ![Current(p)] = v]
    BY <1>4, <2>2 DEF Write, WriteControl, RecoverRestore, RollbackRestore, RestoreEntry, RestoreControl
  <2>5. Dirty' = Dirty \cup {Current(p)} \/ Dirty' = Dirty \ {Current(p)}
    BY <2>2, <2>4, OneControl DEF AllInv
  <2>6. CASE Dirty' = Dirty \ {Current(p)}
    BY <2>2, <2>3, <2>6 DEF Journal!Next, Journal!Restore
  <2>7. CASE Dirty' = Dirty \cup {Current(p)}
    <3>1. Current(p) \in Covered
      BY <1>1, <2>3, <2>7
    <3>2. QED
      BY <2>2, <2>3, <2>7, <3>1 DEF Journal!Next, Journal!Modify
  <2>8. QED
    BY <2>5, <2>6, <2>7
<1>5. QED
  BY <1>2, <1>3, <1>4, HardwareStep

\* The engine implements an undo journal.
THEOREM EngineImplementsUndoJournal == Spec => ImplementsUndoJournal
<1>1. Init => Journal!Init
  BY EngineAssumption DEF Init, Journal!Init, Dirty, Covered
<1>2. AllInv /\ AllInv' /\ [Next]_vars => [Journal!Next]_<<Dirty, Covered>>
  BY RefineStep
<1>3. Spec => []AllInv
  BY Safe, PTL DEF AllInv
<1>4. QED
  BY <1>1, <1>2, <1>3, PTL DEF Spec, Journal!Spec, ImplementsUndoJournal

-----------------------------------------------------------------------------
(* What a program sees of the engine that it calls, and what may happen to *)
(* the machine meanwhile.                                                  *)

\* A call of the program's own may fail: that changes nothing of the engine.
LEMMA FaultSafe ==
    ASSUME NEW M, TypeInv, SafeInv(M), UNCHANGED <<hw, disk, boot, lock, pc, mem, idx, failed>>,
           UNCHANGED faults \/ Fault
    PROVE  TypeInv' /\ SafeInv(M)'
<1>1. faults' \in 0..MaxFaults
  BY EngineAssumption DEF Fault, TypeInv, TypeOK
<1>2. TypeInv'
  BY <1>1 DEF TypeInv, TypeOK, Bounds
<1>3. SafeInv(M)'
  BY DEF SafeInv, DiskInv, ProcInv, OkRecord, Within, Astray, Dirty, Covered, Current
<1>4. QED
  BY <1>2, <1>3

\* Another program, or the firmware, moves a control: it joins the set.
LEMMA MovedSafe ==
    ASSUME NEW M, TypeInv, SafeInv(M), NEW c \in Controls, NEW v \in Values,
           hw' = [hw EXCEPT ![c] = v], UNCHANGED <<disk, boot, lock, pc, mem, idx, failed>>,
           UNCHANGED faults \/ Fault
    PROVE  TypeInv' /\ SafeInv(M \cup {c})'
<1> DEFINE N == M \cup {c}
<1>1. faults' \in 0..MaxFaults /\ hw' \in [Controls -> Values]
  BY EngineAssumption DEF Fault, TypeInv, TypeOK
<1>2. TypeInv'
  BY <1>1 DEF TypeInv, TypeOK, Bounds
<1>3. Astray(N)' \subseteq Astray(M)
  BY DEF Astray, Dirty, TypeInv, TypeOK
<1>4. ASSUME NEW r, OkRecord(M, r) PROVE r.boot = boot' /\ OkRecord(N, r)'
  BY <1>3, <1>4 DEF OkRecord
<1> HIDE DEF N
<1>5. DiskInv(N)'
  <2>1. disk' # NoRecord /\ disk'.boot = boot' => OkRecord(N, disk)'
    <3>1. SUFFICES ASSUME disk # NoRecord, disk.boot = boot PROVE OkRecord(N, disk)'
      OBVIOUS
    <3>2. PICK r : r = disk
      OBVIOUS
    <3>3. OkRecord(M, r)
      BY <3>1, <3>2 DEF SafeInv, DiskInv
    <3>4. OkRecord(N, r)'
      BY <1>4, <3>3
    <3>5. QED
      BY <3>2, <3>4 DEF OkRecord
  <2>2. QED
    BY <1>3, <2>1 DEF SafeInv, DiskInv
<1>6. ASSUME NEW p \in Procs PROVE ProcInv(N, p)'
  <2>1. pc'[p] \in Working => OkRecord(N, mem[p])'
    <3>1. SUFFICES ASSUME pc[p] \in Working PROVE OkRecord(N, mem[p])'
      BY DEF Working, InTransaction, InRecovery, InRollback
    <3>2. PICK r : r = mem[p]
      OBVIOUS
    <3>3. OkRecord(M, r)
      BY <3>1, <3>2 DEF SafeInv, ProcInv
    <3>4. OkRecord(N, r)'
      BY <1>4, <3>3
    <3>5. QED
      BY <3>2, <3>4 DEF OkRecord
  <2>2. QED
    BY <1>3, <2>1 DEF SafeInv, ProcInv, Within, Current, Covered
<1>7. QED
  BY <1>2, <1>5, <1>6 DEF SafeInv, N

Recovery(p) == \/ Load(p) \/ RecoverSkip(p) \/ RecoverRestore(p) \/ RecoverSave(p) \/ RecoverEnd(p)

Transaction(p) == \/ SaveRecord(p) \/ Mark(p) \/ Write(p) \/ Activate(p) \/ Rollback(p)
                  \/ RollbackSkip(p) \/ RollbackRestore(p) \/ RollbackSave(p) \/ RollbackEnd(p)

\* A recovery ends with the process, or with the record gone.
LEMMA RecoveryStep ==
    ASSUME TypeInv, NEW p \in Procs, Recovery(p)
    PROVE  /\ pc[p] \in {"started"} \cup InRecovery
           /\ pc'[p] \in {"down", "idle"} \cup InRecovery
           /\ \A q \in Procs \ {p} : pc'[q] = pc[q]
           /\ pc'[p] = "idle" => disk' = NoRecord
<1>1. CASE Load(p)
  BY <1>1 DEF Load, Stop, Goto, InRecovery, TypeInv, TypeOK
<1>2. CASE RecoverSkip(p) \/ RecoverRestore(p) \/ RecoverSave(p)
  BY <1>2 DEF RecoverSkip, RecoverRestore, RecoverSave, SkipEntry, RestoreEntry, SaveEntry,
              Step, Goto, InRecovery, TypeInv, TypeOK
<1>3. CASE RecoverEnd(p)
  BY <1>3 DEF RecoverEnd, Remove, Stop, Goto, InRecovery, TypeInv, TypeOK
<1>4. QED
  BY <1>1, <1>2, <1>3 DEF Recovery

\* Where a transaction goes from where it is.
Goes(from, to) ==
    \/ from = "captured" /\ to \in {"mark", "idle"}
    \/ from = "mark" /\ to \in {"write", "active", "roll"}
    \/ from = "write" /\ to \in {"mark", "roll"}
    \/ from \in {"active", "roll", "incomplete"} /\ to = "restore"
    \/ from = "restore" /\ to \in {"restore", "restored", "idle", "incomplete"}
    \/ from = "restored" /\ to = "restore"

\* It touches the controls of its change set only, and leaves no record when it
\* ends well.
LEMMA TransactionStep ==
    ASSUME TypeInv, NEW p \in Procs, Transaction(p)
    PROVE  /\ Goes(pc[p], pc'[p])
           /\ \A q \in Procs \ {p} : pc'[q] = pc[q]
           /\ mem'[p].ops = mem[p].ops
           /\ \A c \in Controls : hw'[c] # hw[c] => \E i \in 1..Len(mem[p].ops) : mem[p].ops[i] = c
           /\ pc'[p] = "idle" /\ pc[p] # "captured" => disk' = NoRecord
<1>1. CASE SaveRecord(p)
  BY <1>1 DEF SaveRecord, Goto, Goes, TypeInv, TypeOK
<1>2. CASE Mark(p)
  <2>1. mem'[p].ops = mem[p].ops
    BY <1>2 DEF Mark, TypeInv, TypeOK, Records
  <2>2. pc[p] = "mark" /\ pc'[p] \in {"write", "roll"} /\ hw' = hw /\ \A q \in Procs \ {p} : pc'[q] = pc[q]
    BY <1>2 DEF Mark, Goto, TypeInv, TypeOK
  <2>3. QED
    BY <2>1, <2>2 DEF Goes
<1>3. CASE Write(p)
  <2>1. idx[p] \in 1..Len(mem[p].ops)
    BY <1>3 DEF Write, TypeInv, Bounds
  <2>2. \E v \in Values : hw' = [hw EXCEPT ![Current(p)] = v]
    BY <1>3 DEF Write, WriteControl
  <2>3. \A c \in Controls : hw'[c] # hw[c] => \E i \in 1..Len(mem[p].ops) : mem[p].ops[i] = c
    BY <2>1, <2>2 DEF Current, TypeInv, TypeOK
  <2>4. pc[p] = "write" /\ pc'[p] \in {"mark", "roll"} /\ mem' = mem /\ \A q \in Procs \ {p} : pc'[q] = pc[q]
    BY <1>3 DEF Write, Step, Goto, TypeInv, TypeOK
  <2>5. QED
    BY <2>3, <2>4 DEF Goes
<1>4. CASE Activate(p)
  <2>1. mem'[p].ops = mem[p].ops
    BY <1>4 DEF Activate, TypeInv, TypeOK, Records
  <2>2. pc[p] = "mark" /\ pc'[p] \in {"active", "roll"} /\ hw' = hw /\ \A q \in Procs \ {p} : pc'[q] = pc[q]
    BY <1>4 DEF Activate, Goto, TypeInv, TypeOK
  <2>3. QED
    BY <2>1, <2>2 DEF Goes
<1>5. CASE Rollback(p)
  <2>1. mem'[p].ops = mem[p].ops
    BY <1>5 DEF Rollback, TypeInv, TypeOK, Records
  <2>2. /\ pc[p] \in {"active", "roll", "incomplete"} /\ pc'[p] = "restore" /\ hw' = hw
        /\ \A q \in Procs \ {p} : pc'[q] = pc[q]
    BY <1>5 DEF Rollback, Goto, TypeInv, TypeOK
  <2>3. QED
    BY <2>1, <2>2 DEF Goes
<1>6. CASE RollbackSkip(p) \/ RollbackSave(p)
  <2>1. mem' = mem /\ hw' = hw /\ pc[p] \in {"restore", "restored"} /\ pc'[p] = "restore"
    BY <1>6 DEF RollbackSkip, RollbackSave, SkipEntry, SaveEntry, Step, Goto, TypeInv, TypeOK
  <2>2. \A q \in Procs \ {p} : pc'[q] = pc[q]
    BY <1>6 DEF RollbackSkip, RollbackSave, SkipEntry, SaveEntry, Step, Goto, TypeInv, TypeOK
  <2>3. QED
    BY <2>1, <2>2 DEF Goes
<1>7. CASE RollbackRestore(p)
  <2>1. idx[p] \in 1..Len(mem[p].ops)
    BY <1>7, MemType, RecordFields DEF RollbackRestore, RestoreEntry, TypeInv, TypeOK, Bounds
  <2>2. \E v : hw' = [hw EXCEPT ![Current(p)] = v]
    BY <1>7 DEF RollbackRestore, RestoreEntry, RestoreControl
  <2>3. \A c \in Controls : hw'[c] # hw[c] => \E i \in 1..Len(mem[p].ops) : mem[p].ops[i] = c
    BY <2>1, <2>2 DEF Current, TypeInv, TypeOK
  <2>4. mem'[p].ops = mem[p].ops
    BY <1>7 DEF RollbackRestore, RestoreEntry, TypeInv, TypeOK, Records
  <2>5. pc[p] = "restore" /\ pc'[p] \in {"restore", "restored"} /\ \A q \in Procs \ {p} : pc'[q] = pc[q]
    BY <1>7 DEF RollbackRestore, RestoreEntry, Step, Goto, TypeInv, TypeOK
  <2>6. QED
    BY <2>3, <2>4, <2>5 DEF Goes
<1>8. CASE RollbackEnd(p)
  <2>1. mem'[p].ops = mem[p].ops
    BY <1>8 DEF RollbackEnd, TypeInv, TypeOK, Records
  <2>2. /\ pc[p] = "restore" /\ pc'[p] \in {"idle", "incomplete"} /\ hw' = hw
        /\ \A q \in Procs \ {p} : pc'[q] = pc[q]
        /\ pc'[p] = "idle" => disk' = NoRecord
    BY <1>8 DEF RollbackEnd, Remove, Goto, TypeInv, TypeOK
  <2>3. QED
    BY <2>1, <2>2 DEF Goes
<1>9. QED
  BY <1>1, <1>2, <1>3, <1>4, <1>5, <1>6, <1>7, <1>8 DEF Transaction

\* How its loop over the change set goes on: a control that has been written is
\* not written again.
LEMMA WritingStep ==
    ASSUME NEW M, TypeInv, SafeInv(M), NEW p \in Procs, Transaction(p)
    PROVE  /\ pc'[p] = "mark" =>
                \/ pc[p] = "captured" /\ idx'[p] = 1
                \/ /\ pc[p] = "write" /\ idx'[p] = idx[p] + 1
                   /\ \A i \in 1..Len(mem[p].ops) :
                         i # idx[p] => hw'[mem[p].ops[i]] = hw[mem[p].ops[i]]
           /\ pc'[p] = "write" => pc[p] = "mark" /\ idx'[p] = idx[p] /\ hw' = hw
           /\ pc'[p] = "active" =>
                pc[p] = "mark" /\ idx'[p] = idx[p] /\ hw' = hw /\ idx[p] > Len(mem[p].ops)
<1>1. CASE SaveRecord(p)
  BY <1>1 DEF SaveRecord, Goto, TypeInv, TypeOK
<1>2. CASE Mark(p) \/ Activate(p)
  BY <1>2 DEF Mark, Activate, Goto, TypeInv, TypeOK
<1>3. CASE Write(p)
  <2>1. idx[p] \in 1..Len(mem[p].ops) /\ mem[p].ops \in Seq(Controls) /\ idx[p] \in Nat
    BY <1>3, MemType, RecordFields DEF Write, TypeInv, TypeOK, Bounds
  <2>2. \E v \in Values : hw' = [hw EXCEPT ![Current(p)] = v]
    BY <1>3 DEF Write, WriteControl
  <2>3. OkRecord(M, mem[p])
    BY <1>3 DEF Write, SafeInv, ProcInv, Working, InTransaction
  <2>4. \A i \in 1..Len(mem[p].ops) : i # idx[p] => hw'[mem[p].ops[i]] = hw[mem[p].ops[i]]
    BY <2>1, <2>2, <2>3 DEF OkRecord, Current, TypeInv, TypeOK
  <2>5. pc[p] = "write" /\ pc'[p] \in {"mark", "roll"} /\ (pc'[p] = "mark" => idx'[p] = idx[p] + 1)
    <3>1. PICK ok \in BOOLEAN : IF ok THEN Step(p, "mark", 1) ELSE Step(p, "roll", 0)
      BY <1>3 DEF Write
    <3>2. QED
      BY <1>3, <3>1 DEF Write, Step, Goto, TypeInv, TypeOK
  <2>6. QED
    BY <2>4, <2>5
<1>4. CASE Rollback(p) \/ RollbackSkip(p) \/ RollbackRestore(p) \/ RollbackSave(p) \/ RollbackEnd(p)
  <2>1. pc'[p] \in {"restore", "restored", "idle", "incomplete"}
    BY <1>4 DEF Rollback, RollbackSkip, RollbackRestore, RollbackSave, RollbackEnd, SkipEntry, RestoreEntry,
         SaveEntry, Step, Goto, TypeInv, TypeOK
  <2>2. QED
    BY <2>1
<1>5. QED
  BY <1>1, <1>2, <1>3, <1>4 DEF Transaction

LEMMA ClientSteps ==
    ASSUME NEW p \in Procs, Recovery(p) \/ Transaction(p)
    PROVE  Next
BY DEF Recovery, Transaction, Next, Run

=============================================================================
