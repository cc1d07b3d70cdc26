------------------------ MODULE ControlDriversProofs ------------------------
(***************************************************************************)
(* Machine-checked proofs about ControlDrivers, for every limit, value,    *)
(* offer, offset, voltage and ratio table, any number of faults and any    *)
(* leftover of a failed write.                                             *)
(***************************************************************************)
EXTENDS ControlDrivers, FiniteSetTheorems, TLAPS

-----------------------------------------------------------------------------
(* The inductive invariant.                                                *)

\* The attributes of the control, and those of them a snapshot names.
Attrs == IF InPowercap THEN {"rapl", "mmio"}
         ELSE IF InPolicy THEN {"policy0", "policy1"}
         ELSE IF InThermal THEN Attributes
         ELSE IF InVoltage THEN {"voltage"} ELSE {"ratios"}
Tuned == IF InThermal THEN {"pci"} ELSE Attrs

\* Drivers of sysfs attributes, of which a control has several.
InSys == InPowercap \/ InPolicy

Controls == PowerControls \cup {"epp", "tcc", "core", "pcore"}
Calls == [name : {"none", "apply", "undo", "restore"}, i : Nat, failed : BOOLEAN, cancelled : BOOLEAN]
Ends == [name : {"none", "capture", "apply", "restore"}, ok : BOOLEAN]
Operations(asked) == [sources : Seq(Tuned), requested : asked, captured : BOOLEAN]
Records(values) == [path : Tuned, value : values]
Injective(s) == \A j, k \in DOMAIN s : s[j] = s[k] => j = k

WorldOK ==
    /\ control \in Controls
    /\ InPowercap => fixed.max \in [{"rapl", "mmio"} -> Nat]
    /\ InThermal => fixed.tjMax = TjMax /\ fixed.maxOffset = MaxOffset
    /\ DOMAIN file = Attrs
    /\ present \subseteq Attrs
    /\ InVoltage => file["voltage"] \in Words
    /\ InRatio => file["ratios"] \in Seq(Nat)

ProcessOK ==
    /\ call \in Calls
    /\ last \in Ends
    /\ driver.sources \in Seq(Tuned) /\ Injective(driver.sources)
    /\ op # None => /\ \E asked : op \in Operations(asked)
                    /\ Injective(op.sources)

\* What a snapshot names is distinct, and it can be written back.
RecordOK ==
    record # None =>
        /\ \E values : record \in Seq(Records(values))
        /\ \A j, k \in DOMAIN record : record[j].path = record[k].path => j = k
        /\ ~InSys => Len(record) = 1
        /\ InVoltage => record[1].value \in Words /\ Restorable(record[1].value)
        /\ InRatio => record[1].value \in Seq(Nat) /\ ValidRatios(DecodeTurboRatios(record[1].value))
        /\ op # None /\ InSys => /\ Len(op.sources) = Len(record)
                                 /\ \A k \in DOMAIN record : record[k].path = op.sources[k]

\* A value that can be asked of the attributes ps.
Fits(ps, v) ==
    /\ InPowercap => v \in Int /\ \A p \in ps : v <= fixed.max[p]
    /\ InThermal => v \in Int /\ fixed.tjMax - v \in 0..fixed.maxOffset
    /\ InVoltage => v \in 128 * MillivoltMin..0
    /\ InRatio => v \in Seq(Int) /\ Len(v) = Cores

\* What is asked for is what was reviewed; a ratio register still has the
\* table for which it was.
Asking ==
    /\ op # None => Fits(Range(op.sources), op.requested)
    /\ op # None /\ record # None => op.requested = wanted
    /\ record # None => Fits(Recorded, wanted)
    /\ InRatio /\ op # None /\ last.name \in {"none", "capture"} =>
          /\ EncodeRatios(file["ratios"], op.requested) # None
          /\ ValidRatios(DecodeTurboRatios(file["ratios"]))
    /\ InRatio /\ last.name = "capture" => AtCapture

\* Which calls run with what, and how far a loop over attributes is.
Calling ==
    /\ ~Idle => record # None
    /\ Running("apply") \/ Running("undo") => op # None
    /\ Running("apply") => last.name = "capture"
    /\ Idle /\ last.name = "apply" => record # None
    /\ op # None /\ record = None => last.name \in {"none", "capture"}
    /\ InSys /\ Running("apply") =>
          /\ call.i >= 1
          /\ \A k \in DOMAIN record : k < call.i => file[record[k].path] = wanted
    /\ InSys /\ (Running("undo") \/ Running("restore")) => call.i <= Len(record)

\* What a restore has already written back, and what it reports.
Restoring ==
    /\ InSys /\ Running("restore") /\ ~call.failed =>
          \A k \in DOMAIN record : k > call.i => file[record[k].path] = record[k].value
    /\ last.name = "restore" /\ last.ok => Idle /\ AtCapture

\* In units of the register a voltage is between the captured one and the
\* nearest to the requested one.
Explained ==
    record # None => \A k \in DOMAIN record :
        \/ record[k].path \in blamed
        \/ InVoltage /\ Between(Units(file["voltage"]), Units(record[1].value), EncodeVoltageOffset(wanted))
        \/ ~InVoltage /\ file[record[k].path] \in {record[k].value, Asked(record[k])}

\* What passes the review of a report is accepted, and fits.
Reporting ==
    capability # None =>
        \A v \in Requests : Normalized(capability, v) # None =>
            /\ Accepts(Normalized(capability, v))
            /\ Fits(Range(driver.sources), Normalized(capability, v).of)

Excuses ==
    /\ Idle /\ ~last.ok => excused
    /\ (op # None \/ ~Idle) /\ present # DOMAIN file => excused
    /\ ~Idle /\ (call.cancelled \/ call.failed \/ fixed.locked) => excused
    /\ Running("undo") => excused
    /\ Running("restore") /\ Known # Recorded => excused

Inv == /\ WorldOK /\ ProcessOK /\ RecordOK
       /\ Asking /\ Calling /\ Restoring /\ Explained /\ AppliedAsReviewed
       /\ Reporting /\ Excuses

-----------------------------------------------------------------------------
(* Lemmas about the operators.                                             *)

\* Those of two attributes that are kept, once each.
LEMMA KeptPair ==
    ASSUME NEW T, NEW a \in T, NEW b \in T, a # b, NEW kept
    PROVE  /\ Kept(<<a, b>>, kept) \in Seq(T)
           /\ Injective(Kept(<<a, b>>, kept))
           /\ Range(Kept(<<a, b>>, kept)) = kept \cap {a, b}
<1> DEFINE one(p) == IF p \in kept THEN <<p>> ELSE <<>>
           s == one(a) \o one(b)
<1>1. Kept(<<a, b>>, kept) = s
  BY Zenon, <<a, b>>[1] = a, <<a, b>>[2] = b DEF Kept
<1>2. one(a) \in Seq(T) /\ one(b) \in Seq(T)
  OBVIOUS
<1>3. /\ s \in Seq(T) /\ Len(s) = Len(one(a)) + Len(one(b))
      /\ \A k \in 1..Len(s) : s[k] = IF k <= Len(one(a)) THEN one(a)[k] ELSE one(b)[k - Len(one(a))]
  <2> HIDE DEF one
  <2>1. QED
    BY <1>2
<1>4. DOMAIN s = 1..Len(s)
  BY <1>3
<1> HIDE DEF s
<1>5. CASE a \in kept /\ b \in kept
  <2>1. DOMAIN s = 1..2 /\ s[1] = a /\ s[2] = b
    BY <1>3, <1>4, <1>5
  <2>2. Range(s) = {a, b} /\ Injective(s)
    BY <2>1 DEF Range, Injective
  <2>3. QED
    BY <2>2, <1>1, <1>3, <1>5
<1>6. CASE a \in kept /\ b \notin kept
  <2>1. DOMAIN s = 1..1 /\ s[1] = a
    BY <1>3, <1>4, <1>6
  <2>2. Range(s) = {a} /\ Injective(s)
    BY <2>1 DEF Range, Injective
  <2>3. QED
    BY <2>2, <1>1, <1>3, <1>6
<1>7. CASE a \notin kept /\ b \in kept
  <2>1. DOMAIN s = 1..1 /\ s[1] = b
    BY <1>3, <1>4, <1>7
  <2>2. Range(s) = {b} /\ Injective(s)
    BY <2>1 DEF Range, Injective
  <2>3. QED
    BY <2>2, <1>1, <1>3, <1>7
<1>8. CASE a \notin kept /\ b \notin kept
  <2>1. DOMAIN s = {}
    BY <1>3, <1>4, <1>8
  <2>2. Range(s) = {} /\ Injective(s)
    BY <2>1 DEF Range, Injective
  <2>3. QED
    BY <2>2, <1>1, <1>3, <1>8
<1>9. QED
  BY <1>5, <1>6, <1>7, <1>8

\* A write of v to p, which leaves the other attributes alone.
LEMMA Writes ==
    ASSUME WorldOK, NEW p, NEW v, NEW ok \in BOOLEAN, Write(p, v, ok), p \in Attrs
    PROVE  /\ DOMAIN file' = DOMAIN file
           /\ \A q \in Attrs \ {p} : file'[q] = file[q]
           /\ file[p] = v => file'[p] = v
           /\ file'[p] \in Leftovers[control] \cup {file[p], v}
           /\ ok => file'[p] = v /\ blamed' = blamed
           /\ ~ok => blamed' = blamed \cup {p}
           /\ excused => excused'
           /\ ~ok => excused' \/ (present # Attrs /\ (excused' <=> excused))
<1>1. DOMAIN file = Attrs /\ present \subseteq Attrs
  BY DEF WorldOK
<1>2. CASE ok
  BY <1>1, <1>2 DEF Write
<1>3. CASE ~ok
  BY <1>1, <1>3 DEF Write, Fault
<1>4. QED
  BY <1>2, <1>3

\* What reading does to the history.
LEMMA Reads ==
    ASSUME NEW ps, NEW ok \in BOOLEAN, Read(ps, ok), ps \subseteq Attrs, WorldOK
    PROVE  /\ excused => excused'
           /\ ~ok => excused' \/ (present # Attrs /\ (excused' <=> excused))
BY DEF Read, Fault, WorldOK

\* The register's field and the units it stands for.
FieldRange == -1024..1023

LEMMA FieldUnits ==
    ASSUME NEW u \in FieldRange
    PROVE  Field(u) \in Words /\ Units(Field(u)) = u
BY DEF Units, Field, Words, FieldRange

LEMMA FieldType == ASSUME NEW u \in Int PROVE Field(u) \in Words
BY DEF Field, Words

LEMMA UnitsType == ASSUME NEW f \in Words PROVE Units(f) \in FieldRange /\ Units(f) \in Int
BY DEF Units, Words, FieldRange

LEMMA UnitsInjective ==
    ASSUME NEW f \in Words, NEW g \in Words, Units(f) = Units(g)
    PROVE  f = g
<1>1. f \in Int /\ g \in Int /\ 0 <= f /\ f <= 2047 /\ 0 <= g /\ g <= 2047
  BY DEF Words
<1>2. CASE f > 1023 /\ g > 1023
  BY <1>1, <1>2 DEF Units
<1>3. CASE f > 1023 /\ ~(g > 1023)
  BY <1>1, <1>3 DEF Units
<1>4. CASE ~(f > 1023) /\ g > 1023
  BY <1>1, <1>4 DEF Units
<1>5. CASE ~(f > 1023) /\ ~(g > 1023)
  BY <1>1, <1>5 DEF Units
<1>6. QED
  BY <1>2, <1>3, <1>4, <1>5

\* The units nearest to a request in range.
LEMMA Encoded ==
    ASSUME NEW x \in 128 * MillivoltMin..0
    PROVE  /\ EncodeVoltageOffset(x) \in -256..0
           /\ Near(EncodeVoltageOffset(x), x)
<1>1. EncodeVoltageOffset(x) = Round(x, Unit)
  BY SMTT(30) DEF EncodeVoltageOffset, MillivoltMin
<1>2. x \in -32000..0
  BY DEF MillivoltMin
<1>3. CASE x = 0
  BY <1>1, <1>3 DEF Round, Unit, Near
<1>4. CASE x < 0
  <2>1. Round(x, Unit) = -((2 * (-x) + 125) \div 250)
    BY <1>2, <1>4 DEF Round, Unit
  <2> DEFINE q == (2 * (-x) + 125) \div 250
  <2>2. q \in Int /\ 250 * q <= 2 * (-x) + 125 /\ 2 * (-x) + 125 < 250 * q + 250
    BY <1>2
  <2> HIDE DEF q
  <2>3. q \in 0..256
    BY <2>2, <1>2, <1>4, SMTT(30)
  <2>4. EncodeVoltageOffset(x) = -q
    BY <1>1, <2>1 DEF q
  <2>5. 2 * (125 * (-q) - x) \in -125..125
    BY <2>2, <1>2
  <2>6. QED
    BY <2>3, <2>4, <2>5 DEF Near, Unit
<1>5. QED
  BY <1>2, <1>3, <1>4

\* A step towards the target stays on the way.
LEMMA StepTowards ==
    ASSUME NEW current \in Int, NEW target \in Int, NEW from \in Int, NEW to \in Int,
           Between(current, from, to), Between(target, from, to)
    PROVE  NextUnits(current, target) \in Int /\ Between(NextUnits(current, target), from, to)
BY DEF NextUnits, Between, Greatest, Least, MaxStep

\* Between the captured units and the nearest ones: no overshoot.
LEMMA NoOvershoot ==
    ASSUME NEW x \in 128 * MillivoltMin..0, NEW units \in Int, NEW captured \in Int,
           Between(units, captured, EncodeVoltageOffset(x))
    PROVE  Near(units, x) \/ Between(Unit * units, Unit * captured, x)
<1> DEFINE t == EncodeVoltageOffset(x)
<1>1. t \in Int /\ 2 * (125 * t - x) \in -125..125 /\ x \in Int
  <2>1. t \in -256..0 /\ Near(t, x)
    BY Encoded
  <2>2. QED
    BY <2>1 DEF Near, Unit, MillivoltMin
<1>2. Between(units, captured, t)
  OBVIOUS
<1> HIDE DEF t
<1>3. CASE units = t
  BY <1>1, <1>3 DEF Near, Unit
<1>4. CASE units < t
  BY <1>1, <1>2, <1>4 DEF Between, Unit
<1>5. CASE units > t
  BY <1>1, <1>2, <1>5 DEF Between, Unit
<1>6. QED
  BY <1>1, <1>3, <1>4, <1>5

-----------------------------------------------------------------------------
(* A part of the invariant is kept when nothing it depends on changes.     *)

LEMMA SameKind ==
    ASSUME control' = control
    PROVE  /\ InPowercap' = InPowercap /\ InPolicy' = InPolicy /\ InThermal' = InThermal
           /\ InVoltage' = InVoltage /\ InRatio' = InRatio /\ InSys' = InSys
           /\ Attrs' = Attrs /\ Tuned' = Tuned
BY DEF InPowercap, InPolicy, InThermal, InVoltage, InRatio, InSys, Attrs, Tuned

LEMMA SameAsking ==
    ASSUME control' = control, fixed' = fixed
    PROVE  /\ \A ps, v : Fits(ps, v)' = Fits(ps, v)
           /\ wanted' = wanted => \A r : Asked(r)' = Asked(r)
BY SameKind DEF Fits, Asked

LEMMA WorldKept ==
    ASSUME WorldOK, UNCHANGED <<control, fixed, file>>, present' \subseteq Attrs
    PROVE  WorldOK'
BY SameKind DEF WorldOK

LEMMA ProcessKept ==
    ASSUME ProcessOK, control' = control, call' \in Calls, last' \in Ends,
           driver' = driver, op' \in {op, None}
    PROVE  ProcessOK'
BY SameKind DEF ProcessOK, Calls, Ends, Operations, Injective

LEMMA RecordKept ==
    ASSUME RecordOK, control' = control, record' \in {record, None}, op' \in {op, None}
    PROVE  RecordOK'
BY SameKind DEF RecordOK, Records

LEMMA AskingKept ==
    ASSUME Asking, UNCHANGED <<control, fixed, file, wanted>>,
           record' \in {record, None}, op' \in {op, None},
           \/ last' = last
           \/ last'.name \in {"apply", "restore"}
           \/ last'.name = "none" /\ op' = None
    PROVE  Asking'
<1>1. op' # None => op' = op
  OBVIOUS
<1>2. record' # None => record' = record
  OBVIOUS
<1>3. AtCapture => AtCapture'
  BY <1>2 DEF AtCapture
<1>4. Recorded' = IF record' = None THEN {} ELSE Recorded
  BY <1>2 DEF Recorded
<1>5. QED
  BY <1>1, <1>2, <1>3, <1>4, SameKind, SameAsking DEF Asking

LEMMA ExplainedKept ==
    ASSUME Explained, UNCHANGED <<control, fixed, file, wanted>>,
           record' \in {record, None}, blamed' = blamed
    PROVE  Explained'
BY SameKind, SameAsking DEF Explained

LEMMA AppliedKept ==
    ASSUME AppliedAsReviewed, UNCHANGED <<control, fixed, file, wanted, record>>,
           call'.name # "none" \/ last'.name # "apply" \/ ~last'.ok \/ (call' = call /\ last' = last)
    PROVE  AppliedAsReviewed'
<1>1. CASE call' = call /\ last' = last
  BY <1>1, SameKind, SameAsking DEF AppliedAsReviewed, Idle, Running
<1>2. CASE call'.name # "none" \/ last'.name # "apply" \/ ~last'.ok
  BY <1>2 DEF AppliedAsReviewed, Idle, Running
<1>3. QED
  BY <1>1, <1>2

LEMMA ReportingKept ==
    ASSUME Reporting, UNCHANGED <<control, fixed>>,
           capability' = None \/ (capability' = capability /\ driver' = driver)
    PROVE  Reporting'
<1>1. capability' # None => capability' = capability /\ driver' = driver
  OBVIOUS
<1>2. driver' = driver => \A v : Accepts(v)' = Accepts(v)
  BY SameKind DEF Accepts, PowercapAccepts, PolicyAccepts, ThermalAccepts, MsrAccepts
<1>3. QED
  BY <1>1, <1>2, SameAsking DEF Reporting

LEMMA ZonesAndPolicies ==
    Range(Zones) = {"rapl", "mmio"} /\ Range(Policies) = {"policy0", "policy1"}
BY DEF Range, Zones, Policies

-----------------------------------------------------------------------------
(* The initial states.                                                     *)

LEMMA Started == ASSUME DriverInit, WorldOK PROVE Inv
<1>1. /\ driver = [sources |-> <<>>, choices |-> {}]
      /\ capability = None /\ op = None /\ record = None
      /\ call = [name |-> "none", i |-> 0, failed |-> FALSE, cancelled |-> FALSE]
      /\ last = [name |-> "none", ok |-> TRUE]
  BY DEF DriverInit, Unprobed, NoCall, Nothing
<1>2. ProcessOK
  <2>1. driver.sources = <<>> /\ <<>> \in Seq(Tuned)
    BY <1>1
  <2>2. Injective(<<>>)
    BY DEF Injective
  <2>3. call \in Calls /\ last \in Ends
    BY <1>1 DEF Calls, Ends
  <2>4. QED
    BY <1>1, <2>1, <2>2, <2>3 DEF ProcessOK
<1>3. RecordOK /\ Asking /\ Explained /\ Reporting
  BY <1>1 DEF RecordOK, Asking, Explained, Reporting
<1>4. Calling /\ Restoring /\ AppliedAsReviewed /\ Excuses
  BY <1>1 DEF Calling, Restoring, AppliedAsReviewed, Excuses, Idle, Running
<1>5. QED
  BY <1>2, <1>3, <1>4 DEF Inv

LEMMA InitInv == Init => Inv
<1>1. SUFFICES ASSUME Init PROVE WorldOK /\ DriverInit
  BY Started
<1>2. CASE PowercapInit(Limits, Powers)
  <2>1. control \in PowerControls /\ DriverInit
    BY <1>2 DEF PowercapInit
  <2>2. PICK packages \in SUBSET Range(Zones), max \in [Range(Zones) -> Limits] :
           fixed = [packages |-> packages, max |-> max, locked |-> FALSE]
    BY <1>2 DEF PowercapInit
  <2>3. fixed.max \in [{"rapl", "mmio"} -> Nat]
    <3>1. fixed.max = max /\ max \in [{"rapl", "mmio"} -> Limits]
      BY <2>2, ZonesAndPolicies
    <3>2. Limits \subseteq Nat
      BY DriversAssumption
    <3>3. QED
      BY <3>1, <3>2
  <2>4. DOMAIN file = {"rapl", "mmio"} /\ present = {"rapl", "mmio"}
    BY <1>2, ZonesAndPolicies DEF PowercapInit
  <2>5. InPowercap /\ ~InPolicy /\ ~InThermal /\ ~InVoltage /\ ~InRatio /\ control \in Controls
    BY <2>1 DEF Controls, PowerControls, InPowercap, InPolicy, InThermal, InVoltage, InRatio
  <2>6. QED
    BY <2>1, <2>3, <2>4, <2>5 DEF WorldOK, Attrs
<1>3. CASE PolicyInit(Offers, Choices)
  BY <1>3, ZonesAndPolicies DEF PolicyInit, WorldOK, Controls, PowerControls, Attrs,
     InPowercap, InPolicy, InThermal, InVoltage, InRatio
<1>4. CASE ThermalInit(TjMax, MaxOffset, Offsets)
  <2>1. control = "tcc" /\ DriverInit /\ present = Attributes
    BY <1>4 DEF ThermalInit
  <2>2. fixed.tjMax = TjMax /\ fixed.maxOffset = MaxOffset
    BY <1>4 DEF ThermalInit
  <2>3. DOMAIN file = Attributes
    BY <1>4 DEF ThermalInit, Attributes
  <2>4. QED
    BY <2>1, <2>2, <2>3 DEF WorldOK, Controls, PowerControls, Attrs,
       InPowercap, InPolicy, InThermal, InVoltage, InRatio
<1>5. CASE VoltageInit(Fields)
  <2>1. PICK f \in Fields : file = [voltage |-> f]
    BY <1>5 DEF VoltageInit
  <2>2. DOMAIN file = {"voltage"} /\ file["voltage"] \in Words
    <3>1. Fields \subseteq Words
      BY DriversAssumption
    <3>2. f \in Words
      BY <3>1
    <3>3. QED
      BY <2>1, <3>2
  <2>3. QED
    BY <1>5, <2>2 DEF VoltageInit, WorldOK, Controls, PowerControls, Attrs,
       InPowercap, InPolicy, InThermal, InVoltage, InRatio
<1>6. CASE RatioInit(RatioTables)
  <2>1. PICK r \in RatioTables : file = [ratios |-> r]
    BY <1>6 DEF RatioInit
  <2>2. DOMAIN file = {"ratios"} /\ file["ratios"] \in Seq(Nat)
    BY <2>1, DriversAssumption
  <2>3. QED
    BY <1>6, <2>2 DEF RatioInit, WorldOK, Controls, PowerControls, Attrs,
       InPowercap, InPolicy, InThermal, InVoltage, InRatio
<1>7. QED
  BY <1>1, <1>2, <1>3, <1>4, <1>5, <1>6 DEF Init

-----------------------------------------------------------------------------
(* What the engine, the user and the hardware do between the steps of a    *)
(* call.                                                                   *)

LEMMA Snapshot ==
    ASSUME ProcessOK, RecordOK
    PROVE  /\ Known \subseteq Tuned /\ Recorded \subseteq Tuned /\ Tuned \subseteq Attrs
           /\ record # None => /\ Len(record) \in Nat /\ DOMAIN record = 1..Len(record)
                               /\ \A k \in DOMAIN record : record[k].path \in Tuned
                               /\ Recorded = {record[k].path : k \in DOMAIN record}
           /\ Sources \in Seq(Tuned)
<1>1. Sources \in Seq(Tuned)
  BY DEF Sources, ProcessOK, Operations
<1>2. Known \subseteq Tuned
  BY <1>1 DEF Known, Range
<1>3. Tuned \subseteq Attrs
  BY DEF Tuned, Attrs, Attributes, InPowercap, InPolicy, InThermal, PowerControls
<1>4. ASSUME record # None
      PROVE  /\ Len(record) \in Nat /\ DOMAIN record = 1..Len(record)
             /\ \A k \in DOMAIN record : record[k].path \in Tuned
             /\ Recorded = {record[k].path : k \in DOMAIN record}
  <2>1. PICK values : record \in Seq(Records(values))
    BY <1>4 DEF RecordOK
  <2>2. /\ Len(record) \in Nat /\ DOMAIN record = 1..Len(record)
        /\ \A k \in DOMAIN record : record[k] \in Records(values)
    BY <2>1
  <2>3. \A k \in DOMAIN record : record[k].path \in Tuned
    BY <2>2 DEF Records
  <2>4. Recorded = {record[k].path : k \in DOMAIN record}
    BY <1>4 DEF Recorded, Range
  <2>5. QED
    BY <2>2, <2>3, <2>4
<1>5. Recorded \subseteq Tuned
  BY <1>4 DEF Recorded
<1>6. QED
  BY <1>1, <1>2, <1>3, <1>4, <1>5

\* A call begins.
LEMMA CallApplyKeeps == ASSUME Inv, CallApply PROVE Inv'
<1>1. /\ Idle /\ op # None /\ record # None /\ last.name = "capture"
      /\ call' = [name |-> "apply", i |-> 1, failed |-> FALSE, cancelled |-> FALSE]
      /\ excused' = (fixed.locked \/ present # DOMAIN file)
      /\ UNCHANGED <<world, process, last, faults, blamed>>
  BY DEF CallApply, NoCall
<1>2. UNCHANGED <<control, fixed, file, present, driver, capability, op, record, wanted, last, blamed>>
  BY <1>1 DEF world, process
<1>3. WorldOK'
  <2>1. WorldOK /\ present' \subseteq Attrs
    BY <1>2 DEF Inv, WorldOK
  <2>2. QED
    BY <1>2, <2>1, WorldKept
<1>4. ProcessOK'
  <2>1. call' \in Calls
    BY <1>1 DEF Calls
  <2>2. QED
    BY <2>1, <1>2, ProcessKept DEF Inv, ProcessOK
<1>5. RecordOK' /\ Asking' /\ Explained' /\ Reporting'
  BY <1>2, RecordKept, AskingKept, ExplainedKept, ReportingKept DEF Inv
<1>6. AppliedAsReviewed'
  BY <1>1, <1>2, AppliedKept DEF Inv
<1>7. Calling'
  <2>1. DOMAIN record = 1..Len(record)
    BY <1>1, Snapshot DEF Inv
  <2>2. QED
    BY <1>1, <1>2, <2>1, SameKind DEF Calling, Idle, Running
<1>8. Restoring'
  BY <1>1, <1>2 DEF Restoring, Idle, Running
<1>9. Excuses'
  BY <1>1, <1>2 DEF Excuses, Idle, Running
<1>10. QED
  BY <1>3, <1>4, <1>5, <1>6, <1>7, <1>8, <1>9 DEF Inv

LEMMA CallRestoreKeeps == ASSUME Inv, CallRestore PROVE Inv'
<1>1. /\ Idle /\ record # None
      /\ last.name = "restore" => ~last.ok
      /\ last.name # "capture"
      /\ call' = [name |-> "restore", i |-> Len(record), failed |-> FALSE, cancelled |-> FALSE]
      /\ excused' = (fixed.locked \/ Known # Recorded \/ present # DOMAIN file)
      /\ UNCHANGED <<world, process, last, faults, blamed>>
  <2>1. last \in {[name |-> "apply", ok |-> TRUE], [name |-> "apply", ok |-> FALSE],
                  [name |-> "restore", ok |-> FALSE], [name |-> "none", ok |-> TRUE]}
    BY DEF CallRestore, Nothing
  <2>2. last.name # "capture" /\ (last.name = "restore" => ~last.ok)
    BY <2>1
  <2>3. QED
    BY <2>2 DEF CallRestore, NoCall
<1>2. UNCHANGED <<control, fixed, file, present, driver, capability, op, record, wanted, last, blamed>>
  BY <1>1 DEF world, process
<1>3. WorldOK'
  <2>1. WorldOK /\ present' \subseteq Attrs
    BY <1>2 DEF Inv, WorldOK
  <2>2. QED
    BY <1>2, <2>1, WorldKept
<1>4. Len(record) \in Nat /\ DOMAIN record = 1..Len(record)
  BY <1>1, Snapshot DEF Inv
<1>5. ProcessOK'
  <2>1. call' \in Calls
    BY <1>1, <1>4 DEF Calls
  <2>2. QED
    BY <2>1, <1>2, ProcessKept DEF Inv, ProcessOK
<1>6. RecordOK' /\ Asking' /\ Explained' /\ Reporting'
  BY <1>2, RecordKept, AskingKept, ExplainedKept, ReportingKept DEF Inv
<1>7. AppliedAsReviewed'
  BY <1>1, <1>2, AppliedKept DEF Inv
<1>8. Calling'
  BY <1>1, <1>2, <1>4, SameKind DEF Calling, Idle, Running
<1>9. Restoring'
  BY <1>1, <1>2, <1>4, SameKind DEF Restoring, Idle, Running
<1>10. Excuses'
  <2>1. Known' = Known /\ Recorded' = Recorded
    BY <1>2 DEF Known, Recorded, Sources
  <2>2. QED
    BY <1>1, <1>2, <2>1 DEF Excuses, Idle, Running
<1>11. QED
  BY <1>3, <1>5, <1>6, <1>7, <1>8, <1>9, <1>10 DEF Inv

LEMMA FinishKeeps == ASSUME Inv, Finish PROVE Inv'
<1>1. /\ Idle /\ record' = None /\ op' = None
      /\ last' = [name |-> "none", ok |-> TRUE]
      /\ UNCHANGED <<control, fixed, file, present, wanted, driver, capability, call, blamed, excused>>
  BY DEF Finish, world, Nothing
<1>2. WorldOK'
  <2>1. WorldOK /\ present' \subseteq Attrs
    BY <1>1 DEF Inv, WorldOK
  <2>2. QED
    BY <1>1, <2>1, WorldKept
<1>3. ProcessOK'
  <2>1. last' \in Ends /\ call' \in Calls
    BY <1>1 DEF Inv, ProcessOK, Ends
  <2>2. QED
    BY <2>1, <1>1, ProcessKept DEF Inv
<1>4. RecordOK' /\ Asking' /\ Explained' /\ Reporting'
  BY <1>1, RecordKept, AskingKept, ExplainedKept, ReportingKept DEF Inv
<1>5. AppliedAsReviewed' /\ Calling' /\ Restoring'
  BY <1>1 DEF AppliedAsReviewed, Calling, Restoring, Idle, Running
<1>6. Excuses'
  BY <1>1 DEF Inv, Excuses, Idle, Running
<1>7. QED
  BY <1>2, <1>3, <1>4, <1>5, <1>6 DEF Inv

LEMMA CancelKeeps == ASSUME Inv, Cancel PROVE Inv'
<1>1. /\ call.name \in {"apply", "restore"}
      /\ call' = [call EXCEPT !.cancelled = TRUE]
      /\ excused' = TRUE
      /\ UNCHANGED <<control, fixed, file, present, driver, capability, op, record, wanted, last, blamed>>
  BY DEF Cancel, Fault, world, process
<1>2. /\ call' \in Calls /\ call'.name = call.name /\ call'.i = call.i /\ call'.failed = call.failed
  BY <1>1 DEF Inv, ProcessOK, Calls
<1>3. WorldOK'
  <2>1. WorldOK /\ present' \subseteq Attrs
    BY <1>1 DEF Inv, WorldOK
  <2>2. QED
    BY <1>1, <2>1, WorldKept
<1>4. ProcessOK'
  <2>1. last' \in Ends
    BY <1>1 DEF Inv, ProcessOK
  <2>2. QED
    BY <2>1, <1>1, <1>2, ProcessKept DEF Inv
<1>5. RecordOK' /\ Asking' /\ Explained' /\ Reporting'
  BY <1>1, RecordKept, AskingKept, ExplainedKept, ReportingKept DEF Inv
<1>6. AppliedAsReviewed'
  BY <1>1, <1>2, AppliedKept DEF Inv
<1>7. Calling' /\ Restoring'
  BY <1>1, <1>2, SameKind DEF Inv, Calling, Restoring, Idle, Running
<1>8. Excuses'
  BY <1>1, <1>2 DEF Inv, Excuses, Idle, Running
<1>9. QED
  BY <1>3, <1>4, <1>5, <1>6, <1>7, <1>8 DEF Inv

LEMMA KillKeeps == ASSUME Inv, Kill PROVE Inv'
<1>1. /\ driver' = Unprobed /\ capability' = None /\ op' = None
      /\ call' = [name |-> "none", i |-> 0, failed |-> FALSE, cancelled |-> FALSE]
      /\ last' = [name |-> "none", ok |-> TRUE]
      /\ excused' = TRUE
      /\ UNCHANGED <<control, fixed, file, present, record, wanted, blamed>>
  BY DEF Kill, Fault, world, NoCall, Nothing
<1>2. WorldOK'
  <2>1. WorldOK /\ present' \subseteq Attrs
    BY <1>1 DEF Inv, WorldOK
  <2>2. QED
    BY <1>1, <2>1, WorldKept
<1>3. ProcessOK'
  <2>1. last' \in Ends /\ call' \in Calls
    BY <1>1 DEF Ends, Calls
  <2>2. driver'.sources = <<>> /\ <<>> \in Seq(Tuned') /\ Injective(<<>>)
    BY <1>1 DEF Unprobed, Injective
  <2>3. QED
    BY <1>1, <2>1, <2>2 DEF ProcessOK
<1>4. RecordOK' /\ Asking' /\ Explained' /\ Reporting'
  BY <1>1, RecordKept, AskingKept, ExplainedKept, ReportingKept DEF Inv
<1>5. AppliedAsReviewed' /\ Calling' /\ Restoring' /\ Excuses'
  BY <1>1 DEF AppliedAsReviewed, Calling, Restoring, Excuses, Idle, Running
<1>6. QED
  BY <1>2, <1>3, <1>4, <1>5 DEF Inv

\* Attributes come and go, and a driver may fail to be probed.
LEMMA OutsideKeeps ==
    ASSUME Inv, ProbeFails \/ \E p \in DOMAIN file : Disappear(p) \/ Reappear(p)
    PROVE  Inv'
<1>1. UNCHANGED <<control, fixed, file, driver, op, record, call, last, wanted, blamed>>
  BY DEF ProbeFails, Disappear, Reappear, world, process
<1>2. capability' \in {capability, None}
  BY DEF ProbeFails, Disappear, Reappear, process
<1>3. /\ present' \subseteq Attrs
      /\ excused' = TRUE \/ (excused' = excused /\ (present' # DOMAIN file => present # DOMAIN file))
  <2>1. CASE ProbeFails
    BY <2>1 DEF ProbeFails, Fault, world, Inv, WorldOK
  <2>2. ASSUME NEW p \in DOMAIN file, Disappear(p) \/ Reappear(p)
        PROVE  /\ present' \subseteq Attrs
               /\ excused' = TRUE \/ (excused' = excused /\ (present' # DOMAIN file => present # DOMAIN file))
    BY <2>2 DEF Disappear, Reappear, Fault, Inv, WorldOK
  <2>3. QED
    BY <2>1, <2>2
<1>4. WorldOK'
  BY <1>1, <1>3, WorldKept DEF Inv
<1>5. ProcessOK'
  <2>1. last' \in Ends /\ call' \in Calls
    BY <1>1 DEF Inv, ProcessOK
  <2>2. QED
    BY <2>1, <1>1, ProcessKept DEF Inv
<1>6. RecordOK' /\ Asking' /\ Explained' /\ Reporting' /\ AppliedAsReviewed'
  BY <1>1, <1>2, RecordKept, AskingKept, ExplainedKept, ReportingKept, AppliedKept DEF Inv
<1>7. Calling' /\ Restoring'
  <2>1. AtCapture' = AtCapture
    BY <1>1 DEF AtCapture
  <2>2. QED
    BY <1>1, <2>1, SameKind DEF Inv, Calling, Restoring, Idle, Running
<1>8. Excuses'
  <2>1. Known' = Known /\ Recorded' = Recorded
    BY <1>1 DEF Known, Recorded, Sources
  <2>2. QED
    BY <1>1, <1>3, <2>1 DEF Inv, Excuses, Idle, Running
<1>9. QED
  BY <1>4, <1>5, <1>6, <1>7, <1>8 DEF Inv

-----------------------------------------------------------------------------
(* Probe, Prepare and Capture, whatever the driver.                        *)

\* A report is as it should be.
LEMMA ProbedKeeps ==
    ASSUME Inv, NEW d, NEW c, Probed(d, c),
           d.sources \in Seq(Tuned), Injective(d.sources),
           c # None => \A v \in Requests : Normalized(c, v) # None =>
                          /\ Accepts(Normalized(c, v))'
                          /\ Fits(Range(d.sources), Normalized(c, v).of)
    PROVE  Inv'
<1>1. /\ Idle /\ op = None /\ driver' = d /\ capability' = c
      /\ UNCHANGED <<control, fixed, file, present, wanted, op, record, call, last, blamed, excused>>
  BY DEF Probed, world
<1>2. WorldOK'
  <2>1. WorldOK /\ present' \subseteq Attrs
    BY <1>1 DEF Inv, WorldOK
  <2>2. QED
    BY <1>1, <2>1, WorldKept
<1>3. ProcessOK'
  BY <1>1, SameKind DEF Inv, ProcessOK
<1>4. RecordOK' /\ Asking' /\ Explained' /\ AppliedAsReviewed'
  BY <1>1, RecordKept, AskingKept, ExplainedKept, AppliedKept DEF Inv
<1>5. Reporting'
  BY <1>1, SameAsking DEF Reporting
<1>6. Calling' /\ Restoring'
  <2>1. AtCapture' = AtCapture
    BY <1>1 DEF AtCapture
  <2>2. QED
    BY <1>1, <2>1, SameKind DEF Inv, Calling, Restoring, Idle, Running
<1>7. Excuses'
  BY <1>1 DEF Inv, Excuses, Idle, Running
<1>8. QED
  BY <1>2, <1>3, <1>4, <1>5, <1>6, <1>7 DEF Inv

\* What is prepared fits the attributes it is for.
LEMMA PreparedKeeps ==
    ASSUME Inv, NEW ps \in Seq(Tuned), NEW v, Prepared(ps, v), Injective(ps),
           Fits(Range(ps), v),
           InRatio => /\ EncodeRatios(file["ratios"], v) # None
                      /\ ValidRatios(DecodeTurboRatios(file["ratios"]))
    PROVE  Inv'
<1>1. /\ Idle /\ op = None /\ record = None
      /\ op' = [sources |-> ps, requested |-> v, captured |-> FALSE]
      /\ last' = [name |-> "none", ok |-> TRUE]
      /\ excused' = (present # DOMAIN file)
      /\ UNCHANGED <<control, fixed, file, present, driver, capability, wanted, record, call, blamed>>
  BY DEF Prepared, world, Nothing
<1>2. op'.sources = ps /\ op'.requested = v /\ op' \in Operations({v})
  BY <1>1 DEF Operations
<1>3. WorldOK'
  <2>1. WorldOK /\ present' \subseteq Attrs
    BY <1>1 DEF Inv, WorldOK
  <2>2. QED
    BY <1>1, <2>1, WorldKept
<1>4. ProcessOK'
  <2>1. last' \in Ends /\ call' \in Calls
    BY <1>1 DEF Ends, Inv, ProcessOK
  <2>2. driver'.sources \in Seq(Tuned') /\ Injective(driver'.sources)
    BY <1>1, SameKind DEF Inv, ProcessOK
  <2>3. \E asked : op' \in Operations(asked)'
    <3>1. op' \in Operations({v})'
      BY <1>1, <1>2, SameKind DEF Operations
    <3>2. QED
      BY <3>1
  <2>4. QED
    BY <1>2, <2>1, <2>2, <2>3 DEF ProcessOK
<1>5. RecordOK' /\ Explained' /\ Calling' /\ AppliedAsReviewed'
  BY <1>1 DEF RecordOK, Explained, Calling, AppliedAsReviewed, Idle, Running
<1>6. Reporting'
  BY <1>1, ReportingKept DEF Inv
<1>7. Asking'
  BY <1>1, <1>2, SameKind, SameAsking DEF Asking
<1>8. Restoring' /\ Excuses'
  BY <1>1 DEF Inv, Restoring, Excuses, Idle, Running
<1>9. QED
  BY <1>3, <1>4, <1>5, <1>6, <1>7, <1>8 DEF Inv

\* A snapshot of what the attributes hold, one record for each.
SnapshotOf(records) ==
    /\ \E values : records \in Seq(Records(values))
    /\ \A k \in DOMAIN records : file[records[k].path] = records[k].value
    /\ \A j, k \in DOMAIN records : records[j].path = records[k].path => j = k
    /\ ~InSys => Len(records) = 1
    /\ InVoltage => records[1].path = "voltage" /\ Restorable(records[1].value)
    /\ InRatio => records[1].path = "ratios"
    /\ InSys => /\ Len(op.sources) = Len(records)
                /\ \A k \in DOMAIN records : records[k].path = op.sources[k]

LEMMA CapturedKeeps ==
    ASSUME Inv, NEW records, op # None, Captured(records), SnapshotOf(records)
    PROVE  Inv'
<1>1. PICK ok \in BOOLEAN :
          /\ Read(Range(op.sources), ok)
          /\ last' = [name |-> "capture", ok |-> ok]
          /\ IF ok THEN /\ record' = records
                        /\ op' = [op EXCEPT !.captured = TRUE]
             ELSE op' = None /\ UNCHANGED record
  BY DEF Captured
<1>2. /\ Idle /\ op # None /\ record = None /\ last.name \in {"none", "capture"}
      /\ wanted' = op.requested /\ blamed' = {}
      /\ UNCHANGED <<control, fixed, file, present, driver, capability, call>>
  BY DEF Captured, world, Inv, Calling
<1>3. PICK asked : op \in Operations(asked)
  BY <1>2 DEF Inv, ProcessOK
<1>4. op' # None => /\ ok /\ record' = records
                    /\ op' \in Operations(asked) /\ op'.sources = op.sources /\ op'.requested = op.requested
  BY <1>1, <1>3 DEF Operations
<1>5. op.sources \in Seq(Tuned) /\ Range(op.sources) \subseteq Attrs /\ DOMAIN op.sources = 1..Len(op.sources)
  <2>1. op.sources \in Seq(Tuned) /\ Tuned \subseteq Attrs
    BY <1>3, Snapshot DEF Operations, Inv
  <2>2. QED
    BY <2>1 DEF Range
<1>6. DOMAIN records = 1..Len(records) /\ Len(records) \in Nat
  BY DEF SnapshotOf
<1>7. record' # None => record' = records
  BY <1>1, <1>2
<1>8. WorldOK'
  <2>1. WorldOK /\ present' \subseteq Attrs
    BY <1>2 DEF Inv, WorldOK
  <2>2. QED
    BY <1>2, <2>1, WorldKept
<1>9. ProcessOK'
  <2>1. last' \in Ends /\ call' \in Calls
    BY <1>1, <1>2 DEF Ends, Inv, ProcessOK
  <2>2. driver'.sources \in Seq(Tuned') /\ Injective(driver'.sources)
    BY <1>2, SameKind DEF Inv, ProcessOK
  <2>3. op' # None => Injective(op'.sources)
    BY <1>2, <1>4 DEF Inv, ProcessOK
  <2>4. op' # None => \E a : op' \in Operations(a)'
    <3>1. Operations(asked)' = Operations(asked)
      BY <1>2, SameKind DEF Operations
    <3>2. QED
      BY <3>1, <1>4
  <2>5. QED
    BY <2>1, <2>2, <2>3, <2>4 DEF ProcessOK
<1>10. RecordOK'
  <2>1. SUFFICES ASSUME record' # None PROVE RecordOK'
    BY DEF RecordOK
  <2>2. PICK values : records \in Seq(Records(values))
    BY DEF SnapshotOf
  <2>3. \E v : record' \in Seq(Records(v)')
    <3>1. Records(values)' = Records(values)
      BY <1>2, SameKind DEF Records
    <3>2. QED
      BY <3>1, <2>1, <2>2, <1>7
  <2>4. InVoltage => records[1].value \in Words
    <3>1. ASSUME InVoltage PROVE file["voltage"] = records[1].value
      BY <3>1, <1>6 DEF SnapshotOf, InVoltage, InSys, InPowercap, InPolicy, PowerControls
    <3>2. InVoltage => file["voltage"] \in Words
      BY DEF Inv, WorldOK
    <3>3. QED
      BY <3>1, <3>2, Zenon
  <2>5. InRatio => records[1].value \in Seq(Nat) /\ ValidRatios(DecodeTurboRatios(records[1].value))
    <3>1. ASSUME InRatio PROVE records[1].value = file["ratios"]
      BY <3>1, <1>6 DEF SnapshotOf, InRatio, InSys, InPowercap, InPolicy, PowerControls
    <3>2. QED
      BY <3>1, <1>2 DEF Inv, WorldOK, Asking
  <2>6. \A j, k \in DOMAIN records : records[j].path = records[k].path => j = k
    BY DEF SnapshotOf
  <2>7. ~InSys => Len(records) = 1
    BY DEF SnapshotOf
  <2>8. InVoltage => Restorable(records[1].value)
    BY DEF SnapshotOf
  <2>9. op' # None /\ InSys => /\ Len(op'.sources) = Len(records)
                               /\ \A k \in DOMAIN records : records[k].path = op'.sources[k]
    BY <1>4 DEF SnapshotOf
  <2>10. QED
    BY <1>2, <1>7, <2>1, <2>3, <2>4, <2>5, <2>6, <2>7, <2>8, <2>9, SameKind DEF RecordOK
<1>11. record' # None => AtCapture' /\ \A k \in DOMAIN record' : file'[record'[k].path] = record'[k].value
  BY <1>2, <1>7 DEF AtCapture, SnapshotOf
<1>12. Fits(Range(op.sources), op.requested)
  BY <1>2 DEF Inv, Asking
<1>13. Asking'
  <2>1. record' # None => Fits(Recorded, wanted)'
    <3>1. ASSUME record' # None PROVE Fits(Recorded', wanted')
      <4>1. Recorded' = {records[k].path : k \in DOMAIN records}
        BY <1>7, <3>1 DEF Recorded, Range
      <4>2. InPowercap => Recorded' \subseteq Range(op.sources)
        BY <4>1, <1>5, <1>6 DEF SnapshotOf, InSys, Range
      <4>3. QED
        BY <1>2, <1>12, <4>2 DEF Fits
    <3>2. QED
      BY <3>1, <1>2, SameKind DEF Fits
  <2>2. op' # None => Fits(Range(op.sources), op.requested)'
    BY <1>2, <1>4, <1>12, SameKind DEF Fits
  <2>3. InRatio /\ op' # None => /\ EncodeRatios(file["ratios"], op'.requested) # None
                                 /\ ValidRatios(DecodeTurboRatios(file["ratios"]))
    BY <1>2, <1>4 DEF Inv, Asking
  <2>4. AtCapture'
    BY <1>11 DEF AtCapture
  <2>5. QED
    BY <1>2, <1>4, <2>1, <2>2, <2>3, <2>4, SameKind DEF Asking
<1>14. Calling'
  <2>1. last'.name = "capture"
    BY <1>1
  <2>2. QED
    BY <1>2, <2>1 DEF Calling, Idle, Running
<1>15. Restoring' /\ AppliedAsReviewed'
  BY <1>1, <1>2 DEF Restoring, AppliedAsReviewed, Idle, Running
<1>16. Explained'
  <2>1. SUFFICES ASSUME record' # None, NEW k \in DOMAIN record'
                 PROVE  \/ InVoltage /\ Between(Units(file["voltage"]), Units(records[1].value), EncodeVoltageOffset(op.requested))
                        \/ ~InVoltage /\ file[record'[k].path] = record'[k].value
    BY <1>2, <1>7, SameKind DEF Explained
  <2>2. CASE ~InVoltage
    BY <2>1, <2>2, <1>2, <1>11
  <2>3. CASE InVoltage
    <3>1. 1 \in DOMAIN records /\ records[1].value = file["voltage"]
      BY <2>3, <1>6 DEF SnapshotOf, InVoltage, InSys, InPowercap, InPolicy, PowerControls
    <3>2. Units(file["voltage"]) \in Int
      <4>1. file["voltage"] \in Words
        BY <2>3 DEF Inv, WorldOK
      <4>2. QED
        BY <4>1, UnitsType
    <3>3. EncodeVoltageOffset(op.requested) \in Int
      <4>1. op.requested \in 128 * MillivoltMin..0
        BY <2>3, <1>12 DEF Fits
      <4>2. QED
        BY <4>1, Encoded
    <3>4. QED
      BY <2>3, <3>1, <3>2, <3>3 DEF Between
  <2>4. QED
    BY <2>2, <2>3
<1>17. Reporting'
  BY <1>2, ReportingKept DEF Inv
<1>18. Excuses'
  <2>1. DOMAIN file = Attrs
    BY DEF Inv, WorldOK
  <2>2. /\ excused => excused'
        /\ ~ok => excused' \/ (present # Attrs /\ (excused' <=> excused))
    BY <1>1, <1>5, Reads DEF Inv
  <2>3. present # DOMAIN file => excused
    BY <1>2 DEF Inv, Excuses
  <2>4. QED
    BY <1>1, <1>2, <2>1, <2>2, <2>3 DEF Excuses, Idle, Running
<1>19. QED
  BY <1>8, <1>9, <1>10, <1>13, <1>14, <1>15, <1>16, <1>17, <1>18 DEF Inv

\* The voltage driver refuses what it could not restore exactly.
LEMMA RefusedKeeps ==
    ASSUME Inv, Idle, record = None, op' = None,
           UNCHANGED <<world, driver, capability, record, call, last, faults, wanted, blamed, excused>>
    PROVE  Inv'
<1>1. UNCHANGED <<control, fixed, file, present, driver, capability, record, call, last, wanted, blamed, excused>>
  BY DEF world
<1>2. WorldOK'
  <2>1. WorldOK /\ present' \subseteq Attrs
    BY <1>1 DEF Inv, WorldOK
  <2>2. QED
    BY <1>1, <2>1, WorldKept
<1>3. ProcessOK'
  <2>1. last' \in Ends /\ call' \in Calls
    BY <1>1 DEF Inv, ProcessOK
  <2>2. QED
    BY <2>1, <1>1, ProcessKept DEF Inv
<1>4. RecordOK' /\ Asking' /\ Explained' /\ Reporting' /\ AppliedAsReviewed'
  BY <1>1, RecordKept, AskingKept, ExplainedKept, ReportingKept, AppliedKept DEF Inv
<1>5. Calling' /\ Restoring'
  <2>1. AtCapture' = AtCapture
    BY <1>1 DEF AtCapture
  <2>2. QED
    BY <1>1, <2>1, SameKind DEF Inv, Calling, Restoring, Idle, Running
<1>6. Excuses'
  BY <1>1 DEF Inv, Excuses, Idle, Running
<1>7. QED
  BY <1>2, <1>3, <1>4, <1>5, <1>6 DEF Inv

-----------------------------------------------------------------------------
(* What every step of a running call has in common.                        *)

LEMMA OneKind ==
    /\ InSys => ~InThermal /\ ~InVoltage /\ ~InRatio
    /\ InThermal => ~InSys /\ ~InPowercap /\ ~InPolicy /\ ~InVoltage /\ ~InRatio
    /\ InVoltage => ~InSys /\ ~InPowercap /\ ~InPolicy /\ ~InThermal /\ ~InRatio
    /\ InRatio => ~InSys /\ ~InPowercap /\ ~InPolicy /\ ~InThermal /\ ~InVoltage
BY DEF InSys, InPowercap, InPolicy, InThermal, InVoltage, InRatio, PowerControls

LEMMA AskedOf ==
    ASSUME NEW r
    PROVE  /\ InSys => Asked(r) = wanted
           /\ InThermal => Asked(r) = fixed.tjMax - wanted
           /\ InRatio => Asked(r) = [k \in DOMAIN r.value |->
                                        IF k \in DOMAIN wanted THEN wanted[k] ELSE r.value[k]]
<1>1. InSys => Asked(r) = wanted
  BY OneKind, Zenon DEF Asked
<1>2. InThermal => Asked(r) = fixed.tjMax - wanted
  BY OneKind, Zenon DEF Asked
<1>3. InRatio => Asked(r) = [k \in DOMAIN r.value |->
                                IF k \in DOMAIN wanted THEN wanted[k] ELSE r.value[k]]
  BY OneKind, Zenon DEF Asked
<1>4. QED
  BY <1>1, <1>2, <1>3

LEMMA CallStep ==
    ASSUME Inv, UNCHANGED <<control, fixed, present, process>>,
           DOMAIN file' = DOMAIN file, InVoltage => file'["voltage"] \in Words,
           InRatio => file'["ratios"] \in Seq(Nat) /\ last'.name \in {"apply", "restore"},
           call' \in Calls, last' \in Ends
    PROVE  WorldOK' /\ ProcessOK' /\ RecordOK' /\ Asking' /\ Reporting'
<1>1. UNCHANGED <<control, fixed, present, driver, capability, op, record, wanted>>
  BY DEF process
<1>2. WorldOK'
  BY <1>1, SameKind DEF Inv, WorldOK
<1>3. ProcessOK' /\ RecordOK' /\ Reporting'
  BY <1>1, ProcessKept, RecordKept, ReportingKept DEF Inv
<1>4. Asking'
  <2>1. Recorded' = Recorded
    BY <1>1 DEF Recorded
  <2>2. QED
    BY <1>1, <2>1, SameKind, SameAsking DEF Inv, Asking
<1>5. QED
  BY <1>2, <1>3, <1>4

\* What AppliedAsReviewed says of the attributes.
Reviewed ==
    \A k \in DOMAIN record :
        LET r == record[k]
        IN /\ IF InVoltage THEN Near(Units(file[r.path]), wanted) ELSE file[r.path] = Asked(r)
           /\ InPowercap => file[r.path] <= fixed.max[r.path]

LEMMA OutcomeType ==
    ASSUME Inv, ~Idle, NEW ok \in BOOLEAN, Outcome(ok)
    PROVE  /\ call' \in Calls /\ last' \in Ends /\ Idle' /\ last'.ok = ok
           /\ last'.name = IF Running("restore") THEN "restore" ELSE "apply"
<1>1. call.name \in {"none", "apply", "undo", "restore"}
  BY DEF Inv, ProcessOK, Calls
<1>2. QED
  BY <1>1 DEF Outcome, NoCall, Calls, Ends, Idle, Running

\* A call returns; the last write may still be in it.
LEMMA EndKeeps ==
    ASSUME Inv, ~Idle, NEW ok \in BOOLEAN, Outcome(ok),
           UNCHANGED <<control, fixed, present, process>>,
           DOMAIN file' = DOMAIN file, InVoltage => file'["voltage"] \in Words,
           InRatio => file'["ratios"] \in Seq(Nat),
           Explained',
           excused => excused',
           ~ok => excused',
           ok => (Running("apply") /\ Reviewed') \/ (Running("restore") /\ AtCapture')
    PROVE  Inv'
<1>1. UNCHANGED <<control, fixed, present, driver, capability, op, record, wanted>>
  BY DEF process
<1>2. /\ call' \in Calls /\ last' \in Ends /\ Idle' /\ last'.ok = ok
      /\ last'.name = IF Running("restore") THEN "restore" ELSE "apply"
  BY OutcomeType
<1>3. WorldOK' /\ ProcessOK' /\ RecordOK' /\ Asking' /\ Reporting'
  BY <1>2, CallStep
<1>4. call'.name = "none"
  BY <1>2 DEF Idle, Running
<1>5. Calling'
  <2>1. record # None
    BY DEF Inv, Calling
  <2>2. QED
    BY <1>1, <1>2, <1>4, <2>1 DEF Calling, Idle, Running
<1>6. Restoring'
  <2>1. last'.name = "restore" /\ last'.ok => AtCapture'
    BY <1>2 DEF Running
  <2>2. QED
    BY <1>2, <1>4, <2>1 DEF Restoring, Running
<1>7. AppliedAsReviewed'
  <2>1. SUFFICES ASSUME ok, Running("apply") PROVE AppliedAsReviewed'
    <3>1. ~(ok /\ Running("apply")) => ~(last'.name = "apply" /\ last'.ok = TRUE)
      BY <1>2 DEF Running
    <3>2. ~(ok /\ Running("apply")) => ~(last' = [name |-> "apply", ok |-> TRUE])
      BY <3>1
    <3>3. QED
      BY <3>2 DEF AppliedAsReviewed
  <2>2. Reviewed'
    BY <2>1 DEF Running
  <2>3. QED
    BY <2>2 DEF Reviewed, AppliedAsReviewed
<1>8. Excuses'
  <2>1. present # DOMAIN file => excused
    BY DEF Inv, Excuses
  <2>2. QED
    BY <1>1, <1>2, <1>4, <2>1 DEF Excuses, Idle, Running
<1>9. QED
  BY <1>3, <1>5, <1>6, <1>7, <1>8 DEF Inv

\* A call returns without a write.
LEMMA ReturnKeeps ==
    ASSUME Inv, ~Idle, NEW ok \in BOOLEAN, Outcome(ok),
           UNCHANGED <<control, fixed, file, present, process, blamed>>,
           excused => excused',
           ~ok => excused',
           ok => (Running("apply") /\ Reviewed) \/ (Running("restore") /\ AtCapture)
    PROVE  Inv'
<1>1. UNCHANGED <<control, fixed, file, record, wanted, blamed>>
  BY DEF process
<1>2. InVoltage => file'["voltage"] \in Words
  BY <1>1 DEF Inv, WorldOK
<1>3. InRatio => file'["ratios"] \in Seq(Nat)
  BY <1>1 DEF Inv, WorldOK
<1>4. Explained'
  BY <1>1, ExplainedKept DEF Inv
<1>5. AtCapture' = AtCapture
  BY <1>1 DEF AtCapture
<1>6. Reviewed => Reviewed'
  BY <1>1, SameKind, SameAsking DEF Reviewed
<1>7. ok => (Running("apply") /\ Reviewed') \/ (Running("restore") /\ AtCapture')
  BY <1>5, <1>6
<1>8. QED
  BY <1>1, <1>2, <1>3, <1>4, <1>7, EndKeeps

-----------------------------------------------------------------------------
(* The drivers of sysfs attributes: power limits and preferences.          *)

LEMMA Looping ==
    ASSUME Inv, ~Idle
    PROVE  /\ record # None /\ DOMAIN record = 1..Len(record) /\ Len(record) \in Nat /\ call.i \in Nat
           /\ \A k \in DOMAIN record : record[k].path \in Attrs
           /\ Running("apply") \/ Running("undo") => op # None /\ Sources = op.sources /\ op.requested = wanted
           /\ op # None /\ InSys => Len(op.sources) = Len(record) /\ \A k \in DOMAIN record : record[k].path = op.sources[k]
           /\ present # DOMAIN file => excused
           /\ DOMAIN file = Attrs
<1>1. record # None /\ (Running("apply") \/ Running("undo") => op # None)
  BY DEF Inv, Calling
<1>2. DOMAIN record = 1..Len(record) /\ Len(record) \in Nat /\ \A k \in DOMAIN record : record[k].path \in Attrs
  BY <1>1, Snapshot DEF Inv
<1>3. op # None => Sources = op.sources /\ op.requested = wanted
  BY <1>1 DEF Sources, Inv, Asking
<1>4. op # None /\ InSys => Len(op.sources) = Len(record) /\ \A k \in DOMAIN record : record[k].path = op.sources[k]
  BY <1>1 DEF Inv, RecordOK
<1>5. (present # DOMAIN file => excused) /\ DOMAIN file = Attrs /\ call.i \in Nat
  BY DEF Inv, Excuses, WorldOK, ProcessOK, Calls
<1>6. QED
  BY <1>1, <1>2, <1>3, <1>4, <1>5

\* One write of a loop: to attribute k, what is asked for or what was captured.
LEMMA LoopWrite ==
    ASSUME Inv, ~Idle, InSys, NEW k \in DOMAIN record, NEW v, NEW ok \in BOOLEAN,
           Write(record[k].path, v, ok), v \in {wanted, record[k].value},
           UNCHANGED <<control, fixed, present, process, last>>,
           call' \in Calls
    PROVE  /\ WorldOK' /\ ProcessOK' /\ RecordOK' /\ Asking' /\ Reporting' /\ Explained'
           /\ DOMAIN file' = DOMAIN file
           /\ \A j \in DOMAIN record : j # k => file'[record[j].path] = file[record[j].path]
           /\ ok => file'[record[k].path] = v
           /\ file[record[k].path] = v => file'[record[k].path] = v
           /\ excused => excused'
           /\ ~ok => excused'
<1> DEFINE p == record[k].path
<1>1. p \in Attrs /\ record # None /\ DOMAIN record = 1..Len(record)
  BY Looping
<1>2. UNCHANGED <<control, fixed, present, driver, capability, op, record, wanted>>
  BY DEF process
<1>3. /\ DOMAIN file' = DOMAIN file
      /\ \A q \in Attrs \ {p} : file'[q] = file[q]
      /\ file[p] = v => file'[p] = v
      /\ ok => file'[p] = v /\ blamed' = blamed
      /\ ~ok => blamed' = blamed \cup {p}
      /\ excused => excused'
      /\ ~ok => excused' \/ (present # Attrs /\ (excused' <=> excused))
  BY <1>1, Writes DEF Inv
<1>4. ~InVoltage /\ ~InRatio /\ ~InThermal
  BY OneKind
<1>5. last' \in Ends
  BY DEF Inv, ProcessOK
<1>6. WorldOK' /\ ProcessOK' /\ RecordOK' /\ Asking' /\ Reporting'
  BY <1>2, <1>3, <1>4, <1>5, CallStep
<1>7. \A j \in DOMAIN record : j # k => record[j].path \in Attrs \ {p}
  BY <1>1, Looping DEF Inv, RecordOK
<1>8. Explained'
  <2>1. SUFFICES ASSUME NEW j \in DOMAIN record
                 PROVE  record[j].path \in blamed' \/ file'[record[j].path] \in {record[j].value, wanted}
    BY <1>2, <1>4, AskedOf, SameKind, SameAsking DEF Explained
  <2>2. record[j].path \in blamed \/ file[record[j].path] \in {record[j].value, wanted}
    BY <1>1, <1>4, AskedOf DEF Inv, Explained
  <2>3. blamed \subseteq blamed'
    BY <1>3
  <2>4. CASE j # k
    BY <2>2, <2>3, <2>4, <1>3, <1>7
  <2>5. CASE j = k /\ ok
    BY <2>5, <1>3
  <2>6. CASE j = k /\ ~ok
    BY <2>6, <1>3
  <2>7. QED
    BY <2>4, <2>5, <2>6
<1>9. ~ok => excused'
  <2>1. present # Attrs => excused
    BY Looping
  <2>2. QED
    BY <2>1, <1>3
<1>10. QED
  BY <1>3, <1>6, <1>7, <1>8, <1>9

\* rollbackWritten is entered.
UndoFrom(count) == call' = [call EXCEPT !.name = "undo", !.i = count]

LEMMA UndoType ==
    ASSUME call \in Calls, NEW i \in Nat, UndoFrom(i)
    PROVE  call' \in Calls /\ call'.name = "undo" /\ call'.i = i
BY DEF Calls, UndoFrom

LEMMA ForthType ==
    ASSUME call \in Calls, call' = [call EXCEPT !.i = @ + 1]
    PROVE  /\ call' \in Calls /\ call'.name = call.name /\ call'.i = call.i + 1
           /\ call'.cancelled = call.cancelled /\ call'.failed = call.failed
<1>1. call'.i = call.i + 1
  BY Zenon DEF Calls
<1>2. call'.cancelled = call.cancelled /\ call'.name = call.name /\ call'.failed = call.failed
  BY Zenon DEF Calls
<1>3. call' = [name |-> call'.name, i |-> call'.i, failed |-> call'.failed, cancelled |-> call'.cancelled]
  BY Zenon DEF Calls
<1>4. call' \in Calls
  BY <1>1, <1>2, <1>3 DEF Calls
<1>5. QED
  BY <1>1, <1>2, <1>4

LEMMA BackType ==
    ASSUME call \in Calls, call.i > 0, NEW ok \in BOOLEAN,
           \/ call' = [call EXCEPT !.i = @ - 1, !.failed = @ \/ ~ok]
           \/ call' = [call EXCEPT !.i = @ - 1]
    PROVE  /\ call' \in Calls /\ call'.name = call.name /\ call'.i = call.i - 1
           /\ call'.cancelled = call.cancelled
           /\ call'.failed => call.failed \/ ~ok
           /\ call' = [call EXCEPT !.i = @ - 1, !.failed = @ \/ ~ok] => (~call'.failed => ~call.failed /\ ok)
<1> DEFINE both == call' = [call EXCEPT !.i = @ - 1, !.failed = @ \/ ~ok]
           one == call' = [call EXCEPT !.i = @ - 1]
<1>1. call'.i = call.i - 1
  BY Zenon DEF Calls
<1>2. call'.cancelled = call.cancelled /\ call'.name = call.name
  BY Zenon DEF Calls
<1>3. both => call'.failed = (call.failed \/ ~ok)
  BY Zenon DEF Calls
<1>4. one => call'.failed = call.failed
  BY Zenon DEF Calls
<1>5. call' = [name |-> call'.name, i |-> call'.i, failed |-> call'.failed, cancelled |-> call'.cancelled]
  BY Zenon DEF Calls
<1>6. call'.failed \in BOOLEAN
  <2>1. call.failed \in BOOLEAN /\ (call.failed \/ ~ok) \in BOOLEAN
    BY DEF Calls
  <2>2. QED
    BY <2>1, <1>3, <1>4, Zenon
<1>7. call' \in Calls
  <2>1. call.i - 1 \in Nat /\ call.name \in {"none", "apply", "undo", "restore"} /\ call.cancelled \in BOOLEAN
    BY DEF Calls
  <2>2. call'.i \in Nat /\ call'.name \in {"none", "apply", "undo", "restore"} /\ call'.cancelled \in BOOLEAN
    BY <2>1, <1>1, <1>2, Zenon
  <2>3. QED
    BY <2>2, <1>5, <1>6, Zenon DEF Calls
<1>8. (call'.failed => call.failed \/ ~ok) /\ (both => (~call'.failed => ~call.failed /\ ok))
  BY <1>3, <1>4, Zenon
<1>9. QED
  BY <1>1, <1>2, <1>7, <1>8, Zenon

\* The loop of Apply ends early: what it has written is undone.
LEMMA UndoBegins ==
    ASSUME Inv, InSys, Running("apply"), call.i <= Len(Sources), excused',
           UndoFrom(call.i - 1),
           UNCHANGED <<control, fixed, present, process, last>>
    PROVE  /\ call' \in Calls
           /\ Calling' /\ Restoring' /\ AppliedAsReviewed' /\ Excuses'
<1>1. ~Idle
  BY DEF Idle, Running
<1>2. UNCHANGED <<control, fixed, present, driver, capability, op, record, wanted>>
  BY DEF process
<1>3. call.i \in Nat /\ call.i >= 1 /\ call.i <= Len(record) /\ Len(record) \in Nat /\ op # None /\ record # None
  BY <1>1, Looping DEF Inv, Calling
<1>4. call' \in Calls /\ call'.name = "undo" /\ call'.i <= Len(record)
  BY <1>3, UndoType DEF Inv, ProcessOK
<1>5. Calling' /\ AppliedAsReviewed' /\ Excuses'
  BY <1>2, <1>3, <1>4 DEF Calling, AppliedAsReviewed, Excuses, Idle, Running
<1>6. last.name = "capture"
  BY DEF Inv, Calling
<1>7. Restoring'
  BY <1>4, <1>6 DEF Restoring, Running
<1>8. QED
  BY <1>4, <1>5, <1>7

\* operation.Apply, and what it returns.
SysApply ==
    /\ InSys /\ Running("apply")
    /\ \/ /\ call.i <= Len(Sources) /\ call.cancelled
          /\ UndoFrom(call.i - 1)
          /\ UNCHANGED <<file, last, blamed, excused>>
       \/ /\ call.i <= Len(Sources) /\ ~call.cancelled
          /\ \E ok \in BOOLEAN :
                /\ Write(Sources[call.i], op.requested, ok)
                /\ IF ok THEN call' = [call EXCEPT !.i = @ + 1]
                         ELSE UndoFrom(call.i - 1)
          /\ UNCHANGED last
       \/ /\ call.i > Len(Sources)
          /\ \E ok \in BOOLEAN : Outcome(ok) /\ (~ok => excused')
          /\ excused => excused'
          /\ UNCHANGED <<file, blamed>>
    /\ UNCHANGED <<control, fixed, present, process>>

LEMMA SysApplyKeeps == ASSUME Inv, SysApply PROVE Inv'
<1>1. /\ InSys /\ Running("apply") /\ ~Idle
      /\ UNCHANGED <<control, fixed, present, process>>
  BY DEF SysApply, Idle, Running
<1>2. UNCHANGED <<control, fixed, present, driver, capability, op, record, wanted>>
  BY <1>1 DEF process
<1>3. /\ record # None /\ DOMAIN record = 1..Len(record) /\ Len(record) \in Nat
      /\ op # None /\ Sources = op.sources /\ op.requested = wanted /\ Len(op.sources) = Len(record)
      /\ \A k \in DOMAIN record : record[k].path = op.sources[k]
  BY <1>1, Looping
<1>4. call.i \in Nat /\ call.i >= 1 /\ last.name = "capture"
  BY <1>1, Looping DEF Inv, Calling
<1>5. CASE /\ call.i <= Len(Sources) /\ call.cancelled
           /\ UndoFrom(call.i - 1)
           /\ UNCHANGED <<file, last, blamed, excused>>
  <2>1. excused'
    BY <1>1, <1>5 DEF Inv, Excuses
  <2>2. /\ call' \in Calls
        /\ Calling' /\ Restoring' /\ AppliedAsReviewed' /\ Excuses'
    BY <1>1, <1>5, <2>1, UndoBegins
  <2>3. Explained'
    BY <1>2, <1>5, ExplainedKept DEF Inv
  <2>4. WorldOK' /\ ProcessOK' /\ RecordOK' /\ Asking' /\ Reporting'
    <3>1. ~InVoltage /\ ~InRatio /\ last' \in Ends
      BY <1>1, <1>5, OneKind DEF Inv, ProcessOK
    <3>2. QED
      BY <1>1, <1>5, <2>2, <3>1, CallStep
  <2>5. QED
    BY <2>2, <2>3, <2>4 DEF Inv
<1>6. ASSUME call.i <= Len(Sources), ~call.cancelled, last' = last, NEW ok \in BOOLEAN,
             Write(Sources[call.i], op.requested, ok),
             IF ok THEN call' = [call EXCEPT !.i = @ + 1]
                   ELSE UndoFrom(call.i - 1)
      PROVE  Inv'
  <2>1. call.i \in DOMAIN record /\ Sources[call.i] = record[call.i].path
    BY <1>3, <1>4, <1>6
  <2>2. Write(record[call.i].path, wanted, ok)
    BY <2>1, <1>3, <1>6
  <2>3. /\ call' \in Calls
        /\ ok => call'.name = "apply" /\ call'.i = call.i + 1 /\ call'.cancelled = call.cancelled /\ call'.failed = call.failed
    <3>1. call \in Calls /\ call.name = "apply" /\ call.i - 1 \in Nat
      BY <1>1, <1>4 DEF Inv, ProcessOK, Running
    <3>2. CASE ok
      BY <1>6, <3>1, <3>2, ForthType
    <3>3. CASE ~ok
      BY <1>6, <3>1, <3>3, UndoType
    <3>4. QED
      BY <3>2, <3>3
  <2>4. /\ WorldOK' /\ ProcessOK' /\ RecordOK' /\ Asking' /\ Reporting' /\ Explained'
        /\ DOMAIN file' = DOMAIN file
        /\ \A j \in DOMAIN record : j # call.i => file'[record[j].path] = file[record[j].path]
        /\ ok => file'[record[call.i].path] = wanted
        /\ excused => excused'
        /\ ~ok => excused'
    <3>1. PICK k : k = call.i
      OBVIOUS
    <3>2. PICK v : v = wanted
      OBVIOUS
    <3>3. k \in DOMAIN record /\ v \in {wanted, record[k].value} /\ Write(record[k].path, v, ok)
      BY <2>1, <2>2, <3>1, <3>2
    <3>4. UNCHANGED <<control, fixed, present, process, last>> /\ call' \in Calls /\ ~Idle /\ InSys
      BY <1>1, <1>6, <2>3
    <3>5. /\ WorldOK' /\ ProcessOK' /\ RecordOK' /\ Asking' /\ Reporting' /\ Explained'
          /\ DOMAIN file' = DOMAIN file
          /\ \A j \in DOMAIN record : j # k => file'[record[j].path] = file[record[j].path]
          /\ ok => file'[record[k].path] = v
          /\ excused => excused'
          /\ ~ok => excused'
      BY <3>3, <3>4, LoopWrite
    <3>6. QED
      BY <3>1, <3>2, <3>5
  <2>5. CASE ~ok
    <3>1. Calling' /\ Restoring' /\ AppliedAsReviewed' /\ Excuses'
      BY <1>1, <1>6, <2>4, <2>5, UndoBegins
    <3>2. QED
      BY <2>4, <3>1 DEF Inv
  <2>6. CASE ok
    <3>1. call'.name = "apply" /\ call'.i = call.i + 1
      BY <2>3, <2>6
    <3>2. Calling'
      <4>1. \A k \in DOMAIN record : k < call.i + 1 => file'[record[k].path] = wanted
        BY <1>1, <1>3, <1>4, <2>1, <2>4, <2>6 DEF Inv, Calling
      <4>2. QED
        BY <1>2, <1>3, <1>4, <1>6, <3>1, <4>1 DEF Calling, Idle, Running
    <3>3. Restoring' /\ AppliedAsReviewed'
      BY <1>4, <1>6, <3>1 DEF Restoring, AppliedAsReviewed, Idle, Running
    <3>4. Excuses'
      BY <1>1, <1>2, <2>3, <2>4, <2>6, <3>1 DEF Inv, Excuses, Idle, Running
    <3>5. QED
      BY <2>4, <3>2, <3>3, <3>4 DEF Inv
  <2>7. QED
    BY <2>5, <2>6
<1>7. ASSUME call.i > Len(Sources), excused => excused', UNCHANGED <<file, blamed>>,
             NEW ok \in BOOLEAN, Outcome(ok), ~ok => excused'
      PROVE  Inv'
  <2>1. \A k \in DOMAIN record : file[record[k].path] = wanted
    BY <1>1, <1>3, <1>4, <1>7 DEF Inv, Calling
  <2>2. InPowercap => \A k \in DOMAIN record : wanted <= fixed.max[record[k].path]
    <3>1. Recorded = {record[k].path : k \in DOMAIN record} /\ Fits(Recorded, wanted)
      BY <1>3, Snapshot DEF Inv, Asking
    <3>2. QED
      BY <3>1 DEF Fits
  <2>3. Reviewed
    BY <1>1, <2>1, <2>2, AskedOf, OneKind DEF Reviewed
  <2>4. QED
    BY <1>1, <1>7, <2>3, ReturnKeeps
<1>8. QED
  BY <1>5, <1>6, <1>7 DEF SysApply

\* rollbackWritten.
SysUndo ==
    /\ InSys /\ Running("undo")
    /\ \/ /\ call.i > 0
          /\ \E ok \in BOOLEAN : Write(record[call.i].path, record[call.i].value, ok)
          /\ call' = [call EXCEPT !.i = @ - 1]
          /\ UNCHANGED last
       \/ /\ call.i = 0
          /\ Outcome(FALSE)
          /\ UNCHANGED <<file, blamed, excused>>
    /\ UNCHANGED <<control, fixed, present, process>>

LEMMA SysUndoKeeps == ASSUME Inv, SysUndo PROVE Inv'
<1>1. /\ InSys /\ Running("undo") /\ ~Idle
      /\ UNCHANGED <<control, fixed, present, process>>
  BY DEF SysUndo, Idle, Running
<1>2. UNCHANGED <<control, fixed, present, driver, capability, op, record, wanted>>
  BY <1>1 DEF process
<1>3. /\ record # None /\ DOMAIN record = 1..Len(record) /\ Len(record) \in Nat /\ call.i \in Nat
      /\ op # None /\ call.i <= Len(record) /\ excused
  BY <1>1, Looping DEF Inv, Calling, Excuses
<1>4. ASSUME call.i > 0, NEW ok \in BOOLEAN, Write(record[call.i].path, record[call.i].value, ok),
             call' = [call EXCEPT !.i = @ - 1], last' = last
      PROVE  Inv'
  <2>1. call' \in Calls /\ call'.name = call.name /\ call'.i = call.i - 1
    BY <1>4, BackType DEF Inv, ProcessOK
  <2>2. /\ WorldOK' /\ ProcessOK' /\ RecordOK' /\ Asking' /\ Reporting' /\ Explained'
        /\ excused => excused'
    <3>1. PICK k : k = call.i
      OBVIOUS
    <3>2. PICK v : v = record[k].value
      OBVIOUS
    <3>3. k \in DOMAIN record /\ v \in {wanted, record[k].value} /\ Write(record[k].path, v, ok)
      BY <1>3, <1>4, <3>1, <3>2
    <3>4. UNCHANGED <<control, fixed, present, process, last>> /\ call' \in Calls /\ ~Idle /\ InSys
      BY <1>1, <1>4, <2>1
    <3>5. QED
      BY <3>3, <3>4, LoopWrite
  <2>3. Calling' /\ AppliedAsReviewed' /\ Excuses'
    BY <1>1, <1>2, <1>3, <1>4, <2>1, <2>2 DEF Inv, Calling, AppliedAsReviewed, Excuses, Idle, Running
  <2>4. Restoring'
    BY <1>1, <1>4, <2>1 DEF Inv, Restoring, Idle, Running
  <2>5. QED
    BY <2>2, <2>3, <2>4 DEF Inv
<1>5. CASE call.i = 0 /\ Outcome(FALSE) /\ UNCHANGED <<file, blamed, excused>>
  BY <1>1, <1>3, <1>5, ReturnKeeps
<1>6. QED
  BY <1>1, <1>4, <1>5 DEF SysUndo

\* operation.Restore.
SysRestore ==
    /\ InSys /\ Running("restore")
    /\ \/ /\ excused
          /\ Outcome(FALSE)
          /\ UNCHANGED <<file, blamed, excused>>
       \/ /\ call.i > 0
          /\ \E ok \in BOOLEAN :
                /\ Write(record[call.i].path, record[call.i].value, ok)
                /\ call' = [call EXCEPT !.i = @ - 1, !.failed = @ \/ ~ok]
          /\ UNCHANGED last
       \/ /\ call.i = 0 /\ ~call.failed
          /\ \E ok \in BOOLEAN : Outcome(ok) /\ (~ok => excused')
          /\ excused => excused'
          /\ UNCHANGED <<file, blamed>>
    /\ UNCHANGED <<control, fixed, present, process>>

LEMMA SysRestoreKeeps == ASSUME Inv, SysRestore PROVE Inv'
<1>1. /\ InSys /\ Running("restore") /\ ~Idle
      /\ UNCHANGED <<control, fixed, present, process>>
  BY DEF SysRestore, Idle, Running
<1>2. UNCHANGED <<control, fixed, present, driver, capability, op, record, wanted>>
  BY <1>1 DEF process
<1>3. /\ record # None /\ DOMAIN record = 1..Len(record) /\ Len(record) \in Nat /\ call.i \in Nat
      /\ call.i <= Len(record)
  BY <1>1, Looping DEF Inv, Calling
<1>4. CASE excused /\ Outcome(FALSE) /\ UNCHANGED <<file, blamed, excused>>
  BY <1>1, <1>4, ReturnKeeps
<1>5. ASSUME call.i > 0, NEW ok \in BOOLEAN, Write(record[call.i].path, record[call.i].value, ok),
             call' = [call EXCEPT !.i = @ - 1, !.failed = @ \/ ~ok], last' = last
      PROVE  Inv'
  <2>1. /\ call' \in Calls /\ call'.name = call.name /\ call'.i = call.i - 1
        /\ call'.cancelled = call.cancelled
        /\ call'.failed => call.failed \/ ~ok
        /\ ~call'.failed => ~call.failed /\ ok
    BY <1>5, BackType DEF Inv, ProcessOK
  <2>2. /\ WorldOK' /\ ProcessOK' /\ RecordOK' /\ Asking' /\ Reporting' /\ Explained'
        /\ DOMAIN file' = DOMAIN file
        /\ \A j \in DOMAIN record : j # call.i => file'[record[j].path] = file[record[j].path]
        /\ ok => file'[record[call.i].path] = record[call.i].value
        /\ excused => excused'
        /\ ~ok => excused'
    <3>1. PICK k : k = call.i
      OBVIOUS
    <3>2. PICK v : v = record[k].value
      OBVIOUS
    <3>3. k \in DOMAIN record /\ v \in {wanted, record[k].value} /\ Write(record[k].path, v, ok)
      BY <1>3, <1>5, <3>1, <3>2
    <3>4. UNCHANGED <<control, fixed, present, process, last>> /\ call' \in Calls /\ ~Idle /\ InSys
      BY <1>1, <1>5, <2>1
    <3>5. /\ WorldOK' /\ ProcessOK' /\ RecordOK' /\ Asking' /\ Reporting' /\ Explained'
          /\ DOMAIN file' = DOMAIN file
          /\ \A j \in DOMAIN record : j # k => file'[record[j].path] = file[record[j].path]
          /\ ok => file'[record[k].path] = v
          /\ excused => excused'
          /\ ~ok => excused'
      BY <3>3, <3>4, LoopWrite
    <3>6. QED
      BY <3>1, <3>2, <3>5
  <2>3. Calling' /\ AppliedAsReviewed'
    BY <1>1, <1>2, <1>3, <1>5, <2>1 DEF Inv, Calling, AppliedAsReviewed, Idle, Running
  <2>4. Excuses'
    <3>1. Known' = Known /\ Recorded' = Recorded
      BY <1>2 DEF Known, Recorded, Sources
    <3>2. QED
      BY <1>1, <1>2, <1>5, <2>1, <2>2, <3>1 DEF Inv, Excuses, Idle, Running
  <2>5. Restoring'
    <3>1. ~call'.failed => \A j \in DOMAIN record : j > call.i - 1 => file'[record[j].path] = record[j].value
      <4>1. SUFFICES ASSUME ~call'.failed, NEW j \in DOMAIN record, j > call.i - 1
                     PROVE  file'[record[j].path] = record[j].value
        OBVIOUS
      <4>2. ok /\ ~call.failed
        BY <2>1, <4>1
      <4>3. CASE j = call.i
        BY <2>2, <4>2, <4>3
      <4>4. CASE j # call.i
        <5>1. j > call.i
          BY <1>3, <4>1, <4>4
        <5>2. file[record[j].path] = record[j].value
          BY <1>1, <4>2, <5>1 DEF Inv, Restoring
        <5>3. QED
          BY <2>2, <4>4, <5>2
      <4>5. QED
        BY <4>3, <4>4
    <3>2. ~(last.name = "restore" /\ last.ok)
      BY <1>1 DEF Inv, Restoring
    <3>3. QED
      BY <1>2, <1>5, <2>1, <3>1, <3>2, SameKind DEF Restoring
  <2>6. QED
    BY <2>2, <2>3, <2>4, <2>5 DEF Inv
<1>6. ASSUME call.i = 0, ~call.failed, excused => excused', UNCHANGED <<file, blamed>>,
             NEW ok \in BOOLEAN, Outcome(ok), ~ok => excused'
      PROVE  Inv'
  <2>1. AtCapture
    BY <1>1, <1>3, <1>6 DEF Inv, Restoring, AtCapture
  <2>2. QED
    BY <1>1, <1>6, <2>1, ReturnKeeps
<1>7. QED
  BY <1>4, <1>5, <1>6 DEF SysRestore

\* A snapshot has one record for each attribute it names.
LEMMA OnePerAttribute ==
    ASSUME Inv, record # None
    PROVE  Cardinality(Recorded) = Len(record)
<1>1. /\ Len(record) \in Nat /\ DOMAIN record = 1..Len(record)
      /\ Recorded = {record[k].path : k \in DOMAIN record}
      /\ \A j, k \in DOMAIN record : record[j].path = record[k].path => j = k
  BY Snapshot DEF Inv, RecordOK
<1> DEFINE f == [k \in 1..Len(record) |-> record[k].path]
<1>2. f \in Bijection(1..Len(record), Recorded)
  BY <1>1 DEF Bijection, Injection, Surjection, IsInjective
<1>3. ExistsBijection(1..Len(record), Recorded)
  BY <1>2 DEF ExistsBijection
<1>4. QED
  BY <1>1, <1>3, FS_CountingElements

\* Reading does not fail without a reason.
LEMMA ReadingFails ==
    ASSUME Inv, op # None \/ ~Idle, NEW ps \in SUBSET Attrs, NEW ok \in BOOLEAN, Read(ps, ok)
    PROVE  (excused => excused') /\ (~ok => excused')
<1>1. present # Attrs => excused
  BY DEF Inv, Excuses, WorldOK
<1>2. QED
  BY <1>1, Reads DEF Inv

LEMMA KnownAttributes == ASSUME Inv PROVE Known \in SUBSET Attrs
BY Snapshot DEF Inv

LEMMA PowercapEnds ==
    ASSUME Inv, ~Idle, NEW ok \in BOOLEAN, PowercapEnd(ok)
    PROVE  /\ Outcome(ok) /\ (~ok => excused') /\ (excused => excused')
           /\ UNCHANGED <<file, blamed>>
<1>1. CASE call.cancelled /\ ~ok /\ UNCHANGED <<faults, excused>>
  BY <1>1 DEF PowercapEnd, Inv, Excuses
<1>2. CASE Read(Known, ok)
  BY <1>2, KnownAttributes, ReadingFails DEF PowercapEnd
<1>3. QED
  BY <1>1, <1>2 DEF PowercapEnd

LEMMA PowercapSteps ==
    ASSUME Inv, PowercapApply \/ PowercapUndo \/ PowercapRestore
    PROVE  SysApply \/ SysUndo \/ SysRestore
<1>1. CASE PowercapApply
  <2>1. /\ InSys /\ Running("apply") /\ ~Idle
        /\ UNCHANGED <<control, fixed, present, process>>
    BY <1>1 DEF PowercapApply, InSys, Idle, Running
  <2>2. CASE /\ call.i <= Len(Sources) /\ call.cancelled
             /\ PowercapUndoFrom(call.i - 1)
             /\ UNCHANGED <<file, last, faults, blamed, excused>>
    BY <2>1, <2>2 DEF SysApply, UndoFrom, PowercapUndoFrom
  <2>3. CASE /\ call.i <= Len(Sources) /\ ~call.cancelled
             /\ \E ok \in BOOLEAN :
                   /\ Write(Sources[call.i], op.requested, ok)
                   /\ IF ok THEN call' = [call EXCEPT !.i = @ + 1]
                            ELSE PowercapUndoFrom(call.i - 1)
             /\ UNCHANGED last
    BY <2>1, <2>3 DEF SysApply, UndoFrom, PowercapUndoFrom
  <2>4. ASSUME call.i > Len(Sources), NEW ok \in BOOLEAN, PowercapEnd(ok)
        PROVE  SysApply
    BY <2>1, <2>4, PowercapEnds DEF SysApply
  <2>5. QED
    BY <1>1, <2>2, <2>3, <2>4 DEF PowercapApply
<1>2. CASE PowercapUndo
  BY <1>2 DEF PowercapUndo, SysUndo, InSys
<1>3. CASE PowercapRestore
  <2>1. /\ InSys /\ Running("restore") /\ ~Idle
        /\ UNCHANGED <<control, fixed, present, process>>
    BY <1>3 DEF PowercapRestore, InSys, Idle, Running
  <2>2. ASSUME \/ Len(record) # Cardinality(Known)
               \/ call.i > 0 /\ call.cancelled
               \/ call.i > 0 /\ record[call.i].path \notin Known
               \/ call.i = 0 /\ call.failed
        PROVE  excused
    <3>1. Known # Recorded \/ call.cancelled \/ call.failed => excused
      BY <2>1 DEF Inv, Excuses
    <3>2. Len(record) = Cardinality(Recorded)
      BY <2>1, Looping, OnePerAttribute
    <3>3. call.i > 0 => record[call.i].path \in Recorded
      <4>1. record # None /\ call.i \in Nat /\ call.i <= Len(record)
        BY <2>1, Looping DEF Inv, Calling
      <4>2. QED
        BY <4>1, Snapshot DEF Inv
    <3>4. QED
      BY <2>2, <3>1, <3>2, <3>3
  <2>3. ASSUME call.i = 0, ~call.failed, NEW ok \in BOOLEAN, PowercapEnd(ok)
        PROVE  SysRestore
    BY <2>1, <2>3, PowercapEnds DEF SysRestore
  <2>4. CASE excused /\ Outcome(FALSE) /\ UNCHANGED <<file, faults, blamed, excused>>
    BY <2>1, <2>4 DEF SysRestore
  <2>5. CASE /\ call.i > 0
             /\ \E ok \in BOOLEAN :
                   /\ Write(record[call.i].path, record[call.i].value, ok)
                   /\ call' = [call EXCEPT !.i = @ - 1, !.failed = @ \/ ~ok]
             /\ UNCHANGED last
    BY <2>1, <2>5 DEF SysRestore
  <2>6. QED
    BY <1>3, <2>2, <2>3, <2>4, <2>5 DEF PowercapRestore
<1>4. QED
  BY <1>1, <1>2, <1>3

LEMMA PolicySteps ==
    ASSUME Inv, PolicyApply \/ PolicyUndo \/ PolicyRestore
    PROVE  SysApply \/ SysUndo \/ SysRestore
<1>1. CASE PolicyApply
  <2>1. /\ InSys /\ Running("apply") /\ ~Idle
        /\ UNCHANGED <<control, fixed, present, process>>
    BY <1>1 DEF PolicyApply, InSys, Idle, Running
  <2>2. CASE /\ call.i <= Len(Sources) /\ call.cancelled
             /\ PolicyUndoFrom(call.i - 1)
             /\ UNCHANGED <<file, last, faults, blamed, excused>>
    BY <2>1, <2>2 DEF SysApply, UndoFrom, PolicyUndoFrom
  <2>3. CASE /\ call.i <= Len(Sources) /\ ~call.cancelled
             /\ \E ok \in BOOLEAN :
                   /\ writeChoice(Sources[call.i], op.requested, ok)
                   /\ IF ok THEN call' = [call EXCEPT !.i = @ + 1]
                            ELSE PolicyUndoFrom(call.i - 1)
             /\ UNCHANGED last
    BY <2>1, <2>3 DEF SysApply, UndoFrom, PolicyUndoFrom, writeChoice
  <2>4. CASE /\ call.i > Len(Sources)
             /\ Outcome(TRUE)
             /\ UNCHANGED <<file, faults, blamed, excused>>
    BY <2>1, <2>4 DEF SysApply
  <2>5. QED
    BY <1>1, <2>2, <2>3, <2>4 DEF PolicyApply
<1>2. CASE PolicyUndo
  BY <1>2 DEF PolicyUndo, SysUndo, InSys, writeChoice
<1>3. CASE PolicyRestore
  <2>1. /\ InSys /\ Running("restore") /\ ~Idle
        /\ UNCHANGED <<control, fixed, present, process>>
    BY <1>3 DEF PolicyRestore, InSys, Idle, Running
  <2>2. ASSUME \/ call.i > 0 /\ (call.cancelled \/ record[call.i].path \notin Known)
               \/ call.i = 0 /\ call.failed
        PROVE  excused
    <3>1. Known # Recorded \/ call.cancelled \/ call.failed => excused
      BY <2>1 DEF Inv, Excuses
    <3>2. call.i > 0 => record[call.i].path \in Recorded
      <4>1. record # None /\ call.i \in Nat /\ call.i <= Len(record)
        BY <2>1, Looping DEF Inv, Calling
      <4>2. QED
        BY <4>1, Snapshot DEF Inv
    <3>3. QED
      BY <2>2, <3>1, <3>2
  <2>3. ASSUME call.i = 0, ~call.failed, NEW ok \in BOOLEAN, Read(Known, ok), Outcome(ok),
               UNCHANGED <<file, blamed>>
        PROVE  SysRestore
    BY <2>1, <2>3, KnownAttributes, ReadingFails DEF SysRestore
  <2>4. CASE excused /\ Outcome(FALSE) /\ UNCHANGED <<file, faults, blamed, excused>>
    BY <2>1, <2>4 DEF SysRestore
  <2>5. CASE /\ call.i > 0
             /\ \E ok \in BOOLEAN :
                   /\ writeChoice(record[call.i].path, record[call.i].value, ok)
                   /\ call' = [call EXCEPT !.i = @ - 1, !.failed = @ \/ ~ok]
             /\ UNCHANGED last
    BY <2>1, <2>5 DEF SysRestore, writeChoice
  <2>6. QED
    BY <1>3, <2>2, <2>3, <2>4, <2>5 DEF PolicyRestore
<1>4. QED
  BY <1>1, <1>2, <1>3

LEMMA SysStep == ASSUME Inv, SysApply \/ SysUndo \/ SysRestore PROVE Inv'
BY SysApplyKeeps, SysUndoKeeps, SysRestoreKeeps

-----------------------------------------------------------------------------
(* The drivers of one register: thermal limit, ratios and voltage.         *)

\* Their snapshot names the one attribute.
LEMMA OneRecord ==
    ASSUME Inv, record # None, ~InSys
    PROVE  /\ DOMAIN record = {1} /\ 1 \in DOMAIN record
           /\ InThermal => record[1].path = "pci"
           /\ InVoltage => record[1].path = "voltage"
           /\ InRatio => record[1].path = "ratios"
<1>1. Len(record) = 1 /\ DOMAIN record = 1..Len(record) /\ \A k \in DOMAIN record : record[k].path \in Tuned
  BY Snapshot DEF Inv, RecordOK
<1>2. DOMAIN record = {1} /\ record[1].path \in Tuned
  BY <1>1
<1>3. /\ InThermal => Tuned = {"pci"}
      /\ InVoltage => Tuned = {"voltage"}
      /\ InRatio => Tuned = {"ratios"}
  BY OneKind DEF Tuned, Attrs, InSys
<1>4. QED
  BY <1>2, <1>3

LEMMA CallRuns ==
    ASSUME Inv, ~Idle
    PROVE  /\ record # None
           /\ Running("apply") \/ Running("undo") =>
                 op # None /\ op.requested = wanted /\ Sources = op.sources /\ Range(op.sources) = Known
           /\ Running("apply") => last.name = "capture"
           /\ present # DOMAIN file => excused
           /\ call.cancelled \/ call.failed \/ fixed.locked => excused
           /\ Running("restore") /\ Known # Recorded => excused
           /\ DOMAIN file = Attrs
<1>1. record # None /\ (Running("apply") \/ Running("undo") => op # None)
  BY DEF Inv, Calling
<1>2. op # None => op.requested = wanted /\ Sources = op.sources /\ Range(op.sources) = Known
  BY <1>1 DEF Inv, Asking, Sources, Known
<1>3. Running("apply") => last.name = "capture"
  BY DEF Inv, Calling
<1>4. /\ present # DOMAIN file => excused
      /\ call.cancelled \/ call.failed \/ fixed.locked => excused
      /\ Running("restore") /\ Known # Recorded => excused
  BY DEF Inv, Excuses
<1>5. DOMAIN file = Attrs
  BY DEF Inv, WorldOK
<1>6. QED
  BY <1>1, <1>2, <1>3, <1>4, <1>5

LEMMA Shown ==
    ASSUME Inv, InThermal, NEW w, ShowOffset(w)
    PROVE  DOMAIN file' = DOMAIN file /\ file'["pci"] = w
<1>1. DOMAIN file = {"pci", "cooling", "hwmon"}
  BY OneKind DEF Inv, WorldOK, Attrs, Attributes
<1>2. DOMAIN file' = DOMAIN file
  BY Zenon DEF ShowOffset
<1>3. file'["pci"] = w
  <2>1. "pci" \in DOMAIN file /\ "pci" # "cooling"
    BY <1>1
  <2>2. QED
    BY <2>1, Zenon DEF ShowOffset
<1>4. QED
  BY <1>2, <1>3

LEMMA WriteOffset ==
    ASSUME Inv, InThermal, Running("apply") \/ Running("restore"), NEW offset, writeOffset(offset),
           UNCHANGED <<control, fixed, present, process>>,
           Running("apply") => offset = fixed.tjMax - wanted,
           Running("restore") => offset = record[1].value
    PROVE  Inv'
<1>1. /\ ~Idle /\ record # None /\ DOMAIN record = {1} /\ record[1].path = "pci"
      /\ ~InSys /\ ~InPowercap /\ ~InVoltage /\ ~InRatio
  BY CallRuns, OneRecord, OneKind DEF Idle, Running
<1>2. UNCHANGED <<control, fixed, record, wanted>>
  BY DEF process
<1>3. \A r : Asked(r) = fixed.tjMax - wanted /\ Asked(r)' = fixed.tjMax - wanted
  BY <1>2, AskedOf, SameAsking
<1>4. ~InVoltage' /\ ~InPowercap'
  BY <1>1, <1>2, SameKind
<1>5. CASE /\ ShowOffset(offset)
           /\ Outcome(~fixed.locked \/ file.cooling = offset)
           /\ UNCHANGED <<faults, blamed, excused>>
  <2> DEFINE ok == ~fixed.locked \/ file.cooling = offset
  <2>1. DOMAIN file' = DOMAIN file /\ file'["pci"] = offset
    BY <1>5, Shown
  <2>2. Explained'
    BY <1>1, <1>2, <1>3, <1>4, <2>1 DEF Explained
  <2>3. Running("apply") => Reviewed'
    BY <1>1, <1>2, <1>3, <1>4, <2>1 DEF Reviewed
  <2>4. Running("restore") => AtCapture'
    BY <1>1, <1>2, <2>1 DEF AtCapture
  <2>5. ~ok => excused'
    BY <1>1, <1>5, CallRuns
  <2>6. ok \in BOOLEAN /\ Outcome(ok) /\ (excused => excused')
    BY <1>5
  <2> HIDE DEF ok
  <2>7. QED
    BY <1>1, <2>1, <2>2, <2>3, <2>4, <2>5, <2>6, EndKeeps
<1>6. CASE /\ IF {"pci", "cooling"} \subseteq present THEN Fault ELSE UNCHANGED <<faults, excused>>
           /\ \E w : ShowOffset(w)
           /\ blamed' = blamed \cup {"pci"}
           /\ Outcome(FALSE)
  <2>1. DOMAIN file' = DOMAIN file
    BY <1>6, Shown
  <2>2. Explained'
    BY <1>1, <1>2, <1>6 DEF Explained
  <2>3. excused'
    <3>1. CASE {"pci", "cooling"} \subseteq present
      BY <1>6, <3>1 DEF Fault
    <3>2. CASE ~({"pci", "cooling"} \subseteq present)
      <4>1. DOMAIN file = {"pci", "cooling", "hwmon"}
        BY OneKind DEF Inv, WorldOK, Attrs, Attributes
      <4>2. QED
        BY <1>1, <1>6, <3>2, <4>1, CallRuns
    <3>3. QED
      BY <3>1, <3>2
  <2>4. QED
    BY <1>1, <1>6, <2>1, <2>2, <2>3, EndKeeps
<1>7. QED
  BY <1>5, <1>6 DEF writeOffset

LEMMA ThermalStep == ASSUME Inv, ThermalApply \/ ThermalRestore PROVE Inv'
<1>1. CASE ThermalApply
  <2>1. /\ InThermal /\ Running("apply") /\ ~Idle
        /\ UNCHANGED <<control, fixed, present, process>>
    BY <1>1 DEF ThermalApply, Idle, Running
  <2>2. op # None /\ op.requested = wanted /\ requestedOffset = fixed.tjMax - wanted
    BY <2>1, CallRuns DEF requestedOffset
  <2>3. requestedOffset \in 0..fixed.maxOffset /\ fixed.maxOffset \in Nat
    BY <2>1, <2>2, DriversAssumption DEF Inv, Asking, Fits, WorldOK
  <2>4. CASE /\ call.cancelled \/ requestedOffset < 0 \/ requestedOffset > fixed.maxOffset
             /\ Outcome(FALSE)
             /\ UNCHANGED <<file, faults, blamed, excused>>
    <3>1. excused
      BY <2>1, <2>3, <2>4, CallRuns
    <3>2. QED
      BY <2>1, <2>4, <3>1, ReturnKeeps
  <2>5. CASE writeOffset(requestedOffset)
    BY <2>1, <2>2, <2>5, WriteOffset DEF Running
  <2>6. QED
    BY <1>1, <2>4, <2>5 DEF ThermalApply
<1>2. CASE ThermalRestore
  <2>1. /\ InThermal /\ Running("restore") /\ ~Idle
        /\ UNCHANGED <<control, fixed, present, process>>
    BY <1>2 DEF ThermalRestore, Idle, Running
  <2>2. CASE /\ call.cancelled \/ Sources = <<>>
             /\ Outcome(FALSE)
             /\ UNCHANGED <<file, faults, blamed, excused>>
    <3>1. Sources = <<>> => Known = {}
      BY DEF Known, Range
    <3>2. Recorded # {}
      <4>1. record # None /\ 1 \in DOMAIN record
        BY <2>1, CallRuns, OneRecord, OneKind
      <4>2. QED
        BY <4>1, Snapshot DEF Inv
    <3>3. excused
      BY <2>1, <2>2, <3>1, <3>2, CallRuns
    <3>4. QED
      BY <2>1, <2>2, <3>3, ReturnKeeps
  <2>3. CASE writeOffset(record[1].value)
    BY <2>1, <2>3, WriteOffset DEF Running
  <2>4. QED
    BY <1>2, <2>2, <2>3 DEF ThermalRestore
<1>3. QED
  BY <1>1, <1>2

LEMMA IsSeq == ASSUME NEW n \in Nat, NEW f \in [1..n -> Nat] PROVE f \in Seq(Nat)
OBVIOUS

\* What the register is written with has the requested ratios, then the
\* other bytes as they were.
LEMMA EncodedRatios ==
    ASSUME NEW register \in Seq(Nat), NEW requested \in Seq(Int), Len(requested) = Cores,
           EncodeRatios(register, requested) # None
    PROVE  /\ EncodeRatios(register, requested) =
                  [k \in DOMAIN register |-> IF k \in DOMAIN requested THEN requested[k] ELSE register[k]]
           /\ EncodeRatios(register, requested) \in Seq(Nat)
<1> DEFINE e == [k \in DOMAIN register |-> IF k <= Cores THEN requested[k] ELSE register[k]]
<1>1. EncodeRatios(register, requested) = e
  BY DEF EncodeRatios
<1>2. \A k \in DOMAIN requested : requested[k] \in 1..255
  BY DEF EncodeRatios
<1>3. /\ DOMAIN register = 1..Len(register) /\ Len(register) \in Nat
      /\ \A k \in DOMAIN register : register[k] \in Nat /\ k \in Nat /\ k >= 1
      /\ DOMAIN requested = 1..Cores /\ Cores = 2
  BY DEF Cores
<1>4. \A k \in DOMAIN register : k <= Cores <=> k \in DOMAIN requested
  BY <1>3
<1>5. e = [k \in DOMAIN register |-> IF k \in DOMAIN requested THEN requested[k] ELSE register[k]]
  BY <1>4
<1>6. ASSUME NEW k \in DOMAIN register PROVE e[k] \in Nat
  <2>1. CASE k <= Cores
    <3>1. e[k] = requested[k] /\ k \in DOMAIN requested
      BY <1>4, <2>1
    <3>2. requested[k] \in 1..255
      BY <1>2, <3>1, Zenon
    <3>3. PICK x : x = requested[k]
      OBVIOUS
    <3>4. x \in Nat
      <4> HIDE DEF e
      <4>1. x \in 1..255
        BY <3>2, <3>3, Zenon
      <4>2. QED
        BY <4>1
    <3>5. QED
      BY <3>1, <3>3, <3>4, Zenon
  <2>2. CASE ~(k <= Cores)
    BY <1>3, <2>2
  <2>3. QED
    BY <2>1, <2>2
<1>7. e \in [1..Len(register) -> Nat]
  BY <1>3, <1>6
<1>8. e \in Seq(Nat)
  <2> HIDE DEF e
  <2>1. QED
    BY <1>3, <1>7, IsSeq
<1>9. QED
  BY <1>1, <1>5, <1>8

\* A ratio is written whole.
LEMMA WriteRatios ==
    ASSUME Inv, InRatio, Running("apply") \/ Running("restore"), NEW v \in Seq(Nat), NEW ok \in BOOLEAN,
           Write("ratios", v, ok), Outcome(ok),
           UNCHANGED <<control, fixed, present, process>>,
           Running("apply") => v = Asked(record[1]),
           Running("restore") => v = record[1].value
    PROVE  Inv'
<1>1. /\ ~Idle /\ record # None /\ DOMAIN record = {1} /\ record[1].path = "ratios"
      /\ ~InSys /\ ~InPowercap /\ ~InVoltage /\ control = "pcore" /\ "ratios" \in Attrs
  BY CallRuns, OneRecord, OneKind DEF Idle, Running, InRatio, Attrs, InSys
<1>2. UNCHANGED <<control, fixed, record, wanted>>
  BY DEF process
<1>3. /\ DOMAIN file' = DOMAIN file
      /\ file'["ratios"] \in Leftovers["pcore"] \cup {file["ratios"], v}
      /\ ok => file'["ratios"] = v
      /\ ~ok => blamed' = blamed \cup {"ratios"}
      /\ excused => excused'
      /\ ~ok => excused' \/ (present # Attrs /\ (excused' <=> excused))
  BY <1>1, Writes DEF Inv
<1>4. file'["ratios"] \in Seq(Nat)
  <2>1. file["ratios"] \in Seq(Nat)
    BY DEF Inv, WorldOK
  <2>2. Leftovers["pcore"] \subseteq Seq(Nat)
    BY DriversAssumption
  <2>3. QED
    BY <1>3, <2>1, <2>2
<1>5. ~ok => excused'
  BY <1>1, <1>3, CallRuns
<1>6. \A r : Asked(r)' = Asked(r)
  BY <1>2, SameAsking
<1>7. ~InVoltage' /\ ~InPowercap'
  BY <1>1, <1>2, SameKind
<1>8. Explained'
  BY <1>1, <1>2, <1>3, <1>6, <1>7 DEF Explained
<1>9. ok /\ Running("apply") => Reviewed'
  BY <1>1, <1>2, <1>3, <1>6, <1>7 DEF Reviewed
<1>10. ok /\ Running("restore") => AtCapture'
  BY <1>1, <1>2, <1>3 DEF AtCapture
<1>11. QED
  BY <1>1, <1>3, <1>4, <1>5, <1>8, <1>9, <1>10, EndKeeps

LEMMA RatioStep == ASSUME Inv, RatioApply \/ RatioRestore PROVE Inv'
<1>1. CASE RatioApply
  <2>1. /\ InRatio /\ Running("apply") /\ ~Idle /\ ~InSys
        /\ UNCHANGED <<control, fixed, present, process>>
    BY <1>1, OneKind DEF RatioApply, Idle, Running
  <2> DEFINE encoded == EncodeRatios(file.ratios, op.requested)
  <2>2. /\ op # None /\ op.requested = wanted /\ wanted \in Seq(Int) /\ Len(wanted) = Cores
        /\ encoded # None /\ record # None /\ 1 \in DOMAIN record /\ record[1].value = file["ratios"]
    <3>1. op # None /\ op.requested = wanted /\ record # None /\ last.name = "capture"
      BY <2>1, CallRuns
    <3>2. Fits(Recorded, wanted) /\ encoded # None /\ AtCapture
      BY <2>1, <3>1 DEF Inv, Asking
    <3>3. 1 \in DOMAIN record /\ record[1].path = "ratios"
      BY <2>1, <3>1, OneRecord
    <3>4. QED
      BY <2>1, <3>1, <3>2, <3>3 DEF Fits, AtCapture
  <2>3. encoded = Asked(record[1]) /\ encoded \in Seq(Nat)
    <3>1. file["ratios"] \in Seq(Nat)
      BY <2>1 DEF Inv, WorldOK
    <3>2. Asked(record[1]) = [k \in DOMAIN file["ratios"] |->
                                 IF k \in DOMAIN wanted THEN wanted[k] ELSE file["ratios"][k]]
      BY <2>1, <2>2, AskedOf
    <3>3. QED
      BY <2>2, <3>1, <3>2, EncodedRatios
  <2>4. CASE /\ call.cancelled \/ encoded = None
             /\ Outcome(FALSE)
             /\ UNCHANGED <<file, faults, blamed, excused>>
    <3>1. excused
      BY <2>1, <2>2, <2>4, CallRuns
    <3>2. QED
      BY <2>1, <2>4, <3>1, ReturnKeeps
  <2>5. ASSUME NEW ok \in BOOLEAN, Write("ratios", encoded, ok), Outcome(ok)
        PROVE  Inv'
    <3> HIDE DEF encoded
    <3>1. QED
      BY <2>1, <2>3, <2>5, WriteRatios DEF Running
  <2>6. QED
    BY <1>1, <2>4, <2>5 DEF RatioApply
<1>2. CASE RatioRestore
  <2>1. /\ InRatio /\ Running("restore") /\ ~Idle
        /\ UNCHANGED <<control, fixed, present, process>>
    BY <1>2 DEF RatioRestore, Idle, Running
  <2>2. record[1].value \in Seq(Nat) /\ ValidRatios(DecodeTurboRatios(record[1].value))
    BY <2>1, CallRuns DEF Inv, RecordOK
  <2>3. CASE /\ call.cancelled \/ ~ValidRatios(DecodeTurboRatios(record[1].value))
             /\ Outcome(FALSE)
             /\ UNCHANGED <<file, faults, blamed, excused>>
    <3>1. excused
      BY <2>1, <2>2, <2>3, CallRuns
    <3>2. QED
      BY <2>1, <2>3, <3>1, ReturnKeeps
  <2>4. ASSUME NEW ok \in BOOLEAN, Write("ratios", record[1].value, ok), Outcome(ok)
        PROVE  Inv'
    <3>1. PICK v : v = record[1].value
      OBVIOUS
    <3>2. v \in Seq(Nat) /\ Write("ratios", v, ok)
      BY <2>2, <2>4, <3>1
    <3>3. QED
      BY <2>1, <2>4, <3>1, <3>2, WriteRatios DEF Running
  <2>5. QED
    BY <1>2, <2>3, <2>4 DEF RatioRestore
<1>3. QED
  BY <1>1, <1>2

\* stepTo goes on, or ends and leaves the rest to the undo.
LEMMA StepKeeps ==
    ASSUME Inv, InVoltage, ~Idle, call' \in Calls, ~Idle', last' = last,
           UNCHANGED <<control, fixed, present, process>>,
           DOMAIN file' = DOMAIN file, file'["voltage"] \in Words,
           Explained', excused => excused',
           \/ call'.name = call.name /\ call'.cancelled = call.cancelled /\ call'.failed = call.failed
           \/ Running("apply") /\ call'.name = "undo" /\ excused'
    PROVE  Inv'
<1>1. UNCHANGED <<control, fixed, present, driver, capability, op, record, wanted>>
  BY DEF process
<1>2. ~InSys /\ ~InRatio /\ ~InSys' /\ ~InRatio'
  BY <1>1, OneKind, SameKind
<1>3. WorldOK' /\ ProcessOK' /\ RecordOK' /\ Asking' /\ Reporting'
  <2>1. last' \in Ends
    BY DEF Inv, ProcessOK
  <2>2. QED
    BY <1>2, <2>1, CallStep
<1>4. Calling'
  BY <1>1, <1>2 DEF Inv, Calling, Idle, Running
<1>5. Restoring'
  <2>1. ~(last.name = "restore" /\ last.ok)
    BY DEF Inv, Restoring
  <2>2. QED
    BY <1>2, <2>1 DEF Restoring
<1>6. AppliedAsReviewed'
  BY DEF AppliedAsReviewed
<1>7. Excuses'
  <2>1. Known' = Known /\ Recorded' = Recorded
    BY <1>1 DEF Known, Recorded, Sources
  <2>2. CASE call'.name = call.name /\ call'.cancelled = call.cancelled /\ call'.failed = call.failed
    BY <1>1, <2>1, <2>2 DEF Inv, Excuses, Idle, Running
  <2>3. CASE excused'
    BY <2>3 DEF Excuses
  <2>4. QED
    BY <2>2, <2>3
<1>8. QED
  BY <1>3, <1>4, <1>5, <1>6, <1>7 DEF Inv

LEMMA MoveType ==
    ASSUME call \in Calls, NEW n \in Nat, call' = [call EXCEPT !.i = n]
    PROVE  /\ call' \in Calls
           /\ call'.name = call.name /\ call'.cancelled = call.cancelled /\ call'.failed = call.failed
<1>1. call' \in Calls
  BY DEF Calls
<1>2. call'.name = call.name /\ call'.cancelled = call.cancelled /\ call'.failed = call.failed
  BY Zenon DEF Calls
<1>3. QED
  BY <1>1, <1>2

LEMMA StepBackType ==
    ASSUME call \in Calls, call' = [call EXCEPT !.name = "undo", !.i = 1, !.cancelled = FALSE]
    PROVE  call' \in Calls /\ call'.name = "undo"
<1>1. call'.name = "undo"
  BY Zenon DEF Calls
<1>2. call'.i = 1 /\ call'.cancelled = FALSE /\ call'.failed = call.failed
  BY Zenon DEF Calls
<1>3. call' = [name |-> call'.name, i |-> call'.i, failed |-> call'.failed, cancelled |-> call'.cancelled]
  BY Zenon DEF Calls
<1>4. call'.failed \in BOOLEAN
  BY <1>2 DEF Calls
<1>5. QED
  BY <1>1, <1>2, <1>3, <1>4 DEF Calls

\* What holds around a step of a voltage call that keeps the register's
\* value explained.
VoltageMoves ==
    /\ Inv /\ InVoltage /\ ~Idle
    /\ UNCHANGED <<control, fixed, present, process>>
    /\ DOMAIN file' = DOMAIN file /\ file'["voltage"] \in Words
    /\ Explained' /\ (excused => excused')

LEMMA Moves == ASSUME VoltageMoves, NEW n \in Nat, call' = [call EXCEPT !.i = n], last' = last PROVE Inv'
<1>1. /\ call' \in Calls
      /\ call'.name = call.name /\ call'.cancelled = call.cancelled /\ call'.failed = call.failed
  BY MoveType DEF VoltageMoves, Inv, ProcessOK
<1>2. ~Idle'
  BY <1>1 DEF VoltageMoves, Idle, Running
<1>3. QED
  BY <1>1, <1>2, StepKeeps DEF VoltageMoves

LEMMA StepFailsKeeps == ASSUME VoltageMoves, StepFails, excused' PROVE Inv'
<1>1. CASE Running("apply")
  <2>1. call' \in Calls /\ call'.name = "undo" /\ last' = last
    BY <1>1, StepBackType DEF StepFails, VoltageMoves, Inv, ProcessOK
  <2>2. ~Idle'
    BY <2>1 DEF Idle, Running
  <2>3. QED
    BY <1>1, <2>1, <2>2, StepKeeps DEF VoltageMoves
<1>2. CASE ~Running("apply")
  <2>1. Outcome(FALSE)
    BY <1>2 DEF StepFails
  <2>2. InVoltage /\ ~InRatio
    BY OneKind DEF VoltageMoves
  <2>3. QED
    BY <2>1, <2>2, EndKeeps DEF VoltageMoves
<1>3. QED
  BY <1>1, <1>2

\* Nothing was written in this step.
LEMMA Unmoved ==
    ASSUME Inv, InVoltage, ~Idle, UNCHANGED <<control, fixed, present, process, file, blamed>>,
           excused => excused'
    PROVE  VoltageMoves
<1>1. UNCHANGED <<control, fixed, file, record, wanted, blamed>>
  BY DEF process
<1>2. Explained'
  BY <1>1, ExplainedKept DEF Inv
<1>3. file'["voltage"] \in Words
  BY <1>1 DEF Inv, WorldOK
<1>4. QED
  BY <1>1, <1>2, <1>3 DEF VoltageMoves

LEMMA StepInRange ==
    ASSUME NEW c \in FieldRange, NEW from \in FieldRange, NEW to \in FieldRange, NEW target \in {from, to}
    PROVE  /\ NextUnits(c, target) \in Int
           /\ Between(c, from, to) => /\ NextUnits(c, target) \in FieldRange
                                      /\ Between(NextUnits(c, target), from, to)
<1>1. c \in Int /\ from \in Int /\ to \in Int /\ target \in Int
  BY DEF FieldRange
<1>2. Between(target, from, to)
  BY <1>1 DEF Between
<1>3. NextUnits(c, target) \in Int
  BY <1>1 DEF NextUnits, Greatest, Least, MaxStep
<1>4. ASSUME Between(c, from, to)
      PROVE  NextUnits(c, target) \in FieldRange /\ Between(NextUnits(c, target), from, to)
  <2>1. Between(NextUnits(c, target), from, to)
    BY <1>1, <1>2, <1>4, StepTowards
  <2>2. PICK n \in Int : n = NextUnits(c, target)
    BY <1>3
  <2>3. Between(n, from, to)
    BY <2>1, <2>2
  <2>4. n \in FieldRange
    <3>1. /\ -1024 <= from /\ from <= 1023
          /\ -1024 <= to /\ to <= 1023
      BY DEF FieldRange
    <3>2. -1024 <= n /\ n <= 1023
      BY <1>1, <2>3, <3>1 DEF Between
    <3>3. QED
      BY <3>2 DEF FieldRange
  <2>5. QED
    BY <2>1, <2>2, <2>4
<1>5. QED
  BY <1>3, <1>4

\* One step of at most MaxStep units.
LEMMA VoltageWrite ==
    ASSUME Inv, InVoltage, ~Idle, UNCHANGED <<control, fixed, present, process>>,
           NEW target \in {Units(record[1].value), EncodeVoltageOffset(wanted)}, NEW ok \in BOOLEAN,
           writeVoltage(NextUnits(Units(file.voltage), target), ok)
    PROVE  VoltageMoves /\ (~ok => excused')
<1>1. /\ record # None /\ DOMAIN record = {1} /\ record[1].path = "voltage"
      /\ ~InSys /\ ~InPowercap /\ ~InRatio /\ control = "core" /\ Attrs = {"voltage"}
  BY CallRuns, OneRecord, OneKind DEF InVoltage, Attrs, InSys
<1>2. UNCHANGED <<control, fixed, record, wanted>>
  BY DEF process
<1>3. file["voltage"] \in Words /\ record[1].value \in Words /\ wanted \in 128 * MillivoltMin..0
  BY <1>1 DEF Inv, WorldOK, RecordOK, Asking, Fits
<1>4. PICK c, from, to : c = Units(file["voltage"]) /\ from = Units(record[1].value) /\ to = EncodeVoltageOffset(wanted)
  OBVIOUS
<1>5. c \in FieldRange /\ from \in FieldRange /\ to \in FieldRange /\ target \in {from, to}
  <2>1. Units(file["voltage"]) \in FieldRange /\ Units(record[1].value) \in FieldRange
    BY <1>3, UnitsType
  <2>2. EncodeVoltageOffset(wanted) \in FieldRange
    <3>1. EncodeVoltageOffset(wanted) \in -256..0
      BY <1>3, Encoded
    <3>2. QED
      BY <3>1 DEF FieldRange
  <2>3. QED
    BY <1>4, <2>1, <2>2
<1>6. PICK next : next = NextUnits(c, target)
  OBVIOUS
<1>7. /\ next \in Int
      /\ "voltage" \in blamed \/ (next \in FieldRange /\ Between(next, from, to))
  <2>1. /\ next \in Int
        /\ Between(c, from, to) => next \in FieldRange /\ Between(next, from, to)
    BY <1>5, <1>6, StepInRange
  <2>2. "voltage" \in blamed \/ Between(c, from, to)
    BY <1>1, <1>4 DEF Inv, Explained
  <2>3. QED
    BY <2>1, <2>2
<1>8. CASE fixed.locked /\ Field(next) # file["voltage"] /\ writeVoltage(next, ok)
  <2>1. ~ok /\ UNCHANGED <<file, faults, blamed, excused>>
    BY <1>8 DEF writeVoltage
  <2>2. excused
    BY <1>8, CallRuns
  <2>3. QED
    BY <2>1, <2>2, Unmoved
<1>9. CASE Write("voltage", Field(next), ok)
  <2>1. PICK v : v = Field(next)
    OBVIOUS
  <2>2. v \in Words
    BY <1>7, <2>1, FieldType
  <2>3. /\ DOMAIN file' = DOMAIN file
        /\ file'["voltage"] \in Leftovers["core"] \cup {file["voltage"], v}
        /\ ok => file'["voltage"] = v /\ blamed' = blamed
        /\ ~ok => blamed' = blamed \cup {"voltage"}
        /\ excused => excused'
        /\ ~ok => excused' \/ (present # Attrs /\ (excused' <=> excused))
    <3>1. Write("voltage", v, ok) /\ "voltage" \in Attrs /\ WorldOK
      BY <1>1, <1>9, <2>1 DEF Inv
    <3>2. QED
      BY <1>1, <3>1, Writes
  <2>4. file'["voltage"] \in Words
    <3>1. Leftovers["core"] \subseteq Words
      BY DriversAssumption
    <3>2. QED
      BY <1>3, <2>2, <2>3, <3>1
  <2>5. ~ok => excused'
    <3>1. present # Attrs => excused
      BY CallRuns
    <3>2. QED
      BY <2>3, <3>1
  <2>6. "voltage" \in blamed' \/ Between(Units(file'["voltage"]), from, to)
    <3>1. CASE ~ok
      BY <2>3, <3>1
    <3>2. CASE ok /\ "voltage" \in blamed
      BY <2>3, <3>2
    <3>3. CASE ok /\ "voltage" \notin blamed
      <4>1. next \in FieldRange /\ Between(next, from, to)
        BY <1>7, <3>3
      <4>2. Units(Field(next)) = next
        BY <4>1, FieldUnits
      <4>3. file'["voltage"] = Field(next)
        BY <2>1, <2>3, <3>3
      <4>4. QED
        BY <4>1, <4>2, <4>3
    <3>4. QED
      BY <3>1, <3>2, <3>3
  <2>7. Explained'
    BY <1>1, <1>2, <1>4, <2>6, SameKind DEF Explained
  <2>8. QED
    BY <2>3, <2>4, <2>5, <2>7 DEF VoltageMoves
<1>10. QED
  <2>1. writeVoltage(next, ok)
    BY <1>4, <1>6
  <2>2. QED
    BY <2>1, <1>8, <1>9 DEF writeVoltage

\* The steps towards what was asked for, and those back to what was captured.
LEMMA StepTo ==
    ASSUME Inv, InVoltage, ~Idle, UNCHANGED <<control, fixed, present, process>>,
           NEW target, stepTo(target),
           Running("apply") => target = EncodeVoltageOffset(wanted),
           ~Running("apply") => target = Units(record[1].value)
    PROVE  Inv'
<1>1. /\ record # None /\ DOMAIN record = {1} /\ record[1].path = "voltage"
      /\ ~InSys /\ ~InPowercap /\ ~InRatio /\ control = "core" /\ Attrs = {"voltage"}
      /\ call.cancelled => excused
  BY CallRuns, OneRecord, OneKind DEF InVoltage, Attrs, InSys
<1>2. target \in {Units(record[1].value), EncodeVoltageOffset(wanted)}
  OBVIOUS
<1>3. CASE call.cancelled /\ StepFails /\ UNCHANGED <<file, faults, blamed, excused>>
  BY <1>1, <1>3, Unmoved, StepFailsKeeps
<1>4. ASSUME NEW ok \in BOOLEAN, Read({"voltage"}, ok), UNCHANGED <<file, blamed>>,
             IF ok THEN call' = [call EXCEPT !.i = 2] /\ UNCHANGED last ELSE StepFails
      PROVE  Inv'
  <2>1. (excused => excused') /\ (~ok => excused')
    BY <1>1, <1>4, ReadingFails
  <2>2. VoltageMoves
    BY <1>4, <2>1, Unmoved
  <2>3. QED
    BY <1>4, <2>1, <2>2, Moves, StepFailsKeeps
<1>5. CASE Units(file.voltage) = target /\ Outcome(~Running("undo")) /\ UNCHANGED <<file, faults, blamed, excused>>
  <2> DEFINE ok == ~Running("undo")
  <2>1. call.name \in {"none", "apply", "undo", "restore"}
    BY DEF Inv, ProcessOK, Calls
  <2>2. ~ok => excused
    BY DEF Inv, Excuses
  <2>3. Running("apply") => Reviewed
    <3>1. SUFFICES ASSUME Running("apply") PROVE Near(Units(file["voltage"]), wanted)
      BY <1>1 DEF Reviewed
    <3>2. wanted \in 128 * MillivoltMin..0
      BY <1>1 DEF Inv, Asking, Fits
    <3>3. QED
      BY <1>5, <3>1, <3>2, Encoded
  <2>4. Running("restore") => AtCapture
    <3>1. SUFFICES ASSUME Running("restore") PROVE file["voltage"] = record[1].value
      BY <1>1 DEF AtCapture
    <3>2. file["voltage"] \in Words /\ record[1].value \in Words
      BY <1>1 DEF Inv, WorldOK, RecordOK
    <3>3. Units(file["voltage"]) = Units(record[1].value)
      BY <1>5, <3>1 DEF Running
    <3>4. QED
      BY <3>2, <3>3, UnitsInjective
  <2>5. ok \in BOOLEAN /\ Outcome(ok) /\ (ok => Running("apply") \/ Running("restore"))
    BY <1>5, <2>1 DEF Idle, Running
  <2> HIDE DEF ok
  <2>6. QED
    BY <1>5, <2>2, <2>3, <2>4, <2>5, ReturnKeeps
<1>6. ASSUME NEW ok \in BOOLEAN, writeVoltage(NextUnits(Units(file.voltage), target), ok),
             IF ok THEN call' = [call EXCEPT !.i = 3] /\ UNCHANGED last ELSE StepFails
      PROVE  Inv'
  <2>1. VoltageMoves /\ (~ok => excused')
    BY <1>2, <1>6, VoltageWrite
  <2>2. QED
    BY <1>6, <2>1, Moves, StepFailsKeeps
<1>7. CASE call' = [call EXCEPT !.i = 2] /\ UNCHANGED last /\ UNCHANGED <<file, faults, blamed, excused>>
  BY <1>7, Unmoved, Moves
<1>8. QED
  <2>1. CASE call.i = 1
    BY <2>1, <1>3, <1>4 DEF stepTo
  <2>2. CASE call.i = 2
    BY <2>2, <1>3, <1>5, <1>6 DEF stepTo
  <2>3. CASE call.i = 3
    BY <2>3, <1>3, <1>7 DEF stepTo
  <2>4. QED
    BY <2>1, <2>2, <2>3 DEF stepTo

LEMMA VoltageStep == ASSUME Inv, VoltageApply \/ VoltageRestore PROVE Inv'
<1>1. CASE VoltageApply
  <2>1. /\ InVoltage /\ UNCHANGED <<control, fixed, present, process>>
        /\ Running("apply") \/ Running("undo")
    BY <1>1 DEF VoltageApply
  <2>2. ~Idle /\ op.requested = wanted
    BY <2>1, CallRuns DEF Idle, Running
  <2>3. CASE Running("apply")
    <3>1. PICK target : target = EncodeVoltageOffset(wanted)
      OBVIOUS
    <3>2. stepTo(target)
      BY <1>1, <2>2, <2>3, <3>1 DEF VoltageApply, Running
    <3>3. QED
      BY <2>1, <2>2, <2>3, <3>1, <3>2, StepTo
  <2>4. CASE Running("undo")
    <3>1. PICK target : target = Units(record[1].value)
      OBVIOUS
    <3>2. stepTo(target) /\ ~Running("apply")
      BY <1>1, <2>4, <3>1 DEF VoltageApply, Running
    <3>3. QED
      BY <2>1, <2>2, <3>1, <3>2, StepTo
  <2>5. QED
    BY <2>1, <2>3, <2>4
<1>2. CASE VoltageRestore
  <2>1. /\ InVoltage /\ UNCHANGED <<control, fixed, present, process>>
        /\ Running("restore") /\ ~Running("apply") /\ ~Idle
    BY <1>2 DEF VoltageRestore, Idle, Running
  <2>2. Restorable(record[1].value)
    BY <2>1, CallRuns DEF Inv, RecordOK
  <2>3. PICK target : target = Units(record[1].value)
    OBVIOUS
  <2>4. stepTo(target)
    BY <1>2, <2>2, <2>3 DEF VoltageRestore
  <2>5. QED
    BY <2>1, <2>3, <2>4, StepTo
<1>3. QED
  BY <1>1, <1>2

-----------------------------------------------------------------------------
(* What the drivers report, prepare and capture.                           *)

\* What a value has been made of that passes the review.
LEMMA NormalizedOf ==
    ASSUME NEW c, NEW v, Normalized(c, v) # None
    PROVE  /\ c.state = "supported"
           /\ \/ /\ c.range # None
                 /\ v.kind = "numeric" /\ c.range.max >= c.range.min
                 /\ Normalized(c, v) = Numeric(Clamp(c.range, c.range.min
                       + Round(Clamp(c.range, v.of) - c.range.min, c.range.step) * c.range.step))
              \/ /\ c.range = None /\ (c.choices # {} \/ c.unit = "choice")
                 /\ v.kind = "choice" /\ v.of \in c.choices /\ Normalized(c, v) = v
              \/ c.range = None /\ c.choices = {} /\ c.unit = "ratio"
<1>1. c.state = "supported"
  BY Zenon DEF Normalized
<1>2. CASE c.range # None
  BY <1>1, <1>2, Zenon DEF Normalized
<1>3. CASE c.range = None /\ (c.choices # {} \/ c.unit = "choice")
  BY <1>1, <1>3, Zenon DEF Normalized
<1>4. CASE c.range = None /\ ~(c.choices # {} \/ c.unit = "choice")
  BY <1>1, <1>4, Zenon DEF Normalized
<1>5. QED
  BY <1>1, <1>2, <1>3, <1>4

LEMMA CapabilityOf ==
    ASSUME NEW id, NEW state, NEW unit, NEW current, NEW range, NEW choices, NEW by
    PROVE  LET c == Capability(id, state, unit, current, range, choices, by)
           IN /\ c.id = id /\ c.state = state /\ c.unit = unit
              /\ c.range = range /\ c.choices = choices
BY DEF Capability

\* Rounding to a step and clamping stays in the range.
LEMMA Clamped ==
    ASSUME NEW lo \in Int, NEW hi \in Int, lo <= hi, NEW x \in Int, NEW r, r.min = lo, r.max = hi
    PROVE  Clamp(r, x) \in Int /\ lo <= Clamp(r, x) /\ Clamp(r, x) <= hi
BY DEF Clamp, Greatest, Least

LEMMA Rounded == ASSUME NEW n \in Int, NEW d \in {1, 2} PROVE Round(n, d) \in Int
BY DEF Round

LEMMA Requested ==
    ASSUME NEW v \in Requests, v.kind = "numeric"
    PROVE  v.of \in Int
<1>1. CASE v \in {Numeric(x) : x \in 0..2 * Watt + 1}
  BY <1>1 DEF Numeric, Watt
<1>2. CASE v \in {Numeric(x) : x \in TjMax - MaxOffset - 1..TjMax + 1}
  BY <1>2, DriversAssumption DEF Numeric
<1>3. CASE v \in {Choice(c) : c \in Choices}
  BY <1>3 DEF Choice
<1>4. QED
  BY <1>1, <1>2, <1>3 DEF Requests

\* A numeric request becomes a number of the range.
LEMMA InRange ==
    ASSUME NEW c, NEW v \in Requests, Normalized(c, v) # None, c.range # None,
           NEW lo \in Int, NEW hi \in Int, NEW step \in {1, 2},
           c.range = [min |-> lo, max |-> hi, step |-> step]
    PROVE  /\ Normalized(c, v).kind = "numeric"
           /\ Normalized(c, v).of \in Int
           /\ lo <= Normalized(c, v).of /\ Normalized(c, v).of <= hi
<1> DEFINE r == c.range
           onStep == r.min + Round(Clamp(r, v.of) - r.min, r.step) * r.step
<1>1. v.kind = "numeric" /\ r.max >= r.min /\ Normalized(c, v) = Numeric(Clamp(r, onStep))
  BY NormalizedOf, Zenon
<1>2. r.min = lo /\ r.max = hi /\ r.step = step
  OBVIOUS
<1>3. lo <= hi
  BY <1>1, <1>2
<1>4. v.of \in Int
  BY <1>1, Requested
<1> HIDE DEF r
<1>5. Clamp(r, v.of) \in Int
  BY <1>2, <1>3, <1>4, Clamped
<1>6. Round(Clamp(r, v.of) - lo, step) \in Int
  <2>1. PICK x \in Int : x = Clamp(r, v.of)
    BY <1>5
  <2>2. x - lo \in Int
    BY <2>1
  <2>3. Round(x - lo, step) \in Int
    BY <2>2, Rounded
  <2>4. QED
    BY <2>1, <2>3
<1>7. onStep \in Int
  <2>1. PICK x \in Int : x = Round(Clamp(r, v.of) - lo, step)
    BY <1>6
  <2>2. onStep = lo + x * step
    BY <1>2, <2>1
  <2>3. lo + x * step \in Int
    BY <2>1
  <2>4. QED
    BY <2>2, <2>3
<1> HIDE DEF onStep
<1>8. Clamp(r, onStep) \in Int /\ lo <= Clamp(r, onStep) /\ Clamp(r, onStep) <= hi
  BY <1>2, <1>3, <1>7, Clamped
<1>9. QED
  BY <1>1, <1>8 DEF Numeric

\* Which driver accepts a value, after a step.
LEMMA AcceptsOf ==
    ASSUME NEW v, control' = control
    PROVE  /\ InPowercap => (Accepts(v)' <=> PowercapAccepts(v)')
           /\ InPolicy => (Accepts(v)' <=> PolicyAccepts(v)')
           /\ InThermal => (Accepts(v)' <=> ThermalAccepts(v)')
<1>1. /\ InPowercap' = InPowercap /\ InPolicy' = InPolicy /\ InThermal' = InThermal
      /\ InPowercap => ~InPolicy /\ ~InThermal
      /\ InPolicy => ~InPowercap /\ ~InThermal
      /\ InThermal => ~InPowercap /\ ~InPolicy
  BY SameKind DEF InPowercap, InPolicy, InThermal, PowerControls
<1>2. InPowercap => (Accepts(v)' <=> PowercapAccepts(v)')
  BY <1>1, Zenon DEF Accepts
<1>3. InPolicy => (Accepts(v)' <=> PolicyAccepts(v)')
  BY <1>1, Zenon DEF Accepts
<1>4. InThermal => (Accepts(v)' <=> ThermalAccepts(v)')
  BY <1>1, Zenon DEF Accepts
<1>5. QED
  BY <1>2, <1>3, <1>4

LEMMA PowercapProbeKeeps == ASSUME Inv, PowercapProbe PROVE Inv'
<1>1. PICK ps, c, d : /\ ps = PowercapSources
                      /\ c = (IF ps = <<>> THEN None ELSE PowercapCapability(ps))
                      /\ d = [Unprobed EXCEPT !.sources = ps]
  OBVIOUS
<1>2. InPowercap /\ Probed(d, c)
  BY <1>1 DEF PowercapProbe
<1>3. Tuned = {"rapl", "mmio"} /\ ps \in Seq(Tuned) /\ Injective(ps)
  <2>1. Tuned = {"rapl", "mmio"}
    BY <1>2, OneKind DEF Tuned, Attrs, InSys
  <2>2. PICK kept : kept = fixed.packages \cap present
    OBVIOUS
  <2>3. ps = Kept(<<"rapl", "mmio">>, kept)
    BY <1>1, <2>2 DEF PowercapSources, Zones
  <2>4. ps \in Seq({"rapl", "mmio"}) /\ Injective(ps)
    BY <2>3, KeptPair
  <2>5. QED
    BY <2>1, <2>4
<1>4. d.sources = ps
  BY <1>1 DEF Unprobed
<1>5. /\ driver' = d /\ UNCHANGED <<control, fixed>>
  BY <1>2 DEF Probed, world
<1>6. ASSUME c # None, NEW v \in Requests, Normalized(c, v) # None
      PROVE  Accepts(Normalized(c, v))' /\ Fits(Range(d.sources), Normalized(c, v).of)
  <2> DEFINE writable == control # "tau" /\ \A z \in Range(ps) : fixed.max[z] > 0
  <2>1. ps # <<>> /\ c = PowercapCapability(ps)
    BY <1>1, <1>6
  <2>2. PICK least : least = LeastOf(fixed.max, Range(ps))
    OBVIOUS
  <2>3. /\ c.state = (IF writable THEN "supported" ELSE "read_only")
        /\ c.range = (IF writable THEN [min |-> 0, max |-> least, step |-> 2] ELSE None)
        /\ c.unit = "W" /\ c.choices = {}
    BY <2>1, <2>2 DEF PowercapCapability, Capability, Watt
  <2>4. writable
    BY <2>3, NormalizedOf, <1>6
  <2>5. Range(ps) # {} /\ Range(ps) \subseteq {"rapl", "mmio"}
    <3>1. ps \in Seq({"rapl", "mmio"})
      BY <1>3
    <3>2. Len(ps) # 0 /\ Len(ps) \in Nat /\ DOMAIN ps = 1..Len(ps)
      BY <2>1, <3>1
    <3>3. 1 \in DOMAIN ps
      BY <3>2
    <3>4. Range(ps) # {}
      BY <3>3 DEF Range
    <3>5. Range(ps) \subseteq {"rapl", "mmio"}
      BY <3>1 DEF Range
    <3>6. QED
      BY <3>4, <3>5
  <2>6. fixed.max \in [{"rapl", "mmio"} -> Nat]
    BY <1>2 DEF Inv, WorldOK
  <2>7. least \in Int /\ \A p \in Range(ps) : least <= fixed.max[p]
    <3>1. \E p \in Range(ps) : \A q \in Range(ps) : fixed.max[p] <= fixed.max[q]
      BY <2>5, <2>6
    <3>2. PICK p \in Range(ps) : least = fixed.max[p] /\ \A q \in Range(ps) : fixed.max[p] <= fixed.max[q]
      BY <2>2, <3>1, Zenon DEF LeastOf
    <3>3. QED
      BY <2>5, <2>6, <3>2
  <2>8. c.range # None
    BY <1>6, <2>3, NormalizedOf
  <2>9. c.range = [min |-> 0, max |-> least, step |-> 2]
    BY <2>3, <2>4
  <2>10. PICK w : w = Normalized(c, v)
    OBVIOUS
  <2>11. w.kind = "numeric" /\ w.of \in Int /\ w.of <= least
    <3>1. PICK lo \in Int, step \in {1, 2} : lo = 0 /\ step = 2
      OBVIOUS
    <3>2. c.range = [min |-> lo, max |-> least, step |-> step]
      BY <2>9, <3>1
    <3>3. least \in Int
      BY <2>7
    <3>4. QED
      BY <1>6, <2>8, <2>10, <3>2, <3>3, InRange
  <2>12. Fits(Range(d.sources), w.of)
    <3>1. \A p \in Range(ps) : w.of <= fixed.max[p]
      BY <2>5, <2>6, <2>7, <2>11
    <3>2. QED
      BY <1>2, <1>4, <2>11, <3>1, OneKind DEF Fits, InSys
  <2>13. Accepts(w)'
    <3>1. driver'.sources # <<>> /\ control' # "tau"
      BY <1>4, <1>5, <2>1, <2>4
    <3>2. PowercapAccepts(w)'
      BY <2>11, <3>1 DEF PowercapAccepts
    <3>3. QED
      BY <1>2, <1>5, <3>2, AcceptsOf
  <2>14. QED
    BY <2>10, <2>12, <2>13
<1>7. QED
  BY <1>2, <1>3, <1>4, <1>6, ProbedKeeps

LEMMA PolicyProbeKeeps == ASSUME Inv, PolicyProbe PROVE Inv'
<1>1. CASE Probed(driver, None)
  <2>1. PICK d, c : d = driver /\ c = None
    OBVIOUS
  <2>2. Probed(d, c) /\ d.sources \in Seq(Tuned) /\ Injective(d.sources)
    BY <1>1, <2>1 DEF Inv, ProcessOK
  <2>3. QED
    BY <2>1, <2>2, ProbedKeeps
<1>2. CASE Probed([sources |-> Kept(Policies, Readable), choices |-> Common], PolicyCapability)
  <2>1. PICK d, c, ps, kept : /\ kept = Readable
                              /\ ps = Kept(<<"policy0", "policy1">>, kept)
                              /\ d = [sources |-> ps, choices |-> Common]
                              /\ c = PolicyCapability
    OBVIOUS
  <2>2. InPolicy /\ Probed(d, c) /\ d.sources = ps
    BY <1>2, <2>1 DEF PolicyProbe, Policies
  <2>3. Tuned = {"policy0", "policy1"} /\ ps \in Seq(Tuned) /\ Injective(ps)
        /\ Range(ps) = kept \cap {"policy0", "policy1"}
    <3>1. Tuned = {"policy0", "policy1"}
      BY <2>2, OneKind DEF Tuned, Attrs, InSys, InPowercap, InPolicy, PowerControls
    <3>2. /\ ps \in Seq({"policy0", "policy1"}) /\ Injective(ps)
          /\ Range(ps) = kept \cap {"policy0", "policy1"}
      BY <2>1, KeptPair
    <3>3. QED
      BY <3>1, <3>2
  <2>4. /\ driver' = d /\ UNCHANGED <<control, fixed>>
    BY <2>2 DEF Probed, world
  <2>5. ASSUME NEW v \in Requests, Normalized(c, v) # None
        PROVE  Accepts(Normalized(c, v))' /\ Fits(Range(d.sources), Normalized(c, v).of)
    <3>1. c.range = None /\ c.unit = "choice" /\ c.choices = Common
      BY <2>1 DEF PolicyCapability, Capability
    <3>2. v.kind = "choice" /\ v.of \in Common /\ Normalized(c, v) = v
      <4>1. "choice" # "ratio"
        OBVIOUS
      <4>2. QED
        BY <2>5, <3>1, <4>1, NormalizedOf, Zenon
    <3>3. ps # <<>>
      <4>1. kept # {} /\ kept \subseteq {"policy0", "policy1"}
        BY <2>1, <3>2, ZonesAndPolicies DEF Common, Readable, Interfaces
      <4>2. Range(ps) # {}
        BY <2>3, <4>1
      <4>3. QED
        BY <4>2 DEF Range
    <3>4. PolicyAccepts(v)'
      <4>1. driver'.sources # <<>> /\ v.of \in driver'.choices
        BY <2>1, <2>4, <3>2, <3>3
      <4>2. QED
        BY <3>2, <4>1 DEF PolicyAccepts
    <3>5. Accepts(v)'
      BY <2>2, <2>4, <3>4, AcceptsOf
    <3>6. Fits(Range(d.sources), v.of)
      BY <2>2, OneKind DEF Fits, InSys, InPowercap, InPolicy, PowerControls
    <3>7. QED
      BY <3>2, <3>5, <3>6
  <2>6. QED
    BY <2>2, <2>3, <2>5, ProbedKeeps
<1>3. QED
  BY <1>1, <1>2 DEF PolicyProbe

LEMMA OneSource == ASSUME NEW p PROVE <<p>> \in Seq({p}) /\ Injective(<<p>>) /\ <<p>> # <<>>
BY DEF Injective

LEMMA ThermalProbeKeeps == ASSUME Inv, ThermalProbe PROVE Inv'
<1>1. CASE Probed(driver, None)
  <2>1. PICK d, c : d = driver /\ c = None
    OBVIOUS
  <2>2. Probed(d, c) /\ d.sources \in Seq(Tuned) /\ Injective(d.sources)
    BY <1>1, <2>1 DEF Inv, ProcessOK
  <2>3. QED
    BY <2>1, <2>2, ProbedKeeps
<1>2. CASE Probed([Unprobed EXCEPT !.sources = <<"pci">>], ThermalCapability)
  <2>1. PICK d, c : d = [Unprobed EXCEPT !.sources = <<"pci">>] /\ c = ThermalCapability
    OBVIOUS
  <2>2. InThermal /\ Probed(d, c) /\ d.sources = <<"pci">>
    BY <1>2, <2>1 DEF ThermalProbe, Unprobed
  <2>3. d.sources \in Seq(Tuned) /\ Injective(d.sources) /\ d.sources # <<>>
    BY <2>2, OneSource DEF Tuned
  <2>4. driver' = d /\ UNCHANGED <<control, fixed>>
    BY <2>2 DEF Probed, world
  <2>5. ASSUME NEW v \in Requests, Normalized(c, v) # None
        PROVE  Accepts(Normalized(c, v))' /\ Fits(Range(d.sources), Normalized(c, v).of)
    <3>1. fixed.tjMax \in Nat /\ fixed.maxOffset \in Nat
      BY <2>2, DriversAssumption DEF Inv, WorldOK
    <3>2. PICK lo, hi : lo = Greatest(0, fixed.tjMax - fixed.maxOffset) /\ hi = fixed.tjMax
      OBVIOUS
    <3>3. lo \in Int /\ hi \in Int /\ lo >= hi - fixed.maxOffset
      BY <3>1, <3>2 DEF Greatest
    <3>4. c.range = [min |-> lo, max |-> hi, step |-> 1] /\ c.unit = "C" /\ c.choices = {}
      BY <2>1, <3>2 DEF ThermalCapability, Capability
    <3>5. c.range # None
      BY <2>5, <3>4, NormalizedOf
    <3>6. PICK w : w = Normalized(c, v)
      OBVIOUS
    <3>7. w.kind = "numeric" /\ w.of \in Int /\ lo <= w.of /\ w.of <= hi
      BY <2>5, <3>3, <3>4, <3>5, <3>6, InRange
    <3>8. fixed.tjMax - w.of \in 0..fixed.maxOffset
      BY <3>1, <3>2, <3>3, <3>7
    <3>9. Fits(Range(d.sources), w.of)
      BY <2>2, <3>7, <3>8, OneKind DEF Fits
    <3>10. ThermalAccepts(w)'
      BY <2>3, <2>4, <3>7 DEF ThermalAccepts
    <3>11. QED
      BY <2>2, <2>4, <3>6, <3>9, <3>10, AcceptsOf
  <2>6. QED
    BY <2>2, <2>3, <2>5, ProbedKeeps
<1>3. QED
  BY <1>1, <1>2 DEF ThermalProbe

LEMMA MsrProbeKeeps == ASSUME Inv, MsrProbe PROVE Inv'
<1>1. PICK d, c, p : /\ p = IF InRatio THEN "ratios" ELSE "voltage"
                     /\ d = [Unprobed EXCEPT !.sources = <<p>>] /\ c = MsrCapability
  OBVIOUS
<1>2. InMsr /\ Probed(d, c) /\ d.sources = <<p>>
  BY <1>1 DEF MsrProbe, Unprobed
<1>3. d.sources \in Seq(Tuned) /\ Injective(d.sources)
  <2>1. Tuned = {p}
    BY <1>1, <1>2, OneKind DEF Tuned, Attrs, InMsr, InSys
  <2>2. QED
    BY <1>2, <2>1, OneSource
<1>4. c.state # "supported"
  <2>1. MsrState # "supported"
    BY Zenon DEF MsrState
  <2>2. QED
    BY <1>1, <2>1 DEF MsrCapability, Capability
<1>5. \A v : Normalized(c, v) = None
  BY <1>4, NormalizedOf
<1>6. QED
  BY <1>2, <1>3, <1>5, ProbedKeeps

\* Reviewed values are prepared for what the last Probe found.
LEMMA ReviewedPrepareKeeps ==
    ASSUME Inv, ~InRatio, NEW v \in Requests, capability # None, Normalized(capability, v) # None,
           Prepared(driver.sources, Normalized(capability, v).of)
    PROVE  Inv'
<1>1. PICK ps, w : ps = driver.sources /\ w = Normalized(capability, v).of
  OBVIOUS
<1>2. ps \in Seq(Tuned) /\ Injective(ps) /\ Fits(Range(ps), w)
  BY <1>1 DEF Inv, ProcessOK, Reporting
<1>3. QED
  BY <1>1, <1>2, PreparedKeeps

LEMMA Offsets128 ==
    ASSUME NEW x \in Int, ~(x > 0 \/ x < 128 * MillivoltMin)
    PROVE  x \in 128 * MillivoltMin..0
<1>1. x <= 0 /\ -32000 <= x
  BY DEF MillivoltMin
<1>2. 128 * MillivoltMin = -32000
  BY DEF MillivoltMin
<1>3. QED
  BY <1>1, <1>2

LEMMA BuildVoltageKeeps == ASSUME Inv, NEW x \in Voltages, BuildVoltage(x) PROVE Inv'
<1>1. InVoltage /\ Prepared(<<"voltage">>, x) /\ EncodeVoltageOffset(x) # None /\ x \in Int
  BY DriversAssumption DEF BuildVoltage
<1>2. x \in 128 * MillivoltMin..0
  <2>1. ~(x > 0 \/ x < 128 * MillivoltMin)
    BY <1>1, Zenon DEF EncodeVoltageOffset
  <2>2. QED
    BY <1>1, <2>1, Offsets128
<1>3. <<"voltage">> \in Seq(Tuned) /\ Injective(<<"voltage">>) /\ ~InRatio
  BY <1>1, OneKind, OneSource DEF Tuned, Attrs, InSys
<1>4. Fits(Range(<<"voltage">>), x)
  BY <1>1, <1>2, OneKind DEF Fits
<1>5. QED
  BY <1>1, <1>3, <1>4, PreparedKeeps

LEMMA BuildRatioKeeps == ASSUME Inv, NEW r \in RatioVectors, BuildRatio(r) PROVE Inv'
<1>1. /\ InRatio /\ Prepared(<<"ratios">>, r) /\ EncodeRatios(file["ratios"], r) # None
      /\ ValidRatios(DecodeTurboRatios(file["ratios"])) /\ r \in Seq(Int)
  BY DriversAssumption DEF BuildRatio, RatiosShown
<1>2. Len(r) = Cores
  <2>1. file["ratios"] \in Seq(Nat)
    BY <1>1 DEF Inv, WorldOK
  <2>2. Len(r) = Len(DecodeTurboRatios(file["ratios"]))
    BY <1>1 DEF EncodeRatios
  <2>3. QED
    BY <2>1, <2>2 DEF DecodeTurboRatios, Cores
<1>3. <<"ratios">> \in Seq(Tuned) /\ Injective(<<"ratios">>)
  BY <1>1, OneKind, OneSource DEF Tuned, Attrs, InSys
<1>4. Fits(Range(<<"ratios">>), r)
  BY <1>1, <1>2, OneKind DEF Fits
<1>5. QED
  BY <1>1, <1>3, <1>4, PreparedKeeps

\* The drivers of sysfs attributes record them all, in the operation's order.
LEMMA SysCaptureKeeps ==
    ASSUME Inv, InSys, op # None,
           Captured([k \in DOMAIN op.sources |-> [path |-> op.sources[k], value |-> file[op.sources[k]]]])
    PROVE  Inv'
<1>1. PICK records :
        records = [k \in DOMAIN op.sources |-> [path |-> op.sources[k], value |-> file[op.sources[k]]]]
  OBVIOUS
<1>2. op.sources \in Seq(Tuned) /\ Injective(op.sources)
  BY DEF Inv, ProcessOK, Operations
<1>3. PICK n \in Nat : DOMAIN op.sources = 1..n /\ Len(op.sources) = n
  BY <1>2
<1>4. DOMAIN records = 1..n /\ \A k \in 1..n : records[k].path = op.sources[k] /\ records[k].value = file[op.sources[k]]
  BY <1>1, <1>3
<1> DEFINE values == {file[p] : p \in Tuned}
<1>5. \A k \in 1..n : records[k] \in Records(values)
  <2>1. \A k \in 1..n : op.sources[k] \in Tuned
    BY <1>2, <1>3
  <2>2. QED
    BY <1>1, <1>3, <2>1 DEF Records
<1>6. records \in Seq(Records(values))
  <2>1. PICK S : S = Records(values)
    OBVIOUS
  <2>2. records \in [1..n -> S]
    BY <1>1, <1>3, <1>5, <2>1
  <2>3. records \in Seq(S)
    BY <2>2
  <2>4. QED
    BY <2>1, <2>3
<1>7. Len(records) = n
  BY <1>4, <1>6
<1>8. SnapshotOf(records)
  <2>1. \E vs : records \in Seq(Records(vs))
    BY <1>6
  <2>2. \A j, k \in DOMAIN records : records[j].path = records[k].path => j = k
    BY <1>2, <1>3, <1>4 DEF Injective
  <2>3. QED
    BY <1>3, <1>4, <1>7, <2>1, <2>2, OneKind DEF SnapshotOf
<1>9. QED
  BY <1>1, <1>8, CapturedKeeps

\* The others record their one attribute.
LEMMA OneCaptureKeeps ==
    ASSUME Inv, ~InSys, op # None, NEW p \in Tuned, Captured(<<[path |-> p, value |-> file[p]]>>),
           InVoltage => Restorable(file[p])
    PROVE  Inv'
<1>1. PICK records, v : v = file[p] /\ records = <<[path |-> p, value |-> v]>>
  OBVIOUS
<1>2. Len(records) = 1 /\ DOMAIN records = {1} /\ records[1] = [path |-> p, value |-> v]
  BY <1>1
<1>3. records[1].path = p /\ records[1].value = v
  BY <1>2
<1>4. records \in Seq(Records({v}))
  <2>1. [path |-> p, value |-> v] \in Records({v})
    BY DEF Records
  <2>2. QED
    BY <1>1, <2>1
<1>5. SnapshotOf(records)
  <2>1. (InVoltage => p = "voltage") /\ (InRatio => p = "ratios")
    BY OneKind DEF Tuned, Attrs, InSys
  <2>2. \E vs : records \in Seq(Records(vs))
    BY <1>4
  <2>3. QED
    BY <1>1, <1>2, <1>3, <2>1, <2>2 DEF SnapshotOf
<1>6. QED
  BY <1>1, <1>5, CapturedKeeps

LEMMA VoltageCaptureKeeps == ASSUME Inv, VoltageCapture PROVE Inv'
<1>1. InVoltage /\ op # None /\ ~InSys /\ "voltage" \in Tuned
  BY OneKind DEF VoltageCapture, Tuned, Attrs, InSys
<1>2. CASE Restorable(file["voltage"])
  <2>1. Captured(<<[path |-> "voltage", value |-> file["voltage"]]>>)
    BY <1>2 DEF VoltageCapture
  <2>2. QED
    BY <1>1, <1>2, <2>1, OneCaptureKeeps
<1>3. CASE ~Restorable(file["voltage"])
  BY <1>3, RefusedKeeps DEF VoltageCapture
<1>4. QED
  BY <1>2, <1>3

-----------------------------------------------------------------------------
(* Every step.                                                             *)

LEMMA NextInv == Inv /\ [Next]_vars => Inv'
<1> SUFFICES ASSUME Inv, [Next]_vars PROVE Inv'
  OBVIOUS
<1>1. CASE DriverNext
  <2>1. CASE CallApply
    BY <2>1, CallApplyKeeps
  <2>2. CASE CallRestore
    BY <2>2, CallRestoreKeeps
  <2>3. CASE Finish
    BY <2>3, FinishKeeps
  <2>4. CASE Cancel
    BY <2>4, CancelKeeps
  <2>5. CASE Kill
    BY <2>5, KillKeeps
  <2>6. CASE ProbeFails \/ \E p \in DOMAIN file : Disappear(p) \/ Reappear(p)
    BY <2>6, OutsideKeeps
  <2>7. QED
    BY <1>1, <2>1, <2>2, <2>3, <2>4, <2>5, <2>6 DEF DriverNext
<1>2. CASE PowercapNext(Requests)
  <2>1. CASE PowercapProbe
    BY <2>1, PowercapProbeKeeps
  <2>2. CASE PowercapCapture
    BY <2>2, SysCaptureKeeps DEF PowercapCapture, InSys
  <2>3. ASSUME NEW v \in Requests, InPowercap, capability # None, Normalized(capability, v) # None,
               PowercapPrepare(Normalized(capability, v))
        PROVE  Inv'
    BY <2>3, ReviewedPrepareKeeps, OneKind DEF PowercapPrepare, InSys
  <2>4. CASE PowercapApply \/ PowercapUndo \/ PowercapRestore
    BY <2>4, PowercapSteps, SysStep
  <2>5. QED
    BY <1>2, <2>1, <2>2, <2>3, <2>4 DEF PowercapNext
<1>3. CASE PolicyNext(Requests)
  <2>1. CASE PolicyProbe
    BY <2>1, PolicyProbeKeeps
  <2>2. CASE PolicyCapture
    BY <2>2, SysCaptureKeeps DEF PolicyCapture, InSys
  <2>3. ASSUME NEW v \in Requests, InPolicy, capability # None, Normalized(capability, v) # None,
               PolicyPrepare(Normalized(capability, v))
        PROVE  Inv'
    BY <2>3, ReviewedPrepareKeeps, OneKind DEF PolicyPrepare, InSys
  <2>4. CASE PolicyApply \/ PolicyUndo \/ PolicyRestore
    BY <2>4, PolicySteps, SysStep
  <2>5. QED
    BY <1>3, <2>1, <2>2, <2>3, <2>4 DEF PolicyNext
<1>4. CASE ThermalNext(Requests)
  <2>1. CASE ThermalProbe
    BY <2>1, ThermalProbeKeeps
  <2>2. CASE ThermalCapture
    <3>1. ~InSys /\ ~InVoltage /\ "pci" \in Tuned
      BY <2>2, OneKind DEF ThermalCapture, Tuned
    <3>2. Captured(<<[path |-> "pci", value |-> file["pci"]]>>) /\ op # None
      BY <2>2 DEF ThermalCapture
    <3>3. QED
      BY <3>1, <3>2, OneCaptureKeeps
  <2>3. ASSUME NEW v \in Requests, InThermal, capability # None, Normalized(capability, v) # None,
               ThermalPrepare(Normalized(capability, v))
        PROVE  Inv'
    BY <2>3, ReviewedPrepareKeeps, OneKind DEF ThermalPrepare
  <2>4. CASE ThermalApply \/ ThermalRestore
    BY <2>4, ThermalStep
  <2>5. QED
    BY <1>4, <2>1, <2>2, <2>3, <2>4 DEF ThermalNext
<1>5. CASE MsrNext(Voltages, RatioVectors)
  <2>1. CASE MsrProbe
    BY <2>1, MsrProbeKeeps
  <2>2. CASE VoltageCapture
    BY <2>2, VoltageCaptureKeeps
  <2>3. CASE RatioCapture
    <3>1. ~InSys /\ ~InVoltage /\ "ratios" \in Tuned
      BY <2>3, OneKind DEF RatioCapture, Tuned, Attrs, InSys
    <3>2. Captured(<<[path |-> "ratios", value |-> file["ratios"]]>>) /\ op # None
      BY <2>3 DEF RatioCapture
    <3>3. QED
      BY <3>1, <3>2, OneCaptureKeeps
  <2>4. ASSUME NEW x \in Voltages, BuildVoltage(x) PROVE Inv'
    BY <2>4, BuildVoltageKeeps
  <2>5. ASSUME NEW r \in RatioVectors, BuildRatio(r) PROVE Inv'
    BY <2>5, BuildRatioKeeps
  <2>6. CASE VoltageApply \/ VoltageRestore
    BY <2>6, VoltageStep
  <2>7. CASE RatioApply \/ RatioRestore
    BY <2>7, RatioStep
  <2>8. QED
    BY <1>5, <2>1, <2>2, <2>3, <2>4, <2>5, <2>6, <2>7 DEF MsrNext
<1>6. CASE UNCHANGED vars
  <2>1. UNCHANGED <<world, process, call, last, faults, blamed, excused>>
    BY <1>6 DEF vars, world, process
  <2>2. UNCHANGED <<control, fixed, file, present, driver, capability, op, record, wanted, call, last, blamed, excused>>
    BY <2>1 DEF world, process
  <2>3. WorldOK' /\ ProcessOK'
    BY <2>2, WorldKept, ProcessKept DEF Inv, WorldOK, ProcessOK
  <2>4. RecordOK' /\ Asking' /\ Explained' /\ Reporting' /\ AppliedAsReviewed'
    BY <2>2, RecordKept, AskingKept, ExplainedKept, ReportingKept, AppliedKept DEF Inv
  <2>5. AtCapture' = AtCapture /\ Known' = Known /\ Recorded' = Recorded
    BY <2>2 DEF AtCapture, Known, Recorded, Sources
  <2>6. Calling' /\ Restoring' /\ Excuses'
    BY <2>2, <2>5, SameKind DEF Inv, Calling, Restoring, Excuses, Idle, Running
  <2>7. QED
    BY <2>3, <2>4, <2>6 DEF Inv
<1>7. QED
  BY <1>1, <1>2, <1>3, <1>4, <1>5, <1>6 DEF Next

-----------------------------------------------------------------------------
(* The refinement of ControlContract.                                      *)

\* A step of a running call, as the engine sees it.
CallGoesOn ==
    /\ ~Idle /\ record' = record
    /\ \/ ~Idle' /\ (call'.name = call.name \/ (Running("apply") /\ call'.name = "undo"))
       \/ \E ok \in BOOLEAN : Outcome(ok)
    /\ Running("restore") /\ AtCapture => AtCapture'

\* Writing a captured value where it is does no harm, also when it fails.
LEMMA WriteBackHarmless ==
    ASSUME Inv, NEW k \in DOMAIN record, NEW ok \in BOOLEAN, record # None,
           Write(record[k].path, record[k].value, ok), record' = record, AtCapture
    PROVE  AtCapture'
<1>1. PICK p, v : p = record[k].path /\ v = record[k].value
  OBVIOUS
<1>2. p \in Attrs /\ \A j \in DOMAIN record : record[j].path \in Attrs
  BY <1>1, Snapshot DEF Inv
<1>3. file[p] = v
  BY <1>1 DEF AtCapture
<1>4. /\ \A q \in Attrs \ {p} : file'[q] = file[q]
      /\ file[p] = v => file'[p] = v
  BY <1>1, <1>2, Writes DEF Inv
<1>5. \A q \in Attrs : file'[q] = file[q]
  BY <1>3, <1>4
<1>6. QED
  BY <1>2, <1>5 DEF AtCapture

LEMMA SameAtCapture ==
    ASSUME UNCHANGED <<file, record>>
    PROVE  AtCapture' = AtCapture
BY DEF AtCapture

LEMMA SysGoesOn == ASSUME Inv, SysApply \/ SysUndo \/ SysRestore PROVE CallGoesOn
<1>1. call \in Calls /\ record' = record
  BY DEF SysApply, SysUndo, SysRestore, process, Inv, ProcessOK
<1>2. CASE SysApply
  <2>1. Running("apply") /\ ~Idle /\ ~Running("restore") /\ call.i - 1 \in Nat
    <3>1. Running("apply") /\ ~Idle /\ ~Running("restore")
      BY <1>2 DEF SysApply, Idle, Running
    <3>2. call.i \in Nat /\ call.i >= 1
      BY <1>2, <3>1, Looping DEF Inv, Calling, SysApply
    <3>3. QED
      BY <3>1, <3>2
  <2>2. UndoFrom(call.i - 1) => call'.name = "undo"
    BY <1>1, <2>1, UndoType
  <2>3. call' = [call EXCEPT !.i = @ + 1] => call'.name = call.name
    BY <1>1, ForthType
  <2>4. \/ UndoFrom(call.i - 1) \/ call' = [call EXCEPT !.i = @ + 1]
        \/ \E ok \in BOOLEAN : Outcome(ok)
    BY <1>2 DEF SysApply
  <2>5. QED
    BY <1>1, <2>1, <2>2, <2>3, <2>4 DEF CallGoesOn, Idle, Running
<1>3. CASE SysUndo
  <2>1. Running("undo") /\ ~Idle /\ ~Running("restore")
    BY <1>3 DEF SysUndo, Idle, Running
  <2>2. call.i > 0 /\ call' = [call EXCEPT !.i = @ - 1] => call'.name = call.name
    BY <1>1, BackType
  <2>3. (call.i > 0 /\ call' = [call EXCEPT !.i = @ - 1]) \/ Outcome(FALSE)
    BY <1>3 DEF SysUndo
  <2>4. QED
    BY <1>1, <2>1, <2>2, <2>3 DEF CallGoesOn, Idle, Running
<1>4. CASE SysRestore
  <2>1. Running("restore") /\ ~Idle /\ InSys
    BY <1>4 DEF SysRestore, Idle, Running
  <2>2. ASSUME call.i > 0, NEW ok \in BOOLEAN, Write(record[call.i].path, record[call.i].value, ok),
               call' = [call EXCEPT !.i = @ - 1, !.failed = @ \/ ~ok]
        PROVE  CallGoesOn
    <3>1. call'.name = call.name
      BY <1>1, <2>2, BackType
    <3>2. record # None /\ call.i \in DOMAIN record
      BY <2>1, <2>2, Looping DEF Inv, Calling
    <3>3. AtCapture => AtCapture'
      <4>1. PICK k : k = call.i
        OBVIOUS
      <4>2. QED
        BY <1>1, <2>2, <3>2, <4>1, WriteBackHarmless
    <3>4. QED
      BY <1>1, <2>1, <3>1, <3>3 DEF CallGoesOn, Idle, Running
  <2>3. ASSUME NEW ok \in BOOLEAN, Outcome(ok), file' = file
        PROVE  CallGoesOn
    BY <1>1, <2>1, <2>3, SameAtCapture DEF CallGoesOn
  <2>4. QED
    BY <1>4, <2>2, <2>3 DEF SysRestore
<1>5. QED
  BY <1>2, <1>3, <1>4

LEMMA ThermalGoesOn == ASSUME Inv, ThermalApply \/ ThermalRestore PROVE CallGoesOn
<1>1. record' = record /\ InThermal /\ ~Idle /\ (Running("apply") \/ Running("restore"))
  BY DEF ThermalApply, ThermalRestore, process, Idle, Running
<1>2. record # None /\ DOMAIN record = {1} /\ record[1].path = "pci"
  BY <1>1, CallRuns, OneRecord, OneKind
<1>3. \E ok \in BOOLEAN : Outcome(ok)
  BY DEF ThermalApply, ThermalRestore, writeOffset
<1>4. ASSUME Running("restore"), AtCapture PROVE AtCapture'
  <2>1. file["pci"] = record[1].value
    BY <1>2, <1>4 DEF AtCapture
  <2>2. \/ file' = file
        \/ ShowOffset(record[1].value)
        \/ \E w \in {file["pci"]} : ShowOffset(w)
    <3>1. ThermalRestore
      BY <1>4 DEF ThermalApply, Running
    <3>2. CASE writeOffset(record[1].value)
      BY <2>1, <3>2 DEF writeOffset
    <3>3. QED
      BY <3>1, <3>2 DEF ThermalRestore
  <2>3. file'["pci"] = file["pci"]
    <3>1. PICK v : v = record[1].value
      OBVIOUS
    <3>2. ShowOffset(v) => file'["pci"] = v
      BY <1>1, Shown
    <3>3. file["pci"] = v /\ (file' = file \/ ShowOffset(v))
      BY <2>1, <2>2, <3>1
    <3>4. QED
      BY <3>2, <3>3
  <2>4. QED
    BY <1>1, <1>2, <2>1, <2>3 DEF AtCapture
<1>5. QED
  BY <1>1, <1>3, <1>4 DEF CallGoesOn

LEMMA RatioGoesOn == ASSUME Inv, RatioApply \/ RatioRestore PROVE CallGoesOn
<1>1. record' = record /\ InRatio /\ ~Idle /\ (Running("apply") \/ Running("restore"))
  BY DEF RatioApply, RatioRestore, process, Idle, Running
<1>2. record # None /\ DOMAIN record = {1} /\ record[1].path = "ratios"
  BY <1>1, CallRuns, OneRecord, OneKind
<1>3. \E ok \in BOOLEAN : Outcome(ok)
  BY DEF RatioApply, RatioRestore
<1>4. ASSUME Running("restore"), AtCapture PROVE AtCapture'
  <2>1. RatioRestore
    BY <1>4 DEF RatioApply, Running
  <2>2. CASE file' = file
    BY <1>1, <1>4, <2>2, SameAtCapture
  <2>3. ASSUME NEW ok \in BOOLEAN, Write("ratios", record[1].value, ok) PROVE AtCapture'
    BY <1>1, <1>2, <1>4, <2>3, WriteBackHarmless
  <2>4. QED
    BY <2>1, <2>2, <2>3 DEF RatioRestore
<1>5. QED
  BY <1>1, <1>3, <1>4 DEF CallGoesOn

LEMMA VoltageGoesOn == ASSUME Inv, VoltageApply \/ VoltageRestore PROVE CallGoesOn
<1>1. /\ record' = record /\ InVoltage /\ ~Idle /\ call \in Calls
      /\ Running("apply") \/ Running("undo") \/ Running("restore")
  BY DEF VoltageApply, VoltageRestore, process, Idle, Running, Inv, ProcessOK
<1>2. record # None /\ DOMAIN record = {1} /\ record[1].path = "voltage"
  BY <1>1, CallRuns, OneRecord, OneKind
<1>3. StepFails => \/ Running("apply") /\ call'.name = "undo"
                   \/ \E ok \in BOOLEAN : Outcome(ok)
  BY <1>1, StepBackType DEF StepFails
<1>4. \A n \in Nat : call' = [call EXCEPT !.i = n] => call'.name = call.name
  BY <1>1, MoveType
<1>5. ASSUME NEW target, stepTo(target)
      PROVE  \/ ~Idle' /\ (call'.name = call.name \/ (Running("apply") /\ call'.name = "undo"))
             \/ \E ok \in BOOLEAN : Outcome(ok)
  <2>1. \/ StepFails \/ call' = [call EXCEPT !.i = 2] \/ call' = [call EXCEPT !.i = 3]
        \/ Outcome(~Running("undo"))
    BY <1>5 DEF stepTo
  <2>2. (~Running("undo")) \in BOOLEAN
    OBVIOUS
  <2>3. QED
    BY <1>1, <1>3, <1>4, <2>1, <2>2 DEF Idle, Running
<1>6. ASSUME NEW target, stepTo(target), Units(file["voltage"]) = target
      PROVE  file' = file
  BY <1>6 DEF stepTo
<1>7. CASE VoltageApply
  <2>1. ~Running("restore")
    BY <1>7 DEF VoltageApply, Running
  <2>2. \E target : stepTo(target)
    BY <1>7 DEF VoltageApply
  <2>3. QED
    BY <1>1, <1>5, <2>1, <2>2 DEF CallGoesOn
<1>8. CASE VoltageRestore
  <2>1. Running("restore")
    BY <1>8 DEF VoltageRestore
  <2>2. Restorable(record[1].value)
    BY <1>1, <1>2 DEF Inv, RecordOK
  <2>3. PICK target : target = Units(record[1].value)
    OBVIOUS
  <2>4. stepTo(target)
    BY <1>8, <2>2, <2>3 DEF VoltageRestore
  <2>5. AtCapture => file' = file
    BY <1>2, <1>6, <2>3, <2>4 DEF AtCapture
  <2>6. AtCapture => AtCapture'
    BY <1>1, <2>5, SameAtCapture
  <2>7. QED
    BY <1>1, <1>5, <2>4, <2>6 DEF CallGoesOn
<1>9. QED
  BY <1>7, <1>8

\* A step between calls: nothing moves.
StaysIdle ==
    /\ Idle /\ Idle'
    /\ AtCapture' = AtCapture
    /\ last' = last \/ last'.name \in {"none", "capture"}

LEMMA CapturedIdles ==
    ASSUME Inv, NEW records, Captured(records),
           \A k \in DOMAIN records : file[records[k].path] = records[k].value
    PROVE  StaysIdle
<1>1. /\ Idle /\ record = None /\ UNCHANGED <<call, file>>
      /\ last'.name = "capture"
      /\ record' = records \/ record' = record
  BY DEF Captured, world
<1>2. Idle' /\ AtCapture /\ AtCapture'
  BY <1>1 DEF AtCapture, Idle, Running
<1>3. QED
  BY <1>1, <1>2, Zenon DEF StaysIdle, AtCapture

LEMMA ProbesAndPreparesIdle ==
    ASSUME NEW d, NEW c, Probed(d, c) \/ Prepared(d, c)
    PROVE  StaysIdle
<1>1. /\ Idle /\ call' = call /\ UNCHANGED <<file, record>>
      /\ last' = last \/ last'.name = "none"
  BY DEF Probed, Prepared, world, Nothing
<1>2. Idle' /\ AtCapture' = AtCapture
  BY <1>1, SameAtCapture DEF Idle, Running
<1>3. QED
  BY <1>1, <1>2 DEF StaysIdle

\* Outside the calls: a call begins, nothing that the engine sees happens,
\* or the process is killed.
LEMMA AroundCalls ==
    ASSUME Inv, DriverNext
    PROVE  \/ CallApply \/ CallRestore \/ Kill
           \/ StaysIdle
           \/ call'.name = call.name /\ last' = last /\ AtCapture' = AtCapture
<1>1. CASE Finish
  <2>1. /\ Idle /\ last.name = "restore" /\ last.ok
        /\ record' = None /\ call' = call /\ last'.name = "none"
    BY <1>1 DEF Finish, Nothing
  <2>2. AtCapture /\ AtCapture' /\ Idle'
    BY <2>1 DEF Inv, Restoring, AtCapture, Idle, Running
  <2>3. QED
    BY <2>1, <2>2, Zenon DEF StaysIdle, AtCapture
<1>2. CASE Cancel
  <2>1. UNCHANGED <<file, record, last>> /\ call' = [call EXCEPT !.cancelled = TRUE] /\ call \in Calls
    BY <1>2 DEF Cancel, world, process, Inv, ProcessOK
  <2>2. call'.name = call.name
    BY <2>1 DEF Calls
  <2>3. QED
    BY <2>1, <2>2, SameAtCapture
<1>3. CASE ProbeFails \/ \E p \in DOMAIN file : Disappear(p) \/ Reappear(p)
  <2>1. UNCHANGED <<file, record, last, call>>
    BY <1>3 DEF ProbeFails, Disappear, Reappear, world, process
  <2>2. QED
    BY <2>1, SameAtCapture
<1>4. QED
  BY <1>1, <1>2, <1>3 DEF DriverNext

\* What the drivers do: between calls nothing moves, and a call goes on.
LEMMA DriversStep ==
    ASSUME Inv,
           \/ PowercapNext(Requests) \/ PolicyNext(Requests) \/ ThermalNext(Requests)
           \/ MsrNext(Voltages, RatioVectors)
    PROVE  StaysIdle \/ CallGoesOn
<1>1. CASE PowercapNext(Requests)
  <2>1. CASE PowercapProbe
    BY <2>1, ProbesAndPreparesIdle DEF PowercapProbe
  <2>2. CASE PowercapCapture
    <3>1. PICK records : records = [k \in DOMAIN op.sources |-> [path |-> op.sources[k], value |-> file[op.sources[k]]]]
      OBVIOUS
    <3>2. Captured(records) /\ \A k \in DOMAIN records : file[records[k].path] = records[k].value
      BY <2>2, <3>1 DEF PowercapCapture
    <3>3. QED
      BY <3>2, CapturedIdles
  <2>3. ASSUME NEW v \in Requests, PowercapPrepare(Normalized(capability, v))
        PROVE  StaysIdle
    BY <2>3, ProbesAndPreparesIdle DEF PowercapPrepare
  <2>4. CASE PowercapApply \/ PowercapUndo \/ PowercapRestore
    BY <2>4, PowercapSteps, SysGoesOn
  <2>5. QED
    BY <1>1, <2>1, <2>2, <2>3, <2>4 DEF PowercapNext
<1>2. CASE PolicyNext(Requests)
  <2>1. CASE PolicyProbe
    BY <2>1, ProbesAndPreparesIdle DEF PolicyProbe
  <2>2. CASE PolicyCapture
    <3>1. PICK records : records = [k \in DOMAIN op.sources |-> [path |-> op.sources[k], value |-> file[op.sources[k]]]]
      OBVIOUS
    <3>2. Captured(records) /\ \A k \in DOMAIN records : file[records[k].path] = records[k].value
      BY <2>2, <3>1 DEF PolicyCapture
    <3>3. QED
      BY <3>2, CapturedIdles
  <2>3. ASSUME NEW v \in Requests, PolicyPrepare(Normalized(capability, v))
        PROVE  StaysIdle
    BY <2>3, ProbesAndPreparesIdle DEF PolicyPrepare
  <2>4. CASE PolicyApply \/ PolicyUndo \/ PolicyRestore
    BY <2>4, PolicySteps, SysGoesOn
  <2>5. QED
    BY <1>2, <2>1, <2>2, <2>3, <2>4 DEF PolicyNext
<1>3. CASE ThermalNext(Requests)
  <2>1. CASE ThermalProbe
    BY <2>1, ProbesAndPreparesIdle DEF ThermalProbe
  <2>2. CASE ThermalCapture
    <3>1. PICK records : records = <<[path |-> "pci", value |-> file["pci"]]>>
      OBVIOUS
    <3>2. Captured(records) /\ \A k \in DOMAIN records : file[records[k].path] = records[k].value
      BY <2>2, <3>1 DEF ThermalCapture
    <3>3. QED
      BY <3>2, CapturedIdles
  <2>3. ASSUME NEW v \in Requests, ThermalPrepare(Normalized(capability, v))
        PROVE  StaysIdle
    BY <2>3, ProbesAndPreparesIdle DEF ThermalPrepare
  <2>4. CASE ThermalApply \/ ThermalRestore
    BY <2>4, ThermalGoesOn
  <2>5. QED
    BY <1>3, <2>1, <2>2, <2>3, <2>4 DEF ThermalNext
<1>4. CASE MsrNext(Voltages, RatioVectors)
  <2>1. CASE MsrProbe
    BY <2>1, ProbesAndPreparesIdle DEF MsrProbe
  <2>2. ASSUME NEW p, Captured(<<[path |-> p, value |-> file[p]]>>)
        PROVE  StaysIdle
    <3>1. PICK records : records = <<[path |-> p, value |-> file[p]]>>
      OBVIOUS
    <3>2. Captured(records) /\ \A k \in DOMAIN records : file[records[k].path] = records[k].value
      BY <2>2, <3>1
    <3>3. QED
      BY <3>2, CapturedIdles
  <2>3. CASE VoltageCapture
    <3>1. CASE Captured(<<[path |-> "voltage", value |-> file["voltage"]]>>)
      BY <2>2, <3>1
    <3>2. CASE Idle /\ UNCHANGED <<world, record, call, last>>
      <4>1. UNCHANGED <<file, record, call, last>>
        BY <3>2 DEF world
      <4>2. QED
        BY <3>2, <4>1, SameAtCapture DEF StaysIdle, Idle, Running
    <3>3. QED
      BY <2>3, <3>1, <3>2 DEF VoltageCapture
  <2>4. CASE RatioCapture
    BY <2>2, <2>4 DEF RatioCapture
  <2>5. ASSUME NEW x, BuildVoltage(x) \/ BuildRatio(x)
        PROVE  StaysIdle
    BY <2>5, ProbesAndPreparesIdle DEF BuildVoltage, BuildRatio
  <2>6. CASE VoltageApply \/ VoltageRestore
    BY <2>6, VoltageGoesOn
  <2>7. CASE RatioApply \/ RatioRestore
    BY <2>7, RatioGoesOn
  <2>8. QED
    BY <1>4, <2>1, <2>3, <2>4, <2>5, <2>6, <2>7 DEF MsrNext
<1>5. QED
  BY <1>1, <1>2, <1>3, <1>4

LEMMA Booleans == AtCapture \in BOOLEAN /\ AtCapture' \in BOOLEAN
BY Zenon DEF AtCapture

LEMMA ContractStep ==
    ASSUME Inv, Inv', [Next]_vars
    PROVE  [Contract!Next]_(Contract!vars)
<1>1. call.name \in {"none", "apply", "undo", "restore"} /\ call'.name \in {"none", "apply", "undo", "restore"}
  BY DEF Inv, ProcessOK, Calls
<1>2. /\ Idle => Phase = "idle" /\ call.name = "none"
      /\ ~Idle => Ended = "none" /\ Phase \in {"apply", "restore"}
      /\ Phase = "restore" <=> Running("restore")
      /\ Idle' => Phase' = "idle"
      /\ ~Idle' => Ended' = "none" /\ Phase' \in {"apply", "restore"}
      /\ Running("restore") => ~Idle
  BY <1>1 DEF Phase, Ended, Idle, Running
<1>3. Contract!vars' = <<Phase', AtCapture', Ended'>> /\ Contract!vars = <<Phase, AtCapture, Ended>>
  BY DEF Contract!vars
<1>4. CASE CallApply \/ CallRestore
  <2>1. Idle /\ ~Idle' /\ UNCHANGED <<file, record>>
    BY <1>4 DEF CallApply, CallRestore, world, process, NoCall, Idle, Running
  <2>2. AtCapture' = AtCapture
    BY <2>1, SameAtCapture
  <2>3. Contract!Call
    BY <1>2, <2>1, <2>2 DEF Contract!Call
  <2>4. QED
    BY <2>3 DEF Contract!Next
<1>5. CASE Kill
  <2>1. Idle' /\ last'.name = "none" /\ UNCHANGED <<file, record>>
    BY <1>5 DEF Kill, world, NoCall, Nothing, Idle, Running
  <2>2. AtCapture' = AtCapture
    BY <2>1, SameAtCapture
  <2>3. Ended' = "none"
    BY <2>1 DEF Ended
  <2>4. Contract!Settle
    BY <1>2, <2>1, <2>2, <2>3 DEF Contract!Settle
  <2>5. QED
    BY <2>4 DEF Contract!Next
<1>6. CASE StaysIdle
  <2>1. Phase = "idle" /\ Phase' = "idle" /\ AtCapture' = AtCapture
    BY <1>2, <1>6 DEF StaysIdle
  <2>2. CASE last' = last
    <3>1. Ended' = Ended
      BY <1>6, <2>2 DEF StaysIdle, Ended
    <3>2. QED
      BY <1>3, <2>1, <3>1
  <2>3. CASE last'.name \in {"none", "capture"}
    <3>1. Ended' = "none"
      BY <2>3 DEF Ended
    <3>2. Contract!Settle
      BY <2>1, <3>1 DEF Contract!Settle
    <3>3. QED
      BY <3>2 DEF Contract!Next
  <2>4. QED
    BY <1>6, <2>2, <2>3 DEF StaysIdle
<1>7. CASE call'.name = call.name /\ last' = last /\ AtCapture' = AtCapture
  <2>1. Phase' = Phase /\ Ended' = Ended
    BY <1>7 DEF Phase, Ended, Idle, Running
  <2>2. QED
    BY <1>3, <1>7, <2>1
<1>8. CASE CallGoesOn
  <2>1. ~Idle
    BY <1>8 DEF CallGoesOn
  <2>2. CASE ~Idle' /\ (call'.name = call.name \/ (Running("apply") /\ call'.name = "undo"))
    <3>1. Phase' = Phase /\ Ended' = "none" /\ Ended = "none"
      BY <1>2, <2>1, <2>2 DEF Phase, Idle, Running
    <3>2. CASE Phase = "apply"
      <4>1. Contract!Write
        BY <3>1, <3>2, Booleans, Zenon DEF Contract!Write
      <4>2. QED
        BY <4>1 DEF Contract!Next
    <3>3. CASE Phase = "restore"
      <4>1. AtCapture => AtCapture'
        BY <1>2, <1>8, <3>3 DEF CallGoesOn
      <4>2. Contract!WriteBack
        BY <3>1, <3>3, <4>1, Booleans, Zenon DEF Contract!WriteBack
      <4>3. QED
        BY <4>2 DEF Contract!Next
    <3>4. QED
      BY <1>2, <2>1, <3>2, <3>3
  <2>3. ASSUME NEW ok \in BOOLEAN, Outcome(ok)
        PROVE  Contract!Return
    <3>1. /\ Idle' /\ last'.ok = ok
          /\ last'.name = IF Running("restore") THEN "restore" ELSE "apply"
      BY <2>1, <2>3, OutcomeType
    <3>2. Phase # "idle" /\ Phase' = "idle" /\ Ended' \in {"ok", "failed"}
      BY <1>2, <2>1, <3>1 DEF Ended
    <3>3. Phase = "restore" => (AtCapture => AtCapture')
      BY <1>2, <1>8 DEF CallGoesOn
    <3>4. Phase = "restore" => (Ended' = "ok" => AtCapture')
      <4>1. Ended' = "ok" => ok
        BY <3>1 DEF Ended
      <4>2. Running("restore") /\ ok => AtCapture'
        BY <3>1 DEF Inv, Restoring
      <4>3. QED
        BY <1>2, <4>1, <4>2
    <3>5. QED
      BY <3>2, <3>3, <3>4, Booleans, Zenon DEF Contract!Return
  <2>4. QED
    BY <1>8, <2>2, <2>3 DEF CallGoesOn, Contract!Next
<1>9. CASE UNCHANGED vars
  <2>1. UNCHANGED <<file, record, call, last>>
    BY <1>9 DEF vars
  <2>2. QED
    BY <1>7, <2>1, SameAtCapture
<1>10. QED
  BY <1>4, <1>5, <1>6, <1>7, <1>8, <1>9, AroundCalls, DriversStep DEF Next

-----------------------------------------------------------------------------
(* Theorems                                                                *)

\* The invariant holds for every limit, offer, offset, voltage and ratio
\* table, and any number of faults.
THEOREM InvAlways == Spec => []Inv
<1>1. Init => Inv
  BY InitInv
<1>2. Inv /\ [Next]_vars => Inv'
  BY NextInv
<1>3. QED
  BY <1>1, <1>2, PTL DEF Spec

\* Files, operations and records hold what they should: no attribute is made
\* up or lost, a record names each of its attributes once, and what a
\* register is to be restored to can be written back.
THEOREM TypeCorrect == Spec => [](WorldOK /\ ProcessOK /\ RecordOK)
<1>1. Inv => WorldOK /\ ProcessOK /\ RecordOK
  BY DEF Inv
<1>2. QED
  BY <1>1, InvAlways, PTL

\* Apply is reported as done only when every attribute holds what was
\* reviewed, and no zone is asked for more than its bound (operation.Apply
\* of every driver).
THEOREM AppliedAlwaysReviewed == Spec => []AppliedAsReviewed
<1>1. Inv => AppliedAsReviewed
  BY DEF Inv
<1>2. QED
  BY <1>1, InvAlways, PTL

\* At any moment, in the middle of a call and after a kill, an attribute on
\* which no write failed holds its captured or its requested value, and a
\* voltage lies between them: no undo and no restore overshoots.
THEOREM FilesAlwaysExplained == Spec => []FilesAreExplained
<1>1. Inv => FilesAreExplained
  <2>1. SUFFICES ASSUME Inv, record # None, NEW k \in DOMAIN record, record[k].path \notin blamed
                 PROVE  \/ InVoltage /\ (Near(Units(file[record[k].path]), wanted)
                              \/ Between(Unit * Units(file[record[k].path]),
                                         DecodeVoltageOffset(record[k].value), wanted))
                        \/ ~InVoltage /\ file[record[k].path] \in {record[k].value, Asked(record[k])}
    BY DEF FilesAreExplained
  <2>2. CASE ~InVoltage
    BY <2>1, <2>2 DEF Inv, Explained
  <2>3. CASE InVoltage
    <3>1. k = 1 /\ record[k].path = "voltage"
      BY <2>1, <2>3, OneRecord, OneKind
    <3>2. PICK units, captured : units = Units(file["voltage"]) /\ captured = Units(record[1].value)
      OBVIOUS
    <3>3. units \in Int /\ captured \in Int /\ wanted \in 128 * MillivoltMin..0
      <4>1. file["voltage"] \in Words /\ record[1].value \in Words
        BY <2>1, <2>3 DEF Inv, WorldOK, RecordOK
      <4>2. wanted \in 128 * MillivoltMin..0
        BY <2>1, <2>3 DEF Inv, Asking, Fits
      <4>3. QED
        BY <3>2, <4>1, <4>2, UnitsType
    <3>4. Between(units, captured, EncodeVoltageOffset(wanted))
      BY <2>1, <2>3, <3>1, <3>2 DEF Inv, Explained
    <3>5. PICK x : x = wanted
      OBVIOUS
    <3>6. Near(units, x) \/ Between(Unit * units, Unit * captured, x)
      BY <3>3, <3>4, <3>5, NoOvershoot
    <3>7. QED
      BY <2>3, <3>1, <3>2, <3>5, <3>6 DEF DecodeVoltageOffset
  <2>4. QED
    BY <2>2, <2>3
<1>2. QED
  BY <1>1, InvAlways, PTL

\* No call fails without a cause, and no driver refuses in Prepare what
\* passed the review of its own report.
THEOREM FailureAlwaysExcused == Spec => []FailureHasCause
<1>1. Inv => FailureHasCause
  BY DEF Inv, Excuses, Reporting, FailureHasCause
<1>2. QED
  BY <1>1, InvAlways, PTL

\* Every driver implements the contract on which the transaction engine
\* rests: a restore only moves attributes to their captured values, and one
\* that is reported as done has.
THEOREM ContractAlwaysKept == Spec => ImplementsContract
<1>1. Init => Contract!Init
  <2>1. SUFFICES ASSUME Init PROVE Contract!Init
    OBVIOUS
  <2>2. DriverInit
    BY <2>1 DEF Init, PowercapInit, PolicyInit, ThermalInit, VoltageInit, RatioInit
  <2>3. Phase = "idle" /\ Ended = "none" /\ record = None
    BY <2>2 DEF DriverInit, NoCall, Nothing, Phase, Ended, Idle, Running
  <2>4. AtCapture = TRUE
    BY <2>3, Zenon DEF AtCapture
  <2>5. QED
    BY <2>3, <2>4 DEF Contract!Init
<1>2. Inv /\ Inv' /\ [Next]_vars => [Contract!Next]_(Contract!vars)
  BY ContractStep
<1>3. QED
  BY <1>1, <1>2, InvAlways, PTL DEF Spec, ImplementsContract, Contract!Spec
=============================================================================
