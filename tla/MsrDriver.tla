----------------------------- MODULE MsrDriver -----------------------------
(***************************************************************************)
(* internal/tuning/intel/msr: voltage offsets through the overclocking     *)
(* mailbox (voltage.go) and turbo ratios (ratio.go).  The driver reports   *)
(* both as read-only and its Prepare refuses them (driver.go): only its    *)
(* Restore is reached by the program.  The operations are modelled as the  *)
(* package's tests build them, for a register that Probe accepts, because  *)
(* Restore undoes what such an operation did.                              *)
(*                                                                         *)
(* Voltages are in 1/128 mV: one unit of the register's 11-bit field is    *)
(* 125 of them (1/1.024 mV), and the arithmetic of the code is exact.      *)
(* fixed: locked, the firmware ignores voltage writes; known, the model is *)
(* on the list of LookupModel; cores, the performance cores detected.      *)
(***************************************************************************)
EXTENDS DriverCall

Unit == 125
MillivoltMin == -250
MaxStep == 10

EncodeVoltageOffset_Truncated(x) == IF x > 0 \/ x < 128 * MillivoltMin THEN None
                                    ELSE -((-x) \div Unit)

\* EncodeVoltageOffset: the units nearest to x, or None when out of range.
EncodeVoltageOffset(x) == IF x > 0 \/ x < 128 * MillivoltMin THEN None ELSE Round(x, Unit)

\* The field is a two's complement number of 11 bits.
Words == 0..2047

Field(units) == units % 2048

Units(field) == IF field > 1023 THEN field - 2048 ELSE field

DecodeVoltageOffset(field) == Unit * Units(field)

VoltageInit(fields) ==
    /\ control = "core"
    /\ \E locked, known \in BOOLEAN : fixed = [locked |-> locked, known |-> known]
    /\ \E f \in fields : /\ fixed.locked => f = 0
                         /\ file = [voltage |-> f]
    /\ present = {"voltage"}
    /\ DriverInit

\* validateDiscoveredRatios: positive and non-increasing.
ValidRatios(ratios) == \A k \in DOMAIN ratios : /\ ratios[k] > 0
                                                /\ k > 1 => ratios[k] <= ratios[k - 1]

\* DecodeTurboRatios: the low bytes, one for each known core.
Cores == 2
DecodeTurboRatios(register) == SubSeq(register, 1, Cores)

RatioInit(registers) ==
    /\ control = "pcore"
    /\ \E known \in BOOLEAN, cores \in {Cores, Cores + 1} :
          fixed = [locked |-> FALSE, known |-> known, cores |-> cores]
    /\ \E r \in registers : file = [ratios |-> r]
    /\ present = {"ratios"}
    /\ DriverInit

InVoltage == control = "core"
InRatio == control = "pcore"
InMsr == InVoltage \/ InRatio

\* Probe reports nothing it could change.  The ratio table is shown when the
\* layout is the reviewed one, the register can be read and its table is valid;
\* a voltage is not even read, as reading it is a mailbox write.
RatiosShown == /\ InRatio
               /\ fixed.cores = Cores
               /\ "ratios" \in present
               /\ ValidRatios(DecodeTurboRatios(file.ratios))

MsrState ==
    CASE ~fixed.known -> "unknown_model"
      [] fixed.known /\ InRatio /\ fixed.cores = Cores /\ "ratios" \notin present -> "kernel_blocked"
      [] OTHER -> "read_only"

MsrCapability ==
    Capability(control, MsrState, IF InRatio THEN "ratio" ELSE "mV",
               IF fixed.known /\ RatiosShown THEN Vector(DecodeTurboRatios(file.ratios)) ELSE NoValue,
               None, {}, "intel.msr")

MsrProbe ==
    /\ InMsr
    /\ Probed([Unprobed EXCEPT !.sources = IF InRatio THEN <<"ratios">> ELSE <<"voltage">>],
              MsrCapability)

\* Driver.Prepare refuses everything.
MsrAccepts(v) == FALSE

\* What encodeTurboRatiosPreserving makes of the register, or None.
EncodeRatios(register, requested) ==
    LET current == DecodeTurboRatios(register)
    IN IF /\ Len(requested) = Len(current)
          /\ \A k \in DOMAIN requested : /\ requested[k] \in 1..255
                                         /\ k > 1 => requested[k] <= requested[k - 1]
                                         /\ requested[k] <= current[k]
       THEN [k \in DOMAIN register |-> IF k <= Cores THEN requested[k] ELSE register[k]]
       ELSE None

\* The package's tests build the operations with a request in range.
BuildVoltage(x) ==
    /\ InVoltage
    /\ capability # None /\ fixed.known
    /\ EncodeVoltageOffset(x) # None
    /\ Prepared(<<"voltage">>, x)

BuildRatio(ratios) ==
    /\ InRatio
    /\ capability # None /\ fixed.known /\ RatiosShown
    /\ EncodeRatios(file.ratios, ratios) # None
    /\ Prepared(<<"ratios">>, ratios)

\* voltageOperation.Capture refuses what it could not restore exactly.
Restorable(field) ==
    LET units == EncodeVoltageOffset(DecodeVoltageOffset(field))
    IN units # None /\ Unit * units = DecodeVoltageOffset(field)

VoltageCapture ==
    /\ InVoltage
    /\ op # None
    /\ IF Restorable(file.voltage)
       THEN Captured(<<[path |-> "voltage", value |-> file.voltage]>>)
       ELSE /\ Idle /\ record = None
            /\ op' = None
            /\ UNCHANGED <<world, driver, capability, record, call, last, faults, wanted, blamed, excused>>

RatioCapture ==
    /\ InRatio
    /\ op # None
    /\ Captured(<<[path |-> "ratios", value |-> file.ratios]>>)

\* writeVoltage: the mailbox write and its read back.  Firmware that is locked
\* accepts the write and answers zero.
writeVoltage(units, ok) ==
    IF fixed.locked /\ Field(units) # file.voltage
    THEN ~ok /\ UNCHANGED <<file, faults, blamed, excused>>
    ELSE Write("voltage", Field(units), ok)

\* stepTo fails: Apply then steps back with a context that cannot be cancelled.
StepFails ==
    IF Running("apply") THEN call' = [call EXCEPT !.name = "undo", !.i = 1, !.cancelled = FALSE] /\ UNCHANGED last
    ELSE Outcome(FALSE)

NextUnits_FullStep(current, target) == current + (IF target < current THEN -MaxStep ELSE MaxStep)

\* One step of at most MaxStep units towards the target.
NextUnits(current, target) == current + Greatest(-MaxStep, Least(MaxStep, target - current))

\* voltageOperation.stepTo(target): i is 1 at its start, 2 at the head of its
\* loop, 3 in waitForHealth.  The register holds currentUnits as long as
\* writes succeed.
stepTo(target) ==
    LET current == Units(file.voltage)
    IN \/ /\ call.i = 1
          /\ \/ call.cancelled /\ StepFails /\ UNCHANGED <<faults, excused>>
             \/ /\ ~call.cancelled
                /\ \E ok \in BOOLEAN :
                      /\ Read({"voltage"}, ok)
                      /\ IF ok THEN call' = [call EXCEPT !.i = 2] /\ UNCHANGED last ELSE StepFails
          /\ UNCHANGED <<file, blamed>>
       \/ /\ call.i = 2 /\ current = target
          /\ Outcome(~Running("undo"))
          /\ UNCHANGED <<file, faults, blamed, excused>>
       \/ /\ call.i = 2 /\ current # target /\ call.cancelled
          /\ StepFails
          /\ UNCHANGED <<file, faults, blamed, excused>>
       \/ /\ call.i = 2 /\ current # target /\ ~call.cancelled
          /\ \E ok \in BOOLEAN :
                /\ writeVoltage(NextUnits(current, target), ok)
                /\ IF ok THEN call' = [call EXCEPT !.i = 3] /\ UNCHANGED last ELSE StepFails
       \/ /\ call.i = 3
          /\ IF call.cancelled THEN StepFails ELSE call' = [call EXCEPT !.i = 2] /\ UNCHANGED last
          /\ UNCHANGED <<file, faults, blamed, excused>>

VoltageApply ==
    /\ InVoltage
    /\ \/ Running("apply") /\ stepTo(EncodeVoltageOffset(op.requested))
       \/ Running("undo") /\ stepTo(Units(record[1].value))
    /\ UNCHANGED <<control, fixed, present, process>>

\* A snapshot that could not be restored exactly is refused; Capture wrote none.
VoltageRestore ==
    /\ InVoltage /\ Running("restore")
    /\ IF Restorable(record[1].value) THEN stepTo(Units(record[1].value))
       ELSE Outcome(FALSE) /\ UNCHANGED <<file, faults, blamed, excused>>
    /\ UNCHANGED <<control, fixed, present, process>>

\* ratioOperation.Apply: read, encode, write, read back; nothing to undo.
RatioApply ==
    /\ InRatio /\ Running("apply")
    /\ LET encoded == EncodeRatios(file.ratios, op.requested)
       IN \/ /\ call.cancelled \/ encoded = None
             /\ Outcome(FALSE)
             /\ UNCHANGED <<file, faults, blamed, excused>>
          \/ /\ ~call.cancelled /\ encoded # None
             /\ \E ok \in BOOLEAN : Write("ratios", encoded, ok) /\ Outcome(ok)
    /\ UNCHANGED <<control, fixed, present, process>>

RatioRestore ==
    /\ InRatio /\ Running("restore")
    /\ \/ /\ call.cancelled \/ ~ValidRatios(DecodeTurboRatios(record[1].value))
          /\ Outcome(FALSE)
          /\ UNCHANGED <<file, faults, blamed, excused>>
       \/ /\ ~call.cancelled /\ ValidRatios(DecodeTurboRatios(record[1].value))
          /\ \E ok \in BOOLEAN : Write("ratios", record[1].value, ok) /\ Outcome(ok)
    /\ UNCHANGED <<control, fixed, present, process>>

MsrNext(voltages, ratios) ==
    \/ MsrProbe \/ VoltageCapture \/ RatioCapture
    \/ \E x \in voltages : BuildVoltage(x)
    \/ \E r \in ratios : BuildRatio(r)
    \/ VoltageApply \/ VoltageRestore \/ RatioApply \/ RatioRestore

=============================================================================
