--------------------------- MODULE ThermalDriver ---------------------------
(***************************************************************************)
(* internal/tuning/intel/thermal: the thermal limit is an offset below     *)
(* TjMax, written to a PCI attribute and shown by a cooling device too.    *)
(* fixed: tjMax and maxOffset; locked, the cooling device shows another    *)
(* register, so that the two need not agree.                               *)
(***************************************************************************)
EXTENDS DriverCall

Attributes == {"pci", "cooling", "hwmon"}   \* hwmon: the reference of TjMax

\* One register behind both attributes, or two of them.
ThermalInit(tjMax, maxOffset, offsets) ==
    /\ control = "tcc"
    /\ \E locked \in BOOLEAN : fixed = [tjMax |-> tjMax, maxOffset |-> maxOffset, locked |-> locked]
    /\ \E pci, cooling \in offsets :
          /\ ~fixed.locked => cooling = pci
          /\ file = [pci |-> pci, cooling |-> cooling, hwmon |-> tjMax]
    /\ present = Attributes
    /\ DriverInit

InThermal == control = "tcc"

\* While the interfaces disagree there is nothing to tune.
ThermalCapability ==
    Capability("tcc", IF file.cooling # file.pci THEN "read_only" ELSE "supported", "C",
               Numeric(fixed.tjMax - file.pci),
               [min |-> Greatest(0, fixed.tjMax - fixed.maxOffset), max |-> fixed.tjMax, step |-> 1],
               {}, "intel.tcc")

\* findCoolingDevice, findPCIAttribute and findTjMax all have to succeed.
ThermalProbe ==
    /\ InThermal
    /\ IF Attributes \subseteq present THEN Probed([Unprobed EXCEPT !.sources = <<"pci">>], ThermalCapability)
       ELSE Probed(driver, None)

ThermalAccepts(v) == v.kind = "numeric" /\ driver.sources # <<>>

ThermalPrepare(v) ==
    /\ InThermal
    /\ ThermalAccepts(v)
    /\ Prepared(driver.sources, v.of)

\* Only the PCI attribute is captured.
ThermalCapture ==
    /\ InThermal
    /\ op # None
    /\ Captured(<<[path |-> "pci", value |-> file.pci]>>)

\* writeOffset: write the PCI attribute, then both have to read back as asked.
\* What is written shows in the cooling device too, unless it is another register.
ShowOffset(w) == file' = [file EXCEPT !.pci = w, !.cooling = IF fixed.locked THEN @ ELSE w]

writeOffset(offset) ==
    LET accessible == {"pci", "cooling"} \subseteq present
    IN \/ /\ accessible
          /\ ShowOffset(offset)
          /\ Outcome(~fixed.locked \/ file.cooling = offset)
          /\ UNCHANGED <<faults, blamed, excused>>
       \/ /\ IF accessible THEN Fault ELSE UNCHANGED <<faults, excused>>
          /\ \E w \in (IF "pci" \notin present \/ file.pci = offset THEN {file.pci}
                       ELSE Leftovers[control] \cup {file.pci, offset}) : ShowOffset(w)
          /\ blamed' = blamed \cup {"pci"}
          /\ Outcome(FALSE)

requestedOffset == fixed.tjMax - op.requested

\* tccOperation.Apply has nothing of its own to undo: a failure leaves what
\* was written for the engine to restore.
ThermalApply ==
    /\ InThermal /\ Running("apply")
    /\ \/ /\ call.cancelled \/ requestedOffset < 0 \/ requestedOffset > fixed.maxOffset
          /\ Outcome(FALSE)
          /\ UNCHANGED <<file, faults, blamed, excused>>
       \/ /\ ~call.cancelled /\ requestedOffset \in 0..fixed.maxOffset
          /\ writeOffset(requestedOffset)
    /\ UNCHANGED <<control, fixed, present, process>>

ThermalRestore ==
    /\ InThermal /\ Running("restore")
    /\ \/ /\ call.cancelled \/ Sources = <<>>
          /\ Outcome(FALSE)
          /\ UNCHANGED <<file, faults, blamed, excused>>
       \/ /\ ~call.cancelled /\ Sources # <<>>
          /\ writeOffset(record[1].value)
    /\ UNCHANGED <<control, fixed, present, process>>

ThermalNext(requests) ==
    \/ ThermalProbe \/ ThermalCapture
    \/ \E v \in requests : InThermal /\ capability # None /\ Normalized(capability, v) # None
                           /\ ThermalPrepare(Normalized(capability, v))
    \/ ThermalApply \/ ThermalRestore

=============================================================================
