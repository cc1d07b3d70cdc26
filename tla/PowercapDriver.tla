--------------------------- MODULE PowercapDriver ---------------------------
(***************************************************************************)
(* internal/tuning/intel/powercap: a power limit is one attribute in every *)
(* powercap zone of the package (the MSR zone and the MMIO zone), all      *)
(* written with the same value.  fixed: packages, the zones that are       *)
(* top-level zones of a package; max, the upper bound each reports, or 0.  *)
(* Powers are in half watts; the step of a review is one watt.             *)
(***************************************************************************)
EXTENDS DriverCall

Watt == 2
PowerControls == {"pl1", "tau"}     \* pl2 is treated like pl1
Zones == <<"rapl", "mmio">>         \* by sourceRank, then path

PowercapInit(limits, values) ==
    /\ control \in PowerControls
    /\ \E packages \in SUBSET Range(Zones), max \in [Range(Zones) -> limits] :
          fixed = [packages |-> packages, max |-> max, locked |-> FALSE]
    /\ file \in [Range(Zones) -> values]
    /\ present = Range(Zones)
    /\ DriverInit

InPowercap == control \in PowerControls

\* discoverZone, addSource and the sort: the readable attributes, in order.
PowercapSources == Kept(Zones, fixed.packages \cap present)

\* The least of what the attributes ps hold, or bound.
LeastOf(f, ps) == f[CHOOSE p \in ps : \A q \in ps : f[p] <= f[q]]

\* capabilityFor: the least of the current values and of the bounds.  Without
\* all bounds, and for the time window, it is read-only.
PowercapCapability(ps) ==
    LET writable == control # "tau" /\ \A z \in Range(ps) : fixed.max[z] > 0
    IN Capability(control, IF writable THEN "supported" ELSE "read_only", "W",
                  Numeric(LeastOf(file, Range(ps))),
                  IF writable THEN [min |-> 0, max |-> LeastOf(fixed.max, Range(ps)), step |-> Watt]
                  ELSE None,
                  {}, "intel.powercap")

PowercapProbe ==
    /\ InPowercap
    /\ LET ps == PowercapSources
       IN Probed([Unprobed EXCEPT !.sources = ps], IF ps = <<>> THEN None ELSE PowercapCapability(ps))

\* Driver.Prepare refuses the time window and a control without sources.
PowercapAccepts(v) == /\ control # "tau"
                      /\ v.kind = "numeric"
                      /\ driver.sources # <<>>

PowercapPrepare(v) ==
    /\ InPowercap
    /\ PowercapAccepts(v)
    /\ Prepared(driver.sources, v.of)

PowercapCapture ==
    /\ InPowercap
    /\ op # None
    /\ Captured([k \in DOMAIN op.sources |-> [path |-> op.sources[k], value |-> file[op.sources[k]]]])

\* The values are read once more for the result, when they can be.
PowercapEnd(ok) ==
    /\ \/ call.cancelled /\ ~ok /\ UNCHANGED <<faults, excused>>
       \/ ~call.cancelled /\ Read(Known, ok)
    /\ Outcome(ok)
    /\ UNCHANGED <<file, blamed>>

\* rollbackWritten is entered with count sources written.
PowercapUndoFrom(count) == call' = [call EXCEPT !.name = "undo", !.i = count]

\* An iteration of the loop of operation.Apply.
PowercapApply ==
    /\ InPowercap /\ Running("apply")
    /\ \/ /\ call.i <= Len(Sources) /\ call.cancelled
          /\ PowercapUndoFrom(call.i - 1)
          /\ UNCHANGED <<file, last, faults, blamed, excused>>
       \/ /\ call.i <= Len(Sources) /\ ~call.cancelled
          /\ \E ok \in BOOLEAN :
                /\ Write(Sources[call.i], op.requested, ok)
                /\ IF ok THEN call' = [call EXCEPT !.i = @ + 1]
                         ELSE PowercapUndoFrom(call.i - 1)
          /\ UNCHANGED last
       \/ call.i > Len(Sources) /\ \E ok \in BOOLEAN : PowercapEnd(ok)
    /\ UNCHANGED <<control, fixed, present, process>>

\* rollbackWritten: backwards, and on after a failure.
PowercapUndo ==
    /\ InPowercap /\ Running("undo")
    /\ \/ /\ call.i > 0
          /\ \E ok \in BOOLEAN : Write(record[call.i].path, record[call.i].value, ok)
          /\ call' = [call EXCEPT !.i = @ - 1]
          /\ UNCHANGED last
       \/ /\ call.i = 0
          /\ Outcome(FALSE)
          /\ UNCHANGED <<file, faults, blamed, excused>>
    /\ UNCHANGED <<control, fixed, present, process>>

PowercapRestore_ForgetsFailure ==
    /\ InPowercap /\ Running("restore")
    /\ \/ /\ call.i > 0 /\ ~call.cancelled
          /\ \E ok \in BOOLEAN : Write(record[call.i].path, record[call.i].value, ok)
          /\ call' = [call EXCEPT !.i = @ - 1]
          /\ UNCHANGED last
       \/ call.i = 0 /\ \E ok \in BOOLEAN : PowercapEnd(ok)
    /\ UNCHANGED <<control, fixed, present, process>>

\* operation.Restore: the sources have to be the captured ones, in number and
\* in name; a write that fails does not stop it, a cancelled context does.
PowercapRestore ==
    /\ InPowercap /\ Running("restore")
    /\ \/ /\ \/ Len(record) # Cardinality(Known)
             \/ call.i > 0 /\ call.cancelled
             \/ call.i > 0 /\ record[call.i].path \notin Known
             \/ call.i = 0 /\ call.failed
          /\ Outcome(FALSE)
          /\ UNCHANGED <<file, faults, blamed, excused>>
       \/ /\ Len(record) = Cardinality(Known)
          /\ call.i > 0 /\ ~call.cancelled
          /\ record[call.i].path \in Known
          /\ \E ok \in BOOLEAN :
                /\ Write(record[call.i].path, record[call.i].value, ok)
                /\ call' = [call EXCEPT !.i = @ - 1, !.failed = @ \/ ~ok]
          /\ UNCHANGED last
       \/ /\ Len(record) = Cardinality(Known)
          /\ call.i = 0 /\ ~call.failed
          /\ \E ok \in BOOLEAN : PowercapEnd(ok)
    /\ UNCHANGED <<control, fixed, present, process>>

PowercapNext(requests) ==
    \/ PowercapProbe \/ PowercapCapture
    \/ \E v \in requests : InPowercap /\ capability # None /\ Normalized(capability, v) # None
                           /\ PowercapPrepare(Normalized(capability, v))
    \/ PowercapApply \/ PowercapUndo \/ PowercapRestore

=============================================================================
