---------------------------- MODULE PolicyDriver ----------------------------
(***************************************************************************)
(* internal/tuning/intel/policy: the energy preference is one attribute in *)
(* every cpufreq policy, all written with the same choice.  fixed: avail,  *)
(* the preferences a policy offers, or None when it has no such attribute; *)
(* performance, some policy runs intel_pstate's performance governor;      *)
(* unverified, some governor or scaling driver cannot be read.             *)
(***************************************************************************)
EXTENDS DriverCall

Policies == <<"policy0", "policy1">>    \* sorted by path

PolicyInit(offers, values) ==
    /\ control = "epp"
    /\ \E avail \in [Range(Policies) -> offers \cup {None}], performance, unverified \in BOOLEAN :
          fixed = [avail |-> avail, performance |-> performance, unverified |-> unverified,
                   locked |-> FALSE]
    /\ file \in [Range(Policies) -> values]
    /\ present = Range(Policies)
    /\ DriverInit

InPolicy == control = "epp"

\* Policies with the interface, and those of them that can be tuned.
Interfaces == {p \in Range(Policies) : p \in present \/ fixed.avail[p] # None}
Readable == {p \in Interfaces : p \in present /\ fixed.avail[p] \notin {None, {}}}
Common == {c \in UNION {fixed.avail[p] : p \in Readable} : \A p \in Readable : c \in fixed.avail[p]}

\* What several attributes hold together, as Remaining and Restore report it.
effectivePreference(ps) ==
    IF ps = {} THEN NoValue
    ELSE IF \A p, q \in ps : file[p] = file[q] THEN Choice(file[CHOOSE p \in ps : TRUE])
    ELSE Choice("mixed")

PolicyCapability_IgnoresUnreadable ==
    Capability("epp", IF fixed.performance THEN "kernel_blocked" ELSE "supported", "choice",
               effectivePreference(Readable), None, UNION {fixed.avail[p] : p \in Readable}, "intel.epp")

\* Only preferences that every policy offers, and only when all are verified.
PolicyCapability ==
    LET blocked == fixed.performance \/ fixed.unverified \/ Readable # Interfaces \/ Common = {}
    IN Capability("epp", IF blocked THEN "kernel_blocked" ELSE "supported", "choice",
                  effectivePreference(Readable), None, Common, "intel.epp")

PolicyProbe ==
    /\ InPolicy
    /\ \/ /\ Interfaces = {}      \* nothing to report, nothing remembered
          /\ Probed(driver, None)
       \/ /\ Interfaces # {}
          /\ Probed([sources |-> Kept(Policies, Readable), choices |-> Common],
                    PolicyCapability)

PolicyAccepts(v) == /\ v.kind = "choice"
                    /\ driver.sources # <<>>
                    /\ v.of \in driver.choices

PolicyPrepare(v) ==
    /\ InPolicy
    /\ PolicyAccepts(v)
    /\ Prepared(driver.sources, v.of)

PolicyCapture ==
    /\ InPolicy
    /\ op # None
    /\ Captured([k \in DOMAIN op.sources |-> [path |-> op.sources[k], value |-> file[op.sources[k]]]])

\* writeChoice writes nothing when the attribute holds the choice already;
\* Write makes no difference between the two.
writeChoice(p, choice, ok) == Write(p, choice, ok)

PolicyUndoFrom(count) == call' = [call EXCEPT !.name = "undo", !.i = count]

\* An iteration of the loop of operation.Apply; the requested choice is the
\* result, nothing is read again.
PolicyApply ==
    /\ InPolicy /\ Running("apply")
    /\ \/ /\ call.i <= Len(Sources) /\ call.cancelled
          /\ PolicyUndoFrom(call.i - 1)
          /\ UNCHANGED <<file, last, faults, blamed, excused>>
       \/ /\ call.i <= Len(Sources) /\ ~call.cancelled
          /\ \E ok \in BOOLEAN :
                /\ writeChoice(Sources[call.i], op.requested, ok)
                /\ IF ok THEN call' = [call EXCEPT !.i = @ + 1]
                         ELSE PolicyUndoFrom(call.i - 1)
          /\ UNCHANGED last
       \/ /\ call.i > Len(Sources)
          /\ Outcome(TRUE)
          /\ UNCHANGED <<file, faults, blamed, excused>>
    /\ UNCHANGED <<control, fixed, present, process>>

PolicyUndo ==
    /\ InPolicy /\ Running("undo")
    /\ \/ /\ call.i > 0
          /\ \E ok \in BOOLEAN : writeChoice(record[call.i].path, record[call.i].value, ok)
          /\ call' = [call EXCEPT !.i = @ - 1]
          /\ UNCHANGED last
       \/ /\ call.i = 0
          /\ Outcome(FALSE)
          /\ UNCHANGED <<file, faults, blamed, excused>>
    /\ UNCHANGED <<control, fixed, present, process>>

\* operation.Restore: an attribute the driver does not know ends it, the
\* policies before it in the record stay as they are; the driver may know
\* more policies than the record names.
PolicyRestore ==
    /\ InPolicy /\ Running("restore")
    /\ \/ /\ \/ call.i > 0 /\ (call.cancelled \/ record[call.i].path \notin Known)
             \/ call.i = 0 /\ call.failed
          /\ Outcome(FALSE)
          /\ UNCHANGED <<file, faults, blamed, excused>>
       \/ /\ call.i > 0 /\ ~call.cancelled
          /\ record[call.i].path \in Known
          /\ \E ok \in BOOLEAN :
                /\ writeChoice(record[call.i].path, record[call.i].value, ok)
                /\ call' = [call EXCEPT !.i = @ - 1, !.failed = @ \/ ~ok]
          /\ UNCHANGED last
       \/ /\ call.i = 0 /\ ~call.failed
          /\ \E ok \in BOOLEAN : Read(Known, ok) /\ Outcome(ok)
          /\ UNCHANGED <<file, blamed>>
    /\ UNCHANGED <<control, fixed, present, process>>

PolicyNext(requests) ==
    \/ PolicyProbe \/ PolicyCapture
    \/ \E v \in requests : InPolicy /\ capability # None /\ Normalized(capability, v) # None
                           /\ PolicyPrepare(Normalized(capability, v))
    \/ PolicyApply \/ PolicyUndo \/ PolicyRestore

=============================================================================
