-------------------------- MODULE CapabilityReview --------------------------
(***************************************************************************)
(* From discovery to the hardware: what the tune page shows, what the user *)
(* reviews and what the root helper then applies.                          *)
(*                                                                         *)
(* Discoverer.Discover (internal/tuning/discovery.go) probes the drivers   *)
(* concurrently and publishes a growing set of capabilities, on a stream   *)
(* of its own for every activation of the page; the view model reads the   *)
(* stream and validates and reviews with what it has.  Apply sends the raw *)
(* request with the generation of that set.  The helper probes for itself, *)
(* compares generations and reviews the request again.  The firmware may   *)
(* change the limits in between.                                           *)
(***************************************************************************)
EXTENDS ChangeSets

CONSTANTS
    Drivers,            \* the drivers of a discoverer
    Reports(_, _, _),   \* Reports(process, driver, machine): what Probe returns
    Fields, Levels,     \* what the hardware holds: a level in every field
    Machines,           \* what the firmware makes of it
    Scopes              \* bounds, one of which a behaviour keeps: machines at
                        \* the start, activations, what the user may stage,
                        \* faults (the firmware interferes, a probe fails)

VARIABLES
    machine,    \* the hardware: the limits pl1 and pl2, and their bound
    streams,    \* streams[t]: the discovery of activation t
    latest,     \* Discoverer.run: the activation that called it last
    vm,         \* viewmodel.Tune: the page's state
    service,    \* desktopTuneService: the set of the helper, the pending Apply
    helper,     \* the helper: what it has read, for what, and its last set
    outcome,    \* history: what was shown to the user and what was written
    faults,     \* faults so far
    scope       \* the bounds of this behaviour

vars == <<machine, streams, latest, vm, service, helper, outcome, faults, scope>>

Hardware == [Fields -> Levels]

KernelDrivers == {"intel.powercap", "intel.epp", "intel.tcc"}

DriverPriority(d) ==
    CASE d = "intel.powercap" -> 0 [] d = "intel.epp" -> 1 [] d = "intel.tcc" -> 2
      [] d = "intel.msr" -> 10 [] OTHER -> 20

Supported(c) == c.state = "supported"
KernelSupported(c) == c.driver \in KernelDrivers /\ Supported(c)

preferCapability_AnySupported(candidate, current) ==
    \/ Supported(candidate)
    \/ ~Supported(current) /\ DriverPriority(candidate.driver) < DriverPriority(current.driver)

preferCapability(candidate, current) ==
    \/ /\ KernelSupported(candidate)
       /\ KernelSupported(current) => DriverPriority(candidate.driver) < DriverPriority(current.driver)
    \/ /\ ~KernelSupported(candidate) /\ ~KernelSupported(current)
       /\ \/ Supported(candidate) /\ ~Supported(current)
          \/ /\ Supported(candidate) = Supported(current)
             /\ DriverPriority(candidate.driver) < DriverPriority(current.driver)

\* The capabilities of one more driver are merged in; a driver reports a
\* control at most once.
Merge(merged, reports) ==
    [id \in DOMAIN merged \cup {c.id : c \in reports} |->
        IF \E c \in reports : c.id = id /\ (id \in DOMAIN merged => preferCapability(c, merged[id]))
        THEN CHOOSE c \in reports : c.id = id
        ELSE merged[id]]

generationFor_NoRange(caps) == [id \in DOMAIN caps |-> [caps[id] EXCEPT !.range = None]]

\* The hash of everything a review reads.
generationFor(caps) == caps

immutableSet(caps) == [generation |-> generationFor(caps), caps |-> caps]

Registers == VoltageControls \cup RatioControls
Processes == {"app", "helper"}

\* Every capability that is ever reported, and every merged set.
Capabilities == UNION {Reports(p, d, m) : p \in Processes, d \in Drivers, m \in Hardware}
Sets == UNION {[ids -> Capabilities] : ids \in SUBSET {c.id : c \in Capabilities}}

Limits == {"pl1", "pl2"}

\* Whatever the hardware holds, the driver d reports the control id to the helper.
Always(d, id) == \A m \in Hardware : \E c \in Reports("helper", d, m) : c.id = id

\* A driver reports a control at most once, under its own name; no two drivers
\* have the same priority.  The registers are only read by the helper, and
\* there always: the application reports that they need its probe.  What can be
\* written is a level of the hardware.
ASSUME ReviewAssumption ==
    /\ IsFiniteSet(Drivers)
    /\ \A d, e \in Drivers : DriverPriority(d) = DriverPriority(e) => d = e
    /\ \A p \in Processes, d \in Drivers, m \in Hardware : \A c \in Reports(p, d, m) :
          /\ c.driver = d
          /\ \A o \in Reports(p, d, m) : o.id = c.id => o = c
          /\ c.id \in Registers => (c.state = "requires_probe") = (p = "app")
    /\ \E d \in Drivers, id \in Registers : Always(d, id)
    /\ Machines \subseteq Hardware
    /\ \A s \in Scopes : s.machines \subseteq Machines
    /\ \A s \in Scopes : \A r \in s.requests, c \in Capabilities :
          r.id = c.id => \/ Normalized(c, r.requested) = None
                         \/ Normalized(c, r.requested).of \in Levels
    /\ None \notin [generation : Sets, caps : Sets]

\* Both limits can be read, and the helper is told what they are, in watts: of
\* a limit that cannot be read a review assumes nothing.
ASSUME LimitsAssumption ==
    /\ Limits \subseteq Fields
    /\ None \notin Levels
    /\ \A id \in Limits : \E d \in Drivers : Always(d, id)
    /\ \A d \in Drivers, m \in Hardware : \A c \in Reports("helper", d, m) :
          c.id \in Limits => c.current = Numeric(m[c.id]) /\ c.unit = "W" /\ c.choices = {}

EmptySet == [generation |-> None, caps |-> << >>]

-----------------------------------------------------------------------------
(* Discovery.  stage: "start", "receive", "publish" or "closed".           *)

\* Discoverer.Discover: one goroutine for the run and one for each driver.
NewStream == [stage |-> "start", waiting |-> Drivers, done |-> <<>>, taken |-> 0,
              merged |-> << >>, out |-> <<>>, cancelled |-> FALSE, reading |-> TRUE]

\* What is left of a stream nobody reads: what is still going on in it is seen
\* by no one.
EndedStream == [NewStream EXCEPT !.stage = "closed", !.waiting = {}, !.reading = FALSE]

\* With a helper the service answers with what the helper reported.
AnsweredStream(set) == [NewStream EXCEPT !.stage = "closed", !.waiting = {},
                                         !.out = <<[set |-> set, complete |-> TRUE]>>]

\* A probe of the helper: the drivers it has still to hear of, and what it has.
IdleHelper == [waiting |-> Drivers, merged |-> << >>, fresh |-> TRUE]

Init ==
    /\ scope \in Scopes
    /\ machine \in scope.machines
    /\ streams = <<>> /\ latest = 0
    /\ vm = [active |-> FALSE, phase |-> "idle", session |-> FALSE, set |-> EmptySet,
             pending |-> <<>>, valid |-> FALSE, rows |-> None,
             dialog |-> FALSE, confirmed |-> FALSE]
    /\ service = [set |-> None, stage |-> "none", sent |-> None, shown |-> None]
    /\ helper = IdleHelper
    /\ outcome = None
    /\ faults = 0

\* A run that was superseded or cancelled before it began closes its stream.
Begin(t) ==
    /\ streams[t].stage = "start"
    /\ streams' = [streams EXCEPT ![t].stage =
                     IF streams[t].cancelled \/ latest # t THEN "closed" ELSE "receive"]
    /\ UNCHANGED <<machine, latest, vm, service, helper, outcome, faults, scope>>

\* A driver's Probe returns, with an error and nothing else when it fails,
\* when its two seconds are over, or when it sees that the context has ended.
Probe(t, d) ==
    /\ streams[t].stage \in {"receive", "publish"} /\ d \in streams[t].waiting
    /\ \E ok \in BOOLEAN :
          /\ ~ok /\ ~streams[t].cancelled => faults < scope.faults
          /\ faults' = IF ok \/ streams[t].cancelled THEN faults ELSE faults + 1
          /\ streams' = [streams EXCEPT
                ![t].waiting = @ \ {d},
                ![t].done = Append(@, IF ok THEN Reports("app", d, machine) ELSE {})]
    /\ UNCHANGED <<machine, latest, vm, service, helper, outcome, scope>>

\* A result is received; the run ends when it has been superseded.
Receive(t) ==
    /\ streams[t].stage = "receive" /\ streams[t].taken < Len(streams[t].done)
    /\ LET s == streams[t]
       IN streams' = [streams EXCEPT ![t] =
            IF latest # t THEN [s EXCEPT !.stage = "closed"]
            ELSE [s EXCEPT !.stage = "publish", !.taken = s.taken + 1,
                           !.merged = Merge(s.merged, s.done[s.taken + 1])]]
    /\ UNCHANGED <<machine, latest, vm, service, helper, outcome, faults, scope>>

\* The set as merged so far is published; there is always room for it.
Publish(t) ==
    /\ streams[t].stage = "publish"
    /\ LET complete == streams[t].taken = Cardinality(Drivers)
       IN streams' = [streams EXCEPT
            ![t].out = Append(@, [set |-> immutableSet(streams[t].merged), complete |-> complete]),
            ![t].stage = IF complete THEN "closed" ELSE "receive"]
    /\ UNCHANGED <<machine, latest, vm, service, helper, outcome, faults, scope>>

\* Both waits of the run also end with the context.
StopRun(t) ==
    /\ streams[t].cancelled /\ streams[t].stage \in {"receive", "publish"}
    /\ streams' = [streams EXCEPT ![t].stage = "closed"]
    /\ UNCHANGED <<machine, latest, vm, service, helper, outcome, faults, scope>>

-----------------------------------------------------------------------------
(* The view model.                                                         *)

Current == Len(streams)     \* Tune.activation, as long as the page is active

validatePending(set, pending) ==
    /\ pending # <<>>
    /\ ValidateChangeSet(set, [generation |-> set.generation, changes |-> pending]).ok

\* The dialog that shows a review is modal.
Activate ==
    /\ ~vm.active /\ ~vm.dialog /\ Len(streams) < scope.activations
    /\ vm' = [vm EXCEPT !.active = TRUE, !.phase = IF vm.session THEN @ ELSE "discovering"]
    /\ IF service.set = None
       THEN streams' = Append(streams, NewStream) /\ latest' = Len(streams) + 1
       ELSE streams' = Append(streams, AnsweredStream(service.set)) /\ UNCHANGED latest
    /\ UNCHANGED <<machine, service, helper, outcome, faults, scope>>

Deactivate ==
    /\ vm.active /\ ~vm.dialog
    /\ vm' = [vm EXCEPT !.active = FALSE, !.phase = IF @ = "discovering" THEN "idle" ELSE @]
    /\ streams' = [streams EXCEPT ![Current].cancelled = streams[Current].reading]
    /\ UNCHANGED <<machine, latest, service, helper, outcome, faults, scope>>

consumeDiscovery_AnyVisit(t) ==
    /\ streams[t].reading /\ streams[t].out # <<>>
    /\ streams' = [streams EXCEPT ![t].out = Tail(@)]
    /\ LET r == Head(streams[t].out)
       IN IF ~vm.active THEN UNCHANGED vm
          ELSE vm' = [vm EXCEPT
                 !.set = r.set,
                 !.valid = IF vm.pending = <<>> THEN @ ELSE validatePending(r.set, vm.pending),
                 !.phase = IF r.complete /\ ~vm.session
                           THEN IF vm.pending = <<>> THEN "idle" ELSE "staged"
                           ELSE @]
    /\ UNCHANGED <<machine, latest, service, helper, outcome, faults, scope>>

\* One round of the goroutine of consumeDiscovery.  The rows of a review stay;
\* only a complete set ends the review.
consumeDiscovery(t) ==
    /\ streams[t].reading /\ streams[t].out # <<>>
    /\ streams' = [streams EXCEPT ![t].out = Tail(@)]
    /\ LET r == Head(streams[t].out)
       IN IF t # Current \/ ~vm.active THEN UNCHANGED vm
          ELSE vm' = [vm EXCEPT
                 !.set = r.set,
                 !.valid = IF vm.pending = <<>> THEN @ ELSE validatePending(r.set, vm.pending),
                 !.phase = IF r.complete /\ ~vm.session
                           THEN IF vm.pending = <<>> THEN "idle" ELSE "staged"
                           ELSE @]
    /\ UNCHANGED <<machine, latest, service, helper, outcome, faults, scope>>

\* It ends with the context or with the stream.
StopReading(t) ==
    /\ streams[t].reading
    /\ streams[t].cancelled \/ (streams[t].stage = "closed" /\ streams[t].out = <<>>)
    /\ streams' = [streams EXCEPT ![t] = [EndedStream EXCEPT !.cancelled = streams[t].cancelled]]
    /\ UNCHANGED <<machine, latest, vm, service, helper, outcome, faults, scope>>

\* A control of the page is moved: its change is replaced, or added.
Stage(change) ==
    /\ vm.active /\ ~vm.dialog
    /\ ~vm.session /\ vm.phase # "authorizing"
    /\ LET same == {i \in DOMAIN vm.pending : vm.pending[i].id = change.id}
           pending == IF same = {} THEN Append(vm.pending, change)
                      ELSE [i \in DOMAIN vm.pending |-> IF i \in same THEN change ELSE vm.pending[i]]
       IN vm' = [vm EXCEPT !.pending = pending, !.valid = validatePending(vm.set, pending),
                           !.rows = None, !.phase = "staged"]
    /\ UNCHANGED <<machine, streams, latest, service, helper, outcome, faults, scope>>

\* Review shows the normalized values in the dialog.  The page offers it for a
\* valid change set.
Review ==
    /\ vm.active /\ ~vm.dialog
    /\ vm.phase = "staged" /\ vm.valid /\ ~vm.session
    /\ LET review == ValidateChangeSet(vm.set, [generation |-> vm.set.generation, changes |-> vm.pending])
       IN vm' = [vm EXCEPT !.rows = review.changes, !.phase = "reviewing", !.dialog = TRUE]
    /\ UNCHANGED <<machine, streams, latest, service, helper, outcome, faults, scope>>

CancelReview ==
    /\ vm.dialog
    /\ vm' = [vm EXCEPT !.dialog = FALSE,
                        !.rows = IF vm.phase = "reviewing" THEN None ELSE @,
                        !.phase = IF @ = "reviewing" THEN "staged" ELSE @]
    /\ UNCHANGED <<machine, streams, latest, service, helper, outcome, faults, scope>>

\* The answer yes starts a goroutine that calls Tune.Apply.
Confirm ==
    /\ vm.dialog /\ ~vm.confirmed
    /\ vm' = [vm EXCEPT !.dialog = FALSE, !.confirmed = TRUE]
    /\ UNCHANGED <<machine, streams, latest, service, helper, outcome, faults, scope>>

\* Tune.Apply: without a review in progress it is refused.  The service runs
\* one Apply at a time and refuses another.
Apply ==
    /\ vm.confirmed
    /\ IF vm.phase = "reviewing" /\ vm.valid /\ ~vm.session
       THEN /\ vm' = [vm EXCEPT !.confirmed = FALSE,
                                !.phase = IF service.stage = "none" THEN "authorizing" ELSE "failed"]
            /\ service' = IF service.stage # "none" THEN service
                          ELSE [service EXCEPT
                                  !.stage = IF service.set = None THEN "dial" ELSE "begin",
                                  !.sent = [generation |-> vm.set.generation, changes |-> vm.pending],
                                  !.shown = vm.rows]
       ELSE vm' = [vm EXCEPT !.confirmed = FALSE] /\ UNCHANGED service
    /\ UNCHANGED <<machine, streams, latest, helper, outcome, faults, scope>>

-----------------------------------------------------------------------------
(* The helper.                                                             *)

\* helperBackend.Probe reads its stream to the end; its drivers are probed at
\* different moments too.  The error of a driver makes the whole probe fail
\* and ends the session: nothing is written then.
HelperReads(d) ==
    /\ service.stage \in {"dial", "begin"}
    /\ d \in helper.waiting
    /\ helper' = [helper EXCEPT !.waiting = @ \ {d},
                                !.merged = Merge(@, Reports("helper", d, machine))]
    /\ UNCHANGED <<machine, streams, latest, vm, service, outcome, faults, scope>>

HelperSet == immutableSet(helper.merged)
Probed == helper.waiting = {}

\* The set that answers the probe of Dial; another generation is a new review.
Dialled ==
    /\ service.stage = "dial" /\ Probed
    /\ service' = [service EXCEPT
          !.set = HelperSet,
          !.stage = IF HelperSet.generation = service.sent.generation THEN "begin" ELSE "changed"]
    /\ helper' = IdleHelper
    /\ UNCHANGED <<machine, streams, latest, vm, outcome, faults, scope>>

\* The engine writes the values of a review to the hardware.
Written(changes) ==
    [id \in DOMAIN machine |->
        IF \E i \in DOMAIN changes : changes[i].id = id
        THEN changes[CHOOSE i \in DOMAIN changes : changes[i].id = id].requested.of
        ELSE machine[id]]

\* Begin: another generation is a new review; otherwise the engine reviews the
\* request with the helper's set and writes the values, or refuses.
BeginTransaction ==
    /\ service.stage = "begin" /\ Probed
    /\ LET review == ValidateChangeSet(HelperSet, service.sent)
       IN \/ /\ HelperSet.generation # service.sent.generation
             /\ service' = [service EXCEPT !.set = HelperSet, !.stage = "changed"]
             /\ UNCHANGED <<machine, outcome>>
          \/ /\ HelperSet.generation = service.sent.generation
             /\ service' = [service EXCEPT !.stage = IF review.ok THEN "applied" ELSE "failed"]
             /\ machine' = IF review.ok THEN Written(review.changes) ELSE machine
             /\ outcome' = IF review.ok
                           THEN [shown |-> service.shown, written |-> review.changes, fresh |-> helper.fresh]
                           ELSE outcome
    /\ helper' = IdleHelper
    /\ UNCHANGED <<streams, latest, vm, faults, scope>>

\* The event of the service reaches the view model (consumeEvents).
Answer ==
    /\ service.stage \in {"changed", "applied", "failed"}
    /\ service' = [service EXCEPT !.stage = "none", !.sent = None, !.shown = None]
    /\ vm' = CASE service.stage = "changed" ->
                    [vm EXCEPT !.set = service.set, !.rows = None, !.phase = "staged",
                               !.valid = validatePending(service.set, vm.pending)]
               [] service.stage = "applied" -> [vm EXCEPT !.phase = "active", !.session = TRUE]
               [] OTHER -> [vm EXCEPT !.phase = "failed"]
    /\ UNCHANGED <<machine, streams, latest, helper, outcome, faults, scope>>

\* The firmware, or another program, changes limits or their bound.
Firmware(m) ==
    /\ faults < scope.faults /\ m # machine /\ outcome = None
    /\ machine' = m /\ faults' = faults + 1
    /\ helper' = [helper EXCEPT !.fresh = FALSE]
    /\ UNCHANGED <<streams, latest, vm, service, outcome, scope>>

DiscoveryStep(t) ==
    \/ Begin(t) \/ Receive(t) \/ Publish(t) \/ StopRun(t) \/ StopReading(t)
    \/ consumeDiscovery(t)
    \/ \E d \in Drivers : Probe(t, d)

Next ==
    \/ \E t \in DOMAIN streams : DiscoveryStep(t)
    \/ Activate \/ Deactivate \/ Review \/ CancelReview \/ Confirm \/ Apply
    \/ \E change \in scope.requests : Stage(change)
    \/ \E d \in Drivers : HelperReads(d)
    \/ Dialled \/ BeginTransaction \/ Answer
    \/ \E m \in Machines : Firmware(m)

Spec == Init /\ [][Next]_vars

-----------------------------------------------------------------------------
(* Properties                                                              *)

\* The reference for the merge: a control comes from the kernel driver that
\* supports it, then from one that supports it, then from the first in order.
Rank(c) == (IF KernelSupported(c) THEN 0 ELSE IF Supported(c) THEN 100 ELSE 200)
              + DriverPriority(c.driver)

Best(reports) ==
    [id \in {c.id : c \in reports} |->
        CHOOSE c \in reports : c.id = id /\ \A o \in reports : o.id = id => Rank(c) <= Rank(o)]

\* Whatever the order in which the drivers answer, a complete set has for
\* every control the best of the answers of its own run, and a set on the way
\* has the best of the answers so far: nothing is lost, and no run shows what
\* another one has read.
MergeIsOrderFree ==
    \A t \in DOMAIN streams : streams[t].stage # "start" =>
        /\ streams[t].merged = Best(UNION {streams[t].done[k] : k \in 1..streams[t].taken})
        /\ \A k \in DOMAIN streams[t].out :
              streams[t].out[k].complete /\ service.set = None =>
                 streams[t].out[k].set.caps = Best(UNION {streams[t].done[i] : i \in DOMAIN streams[t].done})

\* Until a helper has answered, whatever the page is given was merged from the
\* drivers' first answers to the visit that is going on: the run of an earlier
\* visit, which may still be waiting for a driver, publishing or read, does not
\* replace newer readings by its own.
PageShowsItsVisit ==
    [][vm'.set # vm.set /\ service.set = None =>
          /\ vm.active /\ streams # <<>>
          /\ LET done == streams[Current].done
             IN \E n \in 1..Len(done) : vm'.set.caps = Best(UNION {done[k] : k \in 1..n})]_vars

\* The values that are written are the ones the user was shown, although what
\* is sent are the raw ones, the helper has probed for itself, and discovery
\* goes on while the dialog is open.
WrittenAsShown == outcome # None => outcome.shown = outcome.written

\* Once written, PL1 does not exceed PL2, unless the firmware interfered since
\* the helper's probe began: also when only one of the two was asked for.
LimitsStayOrdered == outcome # None /\ outcome.fresh => machine.pl1 <= machine.pl2

=============================================================================
