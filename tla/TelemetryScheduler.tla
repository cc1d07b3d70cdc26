------------------------- MODULE TelemetryScheduler -------------------------
(***************************************************************************)
(* The telemetry scheduler (internal/telemetry/scheduler.go, delivery.go): *)
(* one worker per provider samples the metrics that open subscriptions     *)
(* demand, and publishes each frame to the capacity-one streams of the     *)
(* subscriptions that asked for it.                                        *)
(*                                                                         *)
(* Everything under the scheduler's mutex is one step.  A worker parks in  *)
(* a select between steps, where a wake-up token, its timer and the end of *)
(* the context race.  Subscribers come and go, and consumers take frames,  *)
(* at any time.                                                            *)
(*                                                                         *)
(* Abstractions.  Time is counted in ticks and only relatively: how long   *)
(* ago a metric was attempted or delivered, up to MaxInterval, beyond      *)
(* which no comparison tells the difference (a zero time is that long      *)
(* ago); a worker may be late by any number of ticks.  A frame is the set  *)
(* of metrics it has samples of.  A provider finishes its frame in the     *)
(* step that publishes it, and returns a sample for each metric asked for. *)
(*                                                                         *)
(* Op_Something is a faulty variant of Op, as in TuningEngine.             *)
(***************************************************************************)
EXTENDS Integers, FiniteSets

CONSTANTS
    Providers,      \* the telemetry providers
    Hanging,        \* those whose Sample may not return, whatever its context says
    Metrics,        \* the metrics they offer
    Source,         \* Source[m]: the provider of metric m (metricProvider)
    MinGap,         \* MinGap[m]: Descriptor.MinInterval
    Handles,        \* consumers, each with at most one subscription at a time
    Wants,          \* Wants[h]: the subscriptions consumer h may ask for
    MaxInterval,    \* SchedulerOptions.MaxInterval, in ticks
    FirstBackoff, MaximumBackoff, FailureLimit

Least(a, b) == IF a < b THEN a ELSE b
Most(a, b) == IF a > b THEN a ELSE b

\* Subscription, after clampInterval and uniqueMetricIDs.
Subscriptions == [metrics : SUBSET Metrics, interval : 1..MaxInterval]

ASSUME SchedulerAssumption ==
    /\ Hanging \subseteq Providers
    /\ Source \in [Metrics -> Providers]
    /\ MaxInterval \in Nat \ {0}
    /\ MinGap \in [Metrics -> 0..MaxInterval]
    /\ Wants \in [Handles -> SUBSET Subscriptions]
    /\ FirstBackoff \in Nat \ {0} /\ FailureLimit \in Nat \ {0}
    /\ MaximumBackoff \in Nat /\ MaximumBackoff >= FirstBackoff

VARIABLES
    phase,      \* started; cancelled: the context is done; stopped
    catalog,    \* the metrics that Discover routed to a provider
    sub,        \* Handle and subscriptionEntry of each consumer
    stream,     \* the frame in its channel, {} if none
    worker,     \* the worker of each provider
    wake        \* the token in runtime.wake

vars == <<phase, catalog, sub, stream, worker, wake>>

Ages == 0..MaxInterval

\* since: the time since lastDelivery.
Closed == [open |-> FALSE, metrics |-> {}, interval |-> MaxInterval,
           since |-> [m \in Metrics |-> MaxInterval]]

\* at: where runProvider is; due: metricIDs; age: the time since lastAttempt;
\* timer: what is left of a wait; fails: consecutiveFailures.
NewWorker == [at |-> "off", due |-> {}, age |-> [m \in Metrics |-> MaxInterval],
              timer |-> 0, fails |-> 0]

Init ==
    /\ phase = [discovered |-> FALSE, started |-> FALSE, cancelled |-> FALSE, stopped |-> FALSE]
    /\ catalog = {}
    /\ sub = [h \in Handles |-> Closed]
    /\ stream = [h \in Handles |-> {}]
    /\ worker = [p \in Providers |-> NewWorker]
    /\ wake = [p \in Providers |-> FALSE]

-----------------------------------------------------------------------------
(* Demand.                                                                 *)

\* Subscription h asks for metric m, and m has a provider.
Wanted(h, m) == sub[h].open /\ m \in sub[h].metrics /\ m \in catalog

Effective_IgnoresDescriptor(h, m) == sub[h].interval

\* The interval at which m is sampled for h.
Effective(h, m) == Most(sub[h].interval, MinGap[m])

\* demandsFor.
Demand(p) == {m \in Metrics : Source[m] = p /\ \E h \in Handles : Wanted(h, m)}

Interval(m) == CHOOSE i \in {Effective(h, m) : h \in {g \in Handles : Wanted(g, m)}} :
                 \A h \in Handles : Wanted(h, m) => i <= Effective(h, m)

Remaining(p, m) == Most(0, Interval(m) - worker[p].age[m])

Due(p) == {m \in Demand(p) : Remaining(p, m) = 0}

\* The wait after so many failures in a row: doubled each time up to the
\* maximum, and the maximum at once when the circuit opens.
Delay(fails) ==
    IF fails >= FailureLimit THEN MaximumBackoff
    ELSE Least(FirstBackoff * 2^(fails - 1), MaximumBackoff)

-----------------------------------------------------------------------------
(* The life of the scheduler.                                              *)

\* Discover publishes what the providers that answered in time offer.  It is
\* called once (desktop.go), and does not wake the workers: consumers ask for
\* metrics only after they have been handed the catalog.
Discover ==
    /\ ~phase.discovered
    /\ phase' = [phase EXCEPT !.discovered = TRUE]
    /\ \E answered \in SUBSET Providers : catalog' = {m \in Metrics : Source[m] \in answered}
    /\ UNCHANGED <<sub, stream, worker, wake>>

Start ==
    /\ ~phase.started
    /\ phase' = [phase EXCEPT !.started = TRUE]
    /\ worker' = [p \in Providers |-> [worker[p] EXCEPT !.at = "look"]]
    /\ UNCHANGED <<catalog, sub, stream, wake>>

\* The context passed to Start is cancelled.
Cancel ==
    /\ phase.started /\ ~phase.cancelled
    /\ phase' = [phase EXCEPT !.cancelled = TRUE]
    /\ UNCHANGED <<catalog, sub, stream, worker, wake>>

\* closeAllSubscriptions, after every worker has returned.  A buffered frame can
\* still be received from a closed channel.
CloseAll ==
    /\ phase.cancelled /\ ~phase.stopped
    /\ \A p \in Providers : worker[p].at = "stopped"
    /\ phase' = [phase EXCEPT !.stopped = TRUE]
    /\ sub' = [h \in Handles |-> Closed]
    /\ UNCHANGED <<catalog, stream, worker, wake>>

-----------------------------------------------------------------------------
(* Consumers.                                                              *)

NotifyWorkers_Waiting == wake' = [p \in Providers |-> wake[p] \/ worker[p].at = "wait"]

\* notifyWorkersLocked: a token for every worker that has none.
NotifyWorkers == wake' = [p \in Providers |-> TRUE]

Ask(h, s) ==
    /\ s \in Wants[h] /\ s.metrics \subseteq catalog
    /\ ~sub[h].open
    /\ stream' = [stream EXCEPT ![h] = {}]

Subscribe_AfterStop(h) ==
    /\ \E s \in Wants[h] :
         /\ Ask(h, s)
         /\ sub' = [sub EXCEPT ![h] = [Closed EXCEPT !.open = TRUE, !.metrics = s.metrics,
                                                     !.interval = s.interval]]
    /\ NotifyWorkers
    /\ UNCHANGED <<phase, catalog, worker>>

\* A stopped scheduler answers with a stream that is already closed.
Subscribe(h) ==
    /\ \E s \in Wants[h] :
         /\ Ask(h, s)
         /\ \/ /\ ~phase.stopped
               /\ sub' = [sub EXCEPT ![h] = [Closed EXCEPT !.open = TRUE, !.metrics = s.metrics,
                                                           !.interval = s.interval]]
               /\ NotifyWorkers
            \/ /\ phase.stopped
               /\ UNCHANGED <<sub, wake>>
    /\ UNCHANGED <<phase, catalog, worker>>

\* Handle.Close.
Unsubscribe(h) ==
    /\ sub[h].open
    /\ sub' = [sub EXCEPT ![h] = Closed]
    /\ NotifyWorkers
    /\ UNCHANGED <<phase, catalog, stream, worker>>

Receive(h) ==
    /\ stream[h] # {}
    /\ stream' = [stream EXCEPT ![h] = {}]
    /\ UNCHANGED <<phase, catalog, sub, worker, wake>>

-----------------------------------------------------------------------------
(* A worker.                                                               *)

Work(p, w) == worker' = [worker EXCEPT ![p] = w]

\* Sample, of a live context or of one that is done already.
InSample == {"sample", "refused"}
Sampling == IF phase.cancelled THEN "refused" ELSE "sample"

\* The head of the loop: nothing to do until woken, or metrics that are due, or
\* a wait for the first that will be.
Look(p) ==
    LET w == worker[p]
        soonest == CHOOSE t \in {Remaining(p, m) : m \in Demand(p)} \cup {MaxInterval} :
                     \A m \in Demand(p) : t <= Remaining(p, m)
    IN
    /\ w.at = "look"
    /\ \/ /\ Demand(p) = {}
          /\ Work(p, [w EXCEPT !.at = "idle"])
       \/ /\ Due(p) # {}
          /\ Work(p, [w EXCEPT !.at = Sampling, !.due = Due(p),
                               !.age = [m \in Metrics |-> IF m \in Due(p) THEN 0 ELSE @[m]]])
       \/ /\ Demand(p) # {} /\ Due(p) = {}
          /\ Work(p, [w EXCEPT !.at = "wait", !.timer = soonest])
    /\ UNCHANGED <<phase, catalog, sub, stream, wake>>

Parked == {"idle", "wait", "backoff"}

\* The select finds a token, or in waitForWake the timer.
Woken(p) ==
    /\ worker[p].at \in Parked
    /\ \/ /\ wake[p]
          /\ wake' = [wake EXCEPT ![p] = FALSE]
       \/ /\ worker[p].at # "idle" /\ worker[p].timer = 0
          /\ UNCHANGED wake
    /\ Work(p, [worker[p] EXCEPT !.at = "look", !.timer = 0])
    /\ UNCHANGED <<phase, catalog, sub, stream>>

Stop_NotInBackoff(p) ==
    /\ phase.cancelled
    /\ worker[p].at \in {"idle", "wait"}
    /\ Work(p, [worker[p] EXCEPT !.at = "stopped", !.timer = 0])
    /\ UNCHANGED <<phase, catalog, sub, stream, wake>>

\* The select finds that the context is done.
Stop(p) ==
    /\ phase.cancelled
    /\ worker[p].at \in Parked
    /\ Work(p, [worker[p] EXCEPT !.at = "stopped", !.timer = 0])
    /\ UNCHANGED <<phase, catalog, sub, stream, wake>>

\* What publish passes on to h: the samples it asked for and has not had for
\* its interval.
Delivered(p, h) ==
    {m \in worker[p].due : /\ sub[h].open /\ m \in sub[h].metrics
                           /\ sub[h].since[m] >= sub[h].interval}

\* Sample returns.  It fails when its context was done at the start (every
\* provider checks that first), and a failure makes an unavailable sample of
\* each metric.  A full stream loses its old frame (deliverLatest).
Publish(p) ==
    LET w == worker[p] IN
    /\ w.at \in InSample
    /\ \/ w.at = "sample" /\ Work(p, [w EXCEPT !.at = "look", !.due = {}, !.fails = 0])
       \/ LET fails == Least(w.fails + 1, FailureLimit) IN
          Work(p, [w EXCEPT !.at = "backoff", !.due = {}, !.fails = fails,
                            !.timer = Delay(fails)])
    /\ sub' = [h \in Handles |-> [sub[h] EXCEPT !.since =
                  [m \in Metrics |-> IF m \in Delivered(p, h) THEN 0 ELSE @[m]]]]
    /\ stream' = [h \in Handles |-> IF Delivered(p, h) = {} THEN stream[h] ELSE Delivered(p, h)]
    /\ UNCHANGED <<phase, catalog, wake>>

Older(age) == [m \in Metrics |-> Least(age[m] + 1, MaxInterval)]

Tick ==
    /\ sub' = [h \in Handles |-> [sub[h] EXCEPT !.since = Older(@)]]
    /\ worker' = [p \in Providers |-> [worker[p] EXCEPT !.age = Older(@),
                                                        !.timer = Most(0, @ - 1)]]
    /\ UNCHANGED <<phase, catalog, stream, wake>>

Worker(p) == Look(p) \/ Woken(p) \/ Stop(p) \/ Publish(p)
Consumer(h) == Subscribe(h) \/ Unsubscribe(h) \/ Receive(h)

Next == \/ Discover \/ Start \/ Cancel \/ CloseAll \/ Tick
        \/ \E p \in Providers : Worker(p)
        \/ \E h \in Handles : Consumer(h)

Spec == Init /\ [][Next]_vars

-----------------------------------------------------------------------------
(* Properties.                                                             *)

\* A provider is not asked for a metric more often than the metric's descriptor
\* allows, whatever wakes its worker (a burst of subscribers, an end of backoff).
SafeCadence ==
    [][\A p \in Providers : worker[p].at = "look" /\ worker'[p].at \in InSample =>
         \A m \in worker'[p].due : worker[p].age[m] >= MinGap[m]]_vars

\* Shutdown is final: once the streams are closed no worker is left to publish
\* (a send on a closed channel panics), and no later subscription stays open.
StopIsFinal ==
    phase.stopped => /\ \A p \in Providers : worker[p].at = "stopped"
                     /\ \A h \in Handles : ~sub[h].open

\* Fairness.  Goroutines are scheduled and time passes.  A select with several
\* ready cases takes each of them now and then, so a done context is noticed
\* although wake-ups keep arriving.  A provider answers within its deadline,
\* unless it is one of those that hang.  The desktop starts the scheduler.
Fairness ==
    /\ WF_vars(Start \/ CloseAll) /\ WF_vars(Tick)
    /\ \A p \in Providers : /\ WF_vars(Look(p) \/ Woken(p))
                            /\ SF_vars(Stop(p))
                            /\ p \notin Hanging => WF_vars(Publish(p))

FairSpec == Spec /\ Fairness

\* design.md:197 "One blocked provider cannot delay another": a metric that a
\* subscription asks for is delivered (as a value or as unavailable) again and
\* again, while other consumers come and go, unless its own provider hangs.
EachIsSampled ==
    \A h \in Handles, m \in Metrics : Source[m] \notin Hanging =>
        []<>(~Wanted(h, m) \/ phase.cancelled \/ sub[h].since[m] = 0)

\* After the context is cancelled every stream is closed, unless a worker waits
\* for a provider that hangs.
StreamsClose ==
    phase.cancelled ~> (phase.stopped \/ \E p \in Hanging : worker[p].at \in InSample)

=============================================================================
