--------------------------- MODULE MonitoringProofs ---------------------------
(***************************************************************************)
(* Machine-checked proofs about TelemetryScheduler, for every set of       *)
(* providers, metrics and consumers and every interval, backoff and limit; *)
(* and the first half of those about StudioPages, which StudioPagesProofs  *)
(* completes: what its parts are, and the steps that hand out work.  The   *)
(* two modules share no name.                                              *)
(***************************************************************************)
EXTENDS TelemetryScheduler, StudioPages, FiniteSetTheorems,
        WellFoundedInduction, TLAPS

-----------------------------------------------------------------------------
(* Type correctness.  What a timer holds is left out: that a power of two  *)
(* is a number is a fact by induction, and no property here depends on it. *)

Places == {"off", "look", "idle", "wait", "backoff", "sample", "refused", "stopped"}

Phases == [discovered : BOOLEAN, started : BOOLEAN, cancelled : BOOLEAN, stopped : BOOLEAN]

Entries == [open : BOOLEAN, metrics : SUBSET Metrics, interval : 1..MaxInterval,
            since : [Metrics -> Ages]]

WorkerRecords(timers) == [at : Places, due : SUBSET Metrics, age : [Metrics -> Ages],
                    timer : timers, fails : 0..FailureLimit]

HaveType(workers) == \E timers : workers \in [Providers -> WorkerRecords(timers)]

TypeOK ==
    /\ phase \in Phases
    /\ catalog \subseteq Metrics
    /\ sub \in [Handles -> Entries]
    /\ stream \in [Handles -> SUBSET Metrics]
    /\ HaveType(worker)
    /\ wake \in [Providers -> BOOLEAN]

\* More timers do no harm.
LEMMA MoreTimers ==
    ASSUME NEW T, NEW U, NEW w \in WorkerRecords(T)
    PROVE  w \in WorkerRecords(T \cup U)
BY DEF WorkerRecords

\* Changing one worker to another worker keeps the type, and the others.
LEMMA WorkType ==
    ASSUME NEW T, worker \in [Providers -> WorkerRecords(T)],
           NEW p \in Providers, NEW U, NEW w \in WorkerRecords(U), Work(p, w)
    PROVE  /\ HaveType(worker')
           /\ \A q \in Providers : worker'[q] = IF q = p THEN w ELSE worker[q]
<1>1. \A q \in Providers : worker[q] \in WorkerRecords(T \cup U)
  BY MoreTimers
<1>2. U \cup T = T \cup U /\ w \in WorkerRecords(U \cup T)
  BY MoreTimers
<1>3. worker' \in [Providers -> WorkerRecords(T \cup U)]
  BY <1>1, <1>2 DEF Work
<1>4. QED
  BY <1>3 DEF Work, HaveType

LEMMA OlderType == ASSUME NEW age \in [Metrics -> Ages] PROVE Older(age) \in [Metrics -> Ages]
BY SchedulerAssumption DEF Older, Ages, Least

LEMMA ClosedType == Closed \in Entries /\ ~Closed.open
BY SchedulerAssumption DEF Closed, Entries, Ages

LEMMA TypeInit == Init => TypeOK
<1>1. SUFFICES ASSUME Init PROVE TypeOK
  OBVIOUS
<1>2. NewWorker \in WorkerRecords({0})
  BY SchedulerAssumption DEF NewWorker, WorkerRecords, Places, Ages
<1>3. worker \in [Providers -> WorkerRecords({0})]
  BY <1>1, <1>2 DEF Init
<1>4. HaveType(worker)
  BY <1>3 DEF HaveType
<1>5. QED
  BY <1>1, <1>4, ClosedType DEF Init, TypeOK, Phases

\* Publishing changes of a subscription only what it was last given.
LEMMA PublishType ==
    ASSUME TypeOK, NEW p \in Providers, Publish(p)
    PROVE  /\ sub' \in [Handles -> Entries]
           /\ \A h \in Handles : sub'[h].open = sub[h].open
           /\ stream' \in [Handles -> SUBSET Metrics]
<1>1. PICK T : worker \in [Providers -> WorkerRecords(T)]
  BY DEF TypeOK, HaveType
<1>2. worker[p].due \subseteq Metrics
  BY <1>1 DEF WorkerRecords
<1>3. \A h \in Handles : Delivered(p, h) \subseteq Metrics
  BY <1>2 DEF Delivered
<1>4. \A h \in Handles : [m \in Metrics |-> IF m \in Delivered(p, h) THEN 0 ELSE sub[h].since[m]] \in [Metrics -> Ages]
  BY SchedulerAssumption DEF TypeOK, Entries, Ages
<1>5. sub' = [h \in Handles |-> [sub[h] EXCEPT !.since =
                  [m \in Metrics |-> IF m \in Delivered(p, h) THEN 0 ELSE sub[h].since[m]]]]
  BY DEF Publish
<1>6. sub' \in [Handles -> Entries] /\ \A h \in Handles : sub'[h].open = sub[h].open
  <2>1. ASSUME NEW h \in Handles
        PROVE  sub'[h] \in Entries /\ sub'[h].open = sub[h].open
    <3>1. sub[h] \in Entries
      BY DEF TypeOK
    <3>2. PICK since \in [Metrics -> Ages] : sub'[h] = [sub[h] EXCEPT !.since = since]
      BY <1>4, <1>5
    <3>3. QED
      BY <3>1, <3>2 DEF Entries
  <2>2. QED
    BY <1>5, <2>1
<1>7. stream' \in [Handles -> SUBSET Metrics]
  BY <1>3 DEF Publish, TypeOK
<1>8. QED
  BY <1>6, <1>7

LEMMA TickType ==
    ASSUME TypeOK, Tick
    PROVE  /\ sub' \in [Handles -> Entries]
           /\ \A h \in Handles : sub'[h].open = sub[h].open
           /\ HaveType(worker')
           /\ \A p \in Providers : worker'[p].at = worker[p].at
<1>1. sub' = [h \in Handles |-> [sub[h] EXCEPT !.since = Older(sub[h].since)]]
  BY DEF Tick
<1>2. \A h \in Handles : Older(sub[h].since) \in [Metrics -> Ages]
  BY OlderType DEF TypeOK, Entries
<1>3. sub' \in [Handles -> Entries] /\ \A h \in Handles : sub'[h].open = sub[h].open
  <2>1. ASSUME NEW h \in Handles
        PROVE  sub'[h] \in Entries /\ sub'[h].open = sub[h].open
    <3>1. sub[h] \in Entries
      BY DEF TypeOK
    <3>2. PICK since \in [Metrics -> Ages] : sub'[h] = [sub[h] EXCEPT !.since = since]
      BY <1>1, <1>2
    <3>3. QED
      BY <3>1, <3>2 DEF Entries
  <2>2. QED
    BY <1>1, <2>1
<1>4. PICK T : worker \in [Providers -> WorkerRecords(T)]
  BY DEF TypeOK, HaveType
<1> DEFINE Left(t) == Most(0, t - 1)
           U == {Left(t) : t \in T}
<1>5. worker' = [p \in Providers |-> [worker[p] EXCEPT !.age = Older(worker[p].age),
                                                       !.timer = Left(worker[p].timer)]]
  BY DEF Tick
<1>6. \A p \in Providers : Older(worker[p].age) \in [Metrics -> Ages]
  BY <1>4, OlderType DEF WorkerRecords
<1>7. \A p \in Providers : Left(worker[p].timer) \in U
  <2> HIDE DEF Left
  <2>1. QED
    BY <1>4 DEF WorkerRecords
<1> HIDE DEF Left, U
<1>8. worker' \in [Providers -> WorkerRecords(U)] /\ \A p \in Providers : worker'[p].at = worker[p].at
  BY <1>4, <1>5, <1>6, <1>7 DEF WorkerRecords
<1>9. HaveType(worker')
  BY <1>8 DEF HaveType
<1>10. QED
  BY <1>3, <1>8, <1>9

\* What a step of a worker does to the workers: only its own place changes, and
\* it stops or starts to sample only in the steps meant for it.
LEMMA WorkerMoves ==
    ASSUME TypeOK, NEW p \in Providers, Worker(p)
    PROVE  /\ HaveType(worker')
           /\ \A q \in Providers : q # p => worker'[q] = worker[q]
           /\ worker[p].at # "stopped"
           /\ worker[p].at = "look" => Look(p)
<1>1. PICK T : worker \in [Providers -> WorkerRecords(T)]
  BY DEF TypeOK, HaveType
<1>2. \E U : \E w \in WorkerRecords(U) : Work(p, w)
  <2>1. CASE Look(p)
    <3>1. CASE Work(p, [worker[p] EXCEPT !.at = "idle"])
      <4>1. [worker[p] EXCEPT !.at = "idle"] \in WorkerRecords(T)
        BY <1>1 DEF WorkerRecords, Places
      <4>2. QED
        BY <3>1, <4>1
    <3>2. CASE Work(p, [worker[p] EXCEPT !.at = Sampling, !.due = Due(p),
                             !.age = [m \in Metrics |-> IF m \in Due(p) THEN 0 ELSE @[m]]])
      <4>1. [m \in Metrics |-> IF m \in Due(p) THEN 0 ELSE worker[p].age[m]] \in [Metrics -> Ages]
        BY <1>1, SchedulerAssumption DEF WorkerRecords, Ages
      <4>2. Due(p) \in SUBSET Metrics /\ Sampling \in Places
        BY DEF Due, Demand, Sampling, Places
      <4>3. [worker[p] EXCEPT !.at = Sampling, !.due = Due(p),
                 !.age = [m \in Metrics |-> IF m \in Due(p) THEN 0 ELSE @[m]]] \in WorkerRecords(T)
        BY <1>1, <4>1, <4>2 DEF WorkerRecords
      <4>4. QED
        BY <3>2, <4>3
    <3>3. ASSUME NEW t, Work(p, [worker[p] EXCEPT !.at = "wait", !.timer = t])
          PROVE  \E U : \E w \in WorkerRecords(U) : Work(p, w)
      <4>1. [worker[p] EXCEPT !.at = "wait", !.timer = t] \in WorkerRecords({t})
        BY <1>1 DEF WorkerRecords, Places
      <4>2. QED
        BY <3>3, <4>1
    <3>4. QED
      BY <2>1, <3>1, <3>2, <3>3 DEF Look
  <2>2. CASE Woken(p)
    <3>1. [worker[p] EXCEPT !.at = "look", !.timer = 0] \in WorkerRecords({0})
      BY <1>1 DEF WorkerRecords, Places
    <3>2. QED
      BY <2>2, <3>1 DEF Woken
  <2>3. CASE Stop(p)
    <3>1. [worker[p] EXCEPT !.at = "stopped", !.timer = 0] \in WorkerRecords({0})
      BY <1>1 DEF WorkerRecords, Places
    <3>2. QED
      BY <2>3, <3>1 DEF Stop
  <2>4. CASE Publish(p)
    <3>1. CASE Work(p, [worker[p] EXCEPT !.at = "look", !.due = {}, !.fails = 0])
      <4>1. 0 \in 0..FailureLimit /\ {} \in SUBSET Metrics /\ "look" \in Places
        BY SchedulerAssumption DEF Places
      <4>2. ASSUME NEW nothing \in SUBSET Metrics
            PROVE  [worker[p] EXCEPT !.at = "look", !.due = nothing, !.fails = 0] \in WorkerRecords(T)
        BY <1>1, <4>1 DEF WorkerRecords
      <4>3. QED
        BY <3>1, <4>1, <4>2
    <3>2. ASSUME NEW fails, fails = Least(worker[p].fails + 1, FailureLimit), NEW t,
                 Work(p, [worker[p] EXCEPT !.at = "backoff", !.due = {}, !.fails = fails, !.timer = t])
          PROVE  \E U : \E w \in WorkerRecords(U) : Work(p, w)
      <4>1. fails \in 0..FailureLimit
        BY <1>1, <3>2, SchedulerAssumption DEF WorkerRecords, Least
      <4>2. [worker[p] EXCEPT !.at = "backoff", !.due = {}, !.fails = fails, !.timer = t] \in WorkerRecords({t})
        BY <1>1, <4>1 DEF WorkerRecords, Places
      <4>3. QED
        BY <3>2, <4>2
    <3>3. QED
      BY <2>4, <3>1, <3>2 DEF Publish
  <2>5. QED
    BY <2>1, <2>2, <2>3, <2>4 DEF Worker
<1>3. HaveType(worker') /\ \A q \in Providers : q # p => worker'[q] = worker[q]
  BY <1>1, <1>2, WorkType
<1>4. worker[p].at # "stopped"
  BY DEF Worker, Look, Woken, Stop, Publish, Parked, InSample
<1>5. worker[p].at = "look" => Look(p)
  BY DEF Worker, Look, Woken, Stop, Publish, Parked, InSample
<1>6. QED
  BY <1>3, <1>4, <1>5

\* What a consumer asks for is of its type.
LEMMA SubscribeType ==
    ASSUME TypeOK, NEW h \in Handles, Subscribe(h)
    PROVE  /\ sub' \in [Handles -> Entries]
           /\ stream' \in [Handles -> SUBSET Metrics]
           /\ wake' \in [Providers -> BOOLEAN]
           /\ phase.stopped => sub' = sub
<1>1. PICK s \in Wants[h] :
         /\ Ask(h, s)
         /\ \/ /\ ~phase.stopped
               /\ sub' = [sub EXCEPT ![h] = [Closed EXCEPT !.open = TRUE, !.metrics = s.metrics,
                                                           !.interval = s.interval]]
               /\ NotifyWorkers
            \/ UNCHANGED <<sub, wake>>
  BY DEF Subscribe
<1>2. s \in Subscriptions
  BY SchedulerAssumption
<1>3. [Closed EXCEPT !.open = TRUE, !.metrics = s.metrics, !.interval = s.interval] \in Entries
  BY <1>2, ClosedType DEF Entries, Subscriptions
<1>4. sub' \in [Handles -> Entries]
  BY <1>1, <1>3 DEF TypeOK
<1>5. stream' \in [Handles -> SUBSET Metrics]
  BY <1>1 DEF Ask, TypeOK
<1>6. wake' \in [Providers -> BOOLEAN]
  BY <1>1 DEF NotifyWorkers, TypeOK
<1>7. QED
  BY <1>1, <1>4, <1>5, <1>6

LEMMA TypeNext == TypeOK /\ [Next]_vars => TypeOK'
<1> SUFFICES ASSUME TypeOK, [Next]_vars PROVE TypeOK'
  OBVIOUS
<1>1. CASE Discover
  BY <1>1 DEF Discover, TypeOK, Phases
<1>2. CASE Start
  <2>1. PICK T : worker \in [Providers -> WorkerRecords(T)]
    BY DEF TypeOK, HaveType
  <2>2. worker' \in [Providers -> WorkerRecords(T)]
    BY <1>2, <2>1 DEF Start, WorkerRecords, Places
  <2>3. HaveType(worker')
    BY <2>2 DEF HaveType
  <2>4. QED
    BY <1>2, <2>3 DEF Start, TypeOK, Phases
<1>3. CASE Cancel
  BY <1>3 DEF Cancel, TypeOK, Phases
<1>4. CASE CloseAll
  BY <1>4, ClosedType DEF CloseAll, TypeOK, Phases
<1>5. CASE Tick
  BY <1>5, TickType DEF Tick, TypeOK
<1>6. ASSUME NEW p \in Providers, Worker(p)
      PROVE  TypeOK'
  <2>1. HaveType(worker')
    BY <1>6, WorkerMoves, SMTT(30)
  <2>2. CASE Publish(p)
    BY <2>1, <2>2, PublishType DEF Publish, TypeOK
  <2>3. CASE Look(p) \/ Woken(p) \/ Stop(p)
    BY <2>1, <2>3 DEF Look, Woken, Stop, TypeOK
  <2>4. QED
    BY <1>6, <2>2, <2>3 DEF Worker
<1>7. ASSUME NEW h \in Handles, Consumer(h)
      PROVE  TypeOK'
  <2>1. CASE Subscribe(h)
    BY <2>1, SubscribeType DEF Subscribe, TypeOK
  <2>2. CASE Unsubscribe(h)
    BY <2>2, ClosedType DEF Unsubscribe, NotifyWorkers, TypeOK
  <2>3. CASE Receive(h)
    BY <2>3 DEF Receive, TypeOK
  <2>4. QED
    BY <1>7, <2>1, <2>2, <2>3 DEF Consumer
<1>8. CASE UNCHANGED vars
  BY <1>8 DEF vars, TypeOK
<1>9. QED
  BY <1>1, <1>2, <1>3, <1>4, <1>5, <1>6, <1>7, <1>8 DEF Next

\* In every state phases, subscriptions, streams and workers have their types.
THEOREM TypeCorrect == Spec => []TypeOK
BY TypeInit, TypeNext, PTL DEF Spec

-----------------------------------------------------------------------------
(* Shutdown.  The inductive invariant adds the order of the phases: a      *)
(* stopped scheduler was cancelled, and a cancelled one started, so it     *)
(* cannot be started again and revive its workers.                         *)

StopInv ==
    /\ StopIsFinal
    /\ phase.stopped => phase.cancelled
    /\ phase.cancelled => phase.started

LEMMA StopInit == Init => StopInv
BY DEF Init, StopInv, StopIsFinal

LEMMA StopNext == TypeOK /\ StopInv /\ [Next]_vars => StopInv'
<1> SUFFICES ASSUME TypeOK, StopInv, [Next]_vars PROVE StopInv'
  OBVIOUS
<1>1. CASE Discover
  BY <1>1 DEF Discover, StopInv, StopIsFinal, TypeOK, Phases
<1>2. CASE Start
  BY <1>2 DEF Start, StopInv, StopIsFinal, TypeOK, Phases
<1>3. CASE Cancel
  BY <1>3 DEF Cancel, StopInv, StopIsFinal, TypeOK, Phases
<1>4. CASE CloseAll
  BY <1>4, ClosedType DEF CloseAll, StopInv, StopIsFinal, TypeOK, Phases
<1>5. CASE Tick
  <2>1. phase' = phase
    BY <1>5 DEF Tick
  <2>2. QED
    BY <1>5, <2>1, TickType DEF StopInv, StopIsFinal
<1>6. ASSUME NEW p \in Providers, Worker(p)
      PROVE  StopInv'
  <2>1. ~phase.stopped
    BY <1>6, WorkerMoves DEF StopInv, StopIsFinal
  <2>2. phase' = phase
    BY <1>6 DEF Worker, Look, Woken, Stop, Publish
  <2>3. QED
    BY <2>1, <2>2 DEF StopInv, StopIsFinal
<1>7. ASSUME NEW h \in Handles, Consumer(h)
      PROVE  StopInv'
  <2>1. phase' = phase /\ worker' = worker
    BY <1>7 DEF Consumer, Subscribe, Unsubscribe, Receive
  <2>2. phase.stopped => \A g \in Handles : ~sub'[g].open
    <3>1. CASE Subscribe(h)
      BY <3>1, SubscribeType DEF StopInv, StopIsFinal
    <3>2. CASE Unsubscribe(h)
      BY <3>2, ClosedType DEF Unsubscribe, TypeOK, StopInv, StopIsFinal
    <3>3. CASE Receive(h)
      BY <3>3 DEF Receive, StopInv, StopIsFinal
    <3>4. QED
      BY <1>7, <3>1, <3>2, <3>3 DEF Consumer
  <2>3. QED
    BY <2>1, <2>2 DEF StopInv, StopIsFinal
<1>8. CASE UNCHANGED vars
  BY <1>8 DEF vars, StopInv, StopIsFinal
<1>9. QED
  BY <1>1, <1>2, <1>3, <1>4, <1>5, <1>6, <1>7, <1>8 DEF Next

\* Once the streams are closed no worker is left to publish to them, and no
\* later subscription stays open, in every state of the scheduler.
THEOREM StopAlwaysFinal == Spec => []StopIsFinal
<1>1. StopInv => StopIsFinal
  BY DEF StopInv
<1>2. QED
  BY TypeInit, TypeNext, StopInit, StopNext, <1>1, PTL DEF Spec

-----------------------------------------------------------------------------
(* The cadence.  Interval chooses the least of the intervals at which the  *)
(* subscriptions want a metric; that it exists takes a well-ordering.      *)

LEMMA LeastElement ==
    ASSUME NEW S \in SUBSET Nat, S # {}
    PROVE  \E x \in S : \A y \in S : x <= y
<1>1. PICK x \in S : \A y \in S : ~(<<y, x>> \in OpToRel(<, Nat))
  BY NatLessThanWellFounded, WFMin
<1>2. \A y \in S : x <= y
  <2>1. SUFFICES ASSUME NEW y \in S PROVE x <= y
    OBVIOUS
  <2>2. ~(y < x)
    BY <1>1 DEF OpToRel
  <2>3. QED
    BY <2>2
<1>3. QED
  BY <1>2

\* A metric that a subscription wants is sampled at an interval that its
\* descriptor allows.
LEMMA IntervalAllowed ==
    ASSUME TypeOK, NEW m \in Metrics, NEW g \in Handles, Wanted(g, m)
    PROVE  Interval(m) \in Nat /\ Interval(m) >= MinGap[m]
<1> DEFINE S == {Effective(h, m) : h \in {f \in Handles : Wanted(f, m)}}
<1>1. \A h \in Handles : Effective(h, m) \in Nat /\ Effective(h, m) >= MinGap[m]
  BY SchedulerAssumption DEF Effective, Most, TypeOK, Entries
<1>2. S \in SUBSET Nat /\ S # {}
  BY <1>1
<1>3. PICK i \in S : \A j \in S : i <= j
  BY <1>2, LeastElement
<1>4. \A h \in Handles : Wanted(h, m) => i <= Effective(h, m)
  BY <1>3
<1>5. Interval(m) \in S
  BY <1>3, <1>4 DEF Interval
<1>6. QED
  BY <1>1, <1>5

\* A metric is due only when its provider was last asked for it as long ago as
\* its descriptor demands.
LEMMA DueIsOld ==
    ASSUME TypeOK, NEW p \in Providers, NEW m \in Due(p)
    PROVE  worker[p].age[m] >= MinGap[m]
<1>1. m \in Metrics /\ Remaining(p, m) = 0 /\ \E h \in Handles : Wanted(h, m)
  BY DEF Due, Demand
<1>2. Interval(m) \in Nat /\ Interval(m) >= MinGap[m]
  BY <1>1, IntervalAllowed
<1>3. PICK T : worker \in [Providers -> WorkerRecords(T)]
  BY DEF TypeOK, HaveType
<1>4. worker[p].age[m] \in Nat
  BY <1>1, <1>3, SchedulerAssumption DEF WorkerRecords, Ages
<1>5. MinGap[m] \in Nat
  BY <1>1, SchedulerAssumption
<1>6. QED
  BY <1>1, <1>2, <1>4, <1>5 DEF Remaining, Most

LEMMA CadenceStep ==
    ASSUME TypeOK, [Next]_vars, NEW p \in Providers,
           worker[p].at = "look", worker'[p].at \in InSample, NEW m \in worker'[p].due
    PROVE  worker[p].age[m] >= MinGap[m]
<1>1. Look(p) /\ worker'[p].due = Due(p)
  <2>1. PICK T : worker \in [Providers -> WorkerRecords(T)]
    BY DEF TypeOK, HaveType
  <2>2. worker'[p].at # "look"
    BY DEF InSample
  <2>3. CASE Next
    <3>1. PICK q \in Providers : Worker(q)
      <4>1. ~(Discover \/ Cancel \/ CloseAll \/ Start)
        BY <2>1, <2>2 DEF Discover, Cancel, CloseAll, Start, WorkerRecords
      <4>2. ~Tick
        BY <2>2, TickType
      <4>3. ~\E h \in Handles : Consumer(h)
        BY <2>2 DEF Consumer, Subscribe, Unsubscribe, Receive
      <4>4. QED
        BY <2>3, <4>1, <4>2, <4>3 DEF Next
    <3>2. q = p
      BY <2>2, <3>1, WorkerMoves
    <3>3. Look(p)
      BY <3>1, <3>2, WorkerMoves
    <3>4. ~Work(p, [worker[p] EXCEPT !.at = "idle"])
      BY <2>1 DEF Work, WorkerRecords, InSample
    <3>5. ASSUME NEW t PROVE ~Work(p, [worker[p] EXCEPT !.at = "wait", !.timer = t])
      BY <2>1 DEF Work, WorkerRecords, InSample
    <3>6. Work(p, [worker[p] EXCEPT !.at = Sampling, !.due = Due(p),
                       !.age = [k \in Metrics |-> IF k \in Due(p) THEN 0 ELSE @[k]]])
      BY <3>3, <3>4, <3>5 DEF Look
    <3>7. worker'[p].due = Due(p)
      BY <2>1, <3>6 DEF Work, WorkerRecords
    <3>8. QED
      BY <3>3, <3>7
  <2>4. CASE UNCHANGED vars
    BY <2>2, <2>4 DEF vars
  <2>5. QED
    BY <2>3, <2>4
<1>2. QED
  BY <1>1, DueIsOld

\* A provider is never asked for a metric sooner than its descriptor allows
\* after it was last asked for it, whoever subscribes and whatever wakes it.
THEOREM CadenceAlwaysSafe == Spec => SafeCadence
<1>1. TypeOK /\ [Next]_vars =>
        [\A p \in Providers : worker[p].at = "look" /\ worker'[p].at \in InSample =>
           \A m \in worker'[p].due : worker[p].age[m] >= MinGap[m]]_vars
  BY CadenceStep
<1>2. QED
  BY TypeInit, TypeNext, <1>1, PTL DEF Spec, SafeCadence

-----------------------------------------------------------------------------
(*                        The pages of the window                          *)

-----------------------------------------------------------------------------
(* The ring of a metric holds the newest samples.                          *)

Samples == [at : Nat, value : Int, good : BOOLEAN]

Rings == [samples : [0 .. HistoryCapacity - 1 -> Samples],
          next : 0 .. HistoryCapacity - 1, size : 0 .. HistoryCapacity]

LEMMA RingCapacity ==
    ASSUME NEW ring \in Rings
    PROVE  Capacity(ring) = HistoryCapacity
<1>1. DOMAIN ring.samples = 0 .. HistoryCapacity - 1
  BY DEF Rings
<1>2. QED
  BY <1>1, FS_Interval, PagesAssumption DEF Capacity

\* The position of the oldest sample of a ring, and of the i-th after it.
First(n, next, size) == IF next >= size THEN next - size ELSE next - size + n
Place(n, first, i) == IF first + i - 1 < n THEN first + i - 1 ELSE first + i - 1 - n
Following(n, next) == IF next + 1 < n THEN next + 1 ELSE 0

LEMMA FirstIs ==
    ASSUME NEW n \in Nat \ {0}, NEW next \in 0 .. n - 1, NEW size \in 0 .. n
    PROVE  /\ First(n, next, size) \in 0 .. n - 1
           /\ (next - size + n) % n = First(n, next, size)
BY DEF First

LEMMA PlaceIs ==
    ASSUME NEW n \in Nat \ {0}, NEW first \in 0 .. n - 1, NEW i \in 1 .. n
    PROVE  /\ Place(n, first, i) \in 0 .. n - 1
           /\ (first + i - 1) % n = Place(n, first, i)
BY DEF Place

LEMMA FollowingIs ==
    ASSUME NEW n \in Nat \ {0}, NEW next \in 0 .. n - 1
    PROVE  /\ Following(n, next) \in 0 .. n - 1
           /\ (next + 1) % n = Following(n, next)
BY DEF Following

\* While the ring is not full, the first position stays and the next one is new.
LEMMA RingGrows ==
    ASSUME NEW n \in Nat \ {0}, NEW next \in 0 .. n - 1, NEW size \in 0 .. n - 1
    PROVE  /\ First(n, Following(n, next), size + 1) = First(n, next, size)
           /\ Place(n, First(n, next, size), size + 1) = next
           /\ \A i \in 1 .. size : Place(n, First(n, next, size), i) # next
BY DEF First, Following, Place

\* In a full ring the first position moves on, and the others with it.
LEMMA RingSlides ==
    ASSUME NEW n \in Nat \ {0}, NEW next \in 0 .. n - 1
    PROVE  /\ First(n, Following(n, next), n) = Following(n, next)
           /\ First(n, next, n) = next
           /\ Place(n, Following(n, next), n) = next
           /\ \A i \in 1 .. n - 1 :
                /\ Place(n, Following(n, next), i) = Place(n, next, i + 1)
                /\ Place(n, next, i + 1) # next
BY DEF First, Following, Place

\* A ring's parts.
LEMMA RingParts ==
    ASSUME NEW ring \in Rings
    PROVE  /\ HistoryCapacity \in Nat \ {0}
           /\ ring.next \in 0 .. HistoryCapacity - 1
           /\ ring.size \in 0 .. HistoryCapacity
           /\ ring.samples \in [0 .. HistoryCapacity - 1 -> Samples]
           /\ ring = [samples |-> ring.samples, next |-> ring.next, size |-> ring.size]
BY PagesAssumption DEF Rings

LEMMA OldestIs ==
    ASSUME NEW ring \in Rings
    PROVE  /\ Oldest(ring) \in 0 .. HistoryCapacity - 1
           /\ Oldest(ring) = First(HistoryCapacity, ring.next, ring.size)
<1>1. Oldest(ring) = (ring.next - ring.size + HistoryCapacity) % HistoryCapacity
  BY RingCapacity, Zenon DEF Oldest
<1>2. /\ HistoryCapacity \in Nat \ {0}
      /\ ring.next \in 0 .. HistoryCapacity - 1 /\ ring.size \in 0 .. HistoryCapacity
  BY RingParts, Zenon
<1>3. /\ First(HistoryCapacity, ring.next, ring.size) \in 0 .. HistoryCapacity - 1
      /\ (ring.next - ring.size + HistoryCapacity) % HistoryCapacity
           = First(HistoryCapacity, ring.next, ring.size)
  BY <1>2, FirstIs
<1>4. QED
  BY <1>1, <1>3, Zenon

LEMMA SnapshotIs ==
    ASSUME NEW ring \in Rings
    PROVE  /\ Snapshot(ring) \in Seq(Samples)
           /\ Len(Snapshot(ring)) = ring.size
           /\ \A i \in 1 .. ring.size :
                Snapshot(ring)[i] = ring.samples[Place(HistoryCapacity, Oldest(ring), i)]
<1>1. PICK n, o, s, f : n = HistoryCapacity /\ o = Oldest(ring) /\ s = ring.size /\ f = ring.samples
  OBVIOUS
<1>2. n \in Nat \ {0} /\ o \in 0 .. n - 1 /\ s \in 0 .. n /\ f \in [0 .. n - 1 -> Samples]
  BY <1>1, RingParts, OldestIs, Zenon
<1>3. Snapshot(ring) = [i \in 1 .. s |-> f[(o + i - 1) % n]]
  BY <1>1, RingCapacity, Zenon DEF Snapshot
<1>4. ASSUME NEW i \in 1 .. s
      PROVE  /\ (o + i - 1) % n = Place(n, o, i)
             /\ f[(o + i - 1) % n] \in Samples
  <2>1. i \in 1 .. n
    BY <1>2
  <2>2. QED
    BY <1>2, <2>1, PlaceIs
<1>5. PICK snapshot : snapshot = Snapshot(ring)
  OBVIOUS
<1>6. snapshot \in [1 .. s -> Samples] /\ \A i \in 1 .. s : snapshot[i] = f[Place(n, o, i)]
  BY <1>3, <1>4, <1>5
<1>7. snapshot \in Seq(Samples) /\ Len(snapshot) = s
  BY <1>2, <1>6
<1>8. QED
  BY <1>1, <1>5, <1>6, <1>7, Zenon

LEMMA AppendedIs ==
    ASSUME NEW ring \in Rings, NEW sample \in Samples
    PROVE  /\ Appended(ring, sample) \in Rings
           /\ Appended(ring, sample).samples = [ring.samples EXCEPT ![ring.next] = sample]
           /\ Appended(ring, sample).next = Following(HistoryCapacity, ring.next)
           /\ Appended(ring, sample).size =
                IF ring.size < HistoryCapacity THEN ring.size + 1 ELSE ring.size
<1>1. Appended(ring, sample) =
        [samples |-> [ring.samples EXCEPT ![ring.next] = sample],
         next |-> Following(HistoryCapacity, ring.next),
         size |-> IF ring.size < HistoryCapacity THEN ring.size + 1 ELSE ring.size]
  BY RingCapacity, RingParts, FollowingIs, Zenon DEF Appended
<1>2. /\ [ring.samples EXCEPT ![ring.next] = sample] \in [0 .. HistoryCapacity - 1 -> Samples]
      /\ (IF ring.size < HistoryCapacity THEN ring.size + 1 ELSE ring.size) \in 0 .. HistoryCapacity
  BY RingParts
<1>3. Following(HistoryCapacity, ring.next) \in 0 .. HistoryCapacity - 1
  BY RingParts, FollowingIs, Zenon
<1>4. QED
  BY <1>1, <1>2, <1>3 DEF Rings

LEMMA NewRingIs ==
  /\ NewRing(HistoryCapacity, NoSample) \in Rings
  /\ Snapshot(NewRing(HistoryCapacity, NoSample)) = << >>
<1>1. NewRing(HistoryCapacity, NoSample) \in Rings /\ NewRing(HistoryCapacity, NoSample).size = 0
  BY PagesAssumption DEF NewRing, NoSample, Rings, Samples
<1>2. QED
  BY <1>1, SnapshotIs

\* After an append the snapshot is the newest of the old one and the sample.
LEMMA AppendKeepsNewest ==
    ASSUME NEW ring \in Rings, NEW sample \in Samples
    PROVE  Snapshot(Appended(ring, sample)) = Newest(Append(Snapshot(ring), sample), HistoryCapacity)
<1>1. PICK n, x, s, f : n = HistoryCapacity /\ x = ring.next /\ s = ring.size /\ f = ring.samples
  OBVIOUS
<1>2. n \in Nat \ {0} /\ x \in 0 .. n - 1 /\ s \in 0 .. n /\ f \in [0 .. n - 1 -> Samples]
  BY <1>1, RingParts, Zenon
<1>3. PICK g : g = [f EXCEPT ![x] = sample]
  OBVIOUS
<1>4. /\ g[x] = sample
      /\ \A k \in 0 .. n - 1 : k # x => g[k] = f[k]
  BY <1>2, <1>3
<1>5. PICK before, after : before = Snapshot(ring) /\ after = Snapshot(Appended(ring, sample))
  OBVIOUS
<1>6. /\ before \in Seq(Samples) /\ Len(before) = s
      /\ \A i \in 1 .. s : before[i] = f[Place(n, First(n, x, s), i)]
  BY <1>1, <1>5, OldestIs, SnapshotIs, Zenon
<1>7. PICK r : r = IF s < n THEN s + 1 ELSE s
  OBVIOUS
<1>8. /\ after \in Seq(Samples) /\ Len(after) = r
      /\ \A i \in 1 .. r : after[i] = g[Place(n, First(n, Following(n, x), r), i)]
  <2>1. PICK next : next = Appended(ring, sample)
    OBVIOUS
  <2>2. next \in Rings /\ next.samples = g /\ next.next = Following(n, x) /\ next.size = r
    BY <1>1, <1>3, <1>7, <2>1, AppendedIs, Zenon
  <2>3. QED
    BY <1>1, <1>5, <2>1, <2>2, OldestIs, SnapshotIs
<1>9. PICK all : all = Append(before, sample)
  OBVIOUS
<1>10. /\ all \in Seq(Samples) /\ Len(all) = s + 1
       /\ \A i \in 1 .. s : all[i] = before[i]
       /\ all[s + 1] = sample
  BY <1>2, <1>6, <1>9
<1>11. PICK o : o = First(n, x, s)
  OBVIOUS
<1>12. o \in 0 .. n - 1
  BY <1>2, <1>11, FirstIs
<1>13. CASE s < n
  <2>1. s \in 0 .. n - 1 /\ r = s + 1
    BY <1>2, <1>7, <1>13
  <2>2. /\ First(n, Following(n, x), r) = o
        /\ Place(n, o, s + 1) = x
        /\ \A i \in 1 .. s : Place(n, o, i) # x
    BY <1>2, <1>11, <2>1, RingGrows, SMT
  <2>3. ASSUME NEW i \in 1 .. r
        PROVE  after[i] = all[i]
    <3>1. after[i] = g[Place(n, o, i)]
      BY <1>8, <2>2
    <3>2. CASE i = s + 1
      BY <1>4, <1>10, <2>2, <3>1, <3>2
    <3>3. CASE i # s + 1
      <4>1. i \in 1 .. s /\ i \in 1 .. n
        BY <1>2, <2>1, <3>3
      <4>2. Place(n, o, i) \in 0 .. n - 1
        BY <1>2, <1>12, <4>1, PlaceIs
      <4>3. QED
        BY <1>4, <1>6, <1>10, <1>11, <2>2, <3>1, <4>1, <4>2
    <3>4. QED
      BY <3>2, <3>3
  <2>4. after = all
    BY <1>2, <1>8, <1>10, <2>1, <2>3
  <2>5. Newest(all, n) = all
    BY <1>2, <1>10, <2>1 DEF Newest
  <2>6. QED
    BY <1>1, <1>5, <1>9, <2>4, <2>5
<1>14. CASE s = n
  <2>1. r = n
    BY <1>2, <1>7, <1>14
  <2>2. PICK y : y = Following(n, x)
    OBVIOUS
  <2>3. /\ First(n, y, r) = y /\ o = x
        /\ Place(n, y, n) = x
        /\ \A i \in 1 .. n - 1 : Place(n, y, i) = Place(n, x, i + 1) /\ Place(n, x, i + 1) # x
    BY <1>2, <1>11, <1>14, <2>1, <2>2, RingSlides, Zenon
  <2>4. PICK newer : newer = SubSeq(all, 2, n + 1)
    OBVIOUS
  <2>5. newer \in Seq(Samples) /\ Len(newer) = n /\ \A i \in 1 .. n : newer[i] = all[i + 1]
    BY <1>2, <1>10, <1>14, <2>4
  <2>6. ASSUME NEW i \in 1 .. n
        PROVE  after[i] = newer[i]
    <3>1. after[i] = g[Place(n, y, i)]
      BY <1>8, <2>1, <2>2, <2>3
    <3>2. CASE i = n
      BY <1>4, <1>10, <1>14, <2>3, <2>5, <3>1, <3>2
    <3>3. CASE i # n
      <4>1. i \in 1 .. n - 1 /\ i + 1 \in 1 .. n
        BY <1>2, <3>3
      <4>2. Place(n, x, i + 1) \in 0 .. n - 1
        BY <1>2, <4>1, PlaceIs
      <4>3. before[i + 1] = f[Place(n, x, i + 1)]
        BY <1>6, <1>11, <1>14, <2>3, <4>1
      <4>4. QED
        BY <1>4, <1>10, <1>14, <2>3, <2>5, <3>1, <4>1, <4>2, <4>3
    <3>4. QED
      BY <3>2, <3>3
  <2>7. after = newer
    BY <1>2, <1>8, <2>1, <2>5, <2>6
  <2>8. Newest(all, n) = newer
    <3>1. Len(all) = n + 1 /\ ~(n + 1 <= n) /\ (n + 1) - n + 1 = 2
      BY <1>2, <1>10, <1>14
    <3>2. QED
      BY <2>4, <3>1 DEF Newest
  <2>9. QED
    BY <1>1, <1>5, <1>9, <2>7, <2>8
<1>15. QED
  BY <1>2, <1>13, <1>14

-----------------------------------------------------------------------------
(* A chart keeps the extremes of each column.                              *)

\* Of some integers in an interval there is a first largest.
LEMMA FirstLargest ==
    ASSUME NEW a \in Nat, NEW b \in Nat, a <= b,
           NEW f, \A i \in a .. b : f[i] \in Int
    PROVE  \E m \in a .. b : /\ \A j \in a .. b : f[m] >= f[j]
                             /\ \A j \in a .. m - 1 : f[m] > f[j]
<1> DEFINE Best(c, m) == /\ \A j \in a .. c : f[m] >= f[j]
                         /\ \A j \in a .. m - 1 : f[m] > f[j]
           Bad == {c \in Nat : c \in a .. b /\ ~\E m \in a .. c : Best(c, m)}
<1>1. SUFFICES Bad = {}
  <2>1. b \in a .. b
    OBVIOUS
  <2>2. QED
    BY <1>1, <2>1
<1>2. SUFFICES ASSUME Bad # {} PROVE FALSE
  OBVIOUS
<1>3. PICK c \in Bad : \A d \in Bad : c <= d
  <2>1. Bad \in SUBSET Nat
    OBVIOUS
  <2> HIDE DEF Bad
  <2>2. QED
    BY <1>2, <2>1, LeastElement
<1>4. c \in a .. b /\ ~\E m \in a .. c : Best(c, m)
  OBVIOUS
<1>5. c # a
  <2>1. SUFFICES ASSUME c = a PROVE \E m \in a .. c : Best(c, m)
    BY <1>4
  <2>2. a .. c = {a} /\ a .. a - 1 = {}
    BY <2>1
  <2>3. Best(c, a)
    BY <2>1, <2>2
  <2>4. QED
    BY <2>2, <2>3
<1>6. c - 1 \in a .. b /\ c - 1 \in Nat /\ ~(c <= c - 1)
  BY <1>4, <1>5
<1>7. PICK m \in a .. c - 1 : Best(c - 1, m)
  <2>1. c - 1 \notin Bad
    BY <1>3, <1>6
  <2>2. QED
    BY <1>6, <2>1
<1>8. m \in a .. c /\ c \in a .. c /\ f[m] \in Int /\ f[c] \in Int
  BY <1>4, <1>6
<1>9. CASE f[m] >= f[c]
  <2>1. Best(c, m)
    BY <1>4, <1>7, <1>9
  <2>2. QED
    BY <1>4, <1>8, <2>1
<1>10. CASE ~(f[m] >= f[c])
  <2>1. ASSUME NEW j \in a .. c - 1 PROVE f[c] > f[j]
    <3>1. f[j] \in Int
      BY <1>4, <2>1
    <3>2. f[m] >= f[j]
      BY <1>7
    <3>3. QED
      BY <1>8, <1>10, <3>1, <3>2
  <2>2. Best(c, c)
    BY <1>4, <1>8, <2>1
  <2>3. QED
    BY <1>4, <1>8, <2>2
<1>11. QED
  BY <1>9, <1>10

LEMMA FirstLowest ==
    ASSUME NEW a \in Nat, NEW b \in Nat, a <= b,
           NEW f, \A i \in a .. b : f[i] \in Int
    PROVE  \E m \in a .. b : /\ \A j \in a .. b : f[m] <= f[j]
                             /\ \A j \in a .. m - 1 : f[m] < f[j]
<1>1. PICK g : g = [i \in a .. b |-> -f[i]]
  OBVIOUS
<1>2. \A i \in a .. b : g[i] \in Int /\ g[i] = -f[i]
  BY <1>1
<1>3. PICK m \in a .. b : /\ \A j \in a .. b : g[m] >= g[j]
                          /\ \A j \in a .. m - 1 : g[m] > g[j]
  BY <1>2, FirstLargest
<1>4. \A j \in a .. b : f[m] <= f[j]
  BY <1>2, <1>3
<1>5. \A j \in a .. m - 1 : f[m] < f[j]
  BY <1>2, <1>3
<1>6. QED
  BY <1>4, <1>5

\* The positions kept of one column are in it, and its samples between theirs.
LEMMA ExtremesAre ==
    ASSUME NEW samples \in Seq(Samples), NEW a \in 1 .. Len(samples), NEW b \in a .. Len(samples)
    PROVE  \E l, h \in a .. b :
             /\ Extremes(samples, a, b) = {l, h}
             /\ \A j \in a .. b : /\ samples[l].value <= samples[j].value
                                  /\ samples[j].value <= samples[h].value
<1>1. PICK f : f = [i \in a .. b |-> samples[i].value]
  OBVIOUS
<1>2. \A i \in a .. b : f[i] \in Int /\ f[i] = samples[i].value
  <2>1. SUFFICES ASSUME NEW i \in a .. b PROVE samples[i].value \in Int
    BY <1>1
  <2>2. i \in 1 .. Len(samples)
    OBVIOUS
  <2>3. samples[i] \in Samples
    BY <2>2
  <2>4. QED
    BY <2>3 DEF Samples
<1>3. a \in Nat /\ b \in Nat /\ a <= b
  OBVIOUS
<1> DEFINE Low(i) == /\ \A j \in a .. b : samples[i].value <= samples[j].value
                     /\ \A j \in a .. i - 1 : samples[i].value < samples[j].value
           High(i) == /\ \A j \in a .. b : samples[i].value >= samples[j].value
                      /\ \A j \in a .. i - 1 : samples[i].value > samples[j].value
<1>4. \E i \in a .. b : Low(i)
  <2>1. PICK m \in a .. b : /\ \A j \in a .. b : f[m] <= f[j]
                            /\ \A j \in a .. m - 1 : f[m] < f[j]
    BY <1>2, <1>3, FirstLowest
  <2>2. \A j \in a .. m - 1 : j \in a .. b
    BY <1>3
  <2>3. Low(m)
    BY <1>2, <2>1, <2>2
  <2>4. QED
    BY <2>3
<1>5. \E i \in a .. b : High(i)
  <2>1. PICK m \in a .. b : /\ \A j \in a .. b : f[m] >= f[j]
                            /\ \A j \in a .. m - 1 : f[m] > f[j]
    BY <1>2, <1>3, FirstLargest
  <2>2. \A j \in a .. m - 1 : j \in a .. b
    BY <1>3
  <2>3. High(m)
    BY <1>2, <2>1, <2>2
  <2>4. QED
    BY <2>3
<1>6. Extremes(samples, a, b) = {CHOOSE i \in a .. b : Low(i), CHOOSE i \in a .. b : High(i)}
  BY Zenon DEF Extremes
<1>7. Low(CHOOSE i \in a .. b : Low(i)) /\ High(CHOOSE i \in a .. b : High(i))
  BY <1>4, <1>5, Zenon
<1>8. (CHOOSE i \in a .. b : Low(i)) \in a .. b /\ (CHOOSE i \in a .. b : High(i)) \in a .. b
  BY <1>4, <1>5, Zenon
<1>9. PICK l, h \in a .. b : l = (CHOOSE i \in a .. b : Low(i)) /\ h = (CHOOSE i \in a .. b : High(i))
  BY <1>8
<1>10. \A j \in a .. b : samples[l].value <= samples[j].value
  BY <1>7, <1>9, Zenon
<1>11. \A j \in a .. b : samples[h].value >= samples[j].value
  BY <1>7, <1>9, Zenon
<1>12. QED
  <2>1. Extremes(samples, a, b) = {l, h}
    BY <1>6, <1>9
  <2>2. \A j \in a .. b : samples[j].value <= samples[h].value
    <3>1. \A j \in a .. b : samples[j].value \in Int
      BY <1>2
    <3>2. QED
      BY <1>11, <3>1
  <2>3. QED
    BY <1>10, <2>1, <2>2, Zenon

\* What a quotient of naturals is.
LEMMA Quotient ==
    ASSUME NEW x \in Nat, NEW y \in Nat \ {0}
    PROVE  /\ x \div y \in Nat
           /\ (x \div y) * y <= x
           /\ x < (x \div y) * y + y
OBVIOUS

LEMMA ProductGrows ==
    ASSUME NEW a \in Nat, NEW b \in Nat, NEW s \in Nat, a <= b
    PROVE  a * s <= b * s
OBVIOUS

LEMMA FactorGrows ==
    ASSUME NEW a \in Nat, NEW b \in Nat, NEW s \in Nat, a * s < b * s
    PROVE  a < b
<1>1. ~(b <= a)
  BY ProductGrows
<1>2. QED
  BY <1>1

\* A history of n samples takes no more buckets than there are columns, each of
\* them has samples, and each sample is in one.
LEMMA BucketsAre ==
    ASSUME NEW n \in Nat \ {0}, NEW c \in Nat \ {0}
    PROVE  /\ BucketSize(n, c) \in Nat \ {0}
           /\ Buckets(n, BucketSize(n, c)) \in Nat
           /\ Buckets(n, BucketSize(n, c)) <= c
           /\ \A b \in 1 .. Buckets(n, BucketSize(n, c)) :
                (b - 1) * BucketSize(n, c) \in Nat /\ (b - 1) * BucketSize(n, c) + 1 <= n
           /\ \A i \in 1 .. n : \E b \in 1 .. Buckets(n, BucketSize(n, c)) :
                (b - 1) * BucketSize(n, c) + 1 <= i /\ i <= b * BucketSize(n, c)
<1>1. PICK s : s = BucketSize(n, c)
  OBVIOUS
<1>2. s = (n + c - 1) \div c
  BY <1>1 DEF BucketSize
<1>3. n + c - 1 \in Nat /\ c <= n + c - 1
  OBVIOUS
<1>4. s \in Nat /\ n + c - 1 < s * c + c
  BY <1>2, <1>3, Quotient
<1>5. s # 0
  BY <1>3, <1>4
<1>6. PICK w : w = Buckets(n, s)
  OBVIOUS
<1>7. w = (n + s - 1) \div s
  BY <1>6 DEF Buckets
<1>8. n + s - 1 \in Nat
  BY <1>4, <1>5
<1>9. w \in Nat /\ w * s <= n + s - 1 /\ n + s - 1 < w * s + s
  BY <1>4, <1>5, <1>7, <1>8, Quotient
<1>10. w <= c
  <2>1. c * s = s * c /\ (c + 1) * s = s * c + s
    BY <1>4
  <2>2. w * s < (c + 1) * s
    <3>1. PICK p, q \in Int : p = w * s /\ q = s * c
      BY <1>4, <1>9
    <3>2. QED
      BY <1>4, <1>9, <2>1, <3>1
  <2>3. w < c + 1
    BY <1>4, <1>9, <2>2, FactorGrows
  <2>4. QED
    BY <1>9, <2>3
<1>11. ASSUME NEW b \in 1 .. w
       PROVE  (b - 1) * s \in Nat /\ (b - 1) * s + 1 <= n
  <2>1. b \in Nat /\ b - 1 \in Nat /\ b <= w
    BY <1>9
  <2>2. b * s <= w * s /\ (b - 1) * s = b * s - s /\ (b - 1) * s \in Nat
    BY <1>4, <1>9, <2>1, ProductGrows
  <2>3. PICK p, q, r \in Int : p = w * s /\ q = b * s /\ r = (b - 1) * s
    BY <1>4, <1>9, <2>1
  <2>4. QED
    BY <1>4, <1>9, <2>2, <2>3
<1>12. ASSUME NEW i \in 1 .. n
       PROVE  \E b \in 1 .. w : (b - 1) * s + 1 <= i /\ i <= b * s
  <2>1. PICK d : d = (i - 1) \div s
    OBVIOUS
  <2>2. i - 1 \in Nat
    OBVIOUS
  <2>3. d \in Nat /\ d * s <= i - 1 /\ i - 1 < d * s + s
    BY <1>4, <1>5, <2>1, <2>2, Quotient
  <2>4. (d + 1) * s = d * s + s /\ (w + 1) * s = w * s + s /\ ((d + 1) - 1) * s = d * s
    BY <1>4, <1>9, <2>3
  <2>5. (d + 1) * s < (w + 1) * s
    <3>1. PICK p, q \in Int : p = w * s /\ q = d * s
      BY <1>4, <1>9, <2>3
    <3>2. QED
      BY <1>4, <1>9, <2>3, <2>4, <3>1
  <2>6. d + 1 < w + 1
    BY <1>4, <1>9, <2>3, <2>5, FactorGrows
  <2>7. d + 1 \in 1 .. w
    BY <1>9, <2>3, <2>6
  <2>8. PICK q \in Int : q = d * s
    BY <1>4, <2>3
  <2>9. ((d + 1) - 1) * s + 1 <= i /\ i <= (d + 1) * s
    BY <1>4, <2>3, <2>4, <2>8
  <2>10. QED
    BY <2>7, <2>9
<1>13. QED
  BY <1>1, <1>4, <1>5, <1>6, <1>9, <1>10, <1>11, <1>12

\* How many of some positions are before one of them.
Before(positions, i) == Cardinality({j \in positions : j < i})

\* The positions in order: each once, and each after the previous one.
LEMMA InOrderIs ==
    ASSUME NEW positions \in SUBSET Nat, IsFiniteSet(positions)
    PROVE  /\ Cardinality(positions) \in Nat
           /\ DOMAIN InOrder(positions) = 1 .. Cardinality(positions)
           /\ \A k \in 1 .. Cardinality(positions) : InOrder(positions)[k] \in positions
           /\ \A i \in positions : \E k \in 1 .. Cardinality(positions) : InOrder(positions)[k] = i
           /\ \A k, l \in 1 .. Cardinality(positions) :
                k < l => InOrder(positions)[k] < InOrder(positions)[l]
<1>1. PICK n : n = Cardinality(positions)
  OBVIOUS
<1>2. n \in Nat
  BY <1>1, FS_CardinalityType
<1>3. ASSUME NEW i \in positions
      PROVE  /\ IsFiniteSet({j \in positions : j < i})
             /\ Before(positions, i) \in 0 .. n - 1
  <2>1. PICK P : P = {j \in positions : j < i}
    OBVIOUS
  <2>2. IsFiniteSet(P) /\ Cardinality(P) \in Nat /\ Cardinality(P) <= n /\ (n = Cardinality(P) => positions = P)
    BY <1>1, <2>1, FS_Subset, FS_CardinalityType
  <2>3. i \notin P
    BY <2>1
  <2>4. Cardinality(P) # n
    BY <2>2, <2>3
  <2>5. QED
    BY <1>2, <2>1, <2>2, <2>4 DEF Before
<1>4. ASSUME NEW i \in positions, NEW j \in positions, i < j
      PROVE  Before(positions, i) < Before(positions, j)
  <2>1. PICK P, Q : P = {x \in positions : x < i} /\ Q = {x \in positions : x < j}
    OBVIOUS
  <2>2. \A x \in positions : x \in Nat
    OBVIOUS
  <2>3. \A x \in positions : x < i => x < j
    BY <1>4, <2>2
  <2>4. P \in SUBSET Q /\ i \in Q
    BY <1>4, <2>1, <2>3
  <2>5. i \notin P
    BY <2>1, <2>2
  <2>6. IsFiniteSet(P) /\ IsFiniteSet(Q)
    BY <1>3, <2>1
  <2>7. Cardinality(P) <= Cardinality(Q) /\ (Cardinality(Q) = Cardinality(P) => Q = P)
    BY <2>4, <2>6, FS_Subset
  <2>8. Cardinality(P) \in Nat /\ Cardinality(Q) \in Nat /\ Cardinality(P) # Cardinality(Q)
    BY <2>4, <2>5, <2>6, <2>7, FS_CardinalityType
  <2>9. QED
    BY <2>1, <2>7, <2>8 DEF Before
<1>5. PICK rank : rank = [i \in positions |-> Before(positions, i)]
  OBVIOUS
<1>6. rank \in [positions -> 0 .. n - 1]
  BY <1>3, <1>5
<1>7. \A i, j \in positions : rank[i] = rank[j] => i = j
  <2>1. SUFFICES ASSUME NEW i \in positions, NEW j \in positions, i # j PROVE rank[i] # rank[j]
    OBVIOUS
  <2>2. PICK p, q \in 0 .. n - 1 : p = Before(positions, i) /\ q = Before(positions, j)
    BY <1>3
  <2>3. rank[i] = p /\ rank[j] = q
    BY <1>5, <2>2
  <2>4. i < j \/ j < i
    BY <2>1
  <2>5. i < j => p < q
    BY <1>4, <2>2, Zenon
  <2>6. j < i => q < p
    BY <1>4, <2>2, Zenon
  <2>7. QED
    BY <1>2, <2>3, <2>4, <2>5, <2>6
<1>8. rank \in Injection(positions, 0 .. n - 1)
  BY <1>6, <1>7 DEF Injection, IsInjective
<1>9. IsFiniteSet(0 .. n - 1) /\ Cardinality(0 .. n - 1) = n
  BY <1>2, FS_Interval
<1>10. rank \in Surjection(positions, 0 .. n - 1)
  BY <1>1, <1>8, <1>9, FS_Injection
<1>11. \A r \in 0 .. n - 1 : \E i \in positions : Before(positions, i) = r
  BY <1>5, <1>10 DEF Surjection
<1>12. PICK order : order = InOrder(positions)
  OBVIOUS
<1>13. order = [k \in 1 .. n |-> CHOOSE i \in positions : Before(positions, i) = k - 1]
  BY <1>1, <1>12, Zenon DEF InOrder, Before
<1>14. ASSUME NEW k \in 1 .. n
       PROVE  order[k] \in positions /\ Before(positions, order[k]) = k - 1
  <2>1. k - 1 \in 0 .. n - 1
    BY <1>2
  <2>2. order[k] = CHOOSE i \in positions : Before(positions, i) = k - 1
    BY <1>13
  <2>3. QED
    BY <1>11, <2>1, <2>2, Zenon
<1>15. ASSUME NEW i \in positions
       PROVE  \E k \in 1 .. n : order[k] = i
  <2>1. PICK k \in 1 .. n : k - 1 = Before(positions, i)
    <3>1. PICK p \in 0 .. n - 1 : p = Before(positions, i)
      BY <1>3
    <3>2. p + 1 \in 1 .. n /\ (p + 1) - 1 = p
      BY <1>2
    <3>3. QED
      BY <3>1, <3>2
  <2>2. rank[order[k]] = rank[i]
    BY <1>5, <1>14, <2>1
  <2>3. QED
    BY <1>7, <1>14, <2>2
<1>16. ASSUME NEW k \in 1 .. n, NEW l \in 1 .. n, k < l
       PROVE  order[k] < order[l]
  <2>1. order[k] \in Nat /\ order[l] \in Nat
    BY <1>14
  <2>2. Before(positions, order[k]) < Before(positions, order[l])
    BY <1>2, <1>14, <1>16
  <2>3. order[k] # order[l]
    BY <1>2, <1>14, <1>16
  <2>4. ~(order[l] < order[k])
    <3>1. SUFFICES ASSUME order[l] < order[k] PROVE FALSE
      OBVIOUS
    <3>2. Before(positions, order[l]) < Before(positions, order[k])
      BY <1>4, <1>14, <3>1
    <3>3. QED
      BY <1>3, <1>14, <2>2, <3>2
  <2>5. QED
    BY <2>1, <2>3, <2>4
<1>17. DOMAIN order = 1 .. n
  BY <1>13
<1>18. QED
  BY <1>1, <1>2, <1>12, <1>14, <1>15, <1>16, <1>17, Zenon

\* A set of two elements for each of some numbers has at most twice as many.
LEMMA TwoEach ==
    ASSUME NEW w \in Nat, NEW f, NEW g, NEW S,
           \A b \in 1 .. w : f[b] \in S /\ g[b] \in S,
           \A x \in S : \E b \in 1 .. w : x = f[b] \/ x = g[b]
    PROVE  IsFiniteSet(S) /\ Cardinality(S) <= w + w
<1>1. PICK F, G : F = {f[b] : b \in 1 .. w} /\ G = {g[b] : b \in 1 .. w}
  OBVIOUS
<1>2. S = F \cup G
  BY <1>1
<1>3. IsFiniteSet(1 .. w) /\ Cardinality(1 .. w) = w
  BY FS_Interval
<1>4. ASSUME NEW h, NEW H, H = {h[b] : b \in 1 .. w}
      PROVE  IsFiniteSet(H) /\ Cardinality(H) \in Nat /\ Cardinality(H) <= w
  <2>1. PICK e : e = [b \in 1 .. w |-> h[b]]
    OBVIOUS
  <2>2. e \in Surjection(1 .. w, H)
    BY <1>4, <2>1 DEF Surjection
  <2>3. QED
    BY <1>3, <2>2, FS_Surjection, FS_CardinalityType
<1>5. /\ IsFiniteSet(F) /\ Cardinality(F) \in Nat /\ Cardinality(F) <= w
      /\ IsFiniteSet(G) /\ Cardinality(G) \in Nat /\ Cardinality(G) <= w
  BY <1>1, <1>4
<1>6. PICK B : B = F \cap G
  OBVIOUS
<1>7. IsFiniteSet(B) /\ Cardinality(B) \in Nat
  BY <1>5, <1>6, FS_Intersection, FS_CardinalityType
<1>8. IsFiniteSet(F \cup G) /\ Cardinality(F \cup G) = Cardinality(F) + Cardinality(G) - Cardinality(B)
  BY <1>5, <1>6, FS_Union
<1>9. QED
  BY <1>2, <1>5, <1>7, <1>8

\* The kept positions are positions of the samples, at most two for each column,
\* and every sample is between two kept ones.
LEMMA KeptPositionsAre ==
    ASSUME NEW samples \in Seq(Samples), NEW columns \in Nat \ {0}, Len(samples) > 0
    PROVE  /\ KeptPositions(samples, columns) \in SUBSET (1 .. Len(samples))
           /\ IsFiniteSet(KeptPositions(samples, columns))
           /\ Cardinality(KeptPositions(samples, columns)) <= 2 * columns
           /\ \A i \in 1 .. Len(samples) : \E l, h \in KeptPositions(samples, columns) :
                /\ samples[l].value <= samples[i].value
                /\ samples[i].value <= samples[h].value
<1>1. PICK n : n = Len(samples)
  OBVIOUS
<1>2. n \in Nat \ {0}
  BY <1>1
<1>3. PICK s, w : s = BucketSize(n, columns) /\ w = Buckets(n, BucketSize(n, columns))
  OBVIOUS
<1>4. /\ s \in Nat \ {0} /\ w \in Nat /\ w <= columns
      /\ \A b \in 1 .. w : (b - 1) * s \in Nat /\ (b - 1) * s + 1 <= n
      /\ \A i \in 1 .. n : \E b \in 1 .. w : (b - 1) * s + 1 <= i /\ i <= b * s
  BY <1>2, <1>3, BucketsAre, Zenon
<1> DEFINE EndOf(b) == IF b * s > n THEN n ELSE b * s
           Begin(b) == (b - 1) * s + 1
           Ends(b, l, h) ==
             /\ Extremes(samples, Begin(b), EndOf(b)) = {l, h}
             /\ \A j \in Begin(b) .. EndOf(b) :
                  samples[l].value <= samples[j].value /\ samples[j].value <= samples[h].value
<1>5. ASSUME NEW b \in 1 .. w
      PROVE  Begin(b) \in 1 .. n /\ EndOf(b) \in Begin(b) .. n
  <2>1. b * s = (b - 1) * s + s
    BY <1>4
  <2>2. PICK p \in Nat : p = (b - 1) * s
    BY <1>4
  <2>3. PICK q \in Nat : q = b * s
    BY <1>4
  <2>4. p + 1 <= n /\ q = p + s
    BY <1>4, <2>1, <2>2, <2>3
  <2>5. p + 1 \in 1 .. n /\ (IF q > n THEN n ELSE q) \in p + 1 .. n
    BY <1>2, <1>4, <2>4
  <2>6. QED
    BY <2>2, <2>3, <2>5
<1>6. ASSUME NEW b \in 1 .. w
      PROVE  \E l, h \in 1 .. n : Ends(b, l, h)
  <2>1. PICK x, y : x = Begin(b) /\ y = EndOf(b)
    OBVIOUS
  <2>2. x \in 1 .. n /\ y \in x .. n
    BY <1>5, <2>1
  <2>3. PICK l, h \in x .. y :
             /\ Extremes(samples, x, y) = {l, h}
             /\ \A j \in x .. y : /\ samples[l].value <= samples[j].value
                                  /\ samples[j].value <= samples[h].value
    BY <1>1, <2>2, ExtremesAre
  <2>4. l \in 1 .. n /\ h \in 1 .. n
    BY <1>2, <2>2
  <2>5. Ends(b, l, h)
    BY <2>1, <2>3, Zenon
  <2>6. QED
    BY <2>4, <2>5
<1>7. PICK f, g : /\ f = [b \in 1 .. w |-> CHOOSE l \in 1 .. n : \E h \in 1 .. n : Ends(b, l, h)]
                  /\ g = [b \in 1 .. w |-> CHOOSE h \in 1 .. n : Ends(b, f[b], h)]
  OBVIOUS
<1>8. ASSUME NEW b \in 1 .. w
      PROVE  f[b] \in 1 .. n /\ g[b] \in 1 .. n /\ Ends(b, f[b], g[b])
  <2> HIDE DEF Ends
  <2>1. f[b] = CHOOSE l \in 1 .. n : \E h \in 1 .. n : Ends(b, l, h)
    BY <1>7
  <2>2. f[b] \in 1 .. n /\ \E h \in 1 .. n : Ends(b, f[b], h)
    BY <1>6, <2>1, Zenon
  <2>3. g[b] = CHOOSE h \in 1 .. n : Ends(b, f[b], h)
    BY <1>7
  <2>4. QED
    BY <2>2, <2>3, Zenon
<1>9. PICK kept : kept = KeptPositions(samples, columns)
  OBVIOUS
<1>10. kept = UNION {Extremes(samples, Begin(b), EndOf(b)) : b \in 1 .. w}
  BY <1>1, <1>3, <1>9, Zenon DEF KeptPositions
<1>11. \A b \in 1 .. w : Extremes(samples, Begin(b), EndOf(b)) = {f[b], g[b]}
  BY <1>8
<1>12. kept = UNION {{f[b], g[b]} : b \in 1 .. w}
  <2> HIDE DEF Begin, EndOf
  <2>1. {Extremes(samples, Begin(b), EndOf(b)) : b \in 1 .. w} = {{f[b], g[b]} : b \in 1 .. w}
    BY <1>11, Zenon
  <2>2. QED
    BY <1>10, <2>1
<1>13. IsFiniteSet(kept) /\ Cardinality(kept) <= w + w /\ Cardinality(kept) \in Nat
  <2>1. w \in Nat
    BY <1>4
  <2>2. IsFiniteSet(kept) /\ Cardinality(kept) <= w + w
    <3>1. /\ \A b \in 1 .. w : f[b] \in kept /\ g[b] \in kept
          /\ \A x \in kept : \E b \in 1 .. w : x = f[b] \/ x = g[b]
      BY <1>12
    <3>2. QED
      BY <2>1, <3>1, TwoEach, Zenon
  <2>3. QED
    BY <2>2, FS_CardinalityType
<1>14. kept \in SUBSET (1 .. n)
  BY <1>8, <1>12
<1>15. ASSUME NEW i \in 1 .. n
       PROVE  \E l, h \in kept : samples[l].value <= samples[i].value /\ samples[i].value <= samples[h].value
  <2>1. PICK b \in 1 .. w : Begin(b) <= i /\ i <= b * s
    BY <1>4
  <2>2. PICK x, y : x = Begin(b) /\ y = EndOf(b)
    OBVIOUS
  <2>3. PICK q \in Nat : q = b * s
    BY <1>4
  <2>4. x \in 1 .. n /\ y \in x .. n /\ y = (IF q > n THEN n ELSE q) /\ x <= i /\ i <= q
    BY <1>5, <2>1, <2>2, <2>3
  <2>5. i \in x .. y
    BY <1>2, <2>4
  <2>6. samples[f[b]].value <= samples[i].value /\ samples[i].value <= samples[g[b]].value
    BY <1>8, <2>2, <2>5
  <2>7. f[b] \in kept /\ g[b] \in kept
    BY <1>12
  <2>8. QED
    BY <2>6, <2>7
<1>16. Cardinality(kept) <= 2 * columns
  <2>1. PICK c \in Nat : c = Cardinality(kept) /\ c <= w + w
    BY <1>13
  <2>2. c <= 2 * columns
    BY <1>4, <2>1
  <2>3. QED
    BY <2>1, <2>2
<1>17. QED
  BY <1>1, <1>9, <1>13, <1>14, <1>15, <1>16

\* The points of a chart: some of the samples in their order, at most two for each
\* column, and every sample between two of them.
Thins(points, samples) ==
  /\ \E place \in [1 .. Len(points) -> 1 .. Len(samples)] :
       /\ \A k \in 1 .. Len(points) : points[k] = samples[place[k]]
       /\ \A k, l \in 1 .. Len(points) : k < l => place[k] < place[l]
  /\ \A i \in 1 .. Len(samples) : \E k, l \in 1 .. Len(points) :
       points[k].value <= samples[i].value /\ samples[i].value <= points[l].value

LEMMA DownsampleThins ==
    ASSUME NEW samples \in Seq(Samples), NEW columns \in Nat \ {0}
    PROVE  /\ DownsampleMinMax(samples, columns) \in Seq(Samples)
           /\ Len(DownsampleMinMax(samples, columns)) <= 2 * columns
           /\ Thins(DownsampleMinMax(samples, columns), samples)
<1>1. PICK points : points = DownsampleMinMax(samples, columns)
  OBVIOUS
<1>2. PICK n \in Nat : n = Len(samples)
  OBVIOUS
<1>3. \A i \in 1 .. n : samples[i] \in Samples
  BY <1>2
<1>4. CASE n <= 2 * columns
  <2>1. points = samples
    BY <1>1, <1>2, <1>4, Zenon DEF DownsampleMinMax
  <2>2. PICK place : place = [k \in 1 .. n |-> k]
    OBVIOUS
  <2>3. place \in [1 .. n -> 1 .. n] /\ \A k \in 1 .. n : place[k] = k
    BY <2>2
  <2>4. \A i \in 1 .. n : samples[i].value <= samples[i].value
    BY <1>3 DEF Samples
  <2>5. Thins(points, samples)
    BY <1>2, <2>1, <2>3, <2>4 DEF Thins
  <2>6. QED
    BY <1>1, <1>2, <1>4, <2>1, <2>5
<1>5. CASE ~(n <= 2 * columns)
  <2>1. n > 0
    BY <1>5
  <2>2. PICK kept : kept = KeptPositions(samples, columns)
    OBVIOUS
  <2>3. /\ kept \in SUBSET (1 .. n) /\ IsFiniteSet(kept) /\ Cardinality(kept) <= 2 * columns
        /\ \A i \in 1 .. n : \E l, h \in kept :
             samples[l].value <= samples[i].value /\ samples[i].value <= samples[h].value
    BY <1>2, <2>1, <2>2, KeptPositionsAre, Zenon
  <2>4. kept \in SUBSET Nat
    BY <2>3
  <2>5. PICK c, order : c = Cardinality(kept) /\ order = InOrder(kept)
    OBVIOUS
  <2>6. /\ c \in Nat /\ DOMAIN order = 1 .. c
        /\ \A k \in 1 .. c : order[k] \in kept
        /\ \A i \in kept : \E k \in 1 .. c : order[k] = i
        /\ \A k, l \in 1 .. c : k < l => order[k] < order[l]
    BY <2>3, <2>4, <2>5, InOrderIs, Zenon
  <2>7. points = [k \in 1 .. c |-> samples[order[k]]]
    BY <1>1, <1>2, <1>5, <2>2, <2>5, <2>6, Zenon DEF DownsampleMinMax
  <2>8. \A k \in 1 .. c : order[k] \in 1 .. n
    BY <2>3, <2>6
  <2>9. points \in [1 .. c -> Samples]
    BY <1>3, <2>7, <2>8
  <2>10. points \in Seq(Samples) /\ Len(points) = c
    BY <2>6, <2>9
  <2>11. PICK place : place = [k \in 1 .. c |-> order[k]]
    OBVIOUS
  <2>12. place \in [1 .. c -> 1 .. n] /\ \A k \in 1 .. c : points[k] = samples[place[k]]
    BY <2>7, <2>8, <2>11
  <2>13. \A k, l \in 1 .. c : k < l => place[k] < place[l]
    BY <2>6, <2>11
  <2>14. ASSUME NEW i \in 1 .. n
         PROVE  \E k, l \in 1 .. c : points[k].value <= samples[i].value /\ samples[i].value <= points[l].value
    <3>1. PICK l, h \in kept : samples[l].value <= samples[i].value /\ samples[i].value <= samples[h].value
      BY <2>3
    <3>2. PICK x \in 1 .. c : order[x] = l
      BY <2>6
    <3>3. PICK y \in 1 .. c : order[y] = h
      BY <2>6
    <3>4. points[x] = samples[l] /\ points[y] = samples[h]
      BY <2>7, <3>2, <3>3
    <3>5. QED
      BY <3>1, <3>4
  <2>15. Thins(points, samples)
    BY <1>2, <2>10, <2>12, <2>13, <2>14, Zenon DEF Thins
  <2>16. QED
    BY <1>1, <2>3, <2>5, <2>10, <2>15
<1>6. QED
  BY <1>4, <1>5

\* The values of a sequence of samples, of which Max and Min are the bounds.
ValuesOf(s) == {s[i].value : i \in DOMAIN s}

LEMMA BoundsAre ==
    ASSUME NEW s \in Seq(Samples), s # << >>
    PROVE  /\ \E i \in 1 .. Len(s) : Max(ValuesOf(s)) = s[i].value
           /\ \E i \in 1 .. Len(s) : Min(ValuesOf(s)) = s[i].value
           /\ \A i \in 1 .. Len(s) : s[i].value \in Int /\ Max(ValuesOf(s)) >= s[i].value
                                                      /\ Min(ValuesOf(s)) <= s[i].value
<1>1. PICK n \in Nat : n = Len(s) /\ n # 0 /\ DOMAIN s = 1 .. n
  OBVIOUS
<1>2. PICK f : f = [i \in 1 .. n |-> s[i].value]
  OBVIOUS
<1>3. \A i \in 1 .. n : s[i] \in Samples
  BY <1>1
<1>4. \A i \in 1 .. n : f[i] \in Int /\ f[i] = s[i].value
  BY <1>2, <1>3 DEF Samples
<1>5. PICK V : V = ValuesOf(s)
  OBVIOUS
<1>6. /\ \A i \in 1 .. n : f[i] \in V
      /\ \A x \in V : \E i \in 1 .. n : x = f[i]
  BY <1>1, <1>4, <1>5 DEF ValuesOf
<1>7. 1 \in Nat /\ 1 <= n
  BY <1>1
<1>8. \E x \in V : \A y \in V : x >= y
  <2>1. PICK m \in 1 .. n : \A j \in 1 .. n : f[m] >= f[j]
    BY <1>1, <1>4, <1>7, FirstLargest
  <2>2. QED
    BY <1>6, <2>1
<1>9. \E x \in V : \A y \in V : x <= y
  <2>1. PICK m \in 1 .. n : \A j \in 1 .. n : f[m] <= f[j]
    <3>1. n \in Nat /\ \A i \in 1 .. n : f[i] \in Int
      BY <1>4
    <3>2. QED
      BY <1>7, <3>1, FirstLowest, Zenon
  <2>2. QED
    BY <1>6, <2>1
<1>10. Max(V) \in V /\ \A y \in V : Max(V) >= y
  BY <1>8, Zenon DEF Max
<1>11. Min(V) \in V /\ \A y \in V : Min(V) <= y
  BY <1>9, Zenon DEF Min
<1>12. QED
  BY <1>1, <1>4, <1>5, <1>6, <1>10, <1>11

LEMMA ThinningKeeps ==
    ASSUME NEW samples \in Seq(Samples), NEW points \in Seq(Samples), Thins(points, samples)
    PROVE  /\ ToSet(points) \subseteq ToSet(samples)
           /\ samples # << >> => /\ Max(ValuesOf(samples)) = Max(ValuesOf(points))
                                 /\ Min(ValuesOf(samples)) = Min(ValuesOf(points))
           /\ (\A i, j \in DOMAIN samples : i < j => samples[i].at < samples[j].at)
                => \A i, j \in DOMAIN points : i < j => points[i].at < points[j].at
<1>1. PICK n \in Nat : n = Len(samples) /\ DOMAIN samples = 1 .. n
  OBVIOUS
<1>2. PICK m \in Nat : m = Len(points) /\ DOMAIN points = 1 .. m
  OBVIOUS
<1>3. PICK place \in [1 .. m -> 1 .. n] :
         /\ \A k \in 1 .. m : points[k] = samples[place[k]]
         /\ \A k, l \in 1 .. m : k < l => place[k] < place[l]
  BY <1>1, <1>2, Zenon DEF Thins
<1>4. \A i \in 1 .. n : \E k, l \in 1 .. m :
         points[k].value <= samples[i].value /\ samples[i].value <= points[l].value
  BY <1>1, <1>2, Zenon DEF Thins
<1>5. \A k \in 1 .. m : place[k] \in 1 .. n
  BY <1>3
<1>6. ToSet(points) \subseteq ToSet(samples)
  BY <1>1, <1>2, <1>3, <1>5 DEF ToSet
<1>7. ASSUME samples # << >>
      PROVE  /\ Max(ValuesOf(samples)) = Max(ValuesOf(points))
             /\ Min(ValuesOf(samples)) = Min(ValuesOf(points))
  <2>1. n # 0
    BY <1>1, <1>7
  <2>2. points # << >>
    BY <1>2, <1>4, <2>1
  <2>3. PICK a, b, c, d : /\ a = Max(ValuesOf(samples)) /\ b = Max(ValuesOf(points))
                          /\ c = Min(ValuesOf(samples)) /\ d = Min(ValuesOf(points))
    OBVIOUS
  <2>4. /\ \E i \in 1 .. n : a = samples[i].value
        /\ \E i \in 1 .. n : c = samples[i].value
        /\ \A i \in 1 .. n : samples[i].value \in Int /\ a >= samples[i].value /\ c <= samples[i].value
    BY <1>1, <1>7, <2>3, BoundsAre, Zenon
  <2>5. /\ \E i \in 1 .. m : b = points[i].value
        /\ \E i \in 1 .. m : d = points[i].value
        /\ \A i \in 1 .. m : points[i].value \in Int /\ b >= points[i].value /\ d <= points[i].value
    BY <1>2, <2>2, <2>3, BoundsAre, Zenon
  <2>6. a \in Int /\ b \in Int /\ c \in Int /\ d \in Int
    BY <2>4, <2>5
  <2>7. a >= b /\ c <= d
    BY <1>3, <1>5, <2>4, <2>5
  <2>8. b >= a
    <3>1. PICK i \in 1 .. n : a = samples[i].value
      BY <2>4
    <3>2. PICK l \in 1 .. m : samples[i].value <= points[l].value
      BY <1>4
    <3>3. samples[i].value \in Int /\ points[l].value \in Int
      BY <2>4, <2>5
    <3>4. b >= points[l].value
      BY <2>5
    <3>5. QED
      BY <2>6, <3>1, <3>2, <3>3, <3>4, SMTT(30)
  <2>9. d <= c
    <3>1. PICK i \in 1 .. n : c = samples[i].value
      BY <2>4
    <3>2. PICK l \in 1 .. m : points[l].value <= samples[i].value
      BY <1>4
    <3>3. samples[i].value \in Int /\ points[l].value \in Int
      BY <2>4, <2>5
    <3>4. d <= points[l].value
      BY <2>5
    <3>5. QED
      BY <2>6, <3>1, <3>2, <3>3, <3>4, SMTT(30)
  <2>10. QED
    BY <2>3, <2>6, <2>7, <2>8, <2>9
<1>8. ASSUME \A i, j \in 1 .. n : i < j => samples[i].at < samples[j].at,
             NEW i \in 1 .. m, NEW j \in 1 .. m, i < j
      PROVE  points[i].at < points[j].at
  BY <1>3, <1>5, <1>8
<1>9. QED
  BY <1>1, <1>2, <1>6, <1>7, <1>8

-----------------------------------------------------------------------------
(* What the state of the pages is made of.                                 *)

States ==
  [selected : SUBSET MetricIDs,
   current : UNION {[ids -> Samples] : ids \in SUBSET MetricIDs},
   history : UNION {[ids -> Seq(Samples)] : ids \in SUBSET MetricIDs}]

Views == States \cup Seq(Nat) \cup Nat

Frames == UNION {[ids -> Samples] : ids \in SUBSET MetricIDs}

MonitorModels ==
  [active : BOOLEAN, metrics : SUBSET MetricIDs, handle : Workers \cup {"none"},
   current : [MetricIDs -> Samples], rings : [MetricIDs -> Rings]]

WindowSubscriptions ==
  [status : {"free", "starting", "running", "done"},
   owner : Monitors \cup {"logs", "none"}, metrics : SUBSET MetricIDs,
   open : BOOLEAN, box : Seq(Frames \cup Nat)]

LatestDispatchers ==
  [latest : Views, pending : BOOLEAN, active : BOOLEAN, epoch : Nat]

Args == Views \cup {"none", TRUE, FALSE} \cup Workers \cup SUBSET MetricIDs

Ops ==
  {"submit", "dispatch", "render", "cancel", "resume", "up", "down", "close",
   "await", "choose", "interval", "publish", "refresh", "look", "go", "logs_up",
   "logs_down", "tune_active", "listen", "live", "page", "flag", "enter", "quit",
   "stop", "deselect"}
OnMonitors == {"up", "down", "await", "choose", "interval", "publish", "refresh"}
Switches == {"tune_active", "listen", "live", "page", "flag"}

Calls ==
  {c \in [op : Ops, on : Dispatchers \cup Pages \cup {"none"}, arg : Args] :
     /\ c.op \in {"submit", "render"} => c.on \in Dispatchers /\ c.arg \in Views
     /\ c.op = "dispatch" => c.on \in Dispatchers /\ c.arg \in Nat
     /\ c.op \in {"cancel", "resume"} => c.on \in Dispatchers
     /\ c.op \in OnMonitors => c.on \in Monitors
     /\ c.op = "close" => c.on \in Monitors \cup {"logs"}
     /\ c.op \in {"close", "await", "go"} => c.arg \in Workers
     /\ c.op = "choose" => c.arg \in SUBSET MetricIDs
     /\ c.op \in Switches => c.arg \in BOOLEAN
     /\ c.op = "enter" => c.on \in Pages
     /\ c.op = "look" => c.on = "logs"}

ScreenTypes ==
  /\ queue \in Seq([on : Dispatchers, epoch : Nat])
  /\ updates \in [Dispatchers -> LatestDispatchers]
  /\ shown \in [Dispatchers -> Views]
  /\ late \in [Dispatchers -> BOOLEAN]
  /\ renewed \in [Dispatchers -> BOOLEAN]

TuneModels == [version : Nat, active : BOOLEAN, listener : BOOLEAN, live : BOOLEAN]
Inputs ==
  [pages : SUBSET Pages, metrics : SUBSET MetricIDs, values : SUBSET Int,
   samples : Nat, commands : Nat, changes : Nat, events : Nat,
   catalogs : Nat, closes : Nat]

FeedTypes ==
  /\ vm \in [Monitors -> MonitorModels]
  /\ \A v \in Monitors : vm[v].active => vm[v].handle \in Workers
  /\ subs \in [Workers -> WindowSubscriptions]
  /\ \A w \in Workers : subs[w].owner \in Monitors /\ subs[w].box # << >> =>
       subs[w].box[1] \in Frames
  /\ received \in [Monitors -> [MetricIDs -> Seq(Samples)]]

LogTypes ==
  /\ store \in Seq(Nat)
  /\ logs \in [active : BOOLEAN, handle : Workers \cup {"none"}]
  /\ logs.active => logs.handle \in Workers
  /\ tune \in TuneModels

FrameTypes ==
  /\ nav \in [selected : Pages \cup {"none"}, monitorActive : BOOLEAN]
  /\ app \in [closing : BOOLEAN, stopped : BOOLEAN]
  /\ left \in Inputs
  /\ clock \in Nat

PagesTypes ==
  /\ todo \in [Threads -> Seq(Calls)]
  /\ ScreenTypes /\ FeedTypes /\ LogTypes /\ FrameTypes

-----------------------------------------------------------------------------
(* The order of a thread's calls.                                          *)

\* Calls that hand over, render or close something, or wait for what was closed:
\* a thread makes them as soon as they are in its list.
Urgent == {"submit", "dispatch", "render", "close", "await"}

\* A wait directly follows its close, and a choice of metrics its refresh.
Shaped(calls) ==
  /\ \A k \in DOMAIN calls : k > 1 /\ calls[k].op \in Urgent =>
       k = 2 /\ calls[1] = Call("close", calls[2].on, calls[2].arg)
             /\ calls[2].op = "await"
  /\ calls # << >> /\ calls[1].op = "close" /\ calls[1].on \in Monitors =>
       Len(calls) >= 2 /\ calls[2] = Call("await", calls[1].on, calls[1].arg)
  /\ \A k \in DOMAIN calls : calls[k].op = "choose" =>
       k + 1 \in DOMAIN calls /\ calls[k + 1] = Call("refresh", calls[k].on, "none")

Shape == \A t \in Threads : Shaped(todo[t])

\* Goroutines of services and subscriptions only hand over views, and the closing
\* goroutine has nothing to do before the window closes.
Roles ==
  /\ \A t \in Threads \ {"ui", "closer"} : \A k \in DOMAIN todo[t] :
       todo[t][k].op \in {"submit", "dispatch", "look"}
  /\ ~app.closing => todo["closer"] = << >>

\* The urgent call a list begins with, and those of the threads.
NoCall == Call("none", "none", "none")
LeadOf(calls) ==
  IF calls # << >> /\ calls[1].op \in Urgent THEN calls[1] ELSE NoCall
Leads == [t \in Threads |-> LeadOf(todo[t])]

Refreshing(d) ==
  \E t \in Threads : \E k \in DOMAIN todo[t] : todo[t][k] = Call("refresh", d, "none")
Looking == \E t \in Threads : \E k \in DOMAIN todo[t] : todo[t][k].op = "look"

-----------------------------------------------------------------------------
(* Subscriptions.                                                          *)

\* v has the subscription w; t closes it or waits for it.
Has(v, w) == vm[v].active /\ vm[v].handle = w
Waits(lead, v, w) == lead \in {Call("close", v, w), Call("await", v, w)}
Waiting(t, v, w) == Waits(Leads[t], v, w)

\* Every subscription of a view model is the one it has, or one that somebody who
\* has left the page waits for.
Claims ==
  /\ \A w \in Workers : subs[w].status = "free" => subs[w].owner = "none"
  /\ \A v \in Monitors, w \in Workers : Has(v, w) => subs[w].owner = v
  /\ \A t \in Threads, v \in Monitors, w \in Workers :
       Waiting(t, v, w) => subs[w].owner = v /\ ~Has(v, w)
  /\ \A t, u \in Threads, v \in Monitors, w \in Workers :
       Waiting(t, v, w) /\ Waiting(u, v, w) => t = u
  /\ \A w \in Workers : subs[w].owner \in Monitors =>
       Has(subs[w].owner, w) \/ \E t \in Threads : Waiting(t, subs[w].owner, w)
  /\ ~app.closing => \A v \in Monitors, w \in Workers :
       Waiting("ui", v, w) => ~vm[v].active

\* The subscription of an active Logs page is open; so is one about to be closed,
\* and each is closed once.
Opened(w) ==
  /\ subs[w].owner = "logs" /\ subs[w].open
  /\ subs[w].status \in {"starting", "running"}
Closes(lead, w) == lead = Call("close", "logs", w)
Closing(t, w) == Closes(Leads[t], w)

LogsKept ==
  /\ logs.active => Opened(logs.handle)
  /\ \A t \in Threads, w \in Workers : Closing(t, w) =>
       Opened(w) /\ ~(logs.active /\ logs.handle = w)
  /\ \A t, u \in Threads, w \in Workers : Closing(t, w) /\ Closing(u, w) => t = u

-----------------------------------------------------------------------------
(* Dispatchers.                                                            *)

\* A dispatcher has a value pending exactly while one callback of its epoch is on
\* its way to the UI.
InQueue(d, k) == queue[k] = [on |-> d, epoch |-> updates[d].epoch]
InHand(d, t) == Leads[t] = Call("dispatch", d, updates[d].epoch)

CallbackOf(d) ==
  /\ updates[d].pending => updates[d].active /\ renewed[d]
  /\ updates[d].pending =>
       (\E k \in 1 .. Len(queue) : InQueue(d, k)) \/ \E t \in Threads : InHand(d, t)
  /\ \A k \in 1 .. Len(queue) : InQueue(d, k) => updates[d].pending
  /\ \A t \in Threads : InHand(d, t) => updates[d].pending
  /\ \A j, k \in 1 .. Len(queue) : InQueue(d, j) /\ InQueue(d, k) => j = k
  /\ \A t, u \in Threads : InHand(d, t) /\ InHand(d, u) => t = u
  /\ \A k \in 1 .. Len(queue), t \in Threads : ~(InQueue(d, k) /\ InHand(d, t))
  /\ \A k \in 1 .. Len(queue) : queue[k].on = d => queue[k].epoch <= updates[d].epoch
  /\ \A t \in Threads : Leads[t].op = "dispatch" /\ Leads[t].on = d =>
       Leads[t].arg <= updates[d].epoch

OneCallback == \A d \in Dispatchers : CallbackOf(d)

\* What the page of d should show.
NewestView(d) ==
  IF d \in Monitors THEN StateOf(vm[d]) ELSE IF d = "logs" THEN store ELSE tune.version

\* The page of d will be given its newest view later.
Renewing(d) ==
  IF d = "logs"
  THEN ~logs.active \/ subs[logs.handle].box # << >> \/ Looking
  ELSE Refreshing(d)

\* The newest view is the next that d is given, its pending one, the one that is
\* rendered next, or shown.
Submits(t, d) == Leads[t].op = "submit" /\ Leads[t].on = d
Rendering(d) == Leads["ui"].op = "render" /\ Leads["ui"].on = d

Arrives(d) ==
  /\ \A t \in Threads : Submits(t, d) => Leads[t].arg = NewestView(d)
  /\ \/ \E t \in Threads : Submits(t, d)
     \/ updates[d].pending /\ updates[d].latest = NewestView(d)
     \/ ~updates[d].pending /\ Rendering(d) /\ Leads["ui"].arg = NewestView(d)
     \/ ~updates[d].pending /\ ~Rendering(d) /\ shown[d] = NewestView(d)

NewestArrives == \A d \in Dispatchers : late[d] \/ Renewing(d) \/ Arrives(d)

-----------------------------------------------------------------------------
(* Histories.                                                              *)

RingsHold ==
  \A v \in Monitors, id \in MetricIDs : Snapshot(vm[v].rings[id]) = received[v][id]

\* The times of what a view model has received, and of what comes next.
Carries(w) == subs[w].owner \in Monitors /\ subs[w].box # << >>

Times ==
  /\ \A v \in Monitors, id \in MetricIDs : \A i \in DOMAIN received[v][id] :
       received[v][id][i].at <= clock
  /\ \A w \in Workers : Carries(w) =>
       \A id \in DOMAIN subs[w].box[1] : subs[w].box[1][id].at <= clock
  /\ ~app.closing =>
       /\ \A v \in Monitors, id \in MetricIDs : \A i, j \in DOMAIN received[v][id] :
            i < j => received[v][id][i].at < received[v][id][j].at
       /\ \A w \in Workers : Carries(w) =>
            \A id \in DOMAIN subs[w].box[1], j \in MetricIDs :
              \A i \in DOMAIN received[subs[w].owner][j] :
                received[subs[w].owner][j][i].at < subs[w].box[1][id].at

-----------------------------------------------------------------------------
(* Calls and lists of calls.                                               *)

LEMMA CallIs ==
    ASSUME NEW op, NEW on, NEW arg
    PROVE  /\ Call(op, on, arg).op = op /\ Call(op, on, arg).on = on
           /\ Call(op, on, arg).arg = arg
BY DEF Call

LEMMA CallsAre ==
    ASSUME NEW c \in Calls
    PROVE  /\ c = Call(c.op, c.on, c.arg)
           /\ c.op \in {"submit", "render"} => c.on \in Dispatchers /\ c.arg \in Views
           /\ c.op = "dispatch" => c.on \in Dispatchers /\ c.arg \in Nat
           /\ c.op \in {"cancel", "resume"} => c.on \in Dispatchers
           /\ c.op \in OnMonitors => c.on \in Monitors
           /\ c.op = "close" => c.on \in Monitors \cup {"logs"}
           /\ c.op \in {"close", "await", "go"} => c.arg \in Workers
           /\ c.op = "choose" => c.arg \in SUBSET MetricIDs
           /\ c.op \in Switches => c.arg \in BOOLEAN
           /\ c.op = "enter" => c.on \in Pages
           /\ c.op = "look" => c.on = "logs"
<1>1. c \in [op : Ops, on : Dispatchers \cup Pages \cup {"none"}, arg : Args]
  BY DEF Calls
<1>2. c = [op |-> c.op, on |-> c.on, arg |-> c.arg]
  BY <1>1
<1>3. QED
  BY <1>2 DEF Calls, Call

LEMMA NewCalls ==
  /\ \A d \in Dispatchers, x \in Views :
       Call("submit", d, x) \in Calls /\ Call("render", d, x) \in Calls
  /\ \A d \in Dispatchers, n \in Nat : Call("dispatch", d, n) \in Calls
  /\ \A d \in Dispatchers : Call("cancel", d, "none") \in Calls /\ Call("resume", d, "none") \in Calls
  /\ \A v \in Monitors : /\ Call("up", v, "none") \in Calls
                         /\ Call("down", v, "none") \in Calls
                         /\ Call("interval", v, "none") \in Calls
                         /\ Call("publish", v, "none") \in Calls
                         /\ Call("refresh", v, "none") \in Calls
  /\ \A v \in Monitors, w \in Workers : Call("await", v, w) \in Calls
  /\ \A v \in Monitors \cup {"logs"}, w \in Workers : Call("close", v, w) \in Calls
  /\ \A v \in Monitors, ids \in SUBSET MetricIDs : Call("choose", v, ids) \in Calls
  /\ \A w \in Workers : Call("go", "logs", w) \in Calls
  /\ \A b \in BOOLEAN : /\ Call("tune_active", "tune", b) \in Calls
                        /\ Call("listen", "tune", b) \in Calls
                        /\ Call("live", "live", b) \in Calls
                        /\ Call("page", "monitor", b) \in Calls
                        /\ Call("flag", "monitor", b) \in Calls
  /\ \A page \in Pages : Call("enter", page, "none") \in Calls
  /\ Call("look", "logs", "none") \in Calls
  /\ Call("logs_up", "logs", "none") \in Calls
  /\ Call("logs_down", "logs", "none") \in Calls
  /\ Call("quit", "none", "none") \in Calls
  /\ Call("stop", "none", "none") \in Calls
  /\ Call("deselect", "none", "none") \in Calls
<1>1. /\ \A x \in Views : x \in Args
      /\ \A n \in Nat : n \in Args
      /\ "none" \in Args
      /\ \A w \in Workers : w \in Args
      /\ \A ids \in SUBSET MetricIDs : ids \in Args
  <2>1. /\ \A x \in Views : x \in Args
        /\ \A w \in Workers : w \in Args
        /\ \A ids \in SUBSET MetricIDs : ids \in Args
        /\ "none" \in Args
    BY Zenon DEF Args
  <2>2. \A n \in Nat : n \in Views
    BY Zenon DEF Views
  <2>3. QED
    BY <2>1, <2>2, Zenon
<1>2. \A b \in BOOLEAN : b \in Args
  <2>1. TRUE \in Args /\ FALSE \in Args
    BY Zenon DEF Args
  <2>2. TAKE b \in BOOLEAN
  <2>3. CASE b = TRUE
    BY <2>1, <2>3, Zenon
  <2>4. CASE b = FALSE
    BY <2>1, <2>4, Zenon
  <2>5. QED
    BY <2>3, <2>4
<1>3. \A d \in Dispatchers, x \in Views :
        Call("submit", d, x) \in Calls /\ Call("render", d, x) \in Calls
  BY <1>1, <1>2 DEF Call, Calls, Ops, OnMonitors, Switches, Dispatchers, Monitors, Pages
<1>4. \A d \in Dispatchers, n \in Nat : Call("dispatch", d, n) \in Calls
  BY <1>1, <1>2 DEF Call, Calls, Ops, OnMonitors, Switches, Dispatchers, Monitors, Pages
<1>5. \A d \in Dispatchers : Call("cancel", d, "none") \in Calls /\ Call("resume", d, "none") \in Calls
  BY <1>1, <1>2 DEF Call, Calls, Ops, OnMonitors, Switches, Dispatchers, Monitors, Pages
<1>6. \A v \in Monitors : /\ Call("up", v, "none") \in Calls
                          /\ Call("down", v, "none") \in Calls
                          /\ Call("interval", v, "none") \in Calls
                          /\ Call("publish", v, "none") \in Calls
                          /\ Call("refresh", v, "none") \in Calls
  BY <1>1, <1>2 DEF Call, Calls, Ops, OnMonitors, Switches, Dispatchers, Monitors, Pages
<1>7. \A v \in Monitors, w \in Workers : Call("await", v, w) \in Calls
  BY <1>1, <1>2 DEF Call, Calls, Ops, OnMonitors, Switches, Dispatchers, Monitors, Pages
<1>8. \A v \in Monitors \cup {"logs"}, w \in Workers : Call("close", v, w) \in Calls
  BY <1>1, <1>2 DEF Call, Calls, Ops, OnMonitors, Switches, Dispatchers, Monitors, Pages
<1>9. \A v \in Monitors, ids \in SUBSET MetricIDs : Call("choose", v, ids) \in Calls
  BY <1>1, <1>2 DEF Call, Calls, Ops, OnMonitors, Switches, Dispatchers, Monitors, Pages
<1>10. \A w \in Workers : Call("go", "logs", w) \in Calls
  BY <1>1, <1>2 DEF Call, Calls, Ops, OnMonitors, Switches, Dispatchers, Monitors, Pages
<1>11. \A b \in BOOLEAN : /\ Call("tune_active", "tune", b) \in Calls
                          /\ Call("listen", "tune", b) \in Calls
                          /\ Call("live", "live", b) \in Calls
                          /\ Call("page", "monitor", b) \in Calls
                          /\ Call("flag", "monitor", b) \in Calls
  BY <1>1, <1>2 DEF Call, Calls, Ops, OnMonitors, Switches, Dispatchers, Monitors, Pages
<1>12. \A page \in Pages : Call("enter", page, "none") \in Calls
  BY <1>1, <1>2 DEF Call, Calls, Ops, OnMonitors, Switches, Dispatchers, Monitors, Pages
<1>13. /\ Call("look", "logs", "none") \in Calls
       /\ Call("logs_up", "logs", "none") \in Calls
       /\ Call("logs_down", "logs", "none") \in Calls
       /\ Call("quit", "none", "none") \in Calls
       /\ Call("stop", "none", "none") \in Calls
       /\ Call("deselect", "none", "none") \in Calls
  BY <1>1, <1>2 DEF Call, Calls, Ops, OnMonitors, Switches, Dispatchers, Monitors, Pages
<1>14. QED
  BY <1>3, <1>4, <1>5, <1>6, <1>7, <1>8, <1>9, <1>10, <1>11, <1>12, <1>13

LEMMA AwaitIsUrgent ==
    ASSUME NEW on, NEW arg
    PROVE  Call("await", on, arg).op \in Urgent
BY CallIs DEF Urgent

\* What a list is after its first call was replaced by others.
Replaced(all, old, new) ==
  /\ all \in Seq(Calls)
  /\ \A k \in DOMAIN all : \/ \E j \in DOMAIN new : all[k] = new[j]
                           \/ \E j \in DOMAIN old : all[k] = old[j]
  /\ \A j \in DOMAIN new : \E k \in DOMAIN all : all[k] = new[j]
  /\ \A j \in DOMAIN old : j > 1 => \E k \in DOMAIN all : all[k] = old[j]
  /\ Shaped(all)
  /\ new # << >> => LeadOf(all) = LeadOf(new)
  /\ new = << >> /\ ~(old[1].op = "close" /\ old[1].on \in Monitors)
       => LeadOf(all) = NoCall
  /\ new = << >> /\ old[1].op = "close" /\ old[1].on \in Monitors
       => LeadOf(all) = Call("await", old[1].on, old[1].arg)

LEMMA ThenList ==
    ASSUME NEW old \in Seq(Calls), old # << >>, Shaped(old),
           NEW new \in Seq(Calls), Shaped(new),
           new = << >> \/ old[1].op # "close",
           NEW all, all = new \o Tail(old)
    PROVE  Replaced(all, old, new)
<1>1. PICK m \in Nat : m = Len(old) /\ m >= 1 /\ DOMAIN old = 1 .. m
  OBVIOUS
<1>2. PICK n \in Nat : n = Len(new) /\ DOMAIN new = 1 .. n
  OBVIOUS
<1>3. /\ Tail(old) \in Seq(Calls) /\ Len(Tail(old)) = m - 1
      /\ \A k \in 1 .. m - 1 : Tail(old)[k] = old[k + 1]
  BY <1>1
<1>4. /\ all \in Seq(Calls) /\ Len(all) = n + m - 1 /\ DOMAIN all = 1 .. n + m - 1
      /\ \A k \in 1 .. n : all[k] = new[k]
      /\ \A k \in 1 .. m - 1 : all[n + k] = old[k + 1]
  BY <1>1, <1>2, <1>3
<1>6. ASSUME NEW k \in 1 .. n + m - 1, k \notin 1 .. n
      PROVE  (k - n) + 1 \in 2 .. m /\ all[k] = old[(k - n) + 1]
  <2>1. PICK i : i = k - n
    OBVIOUS
  <2>2. i \in 1 .. m - 1 /\ k = n + i /\ i + 1 \in 2 .. m
    BY <1>1, <1>2, <1>6, <2>1
  <2>3. all[k] = old[i + 1]
    BY <1>4, <2>2
  <2>4. QED
    BY <2>1, <2>2, <2>3
<1>7. \A k \in DOMAIN all : \/ \E j \in DOMAIN new : all[k] = new[j]
                            \/ \E j \in DOMAIN old : all[k] = old[j]
  <2>1. TAKE k \in DOMAIN all
  <2>2. CASE k \in 1 .. n
    BY <1>2, <1>4, <2>2
  <2>3. CASE k \notin 1 .. n
    <3>1. k \in 1 .. n + m - 1
      BY <1>4
    <3>2. PICK j : j = (k - n) + 1
      OBVIOUS
    <3>3. j \in 2 .. m /\ all[k] = old[j]
      BY <1>6, <2>3, <3>1, <3>2
    <3>4. j \in DOMAIN old
      BY <1>1, <3>3
    <3>5. QED
      BY <3>3, <3>4
  <2>4. QED
    BY <2>2, <2>3
<1>8. ASSUME NEW j \in DOMAIN new
      PROVE  \E k \in DOMAIN all : all[k] = new[j]
  <2>1. j \in 1 .. n /\ j \in 1 .. n + m - 1
    BY <1>1, <1>2
  <2>2. QED
    BY <1>4, <2>1
<1>9. ASSUME NEW j \in DOMAIN old, j > 1
      PROVE  \E k \in DOMAIN all : all[k] = old[j]
  <2>1. j - 1 \in 1 .. m - 1 /\ (j - 1) + 1 = j /\ n + (j - 1) \in 1 .. n + m - 1
    BY <1>1, <1>2, <1>9
  <2>2. all[n + (j - 1)] = old[j]
    BY <1>4, <2>1
  <2>3. QED
    BY <1>4, <2>1, <2>2
<1>10. ASSUME NEW j \in 2 .. m, old[j].op \in Urgent
       PROVE  /\ j = 2 /\ old[1].op = "close" /\ old[1].on = old[2].on /\ old[1].arg = old[2].arg
              /\ old[2] = Call("await", old[1].on, old[1].arg) /\ old[1].on \in Monitors
              /\ new = << >>
  <2>1. j \in DOMAIN old /\ j > 1
    BY <1>1
  <2>2. j = 2 /\ old[1] = Call("close", old[2].on, old[2].arg) /\ old[2].op = "await"
    BY <1>10, <2>1, Zenon DEF Shaped
  <2>3. old[1].op = "close" /\ old[1].on = old[2].on /\ old[1].arg = old[2].arg
    BY <2>2, CallIs
  <2>4. old[2] \in Calls
    BY <1>1, <2>1, <2>2
  <2>5. old[2].on \in Monitors /\ old[2] = Call(old[2].op, old[2].on, old[2].arg)
    BY <2>2, <2>4, CallsAre DEF OnMonitors
  <2>6. QED
    BY <2>2, <2>3, <2>5
<1>11. ASSUME NEW j \in 2 .. m, old[j].op \in Urgent
       PROVE  n = 0
  BY <1>2, <1>10, <1>11
<1>12. Shaped(all)
  <2>1. ASSUME NEW k \in DOMAIN all, k > 1, all[k].op \in Urgent
        PROVE  k = 2 /\ all[1] = Call("close", all[2].on, all[2].arg) /\ all[2].op = "await"
    <3>1. CASE k \in 1 .. n
      <4>1. k \in DOMAIN new /\ new[k].op \in Urgent
        BY <1>2, <1>4, <2>1, <3>1
      <4>2. k = 2 /\ new[1] = Call("close", new[2].on, new[2].arg) /\ new[2].op = "await"
        BY <2>1, <4>1, Zenon DEF Shaped
      <4>3. 1 \in 1 .. n /\ 2 \in 1 .. n
        BY <1>2, <3>1, <4>2
      <4>4. QED
        BY <1>4, <4>2, <4>3
    <3>2. CASE k \notin 1 .. n
      <4>1. k \in 1 .. n + m - 1
        BY <1>4
      <4>2. (k - n) + 1 \in 2 .. m /\ all[k] = old[(k - n) + 1]
        BY <1>6, <3>2, <4>1
      <4>3. (k - n) + 1 = 2 /\ n = 0
        BY <1>10, <1>11, <2>1, <4>2
      <4>4. k = 1
        BY <1>2, <4>1, <4>3
      <4>5. QED
        BY <2>1, <4>4
    <3>3. QED
      BY <3>1, <3>2
  <2>2. ASSUME all # << >>, all[1].op = "close", all[1].on \in Monitors
        PROVE  Len(all) >= 2 /\ all[2] = Call("await", all[1].on, all[1].arg)
    <3>1. 1 \in 1 .. n + m - 1
      BY <1>1, <1>2, <1>4, <2>2
    <3>2. CASE n = 0
      <4>1. 1 \notin 1 .. n
        BY <3>2
      <4>2. (1 - n) + 1 \in 2 .. m /\ all[1] = old[(1 - n) + 1]
        BY <1>6, <3>1, <4>1
      <4>3. (1 - n) + 1 = 2
        BY <3>2
      <4>4. 2 \in 2 .. m /\ old[2].op = "close"
        BY <2>2, <4>2, <4>3
      <4>5. old[2] = Call("await", old[1].on, old[1].arg)
        BY <1>10, <4>4 DEF Urgent
      <4>6. old[2].op = "await"
        BY <4>5, CallIs
      <4>7. QED
        BY <4>4, <4>6
    <3>3. CASE n # 0
      <4>1. 1 \in 1 .. n /\ new # << >>
        BY <1>2, <3>3
      <4>2. all[1] = new[1]
        BY <1>4, <4>1
      <4>3. Len(new) >= 2 /\ new[2] = Call("await", new[1].on, new[1].arg)
        BY <2>2, <4>1, <4>2, Zenon DEF Shaped
      <4>4. 2 \in 1 .. n
        BY <1>2, <4>3
      <4>5. QED
        BY <1>1, <1>2, <1>4, <4>2, <4>3, <4>4
    <3>4. QED
      BY <3>2, <3>3
  <2>3. ASSUME NEW k \in DOMAIN all, all[k].op = "choose"
        PROVE  k + 1 \in DOMAIN all /\ all[k + 1] = Call("refresh", all[k].on, "none")
    <3>1. CASE k \in 1 .. n
      <4>1. k \in DOMAIN new /\ all[k] = new[k]
        BY <1>2, <1>4, <3>1
      <4>2. k + 1 \in DOMAIN new /\ new[k + 1] = Call("refresh", new[k].on, "none")
        BY <2>3, <4>1, Zenon DEF Shaped
      <4>3. k + 1 \in DOMAIN all /\ all[k + 1] = new[k + 1]
        BY <1>1, <1>2, <1>4, <4>2
      <4>4. QED
        BY <4>1, <4>2, <4>3
    <3>2. CASE k \notin 1 .. n
      <4>1. k \in 1 .. n + m - 1
        BY <1>4
      <4>2. PICK j : j = (k - n) + 1
        OBVIOUS
      <4>3. j \in 2 .. m /\ all[k] = old[j]
        BY <1>6, <3>2, <4>1, <4>2
      <4>4. j \in DOMAIN old
        BY <1>1, <4>3
      <4>5. j + 1 \in DOMAIN old /\ old[j + 1] = Call("refresh", old[j].on, "none")
        BY <2>3, <4>3, <4>4, Zenon DEF Shaped
      <4>6. k + 1 \in 1 .. n + m - 1 /\ k + 1 \notin 1 .. n /\ ((k + 1) - n) + 1 = j + 1
        <5>1. j + 1 \in 1 .. m
          BY <1>1, <4>5
        <5>2. k > n
          BY <1>2, <3>2, <4>1
        <5>3. QED
          BY <1>1, <1>2, <4>1, <4>2, <5>1, <5>2
      <4>7. all[k + 1] = old[j + 1]
        BY <1>6, <4>6
      <4>8. QED
        BY <1>4, <4>3, <4>5, <4>6, <4>7
    <3>3. QED
      BY <3>1, <3>2
  <2>4. QED
    BY <2>1, <2>2, <2>3, Zenon DEF Shaped
<1>13. ASSUME new # << >>
       PROVE  LeadOf(all) = LeadOf(new)
  <2>1. 1 \in 1 .. n
    BY <1>2, <1>13
  <2>2. all[1] = new[1] /\ all # << >>
    BY <1>1, <1>2, <1>4, <2>1
  <2>3. QED
    BY <1>13, <2>2, Zenon DEF LeadOf
<1>14. ASSUME new = << >>, old[1].op = "close", old[1].on \in Monitors
       PROVE  LeadOf(all) = Call("await", old[1].on, old[1].arg)
  <2>1. m >= 2 /\ old[2] = Call("await", old[1].on, old[1].arg)
    BY <1>1, <1>14, Zenon DEF Shaped
  <2>2. n = 0 /\ 1 \in 1 .. n + m - 1 /\ 1 \notin 1 .. n /\ (1 - n) + 1 = 2
    BY <1>2, <1>14, <2>1
  <2>3. all[1] = old[2]
    BY <1>6, <2>2
  <2>4. all # << >>
    BY <1>4, <2>1, <2>2
  <2>5. all[1].op \in Urgent
    <3>1. Call("await", old[1].on, old[1].arg).op \in Urgent
      BY AwaitIsUrgent, Zenon
    <3>2. QED
      BY <2>1, <2>3, <3>1, Zenon
  <2>6. QED
    BY <2>1, <2>3, <2>4, <2>5, Zenon DEF LeadOf
<1>15. ASSUME new = << >>, ~(old[1].op = "close" /\ old[1].on \in Monitors)
       PROVE  LeadOf(all) = NoCall
  <2>1. SUFFICES ASSUME all # << >>, all[1].op \in Urgent PROVE FALSE
    BY Zenon DEF LeadOf
  <2>2. n = 0 /\ 1 \in 1 .. n + m - 1 /\ 1 \notin 1 .. n /\ (1 - n) + 1 = 2
    BY <1>1, <1>2, <1>4, <1>15, <2>1
  <2>3. 2 \in 2 .. m /\ all[1] = old[2]
    BY <1>6, <2>2
  <2>4. QED
    BY <1>10, <1>15, <2>1, <2>3
<1>16. QED
  BY <1>4, <1>7, <1>8, <1>9, <1>12, <1>13, <1>14, <1>15 DEF Replaced

-----------------------------------------------------------------------------
(* What a step does to the calls of its thread.                            *)

\* Afterwards t begins with the urgent call lead, if any.
Turn(t, lead) ==
  /\ todo' \in [Threads -> Seq(Calls)] /\ Shape' /\ Roles'
  /\ Leads' = [Leads EXCEPT ![t] = lead]

\* Nothing that will renew a page is lost.
Kept ==
  /\ \A d \in Dispatchers : Refreshing(d) => Refreshing(d)'
  /\ Looking => Looking'

\* Only the UI and the closing goroutine do more than hand over views.
CanCall(t, calls) ==
  \/ t \in {"ui", "closer"}
  \/ \A k \in DOMAIN calls : calls[k].op \in {"submit", "dispatch", "look"}

Listed ==
  /\ todo \in [Threads -> Seq(Calls)] /\ Shape /\ Roles

LEMMA LeadsAre ==
    ASSUME NEW t \in Threads
    PROVE  Leads[t] = LeadOf(todo[t])
BY DEF Leads

LEMMA TurnFrom ==
    ASSUME Listed, NEW t \in Threads, NEW all \in Seq(Calls), Shaped(all),
           todo' = [todo EXCEPT ![t] = all],
           t \in Threads \ {"ui", "closer"} =>
             \A k \in DOMAIN all : all[k].op \in {"submit", "dispatch", "look"},
           ~app'.closing => ~app.closing /\ (t = "closer" => all = << >>)
    PROVE  Turn(t, LeadOf(all))
<1>1. todo \in [Threads -> Seq(Calls)]
  BY DEF Listed
<1>2. todo' \in [Threads -> Seq(Calls)] /\ todo'[t] = all /\ \A u \in Threads \ {t} : todo'[u] = todo[u]
  BY <1>1
<1>3. Shape'
  BY <1>2, Zenon DEF Listed, Shape
<1>4. Roles'
  <2>1. ASSUME NEW u \in Threads \ {"ui", "closer"}
        PROVE  \A k \in DOMAIN todo'[u] : todo'[u][k].op \in {"submit", "dispatch", "look"}
    <3>1. CASE u = t
      BY <1>2, <2>1, <3>1, Zenon
    <3>2. CASE u # t
      <4>1. todo'[u] = todo[u]
        BY <1>2, <3>2
      <4>2. QED
        BY <4>1, Zenon DEF Listed, Roles
    <3>3. QED
      BY <3>1, <3>2
  <2>2. ASSUME ~app'.closing
        PROVE  todo'["closer"] = << >>
    <3>1. "closer" \in Threads
      BY DEF Threads
    <3>2. todo["closer"] = << >>
      BY <2>2, Zenon DEF Listed, Roles
    <3>3. QED
      BY <1>2, <2>2, <3>1, <3>2, Zenon
  <2>3. QED
    BY <2>1, <2>2, Zenon DEF Roles
<1>5. Leads' = [u \in Threads |-> LeadOf(todo'[u])]
  BY Zenon DEF Leads
<1>6. [Leads EXCEPT ![t] = LeadOf(all)] = [u \in Threads |-> LeadOf(todo'[u])]
  <2>1. PICK a, b, c : a = LeadOf(all) /\ b = [u \in Threads |-> LeadOf(todo[u])] /\ c = [u \in Threads |-> LeadOf(todo'[u])]
    OBVIOUS
  <2>2. c[t] = a /\ \A u \in Threads \ {t} : c[u] = b[u]
    BY <1>2, <2>1, Zenon
  <2>3. [b EXCEPT ![t] = a] = c
    BY <2>1, <2>2
  <2>4. QED
    BY <2>1, <2>3, Zenon DEF Leads
<1>7. QED
  BY <1>2, <1>3, <1>4, <1>5, <1>6, Zenon DEF Turn

LEMMA ThenTurns ==
    ASSUME Listed, NEW t \in Threads, todo[t] # << >>,
           NEW new \in Seq(Calls), Shaped(new), CanCall(t, new),
           new = << >> \/ todo[t][1].op # "close",
           Then(t, new), ~app'.closing => ~app.closing
    PROVE  /\ new # << >> => Turn(t, LeadOf(new))
           /\ new = << >> /\ ~(todo[t][1].op = "close" /\ todo[t][1].on \in Monitors)
                => Turn(t, NoCall)
           /\ new = << >> /\ todo[t][1].op = "close" /\ todo[t][1].on \in Monitors
                => Turn(t, Call("await", todo[t][1].on, todo[t][1].arg))
           /\ todo[t][1].op \notin {"refresh", "look"} => Kept
           /\ todo[t][1].op # "look" => (Looking => Looking')
           /\ \A d : todo[t][1] # Call("refresh", d, "none") => (Refreshing(d) => Refreshing(d)')
           /\ (\E k \in DOMAIN new : new[k].op = "look") => Looking'
           /\ \A d : (\E k \in DOMAIN todo[t] : k > 1 /\ todo[t][k] = Call("refresh", d, "none"))
                => Refreshing(d)'
<1>1. PICK old : old = todo[t]
  OBVIOUS
<1>2. old \in Seq(Calls) /\ Shaped(old) /\ old # << >>
  BY <1>1 DEF Listed, Shape
<1>3. PICK all : all = new \o Tail(old)
  OBVIOUS
<1>4. /\ all \in Seq(Calls)
      /\ \A k \in DOMAIN all : \/ \E j \in DOMAIN new : all[k] = new[j]
                               \/ \E j \in DOMAIN old : all[k] = old[j]
      /\ \A j \in DOMAIN new : \E k \in DOMAIN all : all[k] = new[j]
      /\ \A j \in DOMAIN old : j > 1 => \E k \in DOMAIN all : all[k] = old[j]
      /\ Shaped(all)
      /\ new # << >> => LeadOf(all) = LeadOf(new)
      /\ new = << >> /\ ~(old[1].op = "close" /\ old[1].on \in Monitors)
           => LeadOf(all) = NoCall
      /\ new = << >> /\ old[1].op = "close" /\ old[1].on \in Monitors
           => LeadOf(all) = Call("await", old[1].on, old[1].arg)
  <2>1. new = << >> \/ old[1].op # "close"
    BY <1>1, Zenon
  <2>2. Replaced(all, old, new)
    BY <1>2, <1>3, <2>1, ThenList, Zenon
  <2>3. QED
    BY <2>2, Zenon DEF Replaced
<1>5. todo' = [todo EXCEPT ![t] = all]
  BY <1>1, <1>3, Zenon DEF Then
<1>6. todo \in [Threads -> Seq(Calls)]
  BY DEF Listed
<1>7. todo'[t] = all /\ \A u \in Threads \ {t} : todo'[u] = todo[u]
  BY <1>5, <1>6
<1>8. ASSUME t \in Threads \ {"ui", "closer"}, NEW k \in DOMAIN all
      PROVE  all[k].op \in {"submit", "dispatch", "look"}
  <2>1. \A j \in DOMAIN old : old[j].op \in {"submit", "dispatch", "look"}
    BY <1>1, <1>8, Zenon DEF Listed, Roles
  <2>2. \A j \in DOMAIN new : new[j].op \in {"submit", "dispatch", "look"}
    BY <1>8, Zenon DEF CanCall
  <2>3. QED
    BY <1>4, <2>1, <2>2, Zenon
<1>9. ASSUME ~app'.closing
      PROVE  ~app.closing /\ t # "closer"
  BY <1>9, Zenon DEF Listed, Roles
<1>10. Turn(t, LeadOf(all))
  BY <1>4, <1>5, <1>8, <1>9, TurnFrom, Zenon
<1>11. ASSUME NEW c, \E u \in Threads : \E k \in DOMAIN todo[u] : todo[u][k] = c,
              c # old[1]
       PROVE  \E u \in Threads : \E k \in DOMAIN todo'[u] : todo'[u][k] = c
  <2>0. PICK u \in Threads : \E k \in DOMAIN todo[u] : todo[u][k] = c
    BY <1>11
  <2>1. PICK k \in DOMAIN todo[u] : todo[u][k] = c
    BY <2>0
  <2>2. CASE u # t
    BY <1>7, <2>1, <2>2, Zenon
  <2>3. CASE u = t
    <3>1. k \in DOMAIN old /\ old[k] = c /\ k # 1
      BY <1>1, <1>11, <2>1, <2>3
    <3>2. k > 1
      BY <1>2, <3>1
    <3>3. \E j \in DOMAIN all : all[j] = c
      BY <1>4, <3>1, <3>2, Zenon
    <3>4. QED
      BY <1>7, <3>3, Zenon
  <2>4. QED
    BY <2>2, <2>3
<1>12. ASSUME old[1].op # "look", Looking
       PROVE  Looking'
  <2>0. PICK u \in Threads : \E k \in DOMAIN todo[u] : todo[u][k].op = "look"
    BY <1>12, Zenon DEF Looking
  <2>1. PICK k \in DOMAIN todo[u] : todo[u][k].op = "look"
    BY <2>0
  <2>2. todo[u][k] # old[1]
    BY <1>12, <2>1
  <2>3. \E v \in Threads : \E j \in DOMAIN todo'[v] : todo'[v][j] = todo[u][k]
    BY <1>11, <2>1, <2>2, Zenon
  <2>4. QED
    BY <2>1, <2>3, Zenon DEF Looking
<1>13. ASSUME NEW d, old[1] # Call("refresh", d, "none"), Refreshing(d)
       PROVE  Refreshing(d)'
  BY <1>11, <1>13, Zenon DEF Refreshing
<1>14. ASSUME old[1].op \notin {"refresh", "look"}
       PROVE  Kept
  <2>1. \A d : old[1] # Call("refresh", d, "none")
    BY <1>14, CallIs
  <2>2. old[1].op # "look"
    BY <1>14
  <2>3. QED
    BY <1>12, <1>13, <2>1, <2>2, Zenon DEF Kept
<1>15. ASSUME \E k \in DOMAIN new : new[k].op = "look"
       PROVE  Looking'
  <2>1. \E k \in DOMAIN all : all[k].op = "look"
    BY <1>4, <1>15, SMT
  <2>2. QED
    BY <1>7, <2>1, Zenon DEF Looking
<1>16. ASSUME NEW d, \E k \in DOMAIN old : k > 1 /\ old[k] = Call("refresh", d, "none")
       PROVE  Refreshing(d)'
  <2>1. \E k \in DOMAIN all : all[k] = Call("refresh", d, "none")
    BY <1>4, <1>16, SMT
  <2>2. QED
    BY <1>7, <2>1, Zenon DEF Refreshing
<1>17. QED
  BY <1>1, <1>4, <1>10, <1>12, <1>13, <1>14, <1>15, <1>16, Zenon

LEMMA PushTurns ==
    ASSUME Listed, NEW t \in Threads, Idle(t),
           NEW new \in Seq(Calls), Shaped(new), CanCall(t, new), Push(t, new),
           ~app'.closing => ~app.closing /\ t # "closer"
    PROVE  /\ Turn(t, LeadOf(new)) /\ Leads[t] = NoCall /\ Kept
           /\ (\E k \in DOMAIN new : new[k].op = "look") => Looking'
           /\ \A d : (\E k \in DOMAIN new : new[k] = Call("refresh", d, "none")) => Refreshing(d)'
<1>1. todo \in [Threads -> Seq(Calls)] /\ todo[t] = << >>
  BY DEF Listed, Idle
<1>2. todo' = [todo EXCEPT ![t] = new]
  <2>1. todo' = [todo EXCEPT ![t] = new \o << >>]
    BY <1>1, Zenon DEF Push
  <2>2. new \o << >> = new
    OBVIOUS
  <2>3. QED
    BY <2>1, <2>2
<1>3. todo'[t] = new /\ \A u \in Threads \ {t} : todo'[u] = todo[u]
  BY <1>1, <1>2
<1>4. t \in Threads \ {"ui", "closer"} =>
        \A k \in DOMAIN new : new[k].op \in {"submit", "dispatch", "look"}
  BY Zenon DEF CanCall
<1>5. Turn(t, LeadOf(new))
  BY <1>2, <1>4, TurnFrom, Zenon
<1>6. Leads[t] = NoCall
  BY <1>1, LeadsAre, Zenon DEF LeadOf
<1>7. ASSUME NEW c, \E u \in Threads : \E k \in DOMAIN todo[u] : todo[u][k] = c
      PROVE  \E u \in Threads : \E k \in DOMAIN todo'[u] : todo'[u][k] = c
  <2>0. PICK u \in Threads : \E k \in DOMAIN todo[u] : todo[u][k] = c
    BY <1>7
  <2>1. PICK k \in DOMAIN todo[u] : todo[u][k] = c
    BY <2>0
  <2>2. u # t
    BY <1>1, <2>1
  <2>3. QED
    BY <1>3, <2>1, <2>2, Zenon
<1>8. Kept
  <2>1. ASSUME Looking PROVE Looking'
    <3>0. PICK u \in Threads : \E k \in DOMAIN todo[u] : todo[u][k].op = "look"
      BY <2>1, Zenon DEF Looking
    <3>1. PICK k \in DOMAIN todo[u] : todo[u][k].op = "look"
      BY <3>0
    <3>2. \E v \in Threads : \E j \in DOMAIN todo'[v] : todo'[v][j] = todo[u][k]
      BY <1>7, <3>1, Zenon
    <3>3. QED
      BY <3>1, <3>2, Zenon DEF Looking
  <2>2. QED
    BY <1>7, <2>1, Zenon DEF Kept, Refreshing
<1>9. (\E k \in DOMAIN new : new[k].op = "look") => Looking'
  BY <1>3, Zenon DEF Looking
<1>10. \A d : (\E k \in DOMAIN new : new[k] = Call("refresh", d, "none")) => Refreshing(d)'
  BY <1>3, Zenon DEF Refreshing
<1>11. QED
  BY <1>5, <1>6, <1>8, <1>9, <1>10, Zenon

\* A step of no thread leaves all lists alone.
LEMMA StaysListed ==
    ASSUME Listed, UNCHANGED todo, ~app'.closing => ~app.closing
    PROVE  /\ todo' \in [Threads -> Seq(Calls)] /\ Shape' /\ Roles'
           /\ Leads' = Leads /\ Kept
<1>1. todo' \in [Threads -> Seq(Calls)] /\ Shape'
  BY Zenon DEF Listed, Shape
<1>2. Roles'
  BY Zenon DEF Listed, Roles
<1>3. Leads' = Leads
  BY Zenon DEF Leads
<1>4. Kept
  BY Zenon DEF Kept, Refreshing, Looking
<1>5. QED
  BY <1>1, <1>2, <1>3, <1>4

-----------------------------------------------------------------------------
(* The call each action makes and those it leaves.                         *)

LEMMA AtHead ==
    ASSUME Listed, NEW t \in Threads, NEW op, At(t, op)
    PROVE  /\ todo[t] # << >> /\ todo[t] \in Seq(Calls) /\ Shaped(todo[t])
           /\ Now(t) = todo[t][1] /\ Now(t) \in Calls /\ Now(t).op = op
           /\ op \in Urgent => Leads[t] = Now(t)
           /\ op \notin Urgent => Leads[t] = NoCall
           /\ t \in {"ui", "closer"} \/ op \in {"submit", "dispatch", "look"}
           /\ ~app.closing => t # "closer"
<1>1. PICK calls : calls = todo[t]
  OBVIOUS
<1>2. calls \in Seq(Calls) /\ calls # << >> /\ Head(calls).op = op /\ Shaped(calls)
  BY <1>1, Zenon DEF Listed, Shape, At
<1>3. Head(calls) = calls[1] /\ calls[1] \in Calls /\ 1 \in DOMAIN calls
  BY <1>2
<1>4. Now(t) = calls[1]
  BY <1>1, <1>3, Zenon DEF Now
<1>5. /\ op \in Urgent => Leads[t] = calls[1]
      /\ op \notin Urgent => Leads[t] = NoCall
  BY <1>1, <1>2, <1>3, LeadsAre, Zenon DEF LeadOf
<1>6. t \in {"ui", "closer"} \/ op \in {"submit", "dispatch", "look"}
  <2>1. t \in Threads \ {"ui", "closer"} => calls[1].op \in {"submit", "dispatch", "look"}
    BY <1>1, <1>3, Zenon DEF Listed, Roles
  <2>2. QED
    BY <1>2, <1>3, <2>1, Zenon
<1>7. ~app.closing => t # "closer"
  BY <1>1, <1>2, Zenon DEF Listed, Roles
<1>8. QED
  BY <1>1, <1>2, <1>3, <1>4, <1>5, <1>6, <1>7, Zenon

\* Lists of calls that are not urgent.
Ordinary(calls) ==
  /\ calls \in Seq(Calls)
  /\ \A k \in DOMAIN calls : calls[k].op \notin Urgent \cup {"choose"}

LEMMA OrdinaryShaped ==
    ASSUME NEW calls, Ordinary(calls)
    PROVE  calls \in Seq(Calls) /\ Shaped(calls) /\ LeadOf(calls) = NoCall
<1>1. calls \in Seq(Calls)
  BY DEF Ordinary
<1>2. calls # << >> => 1 \in DOMAIN calls
  BY <1>1
<1>3. "close" \in Urgent
  BY DEF Urgent
<1>4. calls # << >> => calls[1].op \notin Urgent /\ calls[1].op # "close"
  BY <1>2, <1>3, Zenon DEF Ordinary
<1>5. Shaped(calls)
  <2>1. \A k \in DOMAIN calls : calls[k].op \notin Urgent /\ calls[k].op # "choose"
    BY Zenon DEF Ordinary
  <2>2. QED
    BY <1>4, <2>1, Zenon DEF Shaped
<1>6. LeadOf(calls) = NoCall
  BY <1>4, Zenon DEF LeadOf
<1>7. QED
  BY <1>1, <1>5, <1>6

LEMMA OneShaped ==
    ASSUME NEW c \in Calls, c.op # "choose", c.op = "close" => c.on \notin Monitors
    PROVE  /\ << c >> \in Seq(Calls) /\ Shaped(<< c >>) /\ << c >> # << >>
           /\ LeadOf(<< c >>) = IF c.op \in Urgent THEN c ELSE NoCall
<1>1. PICK s : s = << c >>
  OBVIOUS
<1>2. s \in Seq(Calls) /\ s # << >> /\ DOMAIN s = {1} /\ s[1] = c
  BY <1>1
<1>3. \A k \in {1} : k = 1 /\ ~(k > 1)
  OBVIOUS
<1>4. Shaped(s)
  BY <1>2, <1>3, Zenon DEF Shaped
<1>5. LeadOf(s) = IF c.op \in Urgent THEN c ELSE NoCall
  BY <1>2, Zenon DEF LeadOf
<1>6. QED
  BY <1>1, <1>2, <1>4, <1>5, Zenon

LEMMA NothingShaped == << >> \in Seq(Calls) /\ Shaped(<< >>) /\ LeadOf(<< >>) = NoCall
<1>1. Ordinary(<< >>)
  BY DEF Ordinary
<1>2. QED
  BY <1>1, OrdinaryShaped

\* A call that is neither a close nor one that renews a page.
LEMMA CallTurns ==
    ASSUME Listed, NEW t \in Threads, NEW op, At(t, op), op # "close",
           NEW new \in Seq(Calls), Shaped(new), CanCall(t, new),
           Then(t, new), ~app'.closing => ~app.closing
    PROVE  /\ Turn(t, LeadOf(new))
           /\ op \notin {"refresh", "look"} => Kept
           /\ op # "look" => (Looking => Looking')
           /\ \A d : op # "refresh" \/ Now(t).on # d => (Refreshing(d) => Refreshing(d)')
           /\ (\E k \in DOMAIN new : new[k].op = "look") => Looking'
           /\ \A d : (\E k \in DOMAIN todo[t] : k > 1 /\ todo[t][k] = Call("refresh", d, "none"))
                => Refreshing(d)'
<1>1. todo[t] # << >> /\ Now(t) = todo[t][1] /\ todo[t][1].op = op
  BY AtHead, Zenon
<1>2. new = << >> \/ todo[t][1].op # "close"
  BY <1>1, Zenon
<1>3. /\ new # << >> => Turn(t, LeadOf(new))
      /\ new = << >> /\ ~(todo[t][1].op = "close" /\ todo[t][1].on \in Monitors)
           => Turn(t, NoCall)
      /\ todo[t][1].op \notin {"refresh", "look"} => Kept
      /\ todo[t][1].op # "look" => (Looking => Looking')
      /\ \A d : todo[t][1] # Call("refresh", d, "none") => (Refreshing(d) => Refreshing(d)')
      /\ (\E k \in DOMAIN new : new[k].op = "look") => Looking'
      /\ \A d : (\E k \in DOMAIN todo[t] : k > 1 /\ todo[t][k] = Call("refresh", d, "none"))
           => Refreshing(d)'
  BY <1>1, <1>2, ThenTurns, Zenon
<1>4. Turn(t, LeadOf(new))
  <2>1. CASE new = << >>
    BY <1>1, <1>3, <2>1, NothingShaped, Zenon
  <2>2. CASE new # << >>
    BY <1>3, <2>2, Zenon
  <2>3. QED
    BY <2>1, <2>2
<1>5. ASSUME NEW d, op # "refresh" \/ Now(t).on # d
      PROVE  todo[t][1] # Call("refresh", d, "none")
  <2>1. PICK c : c = Call("refresh", d, "none")
    OBVIOUS
  <2>2. c.op = "refresh" /\ c.on = d
    BY <2>1, CallIs
  <2>3. QED
    BY <1>1, <1>5, <2>1, <2>2, Zenon
<1>6. QED
  BY <1>1, <1>3, <1>4, <1>5, Zenon

\* The lists stay in order and begin with the same urgent calls.
Steady ==
  /\ todo' \in [Threads -> Seq(Calls)] /\ Shape' /\ Roles'
  /\ Leads' = Leads

LEMMA TurnsSteady ==
    ASSUME NEW t \in Threads, Turn(t, NoCall), Leads[t] = NoCall
    PROVE  Steady
<1>1. [Leads EXCEPT ![t] = Leads[t]] = Leads
  BY DEF Leads
<1>2. QED
  BY <1>1, Zenon DEF Turn, Steady

\* A call of an ordinary kind that leaves ordinary calls.
LEMMA OrdinaryTurns ==
    ASSUME Listed, NEW t \in Threads, NEW op, At(t, op),
           op \notin Urgent, NEW new, Ordinary(new), CanCall(t, new),
           Then(t, new), ~app'.closing => ~app.closing
    PROVE  /\ Steady
           /\ op \notin {"refresh", "look"} => Kept
           /\ op # "look" => (Looking => Looking')
           /\ \A d : op # "refresh" \/ Now(t).on # d => (Refreshing(d) => Refreshing(d)')
           /\ (\E k \in DOMAIN new : new[k].op = "look") => Looking'
           /\ \A d : (\E k \in DOMAIN todo[t] : k > 1 /\ todo[t][k] = Call("refresh", d, "none"))
                => Refreshing(d)'
<1>1. op # "close"
  BY DEF Urgent
<1>2. new \in Seq(Calls) /\ Shaped(new) /\ LeadOf(new) = NoCall
  BY OrdinaryShaped, Zenon
<1>3. /\ Turn(t, LeadOf(new))
      /\ op \notin {"refresh", "look"} => Kept
      /\ op # "look" => (Looking => Looking')
      /\ \A d : op # "refresh" \/ Now(t).on # d => (Refreshing(d) => Refreshing(d)')
      /\ (\E k \in DOMAIN new : new[k].op = "look") => Looking'
      /\ \A d : (\E k \in DOMAIN todo[t] : k > 1 /\ todo[t][k] = Call("refresh", d, "none"))
           => Refreshing(d)'
  BY <1>1, <1>2, CallTurns, Zenon
<1>4. Leads[t] = NoCall
  BY AtHead, Zenon
<1>5. Steady
  BY <1>2, <1>3, <1>4, TurnsSteady, Zenon
<1>6. QED
  BY <1>3, <1>5

\* Ordinary calls given to an idle thread.
LEMMA OrdinaryPushes ==
    ASSUME Listed, NEW t \in Threads, Idle(t), NEW new, Ordinary(new), CanCall(t, new),
           Push(t, new), ~app'.closing => ~app.closing /\ t # "closer"
    PROVE  /\ Steady /\ Kept
           /\ (\E k \in DOMAIN new : new[k].op = "look") => Looking'
<1>1. new \in Seq(Calls) /\ Shaped(new) /\ LeadOf(new) = NoCall
  BY OrdinaryShaped, Zenon
<1>2. /\ Turn(t, LeadOf(new)) /\ Leads[t] = NoCall /\ Kept
      /\ (\E k \in DOMAIN new : new[k].op = "look") => Looking'
  BY <1>1, PushTurns, Zenon
<1>3. Steady
  BY <1>1, <1>2, TurnsSteady, Zenon
<1>4. QED
  BY <1>2, <1>3

LEMMA UnmovedSteady ==
    ASSUME Listed, UNCHANGED todo, ~app'.closing => ~app.closing
    PROVE  Steady /\ Kept
BY StaysListed, Zenon DEF Steady

LEMMA OrdinaryOne ==
    ASSUME NEW c \in Calls, c.op \notin Urgent, c.op # "choose"
    PROVE  Ordinary(<< c >>)
<1>1. PICK s : s = << c >>
  OBVIOUS
<1>2. s \in Seq(Calls) /\ DOMAIN s = {1} /\ s[1] = c
  BY <1>1
<1>3. QED
  BY <1>1, <1>2, Zenon DEF Ordinary

LEMMA OrdinaryTwo ==
    ASSUME NEW c \in Calls, c.op \notin Urgent, c.op # "choose",
           NEW d \in Calls, d.op \notin Urgent, d.op # "choose"
    PROVE  Ordinary(<< c, d >>)
<1>1. PICK s : s = << c, d >>
  OBVIOUS
<1>2. s \in Seq(Calls) /\ DOMAIN s = {1, 2} /\ s[1] = c /\ s[2] = d
  BY <1>1
<1>3. QED
  BY <1>1, <1>2, Zenon DEF Ordinary

LEMMA OrdinaryJoined ==
    ASSUME NEW a, Ordinary(a), NEW b, Ordinary(b)
    PROVE  Ordinary(a \o b)
<1>1. a \in Seq(Calls) /\ b \in Seq(Calls)
  BY DEF Ordinary
<1>2. PICK m, n \in Nat : m = Len(a) /\ n = Len(b) /\ DOMAIN a = 1 .. m /\ DOMAIN b = 1 .. n
  BY <1>1
<1>3. PICK s : s = a \o b
  OBVIOUS
<1>4. /\ s \in Seq(Calls) /\ DOMAIN s = 1 .. m + n
      /\ \A k \in 1 .. m : s[k] = a[k]
      /\ \A k \in 1 .. n : s[m + k] = b[k]
  BY <1>1, <1>2, <1>3
<1>5. ASSUME NEW k \in DOMAIN s
      PROVE  s[k].op \notin Urgent \cup {"choose"}
  <2>1. CASE k \in 1 .. m
    <3>1. a[k].op \notin Urgent \cup {"choose"}
      BY <1>2, <2>1, Zenon DEF Ordinary
    <3>2. QED
      BY <1>4, <2>1, <3>1
  <2>2. CASE k \notin 1 .. m
    <3>1. PICK j : j = k - m
      OBVIOUS
    <3>2. j \in 1 .. n /\ k = m + j
      BY <1>2, <1>4, <2>2, <3>1
    <3>3. b[j].op \notin Urgent \cup {"choose"}
      BY <1>2, <3>2, Zenon DEF Ordinary
    <3>4. QED
      BY <1>4, <3>2, <3>3
  <2>3. QED
    BY <2>1, <2>2
<1>6. QED
  BY <1>3, <1>4, <1>5, Zenon DEF Ordinary

\* Calls of these kinds are not urgent.
LEMMA OrdinaryKinds ==
  \A op \in Ops \ (Urgent \cup {"choose"}) : \A on, arg :
    Call(op, on, arg) \in Calls => Ordinary(<< Call(op, on, arg) >>)
<1>1. TAKE op \in Ops \ (Urgent \cup {"choose"})
<1>0. TAKE on, arg
<1>2. Call(op, on, arg).op = op
  BY CallIs
<1>3. op \notin Urgent /\ op # "choose"
  OBVIOUS
<1>4. QED
  BY <1>2, <1>3, OrdinaryOne, Zenon

LEMMA SixJoined ==
    ASSUME NEW a, NEW b, NEW c, NEW d, NEW e, NEW f,
           Ordinary(<< a >>), Ordinary(<< b >>), Ordinary(<< c >>),
           Ordinary(<< d >>), Ordinary(<< e >>), Ordinary(<< f >>)
    PROVE  Ordinary(<< a, b, c, d, e, f >>)
<1>1. PICK s : s = << a, b, c, d, e, f >>
  OBVIOUS
<1>2. ASSUME NEW x, Ordinary(<< x >>)
      PROVE  x \in Calls /\ x.op \notin Urgent \cup {"choose"}
  <2>1. PICK y : y = << x >>
    OBVIOUS
  <2>2. y[1] = x /\ 1 \in DOMAIN y /\ Len(y) = 1
    BY <2>1
  <2>3. y \in Seq(Calls) /\ y[1].op \notin Urgent \cup {"choose"}
    BY <1>2, <2>1, <2>2, Zenon DEF Ordinary
  <2>4. y[1] \in Calls
    BY <2>2, <2>3
  <2>5. QED
    BY <2>2, <2>3, <2>4
<1>3. a \in Calls /\ b \in Calls /\ c \in Calls /\ d \in Calls /\ e \in Calls /\ f \in Calls
  BY <1>2, Zenon
<1>4. s \in Seq(Calls) /\ DOMAIN s = 1 .. 6 /\ s[1] = a /\ s[2] = b /\ s[3] = c
      /\ s[4] = d /\ s[5] = e /\ s[6] = f
  BY <1>1, <1>3
<1>5. ASSUME NEW k \in DOMAIN s
      PROVE  s[k].op \notin Urgent \cup {"choose"}
  <2>1. k \in {1, 2, 3, 4, 5, 6}
    BY <1>4
  <2>2. s[k] \in {a, b, c, d, e, f}
    BY <1>4, <2>1
  <2>3. QED
    BY <1>2, <2>2, Zenon
<1>6. QED
  BY <1>1, <1>4, <1>5, Zenon DEF Ordinary

LEMMA PageLists ==
  /\ \A page \in Pages : Ordinary(PageUp(page))
  /\ \A page \in Pages \cup {"none"} : Ordinary(PageDown(page))
<1>1. {"up", "down", "page", "logs_up", "logs_down", "resume", "cancel", "listen", "tune_active", "live"}
        \subseteq Ops \ (Urgent \cup {"choose"})
  BY DEF Ops, Urgent
<1>2. "overview" \in Monitors /\ "live" \in Monitors /\ "tune" \in Dispatchers /\ "live" \in Dispatchers
  BY DEF Dispatchers, Monitors
<1>3. TRUE \in BOOLEAN /\ FALSE \in BOOLEAN
  OBVIOUS
<1>4. /\ Ordinary(<< Call("up", "overview", "none") >>) /\ Ordinary(<< Call("down", "overview", "none") >>)
      /\ Ordinary(<< Call("up", "live", "none") >>) /\ Ordinary(<< Call("down", "live", "none") >>)
      /\ Ordinary(<< Call("resume", "live", "none") >>) /\ Ordinary(<< Call("resume", "tune", "none") >>)
      /\ Ordinary(<< Call("cancel", "live", "none") >>) /\ Ordinary(<< Call("cancel", "tune", "none") >>)
      /\ Ordinary(<< Call("logs_up", "logs", "none") >>) /\ Ordinary(<< Call("logs_down", "logs", "none") >>)
  BY <1>1, <1>2, NewCalls, OrdinaryKinds
<1>5. \A b \in BOOLEAN :
        /\ Ordinary(<< Call("page", "monitor", b) >>) /\ Ordinary(<< Call("listen", "tune", b) >>)
        /\ Ordinary(<< Call("tune_active", "tune", b) >>) /\ Ordinary(<< Call("live", "live", b) >>)
  BY <1>1, NewCalls, OrdinaryKinds
<1>6. /\ Ordinary(<< Call("page", "monitor", TRUE) >>) /\ Ordinary(<< Call("page", "monitor", FALSE) >>)
      /\ Ordinary(<< Call("listen", "tune", TRUE) >>) /\ Ordinary(<< Call("listen", "tune", FALSE) >>)
      /\ Ordinary(<< Call("tune_active", "tune", TRUE) >>) /\ Ordinary(<< Call("tune_active", "tune", FALSE) >>)
      /\ Ordinary(<< Call("live", "live", TRUE) >>) /\ Ordinary(<< Call("live", "live", FALSE) >>)
  BY <1>3, <1>5, Zenon
<1>7. PageUp("overview") = << Call("up", "overview", "none") >>
  BY DEF PageUp
<1>8. PageUp("monitor") = << Call("page", "monitor", TRUE) >>
  BY DEF PageUp
<1>9. PageUp("logs") = << Call("logs_up", "logs", "none") >>
  BY DEF PageUp
<1>10. PageUp("tune") =
         << Call("resume", "tune", "none"), Call("listen", "tune", TRUE),
            Call("tune_active", "tune", TRUE), Call("resume", "live", "none"),
            Call("live", "live", TRUE), Call("up", "live", "none") >>
  BY DEF PageUp
<1>11. PageDown("overview") = << Call("down", "overview", "none") >>
  BY DEF PageDown
<1>12. PageDown("monitor") = << Call("page", "monitor", FALSE) >>
  BY DEF PageDown
<1>13. PageDown("logs") = << Call("logs_down", "logs", "none") >>
  BY DEF PageDown
<1>14. PageDown("tune") =
         << Call("listen", "tune", FALSE), Call("cancel", "tune", "none"),
            Call("tune_active", "tune", FALSE), Call("live", "live", FALSE),
            Call("cancel", "live", "none"), Call("down", "live", "none") >>
  BY DEF PageDown
<1>15. PageDown("none") = << >> /\ Ordinary(<< >>)
  BY DEF PageDown, Ordinary
<1>16. Ordinary(PageUp("tune")) /\ Ordinary(PageDown("tune"))
  BY <1>4, <1>6, <1>10, <1>14, SixJoined, Zenon
<1>17. /\ Ordinary(PageUp("overview")) /\ Ordinary(PageUp("monitor")) /\ Ordinary(PageUp("logs"))
       /\ Ordinary(PageDown("overview")) /\ Ordinary(PageDown("monitor")) /\ Ordinary(PageDown("logs"))
       /\ Ordinary(PageDown("none"))
  BY <1>4, <1>6, <1>7, <1>8, <1>9, <1>11, <1>12, <1>13, <1>15, Zenon
<1>18. QED
  BY <1>16, <1>17, Zenon DEF Pages

LEMMA CallerMay ==
    ASSUME Listed, NEW t \in Threads, NEW op, At(t, op),
           op \notin {"submit", "dispatch", "look"}, NEW new
    PROVE  CanCall(t, new)
BY AtHead, Zenon DEF CanCall

\* A call of the UI or the closing goroutine that leaves ordinary calls.
LEMMA ControlTurns ==
    ASSUME Listed, NEW t \in Threads, NEW op, At(t, op), NEW new,
           op \in Ops \ (Urgent \cup {"refresh", "look"}),
           Then(t, new), Ordinary(new), ~app'.closing => ~app.closing
    PROVE  /\ Steady /\ Kept
           /\ (\E k \in DOMAIN new : new[k].op = "look") => Looking'
           /\ \A d : (\E k \in DOMAIN todo[t] : k > 1 /\ todo[t][k] = Call("refresh", d, "none"))
                => Refreshing(d)'
<1>1. /\ op \notin Urgent /\ op \notin {"refresh", "look"}
      /\ op \notin {"submit", "dispatch", "look"}
  BY DEF Urgent
<1>2. CanCall(t, new)
  BY <1>1, CallerMay, Zenon
<1>3. QED
  BY <1>1, <1>2, OrdinaryTurns, Zenon

LEMMA ControlKinds ==
  {"up", "down", "choose", "interval", "publish", "go", "logs_up", "logs_down",
   "tune_active", "listen", "live", "cancel", "resume", "page", "flag", "enter",
   "quit", "deselect", "stop"}
      \subseteq Ops \ (Urgent \cup {"refresh", "look"})
BY DEF Ops, Urgent

LEMMA NothingOrdinary == Ordinary(<< >>)
BY DEF Ordinary

LEMMA UpSteady ==
    ASSUME Listed, NEW t \in Threads, MonitorUp(t)
    PROVE  Steady /\ Kept
<1>1. At(t, "up") /\ Then(t, << >>) /\ app' = app
  BY Zenon DEF MonitorUp, frame
<1>2. QED
  BY <1>1, ControlTurns, ControlKinds, NothingOrdinary

LEMMA GoSteady ==
    ASSUME Listed, NEW t \in Threads, Go(t)
    PROVE  Steady /\ Kept
<1>1. At(t, "go") /\ Then(t, << >>) /\ app' = app
  BY Zenon DEF Go, frame
<1>2. QED
  BY <1>1, ControlTurns, ControlKinds, NothingOrdinary

LEMMA LiveSteady ==
    ASSUME Listed, NEW t \in Threads, SetLiveListener(t)
    PROVE  Steady /\ Kept
<1>1. At(t, "live") /\ Then(t, << >>) /\ app' = app
  BY Zenon DEF SetLiveListener, frame
<1>2. QED
  BY <1>1, ControlTurns, ControlKinds, NothingOrdinary

LEMMA CancelSteady ==
    ASSUME Listed, NEW t \in Threads, CancelUpdates(t)
    PROVE  Steady /\ Kept
<1>1. At(t, "cancel") /\ Then(t, << >>) /\ app' = app
  BY Zenon DEF CancelUpdates, frame
<1>2. QED
  BY <1>1, ControlTurns, ControlKinds, NothingOrdinary

LEMMA ResumeSteady ==
    ASSUME Listed, NEW t \in Threads, ResumeUpdates(t)
    PROVE  Steady /\ Kept
<1>1. At(t, "resume") /\ Then(t, << >>) /\ app' = app
  BY Zenon DEF ResumeUpdates, frame
<1>2. QED
  BY <1>1, ControlTurns, ControlKinds, NothingOrdinary

LEMMA FlagSteady ==
    ASSUME Listed, NEW t \in Threads, SetFlag(t)
    PROVE  Steady /\ Kept
<1>1. At(t, "flag") /\ Then(t, << >>) /\ app' = app
  BY Zenon DEF SetFlag
<1>2. QED
  BY <1>1, ControlTurns, ControlKinds, NothingOrdinary

LEMMA PageSteady ==
    ASSUME Listed, NEW t \in Threads, SetMonitorActive(t)
    PROVE  Steady /\ Kept
<1>1. At(t, "page") /\ app' = app
  BY Zenon DEF SetMonitorActive
<1>2. /\ Ordinary(<< Call("up", "monitor", "none") >>)
      /\ Ordinary(<< Call("down", "monitor", "none") >>)
  <2>1. {"up", "down"} \subseteq Ops \ (Urgent \cup {"choose"})
    BY DEF Ops, Urgent
  <2>2. "monitor" \in Monitors
    BY DEF Monitors
  <2>3. QED
    BY <2>1, <2>2, NewCalls, OrdinaryKinds
<1>3. \/ Then(t, << >>)
      \/ Then(t, << Call(IF Now(t).arg THEN "up" ELSE "down", "monitor", "none") >>)
  BY Zenon DEF SetMonitorActive
<1>4. \E new : Then(t, new) /\ Ordinary(new)
  <2>1. CASE Then(t, << >>)
    BY <2>1, NothingOrdinary, Zenon
  <2>2. CASE ~Then(t, << >>) /\ Now(t).arg
    BY <1>2, <1>3, <2>2, Zenon
  <2>3. CASE ~Then(t, << >>) /\ ~Now(t).arg
    BY <1>2, <1>3, <2>3, Zenon
  <2>4. QED
    BY <2>1, <2>2, <2>3
<1>5. QED
  BY <1>1, <1>4, ControlTurns, ControlKinds

LEMMA RestartOrdinary ==
    ASSUME NEW v \in Monitors, NEW active \in BOOLEAN
    PROVE  Ordinary(Restarted(v, active))
<1>1. {"up", "down", "publish"} \subseteq Ops \ (Urgent \cup {"choose"})
  BY DEF Ops, Urgent
<1>2. Call("up", v, "none") \in Calls /\ Call("down", v, "none") \in Calls /\ Call("publish", v, "none") \in Calls
  BY NewCalls, Zenon
<1>3. /\ Call("up", v, "none").op \notin Urgent \cup {"choose"}
      /\ Call("down", v, "none").op \notin Urgent \cup {"choose"}
      /\ Call("publish", v, "none").op \notin Urgent \cup {"choose"}
  BY <1>1, CallIs
<1>4. /\ Ordinary(<< Call("down", v, "none"), Call("up", v, "none") >>)
      /\ Ordinary(<< Call("publish", v, "none") >>)
  BY <1>2, <1>3, OrdinaryOne, OrdinaryTwo
<1>5. QED
  BY <1>4, Zenon DEF Restarted

LEMMA IntervalSteady ==
    ASSUME Listed, vm \in [Monitors -> MonitorModels], NEW t \in Threads, SetInterval(t)
    PROVE  Steady /\ Kept
<1>1. At(t, "interval") /\ Then(t, Restarted(Now(t).on, vm[Now(t).on].active)) /\ app' = app
  BY Zenon DEF SetInterval, frame
<1>2. Now(t).on \in Monitors
  BY <1>1, AtHead, CallsAre DEF OnMonitors
<1>3. vm[Now(t).on].active \in BOOLEAN
  <2>1. vm[Now(t).on] \in MonitorModels
    BY <1>2
  <2>2. QED
    BY <2>1 DEF MonitorModels
<1>4. Ordinary(Restarted(Now(t).on, vm[Now(t).on].active))
  BY <1>2, <1>3, RestartOrdinary, Zenon
<1>5. QED
  BY <1>1, <1>4, ControlTurns, ControlKinds

\* After a choice of metrics the page is refreshed.
LEMMA ChooseSteady ==
    ASSUME Listed, vm \in [Monitors -> MonitorModels], NEW t \in Threads, SetMetricIDs(t)
    PROVE  Now(t).on \in Monitors /\ Now(t).arg \in SUBSET MetricIDs
           /\ Steady /\ Kept /\ \A d : d = Now(t).on => Refreshing(d)'
<1>1. At(t, "choose") /\ Then(t, Restarted(Now(t).on, vm[Now(t).on].active)) /\ app' = app
  BY Zenon DEF SetMetricIDs, frame
<1>2. Now(t).on \in Monitors /\ Now(t).arg \in SUBSET MetricIDs
  BY <1>1, AtHead, CallsAre DEF OnMonitors
<1>3. vm[Now(t).on].active \in BOOLEAN
  <2>1. vm[Now(t).on] \in MonitorModels
    BY <1>2
  <2>2. QED
    BY <2>1 DEF MonitorModels
<1>4. Ordinary(Restarted(Now(t).on, vm[Now(t).on].active))
  BY <1>2, <1>3, RestartOrdinary, Zenon
<1>5. \E k \in DOMAIN todo[t] : k > 1 /\ todo[t][k] = Call("refresh", Now(t).on, "none")
  <2>1. /\ todo[t] # << >> /\ todo[t] \in Seq(Calls) /\ Shaped(todo[t])
        /\ Now(t) = todo[t][1] /\ Now(t).op = "choose"
    BY <1>1, AtHead, Zenon
  <2>2. PICK calls \in Seq(Calls) : calls = todo[t] /\ calls # << >> /\ Now(t) = calls[1]
    BY <2>1
  <2>3. 1 \in DOMAIN calls
    BY <2>2
  <2>4. 1 + 1 \in DOMAIN calls /\ calls[1 + 1] = Call("refresh", calls[1].on, "none")
    BY <2>1, <2>2, <2>3, Zenon DEF Shaped
  <2>5. 1 + 1 > 1
    OBVIOUS
  <2>6. QED
    BY <2>2, <2>4, <2>5, Zenon
<1>6. PICK new : new = Restarted(Now(t).on, vm[Now(t).on].active)
  OBVIOUS
<1>7. Then(t, new) /\ Ordinary(new)
  BY <1>1, <1>4, <1>6, Zenon
<1>8. "choose" \in Ops \ (Urgent \cup {"refresh", "look"})
  BY ControlKinds
<1>9. /\ Steady /\ Kept
      /\ \A d : (\E k \in DOMAIN todo[t] : k > 1 /\ todo[t][k] = Call("refresh", d, "none"))
           => Refreshing(d)'
  BY <1>1, <1>7, <1>8, ControlTurns, Zenon
<1>10. QED
  BY <1>2, <1>5, <1>9, Zenon

LEMMA QuitSteady ==
    ASSUME Listed, nav \in [selected : Pages \cup {"none"}, monitorActive : BOOLEAN], Quit
    PROVE  Steady /\ Kept
<1>1. At("closer", "quit") /\ app' = app /\ "closer" \in Threads
  BY Zenon DEF Quit, frame, Threads
<1>2. nav.selected \in Pages \cup {"none"}
  OBVIOUS
<1>3. Ordinary(<< Call("deselect", "none", "none") >>)
  <2>1. "deselect" \in Ops \ (Urgent \cup {"choose"})
    BY DEF Ops, Urgent
  <2>2. QED
    BY <2>1, NewCalls, OrdinaryKinds
<1>4. Ordinary(PageDown(nav.selected) \o << Call("deselect", "none", "none") >>)
  BY <1>2, <1>3, PageLists, OrdinaryJoined, Zenon
<1>5. Append(PageDown(nav.selected), Call("deselect", "none", "none"))
        = PageDown(nav.selected) \o << Call("deselect", "none", "none") >>
  <2>1. PICK s : s = PageDown(nav.selected)
    OBVIOUS
  <2>2. s \in Seq(Calls)
    BY <1>2, <2>1, PageLists, Zenon DEF Ordinary
  <2>3. Append(s, Call("deselect", "none", "none")) = s \o << Call("deselect", "none", "none") >>
    BY <2>2
  <2>4. QED
    BY <2>1, <2>3, Zenon
<1>6. \/ Then("closer", << >>)
      \/ Then("closer", Append(PageDown(nav.selected), Call("deselect", "none", "none")))
  BY Zenon DEF Quit
<1>7. \E new : Then("closer", new) /\ Ordinary(new)
  BY <1>4, <1>5, <1>6, NothingOrdinary, Zenon
<1>8. QED
  BY <1>1, <1>7, ControlTurns, ControlKinds

LEMMA DeselectSteady ==
    ASSUME Listed, Deselect
    PROVE  Steady /\ Kept
<1>1. At("closer", "deselect") /\ Then("closer", << >>) /\ app' = app /\ "closer" \in Threads
  BY Zenon DEF Deselect, Threads
<1>2. QED
  BY <1>1, ControlTurns, ControlKinds, NothingOrdinary

LEMMA StopSteady ==
    ASSUME Listed, StopTelemetry, app \in [closing : BOOLEAN, stopped : BOOLEAN]
    PROVE  Steady /\ Kept
<1>1. At("closer", "stop") /\ Then("closer", << >>) /\ "closer" \in Threads
  BY Zenon DEF StopTelemetry, Threads
<1>2. app'.closing = app.closing
  BY DEF StopTelemetry
<1>3. QED
  BY <1>1, <1>2, ControlTurns, ControlKinds, NothingOrdinary

LEMMA EnterSteady ==
    ASSUME Listed, Enter
    PROVE  Steady /\ Kept /\ Now("ui").on \in Pages
<1>1. At("ui", "enter") /\ Then("ui", PageUp(Now("ui").on)) /\ app' = app /\ "ui" \in Threads
  BY Zenon DEF Enter, Threads
<1>2. Now("ui").on \in Pages
  BY <1>1, AtHead, CallsAre
<1>3. Ordinary(PageUp(Now("ui").on))
  BY <1>2, PageLists, Zenon
<1>4. QED
  BY <1>1, <1>2, <1>3, ControlTurns, ControlKinds

LEMMA ThreeJoined ==
    ASSUME NEW a, NEW b, NEW c, Ordinary(<< a >>), Ordinary(<< b, c >>)
    PROVE  Ordinary(<< a, b, c >>)
<1>1. PICK s, y, z : s = << a, b, c >> /\ y = << a >> /\ z = << b, c >>
  OBVIOUS
<1>2. /\ y[1] = a /\ z[1] = b /\ z[2] = c /\ DOMAIN y = {1} /\ DOMAIN z = {1, 2}
      /\ 1 \in DOMAIN y /\ 1 \in DOMAIN z /\ 2 \in DOMAIN z
  BY <1>1
<1>3. y \in Seq(Calls) /\ z \in Seq(Calls)
  BY <1>1, Zenon DEF Ordinary
<1>4. a \in Calls /\ b \in Calls /\ c \in Calls
  <2>1. y[1] \in Calls /\ z[1] \in Calls /\ z[2] \in Calls
    <3>1. 1 \in DOMAIN y /\ 1 \in DOMAIN z /\ 2 \in DOMAIN z
      BY <1>2, Zenon
    <3>2. QED
      BY <1>3, <3>1
  <2>2. QED
    BY <1>2, <2>1, Zenon
<1>5. /\ a.op \notin Urgent \cup {"choose"} /\ b.op \notin Urgent \cup {"choose"}
      /\ c.op \notin Urgent \cup {"choose"}
  <2>1. 1 \in {1} /\ 1 \in {1, 2} /\ 2 \in {1, 2}
    OBVIOUS
  <2>2. y[1].op \notin Urgent \cup {"choose"}
    BY <1>1, <1>2, <2>1, Zenon DEF Ordinary
  <2>3. z[1].op \notin Urgent \cup {"choose"} /\ z[2].op \notin Urgent \cup {"choose"}
    BY <1>1, <1>2, <2>1, Zenon DEF Ordinary
  <2>4. QED
    BY <1>2, <2>2, <2>3, Zenon
<1>6. s \in Seq(Calls) /\ DOMAIN s = {1, 2, 3} /\ s[1] = a /\ s[2] = b /\ s[3] = c
  BY <1>1, <1>4
<1>7. \A k \in DOMAIN s : s[k].op \notin Urgent \cup {"choose"}
  BY <1>5, <1>6
<1>8. QED
  BY <1>1, <1>6, <1>7, Zenon DEF Ordinary

\* The closing goroutine begins before it has anything to do.
LEMMA BeginSteady ==
    ASSUME Listed, BeginClose, app \in [closing : BOOLEAN, stopped : BOOLEAN]
    PROVE  Steady /\ Kept /\ app'.closing /\ ~app.closing
<1>1. /\ ~app.closing /\ app'.closing /\ "closer" \in Threads
      /\ Push("closer", << Call("tune_active", "tune", FALSE), Call("quit", "none", "none"),
                           Call("stop", "none", "none") >>)
  <2>1. app'.closing
    BY DEF BeginClose
  <2>2. QED
    BY <2>1, Zenon DEF BeginClose, Threads
<1>2. Idle("closer")
  BY <1>1, Zenon DEF Listed, Roles, Idle
<1>3. /\ Ordinary(<< Call("tune_active", "tune", FALSE) >>)
      /\ Ordinary(<< Call("quit", "none", "none"), Call("stop", "none", "none") >>)
  <2>1. /\ {"tune_active", "quit", "stop"} \subseteq Ops \ (Urgent \cup {"choose"})
    BY DEF Ops, Urgent
  <2>2. Call("tune_active", "tune", FALSE) \in Calls
    BY NewCalls
  <2>3. Ordinary(<< Call("tune_active", "tune", FALSE) >>)
    BY <2>1, <2>2, OrdinaryKinds
  <2>4. /\ Call("quit", "none", "none") \in Calls /\ Call("stop", "none", "none") \in Calls
        /\ Call("quit", "none", "none").op \notin Urgent \cup {"choose"}
        /\ Call("stop", "none", "none").op \notin Urgent \cup {"choose"}
    BY <2>1, NewCalls, CallIs
  <2>5. QED
    BY <2>3, <2>4, OrdinaryTwo
<1>4. PICK a, b, c : /\ a = Call("tune_active", "tune", FALSE) /\ b = Call("quit", "none", "none")
                     /\ c = Call("stop", "none", "none")
  OBVIOUS
<1>5. Ordinary(<< a, b, c >>)
  <2>1. Ordinary(<< a >>) /\ Ordinary(<< b, c >>)
    BY <1>3, <1>4, Zenon
  <2>2. QED
    BY <2>1, ThreeJoined
<1>6. Push("closer", << a, b, c >>)
  BY <1>1, <1>4, Zenon
<1>7. CanCall("closer", << a, b, c >>)
  BY DEF CanCall
<1>8. Steady /\ Kept
  BY <1>1, <1>2, <1>5, <1>6, <1>7, OrdinaryPushes, Zenon
<1>9. QED
  BY <1>1, <1>8

-----------------------------------------------------------------------------
(* Commands of the user.                                                   *)

LEMMA CommandSteady ==
    ASSUME Listed, NEW new, Ordinary(new), Command(new)
    PROVE  Steady /\ Kept
<1>1. Idle("ui") /\ Push("ui", new) /\ app' = app /\ "ui" \in Threads
  BY Zenon DEF Command, Threads
<1>2. CanCall("ui", new)
  BY DEF CanCall
<1>3. ~app'.closing => ~app.closing /\ "ui" # "closer"
  BY <1>1
<1>4. QED
  BY <1>1, <1>2, <1>3, OrdinaryPushes, Zenon

LEMMA SelectSteady ==
    ASSUME Listed, nav \in [selected : Pages \cup {"none"}, monitorActive : BOOLEAN],
           left.pages \in SUBSET Pages, SelectPage
    PROVE  Steady /\ Kept
<1>1. PICK page \in left.pages : Command(Append(PageDown(nav.selected), Call("enter", page, "none")))
  BY Zenon DEF SelectPage
<1>2. page \in Pages /\ nav.selected \in Pages \cup {"none"}
  BY <1>1
<1>3. Ordinary(<< Call("enter", page, "none") >>)
  <2>1. "enter" \in Ops \ (Urgent \cup {"choose"})
    BY DEF Ops, Urgent
  <2>2. QED
    BY <1>2, <2>1, NewCalls, OrdinaryKinds
<1>4. Ordinary(PageDown(nav.selected) \o << Call("enter", page, "none") >>)
  BY <1>2, <1>3, PageLists, OrdinaryJoined, Zenon
<1>5. Append(PageDown(nav.selected), Call("enter", page, "none"))
        = PageDown(nav.selected) \o << Call("enter", page, "none") >>
  <2>1. PICK s : s = PageDown(nav.selected)
    OBVIOUS
  <2>2. s \in Seq(Calls)
    BY <1>2, <2>1, PageLists, Zenon DEF Ordinary
  <2>3. Append(s, Call("enter", page, "none")) = s \o << Call("enter", page, "none") >>
    BY <2>2
  <2>4. QED
    BY <2>1, <2>3, Zenon
<1>6. QED
  BY <1>1, <1>4, <1>5, CommandSteady, Zenon

LEMMA PauseSteady ==
    ASSUME Listed, nav \in [selected : Pages \cup {"none"}, monitorActive : BOOLEAN], TogglePause
    PROVE  Steady /\ Kept
<1>1. nav.monitorActive \in BOOLEAN
  OBVIOUS
<1>2. {"up", "down", "flag"} \subseteq Ops \ (Urgent \cup {"choose"}) /\ "monitor" \in Monitors
  BY DEF Ops, Urgent, Monitors
<1>3. /\ Call("up", "monitor", "none") \in Calls /\ Call("down", "monitor", "none") \in Calls
      /\ Call("up", "monitor", "none").op \notin Urgent \cup {"choose"}
      /\ Call("down", "monitor", "none").op \notin Urgent \cup {"choose"}
  BY <1>2, NewCalls, CallIs
<1>4. \A b \in BOOLEAN : /\ Call("flag", "monitor", b) \in Calls
                         /\ Call("flag", "monitor", b).op \notin Urgent \cup {"choose"}
  <2>1. \A b \in BOOLEAN : Call("flag", "monitor", b) \in Calls
    BY NewCalls, Zenon
  <2>2. \A b \in BOOLEAN : Call("flag", "monitor", b).op \notin Urgent \cup {"choose"}
    BY <1>2, CallIs
  <2>3. QED
    BY <2>1, <2>2, Zenon
<1>5. \A b \in BOOLEAN :
        /\ Ordinary(<< Call("up", "monitor", "none"), Call("flag", "monitor", b) >>)
        /\ Ordinary(<< Call("down", "monitor", "none"), Call("flag", "monitor", b) >>)
  BY <1>3, <1>4, OrdinaryTwo
<1>6. (~nav.monitorActive) \in BOOLEAN
  BY <1>1
<1>7. CASE nav.monitorActive
  <2>1. Command(<< Call("down", "monitor", "none"), Call("flag", "monitor", ~nav.monitorActive) >>)
    BY <1>7, Zenon DEF TogglePause
  <2>2. QED
    BY <1>5, <1>6, <2>1, CommandSteady, Zenon
<1>8. CASE ~nav.monitorActive
  <2>1. Command(<< Call("up", "monitor", "none"), Call("flag", "monitor", ~nav.monitorActive) >>)
    BY <1>8, Zenon DEF TogglePause
  <2>2. QED
    BY <1>5, <1>6, <2>1, CommandSteady, Zenon
<1>9. QED
  BY <1>7, <1>8

LEMMA ChooseIntervalSteady ==
    ASSUME Listed, ChooseInterval
    PROVE  Steady /\ Kept
<1>1. Command(<< Call("interval", "monitor", "none") >>)
  BY Zenon DEF ChooseInterval
<1>2. Ordinary(<< Call("interval", "monitor", "none") >>)
  <2>1. "interval" \in Ops \ (Urgent \cup {"choose"}) /\ "monitor" \in Monitors
    BY DEF Ops, Urgent, Monitors
  <2>2. QED
    BY <2>1, NewCalls, OrdinaryKinds
<1>3. QED
  BY <1>1, <1>2, CommandSteady, Zenon

LEMMA StateIs ==
    ASSUME NEW m \in MonitorModels
    PROVE  StateOf(m) \in States /\ StateOf(m) \in Views
<1>1. /\ m.metrics \in SUBSET MetricIDs
      /\ m.current \in [MetricIDs -> Samples] /\ m.rings \in [MetricIDs -> Rings]
  BY DEF MonitorModels
<1>2. PICK ids, kept, current, rings :
        /\ ids = m.metrics /\ current = m.current /\ rings = m.rings
        /\ kept = {x \in m.metrics : m.current[x] # NoSample}
  BY Zenon
<1>3. kept \in SUBSET MetricIDs /\ [id \in kept |-> current[id]] \in [kept -> Samples]
  BY <1>1, <1>2
<1>4. \A id \in ids : DownsampleMinMax(Snapshot(rings[id]), Columns) \in Seq(Samples)
  <2>1. TAKE id \in ids
  <2>2. rings[id] \in Rings
    BY <1>1, <1>2
  <2>3. Snapshot(rings[id]) \in Seq(Samples)
    BY <2>2, SnapshotIs, Zenon
  <2>4. Columns \in Nat \ {0}
    BY PagesAssumption, Zenon
  <2>5. QED
    BY <2>3, <2>4, DownsampleThins, Zenon
<1>5. ids \in SUBSET MetricIDs
  BY <1>1, <1>2
<1>6. PICK h : h = [id \in ids |-> DownsampleMinMax(Snapshot(rings[id]), Columns)]
  OBVIOUS
<1>7. h \in [ids -> Seq(Samples)]
  BY <1>4, <1>6
<1>8. StateOf(m) = [selected |-> ids, current |-> [id \in kept |-> current[id]], history |-> h]
  BY <1>2, <1>6, Zenon DEF StateOf
<1>9. PICK c : c = [id \in kept |-> current[id]]
  OBVIOUS
<1>10. /\ c \in UNION {[i -> Samples] : i \in SUBSET MetricIDs}
       /\ h \in UNION {[i -> Seq(Samples)] : i \in SUBSET MetricIDs}
  BY <1>3, <1>5, <1>7, <1>9, Zenon
<1>11. [selected |-> ids, current |-> c, history |-> h] \in States
  BY <1>5, <1>10, Zenon DEF States
<1>12. StateOf(m) \in States
  BY <1>8, <1>9, <1>11, Zenon
<1>13. QED
  BY <1>12, Zenon DEF Views

\* A single call.
LEMMA SubmitList ==
    ASSUME NEW d \in Dispatchers, NEW x \in Views, NEW t
    PROVE  /\ << Call("submit", d, x) >> \in Seq(Calls) /\ Shaped(<< Call("submit", d, x) >>)
           /\ LeadOf(<< Call("submit", d, x) >>) = Call("submit", d, x)
           /\ CanCall(t, << Call("submit", d, x) >>)
<1>1. PICK c : c = Call("submit", d, x)
  OBVIOUS
<1>2. c \in Calls /\ c.op = "submit" /\ c.op \in Urgent /\ c.op # "choose" /\ c.op # "close"
  <2>1. c \in Calls
    BY <1>1, NewCalls, Zenon
  <2>2. c.op = "submit"
    BY <1>1, CallIs
  <2>3. QED
    BY <2>1, <2>2 DEF Urgent
<1>3. << c >> \in Seq(Calls) /\ Shaped(<< c >>) /\ LeadOf(<< c >>) = c
  BY <1>2, OneShaped, Zenon
<1>4. CanCall(t, << c >>)
  <2>1. PICK s : s = << c >>
    OBVIOUS
  <2>2. DOMAIN s = {1} /\ s[1] = c
    BY <2>1
  <2>3. \A k \in DOMAIN s : s[k].op \in {"submit", "dispatch", "look"}
    BY <1>2, <2>2
  <2>4. QED
    BY <2>1, <2>3, Zenon DEF CanCall
<1>5. QED
  BY <1>1, <1>3, <1>4, Zenon

LEMMA NotifiedIs ==
    ASSUME NEW v \in Monitors, NEW x \in Views, NEW t
    PROVE  /\ Notified(v, x) \in Seq(Calls) /\ Shaped(Notified(v, x)) /\ CanCall(t, Notified(v, x))
           /\ LeadOf(Notified(v, x)) = IF Listens(v) THEN Call("submit", v, x) ELSE NoCall
<1>1. v \in Dispatchers
  BY DEF Dispatchers
<1>2. CASE Listens(v)
  <2>1. Notified(v, x) = << Call("submit", v, x) >>
    BY <1>2, Zenon DEF Notified
  <2>2. QED
    BY <1>1, <1>2, <2>1, SubmitList, Zenon
<1>3. CASE ~Listens(v)
  <2>1. Notified(v, x) = << >>
    BY <1>3, Zenon DEF Notified
  <2>2. CanCall(t, << >>)
    BY DEF CanCall
  <2>3. QED
    BY <1>3, <2>1, <2>2, NothingShaped, Zenon
<1>4. QED
  BY <1>2, <1>3

LEMMA TuneNotifiedIs ==
    ASSUME NEW x \in Nat, NEW t
    PROVE  /\ TuneNotified(x) \in Seq(Calls) /\ Shaped(TuneNotified(x)) /\ CanCall(t, TuneNotified(x))
           /\ LeadOf(TuneNotified(x)) = IF tune.listener THEN Call("submit", "tune", x) ELSE NoCall
<1>1. "tune" \in Dispatchers /\ x \in Views
  <2>1. x \in Views
    BY Zenon DEF Views
  <2>2. QED
    BY <2>1 DEF Dispatchers
<1>2. CASE tune.listener
  <2>1. TuneNotified(x) = << Call("submit", "tune", x) >>
    BY <1>2, Zenon DEF TuneNotified
  <2>2. QED
    BY <1>1, <1>2, <2>1, SubmitList, Zenon
<1>3. CASE ~tune.listener
  <2>1. TuneNotified(x) = << >>
    BY <1>3, Zenon DEF TuneNotified
  <2>2. CanCall(t, << >>)
    BY DEF CanCall
  <2>3. QED
    BY <1>3, <2>1, <2>2, NothingShaped, Zenon
<1>4. QED
  BY <1>2, <1>3

LEMMA DispatchList ==
    ASSUME NEW d \in Dispatchers, NEW x \in Nat, NEW t
    PROVE  /\ << Call("dispatch", d, x) >> \in Seq(Calls) /\ Shaped(<< Call("dispatch", d, x) >>)
           /\ LeadOf(<< Call("dispatch", d, x) >>) = Call("dispatch", d, x)
           /\ CanCall(t, << Call("dispatch", d, x) >>)
<1>1. PICK c : c = Call("dispatch", d, x)
  OBVIOUS
<1>2. c \in Calls /\ c.op = "dispatch" /\ c.op \in Urgent /\ c.op # "choose" /\ c.op # "close"
  <2>1. c \in Calls
    BY <1>1, NewCalls, Zenon
  <2>2. c.op = "dispatch"
    BY <1>1, CallIs
  <2>3. QED
    BY <2>1, <2>2 DEF Urgent
<1>3. << c >> \in Seq(Calls) /\ Shaped(<< c >>) /\ LeadOf(<< c >>) = c
  BY <1>2, OneShaped, Zenon
<1>4. CanCall(t, << c >>)
  <2>1. PICK s : s = << c >>
    OBVIOUS
  <2>2. DOMAIN s = {1} /\ s[1] = c
    BY <2>1
  <2>3. \A k \in DOMAIN s : s[k].op \in {"submit", "dispatch", "look"}
    BY <1>2, <2>2
  <2>4. QED
    BY <2>1, <2>3, Zenon DEF CanCall
<1>5. QED
  BY <1>1, <1>3, <1>4, Zenon

LEMMA DispatcherIs ==
    ASSUME updates \in [Dispatchers -> LatestDispatchers], NEW d \in Dispatchers
    PROVE  /\ updates[d] \in LatestDispatchers
           /\ updates[d].latest \in Views /\ updates[d].epoch \in Nat
           /\ updates[d].pending \in BOOLEAN /\ updates[d].active \in BOOLEAN
<1>1. updates[d] \in LatestDispatchers
  OBVIOUS
<1>2. QED
  BY <1>1 DEF LatestDispatchers

LEMMA NothingCan == ASSUME NEW t PROVE CanCall(t, << >>)
BY DEF CanCall

-----------------------------------------------------------------------------
(* Handing over views and rendering them.                                  *)

LEMMA SubmitTurns ==
    ASSUME Listed, updates \in [Dispatchers -> LatestDispatchers],
           NEW t \in Threads, Submit(t), NEW d, d = Now(t).on
    PROVE  /\ d \in Dispatchers /\ Now(t).arg \in Views /\ Now(t).op = "submit" /\ Leads[t] = Now(t) /\ Kept
           /\ Turn(t, IF Dispatches(updates[d]) THEN Call("dispatch", d, updates[d].epoch)
                                                ELSE NoCall)
<1>1. At(t, "submit") /\ app' = app
  BY Zenon DEF Submit, frame
<1>2. /\ Now(t) \in Calls /\ Now(t).op = "submit" /\ Leads[t] = Now(t)
  <2>1. "submit" \in Urgent
    BY DEF Urgent
  <2>2. QED
    BY <1>1, <2>1, AtHead, Zenon
<1>3. d \in Dispatchers /\ Now(t).arg \in Views
  BY <1>2, CallsAre
<1>4. "submit" # "close" /\ "submit" \notin {"refresh", "look"}
  OBVIOUS
<1>5. CASE Dispatches(updates[d])
  <2>1. Then(t, << Call("dispatch", d, updates[d].epoch) >>)
    BY <1>5, Zenon DEF Submit
  <2>2. updates[d].epoch \in Nat
    BY <1>3, DispatcherIs, Zenon
  <2>3. Turn(t, Call("dispatch", d, updates[d].epoch)) /\ Kept
    BY <1>1, <1>3, <1>4, <2>1, <2>2, DispatchList, CallTurns, Zenon
  <2>4. QED
    BY <1>2, <1>3, <1>5, <2>3, Zenon
<1>6. CASE ~Dispatches(updates[d])
  <2>1. Then(t, << >>)
    BY <1>6, Zenon DEF Submit
  <2>2. Turn(t, NoCall) /\ Kept
    BY <1>1, <1>4, <2>1, NothingShaped, NothingCan, CallTurns, Zenon
  <2>3. QED
    BY <1>2, <1>3, <1>6, <2>2, Zenon
<1>7. QED
  BY <1>5, <1>6

LEMMA DispatchTurns ==
    ASSUME Listed, NEW t \in Threads, Dispatch(t)
    PROVE  /\ Now(t).on \in Dispatchers /\ Now(t).arg \in Nat
           /\ Now(t) = Call("dispatch", Now(t).on, Now(t).arg)
           /\ Leads[t] = Now(t) /\ Kept /\ Turn(t, NoCall)
<1>1. At(t, "dispatch") /\ Then(t, << >>) /\ app' = app
  BY Zenon DEF Dispatch, frame
<1>2. /\ Now(t) \in Calls /\ Now(t).op = "dispatch" /\ Leads[t] = Now(t)
  <2>1. "dispatch" \in Urgent
    BY DEF Urgent
  <2>2. QED
    BY <1>1, <2>1, AtHead, Zenon
<1>3. Now(t).on \in Dispatchers /\ Now(t).arg \in Nat /\ Now(t) = Call("dispatch", Now(t).on, Now(t).arg)
  BY <1>2, CallsAre
<1>4. "dispatch" # "close" /\ "dispatch" \notin {"refresh", "look"}
  OBVIOUS
<1>5. Turn(t, NoCall) /\ Kept
  BY <1>1, <1>4, NothingShaped, NothingCan, CallTurns, Zenon
<1>6. QED
  BY <1>2, <1>3, <1>5

LEMMA QueueParts ==
    ASSUME NEW S, NEW q \in Seq(S), q # << >>
    PROVE  /\ Len(q) \in Nat \ {0} /\ DOMAIN q = 1 .. Len(q) /\ Head(q) = q[1] /\ Head(q) \in S
           /\ Tail(q) \in Seq(S) /\ Len(Tail(q)) = Len(q) - 1
           /\ \A k \in 1 .. Len(q) - 1 : Tail(q)[k] = q[k + 1]
OBVIOUS

LEMMA CallbackTurns ==
    ASSUME Listed, updates \in [Dispatchers -> LatestDispatchers],
           queue \in Seq([on : Dispatchers, epoch : Nat]),
           RunCallback, NEW d, d = Head(queue).on, NEW e, e = Head(queue).epoch
    PROVE  /\ d \in Dispatchers /\ e \in Nat /\ Leads["ui"] = NoCall /\ Kept
           /\ Turn("ui", IF Renders(updates[d], e) THEN Call("render", d, updates[d].latest)
                                                   ELSE NoCall)
<1>1. Idle("ui") /\ queue # << >> /\ app' = app /\ "ui" \in Threads
  BY Zenon DEF RunCallback, frame, Threads
<1>2. Head(queue) \in [on : Dispatchers, epoch : Nat]
  BY <1>1, QueueParts, Zenon
<1>3. d \in Dispatchers /\ e \in Nat
  BY <1>2
<1>4. ~app'.closing => ~app.closing /\ "ui" # "closer"
  BY <1>1
<1>5. CASE Renders(updates[d], e)
  <2>1. Push("ui", << Call("render", d, updates[d].latest) >>)
    BY <1>5, Zenon DEF RunCallback
  <2>2. PICK c : c = Call("render", d, updates[d].latest)
    OBVIOUS
  <2>3. c \in Calls /\ c.op = "render" /\ c.op # "choose" /\ c.op # "close" /\ c.op \in Urgent
    <3>1. c \in Calls
      BY <1>3, <2>2, DispatcherIs, NewCalls, Zenon
    <3>2. c.op = "render"
      BY <2>2, CallIs
    <3>3. QED
      BY <3>1, <3>2 DEF Urgent
  <2>4. << c >> \in Seq(Calls) /\ Shaped(<< c >>) /\ LeadOf(<< c >>) = c
    BY <2>3, OneShaped, Zenon
  <2>5. CanCall("ui", << c >>)
    BY DEF CanCall
  <2>6. Turn("ui", c) /\ Leads["ui"] = NoCall /\ Kept
    BY <1>1, <1>4, <2>1, <2>2, <2>4, <2>5, PushTurns, Zenon
  <2>7. QED
    BY <1>3, <1>5, <2>2, <2>6, Zenon
<1>6. CASE ~Renders(updates[d], e)
  <2>1. Push("ui", << >>)
    BY <1>6, Zenon DEF RunCallback
  <2>2. Turn("ui", NoCall) /\ Leads["ui"] = NoCall /\ Kept
    BY <1>1, <1>4, <2>1, NothingShaped, NothingCan, PushTurns, Zenon
  <2>3. QED
    BY <1>3, <1>6, <2>2, Zenon
<1>7. QED
  BY <1>5, <1>6

LEMMA RenderTurns ==
    ASSUME Listed, Render
    PROVE  /\ Now("ui").on \in Dispatchers /\ Now("ui").arg \in Views /\ Now("ui").op = "render"
           /\ Leads["ui"] = Now("ui") /\ Kept /\ Turn("ui", NoCall)
<1>1. At("ui", "render") /\ Then("ui", << >>) /\ app' = app /\ "ui" \in Threads
  BY Zenon DEF Render, frame, Threads
<1>2. /\ Now("ui") \in Calls /\ Now("ui").op = "render" /\ Leads["ui"] = Now("ui")
  <2>1. "render" \in Urgent
    BY DEF Urgent
  <2>2. QED
    BY <1>1, <2>1, AtHead, Zenon
<1>3. Now("ui").on \in Dispatchers /\ Now("ui").arg \in Views
  BY <1>2, CallsAre
<1>4. "render" # "close" /\ "render" \notin {"refresh", "look"}
  OBVIOUS
<1>5. Turn("ui", NoCall) /\ Kept
  BY <1>1, <1>4, NothingShaped, NothingCan, CallTurns, Zenon
<1>6. QED
  BY <1>2, <1>3, <1>5

\* A page that is refreshed is given its newest view at once.
LEMMA RefreshSteady ==
    ASSUME Listed, Refresh
    PROVE  /\ Now("ui").on \in Monitors /\ Steady /\ (Looking => Looking')
           /\ \A d : Now("ui").on # d => (Refreshing(d) => Refreshing(d)')
<1>1. At("ui", "refresh") /\ Then("ui", << >>) /\ app' = app /\ "ui" \in Threads
  BY Zenon DEF Refresh, frame, Threads
<1>2. Now("ui").on \in Monitors
  BY <1>1, AtHead, CallsAre DEF OnMonitors
<1>3. "refresh" \notin Urgent /\ "refresh" # "look"
  BY DEF Urgent
<1>4. Steady /\ (Looking => Looking') /\ \A d : Now("ui").on # d => (Refreshing(d) => Refreshing(d)')
  <2>1. PICK op : op = "refresh"
    OBVIOUS
  <2>2. At("ui", op) /\ op \notin Urgent /\ op # "look"
    BY <1>1, <1>3, <2>1, Zenon
  <2>3. /\ Steady
        /\ op # "look" => (Looking => Looking')
        /\ \A d : op # "refresh" \/ Now("ui").on # d => (Refreshing(d) => Refreshing(d)')
    BY <1>1, <2>2, NothingOrdinary, NothingCan, OrdinaryTurns, Zenon
  <2>4. QED
    BY <2>2, <2>3, Zenon
<1>5. QED
  BY <1>2, <1>4

LEMMA PublishTurns ==
    ASSUME Listed, vm \in [Monitors -> MonitorModels], NEW t \in Threads, PublishState(t),
           NEW v, v = Now(t).on
    PROVE  /\ v \in Monitors /\ Leads[t] = NoCall /\ Kept
           /\ Turn(t, IF Listens(v) THEN Call("submit", v, StateOf(vm[v])) ELSE NoCall)
<1>1. At(t, "publish") /\ Then(t, Notified(v, StateOf(vm[v]))) /\ app' = app
  BY Zenon DEF PublishState, frame
<1>2. v \in Monitors
  BY <1>1, AtHead, CallsAre DEF OnMonitors
<1>3. StateOf(vm[v]) \in Views
  BY <1>2, StateIs
<1>4. "publish" \notin Urgent /\ "publish" # "close" /\ "publish" \notin {"refresh", "look"}
  BY DEF Urgent
<1>5. Turn(t, LeadOf(Notified(v, StateOf(vm[v])))) /\ Kept
  BY <1>1, <1>2, <1>3, <1>4, NotifiedIs, CallTurns, Zenon
<1>6. Leads[t] = NoCall
  BY <1>1, <1>4, AtHead, Zenon
<1>7. QED
  BY <1>2, <1>3, <1>5, <1>6, NotifiedIs, Zenon

-----------------------------------------------------------------------------
(* Subscriptions: leaving them and reading them.                           *)

LEMMA TwoParts ==
    ASSUME NEW a, NEW b
    PROVE  /\ << a, b >> # << >> /\ DOMAIN << a, b >> = {1, 2} /\ Len(<< a, b >>) = 2
           /\ << a, b >>[1] = a /\ << a, b >>[2] = b
           /\ \A S : a \in S /\ b \in S => << a, b >> \in Seq(S)
OBVIOUS

LEMMA LeaveList ==
    ASSUME NEW v \in Monitors, NEW w \in Workers
    PROVE  /\ << Call("close", v, w), Call("await", v, w) >> \in Seq(Calls)
           /\ Shaped(<< Call("close", v, w), Call("await", v, w) >>)
           /\ LeadOf(<< Call("close", v, w), Call("await", v, w) >>) = Call("close", v, w)
<1>1. PICK c, d : c = Call("close", v, w) /\ d = Call("await", v, w)
  OBVIOUS
<1>2. PICK s : s = << c, d >>
  OBVIOUS
<1>3. /\ s # << >> /\ DOMAIN s = {1, 2} /\ Len(s) = 2 /\ s[1] = c /\ s[2] = d
      /\ s \in Seq(Calls)
  <2>1. c \in Calls /\ d \in Calls
    BY <1>1, NewCalls, Zenon
  <2>2. QED
    BY <1>2, <2>1, TwoParts, Zenon
<1>4. /\ c.op = "close" /\ c.on = v /\ c.arg = w /\ d.op = "await" /\ d.on = v /\ d.arg = w
  BY <1>1, CallIs
<1>5. ASSUME NEW k \in DOMAIN s, k > 1, s[k].op \in Urgent
      PROVE  k = 2 /\ s[1] = Call("close", s[2].on, s[2].arg) /\ s[2].op = "await"
  <2>1. k = 2
    BY <1>3, <1>5
  <2>2. QED
    BY <1>1, <1>3, <1>4, <2>1, Zenon
<1>6. Len(s) >= 2 /\ s[2] = Call("await", s[1].on, s[1].arg)
  <2>1. Len(s) >= 2
    BY <1>3
  <2>2. QED
    BY <1>1, <1>3, <1>4, <2>1, Zenon
<1>7. \A k \in DOMAIN s : s[k].op # "choose"
  BY <1>3, <1>4
<1>8. Shaped(s)
  BY <1>5, <1>6, <1>7, Zenon DEF Shaped
<1>9. LeadOf(s) = c
  <2>1. c.op \in Urgent
    BY <1>4 DEF Urgent
  <2>2. QED
    BY <1>3, <2>1, Zenon DEF LeadOf
<1>10. QED
  BY <1>1, <1>2, <1>3, <1>8, <1>9, Zenon

LEMMA ModelIs ==
    ASSUME vm \in [Monitors -> MonitorModels], NEW v \in Monitors
    PROVE  /\ vm[v] \in MonitorModels
           /\ vm[v].active \in BOOLEAN /\ vm[v].metrics \in SUBSET MetricIDs
           /\ vm[v].handle \in Workers \cup {"none"}
           /\ vm[v].current \in [MetricIDs -> Samples] /\ vm[v].rings \in [MetricIDs -> Rings]
<1>1. vm[v] \in MonitorModels
  OBVIOUS
<1>2. QED
  BY <1>1 DEF MonitorModels

LEMMA DownTurns ==
    ASSUME Listed, vm \in [Monitors -> MonitorModels],
           \A x \in Monitors : vm[x].active => vm[x].handle \in Workers,
           NEW t \in Threads, MonitorDown(t), NEW v, v = Now(t).on
    PROVE  /\ v \in Monitors /\ Leads[t] = NoCall /\ Kept
           /\ Turn(t, IF vm[v].active THEN Call("close", v, vm[v].handle) ELSE NoCall)
<1>1. At(t, "down") /\ app' = app
  BY Zenon DEF MonitorDown, frame
<1>2. v \in Monitors
  BY <1>1, AtHead, CallsAre DEF OnMonitors
<1>3. "down" \notin Urgent /\ "down" # "close" /\ "down" \notin {"refresh", "look"}
      /\ "down" \notin {"submit", "dispatch", "look"}
  BY DEF Urgent
<1>4. Leads[t] = NoCall
  BY <1>1, <1>3, AtHead, Zenon
<1>5. CASE vm[v].active
  <2>1. PICK new : new = << Call("close", v, vm[v].handle), Call("await", v, vm[v].handle) >>
    OBVIOUS
  <2>2. Then(t, new)
    BY <1>5, <2>1, Zenon DEF MonitorDown
  <2>3. new \in Seq(Calls) /\ Shaped(new) /\ LeadOf(new) = Call("close", v, vm[v].handle)
    BY <1>2, <1>5, <2>1, LeaveList, Zenon
  <2>4. CanCall(t, new)
    BY <1>1, <1>3, CallerMay, Zenon
  <2>5. Turn(t, LeadOf(new)) /\ Kept
    BY <1>1, <1>3, <2>2, <2>3, <2>4, CallTurns, Zenon
  <2>6. QED
    BY <1>2, <1>4, <1>5, <2>3, <2>5, Zenon
<1>6. CASE ~vm[v].active
  <2>1. Then(t, << >>)
    BY <1>6, Zenon DEF MonitorDown
  <2>2. Turn(t, NoCall) /\ Kept
    BY <1>1, <1>3, <2>1, NothingShaped, NothingCan, CallTurns, Zenon
  <2>3. QED
    BY <1>2, <1>4, <1>6, <2>2, Zenon
<1>7. QED
  BY <1>5, <1>6

LEMMA CloseTurns ==
    ASSUME Listed, NEW t \in Threads, CloseHandle(t), NEW v, v = Now(t).on, NEW w, w = Now(t).arg
    PROVE  /\ v \in Monitors \cup {"logs"} /\ w \in Workers
           /\ Leads[t] = Call("close", v, w) /\ Kept
           /\ Turn(t, IF v \in Monitors THEN Call("await", v, w) ELSE NoCall)
<1>1. At(t, "close") /\ Then(t, << >>) /\ app' = app
  BY Zenon DEF CloseHandle, frame
<1>2. /\ Now(t) \in Calls /\ Now(t).op = "close" /\ Leads[t] = Now(t)
      /\ Now(t) = todo[t][1] /\ todo[t] # << >>
  <2>1. "close" \in Urgent
    BY DEF Urgent
  <2>2. QED
    BY <1>1, <2>1, AtHead, Zenon
<1>3. v \in Monitors \cup {"logs"} /\ w \in Workers /\ Now(t) = Call("close", v, w)
  BY <1>2, CallsAre
<1>4. "close" \notin {"refresh", "look"}
  OBVIOUS
<1>5. /\ ~(todo[t][1].op = "close" /\ todo[t][1].on \in Monitors) => Turn(t, NoCall)
      /\ todo[t][1].op = "close" /\ todo[t][1].on \in Monitors
           => Turn(t, Call("await", todo[t][1].on, todo[t][1].arg))
      /\ todo[t][1].op \notin {"refresh", "look"} => Kept
  BY <1>1, <1>2, NothingShaped, NothingCan, ThenTurns, Zenon
<1>6. QED
  BY <1>2, <1>3, <1>4, <1>5, Zenon

LEMMA AwaitTurns ==
    ASSUME Listed, NEW t \in Threads, Await(t), NEW v, v = Now(t).on, NEW w, w = Now(t).arg
    PROVE  /\ v \in Monitors /\ w \in Workers
           /\ Leads[t] = Call("await", v, w) /\ Kept /\ Turn(t, NoCall)
<1>1. At(t, "await") /\ Then(t, << >>) /\ app' = app
  BY Zenon DEF Await, frame
<1>2. Now(t) \in Calls /\ Now(t).op = "await" /\ Leads[t] = Now(t)
  <2>1. "await" \in Urgent
    BY DEF Urgent
  <2>2. QED
    BY <1>1, <2>1, AtHead, Zenon
<1>3. v \in Monitors /\ w \in Workers /\ Now(t) = Call("await", v, w)
  BY <1>2, CallsAre DEF OnMonitors
<1>4. "await" # "close" /\ "await" \notin {"refresh", "look"}
  OBVIOUS
<1>5. Turn(t, NoCall) /\ Kept
  BY <1>1, <1>4, NothingShaped, NothingCan, CallTurns, Zenon
<1>6. QED
  BY <1>2, <1>3, <1>5, Zenon

LEMMA WorkersAre ==
    ASSUME NEW w \in Workers
    PROVE  w \in Threads /\ w \notin {"ui", "closer"}
BY PagesAssumption DEF Threads

LEMMA ConsumeTurns ==
    ASSUME Listed, NEW w \in Workers, Consume(w), vm' \in [Monitors -> MonitorModels],
           NEW v, v = subs[w].owner
    PROVE  /\ v \in Monitors /\ Leads[w] = NoCall /\ Kept
           /\ Turn(w, IF Listens(v) THEN Call("submit", v, StateOf(vm'[v])) ELSE NoCall)
<1>1. v \in Monitors /\ Idle(w) /\ Push(w, Notified(v, StateOf(vm'[v]))) /\ app' = app
  BY Zenon DEF Consume, frame
<1>2. vm'[v] \in MonitorModels
  BY <1>1
<1>3. StateOf(vm'[v]) \in Views
  BY <1>2, StateIs, Zenon
<1>4. w \in Threads /\ (~app'.closing => ~app.closing /\ w # "closer")
  BY <1>1, WorkersAre
<1>5. Turn(w, LeadOf(Notified(v, StateOf(vm'[v])))) /\ Leads[w] = NoCall /\ Kept
  BY <1>1, <1>3, <1>4, NotifiedIs, PushTurns, Zenon
<1>6. QED
  BY <1>1, <1>3, <1>5, NotifiedIs, Zenon

-----------------------------------------------------------------------------
(* The Logs page.                                                          *)

LEMMA SpareIs ==
    ASSUME Vacant # {}
    PROVE  Spare \in Workers /\ subs[Spare].status = "free"
<1>1. Spare \in Vacant
  BY Zenon DEF Spare
<1>2. QED
  BY <1>1 DEF Vacant

LEMMA LogsUpSteady ==
    ASSUME Listed, NEW t \in Threads, LogsUp(t)
    PROVE  Steady /\ Kept /\ (~logs.active => Looking')
<1>1. At(t, "logs_up") /\ app' = app
  BY Zenon DEF LogsUp, frame
<1>2. CASE logs.active
  <2>1. Then(t, << >>)
    BY <1>2, Zenon DEF LogsUp
  <2>2. Steady /\ Kept
    BY <1>1, <2>1, ControlTurns, ControlKinds, NothingOrdinary
  <2>3. QED
    BY <1>2, <2>2
<1>3. CASE ~logs.active
  <2>1. PICK c, d : c = Call("look", "logs", "none") /\ d = Call("go", "logs", Spare)
    OBVIOUS
  <2>2. PICK new : new = << c, d >>
    OBVIOUS
  <2>3. Then(t, new) /\ Vacant # {}
    BY <1>3, <2>1, <2>2, Zenon DEF LogsUp
  <2>4. Spare \in Workers
    BY <2>3, SpareIs
  <2>5. c \in Calls /\ d \in Calls
    BY <2>1, <2>4, NewCalls, Zenon
  <2>6. c.op = "look" /\ c.op \notin Urgent /\ c.op # "choose" /\ d.op \notin Urgent /\ d.op # "choose"
    BY <2>1, CallIs DEF Urgent
  <2>7. Ordinary(new)
    BY <2>2, <2>5, <2>6, OrdinaryTwo, Zenon
  <2>8. \E k \in DOMAIN new : new[k].op = "look"
    BY <2>2, <2>6
  <2>9. "logs_up" \in Ops \ (Urgent \cup {"refresh", "look"})
    BY ControlKinds
  <2>10. Steady /\ Kept /\ Looking'
    BY <1>1, <2>3, <2>7, <2>8, <2>9, ControlTurns, Zenon
  <2>11. QED
    BY <2>10
<1>4. QED
  BY <1>2, <1>3

LEMMA LookTurns ==
    ASSUME Listed, store \in Seq(Nat), NEW t \in Threads, LookAtEvents(t)
    PROVE  /\ Leads[t] = NoCall /\ Turn(t, Call("submit", "logs", store))
           /\ \A d : Refreshing(d) => Refreshing(d)'
<1>1. At(t, "look") /\ Then(t, << Call("submit", "logs", store) >>) /\ app' = app
  BY Zenon DEF LookAtEvents, frame
<1>2. "logs" \in Dispatchers /\ store \in Views
  <2>1. store \in Views
    BY Zenon DEF Views
  <2>2. QED
    BY <2>1 DEF Dispatchers
<1>3. PICK op : op = "look"
  OBVIOUS
<1>4. At(t, op) /\ op \notin Urgent /\ op # "close" /\ op # "refresh"
  BY <1>1, <1>3 DEF Urgent
<1>5. /\ Turn(t, LeadOf(<< Call("submit", "logs", store) >>))
      /\ \A d : op # "refresh" \/ Now(t).on # d => (Refreshing(d) => Refreshing(d)')
  BY <1>1, <1>2, <1>4, SubmitList, CallTurns, Zenon
<1>6. Leads[t] = NoCall
  BY <1>4, AtHead, Zenon
<1>7. Turn(t, Call("submit", "logs", store))
  BY <1>2, <1>5, SubmitList, Zenon
<1>8. QED
  BY <1>4, <1>5, <1>6, <1>7, Zenon

LEMMA TakeSteady ==
    ASSUME Listed, NEW w \in Workers, TakeEvent(w)
    PROVE  Steady /\ Kept /\ Looking'
<1>1. Idle(w) /\ Push(w, << Call("look", "logs", "none") >>) /\ app' = app
  BY Zenon DEF TakeEvent, frame
<1>2. PICK c : c = Call("look", "logs", "none")
  OBVIOUS
<1>3. c \in Calls /\ c.op = "look" /\ c.op \notin Urgent /\ c.op # "choose"
  <2>1. c \in Calls
    BY <1>2, NewCalls, Zenon
  <2>2. QED
    BY <1>2, <2>1, CallIs DEF Urgent
<1>4. PICK new : new = << c >>
  OBVIOUS
<1>5. Ordinary(new)
  BY <1>3, <1>4, OrdinaryOne, Zenon
<1>6. DOMAIN new = {1} /\ new[1] = c
  BY <1>4
<1>7. CanCall(w, new) /\ \E k \in DOMAIN new : new[k].op = "look"
  <2>1. \A k \in DOMAIN new : new[k].op \in {"submit", "dispatch", "look"}
    BY <1>3, <1>6
  <2>2. \E k \in DOMAIN new : new[k].op = "look"
    BY <1>3, <1>6
  <2>3. QED
    BY <2>1, <2>2, Zenon DEF CanCall
<1>8. w \in Threads /\ (~app'.closing => ~app.closing /\ w # "closer")
  BY <1>1, WorkersAre
<1>9. Push(w, new)
  BY <1>1, <1>2, <1>4, Zenon
<1>10. QED
  BY <1>1, <1>5, <1>7, <1>8, <1>9, OrdinaryPushes, Zenon

LEMMA LogsDownTurns ==
    ASSUME Listed, logs.active => logs.handle \in Workers, NEW t \in Threads, LogsDown(t)
    PROVE  /\ Leads[t] = NoCall /\ Kept
           /\ Turn(t, IF logs.active THEN Call("close", "logs", logs.handle) ELSE NoCall)
<1>1. At(t, "logs_down") /\ app' = app
  BY Zenon DEF LogsDown, frame
<1>2. /\ "logs_down" \notin Urgent /\ "logs_down" # "close" /\ "logs_down" \notin {"refresh", "look"}
      /\ "logs_down" \notin {"submit", "dispatch", "look"}
  BY DEF Urgent
<1>3. Leads[t] = NoCall
  BY <1>1, <1>2, AtHead, Zenon
<1>4. CASE logs.active
  <2>1. PICK c : c = Call("close", "logs", logs.handle)
    OBVIOUS
  <2>2. Then(t, << c >>)
    BY <1>4, <2>1, Zenon DEF LogsDown
  <2>3. c \in Calls
    BY <1>4, <2>1, NewCalls
  <2>4. c.op # "choose" /\ c.on \notin Monitors /\ c.op \in Urgent
    BY <2>1, CallIs DEF Monitors, Urgent
  <2>5. << c >> \in Seq(Calls) /\ Shaped(<< c >>) /\ LeadOf(<< c >>) = c
    BY <2>3, <2>4, OneShaped, Zenon
  <2>6. CanCall(t, << c >>)
    BY <1>1, <1>2, CallerMay, Zenon
  <2>7. Turn(t, c) /\ Kept
    BY <1>1, <1>2, <2>2, <2>5, <2>6, CallTurns, Zenon
  <2>8. QED
    BY <1>3, <1>4, <2>1, <2>7, Zenon
<1>5. CASE ~logs.active
  <2>1. Then(t, << >>)
    BY <1>5, Zenon DEF LogsDown
  <2>2. Turn(t, NoCall) /\ Kept
    BY <1>1, <1>2, <2>1, NothingShaped, NothingCan, CallTurns, Zenon
  <2>3. QED
    BY <1>3, <1>5, <2>2, Zenon
<1>6. QED
  BY <1>4, <1>5

-----------------------------------------------------------------------------
(* The Tune page.                                                          *)

LEMMA ChangeTurns ==
    ASSUME Listed, tune \in TuneModels, NEW t \in Services \cup {"ui"}, ChangeTune(t)
    PROVE  /\ Leads[t] = NoCall /\ Kept /\ tune' = [tune EXCEPT !.version = @ + 1]
           /\ Turn(t, IF tune.listener THEN Call("submit", "tune", tune.version + 1) ELSE NoCall)
<1>1. /\ tune' = [tune EXCEPT !.version = @ + 1] /\ app' = app /\ Idle(t)
      /\ Push(t, TuneNotified(tune'.version))
  BY Zenon DEF ChangeTune
<1>2. tune'.version = tune.version + 1 /\ tune.version + 1 \in Nat
  BY <1>1 DEF TuneModels
<1>3. t \in Threads /\ (~app'.closing => ~app.closing /\ t # "closer")
  BY <1>1, PagesAssumption DEF Threads
<1>4. Push(t, TuneNotified(tune.version + 1))
  BY <1>1, <1>2, Zenon
<1>5. Turn(t, LeadOf(TuneNotified(tune.version + 1))) /\ Leads[t] = NoCall /\ Kept
  BY <1>1, <1>2, <1>3, <1>4, TuneNotifiedIs, PushTurns, Zenon
<1>6. QED
  BY <1>1, <1>2, <1>5, TuneNotifiedIs, Zenon

LEMMA TuneActiveTurns ==
    ASSUME Listed, tune \in TuneModels, NEW t \in Threads, TuneActive(t)
    PROVE  /\ Leads[t] = NoCall /\ Kept
           /\ \/ UNCHANGED << tune, late >> /\ Turn(t, NoCall)
              \/ /\ tune' = [tune EXCEPT !.active = ~@, !.version = @ + 1]
                 /\ View("tune", t, tune.listener)
                 /\ Turn(t, IF tune.listener THEN Call("submit", "tune", tune.version + 1)
                                             ELSE NoCall)
<1>1. At(t, "tune_active") /\ app' = app
  BY Zenon DEF TuneActive, frame
<1>2. "tune_active" \notin Urgent /\ "tune_active" # "close" /\ "tune_active" \notin {"refresh", "look"}
  BY DEF Urgent
<1>3. Leads[t] = NoCall
  BY <1>1, <1>2, AtHead, Zenon
<1>4. CASE tune.active = Now(t).arg
  <2>1. Then(t, << >>) /\ UNCHANGED << tune, late >>
    BY <1>4, Zenon DEF TuneActive
  <2>2. Turn(t, NoCall) /\ Kept
    BY <1>1, <1>2, <2>1, NothingShaped, NothingCan, CallTurns, Zenon
  <2>3. QED
    BY <1>3, <2>1, <2>2
<1>5. CASE tune.active # Now(t).arg
  <2>1. /\ tune' = [tune EXCEPT !.active = ~@, !.version = @ + 1]
        /\ View("tune", t, tune.listener) /\ Then(t, TuneNotified(tune'.version))
    BY <1>5, Zenon DEF TuneActive
  <2>2. tune'.version = tune.version + 1 /\ tune.version + 1 \in Nat
    BY <2>1 DEF TuneModels
  <2>3. Then(t, TuneNotified(tune.version + 1))
    BY <2>1, <2>2, Zenon
  <2>4. Turn(t, LeadOf(TuneNotified(tune.version + 1))) /\ Kept
    BY <1>1, <1>2, <2>2, <2>3, TuneNotifiedIs, CallTurns, Zenon
  <2>5. Turn(t, IF tune.listener THEN Call("submit", "tune", tune.version + 1) ELSE NoCall)
    BY <2>2, <2>4, TuneNotifiedIs, Zenon
  <2>6. QED
    BY <1>3, <2>1, <2>4, <2>5
<1>6. QED
  BY <1>4, <1>5

LEMMA ListenTurns ==
    ASSUME Listed, tune \in TuneModels, NEW t \in Threads, SetTuneListener(t)
    PROVE  /\ Leads[t] = NoCall /\ Kept /\ Now(t).arg \in BOOLEAN
           /\ Turn(t, IF Now(t).arg THEN Call("submit", "tune", tune.version) ELSE NoCall)
<1>1. At(t, "listen") /\ app' = app
  BY Zenon DEF SetTuneListener, frame
<1>2. "listen" \notin Urgent /\ "listen" # "close" /\ "listen" \notin {"refresh", "look"}
  BY DEF Urgent
<1>3. Leads[t] = NoCall /\ Now(t) \in Calls /\ Now(t).op = "listen"
  BY <1>1, <1>2, AtHead, Zenon
<1>4. Now(t).arg \in BOOLEAN
  BY <1>3, CallsAre DEF Switches
<1>5. "tune" \in Dispatchers /\ tune.version \in Views
  <2>1. tune.version \in Nat
    BY DEF TuneModels
  <2>2. tune.version \in Views
    BY <2>1, Zenon DEF Views
  <2>3. QED
    BY <2>2 DEF Dispatchers
<1>6. CASE Now(t).arg
  <2>1. Then(t, << Call("submit", "tune", tune.version) >>)
    BY <1>6, Zenon DEF SetTuneListener
  <2>2. Turn(t, LeadOf(<< Call("submit", "tune", tune.version) >>)) /\ Kept
    BY <1>1, <1>2, <1>5, <2>1, SubmitList, CallTurns, Zenon
  <2>3. Turn(t, Call("submit", "tune", tune.version))
    BY <1>5, <2>2, SubmitList, Zenon
  <2>4. QED
    BY <1>3, <1>4, <1>6, <2>2, <2>3, Zenon
<1>7. CASE ~Now(t).arg
  <2>1. Then(t, << >>)
    BY <1>7, Zenon DEF SetTuneListener
  <2>2. Turn(t, NoCall) /\ Kept
    BY <1>1, <1>2, <2>1, NothingShaped, NothingCan, CallTurns, Zenon
  <2>3. QED
    BY <1>3, <1>4, <1>7, <2>2, Zenon
<1>8. QED
  BY <1>6, <1>7

-----------------------------------------------------------------------------
(* Choosing metrics, on the Monitor page and for a new catalog.            *)

LEMMA SelectionCalls ==
    ASSUME NEW v \in Monitors, NEW ids \in SUBSET MetricIDs
    PROVE  /\ ApplySelection(v, ids) = << Call("choose", v, ids), Call("refresh", v, "none") >>
           /\ ApplySelection(v, ids)[1] = Call("choose", v, ids)
           /\ ApplySelection(v, ids)[2] = Call("refresh", v, "none")
           /\ Call("choose", v, ids) \in Calls /\ Call("refresh", v, "none") \in Calls
<1>1. ApplySelection(v, ids) = << Call("choose", v, ids), Call("refresh", v, "none") >>
  BY Zenon DEF ApplySelection
<1>2. Call("choose", v, ids) \in Calls /\ Call("refresh", v, "none") \in Calls
  BY NewCalls, Zenon
<1>3. PICK c, d : c = Call("choose", v, ids) /\ d = Call("refresh", v, "none")
  OBVIOUS
<1>4. << c, d >>[1] = c /\ << c, d >>[2] = d
  OBVIOUS
<1>5. QED
  BY <1>1, <1>2, <1>3, <1>4, Zenon

\* Choices, each with its refresh.
ChoiceList(n, s) ==
  /\ s \in Seq(Calls) /\ DOMAIN s = 1 .. n + n
  /\ \A k \in 1 .. n + n : s[k].op \notin Urgent
  /\ \A k \in 1 .. n + n : s[k].op = "choose" =>
       k + 1 \in 1 .. n + n /\ s[k + 1] = Call("refresh", s[k].on, "none")

LEMMA ChoicesShaped ==
    ASSUME NEW n \in Nat, NEW s, ChoiceList(n, s)
    PROVE  s \in Seq(Calls) /\ Shaped(s) /\ LeadOf(s) = NoCall
<1>1. s \in Seq(Calls) /\ DOMAIN s = 1 .. n + n
  BY DEF ChoiceList
<1>2. s # << >> => 1 \in DOMAIN s
  BY <1>1
<1>3. \A k \in DOMAIN s : s[k].op \notin Urgent
  BY <1>1, Zenon DEF ChoiceList
<1>4. "close" \in Urgent
  BY DEF Urgent
<1>5. \A k \in DOMAIN s : s[k].op = "choose" =>
        k + 1 \in DOMAIN s /\ s[k + 1] = Call("refresh", s[k].on, "none")
  BY <1>1, Zenon DEF ChoiceList
<1>6. Shaped(s)
  BY <1>2, <1>3, <1>4, <1>5, Zenon DEF Shaped
<1>7. LeadOf(s) = NoCall
  BY <1>2, <1>3, Zenon DEF LeadOf
<1>8. QED
  BY <1>1, <1>6, <1>7

LEMMA ChoicesSteady ==
    ASSUME Listed, NEW n \in Nat, NEW s, ChoiceList(n, s), Idle("ui"), Push("ui", s), app' = app
    PROVE  Steady /\ Kept
<1>1. s \in Seq(Calls) /\ Shaped(s) /\ LeadOf(s) = NoCall
  BY ChoicesShaped, Zenon
<1>2. "ui" \in Threads /\ CanCall("ui", s) /\ (~app'.closing => ~app.closing /\ "ui" # "closer")
  BY DEF Threads, CanCall
<1>3. Turn("ui", LeadOf(s)) /\ Leads["ui"] = NoCall /\ Kept
  BY <1>1, <1>2, PushTurns, Zenon
<1>4. QED
  BY <1>1, <1>2, <1>3, TurnsSteady, Zenon

LEMMA OneChoice ==
    ASSUME NEW v \in Monitors, NEW ids \in SUBSET MetricIDs
    PROVE  ChoiceList(1, ApplySelection(v, ids))
<1>1. PICK c, d : c = Call("choose", v, ids) /\ d = Call("refresh", v, "none")
  OBVIOUS
<1>2. c.op = "choose" /\ c.on = v /\ d.op = "refresh"
  BY <1>1, CallIs
<1>3. c \in Calls /\ d \in Calls /\ ApplySelection(v, ids) = << c, d >>
  BY <1>1, SelectionCalls, Zenon
<1>4. PICK s : s = << c, d >>
  OBVIOUS
<1>5. s \in Seq(Calls) /\ DOMAIN s = 1 .. 1 + 1 /\ s[1] = c /\ s[2] = d
  BY <1>3, <1>4
<1>6. \A k \in 1 .. 1 + 1 : s[k].op \notin Urgent
  BY <1>2, <1>5 DEF Urgent
<1>7. ASSUME NEW k \in 1 .. 1 + 1, s[k].op = "choose"
      PROVE  k + 1 \in 1 .. 1 + 1 /\ s[k + 1] = Call("refresh", s[k].on, "none")
  <2>1. k = 1
    BY <1>2, <1>5, <1>7
  <2>2. k + 1 = 2 /\ k + 1 \in 1 .. 1 + 1
    BY <2>1
  <2>3. QED
    BY <1>1, <1>2, <1>5, <2>1, <2>2, Zenon
<1>8. QED
  BY <1>3, <1>4, <1>5, <1>6, <1>7, Zenon DEF ChoiceList

LEMMA ChooseMetricsSteady ==
    ASSUME Listed, left.metrics \in SUBSET MetricIDs, ChooseMetrics
    PROVE  Steady /\ Kept
<1>1. PICK ids \in SUBSET left.metrics : Command(ApplySelection("monitor", ids))
  BY Zenon DEF ChooseMetrics
<1>2. ids \in SUBSET MetricIDs /\ "monitor" \in Monitors /\ 1 \in Nat
  BY DEF Monitors
<1>3. ChoiceList(1, ApplySelection("monitor", ids))
  BY <1>2, OneChoice, Zenon
<1>4. Idle("ui") /\ Push("ui", ApplySelection("monitor", ids)) /\ app' = app
  BY <1>1, Zenon DEF Command
<1>5. QED
  BY <1>2, <1>3, <1>4, ChoicesSteady, Zenon

\* The two calls for the page at position (k + 1) \div 2.
LEMMA Halves ==
    ASSUME NEW n \in Nat, NEW k \in 1 .. n + n
    PROVE  /\ (k + 1) \div 2 \in 1 .. n /\ k % 2 \in {0, 1}
           /\ k % 2 = 0 => 2 - (k % 2) = 2
           /\ k % 2 = 1 => 2 - (k % 2) = 1
           /\ k % 2 = 1 => /\ k + 1 \in 1 .. n + n /\ ((k + 1) + 1) \div 2 = (k + 1) \div 2
                           /\ (k + 1) % 2 = 0 /\ 2 - ((k + 1) % 2) = 2
OBVIOUS

LEMMA ManyChoices ==
    ASSUME NEW n \in Nat, NEW on, \A j \in 1 .. n : on[j] \in Monitors,
           NEW ids \in SUBSET MetricIDs,
           NEW s, s = [k \in 1 .. n + n |-> ApplySelection(on[(k + 1) \div 2], ids)[2 - (k % 2)]]
    PROVE  ChoiceList(n, s)
<1>1. ASSUME NEW k \in 1 .. n + n
      PROVE  /\ on[(k + 1) \div 2] \in Monitors
             /\ k % 2 = 0 => s[k] = Call("refresh", on[(k + 1) \div 2], "none")
             /\ k % 2 = 1 => s[k] = Call("choose", on[(k + 1) \div 2], ids)
  <2>1. PICK v : v = on[(k + 1) \div 2]
    OBVIOUS
  <2>2. v \in Monitors
    <3>1. (k + 1) \div 2 \in 1 .. n
      BY Halves, Zenon
    <3>2. QED
      BY <2>1, <3>1, Zenon
  <2>3. s[k] = ApplySelection(v, ids)[2 - (k % 2)]
    BY <2>1
  <2>4. ASSUME k % 2 = 0 PROVE s[k] = Call("refresh", v, "none")
    <3>1. 2 - (k % 2) = 2
      BY <2>4, Halves, Zenon
    <3>2. QED
      BY <2>2, <2>3, <3>1, SelectionCalls, Zenon
  <2>5. ASSUME k % 2 = 1 PROVE s[k] = Call("choose", v, ids)
    <3>1. 2 - (k % 2) = 1
      BY <2>5, Halves, Zenon
    <3>2. QED
      BY <2>2, <2>3, <3>1, SelectionCalls, Zenon
  <2>6. QED
    BY <2>1, <2>2, <2>4, <2>5, Zenon
<1>2. \A k \in 1 .. n + n : k % 2 = 0 \/ k % 2 = 1
  BY Halves
<1>3. \A k \in 1 .. n + n : s[k] \in Calls
  <2>1. TAKE k \in 1 .. n + n
  <2>2. PICK v : v = on[(k + 1) \div 2]
    OBVIOUS
  <2>3. v \in Monitors /\ (s[k] = Call("refresh", v, "none") \/ s[k] = Call("choose", v, ids))
    BY <1>1, <1>2, <2>2, Zenon
  <2>4. QED
    BY <2>3, NewCalls, Zenon
<1>4. s \in Seq(Calls) /\ DOMAIN s = 1 .. n + n
  BY <1>3
<1>5. \A k \in 1 .. n + n : s[k].op \notin Urgent
  <2>1. TAKE k \in 1 .. n + n
  <2>2. PICK v : v = on[(k + 1) \div 2]
    OBVIOUS
  <2>3. s[k] = Call("refresh", v, "none") \/ s[k] = Call("choose", v, ids)
    BY <1>1, <1>2, <2>2, Zenon
  <2>4. "refresh" \notin Urgent /\ "choose" \notin Urgent
    BY DEF Urgent
  <2>5. QED
    BY <2>3, <2>4, CallIs
<1>6. ASSUME NEW k \in 1 .. n + n, s[k].op = "choose"
      PROVE  k + 1 \in 1 .. n + n /\ s[k + 1] = Call("refresh", s[k].on, "none")
  <2>1. PICK v : v = on[(k + 1) \div 2]
    OBVIOUS
  <2>2. k % 2 = 1
    <3>1. Call("refresh", v, "none").op = "refresh" /\ "refresh" # "choose"
      BY CallIs
    <3>2. QED
      BY <1>1, <1>2, <1>6, <2>1, <3>1, Zenon
  <2>3. s[k] = Call("choose", v, ids)
    BY <1>1, <2>1, <2>2, Zenon
  <2>4. s[k].on = v
    BY <2>3, CallIs
  <2>5. k + 1 \in 1 .. n + n /\ ((k + 1) + 1) \div 2 = (k + 1) \div 2 /\ (k + 1) % 2 = 0
    BY <2>2, Halves, Zenon
  <2>6. s[k + 1] = Call("refresh", v, "none")
    BY <1>1, <2>1, <2>5, Zenon
  <2>7. QED
    BY <2>4, <2>5, <2>6
<1>7. QED
  BY <1>4, <1>5, <1>6, Zenon DEF ChoiceList

LEMMA RangedList ==
    ASSUME NEW S, NEW c \in Nat, NEW f \in [1 .. c -> S]
    PROVE  f \in Seq(S) /\ Len(f) = c /\ DOMAIN f = 1 .. c
OBVIOUS

LEMMA CatalogSteady ==
    ASSUME Listed, left.metrics \in SUBSET MetricIDs, left.pages \in SUBSET Pages, SetCatalog
    PROVE  Steady /\ Kept
<1> DEFINE On(page) == IF page = "tune" THEN "live" ELSE page
<1>1. PICK pages \in SetToSeqs(left.pages \ {"logs"}) : \E ids \in SUBSET left.metrics :
        Push("ui", [k \in 1 .. 2 * Len(pages) |->
               ApplySelection(On(pages[(k + 1) \div 2]), ids)[2 - (k % 2)]])
  BY Zenon DEF SetCatalog
<1>2. PICK ids \in SUBSET left.metrics :
        Push("ui", [k \in 1 .. 2 * Len(pages) |->
               ApplySelection(On(pages[(k + 1) \div 2]), ids)[2 - (k % 2)]])
  BY <1>1
<1>3. Idle("ui") /\ app' = app /\ ids \in SUBSET MetricIDs
  BY Zenon DEF SetCatalog
<1>4. PICK n \in Nat : n = Len(pages) /\ DOMAIN pages = 1 .. n /\ \A j \in 1 .. n : pages[j] \in left.pages \ {"logs"}
  <2>1. PICK S, c : S = left.pages \ {"logs"} /\ c = Cardinality(S)
    OBVIOUS
  <2>2. pages \in [1 .. c -> S]
    BY <2>1 DEF SetToSeqs
  <2>3. IsFiniteSet(S) /\ c \in Nat
    <3>1. S \subseteq {"overview", "monitor", "tune", "logs"}
      BY <2>1 DEF Pages
    <3>2. IsFiniteSet({"overview", "monitor", "tune", "logs"})
      <4>1. IsFiniteSet({"overview"}) /\ IsFiniteSet({"monitor"}) /\ IsFiniteSet({"tune"})
            /\ IsFiniteSet({"logs"})
        BY FS_Singleton, Zenon
      <4>2. IsFiniteSet({"overview"} \cup {"monitor"}) /\ IsFiniteSet({"tune"} \cup {"logs"})
        BY <4>1, FS_Union, Zenon
      <4>3. IsFiniteSet(({"overview"} \cup {"monitor"}) \cup ({"tune"} \cup {"logs"}))
        BY <4>2, FS_Union, Zenon
      <4>4. ({"overview"} \cup {"monitor"}) \cup ({"tune"} \cup {"logs"})
              = {"overview", "monitor", "tune", "logs"}
        OBVIOUS
      <4>5. QED
        BY <4>3, <4>4, Zenon
    <3>3. QED
      BY <2>1, <3>1, <3>2, FS_Subset, FS_CardinalityType, Zenon
  <2>4. Len(pages) = c /\ DOMAIN pages = 1 .. c
    BY <2>2, <2>3, RangedList, Zenon
  <2>5. \A j \in 1 .. c : pages[j] \in S
    BY <2>2, Zenon
  <2>6. QED
    BY <2>1, <2>3, <2>4, <2>5, Zenon
<1>5. PICK on : on = [j \in 1 .. n |-> On(pages[j])]
  OBVIOUS
<1>6. \A j \in 1 .. n : on[j] = On(pages[j]) /\ on[j] \in Monitors
  BY <1>4, <1>5 DEF Pages, Monitors
<1> HIDE DEF On
<1>7. [k \in 1 .. 2 * Len(pages) |-> ApplySelection(On(pages[(k + 1) \div 2]), ids)[2 - (k % 2)]]
        = [k \in 1 .. n + n |-> ApplySelection(on[(k + 1) \div 2], ids)[2 - (k % 2)]]
  <2>1. 2 * Len(pages) = n + n
    BY <1>4
  <2>2. ASSUME NEW k \in 1 .. n + n
        PROVE  On(pages[(k + 1) \div 2]) = on[(k + 1) \div 2]
    <3>1. (k + 1) \div 2 \in 1 .. n
      BY Halves, Zenon
    <3>2. QED
      BY <1>6, <3>1, Zenon
  <2>3. QED
    BY <2>1, <2>2, Zenon
<1>8. PICK s : s = [k \in 1 .. n + n |-> ApplySelection(on[(k + 1) \div 2], ids)[2 - (k % 2)]]
  OBVIOUS
<1>9. ChoiceList(n, s)
  BY <1>3, <1>6, <1>8, ManyChoices, Zenon
<1>10. Push("ui", s)
  BY <1>2, <1>7, <1>8, Zenon
<1>11. QED
  BY <1>3, <1>9, <1>10, ChoicesSteady, Zenon

-----------------------------------------------------------------------------
(* Steps that leave the callbacks or the subscriptions alone.              *)

\* No thread comes to, or leaves, an urgent call of these kinds.
LeadsSame(kinds) ==
  \A t \in Threads : Leads'[t] # Leads[t] => Leads[t].op \notin kinds /\ Leads'[t].op \notin kinds

CallbacksRest == UNCHANGED << queue, updates, renewed >> /\ LeadsSame({"dispatch"})

ClosingRests == app'.closing \/ (app.closing <=> app'.closing)

FeedsRest ==
  /\ \A v \in Monitors : (vm'[v].active <=> vm[v].active) /\ vm'[v].handle = vm[v].handle
  /\ \A w \in Workers : /\ subs'[w].owner = subs[w].owner
                        /\ subs'[w].status = "free" => subs[w].status = "free"
                        /\ Opened(w) => Opened(w)'
  /\ UNCHANGED logs /\ LeadsSame({"close", "await"}) /\ ClosingRests

LEMMA NoCallIs == NoCall.op = "none" /\ NoCall.on = "none" /\ NoCall.arg = "none"
BY CallIs DEF NoCall

LEMMA TurnLeads ==
    ASSUME NEW t \in Threads, NEW lead, Turn(t, lead)
    PROVE  Leads'[t] = lead /\ \A u \in Threads \ {t} : Leads'[u] = Leads[u]
<1>1. Leads' = [Leads EXCEPT ![t] = lead]
  BY Zenon DEF Turn
<1>2. t \in DOMAIN Leads /\ DOMAIN Leads = Threads
  BY Zenon DEF Leads
<1>3. QED
  BY <1>1, <1>2, Zenon

LEMMA TurnSame ==
    ASSUME NEW t \in Threads, NEW lead, Turn(t, lead), NEW kinds,
           Leads[t].op \notin kinds, lead.op \notin kinds
    PROVE  LeadsSame(kinds)
BY TurnLeads, Zenon DEF LeadsSame

LEMMA SteadySame ==
    ASSUME Steady, NEW kinds
    PROVE  LeadsSame(kinds)
BY Zenon DEF Steady, LeadsSame

LEMMA CallbacksKept ==
    ASSUME OneCallback, CallbacksRest
    PROVE  OneCallback'
<1>1. queue' = queue /\ updates' = updates /\ renewed' = renewed /\ LeadsSame({"dispatch"})
  BY Zenon DEF CallbacksRest
<1>2. SUFFICES ASSUME NEW d \in Dispatchers PROVE CallbackOf(d)'
  BY Zenon DEF OneCallback
<1>3. CallbackOf(d)
  BY Zenon DEF OneCallback
<1>4. \A k : InQueue(d, k) <=> InQueue(d, k)'
  BY <1>1, Zenon DEF InQueue
<1>5. \A t \in Threads : InHand(d, t) <=> InHand(d, t)'
  <2>1. TAKE t \in Threads
  <2>2. Call("dispatch", d, updates[d].epoch).op \in {"dispatch"}
    BY CallIs
  <2>3. CASE Leads'[t] = Leads[t]
    BY <1>1, <2>3, Zenon DEF InHand
  <2>4. CASE Leads'[t] # Leads[t]
    <3>1. Leads[t].op \notin {"dispatch"} /\ Leads'[t].op \notin {"dispatch"}
      BY <1>1, <2>4, Zenon DEF LeadsSame
    <3>2. Leads[t] # Call("dispatch", d, updates[d].epoch) /\ Leads'[t] # Call("dispatch", d, updates[d].epoch)
      BY <2>2, <3>1, Zenon
    <3>3. QED
      BY <1>1, <3>2, Zenon DEF InHand
  <2>5. QED
    BY <2>3, <2>4
<1>6. \A t \in Threads : Leads'[t].op = "dispatch" => Leads'[t] = Leads[t]
  BY <1>1, Zenon DEF LeadsSame
<1>7. /\ updates[d].pending => updates[d].active /\ renewed[d]
      /\ updates[d].pending =>
           (\E k \in 1 .. Len(queue) : InQueue(d, k)) \/ \E t \in Threads : InHand(d, t)
      /\ \A k \in 1 .. Len(queue) : InQueue(d, k) => updates[d].pending
      /\ \A t \in Threads : InHand(d, t) => updates[d].pending
      /\ \A j, k \in 1 .. Len(queue) : InQueue(d, j) /\ InQueue(d, k) => j = k
      /\ \A t, u \in Threads : InHand(d, t) /\ InHand(d, u) => t = u
      /\ \A k \in 1 .. Len(queue), t \in Threads : ~(InQueue(d, k) /\ InHand(d, t))
      /\ \A k \in 1 .. Len(queue) : queue[k].on = d => queue[k].epoch <= updates[d].epoch
      /\ \A t \in Threads : Leads[t].op = "dispatch" /\ Leads[t].on = d =>
           Leads[t].arg <= updates[d].epoch
  BY <1>3, Zenon DEF CallbackOf
<1>8. /\ updates'[d].pending => updates'[d].active /\ renewed'[d]
      /\ updates'[d].pending =>
           (\E k \in 1 .. Len(queue') : InQueue(d, k)') \/ \E t \in Threads : InHand(d, t)'
      /\ \A k \in 1 .. Len(queue') : InQueue(d, k)' => updates'[d].pending
      /\ \A t \in Threads : InHand(d, t)' => updates'[d].pending
  BY <1>1, <1>4, <1>5, <1>7, Zenon
<1>9. /\ \A j, k \in 1 .. Len(queue') : InQueue(d, j)' /\ InQueue(d, k)' => j = k
      /\ \A t, u \in Threads : InHand(d, t)' /\ InHand(d, u)' => t = u
      /\ \A k \in 1 .. Len(queue'), t \in Threads : ~(InQueue(d, k)' /\ InHand(d, t)')
  BY <1>1, <1>4, <1>5, <1>7, Zenon
<1>10. /\ \A k \in 1 .. Len(queue') : queue'[k].on = d => queue'[k].epoch <= updates'[d].epoch
       /\ \A t \in Threads : Leads'[t].op = "dispatch" /\ Leads'[t].on = d =>
            Leads'[t].arg <= updates'[d].epoch
  BY <1>1, <1>6, <1>7, Zenon
<1>11. QED
  BY <1>8, <1>9, <1>10, Zenon DEF CallbackOf

LEMMA WaitingSame ==
    ASSUME LeadsSame({"close", "await"}), NEW t \in Threads, NEW v, NEW w
    PROVE  /\ Waiting(t, v, w) <=> Waiting(t, v, w)'
           /\ Closing(t, w) <=> Closing(t, w)'
<1>1. /\ Call("close", v, w).op \in {"close", "await"} /\ Call("await", v, w).op \in {"close", "await"}
      /\ Call("close", "logs", w).op \in {"close", "await"}
  BY CallIs
<1>2. CASE Leads'[t] = Leads[t]
  BY <1>2, Zenon DEF Waiting, Closing, Waits, Closes
<1>3. CASE Leads'[t] # Leads[t]
  <2>1. Leads[t].op \notin {"close", "await"} /\ Leads'[t].op \notin {"close", "await"}
    BY <1>3, Zenon DEF LeadsSame
  <2>2. /\ Leads[t] \notin {Call("close", v, w), Call("await", v, w), Call("close", "logs", w)}
        /\ Leads'[t] \notin {Call("close", v, w), Call("await", v, w), Call("close", "logs", w)}
    BY <1>1, <2>1
  <2>3. QED
    BY <2>2, Zenon DEF Waiting, Closing, Waits, Closes
<1>4. QED
  BY <1>2, <1>3

LEMMA FeedsKept ==
    ASSUME Claims, LogsKept, FeedsRest, logs.active => logs.handle \in Workers
    PROVE  Claims' /\ LogsKept'
<1>1. /\ \A v \in Monitors, w \in Workers : Has(v, w) <=> Has(v, w)'
      /\ \A v \in Monitors : vm'[v].active <=> vm[v].active
  BY Zenon DEF FeedsRest, Has
<1>2. \A w \in Workers : /\ subs'[w].owner = subs[w].owner
                         /\ subs'[w].status = "free" => subs[w].status = "free"
                         /\ Opened(w) => Opened(w)'
  BY Zenon DEF FeedsRest
<1>3. \A t \in Threads : \A v, w : /\ Waiting(t, v, w) <=> Waiting(t, v, w)'
                                   /\ Closing(t, w) <=> Closing(t, w)'
  BY WaitingSame, Zenon DEF FeedsRest
<1>4. logs' = logs /\ (app'.closing \/ (app.closing <=> app'.closing))
  BY Zenon DEF FeedsRest, ClosingRests
<1>5. Claims'
  <2>1. \A w \in Workers : subs'[w].status = "free" => subs'[w].owner = "none"
    BY <1>2, Zenon DEF Claims
  <2>2. \A v \in Monitors, w \in Workers : Has(v, w)' => subs'[w].owner = v
    BY <1>1, <1>2, Zenon DEF Claims
  <2>3. ASSUME NEW t \in Threads, NEW v \in Monitors, NEW w \in Workers, Waiting(t, v, w)'
        PROVE  subs'[w].owner = v /\ ~Has(v, w)'
    <3>1. Waiting(t, v, w)
      BY <1>3, <2>3, Zenon
    <3>2. subs[w].owner = v /\ ~Has(v, w)
      BY <3>1, Zenon DEF Claims
    <3>3. QED
      BY <1>1, <1>2, <3>2, Zenon
  <2>4. \A t, u \in Threads, v \in Monitors, w \in Workers :
          Waiting(t, v, w)' /\ Waiting(u, v, w)' => t = u
    BY <1>3, SMT DEF Claims
  <2>5. ASSUME NEW w \in Workers, subs'[w].owner \in Monitors
        PROVE  Has(subs[w].owner, w)' \/ \E t \in Threads : Waiting(t, subs[w].owner, w)'
    <3>1. subs[w].owner \in Monitors
      BY <1>2, <2>5, Zenon
    <3>2. Has(subs[w].owner, w) \/ \E t \in Threads : Waiting(t, subs[w].owner, w)
      BY <3>1, Zenon DEF Claims
    <3>3. PICK v : v = subs[w].owner
      OBVIOUS
    <3>4. Has(v, w)' \/ \E t \in Threads : Waiting(t, v, w)'
      BY <1>1, <1>3, <3>1, <3>2, <3>3, Zenon
    <3>5. subs'[w].owner = v
      BY <1>2, <3>3, Zenon
    <3>6. QED
      BY <3>4, <3>5, Zenon
  <2>6. ~app'.closing => \A v \in Monitors, w \in Workers : Waiting("ui", v, w)' => ~vm'[v].active
    <3>1. "ui" \in Threads
      BY DEF Threads
    <3>2. QED
      BY <1>1, <1>3, <1>4, <3>1, Zenon DEF Claims
  <2>7. QED
    BY <2>1, <2>2, <2>3, <2>4, <2>5, <2>6, Zenon DEF Claims
<1>6. LogsKept'
  <2>1. logs'.active => Opened(logs.handle)'
    BY <1>2, <1>4, Zenon DEF LogsKept
  <2>2. \A t \in Threads, w \in Workers : Closing(t, w)' =>
          Opened(w)' /\ ~(logs'.active /\ logs'.handle = w)
    BY <1>2, <1>3, <1>4, Zenon DEF LogsKept
  <2>3. \A t, u \in Threads, w \in Workers : Closing(t, w)' /\ Closing(u, w)' => t = u
    BY <1>3, Zenon DEF LogsKept
  <2>4. QED
    BY <1>4, <2>1, <2>2, <2>3, Zenon DEF LogsKept
<1>7. QED
  BY <1>5, <1>6

LEMMA FeedsUnmoved ==
    ASSUME UNCHANGED << vm, subs, logs >>, LeadsSame({"close", "await"}), ClosingRests
    PROVE  FeedsRest
BY Zenon DEF FeedsRest, Opened

-----------------------------------------------------------------------------
(* Types of what the steps make.                                           *)

LEMMA ExceptIs ==
    ASSUME NEW S, NEW T, NEW f \in [S -> T], NEW x \in S, NEW y \in T
    PROVE  /\ [f EXCEPT ![x] = y] \in [S -> T]
           /\ [f EXCEPT ![x] = y][x] = y
           /\ \A z \in S \ {x} : [f EXCEPT ![x] = y][z] = f[z]
OBVIOUS

LEMMA ViewTypes ==
    ASSUME late \in [Dispatchers -> BOOLEAN], NEW d \in Dispatchers, NEW t, NEW heard, View(d, t, heard)
    PROVE  late' \in [Dispatchers -> BOOLEAN]
<1>1. late' = [late EXCEPT ![d] = ~heard \/ Holding(d, t)]
  BY Zenon DEF View
<1>2. (~heard \/ Holding(d, t)) \in BOOLEAN
  BY Zenon
<1>3. QED
  BY <1>1, <1>2, ExceptIs, Zenon

LEMMA NewSubscription ==
    ASSUME NEW v \in Monitors \cup {"logs"}, NEW ids \in SUBSET MetricIDs, NEW b \in BOOLEAN
    PROVE  /\ Subscription(v, ids, b) \in WindowSubscriptions
           /\ Subscription(v, ids, b).status = "running" /\ Subscription(v, ids, b).owner = v
           /\ Subscription(v, ids, b).open = b /\ Subscription(v, ids, b).box = << >>
BY DEF Subscription, WindowSubscriptions

LEMMA FreeIs ==
  /\ FreeSubscription \in WindowSubscriptions
  /\ FreeSubscription.status = "free" /\ FreeSubscription.owner = "none"
  /\ FreeSubscription.box = << >> /\ ~FreeSubscription.open
<1>1. PICK b \in BOOLEAN : b = FALSE
  OBVIOUS
<1>2. PICK s : s = [status |-> "free", owner |-> "none", metrics |-> {}, open |-> b, box |-> << >>]
  OBVIOUS
<1>3. FreeSubscription = s
  BY <1>1, <1>2, Zenon DEF FreeSubscription
<1>4. /\ s \in WindowSubscriptions /\ s.status = "free" /\ s.owner = "none" /\ s.box = << >> /\ s.open = b
  BY <1>2 DEF WindowSubscriptions
<1>5. QED
  BY <1>1, <1>3, <1>4

LEMMA SubscriptionIs ==
    ASSUME subs \in [Workers -> WindowSubscriptions], NEW w \in Workers
    PROVE  /\ subs[w] \in WindowSubscriptions /\ subs[w].open \in BOOLEAN
           /\ subs[w].box \in Seq(Frames \cup Nat)
           /\ subs[w].status \in {"free", "starting", "running", "done"}
           /\ subs[w].owner \in Monitors \cup {"logs", "none"}
<1>1. subs[w] \in WindowSubscriptions
  OBVIOUS
<1>2. QED
  BY <1>1 DEF WindowSubscriptions

LEMMA ModelWith ==
    ASSUME NEW m \in MonitorModels, NEW ids \in SUBSET MetricIDs
    PROVE  /\ [m EXCEPT !.metrics = ids] \in MonitorModels
           /\ [m EXCEPT !.metrics = ids].active = m.active /\ [m EXCEPT !.metrics = ids].handle = m.handle
           /\ [m EXCEPT !.metrics = ids].current = m.current /\ [m EXCEPT !.metrics = ids].rings = m.rings
BY DEF MonitorModels

LEMMA ConsumedIs ==
    ASSUME NEW m \in MonitorModels, NEW samples \in Frames
    PROVE  /\ Consumed(m, samples) \in MonitorModels
           /\ Consumed(m, samples).active = m.active /\ Consumed(m, samples).handle = m.handle
           /\ Consumed(m, samples).metrics = m.metrics
           /\ Consumed(m, samples).rings =
                [id \in MetricIDs |-> IF id \in DOMAIN samples /\ samples[id].good
                                      THEN Appended(m.rings[id], samples[id]) ELSE m.rings[id]]
<1>1. PICK ids \in SUBSET MetricIDs : samples \in [ids -> Samples]
  BY DEF Frames
<1>2. PICK current, rings :
        /\ current = [id \in MetricIDs |-> IF id \in DOMAIN samples THEN samples[id] ELSE m.current[id]]
        /\ rings = [id \in MetricIDs |-> IF id \in DOMAIN samples /\ samples[id].good
                                         THEN Appended(m.rings[id], samples[id]) ELSE m.rings[id]]
  BY Zenon
<1>3. m.current \in [MetricIDs -> Samples] /\ m.rings \in [MetricIDs -> Rings]
  BY DEF MonitorModels
<1>4. current \in [MetricIDs -> Samples]
  BY <1>1, <1>2, <1>3
<1>5. rings \in [MetricIDs -> Rings]
  <2>1. ASSUME NEW id \in MetricIDs
        PROVE  rings[id] \in Rings
    <3>1. m.rings[id] \in Rings
      BY <1>3
    <3>2. CASE id \in DOMAIN samples /\ samples[id].good
      <4>1. rings[id] = Appended(m.rings[id], samples[id])
        BY <1>2, <3>2, Zenon
      <4>2. samples[id] \in Samples
        BY <1>1, <3>2
      <4>3. QED
        BY <3>1, <4>1, <4>2, AppendedIs, Zenon
    <3>3. CASE ~(id \in DOMAIN samples /\ samples[id].good)
      BY <1>2, <3>1, <3>3, Zenon
    <3>4. QED
      BY <3>2, <3>3
  <2>2. QED
    BY <1>2, <2>1, Zenon
<1>6. Consumed(m, samples) = [m EXCEPT !.current = current, !.rings = rings]
  BY <1>2, Zenon DEF Consumed
<1>7. PICK c : c = [m EXCEPT !.current = current, !.rings = rings]
  OBVIOUS
<1>8. /\ c \in MonitorModels /\ c.active = m.active /\ c.handle = m.handle
      /\ c.metrics = m.metrics /\ c.rings = rings
  BY <1>4, <1>5, <1>7 DEF MonitorModels
<1>9. QED
  BY <1>2, <1>6, <1>7, <1>8, Zenon

LEMMA NewModel ==
    ASSUME NEW ids \in SUBSET MetricIDs
    PROVE  /\ NewMonitor(ids) \in MonitorModels /\ ~NewMonitor(ids).active
           /\ NewMonitor(ids).handle = "none"
           /\ \A id \in MetricIDs : Snapshot(NewMonitor(ids).rings[id]) = << >>
<1>1. PICK b \in BOOLEAN : b = FALSE
  OBVIOUS
<1>2. PICK current, rings : /\ current = [id \in MetricIDs |-> NoSample]
                            /\ rings = [id \in MetricIDs |-> NewRing(HistoryCapacity, NoSample)]
  OBVIOUS
<1>3. current \in [MetricIDs -> Samples]
  <2>1. NoSample \in Samples
    BY DEF NoSample, Samples
  <2>2. QED
    BY <1>2, <2>1
<1>4. rings \in [MetricIDs -> Rings] /\ \A id \in MetricIDs : Snapshot(rings[id]) = << >>
  BY <1>2, NewRingIs, Zenon
<1>5. PICK m : m = [active |-> b, metrics |-> ids, handle |-> "none", current |-> current, rings |-> rings]
  OBVIOUS
<1>6. NewMonitor(ids) = m
  BY <1>1, <1>2, <1>5, Zenon DEF NewMonitor
<1>7. m \in MonitorModels /\ m.active = b /\ m.handle = "none" /\ m.rings = rings
  BY <1>3, <1>4, <1>5 DEF MonitorModels
<1>8. QED
  BY <1>1, <1>4, <1>6, <1>7, Zenon

LEMMA AppendTyped ==
    ASSUME NEW S, NEW s \in Seq(S), NEW x \in S
    PROVE  /\ Append(s, x) \in Seq(S) /\ Len(Append(s, x)) = Len(s) + 1
           /\ Append(s, x)[Len(s) + 1] = x /\ \A k \in 1 .. Len(s) : Append(s, x)[k] = s[k]
OBVIOUS

LEMMA NewestOf ==
    ASSUME NEW S, NEW s \in Seq(S), NEW n \in Nat
    PROVE  /\ Newest(s, n) \in Seq(S)
           /\ \E k \in Nat : /\ k + Len(Newest(s, n)) = Len(s)
                             /\ \A i \in 1 .. Len(Newest(s, n)) : Newest(s, n)[i] = s[k + i]
<1>1. CASE Len(s) <= n
  <2>1. Newest(s, n) = s
    BY <1>1, Zenon DEF Newest
  <2>2. 0 \in Nat /\ 0 + Len(s) = Len(s) /\ \A i \in 1 .. Len(s) : s[i] = s[0 + i]
    OBVIOUS
  <2>3. QED
    BY <2>1, <2>2, Zenon
<1>2. CASE ~(Len(s) <= n)
  <2>1. PICK k \in Nat : k = Len(s) - n
    BY <1>2
  <2>2. PICK r : r = SubSeq(s, k + 1, k + n)
    OBVIOUS
  <2>3. Newest(s, n) = r
    <3>1. Len(s) - n + 1 = k + 1 /\ Len(s) = k + n
      BY <2>1
    <3>2. QED
      BY <1>2, <2>2, <3>1, Zenon DEF Newest
  <2>4. r \in Seq(S) /\ Len(r) = n /\ \A i \in 1 .. n : r[i] = s[k + i]
    BY <2>1, <2>2
  <2>5. k + Len(r) = Len(s)
    BY <2>1, <2>4
  <2>6. QED
    BY <2>3, <2>4, <2>5, Zenon
<1>3. QED
  BY <1>1, <1>2

Known == PagesTypes /\ Shape /\ Roles

LEMMA KnownIs ==
    ASSUME Known
    PROVE  /\ Listed /\ todo \in [Threads -> Seq(Calls)]
           /\ ScreenTypes /\ FeedTypes /\ LogTypes /\ FrameTypes
           /\ queue \in Seq([on : Dispatchers, epoch : Nat])
           /\ updates \in [Dispatchers -> LatestDispatchers]
           /\ shown \in [Dispatchers -> Views]
           /\ late \in [Dispatchers -> BOOLEAN] /\ renewed \in [Dispatchers -> BOOLEAN]
           /\ vm \in [Monitors -> MonitorModels]
           /\ \A v \in Monitors : vm[v].active => vm[v].handle \in Workers
           /\ subs \in [Workers -> WindowSubscriptions]
           /\ received \in [Monitors -> [MetricIDs -> Seq(Samples)]]
           /\ store \in Seq(Nat) /\ logs \in [active : BOOLEAN, handle : Workers \cup {"none"}]
           /\ logs.active => logs.handle \in Workers
           /\ tune \in TuneModels
           /\ nav \in [selected : Pages \cup {"none"}, monitorActive : BOOLEAN]
           /\ app \in [closing : BOOLEAN, stopped : BOOLEAN] /\ left \in Inputs /\ clock \in Nat
<1>1. PagesTypes /\ Shape /\ Roles
  BY DEF Known
<1>2. ScreenTypes /\ FeedTypes /\ LogTypes /\ FrameTypes /\ todo \in [Threads -> Seq(Calls)]
  BY <1>1, Zenon DEF PagesTypes
<1>3. Listed
  BY <1>1, <1>2, Zenon DEF Listed
<1>4. QED
  BY <1>2, <1>3, Zenon DEF ScreenTypes, FeedTypes, LogTypes, FrameTypes

LEMMA InputsAre ==
    ASSUME left \in Inputs
    PROVE  /\ left.pages \in SUBSET Pages /\ left.metrics \in SUBSET MetricIDs
           /\ left.values \in SUBSET Int
           /\ left.samples \in Nat /\ left.commands \in Nat /\ left.changes \in Nat
           /\ left.events \in Nat /\ left.catalogs \in Nat /\ left.closes \in Nat
BY DEF Inputs

LEMMA TypesKept ==
    ASSUME Known
    PROVE  /\ UNCHANGED << screen, late >> => ScreenTypes'
           /\ UNCHANGED feeds => FeedTypes'
           /\ UNCHANGED tuning => LogTypes'
           /\ UNCHANGED frame => FrameTypes'
<1>1. UNCHANGED << screen, late >> => ScreenTypes'
  BY KnownIs, Zenon DEF ScreenTypes, screen
<1>2. UNCHANGED feeds => FeedTypes'
  BY KnownIs, Zenon DEF FeedTypes, feeds
<1>3. UNCHANGED tuning => LogTypes'
  BY KnownIs, Zenon DEF LogTypes, tuning
<1>4. UNCHANGED frame => FrameTypes'
  BY KnownIs, Zenon DEF FrameTypes, frame
<1>5. QED
  BY <1>1, <1>2, <1>3, <1>4

LEMMA TypesTogether ==
    ASSUME todo' \in [Threads -> Seq(Calls)], ScreenTypes', FeedTypes', LogTypes', FrameTypes'
    PROVE  PagesTypes'
BY Zenon DEF PagesTypes

-----------------------------------------------------------------------------
(* Dispatchers.                                                            *)

LEMMA DispatcherSteps ==
    ASSUME NEW u \in LatestDispatchers, NEW x \in Views
    PROVE  /\ Submitted(u, x) \in LatestDispatchers /\ Taken(u) \in LatestDispatchers
           /\ Cancelled(u) \in LatestDispatchers /\ Resumed(u) \in LatestDispatchers
<1>1. PICK b, c \in BOOLEAN : b = TRUE /\ c = FALSE
  OBVIOUS
<1>2. /\ u.latest \in Views /\ u.pending \in BOOLEAN /\ u.active \in BOOLEAN /\ u.epoch \in Nat
      /\ u = [latest |-> u.latest, pending |-> u.pending, active |-> u.active, epoch |-> u.epoch]
  BY DEF LatestDispatchers
<1>3. [u EXCEPT !.latest = x, !.pending = b] \in LatestDispatchers
  BY <1>1, <1>2 DEF LatestDispatchers
<1>4. [u EXCEPT !.pending = c] \in LatestDispatchers
  BY <1>1, <1>2 DEF LatestDispatchers
<1>5. [u EXCEPT !.active = c, !.pending = c, !.epoch = u.epoch + 1] \in LatestDispatchers
  <2>1. PICK n \in Nat : n = u.epoch + 1
    BY <1>2
  <2>2. [u EXCEPT !.active = c, !.pending = c, !.epoch = n] \in LatestDispatchers
    BY <1>1, <1>2, <2>1 DEF LatestDispatchers
  <2>3. QED
    BY <2>1, <2>2
<1>6. [u EXCEPT !.active = b] \in LatestDispatchers
  BY <1>1, <1>2 DEF LatestDispatchers
<1>7. Submitted(u, x) \in LatestDispatchers
  <2>1. Submitted(u, x) = [u EXCEPT !.latest = x, !.pending = b] \/ Submitted(u, x) = u
    BY <1>1, Zenon DEF Submitted
  <2>2. QED
    BY <1>3, <2>1, Zenon
<1>8. Taken(u) \in LatestDispatchers
  BY <1>1, <1>4, Zenon DEF Taken
<1>9. Cancelled(u) \in LatestDispatchers
  BY <1>1, <1>5, Zenon DEF Cancelled
<1>10. Resumed(u) \in LatestDispatchers
  BY <1>1, <1>6, Zenon DEF Resumed
<1>11. QED
  BY <1>7, <1>8, <1>9, <1>10

LEMMA SubmitTypes ==
    ASSUME Known, NEW t \in Threads, Submit(t)
    PROVE  PagesTypes'
<1>1. PICK d : d = Now(t).on
  OBVIOUS
<1>2. /\ updates' = [updates EXCEPT ![d] = Submitted(updates[d], Now(t).arg)]
      /\ renewed' = [renewed EXCEPT ![d] = renewed[d] \/ updates[d].active]
      /\ late' = [late EXCEPT ![d] = late[d] \/ ~updates[d].active]
      /\ UNCHANGED << queue, shown, feeds, tuning, frame >>
  BY <1>1, Zenon DEF Submit
<1>3. d \in Dispatchers /\ Now(t).arg \in Views /\ todo' \in [Threads -> Seq(Calls)]
  BY <1>1, SubmitTurns, KnownIs, Zenon DEF Turn
<1>4. updates' \in [Dispatchers -> LatestDispatchers]
  <2>1. updates[d] \in LatestDispatchers /\ updates[d].latest \in Views
    BY <1>3, KnownIs, DispatcherIs, Zenon
  <2>2. Submitted(updates[d], Now(t).arg) \in LatestDispatchers
    BY <1>3, <2>1, DispatcherSteps, Zenon
  <2>3. QED
    BY <1>2, <1>3, <2>2, KnownIs, ExceptIs, Zenon
<1>5. renewed' \in [Dispatchers -> BOOLEAN] /\ late' \in [Dispatchers -> BOOLEAN]
  <2>1. (renewed[d] \/ updates[d].active) \in BOOLEAN /\ (late[d] \/ ~updates[d].active) \in BOOLEAN
    BY Zenon
  <2>2. QED
    BY <1>2, <1>3, <2>1, KnownIs, ExceptIs, Zenon
<1>6. ScreenTypes'
  BY <1>2, <1>4, <1>5, KnownIs, Zenon DEF ScreenTypes
<1>7. QED
  BY <1>2, <1>3, <1>6, TypesKept, TypesTogether, Zenon

LEMMA DispatchTypes ==
    ASSUME Known, NEW t \in Threads, Dispatch(t)
    PROVE  PagesTypes'
<1>1. /\ queue' = Append(queue, [on |-> Now(t).on, epoch |-> Now(t).arg])
      /\ UNCHANGED << updates, shown, renewed, feeds, tuning, frame, late >>
  BY Zenon DEF Dispatch
<1>2. Now(t).on \in Dispatchers /\ Now(t).arg \in Nat /\ todo' \in [Threads -> Seq(Calls)]
  BY DispatchTurns, KnownIs, Zenon DEF Turn
<1>3. queue' \in Seq([on : Dispatchers, epoch : Nat])
  <2>1. [on |-> Now(t).on, epoch |-> Now(t).arg] \in [on : Dispatchers, epoch : Nat]
    BY <1>2
  <2>2. QED
    BY <1>1, <2>1, KnownIs, AppendTyped, Zenon
<1>4. ScreenTypes'
  BY <1>1, <1>3, KnownIs, Zenon DEF ScreenTypes
<1>5. QED
  BY <1>1, <1>2, <1>4, TypesKept, TypesTogether, Zenon

LEMMA CallbackTypes ==
    ASSUME Known, RunCallback
    PROVE  PagesTypes'
<1>1. PICK d, e : d = Head(queue).on /\ e = Head(queue).epoch
  OBVIOUS
<1>2. /\ updates' = [updates EXCEPT ![d] = IF Renders(updates[d], e) THEN Taken(updates[d]) ELSE updates[d]]
      /\ queue' = Tail(queue) /\ queue # << >>
      /\ UNCHANGED << shown, renewed, feeds, tuning, frame, late >>
  BY <1>1, Zenon DEF RunCallback
<1>3. d \in Dispatchers /\ todo' \in [Threads -> Seq(Calls)]
  BY <1>1, CallbackTurns, KnownIs, Zenon DEF Turn
<1>4. updates' \in [Dispatchers -> LatestDispatchers]
  <2>1. updates[d] \in LatestDispatchers /\ updates[d].latest \in Views
    BY <1>3, KnownIs, DispatcherIs, Zenon
  <2>2. (IF Renders(updates[d], e) THEN Taken(updates[d]) ELSE updates[d]) \in LatestDispatchers
    BY <2>1, DispatcherSteps, Zenon
  <2>3. QED
    BY <1>2, <1>3, <2>2, KnownIs, ExceptIs, Zenon
<1>5. queue' \in Seq([on : Dispatchers, epoch : Nat])
  BY <1>2, KnownIs, QueueParts, Zenon
<1>6. ScreenTypes'
  BY <1>2, <1>4, <1>5, KnownIs, Zenon DEF ScreenTypes
<1>7. QED
  BY <1>2, <1>3, <1>6, TypesKept, TypesTogether, Zenon

LEMMA RenderTypes ==
    ASSUME Known, Render
    PROVE  PagesTypes'
<1>1. /\ shown' = [shown EXCEPT ![Now("ui").on] = Now("ui").arg]
      /\ UNCHANGED << queue, updates, renewed, feeds, tuning, frame, late >>
  BY Zenon DEF Render
<1>2. Now("ui").on \in Dispatchers /\ Now("ui").arg \in Views /\ todo' \in [Threads -> Seq(Calls)]
  BY RenderTurns, KnownIs, Zenon DEF Turn
<1>3. shown' \in [Dispatchers -> Views]
  BY <1>1, <1>2, KnownIs, ExceptIs, Zenon
<1>4. ScreenTypes'
  BY <1>1, <1>3, KnownIs, Zenon DEF ScreenTypes
<1>5. QED
  BY <1>1, <1>2, <1>4, TypesKept, TypesTogether, Zenon

LEMMA RefreshTypes ==
    ASSUME Known, Refresh
    PROVE  PagesTypes'
<1>1. PICK v : v = Now("ui").on
  OBVIOUS
<1>2. /\ shown' = [shown EXCEPT ![v] = StateOf(IF v = "live" THEN NewMonitor({}) ELSE vm[v])]
      /\ late' = [late EXCEPT ![v] = v = "live" \/ updates[v].pending \/ Holding(v, "ui")]
      /\ UNCHANGED << queue, updates, renewed, feeds, tuning, frame >>
  BY <1>1, Zenon DEF Refresh
<1>3. v \in Monitors /\ todo' \in [Threads -> Seq(Calls)]
  BY <1>1, RefreshSteady, KnownIs, Zenon DEF Steady
<1>4. v \in Dispatchers
  BY <1>3 DEF Dispatchers
<1>5. (IF v = "live" THEN NewMonitor({}) ELSE vm[v]) \in MonitorModels
  <2>1. {} \in SUBSET MetricIDs
    OBVIOUS
  <2>2. NewMonitor({}) \in MonitorModels
    BY <2>1, NewModel, Zenon
  <2>3. QED
    BY <1>3, <2>2, KnownIs, ModelIs, Zenon
<1>6. shown' \in [Dispatchers -> Views]
  <2>1. StateOf(IF v = "live" THEN NewMonitor({}) ELSE vm[v]) \in Views
    BY <1>5, StateIs, Zenon
  <2>2. QED
    BY <1>2, <1>4, <2>1, KnownIs, ExceptIs, Zenon
<1>7. late' \in [Dispatchers -> BOOLEAN]
  <2>1. (v = "live" \/ updates[v].pending \/ Holding(v, "ui")) \in BOOLEAN
    BY Zenon
  <2>2. QED
    BY <1>2, <1>4, <2>1, KnownIs, ExceptIs, Zenon
<1>8. ScreenTypes'
  BY <1>2, <1>6, <1>7, KnownIs, Zenon DEF ScreenTypes
<1>9. QED
  BY <1>2, <1>3, <1>8, TypesKept, TypesTogether, Zenon

LEMMA CancelTypes ==
    ASSUME Known, NEW t \in Threads, CancelUpdates(t)
    PROVE  PagesTypes'
<1>1. PICK d : d = Now(t).on
  OBVIOUS
<1>2. /\ updates' = [updates EXCEPT ![d] = Cancelled(updates[d])]
      /\ renewed' = [renewed EXCEPT ![d] = FALSE]
      /\ late' = [late EXCEPT ![d] = TRUE]
      /\ UNCHANGED << queue, shown, feeds, tuning, frame >> /\ At(t, "cancel")
  BY <1>1, Zenon DEF CancelUpdates
<1>3. d \in Dispatchers
  <2>1. Now(t) \in Calls /\ Now(t).op = "cancel"
    BY <1>2, KnownIs, AtHead, Zenon
  <2>2. QED
    BY <1>1, <2>1, CallsAre
<1>4. todo' \in [Threads -> Seq(Calls)]
  BY KnownIs, CancelSteady, Zenon DEF Steady
<1>5. updates' \in [Dispatchers -> LatestDispatchers]
  <2>1. updates[d] \in LatestDispatchers /\ updates[d].latest \in Views
    BY <1>3, KnownIs, DispatcherIs, Zenon
  <2>2. Cancelled(updates[d]) \in LatestDispatchers
    BY <1>3, <2>1, DispatcherSteps, Zenon
  <2>3. QED
    BY <1>2, <1>3, <2>2, KnownIs, ExceptIs, Zenon
<1>6. renewed' \in [Dispatchers -> BOOLEAN] /\ late' \in [Dispatchers -> BOOLEAN]
  <2>1. TRUE \in BOOLEAN /\ FALSE \in BOOLEAN
    OBVIOUS
  <2>2. QED
    BY <1>2, <1>3, <2>1, KnownIs, ExceptIs, Zenon
<1>7. ScreenTypes'
  BY <1>2, <1>5, <1>6, KnownIs, Zenon DEF ScreenTypes
<1>8. QED
  BY <1>2, <1>4, <1>7, TypesKept, TypesTogether, Zenon

LEMMA ResumeTypes ==
    ASSUME Known, NEW t \in Threads, ResumeUpdates(t)
    PROVE  PagesTypes'
<1>1. PICK d : d = Now(t).on
  OBVIOUS
<1>2. /\ updates' = [updates EXCEPT ![d] = Resumed(updates[d])]
      /\ UNCHANGED << queue, shown, renewed, feeds, tuning, frame, late >> /\ At(t, "resume")
  BY <1>1, Zenon DEF ResumeUpdates
<1>3. d \in Dispatchers
  <2>1. Now(t) \in Calls /\ Now(t).op = "resume"
    BY <1>2, KnownIs, AtHead, Zenon
  <2>2. QED
    BY <1>1, <2>1, CallsAre
<1>4. todo' \in [Threads -> Seq(Calls)]
  BY KnownIs, ResumeSteady, Zenon DEF Steady
<1>5. updates' \in [Dispatchers -> LatestDispatchers]
  <2>1. updates[d] \in LatestDispatchers /\ updates[d].latest \in Views
    BY <1>3, KnownIs, DispatcherIs, Zenon
  <2>2. Resumed(updates[d]) \in LatestDispatchers
    BY <1>3, <2>1, DispatcherSteps, Zenon
  <2>3. QED
    BY <1>2, <1>3, <2>2, KnownIs, ExceptIs, Zenon
<1>6. ScreenTypes'
  BY <1>2, <1>5, KnownIs, Zenon DEF ScreenTypes
<1>7. QED
  BY <1>2, <1>4, <1>6, TypesKept, TypesTogether, Zenon

-----------------------------------------------------------------------------
(* Subscriptions and view models.                                          *)

Framed(s) == s.owner \in Monitors /\ s.box # << >> => s.box[1] \in Frames

LEMMA SubsWith ==
    ASSUME Known, NEW w \in Workers, NEW s \in WindowSubscriptions, Framed(s),
           subs' = [subs EXCEPT ![w] = s]
    PROVE  /\ subs' \in [Workers -> WindowSubscriptions] /\ \A u \in Workers : Framed(subs'[u])
           /\ subs'[w] = s /\ \A u \in Workers \ {w} : subs'[u] = subs[u]
<1>1. subs' \in [Workers -> WindowSubscriptions] /\ subs'[w] = s /\ \A u \in Workers \ {w} : subs'[u] = subs[u]
  BY KnownIs, ExceptIs, SMT
<1>2. \A u \in Workers : Framed(subs[u])
  BY KnownIs, Zenon DEF FeedTypes, Framed
<1>3. QED
  BY <1>1, <1>2, Zenon

LEMMA ModelsWith ==
    ASSUME vm \in [Monitors -> MonitorModels], NEW v \in Monitors, NEW m \in MonitorModels,
           vm' = [vm EXCEPT ![v] = m]
    PROVE  /\ vm' \in [Monitors -> MonitorModels]
           /\ vm'[v] = m /\ \A x \in Monitors \ {v} : vm'[x] = vm[x]
OBVIOUS

LEMMA FramedIs ==
    ASSUME Known, NEW w \in Workers
    PROVE  Framed(subs[w]) /\ subs[w] \in WindowSubscriptions
BY KnownIs, Zenon DEF FeedTypes, Framed

LEMMA FeedsTyped ==
    ASSUME vm' \in [Monitors -> MonitorModels],
           \A v \in Monitors : vm'[v].active => vm'[v].handle \in Workers,
           subs' \in [Workers -> WindowSubscriptions], \A u \in Workers : Framed(subs'[u]),
           received' \in [Monitors -> [MetricIDs -> Seq(Samples)]]
    PROVE  FeedTypes'
BY Zenon DEF FeedTypes, Framed

LEMMA UpEffect ==
    ASSUME Known, NEW t \in Threads, MonitorUp(t), NEW v, v = Now(t).on
    PROVE  /\ v \in Monitors /\ FeedTypes'
           /\ \/ vm[v].active /\ UNCHANGED << vm, subs >>
              \/ /\ ~vm[v].active
                 /\ \E w \in Workers :
                      /\ subs[w].status = "free"
                      /\ vm'[v].active /\ vm'[v].handle = w
                      /\ vm'[v].metrics = vm[v].metrics /\ vm'[v].current = vm[v].current
                      /\ vm'[v].rings = vm[v].rings
                      /\ \A x \in Monitors \ {v} : vm'[x] = vm[x]
                      /\ subs'[w].owner = v /\ subs'[w].status = "running" /\ subs'[w].box = << >>
                      /\ \A u \in Workers \ {w} : subs'[u] = subs[u]
<1>1. At(t, "up") /\ received' = received
  BY Zenon DEF MonitorUp
<1>2. v \in Monitors
  <2>1. Now(t) \in Calls /\ Now(t).op = "up"
    BY <1>1, KnownIs, AtHead, Zenon
  <2>2. QED
    BY <2>1, CallsAre DEF OnMonitors
<1>3. CASE vm[v].active
  <2>1. UNCHANGED << vm, subs >>
    BY <1>3, Zenon DEF MonitorUp
  <2>2. FeedTypes'
    BY <1>1, <2>1, TypesKept, Zenon DEF feeds
  <2>3. QED
    BY <1>2, <1>3, <2>1, <2>2
<1>4. CASE ~vm[v].active
  <2>1. PICK w : w = Spare
    OBVIOUS
  <2>2. /\ Vacant # {}
        /\ vm' = [vm EXCEPT ![v].active = TRUE, ![v].handle = w]
        /\ subs' = [subs EXCEPT ![w] = Subscription(v, vm[v].metrics, ~app.stopped)]
    BY <1>4, <2>1, Zenon DEF MonitorUp
  <2>3. w \in Workers /\ subs[w].status = "free"
    BY <2>1, <2>2, SpareIs, Zenon
  <2>4. /\ vm \in [Monitors -> MonitorModels] /\ vm[v] \in MonitorModels
        /\ vm[v].metrics \in SUBSET MetricIDs
    BY <1>2, KnownIs, ModelIs, Zenon
  <2>5. PICK b \in BOOLEAN : b = TRUE
    OBVIOUS
  <2>6. PICK m : m = [vm[v] EXCEPT !.active = b, !.handle = w]
    OBVIOUS
  <2>7. /\ m \in MonitorModels /\ m.active = b /\ m.handle = w /\ m.metrics = vm[v].metrics
        /\ m.current = vm[v].current /\ m.rings = vm[v].rings
    BY <2>3, <2>4, <2>6 DEF MonitorModels
  <2>8. vm' = [vm EXCEPT ![v] = m]
    BY <2>2, <2>5, <2>6
  <2>9. vm' \in [Monitors -> MonitorModels] /\ vm'[v] = m /\ \A x \in Monitors \ {v} : vm'[x] = vm[x]
    BY <1>2, <2>4, <2>7, <2>8, ModelsWith, Zenon
  <2>10. PICK s : s = Subscription(v, vm[v].metrics, ~app.stopped)
    OBVIOUS
  <2>11. s \in WindowSubscriptions /\ s.status = "running" /\ s.owner = v /\ s.box = << >>
    <3>1. PICK open \in BOOLEAN : s = Subscription(v, vm[v].metrics, open)
      BY <2>10
    <3>2. << >> \in Seq(Frames \cup Nat) /\ v \in Monitors \cup {"logs", "none"}
      BY <1>2
    <3>3. QED
      BY <2>4, <3>1, <3>2 DEF Subscription, WindowSubscriptions
  <2>12. Framed(s)
    BY <2>11, Zenon DEF Framed
  <2>13. /\ subs' \in [Workers -> WindowSubscriptions] /\ \A u \in Workers : Framed(subs'[u])
         /\ subs'[w] = s /\ \A u \in Workers \ {w} : subs'[u] = subs[u]
    BY <2>2, <2>3, <2>10, <2>11, <2>12, SubsWith, Zenon
  <2>14. \A x \in Monitors : vm'[x].active => vm'[x].handle \in Workers
    BY <2>3, <2>7, <2>9, KnownIs, Zenon
  <2>15. FeedTypes'
    BY <1>1, <2>9, <2>13, <2>14, KnownIs, FeedsTyped, Zenon
  <2>16. QED
    BY <1>2, <1>4, <2>3, <2>5, <2>7, <2>9, <2>11, <2>13, <2>15, Zenon
<1>5. QED
  BY <1>3, <1>4

LEMMA DownEffect ==
    ASSUME Known, NEW t \in Threads, MonitorDown(t), NEW v, v = Now(t).on
    PROVE  /\ v \in Monitors /\ FeedTypes' /\ subs' = subs
           /\ \/ ~vm[v].active /\ vm' = vm
              \/ /\ vm[v].active /\ ~vm'[v].active /\ vm'[v].handle = "none"
                 /\ vm'[v].metrics = vm[v].metrics /\ vm'[v].current = vm[v].current
                 /\ vm'[v].rings = vm[v].rings
                 /\ \A x \in Monitors \ {v} : vm'[x] = vm[x]
<1>1. At(t, "down") /\ received' = received /\ subs' = subs
  BY Zenon DEF MonitorDown
<1>2. v \in Monitors
  BY <1>1, KnownIs, AtHead, CallsAre, SMTT(30) DEF OnMonitors
<1>3. CASE ~vm[v].active
  <2>1. vm' = vm
    BY <1>3, Zenon DEF MonitorDown
  <2>2. FeedTypes'
    BY <1>1, <2>1, TypesKept, Zenon DEF feeds
  <2>3. QED
    BY <1>1, <1>2, <1>3, <2>1, <2>2
<1>4. CASE vm[v].active
  <2>1. vm' = [vm EXCEPT ![v].active = FALSE, ![v].handle = "none"]
    BY <1>4, Zenon DEF MonitorDown
  <2>2. vm \in [Monitors -> MonitorModels] /\ vm[v] \in MonitorModels
    BY <1>2, KnownIs, ModelIs, Zenon
  <2>3. PICK b \in BOOLEAN : b = FALSE
    OBVIOUS
  <2>4. PICK m : m = [vm[v] EXCEPT !.active = b, !.handle = "none"]
    OBVIOUS
  <2>5. /\ m \in MonitorModels /\ m.active = b /\ m.handle = "none" /\ m.metrics = vm[v].metrics
        /\ m.current = vm[v].current /\ m.rings = vm[v].rings
    BY <2>2, <2>4 DEF MonitorModels
  <2>6. vm' = [vm EXCEPT ![v] = m]
    BY <2>1, <2>3, <2>4
  <2>7. vm' \in [Monitors -> MonitorModels] /\ vm'[v] = m /\ \A x \in Monitors \ {v} : vm'[x] = vm[x]
    BY <1>2, <2>2, <2>5, <2>6, ModelsWith, Zenon
  <2>8. ~m.active
    BY <2>3, <2>5
  <2>9. \A x \in Monitors : vm'[x].active => vm'[x].handle \in Workers
    BY <2>7, <2>8, KnownIs, Zenon
  <2>10. FeedTypes'
    <3>1. \A u \in Workers : Framed(subs'[u])
      BY <1>1, FramedIs, Zenon
    <3>2. QED
      BY <1>1, <2>7, <2>9, <3>1, KnownIs, FeedsTyped, Zenon
  <2>11. QED
    BY <1>1, <1>2, <1>4, <2>5, <2>7, <2>8, <2>10, Zenon
<1>5. QED
  BY <1>3, <1>4

\* A step that changes one subscription and no view model.
LEMMA OneSubscription ==
    ASSUME Known, NEW w \in Workers, NEW s \in WindowSubscriptions, Framed(s),
           subs' = [subs EXCEPT ![w] = s], UNCHANGED << vm, received >>
    PROVE  /\ FeedTypes' /\ subs'[w] = s /\ \A u \in Workers \ {w} : subs'[u] = subs[u]
<1>1. /\ subs' \in [Workers -> WindowSubscriptions] /\ \A u \in Workers : Framed(subs'[u])
      /\ subs'[w] = s /\ \A u \in Workers \ {w} : subs'[u] = subs[u]
  BY SubsWith, Zenon
<1>2. QED
  BY <1>1, KnownIs, FeedsTyped, Zenon

LEMMA CloseEffect ==
    ASSUME Known, NEW t \in Threads, CloseHandle(t), NEW w, w = Now(t).arg
    PROVE  /\ w \in Workers /\ FeedTypes'
           /\ subs'[w].owner = subs[w].owner /\ subs'[w].status = subs[w].status
           /\ subs'[w].box = subs[w].box
           /\ \A u \in Workers \ {w} : subs'[u] = subs[u]
<1>1. subs' = [subs EXCEPT ![w].open = FALSE] /\ UNCHANGED << vm, received >> /\ At(t, "close")
  BY Zenon DEF CloseHandle
<1>2. w \in Workers
  BY <1>1, KnownIs, AtHead, CallsAre
<1>3. PICK b \in BOOLEAN : b = FALSE
  OBVIOUS
<1>4. PICK s : s = [subs[w] EXCEPT !.open = b]
  OBVIOUS
<1>5. subs[w] \in WindowSubscriptions /\ Framed(subs[w])
  BY <1>2, FramedIs, Zenon
<1>6. s \in WindowSubscriptions /\ s.owner = subs[w].owner /\ s.status = subs[w].status /\ s.box = subs[w].box
  BY <1>4, <1>5 DEF WindowSubscriptions
<1>7. subs' = [subs EXCEPT ![w] = s] /\ Framed(s)
  <2>1. subs' = [subs EXCEPT ![w] = s]
    BY <1>1, <1>3, <1>4
  <2>2. QED
    BY <1>5, <1>6, <2>1, Zenon DEF Framed
<1>8. FeedTypes' /\ subs'[w] = s /\ \A u \in Workers \ {w} : subs'[u] = subs[u]
  BY <1>1, <1>2, <1>6, <1>7, OneSubscription, Zenon
<1>9. QED
  BY <1>2, <1>6, <1>8, Zenon

LEMMA AwaitEffect ==
    ASSUME Known, NEW t \in Threads, Await(t), NEW w, w = Now(t).arg
    PROVE  /\ w \in Workers /\ FeedTypes' /\ subs'[w] = FreeSubscription
           /\ \A u \in Workers \ {w} : subs'[u] = subs[u]
<1>1. subs' = [subs EXCEPT ![w] = FreeSubscription] /\ UNCHANGED << vm, received >> /\ At(t, "await")
  BY Zenon DEF Await
<1>2. w \in Workers
  BY <1>1, KnownIs, AtHead, CallsAre
<1>3. FreeSubscription \in WindowSubscriptions /\ Framed(FreeSubscription)
  BY FreeIs, Zenon DEF Framed
<1>4. QED
  BY <1>1, <1>2, <1>3, OneSubscription, Zenon

LEMMA GoEffect ==
    ASSUME Known, NEW t \in Threads, Go(t), NEW w, w = Now(t).arg
    PROVE  /\ w \in Workers /\ FeedTypes'
           /\ subs'[w].owner = subs[w].owner /\ subs'[w].status = "running"
           /\ subs'[w].box = subs[w].box /\ (subs'[w].open <=> subs[w].open)
           /\ \A u \in Workers \ {w} : subs'[u] = subs[u]
<1>1. subs' = [subs EXCEPT ![w].status = "running"] /\ UNCHANGED << vm, received >> /\ At(t, "go")
  BY Zenon DEF Go
<1>2. w \in Workers
  BY <1>1, KnownIs, AtHead, CallsAre
<1>3. PICK s : s = [subs[w] EXCEPT !.status = "running"]
  OBVIOUS
<1>4. subs[w] \in WindowSubscriptions /\ Framed(subs[w])
  BY <1>2, FramedIs, Zenon
<1>5. /\ s \in WindowSubscriptions /\ s.owner = subs[w].owner /\ s.status = "running"
      /\ s.box = subs[w].box /\ s.open = subs[w].open
  BY <1>3, <1>4 DEF WindowSubscriptions
<1>6. subs' = [subs EXCEPT ![w] = s] /\ Framed(s)
  <2>1. subs' = [subs EXCEPT ![w] = s]
    BY <1>1, <1>3
  <2>2. QED
    BY <1>4, <1>5, <2>1, Zenon DEF Framed
<1>7. FeedTypes' /\ subs'[w] = s /\ \A u \in Workers \ {w} : subs'[u] = subs[u]
  BY <1>1, <1>2, <1>5, <1>6, OneSubscription, Zenon
<1>8. QED
  BY <1>2, <1>5, <1>7, Zenon

LEMMA EndEffect ==
    ASSUME Known, NEW w \in Workers, EndSubscription(w)
    PROVE  /\ FeedTypes' /\ subs[w].status = "running" /\ ~subs[w].open
           /\ subs'[w].box = << >> /\ subs[w].box = << >>
           /\ \/ /\ subs[w].owner = "logs" /\ subs'[w].owner = "none" /\ subs'[w].status = "free"
              \/ /\ subs[w].owner # "logs" /\ subs'[w].owner = subs[w].owner
                 /\ subs'[w].status = "done"
           /\ \A u \in Workers \ {w} : subs'[u] = subs[u]
<1>1. PICK s : s = IF subs[w].owner = "logs" THEN FreeSubscription ELSE [subs[w] EXCEPT !.status = "done"]
  OBVIOUS
<1>2. /\ subs' = [subs EXCEPT ![w] = s] /\ UNCHANGED << vm, received >>
      /\ subs[w].status = "running" /\ ~subs[w].open /\ subs[w].box = << >>
  BY <1>1, Zenon DEF EndSubscription
<1>3. subs[w] \in WindowSubscriptions /\ Framed(subs[w])
  BY FramedIs, Zenon
<1>4. CASE subs[w].owner = "logs"
  <2>1. s = FreeSubscription /\ Framed(s)
    BY <1>1, <1>4, FreeIs, Zenon DEF Framed
  <2>2. FeedTypes' /\ subs'[w] = s /\ \A u \in Workers \ {w} : subs'[u] = subs[u]
    BY <1>2, <2>1, FreeIs, OneSubscription, Zenon
  <2>3. QED
    BY <1>2, <1>4, <2>1, <2>2, FreeIs, Zenon
<1>5. CASE subs[w].owner # "logs"
  <2>1. s = [subs[w] EXCEPT !.status = "done"]
    BY <1>1, <1>5, Zenon
  <2>2. s \in WindowSubscriptions /\ s.owner = subs[w].owner /\ s.status = "done" /\ s.box = subs[w].box
    BY <1>3, <2>1 DEF WindowSubscriptions
  <2>3. Framed(s)
    BY <1>3, <2>2, Zenon DEF Framed
  <2>4. FeedTypes' /\ subs'[w] = s /\ \A u \in Workers \ {w} : subs'[u] = subs[u]
    BY <1>2, <2>2, <2>3, OneSubscription, Zenon
  <2>5. QED
    BY <1>2, <1>5, <2>2, <2>4, Zenon
<1>6. QED
  BY <1>4, <1>5

LEMMA ChooseEffect ==
    ASSUME Known, NEW t \in Threads, SetMetricIDs(t), NEW v, v = Now(t).on
    PROVE  /\ v \in Monitors /\ FeedTypes' /\ subs' = subs
           /\ (vm'[v].active <=> vm[v].active) /\ vm'[v].handle = vm[v].handle
           /\ vm'[v].rings = vm[v].rings
           /\ \A x \in Monitors \ {v} : vm'[x] = vm[x]
<1>1. /\ vm' = [vm EXCEPT ![v].metrics = Now(t).arg]
      /\ UNCHANGED << subs, received >>
  BY Zenon DEF SetMetricIDs
<1>2. v \in Monitors /\ Now(t).arg \in SUBSET MetricIDs
  BY KnownIs, ChooseSteady, Zenon
<1>3. vm \in [Monitors -> MonitorModels] /\ vm[v] \in MonitorModels
  BY <1>2, KnownIs, ModelIs, Zenon
<1>4. PICK m : m = [vm[v] EXCEPT !.metrics = Now(t).arg]
  OBVIOUS
<1>5. /\ m \in MonitorModels /\ m.active = vm[v].active /\ m.handle = vm[v].handle
      /\ m.rings = vm[v].rings
  BY <1>2, <1>3, <1>4, ModelWith
<1>6. vm' = [vm EXCEPT ![v] = m]
  BY <1>1, <1>4
<1>7. vm' \in [Monitors -> MonitorModels] /\ vm'[v] = m /\ \A x \in Monitors \ {v} : vm'[x] = vm[x]
  BY <1>2, <1>3, <1>5, <1>6, ModelsWith, Zenon
<1>8. \A x \in Monitors : vm'[x].active => vm'[x].handle \in Workers
  BY <1>5, <1>7, KnownIs, Zenon
<1>9. FeedTypes'
  <2>1. \A u \in Workers : Framed(subs'[u])
    BY <1>1, FramedIs, Zenon
  <2>2. QED
    BY <1>1, <1>7, <1>8, <2>1, KnownIs, FeedsTyped, Zenon
<1>10. QED
  BY <1>1, <1>2, <1>5, <1>7, <1>9, Zenon

\* The same subscription with another frame.
SameBut(s, r) == s.owner = r.owner /\ s.status = r.status /\ (s.open <=> r.open)

LEMMA BoxWith ==
    ASSUME NEW s \in WindowSubscriptions, NEW box \in Seq(Frames \cup Nat)
    PROVE  /\ [s EXCEPT !.box = box] \in WindowSubscriptions
           /\ SameBut([s EXCEPT !.box = box], s) /\ [s EXCEPT !.box = box].box = box
<1>1. PICK r : r = [s EXCEPT !.box = box]
  OBVIOUS
<1>2. r \in WindowSubscriptions /\ r.owner = s.owner /\ r.status = s.status /\ r.open = s.open /\ r.box = box
  BY <1>1 DEF WindowSubscriptions
<1>3. QED
  BY <1>1, <1>2, Zenon DEF SameBut

LEMMA FrameBox ==
    ASSUME NEW f \in Frames
    PROVE  << f >> \in Seq(Frames \cup Nat) /\ << f >> # << >> /\ << f >>[1] = f
OBVIOUS

LEMMA DeliverEffect ==
    ASSUME Known, NEW w \in Workers, Deliver(w)
    PROVE  /\ FeedTypes' /\ FrameTypes' /\ clock' = clock + 1 /\ clock \in Nat
           /\ subs[w].owner \in Monitors /\ SameBut(subs'[w], subs[w])
           /\ subs'[w].box # << >>
           /\ \A id \in DOMAIN subs'[w].box[1] : subs'[w].box[1][id].at = clock'
           /\ \A u \in Workers \ {w} : subs'[u] = subs[u]
<1>1. /\ left.samples > 0 /\ left' = [left EXCEPT !.samples = @ - 1] /\ clock' = clock + 1
      /\ UNCHANGED << vm, received, nav, app >> /\ subs[w].owner \in Monitors
  BY Zenon DEF Deliver
<1>2. PICK ids \in SUBSET subs[w].metrics \ {{}}, value \in left.values :
        subs' = [subs EXCEPT ![w].box =
          << [id \in ids |-> [at |-> clock', value |-> value, good |-> value # 0]] >>]
  BY Zenon DEF Deliver
<1>3. left \in Inputs /\ clock \in Nat /\ clock' \in Nat
  BY <1>1, KnownIs
<1>4. subs[w] \in WindowSubscriptions /\ subs[w].metrics \in SUBSET MetricIDs
  <2>1. subs[w] \in WindowSubscriptions
    BY FramedIs, Zenon
  <2>2. QED
    BY <2>1 DEF WindowSubscriptions
<1>5. PICK good \in BOOLEAN : good = (value # 0)
  OBVIOUS
<1>6. PICK n \in Nat : n = clock'
  BY <1>3
<1>7. PICK f : f = [id \in ids |-> [at |-> n, value |-> value, good |-> good]]
  OBVIOUS
<1>8. f \in Frames /\ \A id \in DOMAIN f : f[id].at = n
  <2>1. ids \in SUBSET MetricIDs
    BY <1>4
  <2>2. value \in Int
    BY <1>3, InputsAre
  <2>3. f \in [ids -> Samples] /\ \A id \in DOMAIN f : f[id].at = n
    BY <1>7, <2>2 DEF Samples
  <2>4. QED
    BY <2>1, <2>3, Zenon DEF Frames
<1>9. PICK s : s = [subs[w] EXCEPT !.box = << f >>]
  OBVIOUS
<1>10. /\ s \in WindowSubscriptions /\ SameBut(s, subs[w]) /\ s.box = << f >>
       /\ << f >> # << >> /\ << f >>[1] = f
  BY <1>4, <1>8, <1>9, BoxWith, FrameBox, Zenon
<1>11. subs' = [subs EXCEPT ![w] = s]
  BY <1>2, <1>5, <1>6, <1>7, <1>9, Zenon
<1>12. Framed(s)
  BY <1>8, <1>10, Zenon DEF Framed
<1>13. FeedTypes' /\ subs'[w] = s /\ \A u \in Workers \ {w} : subs'[u] = subs[u]
  BY <1>1, <1>10, <1>11, <1>12, OneSubscription, Zenon
<1>14. FrameTypes'
  <2>1. left' \in Inputs
    BY <1>1, <1>3 DEF Inputs
  <2>2. QED
    BY <1>1, <1>3, <2>1, KnownIs, Zenon DEF FrameTypes
<1>15. QED
  BY <1>1, <1>3, <1>6, <1>8, <1>10, <1>13, <1>14, Zenon

\* What a view model should have of a metric after a frame.
Gained(kept, samples, id) ==
  IF id \in DOMAIN samples /\ samples[id].good
  THEN Newest(Append(kept, samples[id]), HistoryCapacity) ELSE kept

LEMMA GainedIs ==
    ASSUME NEW kept \in Seq(Samples), NEW samples \in Frames, NEW id
    PROVE  Gained(kept, samples, id) \in Seq(Samples)
<1>1. CASE id \in DOMAIN samples /\ samples[id].good
  <2>1. samples[id] \in Samples
    BY <1>1 DEF Frames
  <2>2. Append(kept, samples[id]) \in Seq(Samples)
    BY <2>1, AppendTyped, Zenon
  <2>3. HistoryCapacity \in Nat
    BY PagesAssumption
  <2>4. Gained(kept, samples, id) = Newest(Append(kept, samples[id]), HistoryCapacity)
    BY <1>1, Zenon DEF Gained
  <2>5. QED
    BY <2>2, <2>3, <2>4, NewestOf, Zenon
<1>2. CASE ~(id \in DOMAIN samples /\ samples[id].good)
  BY <1>2, Zenon DEF Gained
<1>3. QED
  BY <1>1, <1>2

LEMMA ConsumeEffect ==
    ASSUME Known, NEW w \in Workers, Consume(w), NEW v, v = subs[w].owner,
           NEW samples, samples = subs[w].box[1]
    PROVE  /\ v \in Monitors /\ samples \in Frames /\ FeedTypes'
           /\ vm' \in [Monitors -> MonitorModels]
           /\ subs[w].box # << >> /\ SameBut(subs'[w], subs[w]) /\ subs'[w].box = << >>
           /\ \A u \in Workers \ {w} : subs'[u] = subs[u]
           /\ vm'[v] = Consumed(vm[v], samples)
           /\ (vm'[v].active <=> vm[v].active) /\ vm'[v].handle = vm[v].handle
           /\ \A x \in Monitors \ {v} : vm'[x] = vm[x] /\ received'[x] = received[x]
           /\ \A id \in MetricIDs : received'[v][id] = Gained(received[v][id], samples, id)
<1>1. /\ v \in Monitors /\ subs[w].box # << >>
      /\ vm' = [vm EXCEPT ![v] = Consumed(vm[v], Head(subs[w].box))]
      /\ received' = [received EXCEPT ![v] = [id \in MetricIDs |->
           Gained(received[v][id], Head(subs[w].box), id)]]
      /\ subs' = [subs EXCEPT ![w].box = << >>]
  BY Zenon DEF Consume, Gained
<1>2. subs[w] \in WindowSubscriptions /\ Framed(subs[w]) /\ subs[w].box \in Seq(Frames \cup Nat)
  BY FramedIs, SubscriptionIs, KnownIs, Zenon
<1>3. Head(subs[w].box) = samples /\ samples \in Frames
  <2>1. Head(subs[w].box) = samples
    BY <1>1, <1>2, QueueParts, Zenon
  <2>2. QED
    BY <1>1, <1>2, <2>1, Zenon DEF Framed
<1>4. vm \in [Monitors -> MonitorModels] /\ vm[v] \in MonitorModels
  BY <1>1, KnownIs, ModelIs, Zenon
<1>5. /\ Consumed(vm[v], samples) \in MonitorModels
      /\ Consumed(vm[v], samples).active = vm[v].active
      /\ Consumed(vm[v], samples).handle = vm[v].handle
  BY <1>3, <1>4, ConsumedIs, Zenon
<1>6. /\ vm' \in [Monitors -> MonitorModels] /\ vm'[v] = Consumed(vm[v], samples)
      /\ \A x \in Monitors \ {v} : vm'[x] = vm[x]
  BY <1>1, <1>3, <1>4, <1>5, ModelsWith, Zenon
<1>7. PICK g : g = [id \in MetricIDs |-> Gained(received[v][id], samples, id)]
  OBVIOUS
<1>8. received \in [Monitors -> [MetricIDs -> Seq(Samples)]]
  BY KnownIs, Zenon
<1>9. g \in [MetricIDs -> Seq(Samples)] /\ \A id \in MetricIDs : g[id] = Gained(received[v][id], samples, id)
  <2>1. \A id \in MetricIDs : received[v][id] \in Seq(Samples)
    BY <1>1, <1>8
  <2>2. \A id \in MetricIDs : Gained(received[v][id], samples, id) \in Seq(Samples)
    BY <1>3, <2>1, GainedIs, Zenon
  <2>3. QED
    BY <1>7, <2>2, Zenon
<1>10. received' = [received EXCEPT ![v] = g]
  BY <1>1, <1>3, <1>7, Zenon
<1>11. /\ received' \in [Monitors -> [MetricIDs -> Seq(Samples)]] /\ received'[v] = g
       /\ \A x \in Monitors \ {v} : received'[x] = received[x]
  BY <1>1, <1>8, <1>9, <1>10
<1>12. PICK s : s = [subs[w] EXCEPT !.box = << >>]
  OBVIOUS
<1>13. s \in WindowSubscriptions /\ SameBut(s, subs[w]) /\ s.box = << >> /\ Framed(s)
  <2>1. << >> \in Seq(Frames \cup Nat)
    OBVIOUS
  <2>2. s \in WindowSubscriptions /\ SameBut(s, subs[w]) /\ s.box = << >>
    BY <1>2, <1>12, <2>1, BoxWith, Zenon
  <2>3. QED
    BY <2>2, Zenon DEF Framed
<1>14. subs' = [subs EXCEPT ![w] = s]
  BY <1>1, <1>12, Zenon
<1>15. /\ subs' \in [Workers -> WindowSubscriptions] /\ \A u \in Workers : Framed(subs'[u])
       /\ subs'[w] = s /\ \A u \in Workers \ {w} : subs'[u] = subs[u]
  BY <1>13, <1>14, SubsWith, Zenon
<1>16. \A x \in Monitors : vm'[x].active => vm'[x].handle \in Workers
  <2>1. \A x \in Monitors : vm[x].active => vm[x].handle \in Workers
    BY KnownIs, Zenon
  <2>2. vm'[v].active = vm[v].active /\ vm'[v].handle = vm[v].handle
    BY <1>5, <1>6, Zenon
  <2>3. QED
    BY <1>6, <2>1, <2>2, Zenon
<1>17. FeedTypes'
  BY <1>6, <1>11, <1>15, <1>16, FeedsTyped, Zenon
<1>18. QED
  BY <1>1, <1>3, <1>5, <1>6, <1>9, <1>11, <1>13, <1>15, <1>17, Zenon

LEMMA TakeEffect ==
    ASSUME Known, NEW w \in Workers, TakeEvent(w)
    PROVE  /\ FeedTypes' /\ SameBut(subs'[w], subs[w]) /\ subs'[w].box = << >>
           /\ subs[w].owner = "logs"
           /\ \A u \in Workers \ {w} : subs'[u] = subs[u]
<1>1. /\ subs' = [subs EXCEPT ![w].box = << >>] /\ UNCHANGED << vm, received >>
      /\ subs[w].owner = "logs"
  BY Zenon DEF TakeEvent
<1>2. PICK s : s = [subs[w] EXCEPT !.box = << >>]
  OBVIOUS
<1>3. s \in WindowSubscriptions /\ SameBut(s, subs[w]) /\ s.box = << >> /\ Framed(s)
  <2>1. << >> \in Seq(Frames \cup Nat)
    OBVIOUS
  <2>2. s \in WindowSubscriptions /\ SameBut(s, subs[w]) /\ s.box = << >>
    BY <1>2, <2>1, FramedIs, BoxWith, Zenon
  <2>3. QED
    BY <2>2, Zenon DEF Framed
<1>4. subs' = [subs EXCEPT ![w] = s]
  BY <1>1, <1>2, Zenon
<1>5. FeedTypes' /\ subs'[w] = s /\ \A u \in Workers \ {w} : subs'[u] = subs[u]
  BY <1>1, <1>3, <1>4, OneSubscription, Zenon
<1>6. QED
  BY <1>1, <1>3, <1>5, Zenon

LEMMA AppendEffect ==
    ASSUME Known, AppendEvent
    PROVE  /\ FeedTypes' /\ LogTypes' /\ FrameTypes'
           /\ \A u \in Workers : SameBut(subs'[u], subs[u])
           /\ \A u \in Workers : subs[u].owner = "logs" /\ subs[u].open => subs'[u].box # << >>
           /\ \A u \in Workers : subs[u].owner # "logs" => subs'[u] = subs[u]
<1>1. /\ left.events > 0 /\ left' = [left EXCEPT !.events = @ - 1]
      /\ store' = Append(IF Len(store) = StoreCapacity THEN Tail(store) ELSE store, left.events)
      /\ subs' = [w \in Workers |->
           IF subs[w].owner = "logs" /\ subs[w].open
           THEN [subs[w] EXCEPT !.box = << left.events >>] ELSE subs[w]]
      /\ UNCHANGED << vm, received, logs, tune, nav, app, clock >>
  BY Zenon DEF AppendEvent
<1>2. left \in Inputs /\ left.events \in Nat /\ store \in Seq(Nat)
  BY KnownIs, InputsAre, Zenon
<1>3. store' \in Seq(Nat)
  <2>1. StoreCapacity \in Nat \ {0}
    BY PagesAssumption
  <2>2. CASE Len(store) = StoreCapacity
    <3>1. store # << >>
      BY <1>2, <2>1, <2>2
    <3>2. Tail(store) \in Seq(Nat) /\ store' = Append(Tail(store), left.events)
      BY <1>1, <1>2, <2>2, <3>1, QueueParts, Zenon
    <3>3. QED
      BY <1>2, <3>2, AppendTyped, Zenon
  <2>3. CASE Len(store) # StoreCapacity
    <3>1. store' = Append(store, left.events)
      BY <1>1, <2>3, Zenon
    <3>2. QED
      BY <1>2, <3>1, AppendTyped, Zenon
  <2>4. QED
    BY <2>2, <2>3
<1>4. LogTypes'
  BY <1>1, <1>3, KnownIs, Zenon DEF LogTypes
<1>5. FrameTypes'
  <2>1. left' \in Inputs
    BY <1>1, <1>2, SMTT(30) DEF Inputs
  <2>2. QED
    BY <1>1, <2>1, KnownIs, Zenon DEF FrameTypes
<1>6. ASSUME NEW u \in Workers
      PROVE  /\ subs'[u] \in WindowSubscriptions /\ SameBut(subs'[u], subs[u]) /\ Framed(subs'[u])
             /\ subs[u].owner = "logs" /\ subs[u].open => subs'[u].box # << >>
             /\ subs[u].owner # "logs" => subs'[u] = subs[u]
  <2>1. subs[u] \in WindowSubscriptions /\ Framed(subs[u]) /\ SameBut(subs[u], subs[u])
    BY FramedIs, Zenon DEF SameBut
  <2>2. CASE subs[u].owner = "logs" /\ subs[u].open
    <3>1. PICK box : box = << left.events >>
      OBVIOUS
    <3>2. subs'[u] = [subs[u] EXCEPT !.box = box]
      BY <1>1, <2>2, <3>1, Zenon
    <3>3. box \in Seq(Frames \cup Nat) /\ box # << >>
      BY <1>2, <3>1
    <3>4. subs'[u] \in WindowSubscriptions /\ SameBut(subs'[u], subs[u]) /\ subs'[u].box = box
      BY <2>1, <3>2, <3>3, BoxWith, Zenon
    <3>5. subs'[u].owner \notin Monitors
      BY <2>2, <3>4 DEF SameBut, Monitors
    <3>6. QED
      BY <2>2, <3>3, <3>4, <3>5, Zenon DEF Framed
  <2>3. CASE ~(subs[u].owner = "logs" /\ subs[u].open)
    <3>1. subs'[u] = subs[u]
      BY <1>1, <2>3, Zenon
    <3>2. QED
      BY <2>1, <2>3, <3>1, Zenon
  <2>4. QED
    BY <2>2, <2>3
<1>7. subs' \in [Workers -> WindowSubscriptions]
  BY <1>1, <1>6, Zenon
<1>8. FeedTypes'
  BY <1>1, <1>6, <1>7, KnownIs, FeedsTyped, Zenon
<1>9. QED
  BY <1>4, <1>5, <1>6, <1>8, Zenon

LEMMA StopEffect ==
    ASSUME Known, StopTelemetry
    PROVE  /\ FeedTypes' /\ FrameTypes' /\ (app'.closing <=> app.closing)
           /\ \A u \in Workers : /\ subs'[u].owner = subs[u].owner /\ subs'[u].status = subs[u].status
                                 /\ subs'[u].box = subs[u].box
           /\ \A u \in Workers : subs[u].owner \notin Monitors => subs'[u] = subs[u]
<1>1. /\ app' = [app EXCEPT !.stopped = TRUE]
      /\ subs' = [w \in Workers |-> IF subs[w].owner \in Monitors
                                    THEN [subs[w] EXCEPT !.open = FALSE] ELSE subs[w]]
      /\ UNCHANGED << vm, received, nav, left, clock >>
  BY Zenon DEF StopTelemetry
<1>2. PICK b, c \in BOOLEAN : b = FALSE /\ c = TRUE
  OBVIOUS
<1>3. app' \in [closing : BOOLEAN, stopped : BOOLEAN] /\ app'.closing = app.closing
  <2>1. app' = [app EXCEPT !.stopped = c] /\ app \in [closing : BOOLEAN, stopped : BOOLEAN]
    BY <1>1, <1>2, KnownIs, Zenon
  <2>2. QED
    BY <2>1
<1>4. FrameTypes'
  BY <1>1, <1>3, KnownIs, Zenon DEF FrameTypes
<1>5. ASSUME NEW u \in Workers
      PROVE  /\ subs'[u] \in WindowSubscriptions /\ Framed(subs'[u])
             /\ subs'[u].owner = subs[u].owner /\ subs'[u].status = subs[u].status
             /\ subs'[u].box = subs[u].box
             /\ subs[u].owner \notin Monitors => subs'[u] = subs[u]
  <2>1. subs[u] \in WindowSubscriptions /\ Framed(subs[u])
    BY FramedIs, Zenon
  <2>2. CASE subs[u].owner \in Monitors
    <3>1. subs'[u] = [subs[u] EXCEPT !.open = b]
      BY <1>1, <1>2, <2>2, Zenon
    <3>2. /\ subs'[u] \in WindowSubscriptions /\ subs'[u].owner = subs[u].owner
          /\ subs'[u].status = subs[u].status /\ subs'[u].box = subs[u].box
      BY <2>1, <3>1 DEF WindowSubscriptions
    <3>3. QED
      BY <2>1, <2>2, <3>2, Zenon DEF Framed
  <2>3. CASE subs[u].owner \notin Monitors
    <3>1. subs'[u] = subs[u]
      BY <1>1, <2>3, Zenon
    <3>2. QED
      BY <2>1, <3>1, Zenon
  <2>4. QED
    BY <2>2, <2>3
<1>6. subs' \in [Workers -> WindowSubscriptions]
  BY <1>1, <1>5, Zenon
<1>7. FeedTypes'
  BY <1>1, <1>5, <1>6, KnownIs, FeedsTyped, Zenon
<1>8. QED
  BY <1>3, <1>4, <1>5, <1>7, Zenon

LEMMA LogsUpEffect ==
    ASSUME Known, NEW t \in Threads, LogsUp(t)
    PROVE  /\ FeedTypes' /\ LogTypes' /\ vm' = vm
           /\ \/ logs.active /\ UNCHANGED << logs, subs >>
              \/ /\ ~logs.active
                 /\ \E w \in Workers :
                      /\ subs[w].status = "free" /\ logs'.active /\ logs'.handle = w
                      /\ subs'[w].owner = "logs" /\ subs'[w].status = "starting"
                      /\ subs'[w].open
                      /\ \A u \in Workers \ {w} : subs'[u] = subs[u]
<1>1. UNCHANGED << vm, received, store, tune >>
  BY Zenon DEF LogsUp
<1>2. CASE logs.active
  <2>1. UNCHANGED << logs, subs >>
    BY <1>2, Zenon DEF LogsUp
  <2>2. FeedTypes' /\ LogTypes'
    BY <1>1, <2>1, TypesKept, Zenon DEF feeds, tuning
  <2>3. QED
    BY <1>1, <1>2, <2>1, <2>2
<1>3. CASE ~logs.active
  <2>1. PICK w : w = Spare
    OBVIOUS
  <2>2. /\ Vacant # {} /\ logs' = [active |-> TRUE, handle |-> w]
        /\ subs' = [subs EXCEPT ![w] = [Subscription("logs", {}, TRUE) EXCEPT !.status = "starting"]]
    BY <1>3, <2>1, Zenon DEF LogsUp
  <2>3. w \in Workers /\ subs[w].status = "free"
    BY <2>1, <2>2, SpareIs, Zenon
  <2>4. PICK b \in BOOLEAN : b = TRUE
    OBVIOUS
  <2>5. logs' \in [active : BOOLEAN, handle : Workers \cup {"none"}] /\ logs'.active /\ logs'.handle = w
    <3>1. logs' = [active |-> b, handle |-> w]
      BY <2>2, <2>4, Zenon
    <3>2. logs' \in [active : BOOLEAN, handle : Workers \cup {"none"}] /\ logs'.active = b /\ logs'.handle = w
      BY <2>3, <3>1
    <3>3. QED
      BY <2>4, <3>2
  <2>6. LogTypes'
    BY <1>1, <2>3, <2>5, KnownIs, Zenon DEF LogTypes
  <2>7. PICK s : s = [Subscription("logs", {}, b) EXCEPT !.status = "starting"]
    OBVIOUS
  <2>8. /\ s \in WindowSubscriptions /\ s.owner = "logs" /\ s.status = "starting" /\ s.open = b
    <3>1. Subscription("logs", {}, b) \in WindowSubscriptions /\ Subscription("logs", {}, b).owner = "logs"
          /\ Subscription("logs", {}, b).open = b
      BY NewSubscription
    <3>2. QED
      BY <2>7, <3>1 DEF WindowSubscriptions
  <2>9. Framed(s)
    BY <2>8 DEF Framed, Monitors
  <2>10. subs' = [subs EXCEPT ![w] = s]
    BY <2>2, <2>4, <2>7, Zenon
  <2>11. FeedTypes' /\ subs'[w] = s /\ \A u \in Workers \ {w} : subs'[u] = subs[u]
    BY <1>1, <2>3, <2>8, <2>9, <2>10, OneSubscription, Zenon
  <2>12. QED
    BY <1>1, <1>3, <2>3, <2>4, <2>5, <2>6, <2>8, <2>11, Zenon
<1>4. QED
  BY <1>2, <1>3

LEMMA LogsDownEffect ==
    ASSUME Known, NEW t \in Threads, LogsDown(t)
    PROVE  LogTypes' /\ (logs.active => ~logs'.active) /\ (~logs.active => logs' = logs)
<1>1. UNCHANGED << store, tune >>
  BY Zenon DEF LogsDown
<1>2. CASE logs.active
  <2>1. PICK b \in BOOLEAN : b = FALSE
    OBVIOUS
  <2>2. logs' = [active |-> b, handle |-> "none"]
    BY <1>2, <2>1, Zenon DEF LogsDown
  <2>3. logs' \in [active : BOOLEAN, handle : Workers \cup {"none"}] /\ logs'.active = b
    BY <2>2
  <2>4. QED
    BY <1>1, <1>2, <2>1, <2>3, KnownIs, Zenon DEF LogTypes
<1>3. CASE ~logs.active
  <2>1. logs' = logs
    BY <1>3, Zenon DEF LogsDown
  <2>2. QED
    BY <1>1, <1>3, <2>1, KnownIs, Zenon DEF LogTypes
<1>4. QED
  BY <1>2, <1>3

LEMMA Rejoined ==
    ASSUME PagesTypes', Shape', Roles'
    PROVE  Known'
BY Zenon DEF Known

LEMMA SteadyKnown ==
    ASSUME Steady, ScreenTypes', FeedTypes', LogTypes', FrameTypes'
    PROVE  Known'
BY TypesTogether, Rejoined, Zenon DEF Steady

LEMMA TurnKnown ==
    ASSUME NEW t, NEW lead, Turn(t, lead), ScreenTypes', FeedTypes', LogTypes', FrameTypes'
    PROVE  Known'
BY TypesTogether, Rejoined, Zenon DEF Turn

-----------------------------------------------------------------------------
(* Every step keeps the types and the order of the calls: dispatchers.     *)

LEMMA SubmitKnown ==
    ASSUME Known, NEW t \in Threads, Submit(t)
    PROVE  Known'
BY SubmitTypes, SubmitTurns, KnownIs, Rejoined, Zenon DEF Turn

LEMMA DispatchKnown ==
    ASSUME Known, NEW t \in Threads, Dispatch(t)
    PROVE  Known'
BY DispatchTypes, DispatchTurns, KnownIs, Rejoined, Zenon DEF Turn

LEMMA CallbackKnown ==
    ASSUME Known, RunCallback
    PROVE  Known'
BY CallbackTypes, CallbackTurns, KnownIs, Rejoined, Zenon DEF Turn

LEMMA RenderKnown ==
    ASSUME Known, Render
    PROVE  Known'
BY RenderTypes, RenderTurns, KnownIs, Rejoined, Zenon DEF Turn

LEMMA RefreshKnown ==
    ASSUME Known, Refresh
    PROVE  Known'
BY RefreshTypes, RefreshSteady, KnownIs, Rejoined, Zenon DEF Steady

LEMMA CancelKnown ==
    ASSUME Known, NEW t \in Threads, CancelUpdates(t)
    PROVE  Known'
BY CancelTypes, CancelSteady, KnownIs, Rejoined, Zenon DEF Steady

LEMMA ResumeKnown ==
    ASSUME Known, NEW t \in Threads, ResumeUpdates(t)
    PROVE  Known'
BY ResumeTypes, ResumeSteady, KnownIs, Rejoined, Zenon DEF Steady

-----------------------------------------------------------------------------
(* View models and subscriptions.                                          *)

LEMMA UpKnown ==
    ASSUME Known, NEW t \in Threads, MonitorUp(t)
    PROVE  Known'
<1>1. UNCHANGED << screen, tuning, frame, late >>
  BY Zenon DEF MonitorUp
<1>2. Steady
  BY KnownIs, UpSteady, Zenon
<1>3. FeedTypes'
  BY UpEffect, Zenon
<1>4. QED
  BY <1>1, <1>2, <1>3, TypesKept, SteadyKnown, Zenon

LEMMA DownKnown ==
    ASSUME Known, NEW t \in Threads, MonitorDown(t)
    PROVE  Known'
<1>1. UNCHANGED << screen, tuning, frame, late >>
  BY Zenon DEF MonitorDown
<1>2. \E lead : Turn(t, lead)
  BY KnownIs, DownTurns, Zenon
<1>3. FeedTypes'
  BY DownEffect, Zenon
<1>4. QED
  BY <1>1, <1>2, <1>3, TypesKept, TurnKnown, Zenon

LEMMA CloseKnown ==
    ASSUME Known, NEW t \in Threads, CloseHandle(t)
    PROVE  Known'
<1>1. UNCHANGED << screen, tuning, frame, late >>
  BY Zenon DEF CloseHandle
<1>2. \E lead : Turn(t, lead)
  BY KnownIs, CloseTurns, Zenon
<1>3. FeedTypes'
  BY CloseEffect, Zenon
<1>4. QED
  BY <1>1, <1>2, <1>3, TypesKept, TurnKnown, Zenon

LEMMA AwaitKnown ==
    ASSUME Known, NEW t \in Threads, Await(t)
    PROVE  Known'
<1>1. UNCHANGED << screen, tuning, frame, late >>
  BY Zenon DEF Await
<1>2. \E lead : Turn(t, lead)
  BY KnownIs, AwaitTurns, Zenon
<1>3. FeedTypes'
  BY AwaitEffect, Zenon
<1>4. QED
  BY <1>1, <1>2, <1>3, TypesKept, TurnKnown, Zenon

LEMMA ChooseKnown ==
    ASSUME Known, NEW t \in Threads, SetMetricIDs(t)
    PROVE  Known'
<1>1. UNCHANGED << screen, tuning, frame, late >>
  BY Zenon DEF SetMetricIDs
<1>2. Steady
  BY KnownIs, ChooseSteady, Zenon
<1>3. FeedTypes'
  BY ChooseEffect, Zenon
<1>4. QED
  BY <1>1, <1>2, <1>3, TypesKept, SteadyKnown, Zenon

LEMMA IntervalKnown ==
    ASSUME Known, NEW t \in Threads, SetInterval(t)
    PROVE  Known'
<1>1. UNCHANGED << screen, feeds, tuning, frame, late >>
  BY Zenon DEF SetInterval
<1>2. Steady
  BY KnownIs, IntervalSteady, Zenon
<1>3. QED
  BY <1>1, <1>2, TypesKept, SteadyKnown, Zenon

LEMMA ViewScreen ==
    ASSUME Known, UNCHANGED screen, NEW d \in Dispatchers, NEW t, NEW heard, View(d, t, heard)
    PROVE  ScreenTypes'
<1>1. late' \in [Dispatchers -> BOOLEAN]
  BY KnownIs, ViewTypes, Zenon
<1>2. QED
  BY <1>1, KnownIs, Zenon DEF ScreenTypes, screen

LEMMA PublishKnown ==
    ASSUME Known, NEW t \in Threads, PublishState(t)
    PROVE  Known'
<1>1. PICK v : v = Now(t).on
  OBVIOUS
<1>2. UNCHANGED << screen, feeds, tuning, frame >> /\ View(v, t, Listens(v))
  BY <1>1, Zenon DEF PublishState
<1>3. v \in Monitors /\ \E lead : Turn(t, lead)
  BY <1>1, KnownIs, PublishTurns, Zenon
<1>4. v \in Dispatchers
  BY <1>3 DEF Dispatchers
<1>5. ScreenTypes'
  BY <1>2, <1>4, ViewScreen, Zenon
<1>6. QED
  BY <1>2, <1>3, <1>5, TypesKept, TurnKnown, Zenon

LEMMA DeliverKnown ==
    ASSUME Known, NEW w \in Workers, Deliver(w)
    PROVE  Known'
<1>1. UNCHANGED << todo, screen, tuning, late, app >>
  BY Zenon DEF Deliver
<1>2. Steady
  BY <1>1, KnownIs, UnmovedSteady, Zenon
<1>3. FeedTypes' /\ FrameTypes'
  BY DeliverEffect, Zenon
<1>4. QED
  BY <1>1, <1>2, <1>3, TypesKept, SteadyKnown, Zenon

LEMMA ConsumeKnown ==
    ASSUME Known, NEW w \in Workers, Consume(w)
    PROVE  Known'
<1>1. PICK v : v = subs[w].owner
  OBVIOUS
<1>2. UNCHANGED << screen, tuning, frame >> /\ View(v, w, Listens(v))
  BY <1>1, Zenon DEF Consume
<1>3. FeedTypes' /\ vm' \in [Monitors -> MonitorModels]
  BY ConsumeEffect, Zenon
<1>4. v \in Monitors /\ \E lead : Turn(w, lead)
  BY <1>1, <1>3, KnownIs, ConsumeTurns, Zenon
<1>5. v \in Dispatchers
  BY <1>4 DEF Dispatchers
<1>6. ScreenTypes'
  BY <1>2, <1>5, ViewScreen, Zenon
<1>7. QED
  BY <1>2, <1>3, <1>4, <1>6, TypesKept, TurnKnown, Zenon

LEMMA EndKnown ==
    ASSUME Known, NEW w \in Workers, EndSubscription(w)
    PROVE  Known'
<1>1. UNCHANGED << todo, screen, tuning, frame, late >>
  BY Zenon DEF EndSubscription
<1>2. Steady
  BY <1>1, KnownIs, UnmovedSteady, Zenon DEF frame
<1>3. FeedTypes'
  BY EndEffect, Zenon
<1>4. QED
  BY <1>1, <1>2, <1>3, TypesKept, SteadyKnown, Zenon

-----------------------------------------------------------------------------
(* The Logs page.                                                          *)

LEMMA AppendKnown ==
    ASSUME Known, AppendEvent
    PROVE  Known'
<1>1. UNCHANGED << todo, screen, app, late >>
  BY Zenon DEF AppendEvent
<1>2. Steady
  BY <1>1, KnownIs, UnmovedSteady, Zenon
<1>3. FeedTypes' /\ LogTypes' /\ FrameTypes'
  BY AppendEffect, Zenon
<1>4. QED
  BY <1>1, <1>2, <1>3, TypesKept, SteadyKnown, Zenon

LEMMA LogsUpKnown ==
    ASSUME Known, NEW t \in Threads, LogsUp(t)
    PROVE  Known'
<1>1. UNCHANGED << screen, frame, late >>
  BY Zenon DEF LogsUp
<1>2. Steady
  BY KnownIs, LogsUpSteady, Zenon
<1>3. FeedTypes' /\ LogTypes'
  BY LogsUpEffect, Zenon
<1>4. QED
  BY <1>1, <1>2, <1>3, TypesKept, SteadyKnown, Zenon

LEMMA LookKnown ==
    ASSUME Known, NEW t \in Threads, LookAtEvents(t)
    PROVE  Known'
<1>1. UNCHANGED << screen, feeds, tuning, frame >> /\ View("logs", t, TRUE)
  BY Zenon DEF LookAtEvents
<1>2. \E lead : Turn(t, lead)
  BY KnownIs, LookTurns, Zenon
<1>3. "logs" \in Dispatchers
  BY DEF Dispatchers
<1>4. ScreenTypes'
  BY <1>1, <1>3, ViewScreen, Zenon
<1>5. QED
  BY <1>1, <1>2, <1>4, TypesKept, TurnKnown, Zenon

LEMMA GoKnown ==
    ASSUME Known, NEW t \in Threads, Go(t)
    PROVE  Known'
<1>1. UNCHANGED << screen, tuning, frame, late >>
  BY Zenon DEF Go
<1>2. Steady
  BY KnownIs, GoSteady, Zenon
<1>3. FeedTypes'
  BY GoEffect, Zenon
<1>4. QED
  BY <1>1, <1>2, <1>3, TypesKept, SteadyKnown, Zenon

LEMMA TakeKnown ==
    ASSUME Known, NEW w \in Workers, TakeEvent(w)
    PROVE  Known'
<1>1. UNCHANGED << screen, tuning, frame, late >>
  BY Zenon DEF TakeEvent
<1>2. Steady
  BY KnownIs, TakeSteady, Zenon
<1>3. FeedTypes'
  BY TakeEffect, Zenon
<1>4. QED
  BY <1>1, <1>2, <1>3, TypesKept, SteadyKnown, Zenon

LEMMA LogsDownKnown ==
    ASSUME Known, NEW t \in Threads, LogsDown(t)
    PROVE  Known'
<1>1. UNCHANGED << screen, feeds, frame, late >>
  BY Zenon DEF LogsDown
<1>2. \E lead : Turn(t, lead)
  BY KnownIs, LogsDownTurns, Zenon
<1>3. LogTypes'
  BY LogsDownEffect, Zenon
<1>4. QED
  BY <1>1, <1>2, <1>3, TypesKept, TurnKnown, Zenon

-----------------------------------------------------------------------------
(* The Tune page.                                                          *)

LEMMA TuneSteps ==
    ASSUME NEW m \in TuneModels, NEW b \in BOOLEAN
    PROVE  /\ [m EXCEPT !.version = m.version + 1] \in TuneModels
           /\ [m EXCEPT !.active = b, !.version = m.version + 1] \in TuneModels
           /\ [m EXCEPT !.listener = b] \in TuneModels /\ [m EXCEPT !.live = b] \in TuneModels
           /\ [m EXCEPT !.version = m.version + 1].version = m.version + 1
           /\ [m EXCEPT !.active = b, !.version = m.version + 1].version = m.version + 1
           /\ [m EXCEPT !.listener = b].version = m.version /\ [m EXCEPT !.live = b].version = m.version
           /\ m.version \in Nat
<1>1. /\ m.version \in Nat /\ m.active \in BOOLEAN /\ m.listener \in BOOLEAN /\ m.live \in BOOLEAN
      /\ m = [version |-> m.version, active |-> m.active, listener |-> m.listener, live |-> m.live]
  BY DEF TuneModels
<1>2. PICK n : n = m.version + 1 /\ n \in Nat
  BY <1>1
<1>3. /\ [m EXCEPT !.version = n] = [version |-> n, active |-> m.active, listener |-> m.listener, live |-> m.live]
      /\ [m EXCEPT !.active = b, !.version = n] =
           [version |-> n, active |-> b, listener |-> m.listener, live |-> m.live]
      /\ [m EXCEPT !.listener = b] =
           [version |-> m.version, active |-> m.active, listener |-> b, live |-> m.live]
      /\ [m EXCEPT !.live = b] =
           [version |-> m.version, active |-> m.active, listener |-> m.listener, live |-> b]
  <2>1. PICK x, p, q, r : m = [version |-> x, active |-> p, listener |-> q, live |-> r]
    BY <1>1, Zenon
  <2>2. m.version = x /\ m.active = p /\ m.listener = q /\ m.live = r
    BY <2>1
  <2>3. [m EXCEPT !.version = n] = [version |-> n, active |-> p, listener |-> q, live |-> r]
    BY <2>1
  <2>4. [m EXCEPT !.active = b, !.version = n] = [version |-> n, active |-> b, listener |-> q, live |-> r]
    <3>1. [m EXCEPT !.active = b, !.version = n] = [[m EXCEPT !.active = b] EXCEPT !.version = n]
      OBVIOUS
    <3>2. [m EXCEPT !.active = b] = [version |-> x, active |-> b, listener |-> q, live |-> r]
      BY <2>1
    <3>3. [[version |-> x, active |-> b, listener |-> q, live |-> r] EXCEPT !.version = n] =
            [version |-> n, active |-> b, listener |-> q, live |-> r]
      OBVIOUS
    <3>4. QED
      BY <3>1, <3>2, <3>3, Zenon
  <2>5. [m EXCEPT !.listener = b] = [version |-> x, active |-> p, listener |-> b, live |-> r]
    BY <2>1
  <2>6. [m EXCEPT !.live = b] = [version |-> x, active |-> p, listener |-> q, live |-> b]
    BY <2>1
  <2>7. QED
    BY <2>2, <2>3, <2>4, <2>5, <2>6, Zenon
<1>4. /\ [m EXCEPT !.version = n] \in TuneModels
      /\ [m EXCEPT !.active = b, !.version = n] \in TuneModels
      /\ [m EXCEPT !.listener = b] \in TuneModels /\ [m EXCEPT !.live = b] \in TuneModels
  <2>1. \A x \in Nat, p, q, r \in BOOLEAN :
          [version |-> x, active |-> p, listener |-> q, live |-> r] \in TuneModels
    BY DEF TuneModels
  <2>2. /\ [version |-> n, active |-> m.active, listener |-> m.listener, live |-> m.live] \in TuneModels
        /\ [version |-> n, active |-> b, listener |-> m.listener, live |-> m.live] \in TuneModels
        /\ [version |-> m.version, active |-> m.active, listener |-> b, live |-> m.live] \in TuneModels
        /\ [version |-> m.version, active |-> m.active, listener |-> m.listener, live |-> b] \in TuneModels
    BY <1>1, <1>2, <2>1
  <2>3. QED
    BY <1>3, <2>2
<1>5. /\ [m EXCEPT !.version = n].version = n /\ [m EXCEPT !.active = b, !.version = n].version = n
      /\ [m EXCEPT !.listener = b].version = m.version /\ [m EXCEPT !.live = b].version = m.version
  BY <1>3, Zenon
<1>6. QED
  BY <1>1, <1>2, <1>4, <1>5, Zenon

LEMMA TuneLogTypes ==
    ASSUME Known, UNCHANGED << store, logs >>, tune' \in TuneModels
    PROVE  LogTypes'
BY KnownIs, Zenon DEF LogTypes

LEMMA ChangeKnown ==
    ASSUME Known, NEW t \in Services \cup {"ui"}, ChangeTune(t)
    PROVE  Known' /\ tune'.version = tune.version + 1
<1>1. /\ UNCHANGED << screen, feeds, store, logs, nav, app, clock >>
      /\ View("tune", t, tune.listener) /\ left.changes > 0
      /\ left' = [left EXCEPT !.changes = @ - 1]
  BY Zenon DEF ChangeTune
<1>2. tune' = [tune EXCEPT !.version = tune.version + 1] /\ \E lead : Turn(t, lead)
  BY KnownIs, ChangeTurns, Zenon
<1>3. tune' \in TuneModels /\ tune'.version = tune.version + 1
  <2>1. tune \in TuneModels /\ TRUE \in BOOLEAN
    BY KnownIs
  <2>2. QED
    BY <1>2, <2>1, TuneSteps, Zenon
<1>4. "tune" \in Dispatchers
  BY DEF Dispatchers
<1>5. ScreenTypes'
  BY <1>1, <1>4, ViewScreen, Zenon
<1>6. LogTypes'
  BY <1>1, <1>3, TuneLogTypes, Zenon
<1>7. FrameTypes'
  <2>1. left \in Inputs
    BY KnownIs, Zenon
  <2>2. left' \in Inputs
    BY <1>1, <2>1 DEF Inputs
  <2>3. QED
    BY <1>1, <2>2, KnownIs, Zenon DEF FrameTypes
<1>8. QED
  BY <1>1, <1>2, <1>3, <1>5, <1>6, <1>7, TypesKept, TurnKnown, Zenon

LEMMA TuneActiveKnown ==
    ASSUME Known, NEW t \in Threads, TuneActive(t)
    PROVE  Known'
<1>1. UNCHANGED << screen, feeds, store, logs, frame >>
  BY Zenon DEF TuneActive
<1>2. tune \in TuneModels
  BY KnownIs, Zenon
<1>3. \/ UNCHANGED << tune, late >> /\ Turn(t, NoCall)
      \/ /\ tune' = [tune EXCEPT !.active = ~tune.active, !.version = tune.version + 1]
         /\ View("tune", t, tune.listener) /\ \E lead : Turn(t, lead)
  BY KnownIs, TuneActiveTurns, Zenon
<1>4. CASE UNCHANGED << tune, late >> /\ Turn(t, NoCall)
  BY <1>1, <1>4, TypesKept, TurnKnown, Zenon DEF tuning
<1>5. CASE /\ tune' = [tune EXCEPT !.active = ~tune.active, !.version = tune.version + 1]
           /\ View("tune", t, tune.listener) /\ \E lead : Turn(t, lead)
  <2>1. tune' \in TuneModels
    <3>1. (~tune.active) \in BOOLEAN
      BY Zenon
    <3>2. QED
      BY <1>2, <1>5, <3>1, TuneSteps, Zenon
  <2>2. "tune" \in Dispatchers
    BY DEF Dispatchers
  <2>3. ScreenTypes' /\ LogTypes'
    BY <1>1, <1>5, <2>1, <2>2, ViewScreen, TuneLogTypes, Zenon
  <2>4. QED
    BY <1>1, <1>5, <2>3, TypesKept, TurnKnown, Zenon
<1>6. QED
  BY <1>3, <1>4, <1>5

LEMMA ListenKnown ==
    ASSUME Known, NEW t \in Threads, SetTuneListener(t)
    PROVE  Known' /\ tune'.version = tune.version
<1>1. /\ UNCHANGED << screen, feeds, store, logs, frame >>
      /\ tune' = [tune EXCEPT !.listener = Now(t).arg] /\ View("tune", t, Now(t).arg)
  BY Zenon DEF SetTuneListener
<1>2. Now(t).arg \in BOOLEAN /\ \E lead : Turn(t, lead)
  BY KnownIs, ListenTurns, Zenon
<1>3. tune' \in TuneModels /\ tune'.version = tune.version
  BY <1>1, <1>2, KnownIs, TuneSteps, Zenon
<1>4. "tune" \in Dispatchers
  BY DEF Dispatchers
<1>5. ScreenTypes' /\ LogTypes'
  BY <1>1, <1>3, <1>4, ViewScreen, TuneLogTypes, Zenon
<1>6. QED
  BY <1>1, <1>2, <1>3, <1>5, TypesKept, TurnKnown, Zenon

LEMMA LiveKnown ==
    ASSUME Known, NEW t \in Threads, SetLiveListener(t)
    PROVE  Known' /\ tune'.version = tune.version
<1>1. /\ UNCHANGED << screen, feeds, store, logs, frame, late >>
      /\ tune' = [tune EXCEPT !.live = Now(t).arg] /\ At(t, "live")
  BY Zenon DEF SetLiveListener
<1>2. Now(t).arg \in BOOLEAN
  BY <1>1, KnownIs, AtHead, CallsAre DEF Switches
<1>3. Steady
  BY KnownIs, LiveSteady, Zenon
<1>4. tune' \in TuneModels /\ tune'.version = tune.version
  BY <1>1, <1>2, KnownIs, TuneSteps, Zenon
<1>5. LogTypes'
  BY <1>1, <1>4, TuneLogTypes, Zenon
<1>6. QED
  BY <1>1, <1>3, <1>4, <1>5, TypesKept, SteadyKnown, Zenon

-----------------------------------------------------------------------------
(* Navigation, commands and closing.                                       *)

Navigations == [selected : Pages \cup {"none"}, monitorActive : BOOLEAN]

LEMMA NavigationWith ==
    ASSUME NEW n \in Navigations, NEW page \in Pages \cup {"none"}, NEW b \in BOOLEAN
    PROVE  /\ [n EXCEPT !.selected = page] \in Navigations
           /\ [n EXCEPT !.monitorActive = b] \in Navigations
BY DEF Navigations

LEMMA NavigationKnown ==
    ASSUME Known, Steady, nav' \in Navigations,
           UNCHANGED << screen, feeds, tuning, app, left, clock, late >>
    PROVE  Known'
<1>1. FrameTypes'
  BY KnownIs, Zenon DEF FrameTypes, Navigations
<1>2. QED
  BY <1>1, TypesKept, SteadyKnown, Zenon

LEMMA NavigationIs ==
    ASSUME Known
    PROVE  nav \in Navigations
BY KnownIs, Zenon DEF Navigations

LEMMA PageKnown ==
    ASSUME Known, NEW t \in Threads, SetMonitorActive(t)
    PROVE  Known'
<1>1. PICK b : b = Now(t).arg
  OBVIOUS
<1>2. /\ UNCHANGED << screen, feeds, tuning, app, left, clock, late >> /\ At(t, "page")
      /\ nav' = nav \/ nav' = [nav EXCEPT !.monitorActive = b]
  BY <1>1, Zenon DEF SetMonitorActive
<1>3. b \in BOOLEAN
  <2>1. Now(t).op = "page" /\ Now(t) \in Calls
    BY <1>2, KnownIs, AtHead, Zenon
  <2>2. "page" \in Switches
    BY DEF Switches
  <2>3. QED
    BY <1>1, <2>1, <2>2, CallsAre, Zenon
<1>4. "none" \in Pages \cup {"none"}
  OBVIOUS
<1>5. nav' \in Navigations
  BY <1>2, <1>3, <1>4, NavigationIs, NavigationWith, Zenon
<1>6. QED
  BY <1>2, <1>5, KnownIs, PageSteady, NavigationKnown, Zenon

LEMMA FlagKnown ==
    ASSUME Known, NEW t \in Threads, SetFlag(t)
    PROVE  Known'
<1>1. PICK b : b = Now(t).arg
  OBVIOUS
<1>2. /\ UNCHANGED << screen, feeds, tuning, app, left, clock, late >> /\ At(t, "flag")
      /\ nav' = [nav EXCEPT !.monitorActive = b]
  BY <1>1, Zenon DEF SetFlag
<1>3. b \in BOOLEAN
  BY <1>1, <1>2, KnownIs, AtHead, CallsAre DEF Switches
<1>4. "none" \in Pages \cup {"none"}
  OBVIOUS
<1>5. nav' \in Navigations
  BY <1>2, <1>3, <1>4, NavigationIs, NavigationWith, Zenon
<1>6. QED
  BY <1>2, <1>5, KnownIs, FlagSteady, NavigationKnown, Zenon

LEMMA EnterKnown ==
    ASSUME Known, Enter
    PROVE  Known'
<1>1. PICK page, b : page = Now("ui").on /\ b = FALSE
  OBVIOUS
<1>2. /\ UNCHANGED << screen, feeds, tuning, app, left, clock, late >>
      /\ nav' = [nav EXCEPT !.selected = page]
  BY <1>1, Zenon DEF Enter
<1>3. page \in Pages \cup {"none"} /\ Steady
  BY <1>1, KnownIs, EnterSteady, Zenon
<1>4. b \in BOOLEAN
  BY <1>1
<1>5. nav' \in Navigations
  BY <1>2, <1>3, <1>4, NavigationIs, NavigationWith, Zenon
<1>6. QED
  BY <1>2, <1>3, <1>5, NavigationKnown, Zenon

LEMMA DeselectKnown ==
    ASSUME Known, Deselect
    PROVE  Known'
<1>1. PICK b : b = FALSE
  OBVIOUS
<1>2. /\ UNCHANGED << screen, feeds, tuning, app, left, clock, late >>
      /\ nav' = [nav EXCEPT !.selected = "none"]
  BY Zenon DEF Deselect
<1>3. "none" \in Pages \cup {"none"} /\ Steady
  BY KnownIs, DeselectSteady, Zenon
<1>4. b \in BOOLEAN
  BY <1>1
<1>5. nav' \in Navigations
  BY <1>2, <1>3, <1>4, NavigationIs, NavigationWith, Zenon
<1>6. QED
  BY <1>2, <1>3, <1>5, NavigationKnown, Zenon

LEMMA QuitKnown ==
    ASSUME Known, Quit
    PROVE  Known'
<1>1. UNCHANGED << screen, feeds, tuning, frame, late >>
  BY Zenon DEF Quit
<1>2. QED
  BY <1>1, KnownIs, QuitSteady, TypesKept, SteadyKnown, Zenon

LEMMA StopKnown ==
    ASSUME Known, StopTelemetry
    PROVE  Known'
<1>1. UNCHANGED << screen, tuning, late >>
  BY Zenon DEF StopTelemetry
<1>2. FeedTypes' /\ FrameTypes'
  BY StopEffect, Zenon
<1>3. QED
  BY <1>1, <1>2, KnownIs, StopSteady, TypesKept, SteadyKnown, Zenon

LEMMA InputsWith ==
    ASSUME NEW l \in Inputs
    PROVE  /\ l.commands > 0 => [l EXCEPT !.commands = l.commands - 1] \in Inputs
           /\ l.catalogs > 0 => [l EXCEPT !.catalogs = l.catalogs - 1] \in Inputs
           /\ l.closes > 0 => [l EXCEPT !.closes = l.closes - 1] \in Inputs
BY DEF Inputs

LEMMA InputsKnown ==
    ASSUME Known, Steady, left' \in Inputs, app' \in [closing : BOOLEAN, stopped : BOOLEAN],
           UNCHANGED << screen, feeds, tuning, nav, clock, late >>
    PROVE  Known'
<1>1. FrameTypes'
  BY KnownIs, Zenon DEF FrameTypes
<1>2. QED
  BY <1>1, TypesKept, SteadyKnown, Zenon

LEMMA CommandKnown ==
    ASSUME Known, Steady, NEW calls, Command(calls)
    PROVE  Known'
<1>1. /\ UNCHANGED << screen, feeds, tuning, nav, app, clock, late >> /\ left.commands > 0
      /\ left' = [left EXCEPT !.commands = left.commands - 1]
  BY Zenon DEF Command
<1>2. left' \in Inputs
  BY <1>1, KnownIs, InputsWith, Zenon
<1>3. QED
  BY <1>1, <1>2, KnownIs, InputsKnown, Zenon

LEMMA SelectKnown ==
    ASSUME Known, SelectPage
    PROVE  Known'
<1>1. Steady
  BY KnownIs, InputsAre, SelectSteady, Zenon
<1>2. \E calls : Command(calls)
  BY Zenon DEF SelectPage
<1>3. QED
  BY <1>1, <1>2, CommandKnown, Zenon

LEMMA PauseKnown ==
    ASSUME Known, TogglePause
    PROVE  Known'
<1>1. Steady
  BY KnownIs, PauseSteady, Zenon
<1>2. \E calls : Command(calls)
  BY Zenon DEF TogglePause
<1>3. QED
  BY <1>1, <1>2, CommandKnown, Zenon

LEMMA ChooseMetricsKnown ==
    ASSUME Known, ChooseMetrics
    PROVE  Known'
<1>1. Steady
  BY KnownIs, InputsAre, ChooseMetricsSteady, Zenon
<1>2. \E calls : Command(calls)
  BY Zenon DEF ChooseMetrics
<1>3. QED
  BY <1>1, <1>2, CommandKnown, Zenon

LEMMA ChooseIntervalKnown ==
    ASSUME Known, ChooseInterval
    PROVE  Known'
<1>1. Steady
  BY KnownIs, ChooseIntervalSteady, Zenon
<1>2. \E calls : Command(calls)
  BY Zenon DEF ChooseInterval
<1>3. QED
  BY <1>1, <1>2, CommandKnown, Zenon

LEMMA CatalogKnown ==
    ASSUME Known, SetCatalog
    PROVE  Known'
<1>1. /\ UNCHANGED << screen, feeds, tuning, nav, app, clock, late >> /\ left.catalogs > 0
      /\ left' = [left EXCEPT !.catalogs = left.catalogs - 1]
  BY Zenon DEF SetCatalog
<1>2. Steady
  BY KnownIs, InputsAre, CatalogSteady, Zenon
<1>3. left' \in Inputs
  BY <1>1, KnownIs, InputsWith, Zenon
<1>4. QED
  BY <1>1, <1>2, <1>3, KnownIs, InputsKnown, Zenon

LEMMA BeginKnown ==
    ASSUME Known, BeginClose
    PROVE  Known'
<1>1. PICK b \in BOOLEAN : b = TRUE
  OBVIOUS
<1>2. /\ UNCHANGED << screen, feeds, tuning, nav, clock, late >> /\ left.closes > 0
      /\ left' = [left EXCEPT !.closes = left.closes - 1]
      /\ app' = [app EXCEPT !.closing = b]
  BY <1>1, Zenon DEF BeginClose
<1>3. Steady
  BY KnownIs, BeginSteady, Zenon
<1>4. left' \in Inputs
  BY <1>2, KnownIs, InputsWith, Zenon
<1>5. app' \in [closing : BOOLEAN, stopped : BOOLEAN]
  BY <1>2, KnownIs
<1>6. QED
  BY <1>2, <1>3, <1>4, <1>5, InputsKnown, Zenon

-----------------------------------------------------------------------------
(* The initial states.                                                     *)

LEMMA ScopesAre ==
    ASSUME PagesInit
    PROVE  left \in Inputs /\ left.metrics \in SUBSET MetricIDs
<1>1. left \in Inputs
  BY PagesAssumption, Zenon DEF PagesInit, Inputs
<1>2. QED
  BY <1>1, InputsAre, Zenon

LEMMA NewDispatcherTyped ==
    ASSUME NEW x \in Views
    PROVE  /\ NewLatestDispatcher(x) \in LatestDispatchers /\ ~NewLatestDispatcher(x).pending
           /\ NewLatestDispatcher(x).active /\ NewLatestDispatcher(x).epoch = 0
<1>1. PICK b, c \in BOOLEAN : b = TRUE /\ c = FALSE
  OBVIOUS
<1>2. PICK u : u = [latest |-> x, pending |-> c, active |-> b, epoch |-> 0]
  OBVIOUS
<1>3. u \in LatestDispatchers /\ u.pending = c /\ u.active = b /\ u.epoch = 0
  BY <1>2 DEF LatestDispatchers
<1>4. NewLatestDispatcher(x) = u
  BY <1>1, <1>2, Zenon DEF NewLatestDispatcher
<1>5. QED
  BY <1>1, <1>3, <1>4, Zenon

LEMMA InitScreen ==
    ASSUME PagesInit
    PROVE  /\ ScreenTypes
           /\ \A d \in Dispatchers : ~updates[d].pending /\ shown[d] = NewestView(d)
<1>1. /\ queue = << >> /\ late = [d \in Dispatchers |-> FALSE]
      /\ renewed = [d \in Dispatchers |-> FALSE]
      /\ updates = [d \in Dispatchers |-> NewLatestDispatcher(shown[d])]
      /\ shown = [d \in Dispatchers |->
                   CASE d \in Monitors -> StateOf(NewMonitor(left.metrics))
                     [] d = "tune" -> 0
                     [] d = "logs" -> << >>]
      /\ vm = [v \in Monitors |-> NewMonitor(left.metrics)]
      /\ store = << >> /\ tune.version = 0
  BY DEF PagesInit
<1>2. StateOf(NewMonitor(left.metrics)) \in Views
  BY ScopesAre, NewModel, StateIs, Zenon
<1>3. 0 \in Views /\ << >> \in Views
  <2>1. 0 \in Nat /\ << >> \in Seq(Nat)
    OBVIOUS
  <2>2. QED
    BY <2>1, Zenon DEF Views
<1>4. ASSUME NEW d \in Dispatchers
      PROVE  shown[d] \in Views /\ shown[d] = NewestView(d)
  <2>1. CASE d \in Monitors
    <3>1. shown[d] = StateOf(NewMonitor(left.metrics)) /\ vm[d] = NewMonitor(left.metrics)
      BY <1>1, <2>1 DEF Monitors
    <3>2. QED
      BY <1>2, <2>1, <3>1, Zenon DEF NewestView
  <2>2. CASE d = "tune"
    <3>1. shown[d] = 0 /\ d \notin Monitors /\ d # "logs"
      BY <1>1, <2>2 DEF Monitors
    <3>2. QED
      BY <1>1, <1>3, <3>1, Zenon DEF NewestView
  <2>3. CASE d = "logs"
    <3>1. shown[d] = << >> /\ d \notin Monitors
      BY <1>1, <2>3 DEF Monitors
    <3>2. QED
      BY <1>1, <1>3, <2>3, <3>1, Zenon DEF NewestView
  <2>4. QED
    BY <2>1, <2>2, <2>3 DEF Dispatchers
<1>5. \A d \in Dispatchers : updates[d] = NewLatestDispatcher(shown[d])
  BY <1>1, Zenon
<1>6. \A d \in Dispatchers : updates[d] \in LatestDispatchers /\ ~updates[d].pending
  BY <1>4, <1>5, NewDispatcherTyped, Zenon
<1>7. updates \in [Dispatchers -> LatestDispatchers] /\ shown \in [Dispatchers -> Views]
  <2> DEFINE Begin(d) == CASE d \in Monitors -> StateOf(NewMonitor(left.metrics))
                           [] d = "tune" -> 0
                           [] d = "logs" -> << >>
             Hands(d) == NewLatestDispatcher(shown[d])
  <2>1. shown = [d \in Dispatchers |-> Begin(d)] /\ updates = [d \in Dispatchers |-> Hands(d)]
    BY <1>1, Zenon
  <2> HIDE DEF Begin, Hands
  <2>2. \A d \in Dispatchers : Begin(d) = shown[d] /\ Hands(d) = updates[d]
    BY <2>1, Zenon
  <2>3. \A d \in Dispatchers : Begin(d) \in Views /\ Hands(d) \in LatestDispatchers
    BY <1>4, <1>6, <2>2, Zenon
  <2>4. QED
    BY <2>1, <2>3, Zenon
<1>8. late \in [Dispatchers -> BOOLEAN] /\ renewed \in [Dispatchers -> BOOLEAN]
  BY <1>1, Zenon
<1>9. queue \in Seq([on : Dispatchers, epoch : Nat])
  BY <1>1
<1>10. QED
  BY <1>4, <1>6, <1>7, <1>8, <1>9, Zenon DEF ScreenTypes

LEMMA InitFeeds ==
    ASSUME PagesInit
    PROVE  /\ FeedTypes
           /\ \A v \in Monitors : ~vm[v].active /\ vm[v].handle = "none"
           /\ \A v \in Monitors, id \in MetricIDs : Snapshot(vm[v].rings[id]) = << >>
           /\ \A v \in Monitors, id \in MetricIDs : received[v][id] = << >>
           /\ \A w \in Workers : subs[w] = FreeSubscription
<1>1. /\ vm = [v \in Monitors |-> NewMonitor(left.metrics)]
      /\ subs = [w \in Workers |-> FreeSubscription]
      /\ received = [v \in Monitors |-> [id \in MetricIDs |-> << >>]]
  BY DEF PagesInit
<1>2. left.metrics \in SUBSET MetricIDs
  BY ScopesAre, Zenon
<1>3. /\ NewMonitor(left.metrics) \in MonitorModels /\ ~NewMonitor(left.metrics).active
      /\ NewMonitor(left.metrics).handle = "none"
      /\ \A id \in MetricIDs : Snapshot(NewMonitor(left.metrics).rings[id]) = << >>
  BY <1>2, NewModel, Zenon
<1>4. \A v \in Monitors : vm[v] = NewMonitor(left.metrics)
  BY <1>1, Zenon
<1>5. \A w \in Workers : subs[w] = FreeSubscription
  BY <1>1, Zenon
<1>6. vm \in [Monitors -> MonitorModels] /\ subs \in [Workers -> WindowSubscriptions]
  BY <1>1, <1>3, FreeIs, Zenon
<1>7. received \in [Monitors -> [MetricIDs -> Seq(Samples)]]
  <2>1. << >> \in Seq(Samples)
    OBVIOUS
  <2>2. QED
    BY <1>1, <2>1, Zenon
<1>8. \A v \in Monitors, id \in MetricIDs : received[v][id] = << >>
  BY <1>1, Zenon
<1>9. \A v \in Monitors : ~vm[v].active /\ vm[v].handle = "none"
  BY <1>3, <1>4, Zenon
<1>10. \A w \in Workers : subs[w].box = << >>
  BY <1>5, FreeIs, Zenon
<1>11. FeedTypes
  BY <1>6, <1>7, <1>9, <1>10, Zenon DEF FeedTypes
<1>12. QED
  BY <1>3, <1>4, <1>5, <1>8, <1>9, <1>11, Zenon

LEMMA InitKnown ==
    ASSUME PagesInit
    PROVE  /\ Known /\ ~logs.active
           /\ \A t \in Threads : todo[t] = << >> /\ Leads[t] = NoCall
           /\ queue = << >>
<1>1. /\ todo = [t \in Threads |-> << >>] /\ queue = << >>
      /\ nav = [selected |-> "none", monitorActive |-> FALSE]
      /\ store = << >>
      /\ logs = [active |-> FALSE, handle |-> "none"]
      /\ tune = [version |-> 0, active |-> FALSE, listener |-> FALSE, live |-> FALSE]
      /\ app = [closing |-> FALSE, stopped |-> FALSE] /\ clock = 0
  BY DEF PagesInit
<1>2. \A t \in Threads : todo[t] = << >>
  BY <1>1, Zenon
<1>3. todo \in [Threads -> Seq(Calls)]
  <2>1. << >> \in Seq(Calls)
    OBVIOUS
  <2>2. QED
    BY <1>1, <2>1, Zenon
<1>4. Shape
  BY <1>2, NothingShaped, Zenon DEF Shape
<1>5. Roles
  <2>1. "closer" \in Threads
    BY DEF Threads
  <2>2. \A t \in Threads : DOMAIN todo[t] = {}
    BY <1>2
  <2>3. QED
    BY <1>2, <2>1, <2>2, Zenon DEF Roles
<1>6. PICK c \in BOOLEAN : c = FALSE
  OBVIOUS
<1>7. /\ nav = [selected |-> "none", monitorActive |-> c]
      /\ logs = [active |-> c, handle |-> "none"]
      /\ tune = [version |-> 0, active |-> c, listener |-> c, live |-> c]
      /\ app = [closing |-> c, stopped |-> c]
  BY <1>1, <1>6, Zenon
<1>8. FrameTypes
  <2>1. nav \in [selected : Pages \cup {"none"}, monitorActive : BOOLEAN]
    BY <1>7
  <2>2. app \in [closing : BOOLEAN, stopped : BOOLEAN] /\ clock \in Nat
    BY <1>1, <1>7
  <2>3. QED
    BY <2>1, <2>2, ScopesAre, Zenon DEF FrameTypes
<1>9. LogTypes /\ ~logs.active
  <2>1. logs \in [active : BOOLEAN, handle : Workers \cup {"none"}] /\ logs.active = c
    BY <1>7
  <2>2. tune \in TuneModels
    BY <1>7 DEF TuneModels
  <2>3. store \in Seq(Nat)
    BY <1>1
  <2>4. QED
    BY <1>6, <2>1, <2>2, <2>3, Zenon DEF LogTypes
<1>10. PagesTypes
  BY <1>3, <1>8, <1>9, InitScreen, InitFeeds, Zenon DEF PagesTypes
<1>11. \A t \in Threads : Leads[t] = NoCall
  BY <1>2, LeadsAre, NothingShaped, Zenon
<1>12. QED
  BY <1>1, <1>2, <1>4, <1>5, <1>9, <1>10, <1>11, Zenon DEF Known

=============================================================================
