-------------------------- MODULE StudioPagesProofs --------------------------
(***************************************************************************)
(* Machine-checked proofs about StudioPages, for every set of metrics,     *)
(* every pattern of frames, and any number of callbacks and workers under  *)
(* way: what each kind of step keeps, the inductive invariant, and the     *)
(* theorems.  They rest on the lemmas of MonitoringProofs.                 *)
(***************************************************************************)
EXTENDS MonitoringProofs

-----------------------------------------------------------------------------
(* The kinds of steps.                                                     *)

\* Steps that hand nothing to the UI's queue and change no subscription.
CalmStep ==
  \/ UNCHANGED pagesVars
  \/ Render \/ Refresh \/ Enter \/ Quit \/ Deselect
  \/ SelectPage \/ TogglePause \/ ChooseMetrics \/ ChooseInterval
  \/ SetCatalog \/ BeginClose
  \/ \E t \in Services \cup {"ui"} : ChangeTune(t)
  \/ \E t \in Threads :
       \/ SetInterval(t) \/ PublishState(t) \/ LookAtEvents(t)
       \/ TuneActive(t) \/ SetTuneListener(t) \/ SetLiveListener(t)
       \/ SetMonitorActive(t) \/ SetFlag(t)

\* Steps that change what a view model has, or what a subscription carries.
FeedStep ==
  \/ AppendEvent \/ StopTelemetry
  \/ \E t \in Threads : SetMetricIDs(t)
  \/ \E w \in Workers : Deliver(w) \/ Consume(w) \/ TakeEvent(w)

\* Steps of a dispatcher.
HandStep ==
  \/ RunCallback
  \/ \E t \in Threads :
       Submit(t) \/ Dispatch(t) \/ CancelUpdates(t) \/ ResumeUpdates(t)

\* Steps that give out or take back a subscription.
LinkStep ==
  \/ \E t \in Threads :
       \/ MonitorUp(t) \/ MonitorDown(t) \/ CloseHandle(t) \/ Await(t)
       \/ LogsUp(t) \/ LogsDown(t) \/ Go(t)
  \/ \E w \in Workers : EndSubscription(w)

LEMMA StepKinds ==
    ASSUME [PagesNext]_pagesVars
    PROVE  CalmStep \/ FeedStep \/ HandStep \/ LinkStep
<1>1. "ui" \in Threads /\ "closer" \in Threads /\ Workers \subseteq Threads /\ Services \subseteq Threads
  BY DEF Threads
<1>2. ASSUME NEW t \in Threads, CallStep(t)
      PROVE  CalmStep \/ FeedStep \/ HandStep \/ LinkStep
  BY <1>2, Zenon DEF CallStep, CalmStep, FeedStep, HandStep, LinkStep
<1>3. CASE Environment
  BY <1>3, Zenon DEF Environment, CalmStep, FeedStep
<1>4. CASE UiStep
  <2>1. \/ CallStep("ui")
        \/ RunCallback \/ Render \/ Refresh \/ Enter
    BY <1>4, Zenon DEF UiStep
  <2>2. QED
    BY <1>1, <1>2, <2>1, Zenon DEF CalmStep, HandStep
<1>5. CASE CloserStep
  <2>1. CallStep("closer") \/ Quit \/ Deselect \/ StopTelemetry
    BY <1>5, Zenon DEF CloserStep
  <2>2. QED
    BY <1>1, <1>2, <2>1, Zenon DEF CalmStep, FeedStep
<1>6. CASE \E w \in Workers : WorkerStep(w)
  <2>1. PICK w \in Workers : CallStep(w) \/ Consume(w) \/ EndSubscription(w) \/ TakeEvent(w)
    BY <1>6, Zenon DEF WorkerStep
  <2>2. QED
    BY <1>1, <1>2, <2>1, Zenon DEF FeedStep, LinkStep
<1>7. CASE \E g \in Services : CallStep(g)
  BY <1>1, <1>2, <1>7, Zenon
<1>8. CASE UNCHANGED pagesVars
  BY <1>8, Zenon DEF CalmStep
<1>9. QED
  BY <1>3, <1>4, <1>5, <1>6, <1>7, <1>8, Zenon DEF PagesNext, System

LEMMA UnchangedIs ==
    ASSUME UNCHANGED pagesVars
    PROVE  /\ UNCHANGED << todo, queue, updates, shown, renewed, late >>
           /\ UNCHANGED << vm, subs, received, store, logs, tune >>
           /\ UNCHANGED << nav, app, left, clock >>
           /\ UNCHANGED << screen, feeds, tuning, frame >>
BY Zenon DEF pagesVars, screen, feeds, tuning, frame

LEMMA StutterKnown ==
    ASSUME Known, UNCHANGED pagesVars
    PROVE  Known'
BY UnchangedIs, KnownIs, UnmovedSteady, TypesKept, SteadyKnown, Zenon

LEMMA CalmKnown ==
    ASSUME Known, CalmStep
    PROVE  Known'
BY StutterKnown, RenderKnown, RefreshKnown, EnterKnown, QuitKnown, DeselectKnown,
   SelectKnown, PauseKnown, ChooseMetricsKnown, ChooseIntervalKnown, CatalogKnown, BeginKnown,
   ChangeKnown, IntervalKnown, PublishKnown, LookKnown, TuneActiveKnown, ListenKnown, LiveKnown,
   PageKnown, FlagKnown, Zenon
   DEF CalmStep

LEMMA FeedKnown ==
    ASSUME Known, FeedStep
    PROVE  Known'
BY AppendKnown, StopKnown, ChooseKnown, DeliverKnown, ConsumeKnown, TakeKnown, Zenon DEF FeedStep

LEMMA HandKnown ==
    ASSUME Known, HandStep
    PROVE  Known'
BY CallbackKnown, SubmitKnown, DispatchKnown, CancelKnown, ResumeKnown, Zenon DEF HandStep

LEMMA LinkKnown ==
    ASSUME Known, LinkStep
    PROVE  Known'
BY UpKnown, DownKnown, CloseKnown, AwaitKnown, LogsUpKnown, LogsDownKnown, GoKnown, EndKnown, Zenon
   DEF LinkStep

LEMMA StepKnown ==
    ASSUME Known, [PagesNext]_pagesVars
    PROVE  Known'
BY StepKinds, CalmKnown, FeedKnown, HandKnown, LinkKnown, Zenon

-----------------------------------------------------------------------------
(* What each kind of step leaves alone.                                    *)

\* The kinds of urgent calls that only some steps come to or leave.
Handing == {"dispatch", "render", "close", "await"}

LEMMA StillLeads ==
    ASSUME LeadsSame(Handing)
    PROVE  /\ LeadsSame({"dispatch"}) /\ LeadsSame({"render"}) /\ LeadsSame({"close", "await"})
BY DEF LeadsSame, Handing

LEMMA SteadyStill ==
    ASSUME Steady
    PROVE  LeadsSame(Handing)
BY SteadySame, Zenon

LEMMA TurnStill ==
    ASSUME NEW t \in Threads, NEW b, NEW d, NEW x, Leads[t] = NoCall,
           Turn(t, IF b THEN Call("submit", d, x) ELSE NoCall) \/ Turn(t, Call("submit", d, x))
             \/ Turn(t, NoCall)
    PROVE  LeadsSame(Handing)
<1>1. NoCall.op \notin Handing
  BY NoCallIs DEF Handing
<1>2. Call("submit", d, x).op \notin Handing
  BY CallIs DEF Handing
<1>3. (IF b THEN Call("submit", d, x) ELSE NoCall).op \notin Handing
  BY <1>1, <1>2
<1>4. QED
  BY <1>1, <1>2, <1>3, TurnSame, Zenon

Still == LeadsSame(Handing) /\ UNCHANGED << queue, updates, renewed, feeds, logs, clock >> /\ ClosingRests

LEMMA SameClosing ==
    ASSUME app' = app
    PROVE  ClosingRests
BY Zenon DEF ClosingRests

LEMMA StillFrom ==
    ASSUME LeadsSame(Handing), UNCHANGED << screen, feeds, logs, app, clock >>
    PROVE  Still
BY SameClosing, Zenon DEF Still, screen

LEMMA StillTuning ==
    ASSUME LeadsSame(Handing), UNCHANGED << screen, feeds, tuning, app, clock >>
    PROVE  Still
BY StillFrom, Zenon DEF tuning

LEMMA StillFrame ==
    ASSUME LeadsSame(Handing), UNCHANGED << screen, feeds, logs, frame >>
    PROVE  Still
BY StillFrom, Zenon DEF frame

LEMMA CalmStill ==
    ASSUME Known, CalmStep, ~Render
    PROVE  Still
<1>1. CASE UNCHANGED pagesVars
  <2>1. LeadsSame(Handing)
    BY <1>1, UnchangedIs, KnownIs, UnmovedSteady, SteadyStill, Zenon
  <2>2. QED
    BY <1>1, <2>1, UnchangedIs, StillTuning, Zenon
<1>2. CASE Refresh
  <2>1. UNCHANGED << queue, updates, renewed, feeds, tuning, frame >>
    BY <1>2, Zenon DEF Refresh
  <2>2. LeadsSame(Handing)
    BY <1>2, KnownIs, RefreshSteady, SteadyStill, Zenon
  <2>3. QED
    BY <2>1, <2>2, SameClosing, Zenon DEF Still, tuning, frame
<1>3. CASE Enter
  <2>1. UNCHANGED << screen, feeds, tuning, app, left, clock, late >>
    BY <1>3, Zenon DEF Enter
  <2>2. QED
    BY <1>3, <2>1, KnownIs, EnterSteady, SteadyStill, StillTuning, Zenon
<1>4. CASE Quit
  <2>1. UNCHANGED << screen, feeds, tuning, frame, late >>
    BY <1>4, Zenon DEF Quit
  <2>2. QED
    BY <1>4, <2>1, KnownIs, QuitSteady, SteadyStill, StillFrame, Zenon DEF tuning
<1>5. CASE Deselect
  <2>1. UNCHANGED << screen, feeds, tuning, app, left, clock, late >>
    BY <1>5, Zenon DEF Deselect
  <2>2. QED
    BY <1>5, <2>1, KnownIs, DeselectSteady, SteadyStill, StillTuning, Zenon
<1>6. ASSUME NEW calls, Command(calls), Steady
      PROVE  Still
  <2>1. UNCHANGED << screen, feeds, tuning, nav, app, clock, late >>
    BY <1>6, Zenon DEF Command
  <2>2. QED
    BY <1>6, <2>1, SteadyStill, StillTuning, Zenon
<1>7. CASE SelectPage
  <2>1. Steady
    BY <1>7, KnownIs, InputsAre, SelectSteady, Zenon
  <2>2. QED
    BY <1>6, <1>7, <2>1, Zenon DEF SelectPage
<1>8. CASE TogglePause
  <2>1. Steady
    BY <1>8, KnownIs, PauseSteady, Zenon
  <2>2. QED
    BY <1>6, <1>8, <2>1, Zenon DEF TogglePause
<1>9. CASE ChooseMetrics
  <2>1. Steady
    BY <1>9, KnownIs, InputsAre, ChooseMetricsSteady, Zenon
  <2>2. QED
    BY <1>6, <1>9, <2>1, Zenon DEF ChooseMetrics
<1>10. CASE ChooseInterval
  <2>1. Steady
    BY <1>10, KnownIs, ChooseIntervalSteady, Zenon
  <2>2. QED
    BY <1>6, <1>10, <2>1, Zenon DEF ChooseInterval
<1>11. CASE SetCatalog
  <2>1. UNCHANGED << screen, feeds, tuning, nav, app, clock, late >>
    BY <1>11, Zenon DEF SetCatalog
  <2>2. QED
    BY <1>11, <2>1, KnownIs, InputsAre, CatalogSteady, SteadyStill, StillTuning, Zenon
<1>12. CASE BeginClose
  <2>1. UNCHANGED << screen, feeds, tuning, nav, clock, late >>
    BY <1>12, Zenon DEF BeginClose
  <2>2. Steady /\ app'.closing
    BY <1>12, KnownIs, BeginSteady, Zenon
  <2>3. QED
    BY <2>1, <2>2, SteadyStill, Zenon DEF Still, ClosingRests, screen, tuning
<1>13. ASSUME NEW t \in Services \cup {"ui"}, ChangeTune(t)
       PROVE  Still
  <2>1. UNCHANGED << screen, feeds, store, logs, nav, app, clock >>
    BY <1>13, Zenon DEF ChangeTune
  <2>2. t \in Threads
    BY DEF Threads
  <2>3. LeadsSame(Handing)
    BY <1>13, <2>2, KnownIs, ChangeTurns, TurnStill, Zenon
  <2>4. QED
    BY <2>1, <2>2, <2>3, StillFrom, Zenon
<1>14. ASSUME NEW t \in Threads, SetInterval(t)
       PROVE  Still
  <2>1. UNCHANGED << screen, feeds, tuning, frame, late >>
    BY <1>14, Zenon DEF SetInterval
  <2>2. QED
    BY <1>14, <2>1, KnownIs, IntervalSteady, SteadyStill, StillFrame, Zenon DEF tuning
<1>15. ASSUME NEW t \in Threads, PublishState(t)
       PROVE  Still
  <2>1. UNCHANGED << screen, feeds, tuning, frame >>
    BY <1>15, Zenon DEF PublishState
  <2>2. LeadsSame(Handing)
    BY <1>15, KnownIs, PublishTurns, TurnStill, Zenon
  <2>3. QED
    BY <2>1, <2>2, StillFrame, Zenon DEF tuning
<1>16. ASSUME NEW t \in Threads, LookAtEvents(t)
       PROVE  Still
  <2>1. UNCHANGED << screen, feeds, tuning, frame >>
    BY <1>16, Zenon DEF LookAtEvents
  <2>2. LeadsSame(Handing)
    BY <1>16, KnownIs, LookTurns, TurnStill, Zenon
  <2>3. QED
    BY <2>1, <2>2, StillFrame, Zenon DEF tuning
<1>17. ASSUME NEW t \in Threads, TuneActive(t)
       PROVE  Still
  <2>1. UNCHANGED << screen, feeds, store, logs, frame >>
    BY <1>17, Zenon DEF TuneActive
  <2>2. LeadsSame(Handing)
    BY <1>17, KnownIs, TuneActiveTurns, TurnStill, Zenon
  <2>3. QED
    BY <2>1, <2>2, StillFrame, Zenon
<1>18. ASSUME NEW t \in Threads, SetTuneListener(t)
       PROVE  Still
  <2>1. UNCHANGED << screen, feeds, store, logs, frame >>
    BY <1>18, Zenon DEF SetTuneListener
  <2>2. LeadsSame(Handing)
    BY <1>18, KnownIs, ListenTurns, TurnStill, Zenon
  <2>3. QED
    BY <2>1, <2>2, StillFrame, Zenon
<1>19. ASSUME NEW t \in Threads, SetLiveListener(t)
       PROVE  Still
  <2>1. UNCHANGED << screen, feeds, store, logs, frame, late >>
    BY <1>19, Zenon DEF SetLiveListener
  <2>2. QED
    BY <1>19, <2>1, KnownIs, LiveSteady, SteadyStill, StillFrame, Zenon
<1>20. ASSUME NEW t \in Threads, SetMonitorActive(t)
       PROVE  Still
  <2>1. UNCHANGED << screen, feeds, tuning, app, left, clock, late >>
    BY <1>20, Zenon DEF SetMonitorActive
  <2>2. QED
    BY <1>20, <2>1, KnownIs, PageSteady, SteadyStill, StillTuning, Zenon
<1>21. ASSUME NEW t \in Threads, SetFlag(t)
       PROVE  Still
  <2>1. UNCHANGED << screen, feeds, tuning, app, left, clock, late >>
    BY <1>21, Zenon DEF SetFlag
  <2>2. QED
    BY <1>21, <2>1, KnownIs, FlagSteady, SteadyStill, StillTuning, Zenon
<1>22. QED
  BY <1>1, <1>2, <1>3, <1>4, <1>5, <1>7, <1>8, <1>9, <1>10, <1>11, <1>12, <1>13, <1>14, <1>15,
     <1>16, <1>17, <1>18, <1>19, <1>20, <1>21, Zenon DEF CalmStep

LEMMA OpenedKept ==
    ASSUME NEW w \in Workers, SameBut(subs'[w], subs[w]) \/ subs'[w] = subs[w], Opened(w)
    PROVE  Opened(w)'
BY Zenon DEF SameBut, Opened

\* Steps after which each view model has what it had, and each subscription differs
\* from before in its frame only.
LEMMA SameFeeds ==
    ASSUME \A v \in Monitors : (vm'[v].active <=> vm[v].active) /\ vm'[v].handle = vm[v].handle,
           \A w \in Workers : SameBut(subs'[w], subs[w]) \/ subs'[w] = subs[w],
           UNCHANGED << logs, app >>, LeadsSame(Handing)
    PROVE  FeedsRest
<1>1. \A w \in Workers : /\ subs'[w].owner = subs[w].owner /\ subs'[w].status = subs[w].status
                         /\ Opened(w) => Opened(w)'
  BY OpenedKept, Zenon DEF SameBut
<1>2. QED
  BY <1>1, StillLeads, SameClosing, Zenon DEF FeedsRest

LEMMA FeedsStill ==
    ASSUME Known, FeedStep
    PROVE  LeadsSame(Handing) /\ UNCHANGED screen /\ FeedsRest
<1>1. CASE AppendEvent
  <2>1. UNCHANGED << todo, screen, vm, logs, app >>
    BY <1>1, Zenon DEF AppendEvent
  <2>2. LeadsSame(Handing)
    BY <2>1, KnownIs, UnmovedSteady, SteadyStill, Zenon
  <2>3. \A w \in Workers : SameBut(subs'[w], subs[w])
    BY <1>1, AppendEffect, Zenon
  <2>4. QED
    BY <2>1, <2>2, <2>3, SameFeeds, Zenon
<1>2. CASE StopTelemetry
  <2>1. UNCHANGED << screen, vm, tuning >>
    BY <1>2, Zenon DEF StopTelemetry
  <2>2. LeadsSame(Handing)
    BY <1>2, KnownIs, StopSteady, SteadyStill, Zenon
  <2>3. /\ app'.closing <=> app.closing
        /\ \A u \in Workers : subs'[u].owner = subs[u].owner /\ subs'[u].status = subs[u].status
        /\ \A u \in Workers : subs[u].owner \notin Monitors => subs'[u] = subs[u]
    BY <1>2, StopEffect, Zenon
  <2>4. ASSUME NEW w \in Workers, Opened(w)
        PROVE  Opened(w)'
    <3>1. subs[w].owner \notin Monitors
      BY <2>4 DEF Opened, Monitors
    <3>2. QED
      BY <2>3, <2>4, <3>1, OpenedKept, Zenon
  <2>5. QED
    BY <2>1, <2>2, <2>3, <2>4, StillLeads, Zenon DEF FeedsRest, ClosingRests, tuning
<1>3. ASSUME NEW t \in Threads, SetMetricIDs(t)
      PROVE  LeadsSame(Handing) /\ UNCHANGED screen /\ FeedsRest
  <2>1. UNCHANGED << screen, subs, logs, app >>
    BY <1>3, Zenon DEF SetMetricIDs, tuning, frame
  <2>2. LeadsSame(Handing)
    BY <1>3, KnownIs, ChooseSteady, SteadyStill, Zenon
  <2>3. \A v \in Monitors : (vm'[v].active <=> vm[v].active) /\ vm'[v].handle = vm[v].handle
    BY <1>3, ChooseEffect, Zenon
  <2>4. \A w \in Workers : subs'[w] = subs[w]
    BY <2>1, Zenon
  <2>5. QED
    BY <2>1, <2>2, <2>3, <2>4, SameFeeds, Zenon
<1>4. ASSUME NEW w \in Workers, Deliver(w)
      PROVE  LeadsSame(Handing) /\ UNCHANGED screen /\ FeedsRest
  <2>1. UNCHANGED << todo, screen, vm, logs, app >>
    BY <1>4, Zenon DEF Deliver, tuning
  <2>2. LeadsSame(Handing)
    BY <2>1, KnownIs, UnmovedSteady, SteadyStill, Zenon
  <2>3. \A u \in Workers : SameBut(subs'[u], subs[u]) \/ subs'[u] = subs[u]
    BY <1>4, DeliverEffect, Zenon
  <2>4. QED
    BY <2>1, <2>2, <2>3, SameFeeds, Zenon
<1>5. ASSUME NEW w \in Workers, Consume(w)
      PROVE  LeadsSame(Handing) /\ UNCHANGED screen /\ FeedsRest
  <2>1. UNCHANGED << screen, logs, app >>
    BY <1>5, Zenon DEF Consume, tuning, frame
  <2>2. PICK v, samples : v = subs[w].owner /\ samples = subs[w].box[1]
    OBVIOUS
  <2>3. /\ \A x \in Monitors : (vm'[x].active <=> vm[x].active) /\ vm'[x].handle = vm[x].handle
        /\ \A u \in Workers : SameBut(subs'[u], subs[u]) \/ subs'[u] = subs[u]
        /\ vm' \in [Monitors -> MonitorModels]
    BY <1>5, <2>2, ConsumeEffect, Zenon
  <2>4. LeadsSame(Handing)
    <3>1. w \in Threads
      BY WorkersAre, Zenon
    <3>2. QED
      BY <1>5, <2>2, <2>3, <3>1, KnownIs, ConsumeTurns, TurnStill, Zenon
  <2>5. QED
    BY <2>1, <2>3, <2>4, SameFeeds, Zenon
<1>6. ASSUME NEW w \in Workers, TakeEvent(w)
      PROVE  LeadsSame(Handing) /\ UNCHANGED screen /\ FeedsRest
  <2>1. UNCHANGED << screen, vm, logs, app >>
    BY <1>6, Zenon DEF TakeEvent, tuning, frame
  <2>2. LeadsSame(Handing)
    BY <1>6, KnownIs, TakeSteady, SteadyStill, Zenon
  <2>3. \A u \in Workers : SameBut(subs'[u], subs[u]) \/ subs'[u] = subs[u]
    BY <1>6, TakeEffect, Zenon
  <2>4. QED
    BY <2>1, <2>2, <2>3, SameFeeds, Zenon
<1>7. QED
  BY <1>1, <1>2, <1>3, <1>4, <1>5, <1>6, Zenon DEF FeedStep

\* The kinds of calls that a dispatcher's step finishes, and that it leaves.
HandsFrom == {"none", "submit", "dispatch"}
HandsTo == {"none", "dispatch", "render"}

LEMMA HandTurn ==
    ASSUME NEW t \in Threads, NEW lead, Turn(t, lead), NEW call, Leads[t] = call,
           call.op \in HandsFrom, lead.op \in HandsTo
    PROVE  LeadsSame({"close", "await"})
<1>1. Leads[t].op \notin {"close", "await"} /\ lead.op \notin {"close", "await"}
  BY DEF HandsFrom, HandsTo
<1>2. QED
  BY <1>1, TurnSame, Zenon

LEMMA HandStill ==
    ASSUME Known, HandStep
    PROVE  FeedsRest /\ UNCHANGED << feeds, tuning, frame >>
<1>2. \A d, e, x : /\ Call("dispatch", d, e).op \in HandsFrom
                   /\ Call("dispatch", d, e).op \in HandsTo
                   /\ Call("render", d, x).op \in HandsTo
  BY CallIs DEF HandsFrom, HandsTo
<1>3. NoCall.op \in HandsFrom /\ NoCall.op \in HandsTo
  BY NoCallIs DEF HandsFrom, HandsTo
<1>4. UNCHANGED << feeds, tuning, frame >>
  BY Zenon DEF HandStep, RunCallback, Submit, Dispatch, CancelUpdates, ResumeUpdates
<1>5. LeadsSame({"close", "await"})
  <2>1. CASE RunCallback
    <3>1. PICK d, e : d = Head(queue).on /\ e = Head(queue).epoch
      OBVIOUS
    <3>2. "ui" \in Threads
      BY DEF Threads
    <3>3. /\ Leads["ui"] = NoCall
          /\ Turn("ui", IF Renders(updates[d], e) THEN Call("render", d, updates[d].latest)
                                                  ELSE NoCall)
      BY <2>1, <3>1, KnownIs, CallbackTurns, Zenon
    <3>4. PICK lead : lead = IF Renders(updates[d], e) THEN Call("render", d, updates[d].latest)
                                                       ELSE NoCall
      OBVIOUS
    <3>6. lead.op \in HandsTo
      BY <1>2, <1>3, <3>4
    <3>5. QED
      BY <1>3, <3>2, <3>3, <3>4, <3>6, HandTurn, Zenon
  <2>2. ASSUME NEW t \in Threads, Submit(t)
        PROVE  LeadsSame({"close", "await"})
    <3>1. PICK d : d = Now(t).on
      OBVIOUS
    <3>2. /\ Leads[t] = Now(t) /\ Now(t).op = "submit"
          /\ Turn(t, IF Dispatches(updates[d]) THEN Call("dispatch", d, updates[d].epoch)
                                               ELSE NoCall)
      BY <2>2, <3>1, KnownIs, SubmitTurns, Zenon
    <3>3. PICK lead : lead = IF Dispatches(updates[d]) THEN Call("dispatch", d, updates[d].epoch)
                                                       ELSE NoCall
      OBVIOUS
    <3>6. lead.op \in HandsTo
      BY <1>2, <1>3, <3>3
    <3>4. Now(t).op \in HandsFrom
      BY <3>2 DEF HandsFrom
    <3>5. QED
      BY <3>2, <3>3, <3>4, <3>6, HandTurn, Zenon
  <2>3. ASSUME NEW t \in Threads, Dispatch(t)
        PROVE  LeadsSame({"close", "await"})
    <3>1. PICK d, e : Now(t) = Call("dispatch", d, e)
      BY <2>3, KnownIs, DispatchTurns
    <3>2. Leads[t] = Now(t) /\ Turn(t, NoCall)
      BY <2>3, KnownIs, DispatchTurns, Zenon
    <3>3. Now(t).op \in HandsFrom
      BY <1>2, <3>1, Zenon
    <3>4. QED
      BY <1>3, <3>2, <3>3, HandTurn, Zenon
  <2>4. ASSUME NEW t \in Threads, CancelUpdates(t)
        PROVE  LeadsSame({"close", "await"})
    BY <2>4, KnownIs, CancelSteady, SteadySame, Zenon
  <2>5. ASSUME NEW t \in Threads, ResumeUpdates(t)
        PROVE  LeadsSame({"close", "await"})
    BY <2>5, KnownIs, ResumeSteady, SteadySame, Zenon
  <2>6. QED
    BY <2>1, <2>2, <2>3, <2>4, <2>5, Zenon DEF HandStep
<1>6. UNCHANGED << vm, subs, logs, app >>
  BY <1>4, Zenon DEF feeds, tuning, frame
<1>7. QED
  BY <1>4, <1>5, <1>6, FeedsUnmoved, SameClosing, Zenon

\* The kinds of calls a step of a subscription finishes or leaves.
Links == {"none", "close", "await"}

LEMMA LinkTurn ==
    ASSUME NEW t \in Threads, NEW lead, Turn(t, lead), NEW call, Leads[t] = call,
           call.op \in Links, lead.op \in Links
    PROVE  LeadsSame({"dispatch", "render"})
<1>1. Leads[t].op \notin {"dispatch", "render"} /\ lead.op \notin {"dispatch", "render"}
  BY DEF Links
<1>2. QED
  BY <1>1, TurnSame, Zenon

LEMMA LinkStill ==
    ASSUME Known, LinkStep
    PROVE  LeadsSame({"dispatch", "render"}) /\ UNCHANGED << screen, frame, late, received, store, tune >>
<1>2. \A v, w : /\ Call("close", v, w).op \in Links
                /\ Call("await", v, w).op \in Links
  BY CallIs DEF Links
<1>3. NoCall.op \in Links
  BY NoCallIs DEF Links
<1>5. UNCHANGED << screen, frame, late, received, store, tune >>
  BY Zenon DEF LinkStep, MonitorUp, MonitorDown, CloseHandle, Await, LogsUp, LogsDown, Go,
               EndSubscription, feeds, tuning
<1>6. LeadsSame({"dispatch", "render"})
  <2>1. ASSUME NEW t \in Threads, MonitorUp(t) \/ LogsUp(t) \/ Go(t)
        PROVE  LeadsSame({"dispatch", "render"})
    BY <2>1, KnownIs, UpSteady, LogsUpSteady, GoSteady, SteadySame, Zenon
  <2>2. ASSUME NEW t \in Threads, MonitorDown(t)
        PROVE  LeadsSame({"dispatch", "render"})
    <3>1. PICK v : v = Now(t).on
      OBVIOUS
    <3>2. Leads[t] = NoCall /\ Turn(t, IF vm[v].active THEN Call("close", v, vm[v].handle) ELSE NoCall)
      BY <2>2, <3>1, KnownIs, DownTurns, Zenon
    <3>3. PICK lead : lead = IF vm[v].active THEN Call("close", v, vm[v].handle) ELSE NoCall
      OBVIOUS
    <3>4. lead.op \in Links
      BY <1>2, <1>3, <3>3
    <3>5. QED
      BY <1>3, <3>2, <3>3, <3>4, LinkTurn, Zenon
  <2>3. ASSUME NEW t \in Threads, CloseHandle(t)
        PROVE  LeadsSame({"dispatch", "render"})
    <3>1. PICK v, w : v = Now(t).on /\ w = Now(t).arg
      OBVIOUS
    <3>2. /\ Leads[t] = Call("close", v, w)
          /\ Turn(t, IF v \in Monitors THEN Call("await", v, w) ELSE NoCall)
      <4>1. Listed
        BY KnownIs, Zenon
      <4>2. QED
        BY <2>3, <3>1, <4>1, CloseTurns
    <3>3. PICK lead : lead = IF v \in Monitors THEN Call("await", v, w) ELSE NoCall
      OBVIOUS
    <3>4. lead.op \in Links
      BY <1>2, <1>3, <3>3
    <3>5. QED
      BY <1>2, <3>2, <3>3, <3>4, LinkTurn, Zenon
  <2>4. ASSUME NEW t \in Threads, Await(t)
        PROVE  LeadsSame({"dispatch", "render"})
    <3>1. PICK v, w : v = Now(t).on /\ w = Now(t).arg
      OBVIOUS
    <3>2. Leads[t] = Call("await", v, w) /\ Turn(t, NoCall)
      <4>1. Listed
        BY KnownIs, Zenon
      <4>2. v \in Monitors /\ Leads[t] = Call("await", v, w) /\ Kept /\ Turn(t, NoCall)
        BY <2>4, <3>1, <4>1, AwaitTurns
      <4>3. QED
        BY <4>2
    <3>3. QED
      BY <1>2, <1>3, <3>2, LinkTurn, Zenon
  <2>5. ASSUME NEW t \in Threads, LogsDown(t)
        PROVE  LeadsSame({"dispatch", "render"})
    <3>1. Leads[t] = NoCall /\ Turn(t, IF logs.active THEN Call("close", "logs", logs.handle) ELSE NoCall)
      BY <2>5, KnownIs, LogsDownTurns, Zenon
    <3>2. PICK lead : lead = IF logs.active THEN Call("close", "logs", logs.handle) ELSE NoCall
      OBVIOUS
    <3>3. lead.op \in Links
      BY <1>2, <1>3, <3>2
    <3>4. QED
      BY <1>3, <3>1, <3>2, <3>3, LinkTurn, Zenon
  <2>6. ASSUME NEW w \in Workers, EndSubscription(w)
        PROVE  LeadsSame({"dispatch", "render"})
    <3>1. UNCHANGED << todo, frame >>
      BY <2>6, Zenon DEF EndSubscription
    <3>2. QED
      BY <3>1, KnownIs, UnmovedSteady, SteadySame, Zenon DEF frame
  <2>7. QED
    BY <2>1, <2>2, <2>3, <2>4, <2>5, <2>6, Zenon DEF LinkStep
<1>7. QED
  BY <1>5, <1>6, Zenon

\* Steps of other kinds than a dispatcher's leave the callbacks alone, steps of other
\* kinds than a subscription's what view models have.
LEMMA CallbacksStill ==
    ASSUME Known, [PagesNext]_pagesVars, ~HandStep
    PROVE  CallbacksRest
<1>1. CASE Render
  <2>1. UNCHANGED << queue, updates, renewed >>
    BY <1>1, Zenon DEF Render
  <2>2. "ui" \in Threads
    BY DEF Threads
  <2>3. Leads["ui"].op = "render" /\ Turn("ui", NoCall)
    BY <1>1, KnownIs, RenderTurns, Zenon
  <2>4. Leads["ui"].op \notin {"dispatch"} /\ NoCall.op \notin {"dispatch"}
    BY <2>3, NoCallIs
  <2>5. QED
    BY <2>1, <2>2, <2>3, <2>4, TurnSame, Zenon DEF CallbacksRest
<1>2. CASE CalmStep /\ ~Render
  BY <1>2, CalmStill, StillLeads, Zenon DEF Still, CallbacksRest
<1>3. CASE FeedStep
  BY <1>3, FeedsStill, StillLeads, Zenon DEF CallbacksRest, screen
<1>4. CASE LinkStep
  <2>1. LeadsSame({"dispatch", "render"}) /\ UNCHANGED screen
    BY <1>4, LinkStill, Zenon
  <2>2. LeadsSame({"dispatch"})
    BY <2>1 DEF LeadsSame
  <2>3. QED
    BY <2>1, <2>2, Zenon DEF CallbacksRest, screen
<1>5. QED
  BY <1>1, <1>2, <1>3, <1>4, StepKinds, Zenon

LEMMA FeedsStay ==
    ASSUME Known, [PagesNext]_pagesVars, ~LinkStep
    PROVE  FeedsRest
<1>1. CASE Render
  <2>1. UNCHANGED << vm, subs, logs, app >>
    BY <1>1, Zenon DEF Render, feeds, tuning, frame
  <2>2. "ui" \in Threads
    BY DEF Threads
  <2>3. Leads["ui"].op = "render" /\ Turn("ui", NoCall)
    BY <1>1, KnownIs, RenderTurns, Zenon
  <2>4. Leads["ui"].op \notin {"close", "await"} /\ NoCall.op \notin {"close", "await"}
    BY <2>3, NoCallIs
  <2>5. QED
    BY <2>1, <2>2, <2>3, <2>4, TurnSame, FeedsUnmoved, SameClosing, Zenon
<1>2. CASE CalmStep /\ ~Render
  BY <1>2, CalmStill, StillLeads, FeedsUnmoved, Zenon DEF Still, feeds
<1>3. CASE FeedStep
  BY <1>3, FeedsStill, Zenon
<1>4. CASE HandStep
  BY <1>4, HandStill, Zenon
<1>5. QED
  BY <1>1, <1>2, <1>3, <1>4, StepKinds, Zenon

-----------------------------------------------------------------------------
(* Giving out and taking back subscriptions.                               *)

LEMMA WaitingIs ==
  \A t, v, w : /\ Waiting(t, v, w) <=> Waits(Leads[t], v, w)
               /\ Waiting(t, v, w)' <=> Waits(Leads'[t], v, w)
               /\ Closing(t, w) <=> Closes(Leads[t], w)
               /\ Closing(t, w)' <=> Closes(Leads'[t], w)
BY Zenon DEF Waiting, Closing

LEMMA SameCalls ==
  \A a, b, c, e, x, y : Call(a, b, c) = Call(e, x, y) <=> a = e /\ b = x /\ c = y
<1>1. TAKE a, b, c, e, x, y
<1>2. ASSUME Call(a, b, c) = Call(e, x, y)
      PROVE  a = e /\ b = x /\ c = y
  <2>1. /\ Call(a, b, c).op = Call(e, x, y).op /\ Call(a, b, c).on = Call(e, x, y).on
        /\ Call(a, b, c).arg = Call(e, x, y).arg
    BY <1>2, Zenon
  <2>2. QED
    BY <2>1, CallIs
<1>3. QED
  BY <1>2, Zenon

LEMMA WaitsAre ==
    ASSUME NEW v \in Monitors, NEW w
    PROVE  /\ \A x, y : ~Waits(NoCall, x, y) /\ ~Closes(NoCall, y)
           /\ \A x, y : Waits(Call("close", v, w), x, y) <=> x = v /\ y = w
           /\ \A x, y : Waits(Call("await", v, w), x, y) <=> x = v /\ y = w
           /\ \A y : ~Closes(Call("close", v, w), y) /\ ~Closes(Call("await", v, w), y)
<1>1. v # "logs"
  BY DEF Monitors
<1>2. \A x, y : ~Waits(NoCall, x, y) /\ ~Closes(NoCall, y)
  BY SameCalls DEF Waits, Closes, NoCall
<1>3. \A x, y : Waits(Call("close", v, w), x, y) <=> x = v /\ y = w
  BY SameCalls DEF Waits
<1>4. \A x, y : Waits(Call("await", v, w), x, y) <=> x = v /\ y = w
  BY SameCalls DEF Waits
<1>5. \A y : ~Closes(Call("close", v, w), y) /\ ~Closes(Call("await", v, w), y)
  BY <1>1, SameCalls DEF Closes
<1>6. QED
  BY <1>2, <1>3, <1>4, <1>5, Zenon

LEMMA ClosesAre ==
    ASSUME NEW w
    PROVE  /\ \A x, y : ~Waits(NoCall, x, y) /\ ~Closes(NoCall, y)
           /\ \A x \in Monitors : \A y : ~Waits(Call("close", "logs", w), x, y)
           /\ \A y : Closes(Call("close", "logs", w), y) <=> y = w
<1>1. "live" \in Monitors
  BY DEF Monitors
<1>2. \A x, y : ~Waits(NoCall, x, y) /\ ~Closes(NoCall, y)
  BY <1>1, WaitsAre, Zenon
<1>3. \A x \in Monitors : x # "logs"
  BY DEF Monitors
<1>4. \A x \in Monitors : \A y : ~Waits(Call("close", "logs", w), x, y)
  BY <1>3, SameCalls DEF Waits
<1>5. \A y : Closes(Call("close", "logs", w), y) <=> y = w
  BY SameCalls DEF Closes
<1>6. QED
  BY <1>2, <1>4, <1>5, Zenon

\* The parts of Claims and LogsKept.
LEMMA OwnersAre ==
    ASSUME Claims
    PROVE  /\ \A w \in Workers : subs[w].status = "free" => subs[w].owner = "none"
           /\ \A v \in Monitors, w \in Workers : Has(v, w) => subs[w].owner = v
BY Zenon DEF Claims

LEMMA WaitersAre ==
    ASSUME Claims
    PROVE  \A t \in Threads, v \in Monitors, w \in Workers :
             Waits(Leads[t], v, w) => subs[w].owner = v /\ ~Has(v, w)
BY Zenon DEF Claims, Waiting

LEMMA OneWaits ==
    ASSUME Claims
    PROVE  \A t, u \in Threads, v \in Monitors, w \in Workers :
             Waits(Leads[t], v, w) /\ Waits(Leads[u], v, w) => t = u
BY Zenon DEF Claims, Waiting

LEMMA OwnedIs ==
    ASSUME Claims, NEW v \in Monitors, NEW w \in Workers, subs[w].owner = v
    PROVE  Has(v, w) \/ \E t \in Threads : Waits(Leads[t], v, w)
BY Zenon DEF Claims, Waiting

LEMMA PausedIs ==
    ASSUME Claims, ~app.closing
    PROVE  \A v \in Monitors, w \in Workers : Waits(Leads["ui"], v, w) => ~vm[v].active
BY Zenon DEF Claims, Waiting

LEMMA ClaimsFrom ==
    ASSUME \A w \in Workers : subs'[w].status = "free" => subs'[w].owner = "none",
           \A v \in Monitors, w \in Workers : Has(v, w)' => subs'[w].owner = v,
           \A t \in Threads, v \in Monitors, w \in Workers :
             Waits(Leads'[t], v, w) => subs'[w].owner = v /\ ~Has(v, w)',
           \A t, u \in Threads, v \in Monitors, w \in Workers :
             Waits(Leads'[t], v, w) /\ Waits(Leads'[u], v, w) => t = u,
           \A w \in Workers : \A v \in Monitors : subs'[w].owner = v =>
             Has(v, w)' \/ \E t \in Threads : Waits(Leads'[t], v, w),
           ~app'.closing => \A v \in Monitors, w \in Workers :
             Waits(Leads'["ui"], v, w) => ~vm'[v].active
    PROVE  Claims'
<1>1. ASSUME NEW w \in Workers, subs'[w].owner \in Monitors
      PROVE  Has(subs[w].owner, w)' \/ \E t \in Threads : Waiting(t, subs[w].owner, w)'
  <2>1. PICK v \in Monitors : v = subs'[w].owner
    BY <1>1
  <2>2. Has(v, w)' \/ \E t \in Threads : Waiting(t, v, w)'
    BY <2>1, Zenon DEF Waiting
  <2>3. QED
    BY <2>1, <2>2, Zenon DEF Has, Waiting
<1>2. /\ \A t \in Threads, v \in Monitors, w \in Workers :
           Waiting(t, v, w)' => subs'[w].owner = v /\ ~Has(v, w)'
      /\ \A t, u \in Threads, v \in Monitors, w \in Workers :
           Waiting(t, v, w)' /\ Waiting(u, v, w)' => t = u
      /\ ~app'.closing => \A v \in Monitors, w \in Workers :
           Waiting("ui", v, w)' => ~vm'[v].active
  BY Zenon DEF Waiting
<1>3. QED
  BY <1>1, <1>2, Zenon DEF Claims

LEMMA LogsAre ==
    ASSUME LogsKept
    PROVE  /\ logs.active => Opened(logs.handle)
           /\ \A t \in Threads, w \in Workers : Closes(Leads[t], w) =>
                Opened(w) /\ ~(logs.active /\ logs.handle = w)
           /\ \A t, u \in Threads, w \in Workers : Closes(Leads[t], w) /\ Closes(Leads[u], w) => t = u
BY Zenon DEF LogsKept, Closing

LEMMA LogsFrom ==
    ASSUME NEW h, logs'.handle = h, logs'.active => Opened(h)',
           \A t \in Threads, w \in Workers : Closes(Leads'[t], w) =>
             Opened(w)' /\ ~(logs'.active /\ h = w),
           \A t, u \in Threads, w \in Workers : Closes(Leads'[t], w) /\ Closes(Leads'[u], w) => t = u
    PROVE  LogsKept'
<1>1. logs'.active => Opened(logs.handle)'
  BY Zenon DEF Opened
<1>2. QED
  BY <1>1, Zenon DEF LogsKept, Closing

LEMMA LogsStay ==
    ASSUME LogsKept, logs' = logs, logs.active => logs.handle \in Workers,
           \A u \in Workers : Opened(u) => Opened(u)',
           \A t \in Threads, w \in Workers : Closes(Leads'[t], w) => Closes(Leads[t], w)
    PROVE  LogsKept'
<1>1. PICK h : h = logs.handle
  OBVIOUS
<1>2. logs.active => Opened(h)'
  BY <1>1, LogsAre, Zenon
<1>3. ASSUME NEW t \in Threads, NEW w \in Workers, Closes(Leads'[t], w)
      PROVE  Opened(w)' /\ ~(logs'.active /\ h = w)
  <2>1. Opened(w) /\ ~(logs.active /\ logs.handle = w)
    BY <1>3, LogsAre, Zenon
  <2>2. QED
    BY <1>1, <2>1, Zenon
<1>4. ASSUME NEW t \in Threads, NEW u \in Threads, NEW w \in Workers,
             Closes(Leads'[t], w), Closes(Leads'[u], w)
      PROVE  t = u
  <2>1. Closes(Leads[t], w) /\ Closes(Leads[u], w)
    BY <1>4, Zenon
  <2>2. QED
    BY <2>1, LogsAre, Zenon
<1>5. logs'.handle = h /\ (logs'.active => Opened(h)')
  BY <1>1, <1>2, Zenon
<1>6. QED
  BY <1>3, <1>4, <1>5, LogsFrom, Zenon

LEMMA OpenedSame ==
    ASSUME NEW w, subs'[w] = subs[w]
    PROVE  Opened(w) <=> Opened(w)'
BY Zenon DEF Opened

LEMMA NoMonitor == \A v \in Monitors : v # "logs" /\ v # "none" /\ v \in Dispatchers
BY DEF Monitors, Dispatchers

LEMMA UpClaims ==
    ASSUME Known, Claims, LogsKept, NEW t \in Threads, MonitorUp(t)
    PROVE  Claims' /\ LogsKept'
<1>1. PICK v : v = Now(t).on
  OBVIOUS
<1>2. Steady /\ Leads' = Leads
  BY KnownIs, UpSteady, Zenon DEF Steady
<1>3. UNCHANGED << logs, app >> /\ At(t, "up")
  BY Zenon DEF MonitorUp, tuning, frame
<1>4. CASE UNCHANGED << vm, subs >>
  BY <1>2, <1>3, <1>4, FeedsUnmoved, SameClosing, SteadySame, FeedsKept, KnownIs, Zenon
<1>5. ASSUME NEW w \in Workers, v \in Monitors, ~vm[v].active,
             subs[w].status = "free", vm'[v].active, vm'[v].handle = w,
             \A x \in Monitors \ {v} : vm'[x] = vm[x],
             subs'[w].owner = v, subs'[w].status = "running",
             \A u \in Workers \ {w} : subs'[u] = subs[u]
      PROVE  Claims' /\ LogsKept'
  <2>1. subs[w].owner = "none" /\ subs'[w].status # "free"
    BY <1>5, OwnersAre
  <2>2. \A u : Has(v, u)' <=> u = w
    BY <1>5, Zenon DEF Has
  <2>3. \A u : ~Has(v, u)
    BY <1>5, Zenon DEF Has
  <2>4. \A x \in Monitors \ {v} : \A u : Has(x, u)' <=> Has(x, u)
    BY <1>5, Zenon DEF Has
  <2>5. \A x \in Monitors, u \in Workers : subs[u].owner = x => subs'[u].owner = x /\ u # w
    BY <1>5, <2>1, NoMonitor, Zenon
  <2>6. \A u \in Workers : subs'[u].status = "free" => subs'[u].owner = "none"
    BY <1>5, <2>1, OwnersAre, SMT
  <2>7. ASSUME NEW x \in Monitors, NEW u \in Workers, Has(x, u)'
        PROVE  subs'[u].owner = x
    <3>1. CASE x = v
      BY <1>5, <2>2, <2>7, <3>1, Zenon
    <3>2. CASE x # v
      <4>1. Has(x, u)
        BY <2>4, <2>7, <3>2, Zenon
      <4>2. QED
        BY <2>5, <4>1, OwnersAre, Zenon
    <3>3. QED
      BY <3>1, <3>2
  <2>8. ASSUME NEW s \in Threads, NEW x \in Monitors, NEW u \in Workers, Waits(Leads'[s], x, u)
        PROVE  subs'[u].owner = x /\ ~Has(x, u)'
    <3>1. subs[u].owner = x /\ ~Has(x, u)
      BY <1>2, <2>8, WaitersAre, Zenon
    <3>2. subs'[u].owner = x /\ u # w
      BY <2>5, <3>1, Zenon
    <3>3. QED
      BY <2>2, <2>4, <3>1, <3>2, Zenon
  <2>9. \A s, r \in Threads, x \in Monitors, u \in Workers :
          Waits(Leads'[s], x, u) /\ Waits(Leads'[r], x, u) => s = r
    BY <1>2, OneWaits, Zenon
  <2>10. ASSUME NEW u \in Workers, NEW x \in Monitors, subs'[u].owner = x
         PROVE  Has(x, u)' \/ \E s \in Threads : Waits(Leads'[s], x, u)
    <3>1. CASE u = w
      BY <1>5, <2>2, <2>10, <3>1, Zenon
    <3>2. CASE u # w
      <4>1. subs[u].owner = x
        BY <1>5, <2>10, <3>2, Zenon
      <4>2. Has(x, u) \/ \E s \in Threads : Waits(Leads[s], x, u)
        BY <4>1, OwnedIs, Zenon
      <4>3. QED
        BY <1>2, <2>3, <2>4, <4>2, Zenon
    <3>3. QED
      BY <3>1, <3>2
  <2>11. ~app'.closing => \A x \in Monitors, u \in Workers :
           Waits(Leads'["ui"], x, u) => ~vm'[x].active
    <3>1. HAVE ~app'.closing
    <3>2. t = "ui" /\ Leads[t] = NoCall
      <4>1. "up" \notin Urgent /\ "up" \notin {"submit", "dispatch", "look"}
        BY DEF Urgent
      <4>2. ~app.closing
        BY <1>3, <3>1, Zenon
      <4>3. (t \in {"ui", "closer"} \/ "up" \in {"submit", "dispatch", "look"}) /\ t # "closer" /\ Leads[t] = NoCall
        BY <1>3, <4>1, <4>2, KnownIs, AtHead, Zenon
      <4>4. QED
        BY <4>1, <4>3
    <3>3. QED
      BY <1>2, <3>2, ClosesAre, Zenon
  <2>12. Claims'
    BY <2>6, <2>7, <2>8, <2>9, <2>10, <2>11, ClaimsFrom, Zenon
  <2>13. \A u \in Workers : Opened(u) => Opened(u)'
    <3>1. "none" # "logs"
      OBVIOUS
    <3>2. \A u \in Workers : Opened(u) => u # w
      BY <2>1, <3>1, Zenon DEF Opened
    <3>3. QED
      BY <1>5, <3>2, OpenedSame, Zenon
  <2>14. LogsKept'
    BY <1>2, <1>3, <2>13, KnownIs, LogsStay, Zenon
  <2>15. QED
    BY <2>12, <2>14
<1>6. /\ v \in Monitors /\ FeedTypes'
      /\ \/ vm[v].active /\ UNCHANGED << vm, subs >>
         \/ /\ ~vm[v].active
            /\ \E w \in Workers :
                 /\ subs[w].status = "free"
                 /\ vm'[v].active /\ vm'[v].handle = w
                 /\ vm'[v].metrics = vm[v].metrics /\ vm'[v].current = vm[v].current
                 /\ vm'[v].rings = vm[v].rings
                 /\ \A x \in Monitors \ {v} : vm'[x] = vm[x]
                 /\ subs'[w].owner = v /\ subs'[w].status = "running" /\ subs'[w].box = << >>
                 /\ \A u \in Workers \ {w} : subs'[u] = subs[u]
  BY <1>1, UpEffect
<1>8. CASE vm[v].active /\ UNCHANGED << vm, subs >>
  BY <1>4, <1>8, Zenon
<1>9. CASE ~vm[v].active
  <2>1. PICK w \in Workers :
          /\ subs[w].status = "free"
          /\ vm'[v].active /\ vm'[v].handle = w
          /\ \A x \in Monitors \ {v} : vm'[x] = vm[x]
          /\ subs'[w].owner = v /\ subs'[w].status = "running"
          /\ \A u \in Workers \ {w} : subs'[u] = subs[u]
    BY <1>6, <1>9, Zenon
  <2>2. QED
    BY <1>5, <1>6, <1>9, <2>1, Zenon
<1>10. QED
  BY <1>6, <1>8, <1>9, Zenon

LEMMA DownClaims ==
    ASSUME Known, Claims, LogsKept, NEW t \in Threads, MonitorDown(t)
    PROVE  Claims' /\ LogsKept'
<1>1. PICK v, w : v = Now(t).on /\ w = vm[v].handle
  OBVIOUS
<1>2. v \in Monitors /\ Leads[t] = NoCall /\ Turn(t, IF vm[v].active THEN Call("close", v, w) ELSE NoCall)
  BY <1>1, KnownIs, DownTurns, Zenon
<1>3. UNCHANGED << logs, app, subs >>
  BY Zenon DEF MonitorDown, tuning, frame
<1>4. CASE ~vm[v].active
  <2>1. vm' = vm
    BY <1>1, <1>4, DownEffect, Zenon
  <2>2. Turn(t, NoCall)
    BY <1>2, <1>4, Zenon
  <2>3. QED
    BY <1>2, <1>3, <2>1, <2>2, TurnsSteady, SteadySame, FeedsUnmoved, SameClosing, FeedsKept, KnownIs, Zenon
<1>5. CASE vm[v].active
  <2>1. w \in Workers /\ ~vm'[v].active /\ \A x \in Monitors \ {v} : vm'[x] = vm[x]
    BY <1>1, <1>2, <1>5, KnownIs, DownEffect, Zenon
  <2>2. Leads'[t] = Call("close", v, w) /\ \A u \in Threads \ {t} : Leads'[u] = Leads[u]
    BY <1>2, <1>5, TurnLeads, Zenon
  <2>3. /\ \A x, y : ~Waits(Leads[t], x, y) /\ ~Closes(Leads[t], y) /\ ~Closes(Leads'[t], y)
        /\ \A x, y : Waits(Leads'[t], x, y) <=> x = v /\ y = w
    <3>1. /\ \A x, y : ~Waits(NoCall, x, y) /\ ~Closes(NoCall, y)
          /\ \A y : ~Closes(Call("close", v, w), y)
          /\ \A x, y : Waits(Call("close", v, w), x, y) <=> x = v /\ y = w
      BY <1>2, WaitsAre, Zenon
    <3>2. QED
      BY <1>2, <2>2, <3>1, Zenon
  <2>4. /\ \A u : Has(v, u) <=> u = w
        /\ \A u : ~Has(v, u)'
        /\ \A x \in Monitors \ {v} : \A u : Has(x, u)' <=> Has(x, u)
        /\ \A x \in Monitors : vm'[x].active => vm[x].active
    BY <1>1, <1>5, <2>1, Zenon DEF Has
  <2>5. \A u \in Workers : subs'[u].status = "free" => subs'[u].owner = "none"
    BY <1>3, OwnersAre, Zenon
  <2>6. ASSUME NEW x \in Monitors, NEW u \in Workers, Has(x, u)'
        PROVE  subs'[u].owner = x
    <3>1. Has(x, u)
      BY <2>4, <2>6, Zenon
    <3>2. QED
      BY <1>3, <3>1, OwnersAre, Zenon
  <2>7. ASSUME NEW s \in Threads, NEW x \in Monitors, NEW u \in Workers, Waits(Leads'[s], x, u)
        PROVE  subs'[u].owner = x /\ ~Has(x, u)'
    <3>1. CASE s = t
      <4>1. x = v /\ u = w
        BY <2>3, <2>7, <3>1, Zenon
      <4>2. Has(v, w)
        BY <2>4, Zenon
      <4>3. QED
        BY <1>2, <1>3, <2>1, <2>4, <4>1, <4>2, OwnersAre, Zenon
    <3>2. CASE s # t
      <4>1. Waits(Leads[s], x, u)
        BY <2>2, <2>7, <3>2, Zenon
      <4>2. subs[u].owner = x /\ ~Has(x, u)
        BY <4>1, WaitersAre, Zenon
      <4>3. QED
        BY <1>3, <2>4, <4>2, Zenon
    <3>3. QED
      BY <3>1, <3>2
  <2>8. ASSUME NEW s \in Threads, NEW r \in Threads, NEW x \in Monitors, NEW u \in Workers,
               Waits(Leads'[s], x, u), Waits(Leads'[r], x, u)
        PROVE  s = r
    <3>1. \A q \in Threads : Waits(Leads'[q], x, u) /\ q # t => Waits(Leads[q], x, u) /\ ~Has(x, u)
      BY <2>2, WaitersAre, Zenon
    <3>2. CASE x = v /\ u = w
      BY <2>4, <2>8, <3>1, <3>2, Zenon
    <3>3. CASE ~(x = v /\ u = w)
      <4>1. s # t /\ r # t
        BY <2>3, <2>8, <3>3, Zenon
      <4>2. QED
        BY <2>8, <3>1, <4>1, OneWaits, Zenon
    <3>4. QED
      BY <3>2, <3>3
  <2>9. \A u \in Workers : \A x \in Monitors : subs'[u].owner = x =>
          Has(x, u)' \/ \E s \in Threads : Waits(Leads'[s], x, u)
    <3>1. TAKE u \in Workers
    <3>2. TAKE x \in Monitors
    <3>3. HAVE subs'[u].owner = x
    <3>4. subs[u].owner = x
      BY <1>3, <3>3, Zenon
    <3>5. Has(x, u) \/ \E s \in Threads : Waits(Leads[s], x, u)
      BY <3>4, OwnedIs, Zenon
    <3>6. CASE Has(x, u)
      BY <2>3, <2>4, <3>6, Zenon
    <3>7. CASE \E s \in Threads : Waits(Leads[s], x, u)
      BY <2>2, <2>3, <3>7, Zenon
    <3>8. QED
      BY <3>5, <3>6, <3>7
  <2>10. ~app'.closing => \A x \in Monitors, u \in Workers :
           Waits(Leads'["ui"], x, u) => ~vm'[x].active
    <3>1. "ui" \in Threads
      BY DEF Threads
    <3>2. ASSUME ~app'.closing, NEW x \in Monitors, NEW u \in Workers, Waits(Leads'["ui"], x, u)
          PROVE  ~vm'[x].active
      <4>1. CASE t = "ui"
        BY <2>1, <2>3, <3>2, <4>1, Zenon
      <4>2. CASE t # "ui"
        <5>1. Waits(Leads["ui"], x, u) /\ ~app.closing
          BY <1>3, <2>2, <3>1, <3>2, <4>2, Zenon
        <5>2. ~vm[x].active
          BY <5>1, PausedIs, Zenon
        <5>3. QED
          BY <2>4, <5>2, Zenon
      <4>3. QED
        BY <4>1, <4>2
    <3>3. QED
      BY <3>2
  <2>11. Claims'
    BY <2>5, <2>6, <2>7, <2>8, <2>9, <2>10, ClaimsFrom, Zenon
  <2>12. \A u : Opened(u) => Opened(u)'
    BY <1>3, Zenon DEF Opened
  <2>13. \A u \in Threads : \A y : Closes(Leads'[u], y) => Closes(Leads[u], y)
    BY <2>2, <2>3, Zenon
  <2>14. LogsKept'
    BY <1>3, <2>12, <2>13, KnownIs, LogsStay, Zenon
  <2>15. QED
    BY <2>11, <2>14
<1>6. QED
  BY <1>4, <1>5

\* Steps that change no claim of a view model.
LEMMA SameClaims ==
    ASSUME Claims, vm' = vm, app' = app,
           \A u \in Workers : subs'[u].status = "free" => subs'[u].owner = "none",
           \A u \in Workers : \A x \in Monitors : subs'[u].owner = x <=> subs[u].owner = x,
           \A s \in Threads, x \in Monitors, u \in Workers :
             Waits(Leads'[s], x, u) <=> Waits(Leads[s], x, u)
    PROVE  Claims'
<1>1. \A x, u : Has(x, u)' <=> Has(x, u)
  BY Zenon DEF Has
<1>2. \A x \in Monitors, u \in Workers : Has(x, u)' => subs'[u].owner = x
  BY <1>1, OwnersAre, Zenon
<1>3. \A s \in Threads, x \in Monitors, u \in Workers :
        Waits(Leads'[s], x, u) => subs'[u].owner = x /\ ~Has(x, u)'
  BY <1>1, WaitersAre, Zenon
<1>4. ASSUME NEW s \in Threads, NEW r \in Threads, NEW x \in Monitors, NEW u \in Workers,
             Waits(Leads'[s], x, u), Waits(Leads'[r], x, u)
      PROVE  s = r
  <2>1. Waits(Leads[s], x, u) /\ Waits(Leads[r], x, u)
    BY <1>4, Zenon
  <2>2. QED
    BY <2>1, OneWaits, Zenon
<1>5. ASSUME NEW u \in Workers, NEW x \in Monitors, subs'[u].owner = x
      PROVE  Has(x, u)' \/ \E s \in Threads : Waits(Leads'[s], x, u)
  <2>1. subs[u].owner = x
    BY <1>5, Zenon
  <2>2. Has(x, u) \/ \E s \in Threads : Waits(Leads[s], x, u)
    BY <2>1, OwnedIs, Zenon
  <2>3. QED
    BY <1>1, <2>2, Zenon
<1>6. ASSUME ~app'.closing, NEW x \in Monitors, NEW u \in Workers, Waits(Leads'["ui"], x, u)
      PROVE  ~vm'[x].active
  <2>1. "ui" \in Threads
    BY DEF Threads
  <2>2. Waits(Leads["ui"], x, u) /\ ~app.closing
    BY <1>6, <2>1, Zenon
  <2>3. ~vm[x].active
    BY <2>2, PausedIs, Zenon
  <2>4. QED
    BY <2>3, Zenon
<1>7. QED
  BY <1>2, <1>3, <1>4, <1>5, <1>6, ClaimsFrom, Zenon

\* A thread's first call changes from one to another of which neither is a close of v's.
LEMMA SameWaits ==
    ASSUME NEW t \in Threads, NEW lead, Leads'[t] = lead, \A s \in Threads \ {t} : Leads'[s] = Leads[s],
           \A x \in Monitors : \A u : Waits(lead, x, u) <=> Waits(Leads[t], x, u)
    PROVE  \A s \in Threads, x \in Monitors, u \in Workers :
             Waits(Leads'[s], x, u) <=> Waits(Leads[s], x, u)
<1>1. TAKE s \in Threads, x \in Monitors, u \in Workers
<1>2. CASE s = t
  BY <1>2, Zenon
<1>3. CASE s # t
  BY <1>3, Zenon
<1>4. QED
  BY <1>2, <1>3

LEMMA CloseClaims ==
    ASSUME Known, Claims, LogsKept, NEW t \in Threads, CloseHandle(t)
    PROVE  Claims' /\ LogsKept'
<1>1. PICK v, w : v = Now(t).on /\ w = Now(t).arg
  OBVIOUS
<1>2. /\ v \in Monitors \cup {"logs"} /\ w \in Workers /\ Leads[t] = Call("close", v, w)
      /\ Turn(t, IF v \in Monitors THEN Call("await", v, w) ELSE NoCall)
  <2>1. Listed
    BY KnownIs, Zenon
  <2>2. QED
    BY <1>1, <2>1, CloseTurns
<1>3. /\ subs'[w].owner = subs[w].owner /\ subs'[w].status = subs[w].status
      /\ \A u \in Workers \ {w} : subs'[u] = subs[u]
  BY <1>1, CloseEffect, Zenon
<1>4. UNCHANGED << vm, logs, app >>
  BY Zenon DEF CloseHandle, tuning, frame
<1>5. \A u \in Workers : subs'[u].owner = subs[u].owner /\ subs'[u].status = subs[u].status
  BY <1>3, Zenon
<1>6. \A u \in Workers : subs'[u].status = "free" => subs'[u].owner = "none"
  BY <1>5, OwnersAre, Zenon
<1>7. \A u \in Workers : \A x \in Monitors : subs'[u].owner = x <=> subs[u].owner = x
  BY <1>5, Zenon
<1>8. \A u \in Workers : u # w /\ Opened(u) => Opened(u)'
  BY <1>3, OpenedSame, Zenon
<1>9. CASE v \in Monitors
  <2>1. PICK lead : lead = Call("await", v, w)
    OBVIOUS
  <2>2. Leads'[t] = lead /\ \A s \in Threads \ {t} : Leads'[s] = Leads[s]
    BY <1>2, <1>9, <2>1, TurnLeads, Zenon
  <2>3. /\ \A x, u : Waits(Call("close", v, w), x, u) <=> x = v /\ u = w
        /\ \A x, u : Waits(Call("await", v, w), x, u) <=> x = v /\ u = w
        /\ \A y : ~Closes(Call("await", v, w), y)
    BY <1>9, WaitsAre, Zenon
  <2>4. /\ \A x, u : Waits(lead, x, u) <=> x = v /\ u = w
        /\ \A x, u : Waits(Leads[t], x, u) <=> x = v /\ u = w
        /\ \A y : ~Closes(lead, y)
    BY <1>2, <2>1, <2>3, Zenon
  <2>5. Claims'
    <3>1. \A x \in Monitors : \A u : Waits(lead, x, u) <=> Waits(Leads[t], x, u)
      BY <2>4, Zenon
    <3>2. \A s \in Threads, x \in Monitors, u \in Workers :
            Waits(Leads'[s], x, u) <=> Waits(Leads[s], x, u)
      BY <2>2, <3>1, SameWaits, Zenon
    <3>3. QED
      BY <1>4, <1>6, <1>7, <3>2, SameClaims, Zenon
  <2>6. ~Opened(w)
    <3>1. subs[w].owner = v
      BY <1>2, <1>9, <2>4, WaitersAre, Zenon
    <3>2. QED
      BY <1>9, <3>1, NoMonitor, Zenon DEF Opened
  <2>7. \A u \in Workers : Opened(u) => Opened(u)'
    BY <1>8, <2>6, Zenon
  <2>8. \A s \in Threads, u \in Workers : Closes(Leads'[s], u) => Closes(Leads[s], u)
    BY <2>2, <2>4, Zenon
  <2>9. LogsKept'
    BY <1>4, <2>7, <2>8, KnownIs, LogsStay, Zenon
  <2>10. QED
    BY <2>5, <2>9
<1>10. CASE v \notin Monitors
  <2>1. v = "logs" /\ Leads[t] = Call("close", "logs", w)
    BY <1>2, <1>10, Zenon
  <2>2. Leads'[t] = NoCall /\ \A s \in Threads \ {t} : Leads'[s] = Leads[s]
    <3>1. Turn(t, NoCall)
      BY <1>2, <1>10, Zenon
    <3>2. QED
      BY <3>1, TurnLeads, Zenon
  <2>3. /\ \A x, y : ~Waits(NoCall, x, y) /\ ~Closes(NoCall, y)
        /\ \A x \in Monitors : \A y : ~Waits(Call("close", "logs", w), x, y)
        /\ \A y : Closes(Call("close", "logs", w), y) <=> y = w
    BY ClosesAre, Zenon
  <2>4. Claims'
    <3>1. \A x \in Monitors : \A u : Waits(NoCall, x, u) <=> Waits(Leads[t], x, u)
      BY <2>1, <2>3, Zenon
    <3>2. \A s \in Threads, x \in Monitors, u \in Workers :
            Waits(Leads'[s], x, u) <=> Waits(Leads[s], x, u)
      BY <2>2, <3>1, SameWaits, Zenon
    <3>3. QED
      BY <1>4, <1>6, <1>7, <3>2, SameClaims, Zenon
  <2>5. Closes(Leads[t], w)
    BY <2>1, <2>3, Zenon
  <2>6. PICK h : h = logs.handle
    OBVIOUS
  <2>7. logs.active => Opened(h) /\ h # w /\ h \in Workers
    BY <1>2, <2>5, <2>6, LogsAre, KnownIs, Zenon
  <2>8. logs'.handle = h /\ (logs'.active => Opened(h)')
    BY <1>4, <1>8, <2>6, <2>7, Zenon
  <2>9. ASSUME NEW s \in Threads, NEW u \in Workers, Closes(Leads'[s], u)
        PROVE  Closes(Leads[s], u) /\ Opened(u)' /\ ~(logs'.active /\ h = u)
    <3>1. s # t /\ Closes(Leads[s], u)
      BY <2>2, <2>3, <2>9, Zenon
    <3>2. u # w
      BY <1>2, <2>5, <3>1, LogsAre, Zenon
    <3>3. Opened(u) /\ ~(logs.active /\ logs.handle = u)
      BY <3>1, LogsAre, Zenon
    <3>4. QED
      BY <1>4, <1>8, <2>6, <3>1, <3>2, <3>3, Zenon
  <2>10. ASSUME NEW s \in Threads, NEW r \in Threads, NEW u \in Workers,
                Closes(Leads'[s], u), Closes(Leads'[r], u)
         PROVE  s = r
    <3>1. Closes(Leads[s], u) /\ Closes(Leads[r], u)
      BY <2>9, <2>10, Zenon
    <3>2. QED
      BY <3>1, LogsAre, Zenon
  <2>11. LogsKept'
    BY <2>8, <2>9, <2>10, LogsFrom, Zenon
  <2>12. QED
    BY <2>4, <2>11
<1>11. QED
  BY <1>9, <1>10

LEMMA AwaitClaims ==
    ASSUME Known, Claims, LogsKept, NEW t \in Threads, Await(t)
    PROVE  Claims' /\ LogsKept'
<1>1. PICK v, w : v = Now(t).on /\ w = Now(t).arg
  OBVIOUS
<1>2. v \in Monitors /\ w \in Workers /\ Leads[t] = Call("await", v, w) /\ Turn(t, NoCall)
  <2>1. Listed
    BY KnownIs, Zenon
  <2>2. v \in Monitors /\ w \in Workers /\ Leads[t] = Call("await", v, w) /\ Kept /\ Turn(t, NoCall)
    BY <1>1, <2>1, AwaitTurns
  <2>3. QED
    BY <2>2
<1>3. subs'[w] = FreeSubscription /\ \A u \in Workers \ {w} : subs'[u] = subs[u]
  BY <1>1, AwaitEffect, Zenon
<1>4. UNCHANGED << vm, logs, app >>
  BY Zenon DEF Await, tuning, frame
<1>5. Leads'[t] = NoCall /\ \A s \in Threads \ {t} : Leads'[s] = Leads[s]
  BY <1>2, TurnLeads, Zenon
<1>6. /\ \A x, u : ~Waits(NoCall, x, u) /\ ~Closes(NoCall, u)
      /\ \A x, u : Waits(Call("await", v, w), x, u) <=> x = v /\ u = w
  BY <1>2, WaitsAre, Zenon
<1>7. /\ \A x, u : ~Waits(Leads'[t], x, u) /\ ~Closes(Leads'[t], u)
      /\ \A x, u : Waits(Leads[t], x, u) <=> x = v /\ u = w
  BY <1>2, <1>5, <1>6, Zenon
<1>8. subs[w].owner = v /\ ~Has(v, w)
  BY <1>2, <1>7, WaitersAre, Zenon
<1>9. subs'[w].owner = "none" /\ subs'[w].status = "free"
  BY <1>3, FreeIs, Zenon
<1>10. \A x, u : Has(x, u)' <=> Has(x, u)
  BY <1>4, Zenon DEF Has
<1>11. \A x \in Monitors : ~Has(x, w)
  BY <1>2, <1>8, OwnersAre, Zenon
<1>12. \A u \in Workers : subs'[u].status = "free" => subs'[u].owner = "none"
  BY <1>3, <1>9, OwnersAre, Zenon
<1>13. ASSUME NEW x \in Monitors, NEW u \in Workers, Has(x, u)'
       PROVE  subs'[u].owner = x
  <2>1. Has(x, u) /\ u # w
    BY <1>10, <1>11, <1>13, Zenon
  <2>2. QED
    BY <1>3, <2>1, OwnersAre, Zenon
<1>14. ASSUME NEW s \in Threads, NEW x \in Monitors, NEW u \in Workers, Waits(Leads'[s], x, u)
       PROVE  s # t /\ u # w /\ Waits(Leads[s], x, u)
  <2>1. s # t /\ Waits(Leads[s], x, u)
    BY <1>5, <1>7, <1>14, Zenon
  <2>2. ASSUME u = w
        PROVE  FALSE
    <3>1. x = v
      BY <1>8, <2>1, <2>2, WaitersAre, Zenon
    <3>2. QED
      BY <1>7, <2>1, <2>2, <3>1, OneWaits, Zenon
  <2>3. QED
    BY <2>1, <2>2
<1>15. ASSUME NEW s \in Threads, NEW x \in Monitors, NEW u \in Workers, Waits(Leads'[s], x, u)
       PROVE  subs'[u].owner = x /\ ~Has(x, u)'
  <2>1. u # w /\ Waits(Leads[s], x, u)
    BY <1>14, <1>15, Zenon
  <2>2. subs[u].owner = x /\ ~Has(x, u)
    BY <2>1, WaitersAre, Zenon
  <2>3. QED
    BY <1>3, <1>10, <2>1, <2>2, Zenon
<1>16. ASSUME NEW s \in Threads, NEW r \in Threads, NEW x \in Monitors, NEW u \in Workers,
              Waits(Leads'[s], x, u), Waits(Leads'[r], x, u)
       PROVE  s = r
  <2>1. Waits(Leads[s], x, u) /\ Waits(Leads[r], x, u)
    BY <1>14, <1>16, Zenon
  <2>2. QED
    BY <2>1, OneWaits, Zenon
<1>17. ASSUME NEW u \in Workers, NEW x \in Monitors, subs'[u].owner = x
       PROVE  Has(x, u)' \/ \E s \in Threads : Waits(Leads'[s], x, u)
  <2>1. u # w
    BY <1>9, <1>17, NoMonitor, Zenon
  <2>2. subs[u].owner = x
    BY <1>3, <1>17, <2>1, Zenon
  <2>3. Has(x, u) \/ \E s \in Threads : Waits(Leads[s], x, u)
    BY <2>2, OwnedIs, Zenon
  <2>4. QED
    BY <1>5, <1>7, <1>10, <2>1, <2>3, Zenon
<1>18. ASSUME ~app'.closing, NEW x \in Monitors, NEW u \in Workers, Waits(Leads'["ui"], x, u)
       PROVE  ~vm'[x].active
  <2>1. "ui" \in Threads
    BY DEF Threads
  <2>2. Waits(Leads["ui"], x, u) /\ ~app.closing
    BY <1>4, <1>14, <1>18, <2>1, Zenon
  <2>3. ~vm[x].active
    BY <2>2, PausedIs, Zenon
  <2>4. QED
    BY <1>4, <2>3, Zenon
<1>19. Claims'
  BY <1>12, <1>13, <1>15, <1>16, <1>17, <1>18, ClaimsFrom, Zenon
<1>20. \A u \in Workers : Opened(u) => Opened(u)'
  <2>1. ~Opened(w)
    BY <1>2, <1>8, NoMonitor, Zenon DEF Opened
  <2>2. QED
    BY <1>3, <2>1, OpenedSame, Zenon
<1>21. \A s \in Threads, u \in Workers : Closes(Leads'[s], u) => Closes(Leads[s], u)
  BY <1>5, <1>7, Zenon
<1>22. LogsKept'
  BY <1>4, <1>20, <1>21, KnownIs, LogsStay, Zenon
<1>23. QED
  BY <1>19, <1>22

LEMMA GoClaims ==
    ASSUME Known, Claims, LogsKept, NEW t \in Threads, Go(t)
    PROVE  Claims' /\ LogsKept'
<1>1. PICK w : w = Now(t).arg
  OBVIOUS
<1>2. /\ w \in Workers
      /\ subs'[w].owner = subs[w].owner /\ subs'[w].status = "running"
      /\ (subs'[w].open <=> subs[w].open)
      /\ \A u \in Workers \ {w} : subs'[u] = subs[u]
  BY <1>1, GoEffect, Zenon
<1>3. UNCHANGED << vm, logs, app >>
  BY Zenon DEF Go, tuning, frame
<1>4. Steady
  BY KnownIs, GoSteady, Zenon
<1>5. ASSUME NEW u \in Workers
      PROVE  /\ subs'[u].owner = subs[u].owner
             /\ subs'[u].status = "free" => subs[u].status = "free"
             /\ Opened(u) => Opened(u)'
  <2>1. CASE u = w
    <3>1. "running" # "free"
      OBVIOUS
    <3>2. Opened(w) => Opened(w)'
      BY <1>2, Zenon DEF Opened
    <3>3. QED
      BY <1>2, <2>1, <3>1, <3>2, Zenon
  <2>2. CASE u # w
    BY <1>2, <2>2, OpenedSame, Zenon
  <2>3. QED
    BY <2>1, <2>2
<1>6. FeedsRest
  BY <1>3, <1>4, <1>5, SteadySame, SameClosing, Zenon DEF FeedsRest
<1>7. QED
  BY <1>6, FeedsKept, KnownIs, Zenon

LEMMA EndClaims ==
    ASSUME Known, Claims, LogsKept, NEW w \in Workers, EndSubscription(w)
    PROVE  Claims' /\ LogsKept'
<1>1. /\ subs[w].status = "running" /\ ~subs[w].open
      /\ \/ /\ subs[w].owner = "logs" /\ subs'[w].owner = "none" /\ subs'[w].status = "free"
         \/ /\ subs[w].owner # "logs" /\ subs'[w].owner = subs[w].owner
            /\ subs'[w].status = "done"
      /\ \A u \in Workers \ {w} : subs'[u] = subs[u]
  BY EndEffect, Zenon
<1>2. UNCHANGED << vm, logs, app, todo >>
  BY Zenon DEF EndSubscription, tuning, frame
<1>3. Leads' = Leads
  BY <1>2, Zenon DEF Leads
<1>4. ~Opened(w)
  BY <1>1, Zenon DEF Opened
<1>5. \A u \in Workers : Opened(u) => Opened(u)'
  BY <1>1, <1>4, OpenedSame, Zenon
<1>6. LogsKept'
  BY <1>2, <1>3, <1>5, KnownIs, LogsStay, Zenon
<1>7. "done" # "free"
  OBVIOUS
<1>8. \A u \in Workers : subs'[u].status = "free" => subs'[u].owner = "none"
  BY <1>1, <1>7, OwnersAre, Zenon
<1>9. \A x \in Monitors : subs'[w].owner = x <=> subs[w].owner = x
  BY <1>1, NoMonitor, Zenon
<1>10. \A u \in Workers : \A x \in Monitors : subs'[u].owner = x <=> subs[u].owner = x
  BY <1>1, <1>9, Zenon
<1>11. \A s \in Threads, x \in Monitors, u \in Workers :
         Waits(Leads'[s], x, u) <=> Waits(Leads[s], x, u)
  BY <1>3, Zenon
<1>12. QED
  BY <1>2, <1>6, <1>8, <1>10, <1>11, SameClaims, Zenon

LEMMA LogsUpClaims ==
    ASSUME Known, Claims, LogsKept, NEW t \in Threads, LogsUp(t)
    PROVE  Claims' /\ LogsKept'
<1>1. Steady /\ Leads' = Leads
  BY KnownIs, LogsUpSteady, Zenon DEF Steady
<1>2. UNCHANGED app /\ vm' = vm
  BY Zenon DEF LogsUp, frame
<1>3. CASE UNCHANGED << logs, subs >>
  BY <1>1, <1>2, <1>3, FeedsUnmoved, SameClosing, SteadySame, FeedsKept, KnownIs, Zenon
<1>4. ASSUME NEW w \in Workers, subs[w].status = "free", logs'.active, logs'.handle = w,
             subs'[w].owner = "logs", subs'[w].status = "starting", subs'[w].open,
             \A u \in Workers \ {w} : subs'[u] = subs[u]
      PROVE  Claims' /\ LogsKept'
  <2>1. subs[w].owner = "none" /\ subs'[w].status # "free"
    BY <1>4, OwnersAre
  <2>2. \A u \in Workers : subs'[u].status = "free" => subs'[u].owner = "none"
    BY <1>4, <2>1, OwnersAre, Zenon
  <2>3. \A x \in Monitors : subs'[w].owner = x <=> subs[w].owner = x
    BY <1>4, <2>1, NoMonitor, Zenon
  <2>4. \A u \in Workers : \A x \in Monitors : subs'[u].owner = x <=> subs[u].owner = x
    BY <1>4, <2>3, Zenon
  <2>5. \A s \in Threads, x \in Monitors, u \in Workers :
          Waits(Leads'[s], x, u) <=> Waits(Leads[s], x, u)
    BY <1>1, Zenon
  <2>6. Claims'
    BY <1>2, <2>2, <2>4, <2>5, SameClaims, Zenon
  <2>7. Opened(w)' /\ ~Opened(w)
    <3>1. "none" # "logs"
      OBVIOUS
    <3>2. QED
      BY <1>4, <2>1, <3>1, Zenon DEF Opened
  <2>8. ASSUME NEW s \in Threads, NEW u \in Workers, Closes(Leads'[s], u)
        PROVE  Opened(u)' /\ ~(logs'.active /\ w = u)
    <3>1. Opened(u)
      BY <1>1, <2>8, LogsAre, Zenon
    <3>2. u # w
      BY <2>7, <3>1
    <3>3. QED
      BY <1>4, <3>1, <3>2, OpenedSame, Zenon
  <2>9. ASSUME NEW s \in Threads, NEW r \in Threads, NEW u \in Workers,
               Closes(Leads'[s], u), Closes(Leads'[r], u)
        PROVE  s = r
    BY <1>1, <2>9, LogsAre, Zenon
  <2>10. logs'.active => Opened(w)'
    BY <2>7
  <2>11. logs'.handle = w
    BY <1>4
  <2>12. LogsKept'
    BY <2>8, <2>9, <2>10, <2>11, LogsFrom
  <2>13. QED
    BY <2>6, <2>12
<1>5. \/ logs.active /\ UNCHANGED << logs, subs >>
      \/ /\ ~logs.active
         /\ \E w \in Workers :
              /\ subs[w].status = "free" /\ logs'.active /\ logs'.handle = w
              /\ subs'[w].owner = "logs" /\ subs'[w].status = "starting"
              /\ subs'[w].open
              /\ \A u \in Workers \ {w} : subs'[u] = subs[u]
  BY LogsUpEffect
<1>6. CASE logs.active /\ UNCHANGED << logs, subs >>
  BY <1>3, <1>6, Zenon
<1>7. CASE \E w \in Workers :
              /\ subs[w].status = "free" /\ logs'.active /\ logs'.handle = w
              /\ subs'[w].owner = "logs" /\ subs'[w].status = "starting"
              /\ subs'[w].open
              /\ \A u \in Workers \ {w} : subs'[u] = subs[u]
  BY <1>4, <1>7, Zenon
<1>8. QED
  BY <1>5, <1>6, <1>7, Zenon

LEMMA LogsDownClaims ==
    ASSUME Known, Claims, LogsKept, NEW t \in Threads, LogsDown(t)
    PROVE  Claims' /\ LogsKept'
<1>1. Leads[t] = NoCall /\ Turn(t, IF logs.active THEN Call("close", "logs", logs.handle) ELSE NoCall)
  BY KnownIs, LogsDownTurns, Zenon
<1>2. UNCHANGED << vm, subs, app >>
  BY Zenon DEF LogsDown, feeds, frame
<1>3. CASE ~logs.active
  <2>1. logs' = logs
    BY <1>3, LogsDownEffect, Zenon
  <2>2. Turn(t, NoCall)
    BY <1>1, <1>3, Zenon
  <2>3. QED
    BY <1>1, <1>2, <2>1, <2>2, TurnsSteady, SteadySame, FeedsUnmoved, SameClosing, FeedsKept, KnownIs, Zenon
<1>4. CASE logs.active
  <2>1. PICK h \in Workers : h = logs.handle
    BY <1>4, KnownIs
  <2>2. PICK lead : lead = Call("close", "logs", h)
    OBVIOUS
  <2>3. Leads'[t] = lead /\ \A s \in Threads \ {t} : Leads'[s] = Leads[s]
    <3>1. Turn(t, lead)
      BY <1>1, <1>4, <2>1, <2>2, Zenon
    <3>2. QED
      BY <3>1, TurnLeads, Zenon
  <2>4. ~logs'.active
    BY <1>4, LogsDownEffect, Zenon
  <2>5. /\ \A x, y : ~Waits(NoCall, x, y) /\ ~Closes(NoCall, y)
        /\ \A x \in Monitors : \A y : ~Waits(Call("close", "logs", h), x, y)
        /\ \A y : Closes(Call("close", "logs", h), y) <=> y = h
    BY ClosesAre, Zenon
  <2>6. Claims'
    <3>1. \A x \in Monitors : \A u : Waits(lead, x, u) <=> Waits(Leads[t], x, u)
      BY <1>1, <2>2, <2>5, Zenon
    <3>2. \A s \in Threads, x \in Monitors, u \in Workers :
            Waits(Leads'[s], x, u) <=> Waits(Leads[s], x, u)
      BY <2>3, <3>1, SameWaits, Zenon
    <3>3. \A u \in Workers : subs'[u].status = "free" => subs'[u].owner = "none"
      BY <1>2, OwnersAre, Zenon
    <3>4. \A u \in Workers : \A x \in Monitors : subs'[u].owner = x <=> subs[u].owner = x
      BY <1>2, Zenon
    <3>5. QED
      BY <1>2, <3>2, <3>3, <3>4, SameClaims, Zenon
  <2>7. \A u : Opened(u)' <=> Opened(u)
    BY <1>2, Zenon DEF Opened
  <2>8. ASSUME NEW s \in Threads, NEW u \in Workers, Closes(Leads'[s], u)
        PROVE  Opened(u) /\ (s = t => u = h) /\ (s # t => u # h /\ Closes(Leads[s], u))
    <3>1. CASE s = t
      <4>1. u = h
        BY <2>2, <2>3, <2>5, <2>8, <3>1, Zenon
      <4>2. QED
        BY <1>4, <2>1, <3>1, <4>1, LogsAre, Zenon
    <3>2. CASE s # t
      <4>1. Closes(Leads[s], u)
        BY <2>3, <2>8, <3>2, Zenon
      <4>2. QED
        BY <1>4, <2>1, <3>2, <4>1, LogsAre, Zenon
    <3>3. QED
      BY <3>1, <3>2
  <2>9. ASSUME NEW s \in Threads, NEW r \in Threads, NEW u \in Workers,
               Closes(Leads'[s], u), Closes(Leads'[r], u)
        PROVE  s = r
    <3>1. CASE u = h
      BY <2>8, <2>9, <3>1, Zenon
    <3>2. CASE u # h
      <4>1. Closes(Leads[s], u) /\ Closes(Leads[r], u)
        BY <2>8, <2>9, <3>2, Zenon
      <4>2. QED
        BY <4>1, LogsAre, Zenon
    <3>3. QED
      BY <3>1, <3>2
  <2>10. PICK g : g = logs'.handle
    OBVIOUS
  <2>11. \A s \in Threads, u \in Workers : Closes(Leads'[s], u) =>
           Opened(u)' /\ ~(logs'.active /\ g = u)
    BY <2>4, <2>7, <2>8, Zenon
  <2>12. LogsKept'
    BY <2>4, <2>9, <2>10, <2>11, LogsFrom, Zenon
  <2>13. QED
    BY <2>6, <2>12
<1>5. QED
  BY <1>3, <1>4

\* Every step keeps what is known of the subscriptions.
LEMMA StepClaims ==
    ASSUME Known, Claims, LogsKept, [PagesNext]_pagesVars
    PROVE  Claims' /\ LogsKept'
<1>1. CASE ~LinkStep
  BY <1>1, FeedsStay, FeedsKept, KnownIs, Zenon
<1>2. ASSUME NEW t \in Threads,
             \/ MonitorUp(t) \/ MonitorDown(t) \/ CloseHandle(t) \/ Await(t)
             \/ LogsUp(t) \/ LogsDown(t) \/ Go(t)
      PROVE  Claims' /\ LogsKept'
  BY <1>2, UpClaims, DownClaims, CloseClaims, AwaitClaims, LogsUpClaims, LogsDownClaims,
     GoClaims, Zenon
<1>3. CASE LinkStep
  BY <1>2, <1>3, EndClaims, Zenon DEF LinkStep
<1>4. QED
  BY <1>1, <1>3

-----------------------------------------------------------------------------
(* One callback for each dispatcher.                                       *)

\* Position k of a queue has the callback of d's epoch; t is about to hand it over.
Queued(q, d, e, k) == q[k] = [on |-> d, epoch |-> e]
Handed(l, d, e, t) == l[t] = Call("dispatch", d, e)

\* CallbackOf(d) of given dispatcher, flags, queue and calls.
CallbackIs(u, r, q, l, d) ==
  /\ u.pending => u.active /\ r[d]
  /\ u.pending => (\E k \in 1 .. Len(q) : Queued(q, d, u.epoch, k))
                  \/ \E t \in Threads : Handed(l, d, u.epoch, t)
  /\ \A k \in 1 .. Len(q) : Queued(q, d, u.epoch, k) => u.pending
  /\ \A t \in Threads : Handed(l, d, u.epoch, t) => u.pending
  /\ \A j, k \in 1 .. Len(q) : Queued(q, d, u.epoch, j) /\ Queued(q, d, u.epoch, k) => j = k
  /\ \A s, t \in Threads : Handed(l, d, u.epoch, s) /\ Handed(l, d, u.epoch, t) => s = t
  /\ \A k \in 1 .. Len(q), t \in Threads : ~(Queued(q, d, u.epoch, k) /\ Handed(l, d, u.epoch, t))
  /\ \A k \in 1 .. Len(q) : q[k].on = d => q[k].epoch <= u.epoch
  /\ \A t \in Threads : l[t].op = "dispatch" /\ l[t].on = d => l[t].arg <= u.epoch

LEMMA CallbackBefore ==
    ASSUME NEW d
    PROVE  CallbackOf(d) <=> CallbackIs(updates[d], renewed, queue, Leads, d)
BY Zenon DEF CallbackOf, CallbackIs, Queued, Handed, InQueue, InHand

LEMMA CallbackAfter ==
    ASSUME NEW d
    PROVE  CallbackOf(d)' <=> CallbackIs(updates'[d], renewed', queue', Leads', d)
BY Zenon DEF CallbackOf, CallbackIs, Queued, Handed, InQueue, InHand

\* A thread's urgent call changes from one to another that are not callbacks of d.
OneLead(l, m, t) == \A s \in Threads \ {t} : m[s] = l[s]
NotOf(c, d) == ~(c.op = "dispatch" /\ c.on = d)

LEMMA NotHanded ==
    ASSUME NEW c, NEW d, NotOf(c, d), NEW e
    PROVE  c # Call("dispatch", d, e)
BY CallIs DEF NotOf

LEMMA CallbackOfLead ==
    ASSUME NEW u, NEW r, NEW q, NEW l, NEW d, CallbackIs(u, r, q, l, d),
           NEW t \in Threads, NEW m, OneLead(l, m, t), NotOf(l[t], d), NotOf(m[t], d)
    PROVE  CallbackIs(u, r, q, m, d)
<1>1. \A s \in Threads : Handed(m, d, u.epoch, s) <=> Handed(l, d, u.epoch, s)
  <2>1. TAKE s \in Threads
  <2>2. CASE s = t
    BY <2>2, NotHanded, Zenon DEF Handed
  <2>3. CASE s # t
    BY <2>3, Zenon DEF Handed, OneLead
  <2>4. QED
    BY <2>2, <2>3
<1>2. \A s \in Threads : m[s].op = "dispatch" /\ m[s].on = d => m[s].arg <= u.epoch
  <2>1. TAKE s \in Threads
  <2>2. CASE s = t
    BY <2>2, Zenon DEF NotOf
  <2>3. CASE s # t
    BY <2>3, Zenon DEF OneLead, CallbackIs
  <2>4. QED
    BY <2>2, <2>3
<1>3. QED
  BY <1>1, <1>2, Zenon DEF CallbackIs

\* Another dispatcher than d gets, or gives, a callback.
LEMMA CallbackOfAppend ==
    ASSUME NEW u, NEW r, NEW S, NEW q \in Seq(S), NEW l, NEW d, CallbackIs(u, r, q, l, d),
           NEW c \in S, c.on # d
    PROVE  CallbackIs(u, r, Append(q, c), l, d)
<1>1. PICK p : p = Append(q, c)
  OBVIOUS
<1>2. PICK n \in Nat : n = Len(q)
  OBVIOUS
<1>3. Len(p) = n + 1 /\ p[n + 1] = c /\ \A k \in 1 .. n : p[k] = q[k]
  BY <1>1, <1>2, AppendTyped
<1>4. \A k \in 1 .. n + 1 : k \in 1 .. n \/ k = n + 1
  BY <1>2
<1>5. \A k \in 1 .. n : k \in 1 .. n + 1
  BY <1>2
<1>6. ~Queued(p, d, u.epoch, n + 1) /\ p[n + 1].on # d
  <2>1. [on |-> d, epoch |-> u.epoch].on = d
    OBVIOUS
  <2>2. QED
    BY <1>3, <2>1, Zenon DEF Queued
<1>7. \A k \in 1 .. n + 1 : (Queued(p, d, u.epoch, k) \/ p[k].on = d) => k \in 1 .. n
  BY <1>4, <1>6, Zenon
<1>8. \A k \in 1 .. n : Queued(p, d, u.epoch, k) <=> Queued(q, d, u.epoch, k)
  BY <1>3, Zenon DEF Queued
<1>9. CallbackIs(u, r, p, l, d)
  BY <1>2, <1>3, <1>5, <1>7, <1>8, Zenon DEF CallbackIs
<1>10. QED
  BY <1>1, <1>9

\* A queue whose first callback was taken.
LEMMA TailOf ==
    ASSUME NEW S, NEW q \in Seq(S), q # << >>, NEW d, NEW e
    PROVE  /\ \A k \in 1 .. Len(Tail(q)) : /\ k + 1 \in 1 .. Len(q) /\ Tail(q)[k] = q[k + 1]
                                           /\ Queued(Tail(q), d, e, k) <=> Queued(q, d, e, k + 1)
           /\ \A k \in 1 .. Len(q) : k # 1 =>
                \E j \in 1 .. Len(Tail(q)) : j + 1 = k
           /\ \A j, k \in 1 .. Len(Tail(q)) : j + 1 = k + 1 => j = k
           /\ \A k \in 1 .. Len(Tail(q)) : k + 1 # 1
<1>1. /\ Len(q) \in Nat \ {0} /\ Len(Tail(q)) = Len(q) - 1
      /\ \A k \in 1 .. Len(q) - 1 : Tail(q)[k] = q[k + 1]
  BY QueueParts, Zenon
<1>2. Len(q) - 1 \in Nat /\ (Len(q) - 1) + 1 = Len(q) /\ Len(q) - 1 = Len(Tail(q))
  BY <1>1
<1>8. PICK n \in Nat : n + 1 = Len(q) /\ n = Len(Tail(q))
  BY <1>2, Zenon
<1>3. \A k \in 1 .. n : k + 1 \in 1 .. n + 1 /\ Tail(q)[k] = q[k + 1]
  BY <1>1, <1>8
<1>4. \A k \in 1 .. n : Queued(Tail(q), d, e, k) <=> Queued(q, d, e, k + 1)
  BY <1>3, Zenon DEF Queued
<1>5. \A k \in 1 .. n + 1 : k # 1 => \E j \in 1 .. n : j + 1 = k
  <2>1. TAKE k \in 1 .. n + 1
  <2>2. k # 1 => k - 1 \in 1 .. n /\ (k - 1) + 1 = k
    OBVIOUS
  <2>3. QED
    BY <2>2
<1>6. (\A j, k \in 1 .. n : j + 1 = k + 1 => j = k) /\ \A k \in 1 .. n : k + 1 # 1
  OBVIOUS
<1>7. QED
  BY <1>8, <1>3, <1>4, <1>5, <1>6, Zenon

\* The first callback is of another dispatcher, or of an earlier epoch.
LEMMA CallbackOfTail ==
    ASSUME NEW u, NEW r, NEW S, NEW q \in Seq(S), q # << >>, NEW l, NEW d, CallbackIs(u, r, q, l, d),
           ~Queued(q, d, u.epoch, 1)
    PROVE  CallbackIs(u, r, Tail(q), l, d)
<1>1. PICK p, e : p = Tail(q) /\ e = u.epoch
  OBVIOUS
<1>2. /\ \A k \in 1 .. Len(p) : k + 1 \in 1 .. Len(q) /\ p[k] = q[k + 1]
                                /\ (Queued(p, d, e, k) <=> Queued(q, d, e, k + 1))
      /\ \A k \in 1 .. Len(q) : k # 1 => \E j \in 1 .. Len(p) : j + 1 = k
      /\ \A j, k \in 1 .. Len(p) : j + 1 = k + 1 => j = k
  BY <1>1, TailOf
<1>3. u.pending => (\E k \in 1 .. Len(p) : Queued(p, d, e, k))
                   \/ \E t \in Threads : Handed(l, d, e, t)
  <2>1. HAVE u.pending
  <2>2. ASSUME NEW k \in 1 .. Len(q), Queued(q, d, e, k)
        PROVE  \E j \in 1 .. Len(p) : Queued(p, d, e, j)
    <3>1. k # 1
      BY <1>1, <2>2, Zenon
    <3>2. PICK j \in 1 .. Len(p) : j + 1 = k
      BY <1>2, <3>1, Zenon
    <3>3. Queued(q, d, e, j + 1)
      BY <2>2, <3>2, Zenon
    <3>4. QED
      BY <1>2, <3>3, Zenon
  <2>3. (\E k \in 1 .. Len(q) : Queued(q, d, e, k)) \/ \E t \in Threads : Handed(l, d, e, t)
    BY <1>1, <2>1, Zenon DEF CallbackIs
  <2>4. QED
    BY <2>2, <2>3, Zenon
<1>4. \A k \in 1 .. Len(p) : Queued(p, d, e, k) => u.pending
  BY <1>1, <1>2, Zenon DEF CallbackIs
<1>5. ASSUME NEW j \in 1 .. Len(p), NEW k \in 1 .. Len(p), Queued(p, d, e, j), Queued(p, d, e, k)
      PROVE  j = k
  <2>1. Queued(q, d, e, j + 1) /\ Queued(q, d, e, k + 1) /\ j + 1 \in 1 .. Len(q) /\ k + 1 \in 1 .. Len(q)
    BY <1>2, <1>5, Zenon
  <2>2. j + 1 = k + 1
    BY <1>1, <2>1, Zenon DEF CallbackIs
  <2>3. QED
    BY <1>2, <2>2, Zenon
<1>6. \A k \in 1 .. Len(p), t \in Threads : ~(Queued(p, d, e, k) /\ Handed(l, d, e, t))
  BY <1>1, <1>2, Zenon DEF CallbackIs
<1>7. \A k \in 1 .. Len(p) : p[k].on = d => p[k].epoch <= e
  <2>1. \A k \in 1 .. Len(q) : q[k].on = d => q[k].epoch <= e
    BY <1>1, Zenon DEF CallbackIs
  <2>2. \A k \in 1 .. Len(p) : k + 1 \in 1 .. Len(q) /\ p[k] = q[k + 1]
    BY <1>2, Zenon
  <2>3. QED
    BY <2>1, <2>2, Zenon
<1>8. CallbackIs(u, r, p, l, d)
  BY <1>1, <1>3, <1>4, <1>5, <1>6, <1>7, Zenon DEF CallbackIs
<1>9. QED
  BY <1>1, <1>8

\* The callback runs, and takes what is pending.
LEMMA CallbackTaken ==
    ASSUME NEW u, NEW r, NEW S, NEW q \in Seq(S), q # << >>, NEW l, NEW d, CallbackIs(u, r, q, l, d),
           Queued(q, d, u.epoch, 1), NEW v, ~v.pending, v.epoch = u.epoch
    PROVE  CallbackIs(v, r, Tail(q), l, d)
<1>1. PICK p, e : p = Tail(q) /\ e = u.epoch
  OBVIOUS
<1>2. /\ \A k \in 1 .. Len(p) : k + 1 \in 1 .. Len(q) /\ p[k] = q[k + 1]
                                /\ (Queued(p, d, e, k) <=> Queued(q, d, e, k + 1))
      /\ \A k \in 1 .. Len(p) : k + 1 # 1
  BY <1>1, TailOf
<1>3. 1 \in 1 .. Len(q)
  BY QueueParts
<1>4. ASSUME NEW k \in 1 .. Len(p), Queued(p, d, e, k)
      PROVE  FALSE
  <2>1. Queued(q, d, e, k + 1) /\ k + 1 \in 1 .. Len(q) /\ k + 1 # 1
    BY <1>2, <1>4, Zenon
  <2>2. QED
    BY <1>1, <1>3, <2>1, Zenon DEF CallbackIs
<1>5. \A t \in Threads : ~Handed(l, d, e, t)
  BY <1>1, <1>3, Zenon DEF CallbackIs
<1>6. \A k \in 1 .. Len(p) : p[k].on = d => p[k].epoch <= e
  <2>1. \A k \in 1 .. Len(q) : q[k].on = d => q[k].epoch <= e
    BY <1>1, Zenon DEF CallbackIs
  <2>2. \A k \in 1 .. Len(p) : k + 1 \in 1 .. Len(q) /\ p[k] = q[k + 1]
    BY <1>2, Zenon
  <2>3. QED
    BY <2>1, <2>2, Zenon
<1>7. CallbackIs(v, r, p, l, d)
  BY <1>1, <1>4, <1>5, <1>6, Zenon DEF CallbackIs
<1>8. QED
  BY <1>1, <1>7

\* A thread hands over the callback it was to hand over.
LEMMA CallbackHanded ==
    ASSUME NEW u, NEW r, NEW S, NEW q \in Seq(S), NEW l, NEW d, CallbackIs(u, r, q, l, d),
           NEW a, [on |-> d, epoch |-> a] \in S,
           NEW t \in Threads, l[t] = Call("dispatch", d, a), NEW m, OneLead(l, m, t), NotOf(m[t], d)
    PROVE  CallbackIs(u, r, Append(q, [on |-> d, epoch |-> a]), m, d)
<1>1. PICK p, e : p = Append(q, [on |-> d, epoch |-> a]) /\ e = u.epoch
  OBVIOUS
<1>2. PICK n \in Nat : n = Len(q)
  OBVIOUS
<1>3. Len(p) = n + 1 /\ p[n + 1] = [on |-> d, epoch |-> a] /\ \A k \in 1 .. n : p[k] = q[k]
  BY <1>1, <1>2, AppendTyped
<1>4. \A k \in 1 .. n + 1 : k \in 1 .. n \/ k = n + 1
  BY <1>2
<1>5. (\A k \in 1 .. n : k \in 1 .. n + 1) /\ n + 1 \in 1 .. n + 1
  BY <1>2
<1>6. \A k \in 1 .. n : Queued(p, d, e, k) <=> Queued(q, d, e, k)
  BY <1>3, Zenon DEF Queued
<1>7. Queued(p, d, e, n + 1) <=> a = e
  <2>1. [on |-> d, epoch |-> a] = [on |-> d, epoch |-> e] <=> a = e
    <3>1. [on |-> d, epoch |-> a].epoch = a /\ [on |-> d, epoch |-> e].epoch = e
      OBVIOUS
    <3>2. QED
      BY <3>1, Zenon
  <2>2. QED
    BY <1>3, <2>1, Zenon DEF Queued
<1>8. Handed(l, d, e, t) <=> a = e
  BY SameCalls DEF Handed
<1>9. ~Handed(m, d, e, t) /\ \A s \in Threads : s # t => (Handed(m, d, e, s) <=> Handed(l, d, e, s))
  BY NotHanded, Zenon DEF Handed, OneLead
<1>10. a <= e
  <2>1. l[t].op = "dispatch" /\ l[t].on = d /\ l[t].arg = a
    BY CallIs
  <2>2. QED
    BY <1>1, <2>1, Zenon DEF CallbackIs
<1>11. u.pending => u.active /\ r[d]
  BY Zenon DEF CallbackIs
<1>12. u.pending => (\E k \in 1 .. Len(p) : Queued(p, d, e, k))
                    \/ \E s \in Threads : Handed(m, d, e, s)
  <2>1. HAVE u.pending
  <2>2. (\E k \in 1 .. n : Queued(q, d, e, k)) \/ \E s \in Threads : Handed(l, d, e, s)
    BY <1>1, <1>2, <2>1, Zenon DEF CallbackIs
  <2>3. CASE \E k \in 1 .. n : Queued(q, d, e, k)
    BY <1>3, <1>5, <1>6, <2>3, Zenon
  <2>4. CASE \E s \in Threads : Handed(l, d, e, s)
    BY <1>3, <1>5, <1>7, <1>8, <1>9, <2>4, Zenon
  <2>5. QED
    BY <2>2, <2>3, <2>4
<1>13. \A k \in 1 .. n + 1 : Queued(p, d, e, k) => u.pending
  <2>1. \A k \in 1 .. n : Queued(q, d, e, k) => u.pending
    BY <1>1, <1>2, Zenon DEF CallbackIs
  <2>2. a = e => u.pending
    BY <1>1, <1>8, Zenon DEF CallbackIs
  <2>3. QED
    BY <1>4, <1>6, <1>7, <2>1, <2>2, Zenon
<1>14. \A s \in Threads : Handed(m, d, e, s) => s # t /\ Handed(l, d, e, s)
  BY <1>9, Zenon
<1>15. \A s \in Threads : Handed(m, d, e, s) => u.pending
  BY <1>1, <1>14, Zenon DEF CallbackIs
<1>16. a = e => \A k \in 1 .. n : ~Queued(p, d, e, k)
  BY <1>1, <1>2, <1>6, <1>8, Zenon DEF CallbackIs
<1>17. a = e => \A s \in Threads : ~Handed(m, d, e, s)
  BY <1>1, <1>8, <1>14, Zenon DEF CallbackIs
<1>18. ASSUME NEW j \in 1 .. n + 1, NEW k \in 1 .. n + 1, Queued(p, d, e, j), Queued(p, d, e, k)
       PROVE  j = k
  <2>1. CASE a = e
    BY <1>4, <1>16, <1>18, <2>1, Zenon
  <2>2. CASE a # e
    <3>1. j \in 1 .. n /\ k \in 1 .. n
      BY <1>4, <1>7, <1>18, <2>2, Zenon
    <3>2. QED
      BY <1>1, <1>2, <1>6, <1>18, <3>1, Zenon DEF CallbackIs
  <2>3. QED
    BY <2>1, <2>2
<1>19. \A s, o \in Threads : Handed(m, d, e, s) /\ Handed(m, d, e, o) => s = o
  BY <1>1, <1>14, Zenon DEF CallbackIs
<1>20. ASSUME NEW k \in 1 .. n + 1, NEW s \in Threads, Queued(p, d, e, k), Handed(m, d, e, s)
       PROVE  FALSE
  <2>1. a # e
    BY <1>17, <1>20, Zenon
  <2>2. k \in 1 .. n
    BY <1>4, <1>7, <1>20, <2>1, Zenon
  <2>3. QED
    BY <1>1, <1>2, <1>6, <1>14, <1>20, <2>2, Zenon DEF CallbackIs
<1>21. \A k \in 1 .. n + 1 : p[k].on = d => p[k].epoch <= e
  <2>1. \A k \in 1 .. n : q[k].on = d => q[k].epoch <= e
    BY <1>1, <1>2, Zenon DEF CallbackIs
  <2>2. p[n + 1].epoch = a
    BY <1>3
  <2>3. QED
    BY <1>3, <1>4, <1>10, <2>1, <2>2, Zenon
<1>22. \A s \in Threads : m[s].op = "dispatch" /\ m[s].on = d => m[s].arg <= e
  <2>1. TAKE s \in Threads
  <2>2. CASE s = t
    BY <2>2, Zenon DEF NotOf
  <2>3. CASE s # t
    BY <1>1, <2>3, Zenon DEF OneLead, CallbackIs
  <2>4. QED
    BY <2>2, <2>3
<1>23. CallbackIs(u, r, p, m, d)
  BY <1>1, <1>3, <1>11, <1>12, <1>13, <1>15, <1>18, <1>19, <1>20, <1>21, <1>22, Zenon DEF CallbackIs
<1>24. QED
  BY <1>1, <1>23

\* A view is submitted: to a dispatcher with a callback on its way, or to one without.
LEMMA CallbackSubmitted ==
    ASSUME NEW u, NEW r, NEW q, NEW l, NEW d, CallbackIs(u, r, q, l, d),
           NEW v, v.pending, v.active, v.epoch = u.epoch, NEW o, o[d], u.epoch \in Nat,
           NEW t \in Threads, NEW m, OneLead(l, m, t), NotOf(l[t], d),
           \/ u.pending /\ NotOf(m[t], d)
           \/ ~u.pending /\ m[t] = Call("dispatch", d, u.epoch)
    PROVE  CallbackIs(v, o, q, m, d)
<1>1. CASE u.pending /\ NotOf(m[t], d)
  <2>1. CallbackIs(u, r, q, m, d)
    BY <1>1, CallbackOfLead, Zenon
  <2>2. QED
    BY <1>1, <2>1, Zenon DEF CallbackIs
<1>2. CASE ~u.pending /\ m[t] = Call("dispatch", d, u.epoch)
  <2>1. PICK e \in Nat : e = u.epoch
    OBVIOUS
  <2>2. Handed(m, d, e, t)
    BY <1>2, <2>1, Zenon DEF Handed
  <2>3. \A s \in Threads : ~Handed(l, d, e, s)
    BY <1>2, <2>1, Zenon DEF CallbackIs
  <2>4. \A s \in Threads : Handed(m, d, e, s) => s = t
    BY <2>3, Zenon DEF OneLead, Handed
  <2>5. \A k \in 1 .. Len(q) : ~Queued(q, d, e, k)
    BY <1>2, <2>1, Zenon DEF CallbackIs
  <2>6. \A k \in 1 .. Len(q) : q[k].on = d => q[k].epoch <= e
    BY <2>1, Zenon DEF CallbackIs
  <2>7. \A s \in Threads : m[s].op = "dispatch" /\ m[s].on = d => m[s].arg <= e
    <3>1. TAKE s \in Threads
    <3>2. CASE s = t
      <4>1. m[t].arg = e
        BY <1>2, <2>1, CallIs
      <4>2. QED
        BY <3>2, <4>1
    <3>3. CASE s # t
      BY <2>1, <3>3, Zenon DEF OneLead, CallbackIs
    <3>4. QED
      BY <3>2, <3>3
  <2>8. v.epoch = e
    BY <2>1
  <2>9. QED
    BY <2>2, <2>4, <2>5, <2>6, <2>7, <2>8, Zenon DEF CallbackIs
<1>3. QED
  BY <1>1, <1>2

LEMMA ElementOf ==
    ASSUME NEW S, NEW q \in Seq(S), NEW k \in 1 .. Len(q)
    PROVE  q[k] \in S
OBVIOUS

\* Earlier callbacks are of no use to a dispatcher that was left.
LEMMA CallbackCancelled ==
    ASSUME NEW u, NEW r, NEW q \in Seq([on : Dispatchers, epoch : Nat]), NEW l, NEW d,
           CallbackIs(u, r, q, l, d), u.epoch \in Nat, \A s \in Threads : l[s].op = "dispatch" => l[s].arg \in Nat,
           NEW v, ~v.pending, v.epoch = u.epoch + 1, NEW o
    PROVE  CallbackIs(v, o, q, l, d)
<1>1. PICK e \in Nat : e = u.epoch
  OBVIOUS
<1>2. ASSUME NEW k \in 1 .. Len(q), q[k].on = d
      PROVE  q[k].epoch \in Nat /\ q[k].epoch <= e /\ q[k].epoch <= e + 1 /\ q[k].epoch # e + 1
  <2>1. q[k].epoch <= e
    BY <1>1, <1>2, Zenon DEF CallbackIs
  <2>2. q[k] \in [on : Dispatchers, epoch : Nat]
    BY ElementOf, Zenon
  <2>3. QED
    BY <2>1, <2>2
<1>3. ASSUME NEW s \in Threads, l[s].op = "dispatch", l[s].on = d
      PROVE  l[s].arg <= e + 1 /\ l[s].arg # e + 1
  <2>1. l[s].arg <= e
    BY <1>1, <1>3, Zenon DEF CallbackIs
  <2>2. l[s].arg \in Nat
    BY <1>3
  <2>3. QED
    BY <2>1, <2>2
<1>4. \A k \in 1 .. Len(q) : ~Queued(q, d, e + 1, k)
  <2>1. TAKE k \in 1 .. Len(q)
  <2>2. [on |-> d, epoch |-> e + 1].on = d /\ [on |-> d, epoch |-> e + 1].epoch = e + 1
    OBVIOUS
  <2>3. QED
    BY <1>2, <2>2, Zenon DEF Queued
<1>5. \A s \in Threads : ~Handed(l, d, e + 1, s)
  <2>1. TAKE s \in Threads
  <2>2. /\ Call("dispatch", d, e + 1).op = "dispatch" /\ Call("dispatch", d, e + 1).on = d
        /\ Call("dispatch", d, e + 1).arg = e + 1
    BY CallIs
  <2>3. QED
    BY <1>3, <2>2, Zenon DEF Handed
<1>6. v.epoch = e + 1
  BY <1>1
<1>7. QED
  BY <1>2, <1>3, <1>4, <1>5, <1>6, Zenon DEF CallbackIs

\* What the operations of a dispatcher do.
LEMMA DispatcherParts ==
    ASSUME NEW u \in LatestDispatchers
    PROVE  /\ u.latest \in Views /\ u.pending \in BOOLEAN /\ u.active \in BOOLEAN /\ u.epoch \in Nat
           /\ u = [latest |-> u.latest, pending |-> u.pending, active |-> u.active, epoch |-> u.epoch]
BY DEF LatestDispatchers

LEMMA SubmittedIs ==
    ASSUME NEW u \in LatestDispatchers, NEW x, u.active
    PROVE  /\ Submitted(u, x).pending /\ Submitted(u, x).active
           /\ Submitted(u, x).epoch = u.epoch /\ Submitted(u, x).latest = x
<1>1. PICK b \in BOOLEAN : b = TRUE
  OBVIOUS
<1>2. /\ [u EXCEPT !.latest = x, !.pending = b].pending = b
      /\ [u EXCEPT !.latest = x, !.pending = b].active = u.active
      /\ [u EXCEPT !.latest = x, !.pending = b].epoch = u.epoch
      /\ [u EXCEPT !.latest = x, !.pending = b].latest = x
  <2>1. u = [latest |-> u.latest, pending |-> u.pending, active |-> u.active, epoch |-> u.epoch]
    BY DispatcherParts, Zenon
  <2>2. QED
    BY <2>1
<1>3. Submitted(u, x) = [u EXCEPT !.latest = x, !.pending = b]
  BY <1>1, Zenon DEF Submitted
<1>4. QED
  BY <1>1, <1>2, <1>3, Zenon

LEMMA NotSubmitted ==
    ASSUME NEW u, NEW x, ~u.active
    PROVE  Submitted(u, x) = u
BY Zenon DEF Submitted

LEMMA TakenIs ==
    ASSUME NEW u \in LatestDispatchers
    PROVE  ~Taken(u).pending /\ Taken(u).epoch = u.epoch
<1>1. PICK c \in BOOLEAN : c = FALSE
  OBVIOUS
<1>2. [u EXCEPT !.pending = c].pending = c /\ [u EXCEPT !.pending = c].epoch = u.epoch
  BY DispatcherParts
<1>3. QED
  BY <1>1, <1>2, Zenon DEF Taken

LEMMA CancelledIs ==
    ASSUME NEW u \in LatestDispatchers
    PROVE  ~Cancelled(u).pending /\ Cancelled(u).epoch = u.epoch + 1
<1>1. PICK c \in BOOLEAN : c = FALSE
  OBVIOUS
<1>2. PICK n : n = u.epoch + 1
  OBVIOUS
<1>3. /\ [u EXCEPT !.active = c, !.pending = c, !.epoch = n].pending = c
      /\ [u EXCEPT !.active = c, !.pending = c, !.epoch = n].epoch = n
  BY DispatcherParts
<1>4. Cancelled(u) = [u EXCEPT !.active = c, !.pending = c, !.epoch = n]
  BY <1>1, <1>2, Zenon DEF Cancelled
<1>5. QED
  BY <1>1, <1>2, <1>3, <1>4, Zenon

LEMMA ResumedIs ==
    ASSUME NEW u \in LatestDispatchers
    PROVE  /\ Resumed(u).active /\ (Resumed(u).pending <=> u.pending)
           /\ Resumed(u).epoch = u.epoch /\ Resumed(u).latest = u.latest
<1>1. PICK b \in BOOLEAN : b = TRUE
  OBVIOUS
<1>2. /\ [u EXCEPT !.active = b].active = b /\ [u EXCEPT !.active = b].pending = u.pending
      /\ [u EXCEPT !.active = b].epoch = u.epoch /\ [u EXCEPT !.active = b].latest = u.latest
  BY DispatcherParts
<1>3. QED
  BY <1>1, <1>2, Zenon DEF Resumed

\* One value of a function of the dispatchers changes.
LEMMA OneChanges ==
    ASSUME NEW f, DOMAIN f = Dispatchers, NEW d \in Dispatchers, NEW y
    PROVE  [f EXCEPT ![d] = y][d] = y /\ \A x \in Dispatchers \ {d} : [f EXCEPT ![d] = y][x] = f[x]
BY Zenon

LEMMA ScreenDomains ==
    ASSUME Known
    PROVE  /\ DOMAIN updates = Dispatchers /\ DOMAIN shown = Dispatchers
           /\ DOMAIN late = Dispatchers /\ DOMAIN renewed = Dispatchers
<1>1. /\ updates \in [Dispatchers -> LatestDispatchers] /\ shown \in [Dispatchers -> Views]
      /\ late \in [Dispatchers -> BOOLEAN] /\ renewed \in [Dispatchers -> BOOLEAN]
  BY KnownIs, Zenon
<1>2. QED
  BY <1>1, Zenon

LEMMA SubmitEffect ==
    ASSUME Known, NEW t \in Threads, Submit(t), NEW d, d = Now(t).on, NEW a, a = Now(t).arg,
           NEW lead, lead = Leads[t]
    PROVE  /\ d \in Dispatchers /\ a \in Views /\ updates[d] \in LatestDispatchers
           /\ lead.op = "submit" /\ lead.on = d /\ lead.arg = a
           /\ updates'[d] = Submitted(updates[d], a)
           /\ renewed'[d] <=> renewed[d] \/ updates[d].active
           /\ late'[d] <=> late[d] \/ ~updates[d].active
           /\ \A x \in Dispatchers \ {d} : /\ updates'[x] = updates[x] /\ renewed'[x] = renewed[x]
                                           /\ late'[x] = late[x]
           /\ updates[d].active /\ ~updates[d].pending =>
                Leads'[t] = Call("dispatch", d, updates[d].epoch)
           /\ ~(updates[d].active /\ ~updates[d].pending) => Leads'[t] = NoCall
           /\ \A u \in Threads \ {t} : Leads'[u] = Leads[u]
           /\ Kept /\ UNCHANGED << queue, shown, feeds, tuning, frame >>
<1>1. /\ updates' = [updates EXCEPT ![d] = Submitted(updates[d], a)]
      /\ renewed' = [renewed EXCEPT ![d] = renewed[d] \/ updates[d].active]
      /\ late' = [late EXCEPT ![d] = late[d] \/ ~updates[d].active]
      /\ UNCHANGED << queue, shown, feeds, tuning, frame >>
  BY Zenon DEF Submit
<1>2. /\ d \in Dispatchers /\ Now(t).arg \in Views /\ Now(t).op = "submit" /\ Leads[t] = Now(t) /\ Kept
      /\ Turn(t, IF Dispatches(updates[d]) THEN Call("dispatch", d, updates[d].epoch)
                                           ELSE NoCall)
  BY SubmitTurns, KnownIs, Zenon
<1>3. updates[d] \in LatestDispatchers
  BY <1>2, KnownIs, DispatcherIs, Zenon
<1>4. Dispatches(updates[d]) <=> updates[d].active /\ ~updates[d].pending
  BY Zenon DEF Dispatches
<1>5. /\ updates'[d] = Submitted(updates[d], a)
      /\ \A x \in Dispatchers \ {d} : updates'[x] = updates[x]
  BY <1>1, <1>2, ScreenDomains, OneChanges, Zenon
<1>6. /\ renewed'[d] = (renewed[d] \/ updates[d].active)
      /\ \A x \in Dispatchers \ {d} : renewed'[x] = renewed[x]
  BY <1>1, <1>2, ScreenDomains, OneChanges, Zenon
<1>7. /\ late'[d] = (late[d] \/ ~updates[d].active)
      /\ \A x \in Dispatchers \ {d} : late'[x] = late[x]
  BY <1>1, <1>2, ScreenDomains, OneChanges, Zenon
<1>8. PICK new : new = IF Dispatches(updates[d]) THEN Call("dispatch", d, updates[d].epoch) ELSE NoCall
  OBVIOUS
<1>9. Leads'[t] = new /\ \A u \in Threads \ {t} : Leads'[u] = Leads[u]
  BY <1>2, <1>8, TurnLeads, Zenon
<1>10. /\ updates[d].active /\ ~updates[d].pending => new = Call("dispatch", d, updates[d].epoch)
       /\ ~(updates[d].active /\ ~updates[d].pending) => new = NoCall
  BY <1>4, <1>8, Zenon
<1>11. QED
  BY <1>1, <1>2, <1>3, <1>5, <1>6, <1>7, <1>9, <1>10, Zenon

LEMMA CallbackEffect ==
    ASSUME Known, RunCallback, NEW d, d = queue[1].on, NEW e, e = queue[1].epoch
    PROVE  /\ d \in Dispatchers /\ updates[d] \in LatestDispatchers
           /\ queue # << >> /\ queue[1] = [on |-> d, epoch |-> e] /\ queue' = Tail(queue)
           /\ Leads["ui"] = NoCall
           /\ updates[d].active /\ updates[d].epoch = e =>
                updates'[d] = Taken(updates[d]) /\ Leads'["ui"] = Call("render", d, updates[d].latest)
           /\ ~(updates[d].active /\ updates[d].epoch = e) =>
                updates'[d] = updates[d] /\ Leads'["ui"] = NoCall
           /\ \A x \in Dispatchers \ {d} : updates'[x] = updates[x]
           /\ \A u \in Threads \ {"ui"} : Leads'[u] = Leads[u]
           /\ Kept /\ UNCHANGED << shown, renewed, feeds, tuning, frame, late >>
<1>1. queue \in Seq([on : Dispatchers, epoch : Nat]) /\ queue # << >>
  BY KnownIs, Zenon DEF RunCallback
<1>2. Head(queue) = queue[1] /\ Head(queue) \in [on : Dispatchers, epoch : Nat]
  BY <1>1, QueueParts, Zenon
<1>3. queue[1] = [on |-> d, epoch |-> e]
  BY <1>2
<1>4. d = Head(queue).on /\ e = Head(queue).epoch
  BY <1>2
<1>5. /\ updates' = [updates EXCEPT ![d] = IF Renders(updates[d], e) THEN Taken(updates[d]) ELSE updates[d]]
      /\ queue' = Tail(queue)
      /\ UNCHANGED << shown, renewed, feeds, tuning, frame, late >>
  BY <1>4, Zenon DEF RunCallback
<1>6. /\ d \in Dispatchers /\ e \in Nat /\ Leads["ui"] = NoCall /\ Kept
      /\ Turn("ui", IF Renders(updates[d], e) THEN Call("render", d, updates[d].latest)
                                              ELSE NoCall)
  BY <1>4, CallbackTurns, KnownIs, Zenon
<1>7. "ui" \in Threads
  BY DEF Threads
<1>8. updates[d] \in LatestDispatchers
  BY <1>6, KnownIs, DispatcherIs, Zenon
<1>9. Renders(updates[d], e) <=> updates[d].active /\ updates[d].epoch = e
  BY Zenon DEF Renders
<1>10. PICK new, u : /\ new = IF Renders(updates[d], e) THEN Call("render", d, updates[d].latest) ELSE NoCall
                     /\ u = IF Renders(updates[d], e) THEN Taken(updates[d]) ELSE updates[d]
  OBVIOUS
<1>11. Leads'["ui"] = new /\ \A s \in Threads \ {"ui"} : Leads'[s] = Leads[s]
  BY <1>6, <1>7, <1>10, TurnLeads, Zenon
<1>12. updates'[d] = u /\ \A x \in Dispatchers \ {d} : updates'[x] = updates[x]
  BY <1>5, <1>6, <1>10, ScreenDomains, OneChanges, Zenon
<1>13. /\ updates[d].active /\ updates[d].epoch = e =>
            u = Taken(updates[d]) /\ new = Call("render", d, updates[d].latest)
       /\ ~(updates[d].active /\ updates[d].epoch = e) => u = updates[d] /\ new = NoCall
  BY <1>9, <1>10, Zenon
<1>14. QED
  BY <1>1, <1>3, <1>5, <1>6, <1>8, <1>11, <1>12, <1>13, Zenon

LEMMA CancelEffect ==
    ASSUME Known, NEW t \in Threads, CancelUpdates(t), NEW d, d = Now(t).on
    PROVE  /\ d \in Dispatchers /\ updates[d] \in LatestDispatchers
           /\ updates'[d] = Cancelled(updates[d]) /\ ~renewed'[d] /\ late'[d]
           /\ \A x \in Dispatchers \ {d} : /\ updates'[x] = updates[x] /\ renewed'[x] = renewed[x]
                                           /\ late'[x] = late[x]
           /\ Leads' = Leads /\ Kept /\ UNCHANGED << queue, shown, feeds, tuning, frame >>
<1>1. /\ updates' = [updates EXCEPT ![d] = Cancelled(updates[d])]
      /\ renewed' = [renewed EXCEPT ![d] = FALSE]
      /\ late' = [late EXCEPT ![d] = TRUE]
      /\ UNCHANGED << queue, shown, feeds, tuning, frame >> /\ At(t, "cancel")
  BY Zenon DEF CancelUpdates
<1>2. Steady /\ Kept
  BY CancelSteady, KnownIs, Zenon
<1>3. d \in Dispatchers
  <2>1. Now(t) \in Calls /\ Now(t).op = "cancel"
    BY <1>1, KnownIs, AtHead, Zenon
  <2>2. QED
    BY <2>1, CallsAre
<1>4. updates[d] \in LatestDispatchers
  BY <1>3, KnownIs, DispatcherIs, Zenon
<1>5. updates'[d] = Cancelled(updates[d]) /\ \A x \in Dispatchers \ {d} : updates'[x] = updates[x]
  BY <1>1, <1>3, ScreenDomains, OneChanges, Zenon
<1>6. PICK b, c : b = TRUE /\ c = FALSE
  OBVIOUS
<1>7. renewed'[d] = c /\ \A x \in Dispatchers \ {d} : renewed'[x] = renewed[x]
  BY <1>1, <1>3, <1>6, ScreenDomains, OneChanges, Zenon
<1>8. late'[d] = b /\ \A x \in Dispatchers \ {d} : late'[x] = late[x]
  BY <1>1, <1>3, <1>6, ScreenDomains, OneChanges, Zenon
<1>9. QED
  BY <1>1, <1>2, <1>3, <1>4, <1>5, <1>6, <1>7, <1>8, Zenon DEF Steady

LEMMA ResumeEffect ==
    ASSUME Known, NEW t \in Threads, ResumeUpdates(t), NEW d, d = Now(t).on
    PROVE  /\ d \in Dispatchers /\ updates[d] \in LatestDispatchers
           /\ updates'[d] = Resumed(updates[d])
           /\ \A x \in Dispatchers \ {d} : updates'[x] = updates[x]
           /\ Leads' = Leads /\ Kept /\ UNCHANGED << queue, shown, renewed, feeds, tuning, frame, late >>
<1>1. /\ updates' = [updates EXCEPT ![d] = Resumed(updates[d])]
      /\ UNCHANGED << queue, shown, renewed, feeds, tuning, frame, late >> /\ At(t, "resume")
  BY Zenon DEF ResumeUpdates
<1>2. Steady /\ Kept
  BY ResumeSteady, KnownIs, Zenon
<1>3. d \in Dispatchers
  <2>1. Now(t) \in Calls /\ Now(t).op = "resume"
    BY <1>1, KnownIs, AtHead, Zenon
  <2>2. QED
    BY <2>1, CallsAre
<1>4. updates[d] \in LatestDispatchers
  BY <1>3, KnownIs, DispatcherIs, Zenon
<1>5. updates'[d] = Resumed(updates[d]) /\ \A x \in Dispatchers \ {d} : updates'[x] = updates[x]
  BY <1>1, <1>3, ScreenDomains, OneChanges, Zenon
<1>6. QED
  BY <1>1, <1>2, <1>3, <1>4, <1>5, Zenon DEF Steady

LEMMA DispatchEffect ==
    ASSUME Known, NEW t \in Threads, Dispatch(t), NEW d, d = Now(t).on, NEW e, e = Now(t).arg
    PROVE  /\ d \in Dispatchers /\ e \in Nat /\ Leads[t] = Call("dispatch", d, e)
           /\ queue' = Append(queue, [on |-> d, epoch |-> e])
           /\ Leads'[t] = NoCall /\ \A u \in Threads \ {t} : Leads'[u] = Leads[u]
           /\ Kept /\ UNCHANGED << updates, shown, renewed, feeds, tuning, frame, late >>
<1>1. /\ queue' = Append(queue, [on |-> d, epoch |-> e])
      /\ UNCHANGED << updates, shown, renewed, feeds, tuning, frame, late >>
  BY Zenon DEF Dispatch
<1>2. /\ Now(t).on \in Dispatchers /\ Now(t).arg \in Nat
      /\ Now(t) = Call("dispatch", Now(t).on, Now(t).arg)
      /\ Leads[t] = Now(t) /\ Kept /\ Turn(t, NoCall)
  BY DispatchTurns, KnownIs, Zenon
<1>3. Leads'[t] = NoCall /\ \A u \in Threads \ {t} : Leads'[u] = Leads[u]
  BY <1>2, TurnLeads, Zenon
<1>4. Leads[t] = Call("dispatch", d, e)
  BY <1>2, Zenon
<1>5. QED
  BY <1>1, <1>2, <1>3, <1>4, Zenon

-----------------------------------------------------------------------------
(* A step of a dispatcher keeps its callback, and those of the others.     *)

\* The callbacks of d depend on its own flag only.
LEMMA CallbackFlag ==
    ASSUME NEW u, NEW r, NEW q, NEW l, NEW d, CallbackIs(u, r, q, l, d),
           NEW o, r[d] => o[d]
    PROVE  CallbackIs(u, o, q, l, d)
BY Zenon DEF CallbackIs

LEMMA OneCallbackFrom ==
    ASSUME OneCallback,
           \A x \in Dispatchers : CallbackIs(updates[x], renewed, queue, Leads, x) =>
             CallbackIs(updates'[x], renewed', queue', Leads', x)
    PROVE  OneCallback'
<1>1. \A x \in Dispatchers : CallbackOf(x)'
  <2>1. TAKE x \in Dispatchers
  <2>2. CallbackIs(updates[x], renewed, queue, Leads, x)
    BY CallbackBefore, Zenon DEF OneCallback
  <2>3. QED
    BY <2>2, CallbackAfter, Zenon
<1>2. QED
  BY <1>1, Zenon DEF OneCallback

LEMMA OthersNot ==
    ASSUME NEW x, NEW d, x # d, NEW e
    PROVE  NotOf(Call("dispatch", d, e), x)
BY CallIs DEF NotOf

LEMMA NothingNot ==
  \A x : /\ NotOf(NoCall, x)
         /\ \A c : c.op = "submit" => NotOf(c, x)
         /\ \A d, y : NotOf(Call("render", d, y), x)
<1>1. \A x : NotOf(NoCall, x)
  BY NoCallIs DEF NotOf
<1>2. \A x, c : c.op = "submit" => NotOf(c, x)
  BY DEF NotOf
<1>3. \A x, d, y : NotOf(Call("render", d, y), x)
  BY CallIs DEF NotOf
<1>4. QED
  BY <1>1, <1>2, <1>3, Zenon

LEMMA SubmitCallback ==
    ASSUME Known, OneCallback, NEW t \in Threads, Submit(t)
    PROVE  OneCallback'
<1>1. PICK d, a, lead, e : d = Now(t).on /\ a = Now(t).arg /\ lead = Leads[t] /\ e = updates[d].epoch
  OBVIOUS
<1>2. /\ d \in Dispatchers /\ a \in Views /\ updates[d] \in LatestDispatchers
      /\ lead.op = "submit" /\ lead.on = d /\ lead.arg = a
      /\ updates'[d] = Submitted(updates[d], a)
      /\ renewed'[d] <=> renewed[d] \/ updates[d].active
      /\ late'[d] <=> late[d] \/ ~updates[d].active
      /\ \A x \in Dispatchers \ {d} : /\ updates'[x] = updates[x] /\ renewed'[x] = renewed[x]
                                      /\ late'[x] = late[x]
      /\ updates[d].active /\ ~updates[d].pending =>
           Leads'[t] = Call("dispatch", d, updates[d].epoch)
      /\ ~(updates[d].active /\ ~updates[d].pending) => Leads'[t] = NoCall
      /\ \A u \in Threads \ {t} : Leads'[u] = Leads[u]
      /\ Kept /\ UNCHANGED << queue, shown, feeds, tuning, frame >>
  BY <1>1, SubmitEffect
<1>3. OneLead(Leads, Leads', t) /\ queue' = queue
  BY <1>2, Zenon DEF OneLead
<1>4. \A x : NotOf(Leads[t], x)
  BY <1>1, <1>2, NothingNot, Zenon
<1>5. ASSUME NEW x \in Dispatchers, x # d, CallbackIs(updates[x], renewed, queue, Leads, x)
      PROVE  CallbackIs(updates'[x], renewed', queue', Leads', x)
  <2>1. NotOf(Leads'[t], x)
    <3>1. Leads'[t] = NoCall \/ Leads'[t] = Call("dispatch", d, updates[d].epoch)
      BY <1>2, Zenon
    <3>2. NotOf(NoCall, x) /\ NotOf(Call("dispatch", d, updates[d].epoch), x)
      BY <1>5, OthersNot, NothingNot, Zenon
    <3>3. QED
      BY <3>1, <3>2, Zenon
  <2>2. CallbackIs(updates[x], renewed, queue, Leads', x)
    BY <1>3, <1>4, <1>5, <2>1, CallbackOfLead, Zenon
  <2>3. renewed[x] => renewed'[x]
    BY <1>2, <1>5, Zenon
  <2>4. CallbackIs(updates[x], renewed', queue, Leads', x)
    BY <2>2, <2>3, CallbackFlag, Zenon
  <2>5. QED
    BY <1>2, <1>3, <1>5, <2>4, Zenon
<1>6. ASSUME CallbackIs(updates[d], renewed, queue, Leads, d)
      PROVE  CallbackIs(updates'[d], renewed', queue', Leads', d)
  <2>1. PICK u, v : u = updates[d] /\ v = updates'[d]
    OBVIOUS
  <2>2. CASE ~u.active
    <3>1. v = u /\ Leads'[t] = NoCall
      BY <1>2, <2>1, <2>2, NotSubmitted, Zenon
    <3>2. NotOf(Leads'[t], d)
      BY <3>1, NothingNot, Zenon
    <3>3. CallbackIs(u, renewed, queue, Leads', d)
      BY <1>3, <1>4, <1>6, <2>1, <3>2, CallbackOfLead, Zenon
    <3>4. renewed[d] => renewed'[d]
      BY <1>2, Zenon
    <3>5. CallbackIs(u, renewed', queue, Leads', d)
      BY <3>3, <3>4, CallbackFlag, Zenon
    <3>6. QED
      BY <1>3, <2>1, <3>1, <3>5, Zenon
  <2>3. CASE u.active
    <3>1. v.pending /\ v.active /\ v.epoch = u.epoch
      <4>1. /\ Submitted(u, a).pending /\ Submitted(u, a).active
            /\ Submitted(u, a).epoch = u.epoch /\ Submitted(u, a).latest = a
        BY <1>2, <2>1, <2>3, SubmittedIs, Zenon
      <4>2. v = Submitted(u, a)
        BY <1>2, <2>1, Zenon
      <4>3. QED
        BY <4>1, <4>2, Zenon
    <3>2. renewed'[d] /\ u.epoch \in Nat
      <4>1. u.epoch \in Nat
        BY <1>2, <2>1, KnownIs, DispatcherIs, Zenon
      <4>2. QED
        BY <1>2, <2>1, <2>3, <4>1, Zenon
    <3>3. \/ u.pending /\ NotOf(Leads'[t], d)
          \/ ~u.pending /\ Leads'[t] = Call("dispatch", d, u.epoch)
      BY <1>2, <2>1, <2>3, NothingNot, Zenon
    <3>4. CallbackIs(u, renewed, queue, Leads, d)
      BY <1>6, <2>1, Zenon
    <3>5. NotOf(Leads[t], d)
      BY <1>4
    <3>6. PICK q, l, m, r, o : q = queue /\ l = Leads /\ m = Leads' /\ r = renewed /\ o = renewed'
      OBVIOUS
    <3>7. CallbackIs(v, o, q, m, d)
      <4>1. /\ CallbackIs(u, r, q, l, d) /\ o[d] /\ OneLead(l, m, t) /\ NotOf(l[t], d)
            /\ \/ u.pending /\ NotOf(m[t], d)
               \/ ~u.pending /\ m[t] = Call("dispatch", d, u.epoch)
        BY <1>3, <3>2, <3>3, <3>4, <3>5, <3>6, Zenon
      <4>2. QED
        BY <3>1, <3>2, <4>1, CallbackSubmitted, Zenon
    <3>8. QED
      BY <1>3, <2>1, <3>6, <3>7, Zenon
  <2>4. QED
    BY <2>2, <2>3
<1>7. QED
  BY <1>5, <1>6, OneCallbackFrom, Zenon

LEMMA DispatchCallback ==
    ASSUME Known, OneCallback, NEW t \in Threads, Dispatch(t)
    PROVE  OneCallback'
<1>1. PICK d, e : d = Now(t).on /\ e = Now(t).arg
  OBVIOUS
<1>2. /\ d \in Dispatchers /\ e \in Nat /\ Leads[t] = Call("dispatch", d, e)
      /\ queue' = Append(queue, [on |-> d, epoch |-> e])
      /\ Leads'[t] = NoCall /\ \A u \in Threads \ {t} : Leads'[u] = Leads[u]
      /\ UNCHANGED << updates, shown, renewed, feeds, tuning, frame, late >>
  BY <1>1, DispatchEffect, Zenon
<1>3. OneLead(Leads, Leads', t) /\ updates' = updates /\ renewed' = renewed
  BY <1>2, Zenon DEF OneLead
<1>4. PICK S, c : S = [on : Dispatchers, epoch : Nat] /\ c = [on |-> d, epoch |-> e]
  OBVIOUS
<1>5. queue \in Seq(S) /\ c \in S /\ c.on = d
  <2>1. c \in S /\ c.on = d
    BY <1>2, <1>4
  <2>2. QED
    BY <1>4, <2>1, KnownIs, Zenon
<1>6. \A x : NotOf(Leads'[t], x)
  BY <1>2, NothingNot, Zenon
<1>7. ASSUME NEW x \in Dispatchers, x # d, CallbackIs(updates[x], renewed, queue, Leads, x)
      PROVE  CallbackIs(updates'[x], renewed', queue', Leads', x)
  <2>1. NotOf(Leads[t], x)
    BY <1>2, <1>7, OthersNot, Zenon
  <2>2. CallbackIs(updates[x], renewed, queue, Leads', x)
    BY <1>3, <1>6, <1>7, <2>1, CallbackOfLead, Zenon
  <2>3. c.on # x
    BY <1>5, <1>7, Zenon
  <2>4. CallbackIs(updates[x], renewed, Append(queue, c), Leads', x)
    BY <1>5, <2>2, <2>3, CallbackOfAppend, Zenon
  <2>5. QED
    BY <1>2, <1>3, <1>4, <2>4, Zenon
<1>8. ASSUME CallbackIs(updates[d], renewed, queue, Leads, d)
      PROVE  CallbackIs(updates'[d], renewed', queue', Leads', d)
  <2>1. [on |-> d, epoch |-> e] \in S
    BY <1>4, <1>5, Zenon
  <2>2. NotOf(Leads'[t], d)
    BY <1>6
  <2>3. CallbackIs(updates[d], renewed, Append(queue, [on |-> d, epoch |-> e]), Leads', d)
    BY <1>2, <1>3, <1>5, <1>8, <2>1, <2>2, CallbackHanded, Zenon
  <2>4. QED
    BY <1>2, <1>3, <2>3, Zenon
<1>9. QED
  BY <1>7, <1>8, OneCallbackFrom, Zenon

LEMMA RunCallbackKept ==
    ASSUME Known, OneCallback, RunCallback
    PROVE  OneCallback'
<1>1. PICK d, e : d = queue[1].on /\ e = queue[1].epoch
  OBVIOUS
<1>2. /\ d \in Dispatchers /\ updates[d] \in LatestDispatchers
      /\ queue # << >> /\ queue[1] = [on |-> d, epoch |-> e] /\ queue' = Tail(queue)
      /\ Leads["ui"] = NoCall
      /\ updates[d].active /\ updates[d].epoch = e =>
           updates'[d] = Taken(updates[d]) /\ Leads'["ui"] = Call("render", d, updates[d].latest)
      /\ ~(updates[d].active /\ updates[d].epoch = e) =>
           updates'[d] = updates[d] /\ Leads'["ui"] = NoCall
      /\ \A x \in Dispatchers \ {d} : updates'[x] = updates[x]
      /\ \A u \in Threads \ {"ui"} : Leads'[u] = Leads[u]
      /\ Kept /\ UNCHANGED << shown, renewed, feeds, tuning, frame, late >>
  BY <1>1, CallbackEffect
<1>3. "ui" \in Threads
  BY DEF Threads
<1>4. OneLead(Leads, Leads', "ui") /\ renewed' = renewed
  BY <1>2, Zenon DEF OneLead
<1>5. \A x : NotOf(Leads["ui"], x) /\ NotOf(Leads'["ui"], x)
  <2>1. Leads'["ui"] = NoCall \/ Leads'["ui"] = Call("render", d, updates[d].latest)
    BY <1>2, Zenon
  <2>2. \A x : NotOf(NoCall, x) /\ NotOf(Call("render", d, updates[d].latest), x)
    BY NothingNot, Zenon
  <2>3. QED
    BY <1>2, <2>1, <2>2, Zenon
<1>6. PICK S : S = [on : Dispatchers, epoch : Nat]
  OBVIOUS
<1>7. queue \in Seq(S)
  BY <1>6, KnownIs, Zenon
<1>8. \A x, n : Queued(queue, x, n, 1) <=> x = d /\ n = e
  <2>1. \A x, n : [on |-> x, epoch |-> n].on = x /\ [on |-> x, epoch |-> n].epoch = n
    OBVIOUS
  <2>2. ASSUME NEW x, NEW n, queue[1] = [on |-> x, epoch |-> n]
        PROVE  x = d /\ n = e
    BY <1>1, <2>1, <2>2, SMT
  <2>3. \A x, n : x = d /\ n = e => queue[1] = [on |-> x, epoch |-> n]
    BY <1>2, Zenon
  <2>4. QED
    BY <2>2, <2>3, Zenon DEF Queued
<1>9. ASSUME NEW x \in Dispatchers, CallbackIs(updates[x], renewed, queue, Leads, x)
      PROVE  CallbackIs(updates[x], renewed, queue, Leads', x)
  <2>1. NotOf(Leads["ui"], x) /\ NotOf(Leads'["ui"], x)
    BY <1>5
  <2>2. QED
    BY <1>3, <1>4, <1>9, <2>1, CallbackOfLead, Zenon
<1>10. ASSUME NEW x \in Dispatchers, x # d, CallbackIs(updates[x], renewed, queue, Leads, x)
       PROVE  CallbackIs(updates'[x], renewed', queue', Leads', x)
  <2>1. ~Queued(queue, x, updates[x].epoch, 1)
    BY <1>8, <1>10, Zenon
  <2>2. CallbackIs(updates[x], renewed, queue, Leads', x)
    BY <1>9, <1>10, Zenon
  <2>3. CallbackIs(updates[x], renewed, Tail(queue), Leads', x)
    BY <1>2, <1>7, <2>1, <2>2, CallbackOfTail, Zenon
  <2>4. QED
    BY <1>2, <1>4, <1>10, <2>3, Zenon
<1>11. ASSUME CallbackIs(updates[d], renewed, queue, Leads, d)
       PROVE  CallbackIs(updates'[d], renewed', queue', Leads', d)
  <2>1. PICK u, v : u = updates[d] /\ v = updates'[d]
    OBVIOUS
  <2>2. CallbackIs(u, renewed, queue, Leads', d)
    BY <1>2, <1>9, <1>11, <2>1, Zenon
  <2>3. CASE u.epoch = e
    <3>1. Queued(queue, d, u.epoch, 1)
      BY <1>8, <2>3, Zenon
    <3>2. 1 \in 1 .. Len(queue)
      BY <1>2, <1>7, QueueParts
    <3>3. u.active
      BY <2>2, <3>1, <3>2, Zenon DEF CallbackIs
    <3>4. ~v.pending /\ v.epoch = u.epoch
      <4>1. PICK x \in Views : x = u.latest
        BY <1>2, <2>1, KnownIs, DispatcherIs, Zenon
      <4>2. ~Taken(u).pending /\ Taken(u).epoch = u.epoch
        BY <1>2, <2>1, TakenIs, Zenon
      <4>3. v = Taken(u)
        BY <1>2, <2>1, <2>3, <3>3, Zenon
      <4>4. QED
        BY <4>2, <4>3, Zenon
    <3>5. CallbackIs(v, renewed, Tail(queue), Leads', d)
      BY <1>2, <1>7, <2>2, <3>1, <3>4, CallbackTaken, Zenon
    <3>6. QED
      BY <1>2, <1>4, <2>1, <3>5, Zenon
  <2>4. CASE u.epoch # e
    <3>1. ~Queued(queue, d, u.epoch, 1) /\ v = u
      BY <1>2, <1>8, <2>1, <2>4, Zenon
    <3>2. CallbackIs(u, renewed, Tail(queue), Leads', d)
      BY <1>2, <1>7, <2>2, <3>1, CallbackOfTail, Zenon
    <3>3. QED
      BY <1>2, <1>4, <2>1, <3>1, <3>2, Zenon
  <2>5. QED
    BY <2>3, <2>4
<1>12. QED
  BY <1>10, <1>11, OneCallbackFrom, Zenon

LEMMA CancelCallback ==
    ASSUME Known, OneCallback, NEW t \in Threads, CancelUpdates(t)
    PROVE  OneCallback'
<1>1. PICK d : d = Now(t).on
  OBVIOUS
<1>2. /\ d \in Dispatchers /\ updates[d] \in LatestDispatchers
      /\ updates'[d] = Cancelled(updates[d]) /\ ~renewed'[d] /\ late'[d]
      /\ \A x \in Dispatchers \ {d} : /\ updates'[x] = updates[x] /\ renewed'[x] = renewed[x]
                                      /\ late'[x] = late[x]
      /\ Leads' = Leads /\ Kept /\ UNCHANGED << queue, shown, feeds, tuning, frame >>
  BY <1>1, CancelEffect, Zenon
<1>3. ASSUME NEW x \in Dispatchers, x # d, CallbackIs(updates[x], renewed, queue, Leads, x)
      PROVE  CallbackIs(updates'[x], renewed', queue', Leads', x)
  <2>1. renewed[x] => renewed'[x]
    BY <1>2, <1>3, Zenon
  <2>2. CallbackIs(updates[x], renewed', queue, Leads, x)
    BY <1>3, <2>1, CallbackFlag, Zenon
  <2>3. QED
    BY <1>2, <1>3, <2>2, Zenon
<1>4. ASSUME CallbackIs(updates[d], renewed, queue, Leads, d)
      PROVE  CallbackIs(updates'[d], renewed', queue', Leads', d)
  <2>1. PICK u, v, x : u = updates[d] /\ v = updates'[d] /\ x = u.latest
    OBVIOUS
  <2>2. u.epoch \in Nat /\ x \in Views /\ u \in LatestDispatchers
    BY <1>2, <2>1, KnownIs, DispatcherIs, Zenon
  <2>3. ~v.pending /\ v.epoch = u.epoch + 1
    BY <1>2, <2>1, <2>2, CancelledIs, Zenon
  <2>4. \A s \in Threads : Leads[s].op = "dispatch" => Leads[s].arg \in Nat
    <3>1. TAKE s \in Threads
    <3>2. Leads[s] = NoCall \/ Leads[s] \in Calls
      <4>1. todo[s] \in Seq(Calls) /\ Leads[s] = LeadOf(todo[s])
        BY LeadsAre, KnownIs, Zenon
      <4>2. todo[s] # << >> => todo[s][1] \in Calls
        BY <4>1, QueueParts
      <4>3. QED
        BY <4>1, <4>2, Zenon DEF LeadOf
    <3>3. Leads[s] \in Calls => (Leads[s].op = "dispatch" => Leads[s].arg \in Nat)
      BY CallsAre
    <3>4. QED
      BY <3>2, <3>3, NoCallIs
  <2>5. PICK o : o = renewed'
    OBVIOUS
  <2>6. CallbackIs(v, o, queue, Leads, d)
    BY <1>4, <2>1, <2>2, <2>3, <2>4, KnownIs, CallbackCancelled, Zenon
  <2>7. QED
    BY <1>2, <2>1, <2>5, <2>6, Zenon
<1>5. QED
  BY <1>3, <1>4, OneCallbackFrom, Zenon

LEMMA ResumeCallback ==
    ASSUME Known, OneCallback, NEW t \in Threads, ResumeUpdates(t)
    PROVE  OneCallback'
<1>1. PICK d : d = Now(t).on
  OBVIOUS
<1>2. /\ d \in Dispatchers /\ updates[d] \in LatestDispatchers
      /\ updates'[d] = Resumed(updates[d])
      /\ \A x \in Dispatchers \ {d} : updates'[x] = updates[x]
      /\ Leads' = Leads /\ Kept /\ UNCHANGED << queue, shown, renewed, feeds, tuning, frame, late >>
  BY <1>1, ResumeEffect, Zenon
<1>3. \A x \in Dispatchers : x # d => updates'[x] = updates[x]
  BY <1>2, Zenon
<1>4. ASSUME CallbackIs(updates[d], renewed, queue, Leads, d)
      PROVE  CallbackIs(updates'[d], renewed', queue', Leads', d)
  <2>1. PICK u, v, x : u = updates[d] /\ v = updates'[d] /\ x = u.latest
    OBVIOUS
  <2>2. x \in Views /\ u \in LatestDispatchers
    BY <1>2, <2>1, KnownIs, DispatcherIs, Zenon
  <2>3. v.active /\ (v.pending <=> u.pending) /\ v.epoch = u.epoch
    <3>1. /\ Resumed(u).active /\ (Resumed(u).pending <=> u.pending)
          /\ Resumed(u).epoch = u.epoch /\ Resumed(u).latest = u.latest
      BY <2>2, ResumedIs, Zenon
    <3>2. v = Resumed(u)
      BY <1>2, <2>1, Zenon
    <3>3. QED
      BY <3>1, <3>2, Zenon
  <2>4. CallbackIs(v, renewed, queue, Leads, d)
    BY <1>4, <2>1, <2>3, Zenon DEF CallbackIs
  <2>5. QED
    BY <1>2, <2>1, <2>4, Zenon
<1>5. \A x \in Dispatchers : CallbackIs(updates[x], renewed, queue, Leads, x) =>
        CallbackIs(updates'[x], renewed', queue', Leads', x)
  <2>1. TAKE x \in Dispatchers
  <2>2. HAVE CallbackIs(updates[x], renewed, queue, Leads, x)
  <2>3. CASE x = d
    BY <1>4, <2>2, <2>3, Zenon
  <2>4. CASE x # d
    BY <1>2, <1>3, <2>2, <2>4, Zenon
  <2>5. QED
    BY <2>3, <2>4
<1>6. QED
  BY <1>5, OneCallbackFrom, Zenon

LEMMA StepCallback ==
    ASSUME Known, OneCallback, [PagesNext]_pagesVars
    PROVE  OneCallback'
<1>1. CASE ~HandStep
  BY <1>1, CallbacksStill, CallbacksKept, Zenon
<1>2. CASE HandStep
  BY <1>2, SubmitCallback, DispatchCallback, RunCallbackKept, CancelCallback, ResumeCallback,
     Zenon DEF HandStep
<1>3. QED
  BY <1>1, <1>2

-----------------------------------------------------------------------------
(* Callbacks that come too late.                                           *)

RenderFirst ==
  \A d : todo["ui"] # << >> /\ Head(todo["ui"]).op = "render" /\ Head(todo["ui"]).on = d
           => Leads["ui"].op = "render" /\ Leads["ui"].on = d

LEMMA RenderLead == RenderFirst
<1> SUFFICES \A d :
      todo["ui"] # << >> /\ Head(todo["ui"]).op = "render" /\ Head(todo["ui"]).on = d
        => Leads["ui"].op = "render" /\ Leads["ui"].on = d
  BY DEF RenderFirst
<1>1. TAKE d
<1>2. HAVE todo["ui"] # << >> /\ Head(todo["ui"]).op = "render" /\ Head(todo["ui"]).on = d
<1>3. "ui" \in Threads
  BY DEF Threads
<1>4. Leads["ui"] = LeadOf(todo["ui"])
  BY <1>3, LeadsAre, Zenon
<1>5. "render" \in Urgent /\ todo["ui"][1] = Head(todo["ui"])
  BY DEF Urgent
<1>6. QED
  BY <1>2, <1>4, <1>5, Zenon DEF LeadOf

\* While the UI handles nothing, only a callback of the queue makes it render.
LEMMA RendersFromQueue ==
    ASSUME Known, [PagesNext]_pagesVars, ~RunCallback, Idle("ui")
    PROVE  Leads'["ui"].op # "render"
<1>1. "ui" \in Threads /\ Leads["ui"] = NoCall
  <2>1. "ui" \in Threads
    BY DEF Threads
  <2>2. QED
    BY <2>1, LeadsAre, Zenon DEF Idle, LeadOf
<1>2. ASSUME LeadsSame({"render"}) PROVE Leads'["ui"].op # "render"
  <2>1. Leads'["ui"] = NoCall \/ Leads'["ui"].op \notin {"render"}
    BY <1>1, <1>2, Zenon DEF LeadsSame
  <2>2. QED
    BY <2>1, NoCallIs
<1>3. CASE CalmStep
  <2>1. ~Render
    BY Zenon DEF Render, At, Idle
  <2>2. QED
    BY <1>2, <1>3, <2>1, CalmStill, StillLeads, Zenon DEF Still
<1>4. CASE FeedStep
  BY <1>2, <1>4, FeedsStill, StillLeads, Zenon
<1>5. CASE LinkStep
  <2>1. LeadsSame({"dispatch", "render"})
    BY <1>5, LinkStill, Zenon
  <2>2. LeadsSame({"render"})
    BY <2>1 DEF LeadsSame
  <2>3. QED
    BY <1>2, <2>2
<1>6. CASE HandStep
  <2>1. SUFFICES Leads'["ui"] = Leads["ui"]
    BY <1>1, <2>1, NoCallIs
  <2>2. ASSUME NEW t \in Threads, Submit(t) \/ Dispatch(t) \/ CancelUpdates(t) \/ ResumeUpdates(t)
        PROVE  Leads'["ui"] = Leads["ui"]
    <3>1. t # "ui"
      BY <2>2, Zenon DEF Submit, Dispatch, CancelUpdates, ResumeUpdates, At, Idle
    <3>2. PICK d, a, lead : d = Now(t).on /\ a = Now(t).arg /\ lead = Leads[t]
      OBVIOUS
    <3>3. CASE Submit(t)
      <4>1. \A u \in Threads \ {t} : Leads'[u] = Leads[u]
        BY <3>2, <3>3, SubmitEffect
      <4>2. QED
        BY <1>1, <3>1, <4>1
    <3>4. CASE Dispatch(t)
      <4>1. \A u \in Threads \ {t} : Leads'[u] = Leads[u]
        BY <3>2, <3>4, DispatchEffect, Zenon
      <4>2. QED
        BY <1>1, <3>1, <4>1
    <3>5. CASE CancelUpdates(t)
      BY <3>2, <3>5, CancelEffect, Zenon
    <3>6. CASE ResumeUpdates(t)
      BY <3>2, <3>6, ResumeEffect, Zenon
    <3>7. QED
      BY <2>2, <3>3, <3>4, <3>5, <3>6
  <2>3. QED
    BY <1>6, <2>2, Zenon DEF HandStep
<1>7. QED
  BY <1>3, <1>4, <1>5, <1>6, StepKinds, Zenon

LEMMA StepDrops ==
    ASSUME Known, OneCallback, [PagesNext]_pagesVars, NEW d \in Dispatchers,
           Idle("ui"), todo'["ui"] # << >>, Head(todo'["ui"]).op = "render",
           Head(todo'["ui"]).on = d
    PROVE  renewed[d]
<1>1. Leads'["ui"].op = "render" /\ Leads'["ui"].on = d
  <2>1. RenderFirst'
    BY RenderLead, PTL
  <2>2. QED
    BY <2>1, Zenon DEF RenderFirst
<1>2. RunCallback
  BY <1>1, RendersFromQueue, Zenon
<1>3. PICK x, e : x = queue[1].on /\ e = queue[1].epoch
  OBVIOUS
<1>4. /\ x \in Dispatchers
      /\ queue # << >> /\ queue[1] = [on |-> x, epoch |-> e]
      /\ updates[x].active /\ updates[x].epoch = e =>
           Leads'["ui"] = Call("render", x, updates[x].latest)
      /\ ~(updates[x].active /\ updates[x].epoch = e) => Leads'["ui"] = NoCall
  BY <1>2, <1>3, CallbackEffect
<1>5. Leads'["ui"] # NoCall
  BY <1>1, NoCallIs
<1>6. x = d /\ updates[d].epoch = e
  <2>1. updates[x].epoch = e /\ Leads'["ui"] = Call("render", x, updates[x].latest)
    BY <1>4, <1>5, Zenon
  <2>2. Leads'["ui"].on = x
    BY <2>1, CallIs
  <2>3. QED
    BY <1>1, <2>1, <2>2, Zenon
<1>7. CallbackIs(updates[d], renewed, queue, Leads, d)
  BY CallbackBefore, Zenon DEF OneCallback
<1>8. 1 \in 1 .. Len(queue)
  <2>1. PICK S : S = [on : Dispatchers, epoch : Nat]
    OBVIOUS
  <2>2. queue \in Seq(S)
    BY <2>1, KnownIs, Zenon
  <2>3. QED
    BY <1>4, <2>2, QueueParts
<1>9. Queued(queue, d, updates[d].epoch, 1)
  BY <1>4, <1>6, Zenon DEF Queued
<1>10. QED
  BY <1>7, <1>8, <1>9, Zenon DEF CallbackIs

-----------------------------------------------------------------------------
(* The initial states.                                                     *)

LEMMA InitClaims ==
    ASSUME PagesInit
    PROVE  Claims /\ LogsKept
<1>1. /\ ~logs.active /\ \A t \in Threads : Leads[t] = NoCall
      /\ \A v \in Monitors : ~vm[v].active
      /\ \A w \in Workers : subs[w] = FreeSubscription
  BY InitKnown, InitFeeds, Zenon
<1>2. \A x, y : ~Waits(NoCall, x, y) /\ ~Closes(NoCall, y)
  BY ClosesAre
<1>3. \A t \in Threads : \A v, w : ~Waiting(t, v, w) /\ ~Closing(t, w)
  BY <1>1, <1>2, WaitingIs, SMT
<1>4. "ui" \in Threads
  BY DEF Threads
<1>5. \A v \in Monitors, w \in Workers : ~Has(v, w)
  BY <1>1, Zenon DEF Has
<1>6. \A w \in Workers : subs[w].owner = "none"
  BY <1>1, FreeIs, Zenon
<1>7. \A v \in Monitors : v # "none"
  BY NoMonitor, Zenon
<1>8. Claims
  BY <1>3, <1>4, <1>5, <1>6, <1>7, Zenon DEF Claims
<1>9. QED
  BY <1>1, <1>3, <1>8, Zenon DEF LogsKept

LEMMA InitCallback ==
    ASSUME PagesInit
    PROVE  OneCallback
<1>1. /\ queue = << >> /\ \A t \in Threads : Leads[t] = NoCall
      /\ \A d \in Dispatchers : ~updates[d].pending
  BY InitKnown, InitScreen, Zenon
<1>2. 1 .. Len(queue) = {}
  BY <1>1
<1>3. NoCall.op # "dispatch"
  BY NoCallIs
<1>4. \A d, e : NoCall # Call("dispatch", d, e)
  BY <1>3, CallIs
<1>5. ASSUME NEW d \in Dispatchers PROVE CallbackIs(updates[d], renewed, queue, Leads, d)
  <2>1. PICK l : l = Leads
    OBVIOUS
  <2>2. \A t \in Threads : l[t].op # "dispatch" /\ ~Handed(l, d, updates[d].epoch, t)
    BY <1>1, <1>3, <1>4, <2>1, Zenon DEF Handed
  <2>3. CallbackIs(updates[d], renewed, queue, l, d)
    BY <1>1, <1>2, <2>2, Zenon DEF CallbackIs
  <2>4. QED
    BY <2>1, <2>3, Zenon
<1>6. QED
  BY <1>5, CallbackBefore, Zenon DEF OneCallback

LEMMA InitRings ==
    ASSUME PagesInit
    PROVE  RingsHold /\ Times
<1>1. /\ \A v \in Monitors, id \in MetricIDs : Snapshot(vm[v].rings[id]) = << >>
      /\ \A v \in Monitors, id \in MetricIDs : received[v][id] = << >>
      /\ \A w \in Workers : subs[w] = FreeSubscription
  BY InitFeeds, Zenon
<1>2. RingsHold
  BY <1>1, Zenon DEF RingsHold
<1>3. DOMAIN << >> = {}
  OBVIOUS
<1>4. \A v \in Monitors, id \in MetricIDs : DOMAIN received[v][id] = {}
  BY <1>1, <1>3
<1>5. \A w \in Workers : ~Carries(w)
  BY <1>1, FreeIs, Zenon DEF Carries
<1>6. Times
  BY <1>4, <1>5, Zenon DEF Times
<1>7. QED
  BY <1>2, <1>6

-----------------------------------------------------------------------------
(* Theorems about callbacks.                                               *)

LEMMA PagesBegin ==
    ASSUME PagesInit
    PROVE  Known /\ Claims /\ LogsKept /\ OneCallback
BY InitKnown, InitClaims, InitCallback, Zenon

\* The pages' states are as PagesTypes says, each subscription is held by its view
\* model or by whoever left the page, and each value pending has one callback.
THEOREM PagesKept == PagesSpec => [](Known /\ Claims /\ LogsKept /\ OneCallback)
<1>1. Known /\ Claims /\ LogsKept /\ OneCallback /\ [PagesNext]_pagesVars =>
        (Known /\ Claims /\ LogsKept /\ OneCallback)'
  BY StepKnown, StepClaims, StepCallback, Zenon
<1>2. QED
  BY <1>1, PagesBegin, PTL DEF PagesSpec

\* Every change of the pages is such that a callback renders nothing that was
\* submitted before its page was left.
THEOREM CallbacksDropped == PagesSpec => CancelledIsDropped
<1>1. Known /\ OneCallback /\ [PagesNext]_pagesVars =>
        [\A d \in Dispatchers :
           Idle("ui") /\ todo'["ui"] # << >>
             /\ Head(todo'["ui"]).op = "render" /\ Head(todo'["ui"]).on = d
             /\ d \in {"tune", "live"}
           => renewed[d]]_pagesVars
  BY StepDrops, Zenon
<1>2. QED
  BY <1>1, PagesKept, PTL DEF PagesSpec, CancelledIsDropped

-----------------------------------------------------------------------------
(* What view models have received.                                         *)

RingsSame ==
  received' = received /\ \A v \in Monitors : vm'[v].rings = vm[v].rings

\* No subscription carries a frame it did not carry before.
FeedsCarry ==
  /\ received' = received /\ clock' = clock /\ ClosingRests
  /\ \A w \in Workers : Carries(w)' =>
       Carries(w) /\ subs'[w].owner = subs[w].owner /\ subs'[w].box = subs[w].box

LEMMA UnmovedFeeds ==
    ASSUME UNCHANGED feeds
    PROVE  RingsSame /\ (clock' = clock /\ ClosingRests => FeedsCarry)
<1>1. vm' = vm /\ subs' = subs /\ received' = received
  BY DEF feeds
<1>2. \A w \in Workers : Carries(w)' => Carries(w)
  BY <1>1, Zenon DEF Carries
<1>3. QED
  BY <1>1, <1>2, Zenon DEF RingsSame, FeedsCarry

LEMMA CalmFeeds ==
    ASSUME Known, CalmStep
    PROVE  RingsSame /\ FeedsCarry
<1>1. UNCHANGED feeds /\ clock' = clock /\ ClosingRests
  <2>1. CASE Render
    <3>1. UNCHANGED << feeds, frame >>
      BY <2>1, Zenon DEF Render
    <3>2. app' = app /\ clock' = clock
      BY <3>1 DEF frame
    <3>3. QED
      BY <3>1, <3>2, SameClosing, Zenon
  <2>2. CASE ~Render
    <3>1. Still
      BY <2>2, CalmStill, Zenon
    <3>2. QED
      BY <3>1 DEF Still
  <2>3. QED
    BY <2>1, <2>2
<1>2. QED
  BY <1>1, UnmovedFeeds, Zenon

LEMMA HandFeeds ==
    ASSUME Known, HandStep
    PROVE  RingsSame /\ FeedsCarry
<1>1. FeedsRest /\ UNCHANGED << feeds, frame >>
  BY HandStill, Zenon
<1>2. clock' = clock /\ ClosingRests
  BY <1>1, Zenon DEF frame, FeedsRest
<1>3. QED
  BY <1>1, <1>2, UnmovedFeeds, Zenon

\* A subscription that is as before, or carries nothing.
CarriesLess(w) ==
  subs'[w] = subs[w] \/ subs'[w].box = << >> \/ subs'[w].owner \notin Monitors
  \/ (subs'[w].owner = subs[w].owner /\ subs'[w].box = subs[w].box)

LEMMA LessCarried ==
    ASSUME received' = received, clock' = clock, ClosingRests,
           \A w \in Workers : CarriesLess(w)
    PROVE  FeedsCarry
<1>1. ASSUME NEW w \in Workers, subs'[w].owner \in Monitors, subs'[w].box # << >>
      PROVE  subs'[w].owner = subs[w].owner /\ subs'[w].box = subs[w].box
  BY <1>1, Zenon DEF CarriesLess
<1>2. \A w \in Workers : Carries(w)' =>
        Carries(w) /\ subs'[w].owner = subs[w].owner /\ subs'[w].box = subs[w].box
  BY <1>1, Zenon DEF Carries
<1>3. QED
  BY <1>2, Zenon DEF FeedsCarry

LEMMA LinkFeeds ==
    ASSUME Known, LinkStep
    PROVE  RingsSame /\ FeedsCarry
<1>1. UNCHANGED << frame, received >>
  BY LinkStill, Zenon
<1>2. received' = received /\ clock' = clock /\ ClosingRests
  BY <1>1, SameClosing, Zenon DEF frame
<1>3. SUFFICES /\ \A v \in Monitors : vm'[v].rings = vm[v].rings
               /\ \A w \in Workers : CarriesLess(w)
  BY <1>2, <1>3, LessCarried, Zenon DEF RingsSame
<1>4. ASSUME vm' = vm, subs' = subs
      PROVE  /\ \A v \in Monitors : vm'[v].rings = vm[v].rings
             /\ \A w \in Workers : CarriesLess(w)
  BY <1>4, Zenon DEF CarriesLess
<1>5. ASSUME vm' = vm, NEW w \in Workers, \A u \in Workers \ {w} : subs'[u] = subs[u], CarriesLess(w)
      PROVE  /\ \A v \in Monitors : vm'[v].rings = vm[v].rings
             /\ \A u \in Workers : CarriesLess(u)
  <2>1. ASSUME NEW u \in Workers PROVE CarriesLess(u)
    <3>1. CASE u = w
      BY <1>5, <3>1
    <3>2. CASE u # w
      BY <1>5, <3>2, Zenon DEF CarriesLess
    <3>3. QED
      BY <3>1, <3>2
  <2>2. QED
    BY <1>5, <2>1, Zenon
<1>6. ASSUME NEW t \in Threads, MonitorUp(t)
      PROVE  /\ \A v \in Monitors : vm'[v].rings = vm[v].rings
             /\ \A w \in Workers : CarriesLess(w)
  <2>1. PICK v : v = Now(t).on
    OBVIOUS
  <2>2. /\ v \in Monitors
        /\ \/ vm[v].active /\ UNCHANGED << vm, subs >>
           \/ /\ ~vm[v].active
              /\ \E w \in Workers :
                   /\ subs[w].status = "free"
                   /\ vm'[v].active /\ vm'[v].handle = w
                   /\ vm'[v].metrics = vm[v].metrics /\ vm'[v].current = vm[v].current
                   /\ vm'[v].rings = vm[v].rings
                   /\ \A x \in Monitors \ {v} : vm'[x] = vm[x]
                   /\ subs'[w].owner = v /\ subs'[w].status = "running" /\ subs'[w].box = << >>
                   /\ \A u \in Workers \ {w} : subs'[u] = subs[u]
    BY <1>6, <2>1, UpEffect
  <2>3. CASE UNCHANGED << vm, subs >>
    <3>1. vm' = vm /\ subs' = subs
      BY <2>3
    <3>2. QED
      BY <1>4, <3>1
  <2>4. CASE \E w \in Workers :
               /\ vm'[v].rings = vm[v].rings
               /\ \A x \in Monitors \ {v} : vm'[x] = vm[x]
               /\ subs'[w].box = << >>
               /\ \A u \in Workers \ {w} : subs'[u] = subs[u]
    <3>1. PICK w \in Workers :
               /\ vm'[v].rings = vm[v].rings
               /\ \A x \in Monitors \ {v} : vm'[x] = vm[x]
               /\ subs'[w].box = << >>
               /\ \A u \in Workers \ {w} : subs'[u] = subs[u]
      BY <2>4
    <3>2. ASSUME NEW x \in Monitors PROVE vm'[x].rings = vm[x].rings
      <4>1. CASE x = v
        BY <3>1, <4>1
      <4>2. CASE x # v
        BY <3>1, <4>2, Zenon
      <4>3. QED
        BY <4>1, <4>2
    <3>3. ASSUME NEW u \in Workers PROVE CarriesLess(u)
      <4>1. CASE u = w
        BY <3>1, <4>1, Zenon DEF CarriesLess
      <4>2. CASE u # w
        BY <3>1, <4>2, Zenon DEF CarriesLess
      <4>3. QED
        BY <4>1, <4>2
    <3>4. QED
      BY <3>2, <3>3, Zenon
  <2>5. QED
    BY <2>2, <2>3, <2>4, Zenon
<1>7. ASSUME NEW t \in Threads, MonitorDown(t)
      PROVE  /\ \A v \in Monitors : vm'[v].rings = vm[v].rings
             /\ \A w \in Workers : CarriesLess(w)
  <2>1. PICK v : v = Now(t).on
    OBVIOUS
  <2>2. /\ v \in Monitors /\ subs' = subs
        /\ \/ vm' = vm
           \/ vm'[v].rings = vm[v].rings /\ \A x \in Monitors \ {v} : vm'[x] = vm[x]
    BY <1>7, <2>1, DownEffect, Zenon
  <2>3. ASSUME NEW x \in Monitors PROVE vm'[x].rings = vm[x].rings
    <3>1. CASE x = v
      BY <2>2, <3>1, Zenon
    <3>2. CASE x # v
      BY <2>2, <3>2, Zenon
    <3>3. QED
      BY <3>1, <3>2
  <2>4. QED
    BY <2>2, <2>3, Zenon DEF CarriesLess
<1>8. ASSUME NEW t \in Threads, CloseHandle(t)
      PROVE  /\ \A v \in Monitors : vm'[v].rings = vm[v].rings
             /\ \A w \in Workers : CarriesLess(w)
  <2>1. PICK w : w = Now(t).arg
    OBVIOUS
  <2>2. /\ w \in Workers /\ subs'[w].owner = subs[w].owner /\ subs'[w].box = subs[w].box
        /\ \A u \in Workers \ {w} : subs'[u] = subs[u]
    BY <1>8, <2>1, CloseEffect, Zenon
  <2>3. CarriesLess(w) /\ vm' = vm
    BY <1>8, <2>2, Zenon DEF CarriesLess, CloseHandle
  <2>4. QED
    BY <1>5, <2>2, <2>3, Zenon
<1>9. ASSUME NEW t \in Threads, Await(t)
      PROVE  /\ \A v \in Monitors : vm'[v].rings = vm[v].rings
             /\ \A w \in Workers : CarriesLess(w)
  <2>1. PICK w : w = Now(t).arg
    OBVIOUS
  <2>2. /\ w \in Workers /\ subs'[w] = FreeSubscription
        /\ \A u \in Workers \ {w} : subs'[u] = subs[u]
    BY <1>9, <2>1, AwaitEffect, Zenon
  <2>3. CarriesLess(w) /\ vm' = vm
    BY <1>9, <2>2, FreeIs, Zenon DEF CarriesLess, Await
  <2>4. QED
    BY <1>5, <2>2, <2>3, Zenon
<1>10. ASSUME NEW t \in Threads, Go(t)
      PROVE  /\ \A v \in Monitors : vm'[v].rings = vm[v].rings
             /\ \A w \in Workers : CarriesLess(w)
  <2>1. PICK w : w = Now(t).arg
    OBVIOUS
  <2>2. /\ w \in Workers /\ subs'[w].owner = subs[w].owner /\ subs'[w].box = subs[w].box
        /\ \A u \in Workers \ {w} : subs'[u] = subs[u]
    BY <1>10, <2>1, GoEffect, Zenon
  <2>3. CarriesLess(w) /\ vm' = vm
    BY <1>10, <2>2, Zenon DEF CarriesLess, Go
  <2>4. QED
    BY <1>5, <2>2, <2>3, Zenon
<1>11. ASSUME NEW w \in Workers, EndSubscription(w)
      PROVE  /\ \A v \in Monitors : vm'[v].rings = vm[v].rings
             /\ \A u \in Workers : CarriesLess(u)
  <2>1. subs'[w].box = << >> /\ \A u \in Workers \ {w} : subs'[u] = subs[u]
    BY <1>11, EndEffect, Zenon
  <2>2. CarriesLess(w) /\ vm' = vm
    BY <1>11, <2>1, Zenon DEF CarriesLess, EndSubscription
  <2>3. QED
    BY <1>5, <2>1, <2>2, Zenon
<1>12. ASSUME NEW t \in Threads, LogsUp(t)
      PROVE  /\ \A v \in Monitors : vm'[v].rings = vm[v].rings
             /\ \A w \in Workers : CarriesLess(w)
  <2>1. /\ vm' = vm
        /\ \/ subs' = subs
           \/ \E w \in Workers : /\ subs'[w].owner = "logs"
                                 /\ \A u \in Workers \ {w} : subs'[u] = subs[u]
    BY <1>12, LogsUpEffect
  <2>2. CASE subs' = subs
    BY <1>4, <2>1, <2>2
  <2>3. CASE \E w \in Workers : /\ subs'[w].owner = "logs"
                                /\ \A u \in Workers \ {w} : subs'[u] = subs[u]
    <3>1. PICK w \in Workers : /\ subs'[w].owner = "logs"
                               /\ \A u \in Workers \ {w} : subs'[u] = subs[u]
      BY <2>3
    <3>2. CarriesLess(w)
      BY <3>1, NoMonitor, Zenon DEF CarriesLess
    <3>3. QED
      BY <1>5, <2>1, <3>1, <3>2, Zenon
  <2>4. QED
    BY <2>1, <2>2, <2>3, Zenon
<1>13. ASSUME NEW t \in Threads, LogsDown(t)
      PROVE  /\ \A v \in Monitors : vm'[v].rings = vm[v].rings
             /\ \A w \in Workers : CarriesLess(w)
  <2>1. vm' = vm /\ subs' = subs
    <3>1. UNCHANGED feeds
      BY <1>13, Zenon DEF LogsDown
    <3>2. QED
      BY <3>1 DEF feeds
  <2>2. QED
    BY <1>4, <2>1
<1>14. QED
  BY <1>6, <1>7, <1>8, <1>9, <1>10, <1>11, <1>12, <1>13, Zenon DEF LinkStep

\* Other feed steps than a delivery and the reading of a frame.
LEMMA QuietFeeds ==
    ASSUME Known, FeedStep, \A w \in Workers : ~Deliver(w) /\ ~Consume(w)
    PROVE  RingsSame /\ FeedsCarry
<1>1. FeedsRest
  BY FeedsStill, Zenon
<1>2. ClosingRests
  BY <1>1, Zenon DEF FeedsRest
<1>3. CASE AppendEvent
  <2>1. vm' = vm /\ received' = received /\ clock' = clock
    BY <1>3, Zenon DEF AppendEvent
  <2>2. ASSUME NEW w \in Workers PROVE CarriesLess(w)
    <3>1. SameBut(subs'[w], subs[w]) /\ (subs[w].owner # "logs" => subs'[w] = subs[w])
      BY <1>3, AppendEffect, Zenon
    <3>2. CASE subs[w].owner = "logs"
      BY <3>1, <3>2, NoMonitor, Zenon DEF CarriesLess, SameBut
    <3>3. CASE subs[w].owner # "logs"
      BY <3>1, <3>3, Zenon DEF CarriesLess
    <3>4. QED
      BY <3>2, <3>3
  <2>3. QED
    BY <1>2, <2>1, <2>2, LessCarried, Zenon DEF RingsSame
<1>4. CASE StopTelemetry
  <2>1. vm' = vm /\ received' = received /\ clock' = clock
    BY <1>4, Zenon DEF StopTelemetry
  <2>2. \A w \in Workers : CarriesLess(w)
    BY <1>4, StopEffect, Zenon DEF CarriesLess
  <2>3. QED
    BY <1>2, <2>1, <2>2, LessCarried, Zenon DEF RingsSame
<1>5. ASSUME NEW t \in Threads, SetMetricIDs(t)
      PROVE  RingsSame /\ FeedsCarry
  <2>1. PICK v : v = Now(t).on
    OBVIOUS
  <2>2. /\ v \in Monitors /\ subs' = subs /\ vm'[v].rings = vm[v].rings
        /\ \A x \in Monitors \ {v} : vm'[x] = vm[x]
    BY <1>5, <2>1, ChooseEffect, Zenon
  <2>3. received' = received /\ clock' = clock
    BY <1>5, Zenon DEF SetMetricIDs, frame
  <2>4. ASSUME NEW x \in Monitors PROVE vm'[x].rings = vm[x].rings
    <3>1. CASE x = v
      BY <2>2, <3>1, Zenon
    <3>2. CASE x # v
      BY <2>2, <3>2, Zenon
    <3>3. QED
      BY <3>1, <3>2
  <2>5. \A w \in Workers : CarriesLess(w)
    BY <2>2, Zenon DEF CarriesLess
  <2>6. QED
    BY <1>2, <2>3, <2>4, <2>5, LessCarried, Zenon DEF RingsSame
<1>6. ASSUME NEW w \in Workers, TakeEvent(w)
      PROVE  RingsSame /\ FeedsCarry
  <2>1. vm' = vm /\ received' = received /\ clock' = clock
    BY <1>6, Zenon DEF TakeEvent, frame
  <2>2. subs'[w].box = << >> /\ \A u \in Workers \ {w} : subs'[u] = subs[u]
    BY <1>6, TakeEffect, Zenon
  <2>3. ASSUME NEW u \in Workers PROVE CarriesLess(u)
    <3>1. CASE u = w
      BY <2>2, <3>1, Zenon DEF CarriesLess
    <3>2. CASE u # w
      BY <2>2, <3>2, Zenon DEF CarriesLess
    <3>3. QED
      BY <3>1, <3>2
  <2>4. QED
    BY <1>2, <2>1, <2>3, LessCarried, Zenon DEF RingsSame
<1>7. QED
  BY <1>3, <1>4, <1>5, <1>6, Zenon DEF FeedStep

LEMMA DeliverRings ==
    ASSUME NEW w, Deliver(w)
    PROVE  RingsSame
<1>1. vm' = vm /\ received' = received
  BY Zenon DEF Deliver
<1>2. QED
  BY <1>1, Zenon DEF RingsSame

\* Every step but the reading of a frame leaves what was received alone.
LEMMA StillReceived ==
    ASSUME Known, [PagesNext]_pagesVars, \A w \in Workers : ~Consume(w)
    PROVE  RingsSame /\ (FeedsCarry \/ \E w \in Workers : Deliver(w))
<1>1. CASE \E w \in Workers : Deliver(w)
  BY <1>1, DeliverRings, Zenon
<1>2. CASE \A w \in Workers : ~Deliver(w)
  BY <1>2, CalmFeeds, HandFeeds, LinkFeeds, QuietFeeds, StepKinds, Zenon
<1>3. QED
  BY <1>1, <1>2, Zenon

-----------------------------------------------------------------------------
(* The rings of a view model hold what it received.                        *)

LEMMA FrameIs ==
    ASSUME NEW f \in Frames, NEW id \in DOMAIN f
    PROVE  f[id] \in Samples
BY DEF Frames

LEMMA ReceivedIs ==
    ASSUME Known, NEW v \in Monitors, NEW id \in MetricIDs
    PROVE  received[v][id] \in Seq(Samples) /\ vm[v].rings[id] \in Rings
<1>1. received \in [Monitors -> [MetricIDs -> Seq(Samples)]] /\ vm \in [Monitors -> MonitorModels]
  BY KnownIs, Zenon
<1>2. vm[v].rings \in [MetricIDs -> Rings]
  BY <1>1, ModelIs, Zenon
<1>3. QED
  BY <1>1, <1>2

LEMMA ConsumeRings ==
    ASSUME Known, RingsHold, NEW w \in Workers, Consume(w)
    PROVE  RingsHold'
<1>1. PICK v, samples, m, n : v = subs[w].owner /\ samples = subs[w].box[1] /\ m = vm[v] /\ n = vm'[v]
  OBVIOUS
<1>2. /\ v \in Monitors /\ samples \in Frames
      /\ vm'[v] = Consumed(vm[v], samples)
      /\ \A x \in Monitors \ {v} : vm'[x] = vm[x] /\ received'[x] = received[x]
      /\ \A id \in MetricIDs : received'[v][id] = Gained(received[v][id], samples, id)
  BY <1>1, ConsumeEffect
<1>3. m \in MonitorModels /\ n = Consumed(m, samples)
  BY <1>1, <1>2, KnownIs, ModelIs, Zenon
<1>4. n.rings = [id \in MetricIDs |-> IF id \in DOMAIN samples /\ samples[id].good
                                      THEN Appended(m.rings[id], samples[id]) ELSE m.rings[id]]
  BY <1>2, <1>3, ConsumedIs, Zenon
<1>5. ASSUME NEW id \in MetricIDs PROVE Snapshot(n.rings[id]) = received'[v][id]
  <2>1. PICK ring, kept : ring = m.rings[id] /\ kept = received[v][id]
    OBVIOUS
  <2>2. ring \in Rings /\ Snapshot(ring) = kept
    BY <1>1, <1>2, <2>1, ReceivedIs, Zenon DEF RingsHold
  <2>3. received'[v][id] = Gained(kept, samples, id)
    BY <1>2, <2>1, Zenon
  <2>4. CASE id \in DOMAIN samples /\ samples[id].good
    <3>1. PICK sample : sample = samples[id]
      OBVIOUS
    <3>2. sample \in Samples
      BY <1>2, <2>4, <3>1, FrameIs, Zenon
    <3>3. Snapshot(Appended(ring, sample)) = Newest(Append(kept, sample), HistoryCapacity)
      BY <2>2, <3>2, AppendKeepsNewest, Zenon
    <3>4. n.rings[id] = Appended(ring, sample)
      BY <1>4, <2>1, <2>4, <3>1, Zenon
    <3>5. received'[v][id] = Newest(Append(kept, sample), HistoryCapacity)
      BY <2>3, <2>4, <3>1, Zenon DEF Gained
    <3>6. QED
      BY <3>3, <3>4, <3>5, Zenon
  <2>5. CASE ~(id \in DOMAIN samples /\ samples[id].good)
    <3>1. n.rings[id] = ring
      BY <1>4, <2>1, <2>5, Zenon
    <3>2. received'[v][id] = kept
      BY <2>3, <2>5, Zenon DEF Gained
    <3>3. QED
      BY <2>2, <3>1, <3>2, Zenon
  <2>6. QED
    BY <2>4, <2>5
<1>6. ASSUME NEW x \in Monitors, NEW id \in MetricIDs
      PROVE  Snapshot(vm'[x].rings[id]) = received'[x][id]
  <2>1. CASE x = v
    BY <1>1, <1>5, <2>1, Zenon
  <2>2. CASE x # v
    BY <1>2, <2>2, Zenon DEF RingsHold
  <2>3. QED
    BY <2>1, <2>2
<1>7. QED
  BY <1>6, Zenon DEF RingsHold

LEMMA StepRings ==
    ASSUME Known, RingsHold, [PagesNext]_pagesVars
    PROVE  RingsHold'
<1>1. CASE \E w \in Workers : Consume(w)
  BY <1>1, ConsumeRings, Zenon
<1>2. CASE \A w \in Workers : ~Consume(w)
  <2>1. RingsSame
    BY <1>2, StillReceived, Zenon
  <2>2. QED
    BY <2>1, Zenon DEF RingsHold, RingsSame
<1>3. QED
  BY <1>1, <1>2, Zenon

-----------------------------------------------------------------------------
(* The times of what was received.                                         *)

Rising(s) == \A i, j \in DOMAIN s : i < j => s[i].at < s[j].at
Upto(s, c) == \A i \in DOMAIN s : s[i].at <= c
Below(s, c) == \A i \in DOMAIN s : s[i].at < c

LEMMA TimesAre ==
  Times <=>
    /\ \A v \in Monitors, id \in MetricIDs : Upto(received[v][id], clock)
    /\ \A w \in Workers : Carries(w) => Upto(subs[w].box[1], clock)
    /\ ~app.closing =>
         /\ \A v \in Monitors, id \in MetricIDs : Rising(received[v][id])
         /\ \A w \in Workers : Carries(w) =>
              \A id \in DOMAIN subs[w].box[1], j \in MetricIDs :
                Below(received[subs[w].owner][j], subs[w].box[1][id].at)
BY Zenon DEF Times, Upto, Rising, Below

\* Appending a later sample, and dropping old ones, keeps the order.
LEMMA NewestTimes ==
    ASSUME NEW kept \in Seq(Samples), NEW sample \in Samples, NEW n \in Nat, NEW c \in Nat
    PROVE  LET s == Newest(Append(kept, sample), n)
           IN  /\ Upto(kept, c) /\ sample.at <= c => Upto(s, c)
               /\ Rising(kept) /\ Below(kept, sample.at) => Rising(s)
<1>1. PICK all : all = Append(kept, sample)
  OBVIOUS
<1>2. /\ all \in Seq(Samples) /\ Len(all) = Len(kept) + 1 /\ all[Len(kept) + 1] = sample
      /\ \A k \in 1 .. Len(kept) : all[k] = kept[k]
  BY <1>1, AppendTyped, SMT
<1>3. PICK s : s = Newest(all, n)
  OBVIOUS
<1>4. /\ s \in Seq(Samples)
      /\ \E k \in Nat : /\ k + Len(s) = Len(all)
                        /\ \A i \in 1 .. Len(s) : s[i] = all[k + i]
  <2>1. /\ Newest(all, n) \in Seq(Samples)
        /\ \E k \in Nat : /\ k + Len(Newest(all, n)) = Len(all)
                          /\ \A i \in 1 .. Len(Newest(all, n)) : Newest(all, n)[i] = all[k + i]
    BY <1>2, NewestOf, Zenon
  <2>2. QED
    BY <1>3, <2>1, Zenon
<1>5. PICK k \in Nat : k + Len(s) = Len(all) /\ \A i \in 1 .. Len(s) : s[i] = all[k + i]
  BY <1>4
<1>6. PICK l \in Nat, m \in Nat : l = Len(kept) /\ m = Len(s)
  BY <1>4
<1>7. DOMAIN s = 1 .. m /\ DOMAIN kept = 1 .. l /\ k + m = l + 1
  BY <1>2, <1>4, <1>5, <1>6
<1>8. ASSUME Upto(kept, c), sample.at <= c, NEW i \in 1 .. m PROVE s[i].at <= c
  <2>1. s[i] = all[k + i] /\ k + i \in 1 .. l + 1
    BY <1>5, <1>6, <1>7
  <2>2. CASE k + i = l + 1
    BY <1>2, <1>6, <1>8, <2>1, <2>2
  <2>3. CASE k + i # l + 1
    <3>1. k + i \in 1 .. l
      BY <2>1, <2>3
    <3>2. s[i] = kept[k + i]
      BY <1>2, <1>6, <2>1, <3>1
    <3>3. QED
      BY <1>7, <1>8, <3>1, <3>2 DEF Upto
  <2>4. QED
    BY <2>2, <2>3
<1>9. ASSUME Rising(kept), Below(kept, sample.at), NEW i \in 1 .. m, NEW j \in 1 .. m, i < j
      PROVE  s[i].at < s[j].at
  <2>1. /\ s[i] = all[k + i] /\ s[j] = all[k + j]
        /\ k + i \in 1 .. l /\ k + j \in 1 .. l + 1 /\ k + i < k + j
    BY <1>5, <1>6, <1>7, <1>9
  <2>2. s[i] = kept[k + i]
    BY <1>2, <1>6, <2>1
  <2>3. CASE k + j = l + 1
    <3>1. s[j] = sample
      BY <1>2, <1>6, <2>1, <2>3
    <3>2. QED
      BY <1>7, <1>9, <2>1, <2>2, <3>1 DEF Below
  <2>4. CASE k + j # l + 1
    <3>1. k + j \in 1 .. l
      BY <2>1, <2>4
    <3>2. s[j] = kept[k + j]
      BY <1>2, <1>6, <2>1, <3>1
    <3>3. QED
      BY <1>7, <1>9, <2>1, <2>2, <3>1, <3>2 DEF Rising
  <2>5. QED
    BY <2>3, <2>4
<1>10. Upto(kept, c) /\ sample.at <= c => Upto(s, c)
  BY <1>7, <1>8, Zenon DEF Upto
<1>11. Rising(kept) /\ Below(kept, sample.at) => Rising(s)
  BY <1>7, <1>9, Zenon DEF Rising
<1>12. QED
  BY <1>1, <1>3, <1>10, <1>11, Zenon

LEMMA GainedTimes ==
    ASSUME NEW kept \in Seq(Samples), NEW samples \in Frames, NEW id, NEW c \in Nat
    PROVE  /\ Upto(kept, c) /\ Upto(samples, c) => Upto(Gained(kept, samples, id), c)
           /\ Rising(kept) /\ (\A x \in DOMAIN samples : Below(kept, samples[x].at))
                => Rising(Gained(kept, samples, id))
<1>1. CASE id \in DOMAIN samples /\ samples[id].good
  <2>1. PICK sample, n : sample = samples[id] /\ n = HistoryCapacity
    OBVIOUS
  <2>2. sample \in Samples /\ n \in Nat
    BY <1>1, <2>1, FrameIs, PagesAssumption
  <2>3. PICK s : s = Newest(Append(kept, sample), n)
    OBVIOUS
  <2>4. /\ Upto(kept, c) /\ sample.at <= c => Upto(s, c)
        /\ Rising(kept) /\ Below(kept, sample.at) => Rising(s)
    BY <2>2, <2>3, NewestTimes, Zenon
  <2>5. Gained(kept, samples, id) = s
    BY <1>1, <2>1, <2>3, Zenon DEF Gained
  <2>6. Upto(samples, c) => sample.at <= c
    BY <1>1, <2>1, Zenon DEF Upto
  <2>7. (\A x \in DOMAIN samples : Below(kept, samples[x].at)) => Below(kept, sample.at)
    BY <1>1, <2>1, Zenon
  <2>8. QED
    BY <2>4, <2>5, <2>6, <2>7, Zenon
<1>2. CASE ~(id \in DOMAIN samples /\ samples[id].good)
  BY <1>2, Zenon DEF Gained
<1>3. QED
  BY <1>1, <1>2

-----------------------------------------------------------------------------
(* Before the window closes a view model has one subscription at a time.   *)

LEMMA OnlyUiWaits ==
    ASSUME Known, ~app.closing, NEW t \in Threads, NEW v \in Monitors, NEW w, Waits(Leads[t], v, w)
    PROVE  t = "ui"
<1>1. Leads[t].op \in {"close", "await"}
  BY CallIs DEF Waits
<1>2. Leads[t] # NoCall
  BY <1>1, NoCallIs
<1>3. Leads[t] = LeadOf(todo[t])
  BY LeadsAre, Zenon
<1>4. todo[t] # << >> /\ Leads[t] = todo[t][1]
  BY <1>2, <1>3, Zenon DEF LeadOf
<1>5. t # "closer"
  <2>1. todo["closer"] = << >>
    BY Zenon DEF Known, Roles
  <2>2. QED
    BY <1>4, <2>1
<1>6. ASSUME t # "ui" PROVE FALSE
  <2>1. \A k \in DOMAIN todo[t] : todo[t][k].op \in {"submit", "dispatch", "look"}
    BY <1>5, <1>6, Zenon DEF Known, Roles
  <2>2. 1 \in DOMAIN todo[t]
    <3>1. todo[t] \in Seq(Calls)
      BY KnownIs
    <3>2. QED
      BY <1>4, <3>1
  <2>3. Leads[t].op \in {"submit", "dispatch", "look"}
    BY <1>4, <2>1, <2>2, Zenon
  <2>4. QED
    BY <1>1, <2>3
<1>7. QED
  BY <1>6

LEMMA OneOwned ==
    ASSUME Known, Claims, ~app.closing, NEW v \in Monitors, NEW w \in Workers, NEW u \in Workers,
           subs[w].owner = v, subs[u].owner = v
    PROVE  w = u
<1>1. Has(v, w) \/ Waits(Leads["ui"], v, w)
  BY OwnedIs, OnlyUiWaits, Zenon
<1>2. Has(v, u) \/ Waits(Leads["ui"], v, u)
  BY OwnedIs, OnlyUiWaits, Zenon
<1>3. \A x \in Workers : Waits(Leads["ui"], v, x) => ~Has(v, x) /\ ~vm[v].active
  BY PausedIs, Zenon DEF Has
<1>4. CASE Has(v, w)
  <2>1. Has(v, u)
    BY <1>2, <1>3, <1>4, Zenon DEF Has
  <2>2. QED
    BY <1>4, <2>1, Zenon DEF Has
<1>5. CASE Waits(Leads["ui"], v, w)
  <2>1. Waits(Leads["ui"], v, u)
    BY <1>2, <1>3, <1>5, Zenon DEF Has
  <2>2. \A x : Waits(Leads["ui"], v, x) => Leads["ui"].arg = x
    BY CallIs DEF Waits
  <2>3. QED
    BY <1>5, <2>1, <2>2, Zenon
<1>6. QED
  BY <1>1, <1>4, <1>5

-----------------------------------------------------------------------------
(* Samples come in the order they were measured.                           *)

LEMMA TimesThen ==
    ASSUME \A v \in Monitors, id \in MetricIDs : Upto(received'[v][id], clock'),
           \A w \in Workers : Carries(w)' => Upto(subs'[w].box[1], clock'),
           ~app'.closing =>
             /\ \A v \in Monitors, id \in MetricIDs : Rising(received'[v][id])
             /\ \A w \in Workers, v \in Monitors : Carries(w)' /\ subs'[w].owner = v =>
                  \A id \in DOMAIN subs'[w].box[1], j \in MetricIDs :
                    Below(received'[v][j], subs'[w].box[1][id].at)
    PROVE  Times'
<1>1. \A w \in Workers : Carries(w)' => subs'[w].owner \in Monitors
  BY Zenon DEF Carries
<1>2. QED
  BY <1>1, Zenon DEF Times, Upto, Rising, Below

LEMMA CarriedTimes ==
    ASSUME Times, FeedsCarry
    PROVE  Times'
<1>1. received' = received /\ clock' = clock /\ (~app'.closing => ~app.closing)
  BY Zenon DEF FeedsCarry, ClosingRests
<1>2. \A w \in Workers : Carries(w)' =>
        Carries(w) /\ subs'[w].owner = subs[w].owner /\ subs'[w].box = subs[w].box
  BY Zenon DEF FeedsCarry
<1>3. QED
  BY <1>1, <1>2, TimesAre, TimesThen, Zenon

LEMMA CarriedFrame ==
    ASSUME Known, NEW w \in Workers, Carries(w)
    PROVE  subs[w].box[1] \in Frames
BY FramedIs, Zenon DEF Carries, Framed

LEMMA LaterIs ==
    ASSUME NEW s, \A i \in DOMAIN s : s[i] \in Samples, NEW c \in Nat, Upto(s, c)
    PROVE  Upto(s, c + 1) /\ Below(s, c + 1)
<1>1. \A i \in DOMAIN s : s[i].at \in Nat
  BY DEF Samples
<1>2. QED
  BY <1>1 DEF Upto, Below

LEMMA DeliverTimes ==
    ASSUME Known, Times, NEW w \in Workers, Deliver(w)
    PROVE  Times'
<1>1. /\ clock' = clock + 1 /\ clock \in Nat /\ SameBut(subs'[w], subs[w])
      /\ \A id \in DOMAIN subs'[w].box[1] : subs'[w].box[1][id].at = clock'
      /\ \A u \in Workers \ {w} : subs'[u] = subs[u]
  BY DeliverEffect
<1>2. received' = received /\ app' = app
  BY Zenon DEF Deliver
<1>3. ASSUME NEW v \in Monitors, NEW id \in MetricIDs
      PROVE  Upto(received'[v][id], clock') /\ Below(received[v][id], clock')
  <2>1. PICK s : s = received[v][id]
    OBVIOUS
  <2>2. s \in Seq(Samples) /\ Upto(s, clock)
    BY <2>1, ReceivedIs, TimesAre, Zenon
  <2>3. \A i \in DOMAIN s : s[i] \in Samples
    BY <2>2
  <2>4. Upto(s, clock + 1) /\ Below(s, clock + 1)
    BY <1>1, <2>2, <2>3, LaterIs, Zenon
  <2>5. QED
    BY <1>1, <1>2, <2>1, <2>4, Zenon
<1>4. ASSUME NEW u \in Workers, Carries(u)' PROVE Upto(subs'[u].box[1], clock')
  <2>1. CASE u = w
    <3>1. \A id \in DOMAIN subs'[u].box[1] : subs'[u].box[1][id].at <= clock'
      BY <1>1, <2>1
    <3>2. QED
      BY <3>1, Zenon DEF Upto
  <2>2. CASE u # w
    <3>1. subs'[u] = subs[u]
      BY <1>1, <2>2, Zenon
    <3>2. Carries(u)
      BY <1>4, <3>1, Zenon DEF Carries
    <3>3. PICK f : f = subs[u].box[1]
      OBVIOUS
    <3>4. f \in Frames /\ Upto(f, clock)
      BY <3>2, <3>3, CarriedFrame, TimesAre, Zenon
    <3>5. \A id \in DOMAIN f : f[id] \in Samples
      BY <3>4, FrameIs, Zenon
    <3>6. Upto(f, clock + 1)
      BY <1>1, <3>4, <3>5, LaterIs, Zenon
    <3>7. QED
      BY <1>1, <3>1, <3>3, <3>6, Zenon
  <2>3. QED
    BY <2>1, <2>2
<1>5. ASSUME ~app'.closing
      PROVE  /\ \A v \in Monitors, id \in MetricIDs : Rising(received'[v][id])
             /\ \A u \in Workers, v \in Monitors : Carries(u)' /\ subs'[u].owner = v =>
                  \A id \in DOMAIN subs'[u].box[1], j \in MetricIDs :
                    Below(received'[v][j], subs'[u].box[1][id].at)
  <2>1. ~app.closing
    BY <1>2, <1>5
  <2>2. \A v \in Monitors, id \in MetricIDs : Rising(received'[v][id])
    BY <1>2, <2>1, TimesAre, Zenon
  <2>3. ASSUME NEW u \in Workers, NEW v \in Monitors, Carries(u)', subs'[u].owner = v,
               NEW id \in DOMAIN subs'[u].box[1], NEW j \in MetricIDs
        PROVE  Below(received'[v][j], subs'[u].box[1][id].at)
    <3>1. CASE u = w
      <4>1. subs'[u].box[1][id].at = clock'
        BY <1>1, <3>1, Zenon
      <4>2. QED
        BY <1>2, <1>3, <4>1, Zenon
    <3>2. CASE u # w
      <4>1. subs'[u] = subs[u]
        BY <1>1, <3>2, Zenon
      <4>2. Carries(u) /\ subs[u].owner = v
        BY <2>3, <4>1, Zenon DEF Carries
      <4>3. QED
        BY <1>2, <2>1, <4>1, <4>2, TimesAre, Zenon
    <3>3. QED
      BY <3>1, <3>2
  <2>4. QED
    BY <2>2, <2>3, Zenon
<1>6. QED
  BY <1>3, <1>4, <1>5, TimesThen, Zenon

LEMMA ConsumeTimes ==
    ASSUME Known, Claims, Times, NEW w \in Workers, Consume(w)
    PROVE  Times'
<1>1. PICK v, samples : v = subs[w].owner /\ samples = subs[w].box[1]
  OBVIOUS
<1>2. /\ v \in Monitors /\ samples \in Frames /\ subs[w].box # << >>
      /\ SameBut(subs'[w], subs[w]) /\ subs'[w].box = << >>
      /\ \A u \in Workers \ {w} : subs'[u] = subs[u]
      /\ \A x \in Monitors \ {v} : vm'[x] = vm[x] /\ received'[x] = received[x]
      /\ \A id \in MetricIDs : received'[v][id] = Gained(received[v][id], samples, id)
  BY <1>1, ConsumeEffect
<1>3. app' = app /\ clock' = clock
  <2>1. UNCHANGED frame
    BY Zenon DEF Consume
  <2>2. QED
    BY <2>1 DEF frame
<1>4. clock \in Nat
  BY KnownIs
<1>5. Carries(w) /\ Upto(samples, clock)
  <2>1. Carries(w)
    BY <1>1, <1>2, Zenon DEF Carries
  <2>2. QED
    BY <1>1, <2>1, TimesAre, Zenon
<1>6. ASSUME NEW x \in Monitors, NEW id \in MetricIDs
      PROVE  Upto(received'[x][id], clock')
  <2>1. Upto(received[x][id], clock) /\ received[x][id] \in Seq(Samples)
    BY ReceivedIs, TimesAre, Zenon
  <2>2. CASE x = v
    <3>1. Upto(Gained(received[v][id], samples, id), clock)
      BY <1>2, <1>4, <1>5, <2>1, <2>2, GainedTimes, Zenon
    <3>2. QED
      BY <1>2, <1>3, <2>2, <3>1, Zenon
  <2>3. CASE x # v
    BY <1>2, <1>3, <2>1, <2>3, Zenon
  <2>4. QED
    BY <2>2, <2>3
<1>7. ASSUME NEW u \in Workers, Carries(u)' PROVE u # w /\ subs'[u] = subs[u] /\ Carries(u)
  <2>1. subs'[u].box # << >> /\ subs'[u].owner \in Monitors
    BY <1>7, Zenon DEF Carries
  <2>2. u # w
    BY <1>2, <2>1, Zenon
  <2>3. subs'[u] = subs[u]
    BY <1>2, <2>2, Zenon
  <2>4. QED
    BY <2>1, <2>2, <2>3, Zenon DEF Carries
<1>8. \A u \in Workers : Carries(u)' => Upto(subs'[u].box[1], clock')
  BY <1>3, <1>7, TimesAre, Zenon
<1>9. ASSUME ~app'.closing
      PROVE  /\ \A x \in Monitors, id \in MetricIDs : Rising(received'[x][id])
             /\ \A u \in Workers, x \in Monitors : Carries(u)' /\ subs'[u].owner = x =>
                  \A id \in DOMAIN subs'[u].box[1], j \in MetricIDs :
                    Below(received'[x][j], subs'[u].box[1][id].at)
  <2>1. ~app.closing
    BY <1>3, <1>9
  <2>2. ASSUME NEW x \in Monitors, NEW id \in MetricIDs PROVE Rising(received'[x][id])
    <3>1. Rising(received[x][id]) /\ received[x][id] \in Seq(Samples)
      BY <2>1, ReceivedIs, TimesAre, Zenon
    <3>2. CASE x = v
      <4>1. \A y \in DOMAIN samples : Below(received[v][id], samples[y].at)
        BY <1>1, <1>5, <2>1, TimesAre, Zenon
      <4>2. Rising(Gained(received[v][id], samples, id))
        BY <1>2, <1>4, <3>1, <3>2, <4>1, GainedTimes, Zenon
      <4>3. QED
        BY <1>2, <3>2, <4>2, Zenon
    <3>3. CASE x # v
      BY <1>2, <3>1, <3>3, Zenon
    <3>4. QED
      BY <3>2, <3>3
  <2>3. ASSUME NEW u \in Workers, NEW x \in Monitors, Carries(u)', subs'[u].owner = x,
               NEW id \in DOMAIN subs'[u].box[1], NEW j \in MetricIDs
        PROVE  Below(received'[x][j], subs'[u].box[1][id].at)
    <3>1. u # w /\ subs'[u] = subs[u] /\ Carries(u) /\ subs[u].owner = x
      BY <1>7, <2>3, Zenon
    <3>2. x # v
      BY <1>1, <1>2, <2>1, <3>1, OneOwned, Zenon
    <3>3. received'[x] = received[x]
      BY <1>2, <3>2, Zenon
    <3>4. QED
      BY <2>1, <2>3, <3>1, <3>3, TimesAre, Zenon
  <2>4. QED
    BY <2>2, <2>3, Zenon
<1>10. QED
  BY <1>6, <1>8, <1>9, TimesThen, Zenon

LEMMA StepTimes ==
    ASSUME Known, Claims, Times, [PagesNext]_pagesVars
    PROVE  Times'
<1>1. CASE \E w \in Workers : Consume(w)
  BY <1>1, ConsumeTimes, Zenon
<1>2. CASE \A w \in Workers : ~Consume(w)
  BY <1>2, StillReceived, CarriedTimes, DeliverTimes, Zenon
<1>3. QED
  BY <1>1, <1>2, Zenon

-----------------------------------------------------------------------------
(* Theorems about histories.                                               *)

LEMMA HistoriesHold ==
    ASSUME RingsHold, Times
    PROVE  HistoryIsNewest
<1>1. \A v \in Monitors, id \in MetricIDs : Snapshot(vm[v].rings[id]) = received[v][id]
  BY Zenon DEF RingsHold
<1>2. app.closing \/ \A v \in Monitors, id \in MetricIDs : Rising(received[v][id])
  BY TimesAre, Zenon
<1>3. ASSUME NEW v \in Monitors, NEW id \in MetricIDs,
             NEW samples, samples = Snapshot(vm[v].rings[id])
      PROVE  /\ samples = received[v][id]
             /\ app.closing \/ \A i, j \in DOMAIN samples :
                  i < j => samples[i].at < samples[j].at
  BY <1>1, <1>2, <1>3, Zenon DEF Rising
<1>4. QED
  BY <1>3 DEF HistoryIsNewest

LEMMA ChartsHold ==
    ASSUME Known, RingsHold, Times
    PROVE  ChartKeepsSpikes
<1>1. \A v \in Monitors, id \in MetricIDs : Snapshot(vm[v].rings[id]) = received[v][id]
  BY Zenon DEF RingsHold
<1>2. app.closing \/ \A v \in Monitors, id \in MetricIDs : Rising(received[v][id])
  BY TimesAre, Zenon
<1>3. ASSUME NEW v \in Monitors, NEW id \in MetricIDs,
             NEW samples, samples = received[v][id],
             NEW points, points = DownsampleMinMax(Snapshot(vm[v].rings[id]), Columns)
      PROVE  /\ Len(points) <= 2 * Columns
             /\ ToSet(points) \subseteq ToSet(samples)
             /\ samples # << >> =>
                  /\ Max(ValuesOf(samples)) = Max(ValuesOf(points))
                  /\ Min(ValuesOf(samples)) = Min(ValuesOf(points))
             /\ app.closing \/ \A i, j \in DOMAIN points :
                  i < j => points[i].at < points[j].at
  <2>1. samples \in Seq(Samples) /\ Columns \in Nat \ {0}
    BY <1>3, ReceivedIs, PagesAssumption, Zenon
  <2>2. points = DownsampleMinMax(samples, Columns)
    BY <1>1, <1>3, Zenon
  <2>3. points \in Seq(Samples) /\ Len(points) <= 2 * Columns /\ Thins(points, samples)
    BY <2>1, <2>2, DownsampleThins, Zenon
  <2>4. /\ ToSet(points) \subseteq ToSet(samples)
        /\ samples # << >> => /\ Max(ValuesOf(samples)) = Max(ValuesOf(points))
                              /\ Min(ValuesOf(samples)) = Min(ValuesOf(points))
        /\ (\A i, j \in DOMAIN samples : i < j => samples[i].at < samples[j].at)
             => \A i, j \in DOMAIN points : i < j => points[i].at < points[j].at
    BY <2>1, <2>3, ThinningKeeps, Zenon
  <2>5. app.closing \/ \A i, j \in DOMAIN samples : i < j => samples[i].at < samples[j].at
    BY <1>2, <1>3, Zenon DEF Rising
  <2>6. QED
    BY <2>3, <2>4, <2>5, Zenon
<1>4. QED
  BY <1>3, Zenon DEF ChartKeepsSpikes, ValuesOf

\* Rings hold the newest samples that came, and samples come in the order they were
\* measured: before the window closes a view model has one subscription at a time.
THEOREM HistoriesKept == PagesSpec => [](RingsHold /\ Times)
<1>1. Known /\ Claims /\ RingsHold /\ Times /\ [PagesNext]_pagesVars => (RingsHold /\ Times)'
  BY StepRings, StepTimes, Zenon
<1>2. QED
  BY <1>1, InitRings, PagesKept, PTL DEF PagesSpec

\* In every state the history of a metric is its newest available samples, in the
\* order they were measured unless the window is being closed.
THEOREM HistoryAlwaysNewest == PagesSpec => []HistoryIsNewest
BY HistoriesHold, HistoriesKept, PTL

\* In every state a chart has at most two points for each column, in order, and the
\* same lowest and highest value as the history it was made from.
THEOREM ChartAlwaysKeeps == PagesSpec => []ChartKeepsSpikes
BY ChartsHold, HistoriesKept, PagesKept, PTL

-----------------------------------------------------------------------------
(* The newest view of a page arrives.                                      *)

ToShow(c, d) == c.op \in {"submit", "render"} /\ c.on = d
Giving(c, d) == c.op = "submit" /\ c.on = d

\* Arrives(d) of given dispatcher, view shown, calls and newest view.
ArrivesIs(u, s, l, n, d) ==
  /\ \A t \in Threads : Giving(l[t], d) => l[t].arg = n
  /\ \/ \E t \in Threads : Giving(l[t], d)
     \/ u.pending /\ u.latest = n
     \/ ~u.pending /\ (l["ui"].op = "render" /\ l["ui"].on = d) /\ l["ui"].arg = n
     \/ ~u.pending /\ ~(l["ui"].op = "render" /\ l["ui"].on = d) /\ s = n

NewestFor(d) == late[d] \/ Renewing(d) \/ Arrives(d)

LEMMA ArrivesBefore ==
    ASSUME NEW d
    PROVE  Arrives(d) <=> ArrivesIs(updates[d], shown[d], Leads, NewestView(d), d)
BY Zenon DEF Arrives, ArrivesIs, Submits, Rendering, Giving

\* A view that d will have, whatever that view is in the state before.
LEMMA ArrivesAfter ==
    ASSUME NEW d, NEW n, NewestView(d)' = n, ArrivesIs(updates'[d], shown'[d], Leads', n, d)
    PROVE  Arrives(d)'
BY Zenon DEF Arrives, ArrivesIs, Submits, Rendering, Giving

LEMMA NewestThen ==
    ASSUME NEW d, late'[d] \/ Renewing(d)' \/ Arrives(d)'
    PROVE  NewestFor(d)'
BY Zenon DEF NewestFor

LEMMA NewestIs ==
    ASSUME NewestArrives
    PROVE  \A d \in Dispatchers : NewestFor(d)
BY Zenon DEF NewestArrives, NewestFor

LEMMA NewestFrom ==
    ASSUME \A d \in Dispatchers : NewestFor(d)'
    PROVE  NewestArrives'
BY Zenon DEF NewestArrives, NewestFor

\* The calls that change concern other pages than that of d.
AwayFrom(l, m, d) ==
  \A t \in Threads : m[t] # l[t] => ~ToShow(l[t], d) /\ ~ToShow(m[t], d)

LEMMA GivingIs ==
  \A c, d : /\ ToShow(c, d) <=> Giving(c, d) \/ (c.op = "render" /\ c.on = d)
            /\ ~ToShow(NoCall, d)
BY NoCallIs DEF ToShow, Giving

LEMMA ArrivesSame ==
    ASSUME NEW u, NEW s, NEW l, NEW n, NEW d, ArrivesIs(u, s, l, n, d),
           NEW m, AwayFrom(l, m, d), NEW v, v.pending <=> u.pending, v.latest = u.latest
    PROVE  ArrivesIs(v, s, m, n, d)
<1>1. "ui" \in Threads
  BY DEF Threads
<1>2. \A t \in Threads : m[t] = l[t] \/ (~ToShow(l[t], d) /\ ~ToShow(m[t], d))
  BY Zenon DEF AwayFrom
<1>3. \A t \in Threads : Giving(m[t], d) => m[t] = l[t] /\ Giving(l[t], d)
  BY <1>2, GivingIs, Zenon
<1>4. \A t \in Threads : Giving(l[t], d) => m[t] = l[t] /\ Giving(m[t], d)
  BY <1>2, GivingIs, Zenon
<1>5. /\ l["ui"].op = "render" /\ l["ui"].on = d <=> m["ui"].op = "render" /\ m["ui"].on = d
      /\ l["ui"].op = "render" /\ l["ui"].on = d => m["ui"].arg = l["ui"].arg
  <2>1. CASE m["ui"] = l["ui"]
    BY <2>1
  <2>2. CASE ~ToShow(l["ui"], d) /\ ~ToShow(m["ui"], d)
    BY <2>2, GivingIs, Zenon
  <2>3. QED
    BY <1>1, <1>2, <2>1, <2>2, Zenon
<1>6. \A t \in Threads : Giving(m[t], d) => m[t].arg = n
  BY <1>3, Zenon DEF ArrivesIs
<1>7. CASE \E t \in Threads : Giving(l[t], d)
  BY <1>4, <1>6, <1>7, Zenon DEF ArrivesIs
<1>8. CASE ~\E t \in Threads : Giving(l[t], d)
  BY <1>5, <1>6, <1>8, Zenon DEF ArrivesIs
<1>9. QED
  BY <1>7, <1>8

\* d is submitted its newest view, and has it pending.
LEMMA ArrivesSubmitted ==
    ASSUME NEW u, NEW s, NEW l, NEW n, NEW d, ArrivesIs(u, s, l, n, d),
           NEW t \in Threads, Giving(l[t], d), NEW m, OneLead(l, m, t), ~ToShow(m[t], d),
           NEW v, v.pending, v.latest = l[t].arg
    PROVE  ArrivesIs(v, s, m, n, d)
<1>1. v.latest = n
  BY Zenon DEF ArrivesIs
<1>2. ASSUME NEW x \in Threads, Giving(m[x], d) PROVE m[x].arg = n
  <2>1. x # t
    BY <1>2, GivingIs, Zenon
  <2>2. m[x] = l[x]
    BY <2>1, Zenon DEF OneLead
  <2>3. QED
    BY <1>2, <2>2, Zenon DEF ArrivesIs
<1>3. QED
  BY <1>1, <1>2, Zenon DEF ArrivesIs

\* The UI takes what is pending.
LEMMA ArrivesTaken ==
    ASSUME NEW u, NEW s, NEW l, NEW n, NEW d, ArrivesIs(u, s, l, n, d), u.pending,
           l["ui"] = NoCall, NEW m, OneLead(l, m, "ui"), m["ui"] = Call("render", d, u.latest),
           NEW v, ~v.pending
    PROVE  ArrivesIs(v, s, m, n, d)
<1>1. /\ m["ui"].op = "render" /\ m["ui"].on = d /\ m["ui"].arg = u.latest
      /\ ~Giving(m["ui"], d) /\ ~Giving(l["ui"], d)
  <2>1. m["ui"].op = "render" /\ m["ui"].on = d /\ m["ui"].arg = u.latest
    BY DEF Call
  <2>2. ~Giving(m["ui"], d)
    BY <2>1, SMT DEF Giving
  <2>3. QED
    BY <2>1, <2>2, GivingIs, Zenon
<1>2. \A t \in Threads : Giving(m[t], d) => Giving(l[t], d) /\ m[t] = l[t]
  BY <1>1, Zenon DEF OneLead
<1>3. \A t \in Threads : Giving(l[t], d) => Giving(m[t], d)
  BY <1>1, Zenon DEF OneLead
<1>4. \A t \in Threads : Giving(m[t], d) => m[t].arg = n
  BY <1>2, Zenon DEF ArrivesIs
<1>5. CASE \E t \in Threads : Giving(l[t], d)
  BY <1>3, <1>4, <1>5, Zenon DEF ArrivesIs
<1>6. CASE ~\E t \in Threads : Giving(l[t], d)
  <2>1. u.latest = n
    BY <1>6, Zenon DEF ArrivesIs
  <2>2. QED
    BY <1>1, <1>4, <2>1, Zenon DEF ArrivesIs
<1>7. QED
  BY <1>5, <1>6

\* The UI shows what it was to render.
LEMMA ArrivesRendered ==
    ASSUME NEW u, NEW s, NEW l, NEW n, NEW d, ArrivesIs(u, s, l, n, d),
           l["ui"].op = "render", l["ui"].on = d, NEW m, OneLead(l, m, "ui"), m["ui"] = NoCall
    PROVE  ArrivesIs(u, l["ui"].arg, m, n, d)
<1>1. ~Giving(m["ui"], d) /\ ~Giving(l["ui"], d) /\ ~(m["ui"].op = "render" /\ m["ui"].on = d)
  <2>1. ~Giving(l["ui"], d)
    BY DEF Giving
  <2>2. ~Giving(NoCall, d) /\ ~(NoCall.op = "render" /\ NoCall.on = d)
    BY GivingIs, Zenon
  <2>3. QED
    BY <2>1, <2>2, Zenon
<1>2. \A t \in Threads : Giving(m[t], d) => Giving(l[t], d) /\ m[t] = l[t]
  BY <1>1, Zenon DEF OneLead
<1>3. \A t \in Threads : Giving(l[t], d) => Giving(m[t], d)
  BY <1>1, Zenon DEF OneLead
<1>4. \A t \in Threads : Giving(m[t], d) => m[t].arg = n
  BY <1>2, Zenon DEF ArrivesIs
<1>5. QED
  BY <1>1, <1>3, <1>4, Zenon DEF ArrivesIs

\* A thread is to submit the newest view and no other one is to submit any.
LEMMA ArrivesGiven ==
    ASSUME NEW u, NEW s, NEW n, NEW d, NEW t \in Threads, NEW m, m[t] = Call("submit", d, n),
           \A x \in Threads \ {t} : ~Giving(m[x], d)
    PROVE  ArrivesIs(u, s, m, n, d)
<1>1. Giving(m[t], d) /\ m[t].arg = n
  BY CallIs DEF Giving
<1>2. \A x \in Threads : Giving(m[x], d) => m[x].arg = n
  BY <1>1, Zenon
<1>3. QED
  BY <1>1, <1>2, Zenon DEF ArrivesIs

\* What d should show stays the same.
ViewStays(d) ==
  /\ d \in Monitors => /\ vm'[d].metrics = vm[d].metrics /\ vm'[d].current = vm[d].current
                       /\ vm'[d].rings = vm[d].rings
  /\ d = "logs" => store' = store
  /\ d \notin Monitors /\ d # "logs" => tune'.version = tune.version

\* The step is none of d's.
Rests(d) ==
  /\ ViewStays(d) /\ AwayFrom(Leads, Leads', d)
  /\ updates'[d].pending <=> updates[d].pending
  /\ updates'[d].latest = updates[d].latest
  /\ shown'[d] = shown[d]
  /\ late[d] => late'[d]
  /\ Renewing(d) => Renewing(d)'

StateWith(metrics, current, rings) ==
  [selected |-> metrics,
   current |-> [id \in {x \in metrics : current[x] # NoSample} |-> current[id]],
   history |-> [id \in metrics |-> DownsampleMinMax(Snapshot(rings[id]), Columns)]]

LEMMA StateParts ==
    ASSUME NEW m
    PROVE  StateOf(m) = StateWith(m.metrics, m.current, m.rings)
BY Zenon DEF StateOf, StateWith

LEMMA ViewStaysIs ==
    ASSUME NEW d, ViewStays(d)
    PROVE  NewestView(d)' = NewestView(d)
<1>1. CASE d \in Monitors
  <2>1. StateOf(vm'[d]) = StateOf(vm[d])
    BY <1>1, StateParts, Zenon DEF ViewStays
  <2>2. QED
    BY <1>1, <2>1, Zenon DEF NewestView
<1>2. CASE d \notin Monitors
  BY <1>2, Zenon DEF NewestView, ViewStays
<1>3. QED
  BY <1>1, <1>2

LEMMA RestsNewest ==
    ASSUME NEW d, NewestFor(d), Rests(d)
    PROVE  NewestFor(d)'
<1>1. CASE late[d] \/ Renewing(d)
  BY <1>1, NewestThen, Zenon DEF Rests
<1>2. CASE Arrives(d)
  <2>1. PICK n, s, u, v, l, m : n = NewestView(d) /\ s = shown[d] /\ u = updates[d] /\ v = updates'[d]
                                 /\ l = Leads /\ m = Leads'
    OBVIOUS
  <2>2. ArrivesIs(u, s, l, n, d)
    BY <1>2, <2>1, ArrivesBefore, Zenon
  <2>3. AwayFrom(l, m, d) /\ (v.pending <=> u.pending) /\ v.latest = u.latest /\ shown'[d] = s
    BY <2>1, Zenon DEF Rests
  <2>4. ArrivesIs(v, s, m, n, d)
    BY <2>2, <2>3, ArrivesSame, Zenon
  <2>5. NewestView(d)' = n
    BY <2>1, ViewStaysIs, Zenon DEF Rests
  <2>6. ArrivesIs(updates'[d], shown'[d], Leads', n, d)
    BY <2>1, <2>3, <2>4, Zenon
  <2>7. QED
    BY <2>5, <2>6, ArrivesAfter, NewestThen, Zenon
<1>3. QED
  BY <1>1, <1>2, Zenon DEF NewestFor

\* The page of the events goes on being renewed.
LogsRenewed ==
  /\ Looking => Looking'
  /\ logs' = logs
  /\ logs.active /\ subs[logs.handle].box # << >> => subs'[logs.handle].box # << >>

LEMMA LogsGoOn ==
    ASSUME LogsRenewed, Renewing("logs")
    PROVE  Renewing("logs")'
BY Zenon DEF LogsRenewed, Renewing

LEMMA OthersGoOn ==
    ASSUME NEW d, d # "logs", Refreshing(d) => Refreshing(d)', Renewing(d)
    PROVE  Renewing(d)'
BY Zenon DEF Renewing

\* So does every page, when nothing that renews one is lost.
LEMMA AllGoOn ==
    ASSUME Kept, logs' = logs, \A w \in Workers : subs[w].box # << >> => subs'[w].box # << >>,
           logs.active => logs.handle \in Workers
    PROVE  \A d \in Dispatchers : Renewing(d) => Renewing(d)'
<1>1. LogsRenewed
  BY Zenon DEF LogsRenewed, Kept
<1>2. TAKE d \in Dispatchers
<1>3. HAVE Renewing(d)
<1>4. CASE d = "logs"
  BY <1>1, <1>3, <1>4, LogsGoOn, Zenon
<1>5. CASE d # "logs"
  BY <1>3, <1>5, OthersGoOn, Zenon DEF Kept
<1>6. QED
  BY <1>4, <1>5

LEMMA SteadyAway ==
    ASSUME Steady
    PROVE  \A d : AwayFrom(Leads, Leads', d)
BY Zenon DEF Steady, AwayFrom

LEMMA TurnAway ==
    ASSUME NEW t \in Threads, NEW lead, Turn(t, lead), NEW d, ~ToShow(Leads[t], d), ~ToShow(lead, d)
    PROVE  AwayFrom(Leads, Leads', d)
<1>1. Leads'[t] = lead /\ \A u \in Threads \ {t} : Leads'[u] = Leads[u]
  BY TurnLeads, Zenon
<1>2. QED
  BY <1>1, Zenon DEF AwayFrom

\* Steps that do nothing for any page.
Unmoved ==
  /\ Steady /\ Kept /\ UNCHANGED << updates, shown, late, vm, subs, logs, store >>
  /\ tune'.version = tune.version

LEMMA UnmovedIs ==
    ASSUME Steady, Kept, UNCHANGED << screen, feeds, tuning, late >>
    PROVE  Unmoved
BY Zenon DEF Unmoved, screen, feeds, tuning

LEMMA UnmovedRests ==
    ASSUME Known, Unmoved
    PROVE  \A d \in Dispatchers : Rests(d)
<1>1. /\ updates' = updates /\ shown' = shown /\ late' = late /\ vm' = vm /\ subs' = subs
      /\ logs' = logs /\ store' = store /\ tune'.version = tune.version
  BY Zenon DEF Unmoved
<1>2. \A d : AwayFrom(Leads, Leads', d)
  BY SteadyAway, Zenon DEF Unmoved
<1>3. \A d \in Dispatchers : Renewing(d) => Renewing(d)'
  BY <1>1, AllGoOn, KnownIs, Zenon DEF Unmoved
<1>4. \A d : ViewStays(d)
  BY <1>1, Zenon DEF ViewStays
<1>5. QED
  BY <1>1, <1>2, <1>3, <1>4, Zenon DEF Rests

LEMMA RestNewest ==
    ASSUME NewestArrives, \A d \in Dispatchers : Rests(d)
    PROVE  NewestArrives'
BY NewestIs, NewestFrom, RestsNewest, Zenon

LEMMA OtherNewest ==
    ASSUME NewestArrives, NEW v, \A d \in Dispatchers : d # v => Rests(d), NewestFor(v)'
    PROVE  NewestArrives'
<1>1. ASSUME NEW d \in Dispatchers PROVE NewestFor(d)'
  <2>1. CASE d = v
    BY <2>1
  <2>2. CASE d # v
    BY <2>2, NewestIs, RestsNewest, Zenon
  <2>3. QED
    BY <2>1, <2>2
<1>2. QED
  BY <1>1, NewestFrom, Zenon

\* Steps of the user, of navigation and of closing do nothing for any page.
UnmovedStep ==
  \/ UNCHANGED pagesVars
  \/ Enter \/ Quit \/ Deselect
  \/ SelectPage \/ TogglePause \/ ChooseMetrics \/ ChooseInterval
  \/ SetCatalog \/ BeginClose
  \/ \E t \in Threads :
       SetInterval(t) \/ SetLiveListener(t) \/ SetMonitorActive(t) \/ SetFlag(t)

LEMMA StepUnmoved ==
    ASSUME Known, UnmovedStep
    PROVE  Unmoved
<1>1. CASE UNCHANGED pagesVars
  BY <1>1, UnchangedIs, KnownIs, UnmovedSteady, UnmovedIs, Zenon
<1>2. CASE Enter
  <2>1. UNCHANGED << screen, feeds, tuning, late >>
    BY <1>2, Zenon DEF Enter
  <2>2. QED
    BY <1>2, <2>1, KnownIs, EnterSteady, UnmovedIs, Zenon
<1>3. CASE Quit
  <2>1. UNCHANGED << screen, feeds, tuning, late >>
    BY <1>3, Zenon DEF Quit
  <2>2. QED
    BY <1>3, <2>1, KnownIs, QuitSteady, UnmovedIs, Zenon
<1>4. CASE Deselect
  <2>1. UNCHANGED << screen, feeds, tuning, late >>
    BY <1>4, Zenon DEF Deselect
  <2>2. QED
    BY <1>4, <2>1, KnownIs, DeselectSteady, UnmovedIs, Zenon
<1>5. ASSUME NEW calls, Command(calls), Steady, Kept
      PROVE  Unmoved
  <2>1. UNCHANGED << screen, feeds, tuning, late >>
    BY <1>5, Zenon DEF Command
  <2>2. QED
    BY <1>5, <2>1, UnmovedIs, Zenon
<1>6. CASE SelectPage
  <2>1. Steady /\ Kept
    BY <1>6, KnownIs, InputsAre, SelectSteady, Zenon
  <2>2. QED
    BY <1>5, <1>6, <2>1, Zenon DEF SelectPage
<1>7. CASE TogglePause
  <2>1. Steady /\ Kept
    BY <1>7, KnownIs, PauseSteady, Zenon
  <2>2. QED
    BY <1>5, <1>7, <2>1, Zenon DEF TogglePause
<1>8. CASE ChooseMetrics
  <2>1. Steady /\ Kept
    BY <1>8, KnownIs, InputsAre, ChooseMetricsSteady, Zenon
  <2>2. QED
    BY <1>5, <1>8, <2>1, Zenon DEF ChooseMetrics
<1>9. CASE ChooseInterval
  <2>1. Steady /\ Kept
    BY <1>9, KnownIs, ChooseIntervalSteady, Zenon
  <2>2. QED
    BY <1>5, <1>9, <2>1, Zenon DEF ChooseInterval
<1>10. CASE SetCatalog
  <2>1. UNCHANGED << screen, feeds, tuning, late >>
    BY <1>10, Zenon DEF SetCatalog
  <2>2. QED
    BY <1>10, <2>1, KnownIs, InputsAre, CatalogSteady, UnmovedIs, Zenon
<1>11. CASE BeginClose
  <2>1. UNCHANGED << screen, feeds, tuning, late >>
    BY <1>11, Zenon DEF BeginClose
  <2>2. QED
    BY <1>11, <2>1, KnownIs, BeginSteady, UnmovedIs, Zenon
<1>12. ASSUME NEW t \in Threads, SetInterval(t)
       PROVE  Unmoved
  <2>1. UNCHANGED << screen, feeds, tuning, late >>
    BY <1>12, Zenon DEF SetInterval
  <2>2. QED
    BY <1>12, <2>1, KnownIs, IntervalSteady, UnmovedIs, Zenon
<1>13. ASSUME NEW t \in Threads, SetMonitorActive(t)
       PROVE  Unmoved
  <2>1. UNCHANGED << screen, feeds, tuning, late >>
    BY <1>13, Zenon DEF SetMonitorActive
  <2>2. QED
    BY <1>13, <2>1, KnownIs, PageSteady, UnmovedIs, Zenon
<1>14. ASSUME NEW t \in Threads, SetFlag(t)
       PROVE  Unmoved
  <2>1. UNCHANGED << screen, feeds, tuning, late >>
    BY <1>14, Zenon DEF SetFlag
  <2>2. QED
    BY <1>14, <2>1, KnownIs, FlagSteady, UnmovedIs, Zenon
<1>15. ASSUME NEW t \in Threads, SetLiveListener(t)
       PROVE  Unmoved
  <2>1. UNCHANGED << screen, feeds, store, logs, late >>
    BY <1>15, Zenon DEF SetLiveListener
  <2>2. tune'.version = tune.version
    BY <1>15, LiveKnown, Zenon
  <2>3. Steady /\ Kept
    BY <1>15, KnownIs, LiveSteady, Zenon
  <2>4. QED
    BY <2>1, <2>2, <2>3, Zenon DEF Unmoved, screen, feeds
<1>16. QED
  BY <1>1, <1>2, <1>3, <1>4, <1>6, <1>7, <1>8, <1>9, <1>10, <1>11, <1>12, <1>13, <1>14, <1>15,
     Zenon DEF UnmovedStep

-----------------------------------------------------------------------------
(* Views that are about to be submitted.                                   *)

LEMMA OthersHolding ==
    ASSUME Known, NEW t, NEW d, ~Holding(d, t), NEW u \in Threads \ {t}
    PROVE  ~Giving(Leads[u], d)
<1>1. SUFFICES ASSUME Giving(Leads[u], d) PROVE FALSE
  OBVIOUS
<1>2. Leads[u].op = "submit" /\ Leads[u].on = d
  BY <1>1 DEF Giving
<1>3. Leads[u] = LeadOf(todo[u]) /\ todo[u] \in Seq(Calls)
  BY LeadsAre, KnownIs, Zenon
<1>4. Leads[u] # NoCall
  BY <1>2, NoCallIs
<1>5. todo[u] # << >> /\ Leads[u] = todo[u][1]
  BY <1>3, <1>4, Zenon DEF LeadOf
<1>6. 1 \in DOMAIN todo[u]
  BY <1>3, <1>5
<1>7. todo[u][1].op = "submit" /\ todo[u][1].on = d
  BY <1>2, <1>5, Zenon
<1>8. QED
  BY <1>6, <1>7, Zenon DEF Holding

LEMMA ViewIs ==
    ASSUME late \in [Dispatchers -> BOOLEAN], NEW d \in Dispatchers, NEW t, NEW heard,
           View(d, t, heard)
    PROVE  /\ late'[d] <=> ~heard \/ Holding(d, t)
           /\ \A x \in Dispatchers : x # d => late'[x] = late[x]
<1>1. late' = [late EXCEPT ![d] = ~heard \/ Holding(d, t)]
  BY Zenon DEF View
<1>2. QED
  BY <1>1

\* t views d, hands over its newest view, or leaves it late.
LEMMA Viewed ==
    ASSUME Known, NEW t \in Threads, NEW d \in Dispatchers, NEW heard, View(d, t, heard),
           NEW lead, Turn(t, lead), NEW n, NewestView(d)' = n,
           heard => lead = Call("submit", d, n)
    PROVE  NewestFor(d)'
<1>1. late'[d] <=> ~heard \/ Holding(d, t)
  BY KnownIs, ViewIs, Zenon
<1>2. CASE late'[d]
  BY <1>2, NewestThen, Zenon
<1>3. CASE ~late'[d]
  <2>1. heard /\ ~Holding(d, t)
    BY <1>1, <1>3, Zenon
  <2>2. Leads'[t] = Call("submit", d, n) /\ \A u \in Threads \ {t} : Leads'[u] = Leads[u]
    BY <2>1, TurnLeads, Zenon
  <2>3. \A u \in Threads \ {t} : ~Giving(Leads'[u], d)
    BY <2>1, <2>2, OthersHolding, Zenon
  <2>4. PICK u, s, m : u = updates'[d] /\ s = shown'[d] /\ m = Leads'
    OBVIOUS
  <2>5. ArrivesIs(u, s, m, n, d)
    BY <2>2, <2>3, <2>4, ArrivesGiven, Zenon
  <2>6. QED
    BY <2>4, <2>5, ArrivesAfter, NewestThen, Zenon
<1>4. QED
  BY <1>2, <1>3

\* Other pages than d rest when t views d.
LEMMA OtherRests ==
    ASSUME Known, NEW t \in Threads, NEW lead, Turn(t, lead), Leads[t] = NoCall,
           NEW d, NEW x \in Dispatchers, x # d, ~ToShow(lead, x), ViewStays(x),
           UNCHANGED << updates, shown >>, late[x] => late'[x],
           Renewing(x) => Renewing(x)'
    PROVE  Rests(x)
<1>1. ~ToShow(Leads[t], x)
  BY GivingIs, Zenon
<1>2. AwayFrom(Leads, Leads', x)
  BY <1>1, TurnAway, Zenon
<1>3. updates' = updates /\ shown' = shown
  OBVIOUS
<1>4. QED
  BY <1>2, <1>3, Zenon DEF Rests

LEMMA SubmitElsewhere ==
    ASSUME NEW d, NEW x, x # d, NEW n
    PROVE  ~ToShow(Call("submit", d, n), x) /\ ~ToShow(NoCall, x)
BY CallIs, NoCallIs DEF ToShow

LEMMA PublishNewest ==
    ASSUME Known, NewestArrives, NEW t \in Threads, PublishState(t)
    PROVE  NewestArrives'
<1>1. PICK v : v = Now(t).on
  OBVIOUS
<1>2. PICK lead : lead = IF Listens(v) THEN Call("submit", v, StateOf(vm[v])) ELSE NoCall
  OBVIOUS
<1>3. v \in Monitors /\ v \in Dispatchers /\ Leads[t] = NoCall /\ Kept /\ Turn(t, lead)
  BY <1>1, <1>2, KnownIs, PublishTurns, NoMonitor, Zenon
<1>4. UNCHANGED << screen, feeds, tuning >> /\ View(v, t, Listens(v))
  BY <1>1, Zenon DEF PublishState
<1>5. /\ updates' = updates /\ shown' = shown /\ vm' = vm /\ subs' = subs
      /\ logs' = logs /\ store' = store /\ tune' = tune
  BY <1>4 DEF screen, feeds, tuning
<1>6. NewestFor(v)'
  <2>1. PICK n : n = StateOf(vm[v])
    OBVIOUS
  <2>2. NewestView(v)' = n
    BY <1>3, <1>5, <2>1, Zenon DEF NewestView
  <2>3. Listens(v) => lead = Call("submit", v, n)
    BY <1>2, <2>1
  <2>4. PICK heard : heard = Listens(v)
    OBVIOUS
  <2>5. View(v, t, heard) /\ (heard => lead = Call("submit", v, n))
    BY <1>4, <2>3, <2>4, Zenon
  <2>6. View(v, t, heard) /\ v \in Dispatchers /\ Turn(t, lead)
    BY <1>3, <2>5
  <2>7. heard => lead = Call("submit", v, n)
    BY <2>5
  <2>8. QED
    BY <2>2, <2>6, <2>7, Viewed
<1>7. ASSUME NEW x \in Dispatchers, x # v PROVE Rests(x)
  <2>1. ~ToShow(lead, x)
    BY <1>2, <1>7, SubmitElsewhere, Zenon
  <2>2. ViewStays(x)
    BY <1>5, Zenon DEF ViewStays
  <2>3. late[x] => late'[x]
    BY <1>3, <1>4, <1>7, KnownIs, ViewIs, Zenon
  <2>4. Renewing(x) => Renewing(x)'
    BY <1>3, <1>5, AllGoOn, KnownIs, Zenon
  <2>5. UNCHANGED << updates, shown >>
    BY <1>5
  <2>6. QED
    BY <1>3, <1>7, <2>1, <2>2, <2>3, <2>4, <2>5, OtherRests, Zenon
<1>8. QED
  BY <1>6, <1>7, OtherNewest, Zenon

LEMMA NewestEvents == NewestView("logs")' = store' /\ NewestView("tune")' = tune'.version
<1>1. "logs" \notin Monitors /\ "tune" \notin Monitors /\ "tune" # "logs"
  BY DEF Monitors
<1>2. QED
  BY <1>1, Zenon DEF NewestView

LEMMA LookNewest ==
    ASSUME Known, NewestArrives, NEW t \in Threads, LookAtEvents(t)
    PROVE  NewestArrives'
<1>1. PICK lead : lead = Call("submit", "logs", store)
  OBVIOUS
<1>2. "logs" \in Dispatchers
  BY DEF Dispatchers
<1>3. Leads[t] = NoCall /\ Turn(t, lead) /\ \A d : Refreshing(d) => Refreshing(d)'
  BY <1>1, KnownIs, LookTurns, Zenon
<1>4. UNCHANGED << screen, feeds, tuning >> /\ View("logs", t, TRUE)
  BY Zenon DEF LookAtEvents
<1>5. /\ updates' = updates /\ shown' = shown /\ vm' = vm /\ subs' = subs
      /\ logs' = logs /\ store' = store /\ tune' = tune
  BY <1>4 DEF screen, feeds, tuning
<1>6. NewestFor("logs")'
  <2>1. PICK n : n = store
    OBVIOUS
  <2>2. NewestView("logs")' = n /\ lead = Call("submit", "logs", n)
    BY <1>1, <1>5, <2>1, NewestEvents, Zenon
  <2>3. PICK heard : heard = TRUE
    OBVIOUS
  <2>4. View("logs", t, heard)
    BY <1>4, <2>3, Zenon
  <2>5. QED
    BY <1>2, <1>3, <2>2, <2>4, Viewed, Zenon
<1>7. ASSUME NEW x \in Dispatchers, x # "logs" PROVE Rests(x)
  <2>1. ~ToShow(lead, x)
    BY <1>1, <1>7, SubmitElsewhere, Zenon
  <2>2. ViewStays(x)
    BY <1>5, Zenon DEF ViewStays
  <2>3. late[x] => late'[x]
    BY <1>2, <1>4, <1>7, KnownIs, ViewIs, Zenon
  <2>4. Renewing(x) => Renewing(x)'
    BY <1>3, <1>7, OthersGoOn, Zenon
  <2>5. UNCHANGED << updates, shown >>
    BY <1>5
  <2>6. QED
    BY <1>3, <1>7, <2>1, <2>2, <2>3, <2>4, <2>5, OtherRests, Zenon
<1>8. QED
  BY <1>6, <1>7, OtherNewest, Zenon

\* A change of the Tune view model that is notified to its listener, if any.
LEMMA TuneNewest ==
    ASSUME Known, NewestArrives, NEW t \in Threads, Leads[t] = NoCall, Kept,
           UNCHANGED << screen, feeds, store, logs >>,
           NEW heard, View("tune", t, heard), NEW n, tune'.version = n,
           NEW lead, Turn(t, lead), lead = IF heard THEN Call("submit", "tune", n) ELSE NoCall
    PROVE  NewestArrives'
<1>1. "tune" \in Dispatchers
  BY DEF Dispatchers
<1>2. /\ updates' = updates /\ shown' = shown /\ vm' = vm /\ subs' = subs
      /\ logs' = logs /\ store' = store
  BY DEF screen, feeds
<1>3. NewestFor("tune")'
  <2>1. NewestView("tune")' = n
    BY NewestEvents, Zenon
  <2>2. heard => lead = Call("submit", "tune", n)
    OBVIOUS
  <2>3. QED
    BY <1>1, <2>1, <2>2, Viewed, Zenon
<1>4. ASSUME NEW x \in Dispatchers, x # "tune" PROVE Rests(x)
  <2>1. ~ToShow(lead, x)
    BY <1>4, SubmitElsewhere, Zenon
  <2>2. ViewStays(x)
    <3>1. x \in Monitors \/ x = "logs"
      BY <1>4 DEF Dispatchers
    <3>2. QED
      BY <1>2, <3>1, NoMonitor, Zenon DEF ViewStays
  <2>3. late[x] => late'[x]
    BY <1>1, <1>4, KnownIs, ViewIs, Zenon
  <2>4. Renewing(x) => Renewing(x)'
    BY <1>2, AllGoOn, KnownIs, Zenon
  <2>5. UNCHANGED << updates, shown >>
    BY <1>2
  <2>6. QED
    BY <1>4, <2>1, <2>2, <2>3, <2>4, <2>5, OtherRests, Zenon
<1>5. QED
  BY <1>3, <1>4, OtherNewest, Zenon

LEMMA ChangeNewest ==
    ASSUME Known, NewestArrives, NEW t \in Services \cup {"ui"}, ChangeTune(t)
    PROVE  NewestArrives'
<1>1. t \in Threads
  BY DEF Threads
<1>2. PICK heard, n, lead : /\ heard = tune.listener /\ n = tune.version + 1
                            /\ lead = IF heard THEN Call("submit", "tune", n) ELSE NoCall
  OBVIOUS
<1>3. Leads[t] = NoCall /\ Kept /\ Turn(t, lead)
  BY <1>2, KnownIs, ChangeTurns, Zenon
<1>4. tune'.version = n
  BY <1>2, ChangeKnown, Zenon
<1>5. View("tune", t, heard) /\ UNCHANGED << screen, feeds, store, logs >>
  BY <1>2, Zenon DEF ChangeTune
<1>6. lead = IF heard THEN Call("submit", "tune", n) ELSE NoCall
  BY <1>2
<1>7. QED
  BY <1>1, <1>3, <1>4, <1>5, <1>6, TuneNewest

LEMMA TuneActiveNewest ==
    ASSUME Known, NewestArrives, NEW t \in Threads, TuneActive(t)
    PROVE  NewestArrives'
<1>1. PICK heard, n, lead : /\ heard = tune.listener /\ n = tune.version + 1
                            /\ lead = IF heard THEN Call("submit", "tune", n) ELSE NoCall
  OBVIOUS
<1>2. UNCHANGED << screen, feeds, store, logs >>
  BY Zenon DEF TuneActive
<1>3. /\ Leads[t] = NoCall /\ Kept
      /\ \/ UNCHANGED << tune, late >> /\ Turn(t, NoCall)
         \/ /\ tune' = [tune EXCEPT !.active = ~@, !.version = @ + 1]
            /\ View("tune", t, heard) /\ Turn(t, lead)
  BY <1>1, KnownIs, TuneActiveTurns, Zenon
<1>4. CASE UNCHANGED << tune, late >> /\ Turn(t, NoCall)
  <2>1. Steady
    BY <1>3, <1>4, TurnsSteady, Zenon
  <2>2. Unmoved
    BY <1>2, <1>3, <1>4, <2>1, Zenon DEF Unmoved, screen, feeds
  <2>3. QED
    BY <2>2, UnmovedRests, RestNewest, Zenon
<1>5. CASE tune' = [tune EXCEPT !.active = ~@, !.version = @ + 1] /\ View("tune", t, heard) /\ Turn(t, lead)
  <2>1. tune'.version = n
    <3>1. tune \in [version : Nat, active : BOOLEAN, listener : BOOLEAN, live : BOOLEAN]
      BY KnownIs DEF TuneModels
    <3>2. QED
      BY <1>1, <1>5, <3>1
  <2>2. lead = IF heard THEN Call("submit", "tune", n) ELSE NoCall
    BY <1>1
  <2>3. QED
    BY <1>2, <1>3, <1>5, <2>1, <2>2, TuneNewest
<1>6. QED
  BY <1>3, <1>4, <1>5, Zenon

LEMMA ListenNewest ==
    ASSUME Known, NewestArrives, NEW t \in Threads, SetTuneListener(t)
    PROVE  NewestArrives'
<1>1. PICK heard, n, lead : /\ heard = Now(t).arg /\ n = tune.version
                            /\ lead = IF heard THEN Call("submit", "tune", n) ELSE NoCall
  OBVIOUS
<1>2. UNCHANGED << screen, feeds, store, logs >> /\ View("tune", t, heard)
  BY <1>1, Zenon DEF SetTuneListener
<1>3. Leads[t] = NoCall /\ Kept /\ Turn(t, lead)
  BY <1>1, KnownIs, ListenTurns, Zenon
<1>4. tune'.version = n
  BY <1>1, ListenKnown, Zenon
<1>5. lead = IF heard THEN Call("submit", "tune", n) ELSE NoCall
  BY <1>1
<1>6. QED
  BY <1>2, <1>3, <1>4, <1>5, TuneNewest

LEMMA RenderNewest ==
    ASSUME Known, NewestArrives, Render
    PROVE  NewestArrives'
<1>1. PICK d, a, lead : d = Now("ui").on /\ a = Now("ui").arg /\ lead = Leads["ui"]
  OBVIOUS
<1>2. "ui" \in Threads
  BY DEF Threads
<1>3. /\ d \in Dispatchers /\ lead.op = "render" /\ lead.on = d /\ lead.arg = a
      /\ Kept /\ Turn("ui", NoCall)
  BY <1>1, KnownIs, RenderTurns, Zenon
<1>4. shown' = [shown EXCEPT ![d] = a] /\ UNCHANGED << queue, updates, renewed, feeds, tuning, frame, late >>
  BY <1>1, Zenon DEF Render
<1>5. /\ updates' = updates /\ vm' = vm /\ subs' = subs /\ late' = late
      /\ logs' = logs /\ store' = store /\ tune' = tune
  BY <1>4 DEF feeds, tuning
<1>6. shown'[d] = a /\ \A x \in Dispatchers \ {d} : shown'[x] = shown[x]
  BY <1>3, <1>4, ScreenDomains, OneChanges, Zenon
<1>7. Leads'["ui"] = NoCall /\ \A u \in Threads \ {"ui"} : Leads'[u] = Leads[u]
  BY <1>2, <1>3, TurnLeads, Zenon
<1>8. \A x : Renewing(x) /\ x \in Dispatchers => Renewing(x)'
  BY <1>3, <1>5, AllGoOn, KnownIs, Zenon
<1>9. \A x : ViewStays(x)
  BY <1>5, Zenon DEF ViewStays
<1>10. NewestFor(d)'
  <2>1. CASE late[d] \/ Renewing(d)
    BY <1>3, <1>5, <1>8, <2>1, NewestThen, Zenon
  <2>2. CASE Arrives(d)
    <3>1. PICK n, s, u, l, m : n = NewestView(d) /\ s = shown[d] /\ u = updates[d] /\ l = Leads /\ m = Leads'
      OBVIOUS
    <3>2. ArrivesIs(u, s, l, n, d)
      BY <2>2, <3>1, ArrivesBefore, Zenon
    <3>3. /\ l["ui"].op = "render" /\ l["ui"].on = d /\ l["ui"].arg = a
          /\ OneLead(l, m, "ui") /\ m["ui"] = NoCall
      BY <1>1, <1>3, <1>7, <3>1, Zenon DEF OneLead
    <3>4. ArrivesIs(u, a, m, n, d)
      <4>1. ArrivesIs(u, l["ui"].arg, m, n, d)
        BY <3>2, <3>3, ArrivesRendered, Zenon
      <4>2. QED
        BY <3>3, <4>1, Zenon
    <3>5. NewestView(d)' = n
      BY <1>9, <3>1, ViewStaysIs, Zenon
    <3>6. ArrivesIs(updates'[d], shown'[d], Leads', n, d)
      BY <1>5, <1>6, <3>1, <3>4, Zenon
    <3>7. QED
      BY <3>5, <3>6, ArrivesAfter, NewestThen, Zenon
  <2>3. QED
    BY <1>3, <2>1, <2>2, NewestIs, Zenon DEF NewestFor
<1>11. ASSUME NEW x \in Dispatchers, x # d PROVE Rests(x)
  <2>1. ~ToShow(Leads["ui"], x) /\ ~ToShow(NoCall, x)
    BY <1>1, <1>3, <1>11, GivingIs, Zenon DEF ToShow
  <2>2. AwayFrom(Leads, Leads', x)
    BY <1>2, <1>3, <2>1, TurnAway, Zenon
  <2>3. shown'[x] = shown[x]
    BY <1>6, <1>11, Zenon
  <2>4. QED
    BY <1>5, <1>8, <1>9, <1>11, <2>2, <2>3, Zenon DEF Rests
<1>12. QED
  BY <1>10, <1>11, OtherNewest, Zenon

\* Nothing is on its way, and the page shows its view.
LEMMA ArrivesShown ==
    ASSUME NEW u, ~u.pending, NEW s, NEW l, l["ui"] = NoCall, NEW d,
           \A t \in Threads : ~Giving(l[t], d)
    PROVE  ArrivesIs(u, s, l, s, d)
<1>1. ~(l["ui"].op = "render" /\ l["ui"].on = d)
  BY NoCallIs
<1>2. QED
  BY <1>1, Zenon DEF ArrivesIs

\* A page rests in a step that is none of it.
LEMMA AwayRests ==
    ASSUME NEW d, AwayFrom(Leads, Leads', d), UNCHANGED << updates, shown, late >>, ViewStays(d),
           Renewing(d) => Renewing(d)'
    PROVE  Rests(d)
<1>1. updates' = updates /\ shown' = shown /\ late' = late
  OBVIOUS
<1>2. QED
  BY <1>1, Zenon DEF Rests

LEMMA RefreshNewest ==
    ASSUME Known, NewestArrives, Refresh
    PROVE  NewestArrives'
<1>1. PICK v, late1 : v = Now("ui").on /\ late1 = (v = "live" \/ updates[v].pending \/ Holding(v, "ui"))
  OBVIOUS
<1>2. /\ v \in Monitors /\ v \in Dispatchers /\ v # "logs" /\ Steady /\ (Looking => Looking')
      /\ \A d : v # d => (Refreshing(d) => Refreshing(d)')
  BY <1>1, KnownIs, RefreshSteady, NoMonitor, Zenon
<1>3. /\ shown' = [shown EXCEPT ![v] = StateOf(IF v = "live" THEN NewMonitor({}) ELSE vm[v])]
      /\ late' = [late EXCEPT ![v] = late1]
      /\ UNCHANGED << queue, updates, renewed, feeds, tuning, frame >>
  BY <1>1, Zenon DEF Refresh
<1>4. /\ updates' = updates /\ vm' = vm /\ subs' = subs
      /\ logs' = logs /\ store' = store /\ tune' = tune
  BY <1>3 DEF feeds, tuning
<1>5. "ui" \in Threads /\ "refresh" \notin Urgent
  BY DEF Threads, Urgent
<1>6. Leads["ui"] = NoCall
  BY <1>5, KnownIs, AtHead, Zenon DEF Refresh
<1>7. Leads' = Leads
  BY <1>2, Zenon DEF Steady
<1>8. /\ shown'[v] = StateOf(IF v = "live" THEN NewMonitor({}) ELSE vm[v])
      /\ \A x \in Dispatchers \ {v} : shown'[x] = shown[x]
  BY <1>2, <1>3, ScreenDomains, OneChanges, Zenon
<1>9. late'[v] = late1 /\ \A x \in Dispatchers \ {v} : late'[x] = late[x]
  BY <1>2, <1>3, ScreenDomains, OneChanges, Zenon
<1>10. NewestFor(v)'
  <2>1. CASE late'[v]
    BY <2>1, NewestThen, Zenon
  <2>2. CASE ~late'[v]
    <3>1. v # "live" /\ ~updates[v].pending /\ ~Holding(v, "ui")
      BY <1>1, <1>9, <2>2
    <3>2. PICK n, u, m : n = StateOf(vm[v]) /\ u = updates'[v] /\ m = Leads'
      OBVIOUS
    <3>3. shown'[v] = n
      BY <1>8, <3>1, <3>2
    <3>4. NewestView(v)' = n
      BY <1>2, <1>4, <3>2, Zenon DEF NewestView
    <3>5. ~u.pending /\ m["ui"] = NoCall
      BY <1>4, <1>6, <1>7, <3>1, <3>2
    <3>6. ASSUME NEW x \in Threads PROVE ~Giving(m[x], v)
      <4>1. CASE x = "ui"
        BY <3>5, <4>1, GivingIs, Zenon DEF Giving, ToShow
      <4>2. CASE x # "ui"
        BY <1>7, <3>1, <3>2, <3>6, <4>2, OthersHolding, Zenon
      <4>3. QED
        BY <4>1, <4>2
    <3>7. ArrivesIs(u, n, m, n, v)
      BY <3>5, <3>6, ArrivesShown, Zenon
    <3>8. ArrivesIs(updates'[v], shown'[v], Leads', n, v)
      BY <3>2, <3>3, <3>7, Zenon
    <3>9. QED
      BY <3>4, <3>8, ArrivesAfter, NewestThen, Zenon
  <2>3. QED
    BY <2>1, <2>2
<1>11. ASSUME NEW x \in Dispatchers, x # v PROVE Rests(x)
  <2>1. AwayFrom(Leads, Leads', x)
    BY <1>2, SteadyAway, Zenon
  <2>2. ViewStays(x)
    BY <1>4, Zenon DEF ViewStays
  <2>3. shown'[x] = shown[x] /\ late'[x] = late[x]
    BY <1>8, <1>9, <1>11, Zenon
  <2>4. Renewing(x) => Renewing(x)'
    <3>1. CASE x = "logs"
      <4>1. logs.active /\ subs[logs.handle].box # << >> => subs'[logs.handle].box # << >>
        BY <1>4
      <4>2. LogsRenewed
        BY <1>2, <1>4, <4>1, Zenon DEF LogsRenewed
      <4>3. QED
        BY <3>1, <4>2, LogsGoOn, Zenon
    <3>2. CASE x # "logs"
      BY <1>2, <1>11, <3>2, OthersGoOn, Zenon
    <3>3. QED
      BY <3>1, <3>2
  <2>5. updates'[x] = updates[x]
    BY <1>4
  <2>6. QED
    BY <2>1, <2>2, <2>3, <2>4, <2>5, Zenon DEF Rests
<1>12. QED
  BY <1>10, <1>11, OtherNewest, Zenon

-----------------------------------------------------------------------------
(* Steps that change what a subscription carries.                          *)

\* Nothing that renews a page is lost with a frame of a view model's.
LEMMA OneGoesOn ==
    ASSUME Known, LogsKept, Kept, logs' = logs, NEW w \in Workers,
           ~Opened(w) \/ subs'[w].box # << >> \/ subs'[w].box = subs[w].box,
           \A u \in Workers \ {w} : subs'[u] = subs[u]
    PROVE  \A d \in Dispatchers : Renewing(d) => Renewing(d)'
<1>1. TAKE d \in Dispatchers
<1>2. HAVE Renewing(d)
<1>3. CASE d # "logs"
  BY <1>2, <1>3, OthersGoOn, Zenon DEF Kept
<1>4. CASE d = "logs"
  <2>1. ASSUME logs.active, subs[logs.handle].box # << >> PROVE subs'[logs.handle].box # << >>
    <3>1. logs.handle \in Workers /\ Opened(logs.handle)
      BY <2>1, KnownIs, LogsAre, Zenon
    <3>2. CASE logs.handle = w
      BY <2>1, <3>1, <3>2
    <3>3. CASE logs.handle # w
      BY <2>1, <3>1, <3>3
    <3>4. QED
      BY <3>2, <3>3
  <2>2. LogsRenewed
    BY <2>1, Zenon DEF LogsRenewed, Kept
  <2>3. QED
    BY <1>2, <1>4, <2>2, LogsGoOn, Zenon
<1>5. QED
  BY <1>3, <1>4

LEMMA DeliverNewest ==
    ASSUME Known, LogsKept, NewestArrives, NEW w \in Workers, Deliver(w)
    PROVE  NewestArrives'
<1>1. UNCHANGED << todo, screen, vm, received, tuning, nav, app, late >>
  BY Zenon DEF Deliver
<1>2. /\ updates' = updates /\ shown' = shown /\ late' = late /\ vm' = vm
      /\ logs' = logs /\ store' = store /\ tune' = tune /\ todo' = todo /\ app' = app
  BY <1>1 DEF screen, tuning
<1>3. Steady /\ Kept
  BY <1>2, KnownIs, UnmovedSteady, Zenon
<1>4. subs'[w].box # << >> /\ \A u \in Workers \ {w} : subs'[u] = subs[u]
  BY DeliverEffect, Zenon
<1>5. \A d \in Dispatchers : Renewing(d) => Renewing(d)'
  BY <1>2, <1>3, <1>4, OneGoesOn, Zenon
<1>6. ASSUME NEW d \in Dispatchers PROVE Rests(d)
  <2>1. AwayFrom(Leads, Leads', d)
    BY <1>3, SteadyAway, Zenon
  <2>2. ViewStays(d)
    BY <1>2, Zenon DEF ViewStays
  <2>3. UNCHANGED << updates, shown, late >>
    BY <1>2
  <2>4. QED
    BY <1>5, <2>1, <2>2, <2>3, AwayRests, Zenon
<1>7. QED
  BY <1>6, RestNewest, Zenon

LEMMA StopNewest ==
    ASSUME Known, NewestArrives, StopTelemetry
    PROVE  NewestArrives'
<1>1. UNCHANGED << screen, vm, received, tuning, nav, left, clock, late >>
  BY Zenon DEF StopTelemetry
<1>2. /\ updates' = updates /\ shown' = shown /\ late' = late /\ vm' = vm
      /\ logs' = logs /\ store' = store /\ tune' = tune
  BY <1>1 DEF screen, tuning
<1>3. Steady /\ Kept
  BY KnownIs, StopSteady, Zenon
<1>4. \A u \in Workers : subs'[u].box = subs[u].box
  BY StopEffect, Zenon
<1>5. \A d \in Dispatchers : Renewing(d) => Renewing(d)'
  <2>1. \A u \in Workers : subs[u].box # << >> => subs'[u].box # << >>
    BY <1>4
  <2>2. QED
    BY <1>2, <1>3, <2>1, AllGoOn, KnownIs, Zenon
<1>6. ASSUME NEW d \in Dispatchers PROVE Rests(d)
  <2>1. AwayFrom(Leads, Leads', d)
    BY <1>3, SteadyAway, Zenon
  <2>2. ViewStays(d)
    BY <1>2, Zenon DEF ViewStays
  <2>3. UNCHANGED << updates, shown, late >>
    BY <1>2
  <2>4. QED
    BY <1>5, <2>1, <2>2, <2>3, AwayRests, Zenon
<1>7. QED
  BY <1>6, RestNewest, Zenon

\* A page of readings gets its newest view with a frame.
LEMMA ConsumeNewest ==
    ASSUME Known, LogsKept, NewestArrives, NEW w \in Workers, Consume(w)
    PROVE  NewestArrives'
<1>1. PICK v, samples, n, heard, lead :
        /\ v = subs[w].owner /\ samples = subs[w].box[1] /\ n = StateOf(vm'[v])
        /\ heard = Listens(v) /\ lead = IF heard THEN Call("submit", v, n) ELSE NoCall
  OBVIOUS
<1>2. UNCHANGED << screen, tuning, frame >> /\ View(v, w, heard)
  BY <1>1, Zenon DEF Consume
<1>3. /\ updates' = updates /\ shown' = shown
      /\ logs' = logs /\ store' = store /\ tune' = tune
  BY <1>2 DEF screen, tuning
<1>4. /\ v \in Monitors /\ vm' \in [Monitors -> MonitorModels] /\ subs[w].owner = v
      /\ \A u \in Workers \ {w} : subs'[u] = subs[u]
      /\ \A x \in Monitors \ {v} : vm'[x] = vm[x]
  BY <1>1, ConsumeEffect
<1>5. w \in Threads /\ v \in Dispatchers
  BY <1>4, WorkersAre, NoMonitor, Zenon
<1>6. Leads[w] = NoCall /\ Kept /\ Turn(w, lead)
  BY <1>1, <1>4, KnownIs, ConsumeTurns, Zenon
<1>7. NewestFor(v)'
  <2>1. NewestView(v)' = n
    BY <1>1, <1>4, Zenon DEF NewestView
  <2>2. heard => lead = Call("submit", v, n)
    BY <1>1
  <2>3. View(v, w, heard)
    BY <1>2
  <2>4. QED
    BY <1>5, <1>6, <2>1, <2>2, <2>3, Viewed
<1>8. \A d \in Dispatchers : Renewing(d) => Renewing(d)'
  <2>1. ~Opened(w)
    BY <1>4, NoMonitor, Zenon DEF Opened
  <2>2. QED
    BY <1>3, <1>4, <1>6, <2>1, OneGoesOn, Zenon
<1>9. ASSUME NEW x \in Dispatchers, x # v PROVE Rests(x)
  <2>1. ~ToShow(lead, x)
    BY <1>1, <1>9, SubmitElsewhere, Zenon
  <2>2. ViewStays(x)
    BY <1>3, <1>4, <1>9, Zenon DEF ViewStays
  <2>3. late[x] => late'[x]
    BY <1>2, <1>5, <1>9, KnownIs, ViewIs, Zenon
  <2>4. UNCHANGED << updates, shown >>
    BY <1>3
  <2>5. QED
    BY <1>5, <1>6, <1>8, <1>9, <2>1, <2>2, <2>3, <2>4, OtherRests, Zenon
<1>10. QED
  BY <1>7, <1>9, OtherNewest, Zenon

\* A choice of metrics is followed by a refresh.
LEMMA ChooseNewest ==
    ASSUME Known, NewestArrives, NEW t \in Threads, SetMetricIDs(t)
    PROVE  NewestArrives'
<1>1. PICK v : v = Now(t).on
  OBVIOUS
<1>2. UNCHANGED << screen, subs, received, tuning, frame, late >>
  BY Zenon DEF SetMetricIDs
<1>3. /\ updates' = updates /\ shown' = shown /\ late' = late /\ subs' = subs
      /\ logs' = logs /\ store' = store /\ tune' = tune
  BY <1>2 DEF screen, tuning
<1>4. v \in Monitors /\ v # "logs" /\ Steady /\ Kept /\ Refreshing(v)'
  BY <1>1, KnownIs, ChooseSteady, NoMonitor, Zenon
<1>5. \A x \in Monitors \ {v} : vm'[x] = vm[x]
  BY <1>1, ChooseEffect, Zenon
<1>6. NewestFor(v)'
  <2>1. Renewing(v)'
    BY <1>4, Zenon DEF Renewing
  <2>2. QED
    BY <2>1, NewestThen, Zenon
<1>7. \A d \in Dispatchers : Renewing(d) => Renewing(d)'
  BY <1>3, <1>4, AllGoOn, KnownIs, Zenon
<1>8. ASSUME NEW x \in Dispatchers, x # v PROVE Rests(x)
  <2>1. AwayFrom(Leads, Leads', x)
    BY <1>4, SteadyAway, Zenon
  <2>2. ViewStays(x)
    BY <1>3, <1>5, <1>8, Zenon DEF ViewStays
  <2>3. UNCHANGED << updates, shown, late >>
    BY <1>3
  <2>4. QED
    BY <1>7, <2>1, <2>2, <2>3, AwayRests, Zenon
<1>9. QED
  BY <1>6, <1>8, OtherNewest, Zenon

LEMMA LogsRenewedThen ==
    ASSUME ~logs'.active \/ subs'[logs'.handle].box # << >> \/ Looking'
    PROVE  NewestFor("logs")'
<1>1. Renewing("logs")'
  BY Zenon DEF Renewing
<1>2. QED
  BY <1>1, NewestThen, Zenon

\* An event wakes the reader of an active Logs page.
LEMMA AppendNewest ==
    ASSUME Known, LogsKept, NewestArrives, AppendEvent
    PROVE  NewestArrives'
<1>1. UNCHANGED << todo, screen, vm, received, logs, tune, nav, app, clock, late >>
  BY Zenon DEF AppendEvent
<1>2. /\ updates' = updates /\ shown' = shown /\ late' = late /\ vm' = vm
      /\ logs' = logs /\ tune' = tune /\ todo' = todo /\ app' = app
  BY <1>1 DEF screen
<1>3. Steady /\ Kept
  BY <1>2, KnownIs, UnmovedSteady, Zenon
<1>4. NewestFor("logs")'
  <2>1. CASE ~logs.active
    BY <1>2, <2>1, LogsRenewedThen, Zenon
  <2>2. CASE logs.active
    <3>1. logs.handle \in Workers /\ Opened(logs.handle)
      BY <2>2, KnownIs, LogsAre, Zenon
    <3>2. subs'[logs.handle].box # << >>
      BY <3>1, AppendEffect, Zenon DEF Opened
    <3>3. subs'[logs'.handle].box # << >>
      BY <1>2, <3>2
    <3>4. QED
      BY <3>3, LogsRenewedThen, Zenon
  <2>3. QED
    BY <2>1, <2>2
<1>5. ASSUME NEW x \in Dispatchers, x # "logs" PROVE Rests(x)
  <2>1. AwayFrom(Leads, Leads', x)
    BY <1>3, SteadyAway, Zenon
  <2>2. ViewStays(x)
    BY <1>2, <1>5, Zenon DEF ViewStays
  <2>3. UNCHANGED << updates, shown, late >>
    BY <1>2
  <2>4. Renewing(x) => Renewing(x)'
    BY <1>3, <1>5, OthersGoOn, Zenon DEF Kept
  <2>5. QED
    BY <2>1, <2>2, <2>3, <2>4, AwayRests, Zenon
<1>6. QED
  BY <1>4, <1>5, OtherNewest, Zenon

\* The reader of the events looks at them once it has taken what woke it.
LEMMA TakeNewest ==
    ASSUME Known, NewestArrives, NEW w \in Workers, TakeEvent(w)
    PROVE  NewestArrives'
<1>1. UNCHANGED << screen, vm, received, tuning, frame, late >>
  BY Zenon DEF TakeEvent
<1>2. /\ updates' = updates /\ shown' = shown /\ late' = late /\ vm' = vm
      /\ logs' = logs /\ store' = store /\ tune' = tune
  BY <1>1 DEF screen, tuning
<1>3. Steady /\ Kept /\ Looking'
  BY KnownIs, TakeSteady, Zenon
<1>4. NewestFor("logs")'
  BY <1>3, LogsRenewedThen, Zenon
<1>5. ASSUME NEW x \in Dispatchers, x # "logs" PROVE Rests(x)
  <2>1. AwayFrom(Leads, Leads', x)
    BY <1>3, SteadyAway, Zenon
  <2>2. ViewStays(x)
    BY <1>2, Zenon DEF ViewStays
  <2>3. UNCHANGED << updates, shown, late >>
    BY <1>2
  <2>4. Renewing(x) => Renewing(x)'
    BY <1>3, <1>5, OthersGoOn, Zenon DEF Kept
  <2>5. QED
    BY <2>1, <2>2, <2>3, <2>4, AwayRests, Zenon
<1>6. QED
  BY <1>4, <1>5, OtherNewest, Zenon

LEMMA FeedNewest ==
    ASSUME Known, LogsKept, NewestArrives, FeedStep
    PROVE  NewestArrives'
BY AppendNewest, StopNewest, ChooseNewest, DeliverNewest, ConsumeNewest, TakeNewest, Zenon DEF FeedStep

-----------------------------------------------------------------------------
(* Steps that give out or take back a subscription.                        *)

LEMMA LinkAway ==
    ASSUME NEW t \in Threads, NEW lead, Turn(t, lead), NEW call, Leads[t] = call,
           call.op \in Links, lead.op \in Links, NEW d
    PROVE  AwayFrom(Leads, Leads', d)
<1>1. ~ToShow(call, d) /\ ~ToShow(lead, d)
  BY DEF Links, ToShow
<1>2. QED
  BY <1>1, TurnAway, Zenon

LEMMA LinkOps ==
  \A v, w : /\ NoCall.op \in Links /\ Call("close", v, w).op \in Links
            /\ Call("await", v, w).op \in Links
BY NoCallIs, CallIs DEF Links

\* A page rests in such a step when its view model has the same.
LEMMA LinkRests ==
    ASSUME Known, LinkStep, NEW d \in Dispatchers, AwayFrom(Leads, Leads', d),
           \A x \in Monitors : /\ vm'[x].metrics = vm[x].metrics /\ vm'[x].current = vm[x].current
                               /\ vm'[x].rings = vm[x].rings,
           Renewing(d) => Renewing(d)'
    PROVE  Rests(d)
<1>1. UNCHANGED << screen, frame, late, received, store, tune >>
  BY LinkStill, Zenon
<1>2. updates' = updates /\ shown' = shown /\ late' = late /\ store' = store /\ tune' = tune
  BY <1>1 DEF screen
<1>3. ViewStays(d)
  BY <1>2, Zenon DEF ViewStays
<1>4. UNCHANGED << updates, shown, late >>
  BY <1>2
<1>5. QED
  BY <1>3, <1>4, AwayRests, Zenon

LEMMA UpNewest ==
    ASSUME Known, LogsKept, NewestArrives, NEW t \in Threads, MonitorUp(t)
    PROVE  NewestArrives'
<1>1. LinkStep
  BY Zenon DEF LinkStep
<1>2. UNCHANGED << screen, received, tuning, frame, late >>
  BY Zenon DEF MonitorUp
<1>3. logs' = logs
  BY <1>2 DEF tuning
<1>4. Steady /\ Kept
  BY KnownIs, UpSteady, Zenon
<1>5. PICK v : v = Now(t).on
  OBVIOUS
<1>6. \/ vm' = vm /\ subs' = subs
      \/ \E w \in Workers :
           /\ subs[w].status = "free"
           /\ vm'[v].metrics = vm[v].metrics /\ vm'[v].current = vm[v].current
           /\ vm'[v].rings = vm[v].rings
           /\ \A x \in Monitors \ {v} : vm'[x] = vm[x]
           /\ \A u \in Workers \ {w} : subs'[u] = subs[u]
  BY <1>5, UpEffect
<1>7. \A x \in Monitors : /\ vm'[x].metrics = vm[x].metrics /\ vm'[x].current = vm[x].current
                          /\ vm'[x].rings = vm[x].rings
  BY <1>6, Zenon
<1>8. \A d \in Dispatchers : Renewing(d) => Renewing(d)'
  <2>1. CASE subs' = subs
    BY <1>3, <1>4, <2>1, AllGoOn, KnownIs, Zenon
  <2>2. ASSUME NEW w \in Workers, subs[w].status = "free", \A u \in Workers \ {w} : subs'[u] = subs[u]
        PROVE  \A d \in Dispatchers : Renewing(d) => Renewing(d)'
    <3>1. ~Opened(w)
      BY <2>2 DEF Opened
    <3>2. QED
      BY <1>3, <1>4, <2>2, <3>1, OneGoesOn, Zenon
  <2>3. QED
    BY <1>6, <2>1, <2>2, Zenon
<1>9. ASSUME NEW d \in Dispatchers PROVE Rests(d)
  <2>1. AwayFrom(Leads, Leads', d)
    BY <1>4, SteadyAway, Zenon
  <2>2. QED
    BY <1>1, <1>7, <1>8, <2>1, LinkRests, Zenon
<1>10. QED
  BY <1>9, RestNewest, Zenon

LEMMA DownNewest ==
    ASSUME Known, NewestArrives, NEW t \in Threads, MonitorDown(t)
    PROVE  NewestArrives'
<1>1. LinkStep
  BY Zenon DEF LinkStep
<1>2. UNCHANGED << screen, subs, received, tuning, frame, late >>
  BY Zenon DEF MonitorDown
<1>3. logs' = logs /\ subs' = subs
  BY <1>2 DEF tuning
<1>4. PICK v, lead : v = Now(t).on /\ lead = IF vm[v].active THEN Call("close", v, vm[v].handle) ELSE NoCall
  OBVIOUS
<1>5. Leads[t] = NoCall /\ Kept /\ Turn(t, lead)
  BY <1>4, KnownIs, DownTurns, Zenon
<1>6. lead.op \in Links /\ NoCall.op \in Links
  BY <1>4, LinkOps, Zenon
<1>7. \/ vm' = vm
      \/ /\ vm'[v].metrics = vm[v].metrics /\ vm'[v].current = vm[v].current
         /\ vm'[v].rings = vm[v].rings
         /\ \A x \in Monitors \ {v} : vm'[x] = vm[x]
  BY <1>4, DownEffect
<1>8. \A x \in Monitors : /\ vm'[x].metrics = vm[x].metrics /\ vm'[x].current = vm[x].current
                          /\ vm'[x].rings = vm[x].rings
  BY <1>7, Zenon
<1>9. \A d \in Dispatchers : Renewing(d) => Renewing(d)'
  BY <1>3, <1>5, AllGoOn, KnownIs, Zenon
<1>10. ASSUME NEW d \in Dispatchers PROVE Rests(d)
  <2>1. AwayFrom(Leads, Leads', d)
    BY <1>5, <1>6, LinkAway, Zenon
  <2>2. QED
    BY <1>1, <1>8, <1>9, <2>1, LinkRests, Zenon
<1>11. QED
  BY <1>10, RestNewest, Zenon

LEMMA OneLinkNewest ==
    ASSUME Known, LogsKept, NewestArrives, LinkStep, UNCHANGED << vm, logs >>, Kept,
           \A d \in Dispatchers : AwayFrom(Leads, Leads', d), NEW w \in Workers,
           ~Opened(w) \/ subs'[w].box = subs[w].box, \A u \in Workers \ {w} : subs'[u] = subs[u]
    PROVE  NewestArrives'
<1>1. vm' = vm /\ logs' = logs
  OBVIOUS
<1>2. \A d \in Dispatchers : Renewing(d) => Renewing(d)'
  BY <1>1, OneGoesOn, Zenon
<1>3. \A x \in Monitors : /\ vm'[x].metrics = vm[x].metrics /\ vm'[x].current = vm[x].current
                          /\ vm'[x].rings = vm[x].rings
  BY <1>1
<1>4. \A d \in Dispatchers : Rests(d)
  BY <1>2, <1>3, LinkRests, Zenon
<1>5. QED
  BY <1>4, RestNewest, Zenon

LEMMA CloseNewest ==
    ASSUME Known, LogsKept, NewestArrives, NEW t \in Threads, CloseHandle(t)
    PROVE  NewestArrives'
<1>1. LinkStep
  BY Zenon DEF LinkStep
<1>2. UNCHANGED << screen, vm, received, tuning, frame, late >>
  BY Zenon DEF CloseHandle
<1>3. UNCHANGED << vm, logs >>
  BY <1>2 DEF tuning
<1>4. PICK v, w, call, lead : /\ v = Now(t).on /\ w = Now(t).arg /\ call = Call("close", v, w)
                              /\ lead = IF v \in Monitors THEN Call("await", v, w) ELSE NoCall
  OBVIOUS
<1>5. w \in Workers /\ Leads[t] = call /\ Kept /\ Turn(t, lead)
  BY <1>4, KnownIs, CloseTurns
<1>6. call.op \in Links /\ lead.op \in Links
  BY <1>4, LinkOps, Zenon
<1>7. \A d \in Dispatchers : AwayFrom(Leads, Leads', d)
  BY <1>5, <1>6, LinkAway, Zenon
<1>8. subs'[w].box = subs[w].box /\ \A u \in Workers \ {w} : subs'[u] = subs[u]
  BY <1>4, CloseEffect, Zenon
<1>9. QED
  BY <1>1, <1>3, <1>5, <1>7, <1>8, OneLinkNewest, Zenon

LEMMA AwaitNewest ==
    ASSUME Known, LogsKept, NewestArrives, NEW t \in Threads, Await(t)
    PROVE  NewestArrives'
<1>1. LinkStep
  BY Zenon DEF LinkStep
<1>2. UNCHANGED << screen, vm, received, tuning, frame, late >>
  BY Zenon DEF Await
<1>3. UNCHANGED << vm, logs >>
  BY <1>2 DEF tuning
<1>4. PICK v, w, call : v = Now(t).on /\ w = Now(t).arg /\ call = Call("await", v, w)
  OBVIOUS
<1>5. w \in Workers /\ Leads[t] = call /\ Kept /\ Turn(t, NoCall)
  BY <1>4, KnownIs, AwaitTurns
<1>6. call.op \in Links /\ NoCall.op \in Links
  BY <1>4, LinkOps, Zenon
<1>7. \A d \in Dispatchers : AwayFrom(Leads, Leads', d)
  BY <1>5, <1>6, LinkAway, Zenon
<1>8. \A u \in Workers \ {w} : subs'[u] = subs[u]
  BY <1>4, AwaitEffect, Zenon
<1>9. subs[w].status = "done"
  BY <1>4, Zenon DEF Await
<1>10. ~Opened(w)
  BY <1>9 DEF Opened
<1>11. QED
  BY <1>1, <1>3, <1>5, <1>7, <1>8, <1>10, OneLinkNewest, Zenon

LEMMA GoNewest ==
    ASSUME Known, LogsKept, NewestArrives, NEW t \in Threads, Go(t)
    PROVE  NewestArrives'
<1>1. LinkStep
  BY Zenon DEF LinkStep
<1>2. UNCHANGED << screen, vm, received, tuning, frame, late >>
  BY Zenon DEF Go
<1>3. UNCHANGED << vm, logs >>
  BY <1>2 DEF tuning
<1>4. PICK w : w = Now(t).arg
  OBVIOUS
<1>5. Steady /\ Kept
  BY KnownIs, GoSteady, Zenon
<1>6. \A d \in Dispatchers : AwayFrom(Leads, Leads', d)
  BY <1>5, SteadyAway, Zenon
<1>7. w \in Workers /\ subs'[w].box = subs[w].box /\ \A u \in Workers \ {w} : subs'[u] = subs[u]
  BY <1>4, GoEffect, Zenon
<1>8. QED
  BY <1>1, <1>3, <1>5, <1>6, <1>7, OneLinkNewest, Zenon

LEMMA EndNewest ==
    ASSUME Known, LogsKept, NewestArrives, NEW w \in Workers, EndSubscription(w)
    PROVE  NewestArrives'
<1>1. LinkStep
  BY Zenon DEF LinkStep
<1>2. UNCHANGED << todo, screen, vm, received, tuning, frame, late >>
  BY Zenon DEF EndSubscription
<1>3. UNCHANGED << vm, logs >> /\ todo' = todo /\ app' = app
  BY <1>2 DEF tuning, frame
<1>4. Steady /\ Kept
  BY <1>3, KnownIs, UnmovedSteady, Zenon
<1>5. \A d \in Dispatchers : AwayFrom(Leads, Leads', d)
  BY <1>4, SteadyAway, Zenon
<1>6. subs'[w].box = << >> /\ subs[w].box = << >> /\ \A u \in Workers \ {w} : subs'[u] = subs[u]
  BY EndEffect, Zenon
<1>7. subs'[w].box = subs[w].box
  BY <1>6
<1>8. QED
  BY <1>1, <1>3, <1>4, <1>5, <1>6, <1>7, OneLinkNewest, Zenon

\* An activated Logs page looks at the events; nothing is required of one that is left.
LEMMA LogsUpNewest ==
    ASSUME Known, NewestArrives, NEW t \in Threads, LogsUp(t)
    PROVE  NewestArrives'
<1>1. LinkStep
  BY Zenon DEF LinkStep
<1>2. Steady /\ Kept /\ (~logs.active => Looking')
  BY KnownIs, LogsUpSteady, Zenon
<1>3. vm' = vm /\ (logs.active => logs' = logs /\ subs' = subs)
  BY LogsUpEffect
<1>4. \A x \in Monitors : /\ vm'[x].metrics = vm[x].metrics /\ vm'[x].current = vm[x].current
                          /\ vm'[x].rings = vm[x].rings
  BY <1>3
<1>5. \A d \in Dispatchers : AwayFrom(Leads, Leads', d)
  BY <1>2, SteadyAway, Zenon
<1>6. ASSUME NEW d \in Dispatchers, Renewing(d) => Renewing(d)' PROVE Rests(d)
  BY <1>1, <1>4, <1>5, <1>6, LinkRests, Zenon
<1>7. CASE logs.active
  <2>1. \A d \in Dispatchers : Renewing(d) => Renewing(d)'
    <3>1. logs' = logs /\ \A u \in Workers : subs[u].box # << >> => subs'[u].box # << >>
      BY <1>3, <1>7
    <3>2. QED
      BY <1>2, <3>1, AllGoOn, KnownIs, Zenon
  <2>2. QED
    BY <1>6, <2>1, RestNewest, Zenon
<1>8. CASE ~logs.active
  <2>1. NewestFor("logs")'
    BY <1>2, <1>8, LogsRenewedThen, Zenon
  <2>2. ASSUME NEW x \in Dispatchers, x # "logs" PROVE Rests(x)
    <3>1. Renewing(x) => Renewing(x)'
      BY <1>2, <2>2, OthersGoOn, Zenon DEF Kept
    <3>2. QED
      BY <1>6, <2>2, <3>1, Zenon
  <2>3. QED
    BY <2>1, <2>2, OtherNewest, Zenon
<1>9. QED
  BY <1>7, <1>8

LEMMA LogsDownNewest ==
    ASSUME Known, NewestArrives, NEW t \in Threads, LogsDown(t)
    PROVE  NewestArrives'
<1>1. LinkStep
  BY Zenon DEF LinkStep
<1>2. UNCHANGED << screen, feeds, store, tune, frame, late >>
  BY Zenon DEF LogsDown
<1>3. vm' = vm /\ subs' = subs
  BY <1>2 DEF feeds
<1>4. PICK lead : lead = IF logs.active THEN Call("close", "logs", logs.handle) ELSE NoCall
  OBVIOUS
<1>5. Leads[t] = NoCall /\ Kept /\ Turn(t, lead)
  BY <1>4, KnownIs, LogsDownTurns, Zenon
<1>6. lead.op \in Links /\ NoCall.op \in Links
  BY <1>4, LinkOps, Zenon
<1>7. \A d \in Dispatchers : AwayFrom(Leads, Leads', d)
  BY <1>5, <1>6, LinkAway, Zenon
<1>8. \A x \in Monitors : /\ vm'[x].metrics = vm[x].metrics /\ vm'[x].current = vm[x].current
                          /\ vm'[x].rings = vm[x].rings
  BY <1>3
<1>9. ASSUME NEW d \in Dispatchers, Renewing(d) => Renewing(d)' PROVE Rests(d)
  BY <1>1, <1>7, <1>8, <1>9, LinkRests, Zenon
<1>10. CASE ~logs.active
  <2>1. \A d \in Dispatchers : Renewing(d) => Renewing(d)'
    <3>1. logs' = logs /\ \A u \in Workers : subs[u].box # << >> => subs'[u].box # << >>
      BY <1>3, <1>10, LogsDownEffect, Zenon
    <3>2. QED
      BY <1>5, <3>1, AllGoOn, KnownIs, Zenon
  <2>2. QED
    BY <1>9, <2>1, RestNewest, Zenon
<1>11. CASE logs.active
  <2>1. NewestFor("logs")'
    BY <1>11, LogsDownEffect, LogsRenewedThen, Zenon
  <2>2. ASSUME NEW x \in Dispatchers, x # "logs" PROVE Rests(x)
    <3>1. Renewing(x) => Renewing(x)'
      BY <1>5, <2>2, OthersGoOn, Zenon DEF Kept
    <3>2. QED
      BY <1>9, <2>2, <3>1, Zenon
  <2>3. QED
    BY <2>1, <2>2, OtherNewest, Zenon
<1>12. QED
  BY <1>10, <1>11

LEMMA LinkNewest ==
    ASSUME Known, LogsKept, NewestArrives, LinkStep
    PROVE  NewestArrives'
BY UpNewest, DownNewest, CloseNewest, AwaitNewest, LogsUpNewest, LogsDownNewest, GoNewest, EndNewest,
   Zenon DEF LinkStep

-----------------------------------------------------------------------------
(* Steps of a dispatcher.                                                  *)

LEMMA OneAway ==
    ASSUME NEW l, NEW m, NEW t, OneLead(l, m, t), NEW d, ~ToShow(l[t], d), ~ToShow(m[t], d)
    PROVE  AwayFrom(l, m, d)
BY Zenon DEF OneLead, AwayFrom

LEMMA HandsGoOn ==
    ASSUME Known, Kept, UNCHANGED << feeds, tuning >>
    PROVE  /\ \A d \in Dispatchers : Renewing(d) => Renewing(d)'
           /\ \A d : ViewStays(d)
<1>1. vm' = vm /\ subs' = subs /\ logs' = logs /\ store' = store /\ tune' = tune
  BY DEF feeds, tuning
<1>2. \A d \in Dispatchers : Renewing(d) => Renewing(d)'
  BY <1>1, AllGoOn, KnownIs, Zenon
<1>3. \A d : ViewStays(d)
  BY <1>1, Zenon DEF ViewStays
<1>4. QED
  BY <1>2, <1>3

\* What arrives after such a step if it did before.
LEMMA HandsArrive ==
    ASSUME NEW d, ViewStays(d), late[d] => late'[d], Renewing(d) => Renewing(d)', NewestFor(d),
           \A u, s, l, n : u = updates[d] /\ s = shown[d] /\ l = Leads /\ ArrivesIs(u, s, l, n, d) =>
             ArrivesIs(updates'[d], shown'[d], Leads', n, d)
    PROVE  NewestFor(d)'
<1>1. CASE late[d] \/ Renewing(d)
  BY <1>1, NewestThen, Zenon
<1>2. CASE Arrives(d)
  <2>1. PICK n : n = NewestView(d)
    OBVIOUS
  <2>2. ArrivesIs(updates'[d], shown'[d], Leads', n, d)
    BY <1>2, <2>1, ArrivesBefore, Zenon
  <2>3. NewestView(d)' = n
    BY <2>1, ViewStaysIs, Zenon
  <2>4. QED
    BY <2>2, <2>3, ArrivesAfter, NewestThen, Zenon
<1>3. QED
  BY <1>1, <1>2, Zenon DEF NewestFor

LEMMA SubmitNewest ==
    ASSUME Known, NewestArrives, NEW t \in Threads, Submit(t)
    PROVE  NewestArrives'
<1>1. PICK d, a, lead : d = Now(t).on /\ a = Now(t).arg /\ lead = Leads[t]
  OBVIOUS
<1>2. /\ d \in Dispatchers /\ updates[d] \in LatestDispatchers
      /\ lead.op = "submit" /\ lead.on = d /\ lead.arg = a
      /\ updates'[d] = Submitted(updates[d], a)
      /\ late'[d] <=> late[d] \/ ~updates[d].active
      /\ \A x \in Dispatchers \ {d} : updates'[x] = updates[x] /\ late'[x] = late[x]
      /\ updates[d].active /\ ~updates[d].pending =>
           Leads'[t] = Call("dispatch", d, updates[d].epoch)
      /\ ~(updates[d].active /\ ~updates[d].pending) => Leads'[t] = NoCall
      /\ \A u \in Threads \ {t} : Leads'[u] = Leads[u]
      /\ Kept /\ UNCHANGED << queue, shown, feeds, tuning, frame >>
  BY <1>1, SubmitEffect
<1>3. shown' = shown /\ UNCHANGED << feeds, tuning >>
  BY <1>2
<1>4. \A x : ~ToShow(Leads'[t], x)
  <2>1. \A x : ~ToShow(Call("dispatch", d, updates[d].epoch), x) /\ ~ToShow(NoCall, x)
    BY CallIs, GivingIs DEF ToShow
  <2>2. Leads'[t] = Call("dispatch", d, updates[d].epoch) \/ Leads'[t] = NoCall
    BY <1>2, Zenon
  <2>3. QED
    BY <2>1, <2>2, Zenon
<1>5. OneLead(Leads, Leads', t)
  BY <1>2, Zenon DEF OneLead
<1>6. /\ \A x \in Dispatchers : Renewing(x) => Renewing(x)'
      /\ \A x : ViewStays(x)
  BY <1>2, <1>3, HandsGoOn, Zenon
<1>7. NewestFor(d)'
  <2>1. CASE ~updates[d].active
    BY <1>2, <2>1, NewestThen, Zenon
  <2>2. CASE updates[d].active
    <3>1. updates'[d].pending /\ updates'[d].latest = a
      BY <1>2, <2>2, SubmittedIs
    <3>2. ASSUME NEW u, NEW s, NEW l, NEW n, u = updates[d], s = shown[d], l = Leads,
                 ArrivesIs(u, s, l, n, d)
          PROVE  ArrivesIs(updates'[d], shown'[d], Leads', n, d)
      <4>1. PICK v, m : v = updates'[d] /\ m = Leads'
        OBVIOUS
      <4>2. Giving(l[t], d) /\ v.pending /\ v.latest = l[t].arg
        BY <1>1, <1>2, <3>1, <3>2, <4>1 DEF Giving
      <4>3. OneLead(l, m, t) /\ ~ToShow(m[t], d)
        BY <1>4, <1>5, <3>2, <4>1
      <4>4. ArrivesIs(v, s, m, n, d)
        BY <3>2, <4>2, <4>3, ArrivesSubmitted
      <4>5. QED
        BY <1>3, <3>2, <4>1, <4>4
    <3>3. late[d] => late'[d]
      BY <1>2
    <3>4. NewestFor(d)
      BY <1>2, NewestIs, Zenon
    <3>5. QED
      BY <1>2, <1>6, <3>2, <3>3, <3>4, HandsArrive, Zenon
  <2>3. QED
    BY <2>1, <2>2
<1>8. ASSUME NEW x \in Dispatchers, x # d PROVE Rests(x)
  <2>1. ~ToShow(Leads[t], x)
    BY <1>1, <1>2, <1>8 DEF ToShow
  <2>2. AwayFrom(Leads, Leads', x)
    BY <1>4, <1>5, <2>1, OneAway, Zenon
  <2>3. updates'[x] = updates[x] /\ late'[x] = late[x] /\ shown'[x] = shown[x]
    BY <1>2, <1>3, <1>8
  <2>4. QED
    BY <1>6, <2>2, <2>3, Zenon DEF Rests
<1>9. QED
  BY <1>7, <1>8, OtherNewest, Zenon

LEMMA DispatchNewest ==
    ASSUME Known, NewestArrives, NEW t \in Threads, Dispatch(t)
    PROVE  NewestArrives'
<1>1. PICK d, e, lead : d = Now(t).on /\ e = Now(t).arg /\ lead = Call("dispatch", d, e)
  OBVIOUS
<1>2. /\ Leads[t] = lead /\ Leads'[t] = NoCall /\ \A u \in Threads \ {t} : Leads'[u] = Leads[u]
      /\ Kept /\ UNCHANGED << updates, shown, renewed, feeds, tuning, frame, late >>
  BY <1>1, DispatchEffect, Zenon
<1>3. UNCHANGED << updates, shown, late >> /\ UNCHANGED << feeds, tuning >>
  BY <1>2
<1>4. /\ \A x \in Dispatchers : Renewing(x) => Renewing(x)'
      /\ \A x : ViewStays(x)
  BY <1>2, <1>3, HandsGoOn, Zenon
<1>5. OneLead(Leads, Leads', t)
  BY <1>2, Zenon DEF OneLead
<1>6. ASSUME NEW x \in Dispatchers PROVE Rests(x)
  <2>1. ~ToShow(lead, x) /\ ~ToShow(NoCall, x)
    BY <1>1, CallIs, GivingIs DEF ToShow
  <2>2. AwayFrom(Leads, Leads', x)
    BY <1>2, <1>5, <2>1, OneAway, Zenon
  <2>3. QED
    BY <1>3, <1>4, <2>2, AwayRests, Zenon
<1>7. QED
  BY <1>6, RestNewest, Zenon

\* The callback of a dispatcher finds a view pending.
LEMMA CallbackNewest ==
    ASSUME Known, OneCallback, NewestArrives, RunCallback
    PROVE  NewestArrives'
<1>1. PICK d, e, u : d = queue[1].on /\ e = queue[1].epoch /\ u = updates[d]
  OBVIOUS
<1>2. /\ d \in Dispatchers /\ u \in LatestDispatchers
      /\ queue # << >> /\ queue[1] = [on |-> d, epoch |-> e]
      /\ Leads["ui"] = NoCall
      /\ u.active /\ u.epoch = e =>
           updates'[d] = Taken(u) /\ Leads'["ui"] = Call("render", d, u.latest)
      /\ ~(u.active /\ u.epoch = e) =>
           updates'[d] = u /\ Leads'["ui"] = NoCall
      /\ \A x \in Dispatchers \ {d} : updates'[x] = updates[x]
      /\ \A x \in Threads \ {"ui"} : Leads'[x] = Leads[x]
      /\ Kept /\ UNCHANGED << shown, renewed, feeds, tuning, frame, late >>
  BY <1>1, CallbackEffect
<1>3. shown' = shown /\ late' = late /\ UNCHANGED << feeds, tuning >>
  BY <1>2
<1>4. /\ \A x \in Dispatchers : Renewing(x) => Renewing(x)'
      /\ \A x : ViewStays(x)
  BY <1>2, <1>3, HandsGoOn, Zenon
<1>5. OneLead(Leads, Leads', "ui") /\ "ui" \in Threads
  BY <1>2, Zenon DEF OneLead, Threads
<1>6. NewestFor(d)'
  <2>1. NewestFor(d)
    BY <1>2, NewestIs, Zenon
  <2>2. ASSUME NEW s, NEW l, NEW n, s = shown[d], l = Leads, ArrivesIs(u, s, l, n, d)
        PROVE  ArrivesIs(updates'[d], shown'[d], Leads', n, d)
    <3>1. PICK v, m : v = updates'[d] /\ m = Leads'
      OBVIOUS
    <3>2. OneLead(l, m, "ui") /\ l["ui"] = NoCall
      BY <1>2, <1>5, <2>2, <3>1
    <3>3. CASE u.active /\ u.epoch = e
      <4>1. 1 \in 1 .. Len(queue)
        BY <1>2, KnownIs, QueueParts
      <4>2. InQueue(d, 1)
        BY <1>1, <1>2, <3>3, Zenon DEF InQueue
      <4>3. u.pending
        BY <1>1, <1>2, <4>1, <4>2, Zenon DEF OneCallback, CallbackOf
      <4>4. ~v.pending /\ m["ui"] = Call("render", d, u.latest)
        BY <1>2, <3>1, <3>3, TakenIs
      <4>5. ArrivesIs(v, s, m, n, d)
        BY <1>2, <2>2, <3>2, <4>3, <4>4, ArrivesTaken
      <4>6. QED
        BY <1>3, <2>2, <3>1, <4>5
    <3>4. CASE ~(u.active /\ u.epoch = e)
      <4>1. v = u /\ m["ui"] = NoCall
        BY <1>2, <3>1, <3>4
      <4>2. ~ToShow(NoCall, d)
        BY GivingIs, Zenon
      <4>3. AwayFrom(l, m, d)
        BY <3>2, <4>1, <4>2, OneAway, Zenon
      <4>4. ArrivesIs(v, s, m, n, d)
        BY <2>2, <4>1, <4>3, ArrivesSame, Zenon
      <4>5. QED
        BY <1>3, <2>2, <3>1, <4>4
    <3>5. QED
      BY <3>3, <3>4
  <2>3. late[d] => late'[d]
    BY <1>3
  <2>4. QED
    BY <1>1, <1>2, <1>4, <2>1, <2>2, <2>3, HandsArrive
<1>7. ASSUME NEW x \in Dispatchers, x # d PROVE Rests(x)
  <2>1. ~ToShow(Leads'["ui"], x) /\ ~ToShow(Leads["ui"], x)
    <3>1. ~ToShow(Call("render", d, u.latest), x) /\ ~ToShow(NoCall, x)
      BY <1>7, CallIs, GivingIs DEF ToShow
    <3>2. QED
      BY <1>2, <3>1, Zenon
  <2>2. AwayFrom(Leads, Leads', x)
    BY <1>5, <2>1, OneAway, Zenon
  <2>3. updates'[x] = updates[x] /\ late'[x] = late[x] /\ shown'[x] = shown[x]
    BY <1>2, <1>3, <1>7
  <2>4. QED
    BY <1>4, <2>2, <2>3, Zenon DEF Rests
<1>8. QED
  BY <1>6, <1>7, OtherNewest, Zenon

LEMMA CancelNewest ==
    ASSUME Known, NewestArrives, NEW t \in Threads, CancelUpdates(t)
    PROVE  NewestArrives'
<1>1. PICK d : d = Now(t).on
  OBVIOUS
<1>2. /\ late'[d]
      /\ \A x \in Dispatchers \ {d} : updates'[x] = updates[x] /\ late'[x] = late[x]
      /\ Leads' = Leads /\ Kept /\ UNCHANGED << queue, shown, feeds, tuning, frame >>
  BY <1>1, CancelEffect
<1>3. shown' = shown /\ UNCHANGED << feeds, tuning >>
  BY <1>2
<1>4. /\ \A x \in Dispatchers : Renewing(x) => Renewing(x)'
      /\ \A x : ViewStays(x)
  BY <1>2, <1>3, HandsGoOn, Zenon
<1>5. NewestFor(d)'
  BY <1>2, NewestThen, Zenon
<1>6. ASSUME NEW x \in Dispatchers, x # d PROVE Rests(x)
  <2>1. AwayFrom(Leads, Leads', x)
    BY <1>2, Zenon DEF AwayFrom
  <2>2. updates'[x] = updates[x] /\ late'[x] = late[x] /\ shown'[x] = shown[x]
    BY <1>2, <1>3, <1>6
  <2>3. QED
    BY <1>4, <2>1, <2>2, Zenon DEF Rests
<1>7. QED
  BY <1>5, <1>6, OtherNewest, Zenon

LEMMA ResumeNewest ==
    ASSUME Known, NewestArrives, NEW t \in Threads, ResumeUpdates(t)
    PROVE  NewestArrives'
<1>1. PICK d : d = Now(t).on
  OBVIOUS
<1>2. /\ d \in Dispatchers /\ updates[d] \in LatestDispatchers
      /\ updates'[d] = Resumed(updates[d])
      /\ \A x \in Dispatchers \ {d} : updates'[x] = updates[x]
      /\ Leads' = Leads /\ Kept /\ UNCHANGED << queue, shown, renewed, feeds, tuning, frame, late >>
  BY <1>1, ResumeEffect
<1>3. shown' = shown /\ late' = late /\ UNCHANGED << feeds, tuning >>
  BY <1>2
<1>4. /\ \A x \in Dispatchers : Renewing(x) => Renewing(x)'
      /\ \A x : ViewStays(x)
  BY <1>2, <1>3, HandsGoOn, Zenon
<1>5. ASSUME NEW x \in Dispatchers PROVE Rests(x)
  <2>1. AwayFrom(Leads, Leads', x)
    BY <1>2, Zenon DEF AwayFrom
  <2>2. (updates'[x].pending <=> updates[x].pending) /\ updates'[x].latest = updates[x].latest
    <3>1. CASE x = d
      BY <1>2, <3>1, ResumedIs
    <3>2. CASE x # d
      BY <1>2, <1>5, <3>2
    <3>3. QED
      BY <3>1, <3>2
  <2>3. late'[x] = late[x] /\ shown'[x] = shown[x]
    BY <1>3
  <2>4. QED
    BY <1>4, <2>1, <2>2, <2>3, Zenon DEF Rests
<1>6. QED
  BY <1>5, RestNewest, Zenon

LEMMA HandNewest ==
    ASSUME Known, OneCallback, NewestArrives, HandStep
    PROVE  NewestArrives'
BY SubmitNewest, DispatchNewest, CallbackNewest, CancelNewest, ResumeNewest, Zenon DEF HandStep

LEMMA CalmNewest ==
    ASSUME Known, NewestArrives, CalmStep
    PROVE  NewestArrives'
<1>1. CASE UnmovedStep
  BY <1>1, StepUnmoved, UnmovedRests, RestNewest, Zenon
<1>2. \/ UnmovedStep \/ Render \/ Refresh
      \/ \E t \in Services \cup {"ui"} : ChangeTune(t)
      \/ \E t \in Threads : \/ PublishState(t) \/ LookAtEvents(t)
                            \/ TuneActive(t) \/ SetTuneListener(t)
  BY Zenon DEF CalmStep, UnmovedStep
<1>3. QED
  BY <1>1, <1>2, RenderNewest, RefreshNewest, ChangeNewest, PublishNewest, LookNewest,
     TuneActiveNewest, ListenNewest, Zenon

\* Every step keeps the newest view of each page on its way to it.
LEMMA StepNewest ==
    ASSUME Known, LogsKept, OneCallback, NewestArrives, [PagesNext]_pagesVars
    PROVE  NewestArrives'
BY StepKinds, CalmNewest, FeedNewest, HandNewest, LinkNewest, Zenon

LEMMA InitNewest ==
    ASSUME PagesInit
    PROVE  NewestArrives
<1>1. ASSUME NEW d \in Dispatchers PROVE Arrives(d)
  <2>1. ~updates[d].pending /\ shown[d] = NewestView(d)
    BY <1>1, InitScreen, Zenon
  <2>2. \A t \in Threads : Leads[t] = NoCall
    BY InitKnown, Zenon
  <2>3. NoCall.op = "none" /\ "ui" \in Threads
    BY NoCallIs DEF Threads
  <2>4. (\A t \in Threads : ~Submits(t, d)) /\ ~Rendering(d)
    BY <2>2, <2>3 DEF Submits, Rendering
  <2>5. QED
    BY <2>1, <2>4, Zenon DEF Arrives
<1>2. QED
  BY <1>1, Zenon DEF NewestArrives

-----------------------------------------------------------------------------
(* When nothing is under way the newest view is shown.                     *)

\* The calls of the threads are of other pages, and so are the queued callbacks.
LEMMA QuietIs ==
    ASSUME Known, NEW d \in Dispatchers, Quiet(d)
    PROVE  /\ \A t \in Threads : Leads[t].on # d
           /\ ~Refreshing(d)
           /\ \A k \in 1 .. Len(queue) : queue[k].on # d
<1>1. /\ \A t \in Threads : \A k \in DOMAIN todo[t] : todo[t][k].on # d
      /\ \A k \in DOMAIN queue : queue[k].on # d
  BY Zenon DEF Quiet
<1>2. ASSUME NEW t \in Threads PROVE Leads[t].on # d
  <2>1. Leads[t] = LeadOf(todo[t]) /\ todo[t] \in Seq(Calls)
    BY <1>2, LeadsAre, KnownIs, Zenon
  <2>2. CASE Leads[t] = NoCall
    <3>1. d # "none"
      BY DEF Dispatchers, Monitors
    <3>2. QED
      BY <2>2, <3>1, NoCallIs
  <2>3. CASE Leads[t] # NoCall
    <3>1. todo[t] # << >> /\ Leads[t] = todo[t][1]
      BY <2>1, <2>3, Zenon DEF LeadOf
    <3>2. 1 \in DOMAIN todo[t]
      BY <2>1, <3>1
    <3>3. QED
      BY <1>1, <1>2, <3>1, <3>2, Zenon
  <2>4. QED
    BY <2>2, <2>3
<1>3. ~Refreshing(d)
  <2>1. SUFFICES ASSUME NEW t \in Threads, NEW k \in DOMAIN todo[t],
                        todo[t][k] = Call("refresh", d, "none")
                 PROVE  FALSE
    BY Zenon DEF Refreshing
  <2>2. todo[t][k].on = d
    BY <2>1, CallIs
  <2>3. QED
    BY <1>1, <2>2, Zenon
<1>4. \A k \in 1 .. Len(queue) : queue[k].on # d
  <2>1. DOMAIN queue = 1 .. Len(queue)
    BY KnownIs
  <2>2. QED
    BY <1>1, <2>1, Zenon
<1>5. QED
  BY <1>2, <1>3, <1>4

LEMMA QuietShows ==
    ASSUME Known, OneCallback, NewestArrives, NEW d \in Dispatchers,
           Quiet(d), ~late[d], ~Renewing(d)
    PROVE  shown[d] = NewestView(d)
<1>1. Arrives(d)
  BY NewestIs, Zenon DEF NewestFor
<1>2. "ui" \in Threads
  BY DEF Threads
<1>3. (\A t \in Threads : ~Submits(t, d)) /\ ~Rendering(d)
  BY <1>2, QuietIs, Zenon DEF Submits, Rendering
<1>4. ~updates[d].pending
  <2>1. SUFFICES ASSUME updates[d].pending PROVE FALSE
    OBVIOUS
  <2>2. \/ \E k \in 1 .. Len(queue) : InQueue(d, k)
        \/ \E t \in Threads : InHand(d, t)
    BY <2>1, Zenon DEF OneCallback, CallbackOf
  <2>3. ASSUME NEW k \in 1 .. Len(queue), InQueue(d, k) PROVE FALSE
    <3>1. queue[k].on = d
      BY <2>3 DEF InQueue
    <3>2. QED
      BY <2>3, <3>1, QuietIs, Zenon
  <2>4. ASSUME NEW t \in Threads, InHand(d, t) PROVE FALSE
    <3>1. Leads[t].on = d
      BY <2>4, CallIs DEF InHand
    <3>2. QED
      BY <2>4, <3>1, QuietIs, Zenon
  <2>5. QED
    BY <2>2, <2>3, <2>4, Zenon
<1>5. QED
  BY <1>1, <1>3, <1>4, Zenon DEF Arrives

LEMMA NewestShows ==
    ASSUME Known, OneCallback, NewestArrives
    PROVE  NewestIsShown
<1>1. ASSUME NEW v \in Monitors, Quiet(v), ~late[v] PROVE shown[v] = StateOf(vm[v])
  <2>1. v \in Dispatchers /\ v # "logs"
    BY <1>1, NoMonitor, Zenon
  <2>2. ~Renewing(v)
    BY <1>1, <2>1, QuietIs, Zenon DEF Renewing
  <2>3. shown[v] = NewestView(v)
    BY <1>1, <2>1, <2>2, QuietShows, Zenon
  <2>4. QED
    BY <1>1, <2>3, Zenon DEF NewestView
<1>2. "logs" \in Dispatchers /\ "tune" \in Dispatchers /\ "logs" \notin Monitors /\ "tune" \notin Monitors
      /\ "tune" # "logs"
  BY DEF Dispatchers, Monitors
<1>3. ASSUME Quiet("logs"), logs.active, subs[logs.handle].box = << >>, ~late["logs"]
      PROVE  shown["logs"] = store
  <2>1. ~Looking
    <3>1. SUFFICES ASSUME NEW t \in Threads, NEW k \in DOMAIN todo[t], todo[t][k].op = "look" PROVE FALSE
      BY Zenon DEF Looking
    <3>2. todo[t] \in Seq(Calls)
      BY KnownIs, Zenon
    <3>3. todo[t][k] \in Calls
      BY <3>2
    <3>4. todo[t][k].on = "logs"
      BY <3>1, <3>3, CallsAre, Zenon
    <3>5. QED
      BY <1>3, <3>4, Zenon DEF Quiet
  <2>2. ~Renewing("logs")
    BY <1>3, <2>1, Zenon DEF Renewing
  <2>3. shown["logs"] = NewestView("logs")
    BY <1>2, <1>3, <2>2, QuietShows, Zenon
  <2>4. QED
    BY <1>2, <2>3, Zenon DEF NewestView
<1>4. ASSUME Quiet("tune"), ~late["tune"] PROVE shown["tune"] = tune.version
  <2>1. ~Renewing("tune")
    BY <1>2, <1>4, QuietIs, Zenon DEF Renewing
  <2>2. shown["tune"] = NewestView("tune")
    BY <1>2, <1>4, <2>1, QuietShows, Zenon
  <2>3. QED
    BY <1>2, <2>2, Zenon DEF NewestView
<1>5. QED
  BY <1>1, <1>3, <1>4, Zenon DEF NewestIsShown

\* In every state the newest view of a page is on its way to it: about to be
\* submitted, pending, about to be rendered, or shown; unless one came late.
THEOREM NewestKept == PagesSpec => [](Known /\ LogsKept /\ OneCallback /\ NewestArrives)
<1>1. PagesInit => NewestArrives
  BY InitNewest, Zenon
<1>2. (Known /\ Claims /\ LogsKept /\ OneCallback) /\ NewestArrives /\ [PagesNext]_pagesVars => NewestArrives'
  BY StepNewest, Zenon
<1>3. QED
  BY <1>1, <1>2, PagesKept, PTL DEF PagesSpec

\* In every state a page for which nothing is under way shows the newest state of
\* its view model, unless a view of it came late.
THEOREM NewestAlwaysShown == PagesSpec => []NewestIsShown
<1>1. Known /\ LogsKept /\ OneCallback /\ NewestArrives => NewestIsShown
  BY NewestShows, Zenon
<1>2. QED
  BY <1>1, NewestKept, PTL

=============================================================================
