---------------------------- MODULE StudioPages ----------------------------
(***************************************************************************)
(* The pages of the Studio and what feeds them: the live view models behind *)
(* the Overview, Monitor and Tune pages, the event store behind the Logs    *)
(* page, the Tune view model's notifications, the latest-value dispatchers, *)
(* the navigator that activates one page at a time, and the closing of the  *)
(* window on a goroutine of its own.                                        *)
(*                                                                          *)
(* Threads are the UI ("ui"), the closing goroutine ("closer"), Services    *)
(* that change the Tune view model, and Workers, one per live subscription. *)
(* todo[t] holds the calls thread t has still to make, the next one first;  *)
(* a call is one section under one lock, or one access to a channel.        *)
(*                                                                          *)
(* left, chosen among Scopes at the start, bounds what the environment may  *)
(* do: samples published, commands of the user, changes of the Tune view    *)
(* model, events logged, catalogs discovered, closings of the window.  It   *)
(* also fixes the built pages, the metrics, and the values samples may have. *)
(***************************************************************************)
EXTENDS LatestDispatcher, MetricHistory, FiniteSetsExt

CONSTANTS
  MetricIDs,          \* metric identifiers
  Workers,          \* goroutines available to subscriptions
  Services,         \* goroutines changing the Tune view model
  HistoryCapacity,  \* historyCapacity of a metric's ring
  Columns,          \* columns of a chart
  StoreCapacity,    \* events the store keeps
  Scopes            \* the initial values of left

Pages == {"overview", "monitor", "tune", "logs"}

ASSUME PagesAssumption ==
  /\ HistoryCapacity \in Nat \ {0}
  /\ Columns \in Nat \ {0}
  /\ StoreCapacity \in Nat \ {0}
  /\ {"ui", "closer"} \intersect (Workers \union Services) = {}
  /\ Scopes \subseteq
       [pages : SUBSET Pages, metrics : SUBSET MetricIDs, values : SUBSET Int,
        samples : Nat, commands : Nat, changes : Nat, events : Nat,
        catalogs : Nat, closes : Nat]

VARIABLES
  todo, queue,          \* calls of each thread; callbacks given to fyne.Do
  updates, shown,       \* dispatchers and what was last rendered of each
  vm, subs,             \* live view models; subscriptions and their goroutines
  nav,                  \* selected page, and the Monitor page's active flag
  store, logs, tune,    \* event store, Logs page, Tune view model
  app,                  \* whether the window is closing, telemetry stopped
  left, clock,          \* remaining inputs, time of the newest sample
  received, late, renewed   \* history variables, for the properties

feeds == << vm, subs, received >>
tuning == << store, logs, tune >>
screen == << queue, updates, shown, renewed >>
frame == << nav, app, left, clock >>
pagesVars == << todo, screen, feeds, tuning, frame, late >>

Monitors == {"overview", "monitor", "live"}
Dispatchers == Monitors \union {"tune", "logs"}
Threads == {"ui", "closer"} \union Services \union Workers

NoSample == [at |-> 0, value |-> 0, good |-> FALSE]

Call(op, on, arg) == [op |-> op, on |-> on, arg |-> arg]
At(t, op) == todo[t] # << >> /\ Head(todo[t]).op = op
Idle(t) == todo[t] = << >>
Now(t) == Head(todo[t])
\* t makes these calls next; the second form also finishes the current one.
Push(t, calls) == todo' = [todo EXCEPT ![t] = calls \o @]
Then(t, calls) == todo' = [todo EXCEPT ![t] = calls \o Tail(@)]

\* Another thread than t is about to submit an earlier view of d.
Holding(d, t) ==
  \E u \in Threads \ {t} : \E k \in DOMAIN todo[u] :
    todo[u][k].op = "submit" /\ todo[u][k].on = d
\* t views d: another view may come later, or this one go to no listener.
View(d, t, heard) == late' = [late EXCEPT ![d] = ~heard \/ Holding(d, t)]

-----------------------------------------------------------------------------
(* What a page shows.                                                       *)

\* Monitor.stateLocked
StateOf(m) ==
  [selected |-> m.metrics,
   current |-> [id \in {x \in m.metrics : m.current[x] # NoSample} |->
                  m.current[id]],
   history |-> [id \in m.metrics |->
                  DownsampleMinMax(Snapshot(m.rings[id]), Columns)]]

NewMonitor(ids) ==
  [active |-> FALSE, metrics |-> ids, handle |-> "none",
   current |-> [id \in MetricIDs |-> NoSample],
   rings |-> [id \in MetricIDs |-> NewRing(HistoryCapacity, NoSample)]]

\* The Overview and Monitor pages set their listener once, Tune at each visit.
Listens(v) == v # "live" \/ tune.live
Notified(v, state) ==
  IF Listens(v) THEN << Call("submit", v, state) >> ELSE << >>
TuneNotified(version) ==
  IF tune.listener THEN << Call("submit", "tune", version) >> ELSE << >>

FreeSubscription ==
  [status |-> "free", owner |-> "none", metrics |-> {}, open |-> FALSE,
   box |-> << >>]
Subscription(v, metrics, open) ==
  [status |-> "running", owner |-> v, metrics |-> metrics, open |-> open,
   box |-> << >>]
Vacant == {w \in Workers : subs[w].status = "free"}
Spare == CHOOSE w \in Vacant : TRUE

PagesInit ==
  /\ left \in Scopes
  /\ todo = [t \in Threads |-> << >>]
  /\ queue = << >>
  /\ vm = [v \in Monitors |-> NewMonitor(left.metrics)]
  /\ subs = [w \in Workers |-> FreeSubscription]
  /\ shown = [d \in Dispatchers |->
                CASE d \in Monitors -> StateOf(NewMonitor(left.metrics))
                  [] d = "tune" -> 0
                  [] d = "logs" -> << >>]
  /\ updates = [d \in Dispatchers |-> NewLatestDispatcher(shown[d])]
  /\ nav = [selected |-> "none", monitorActive |-> FALSE]
  /\ store = << >>
  /\ logs = [active |-> FALSE, handle |-> "none"]
  /\ tune = [version |-> 0, active |-> FALSE, listener |-> FALSE,
             live |-> FALSE]
  /\ app = [closing |-> FALSE, stopped |-> FALSE]
  /\ clock = 0
  /\ received = [v \in Monitors |-> [id \in MetricIDs |-> << >>]]
  /\ late = [d \in Dispatchers |-> FALSE]
  /\ renewed = [d \in Dispatchers |-> FALSE]

-----------------------------------------------------------------------------
(* Dispatchers and the UI's queue.                                          *)

\* A dispatcher whose page was left drops the view.
Submit(t) ==
  /\ At(t, "submit")
  /\ LET d == Now(t).on
         queued == Dispatches(updates[d])
     IN  /\ updates' = [updates EXCEPT ![d] = Submitted(@, Now(t).arg)]
         /\ renewed' = [renewed EXCEPT ![d] = @ \/ updates[d].active]
         /\ late' = [late EXCEPT ![d] = @ \/ ~updates[d].active]
         /\ Then(t, IF queued THEN << Call("dispatch", d, updates[d].epoch) >>
                              ELSE << >>)
  /\ UNCHANGED << queue, shown, feeds, tuning, frame >>

\* Faulty variant: the callback is handed over with DoAndWait.
Dispatch_Waits(t) ==
  /\ At(t, "dispatch")
  /\ t = "ui" \/ Idle("ui")
  /\ queue' = Append(queue, [on |-> Now(t).on, epoch |-> Now(t).arg])
  /\ Then(t, << >>)
  /\ UNCHANGED << updates, shown, renewed, feeds, tuning, frame, late >>

\* fyne.Do queues the callback and returns.
Dispatch(t) ==
  /\ At(t, "dispatch")
  /\ queue' = Append(queue, [on |-> Now(t).on, epoch |-> Now(t).arg])
  /\ Then(t, << >>)
  /\ UNCHANGED << updates, shown, renewed, feeds, tuning, frame, late >>

\* The UI runs the oldest queued callback when it is not handling an event.
RunCallback ==
  /\ Idle("ui") /\ queue # << >>
  /\ LET d == Head(queue).on
         runs == Renders(updates[d], Head(queue).epoch)
     IN  /\ updates' = [updates EXCEPT ![d] = IF runs THEN Taken(@) ELSE @]
         /\ Push("ui", IF runs
                       THEN << Call("render", d, updates[d].latest) >>
                       ELSE << >>)
  /\ queue' = Tail(queue)
  /\ UNCHANGED << shown, renewed, feeds, tuning, frame, late >>

Render ==
  /\ At("ui", "render")
  /\ shown' = [shown EXCEPT ![Now("ui").on] = Now("ui").arg]
  /\ Then("ui", << >>)
  /\ UNCHANGED << queue, updates, renewed, feeds, tuning, frame, late >>

-----------------------------------------------------------------------------
(* Monitor view models: viewmodel.Monitor and the telemetry behind it.      *)

\* Monitor.Activate: one section, the subscription included.
MonitorUp(t) ==
  /\ At(t, "up")
  /\ LET v == Now(t).on
     IN  IF vm[v].active THEN UNCHANGED << vm, subs >>
         ELSE /\ Vacant # {}
              /\ vm' = [vm EXCEPT ![v].active = TRUE, ![v].handle = Spare]
              /\ subs' = [subs EXCEPT ![Spare] =
                            Subscription(v, vm[v].metrics, ~app.stopped)]
  /\ Then(t, << >>)
  /\ UNCHANGED << screen, received, tuning, frame, late >>

\* Faulty variant: the goroutine of the subscription is not awaited.
MonitorDown_NoWait(t) ==
  /\ At(t, "down")
  /\ LET v == Now(t).on
         w == vm[v].handle
     IN  IF ~vm[v].active THEN Then(t, << >>) /\ UNCHANGED vm
         ELSE /\ vm' = [vm EXCEPT ![v].active = FALSE, ![v].handle = "none"]
              /\ Then(t, << Call("close", v, w) >>)
  /\ UNCHANGED << screen, subs, received, tuning, frame, late >>

\* Monitor.Deactivate: the subscription is closed and its goroutine awaited
\* after the lock is left.
MonitorDown(t) ==
  /\ At(t, "down")
  /\ LET v == Now(t).on
         w == vm[v].handle
     IN  IF ~vm[v].active THEN Then(t, << >>) /\ UNCHANGED vm
         ELSE /\ vm' = [vm EXCEPT ![v].active = FALSE, ![v].handle = "none"]
              /\ Then(t, << Call("close", v, w), Call("await", v, w) >>)
  /\ UNCHANGED << screen, subs, received, tuning, frame, late >>

CloseHandle(t) ==
  /\ At(t, "close")
  /\ subs' = [subs EXCEPT ![Now(t).arg].open = FALSE]
  /\ Then(t, << >>)
  /\ UNCHANGED << screen, vm, received, tuning, frame, late >>

Await(t) ==
  /\ At(t, "await")
  /\ subs[Now(t).arg].status = "done"
  /\ subs' = [subs EXCEPT ![Now(t).arg] = FreeSubscription]
  /\ Then(t, << >>)
  /\ UNCHANGED << screen, vm, received, tuning, frame, late >>

\* SetInterval and SetMetricIDs: restart when active, else publish.
Restarted(v, active) ==
  IF active THEN << Call("down", v, "none"), Call("up", v, "none") >>
            ELSE << Call("publish", v, "none") >>

SetMetricIDs(t) ==
  /\ At(t, "choose")
  /\ LET v == Now(t).on
     IN  /\ vm' = [vm EXCEPT ![v].metrics = Now(t).arg]
         /\ Then(t, Restarted(v, vm[v].active))
  /\ UNCHANGED << screen, subs, received, tuning, frame, late >>

SetInterval(t) ==
  /\ At(t, "interval")
  /\ Then(t, Restarted(Now(t).on, vm[Now(t).on].active))
  /\ UNCHANGED << screen, feeds, tuning, frame, late >>

PublishState(t) ==
  /\ At(t, "publish")
  /\ Then(t, Notified(Now(t).on, StateOf(vm[Now(t).on])))
  /\ View(Now(t).on, t, Listens(Now(t).on))
  /\ UNCHANGED << screen, feeds, tuning, frame >>

\* Pages render a view model's state, or an empty one, past the dispatcher.
Refresh ==
  /\ At("ui", "refresh")
  /\ LET v == Now("ui").on
     IN  shown' = [shown EXCEPT ![v] =
           StateOf(IF v = "live" THEN NewMonitor({}) ELSE vm[v])]
         /\ late' = [late EXCEPT ![v] =
                          v = "live" \/ updates[v].pending \/ Holding(v, "ui")]
  /\ Then("ui", << >>)
  /\ UNCHANGED << queue, updates, renewed, feeds, tuning, frame >>

\* A provider's samples reach a subscription: its channel holds one frame.
Deliver(w) ==
  /\ subs[w].open /\ subs[w].owner \in Monitors
  /\ left.samples > 0
  /\ left' = [left EXCEPT !.samples = @ - 1]
  /\ clock' = clock + 1
  /\ \E ids \in SUBSET subs[w].metrics \ {{}}, value \in left.values :
       subs' = [subs EXCEPT ![w].box =
         << [id \in ids |-> [at |-> clock', value |-> value,
                             good |-> value # 0]] >>]
  /\ UNCHANGED << todo, screen, vm, received, tuning, nav, app, late >>

\* One frame: samples replace current ones, available ones join the history.
Consumed(m, samples) ==
  [m EXCEPT
     !.current = [id \in MetricIDs |->
        IF id \in DOMAIN samples THEN samples[id] ELSE @[id]],
     !.rings = [id \in MetricIDs |->
        IF id \in DOMAIN samples /\ samples[id].good
        THEN Appended(@[id], samples[id]) ELSE @[id]]]

\* What the history of a metric should be: the newest available samples.
Newest(samples, n) ==
  IF Len(samples) <= n THEN samples
  ELSE SubSeq(samples, Len(samples) - n + 1, Len(samples))

Consume(w) ==
  /\ subs[w].status = "running" /\ subs[w].owner \in Monitors
  /\ Idle(w) /\ subs[w].box # << >>
  /\ LET v == subs[w].owner
         samples == Head(subs[w].box)
     IN  /\ vm' = [vm EXCEPT ![v] = Consumed(@, samples)]
         /\ Push(w, Notified(v, StateOf(vm'[v])))
         /\ View(v, w, Listens(v))
         /\ received' = [received EXCEPT ![v] = [id \in MetricIDs |->
              IF id \in DOMAIN samples /\ samples[id].good
              THEN Newest(Append(@[id], samples[id]), HistoryCapacity)
              ELSE @[id]]]
  /\ subs' = [subs EXCEPT ![w].box = << >>]
  /\ UNCHANGED << screen, tuning, frame >>

\* The channel is closed and drained; nobody waits for a Logs goroutine.
EndSubscription(w) ==
  /\ subs[w].status = "running" /\ ~subs[w].open
  /\ Idle(w) /\ subs[w].box = << >>
  /\ subs' = [subs EXCEPT ![w] =
       IF @.owner = "logs" THEN FreeSubscription ELSE [@ EXCEPT !.status = "done"]]
  /\ UNCHANGED << todo, screen, vm, received, tuning, frame, late >>

-----------------------------------------------------------------------------
(* Logs page and event store.                                               *)

\* Append slides the window, and replaces what a subscriber has not taken.
AppendEvent ==
  /\ left.events > 0
  /\ left' = [left EXCEPT !.events = @ - 1]
  /\ store' = Append(IF Len(store) = StoreCapacity THEN Tail(store) ELSE store,
                     left.events)
  /\ subs' = [w \in Workers |->
       IF subs[w].owner = "logs" /\ subs[w].open
       THEN [subs[w] EXCEPT !.box = << left.events >>] ELSE subs[w]]
  /\ UNCHANGED << todo, screen, vm, received, logs, tune, nav, app, clock,
                  late >>

\* Logs.Activate: the subscription, then the events already there; the
\* goroutine reading the subscription starts after that.
LogsUp(t) ==
  /\ At(t, "logs_up")
  /\ IF logs.active THEN Then(t, << >>) /\ UNCHANGED << logs, subs >>
     ELSE /\ Vacant # {}
          /\ logs' = [active |-> TRUE, handle |-> Spare]
          /\ subs' = [subs EXCEPT ![Spare] =
               [Subscription("logs", {}, TRUE) EXCEPT !.status = "starting"]]
          /\ Then(t, << Call("look", "logs", "none"),
                        Call("go", "logs", Spare) >>)
  /\ UNCHANGED << screen, vm, received, store, tune, frame, late >>

LookAtEvents(t) ==
  /\ At(t, "look")
  /\ Then(t, << Call("submit", "logs", store) >>)
  /\ View("logs", t, TRUE)
  /\ UNCHANGED << screen, feeds, tuning, frame >>

Go(t) ==
  /\ At(t, "go")
  /\ subs' = [subs EXCEPT ![Now(t).arg].status = "running"]
  /\ Then(t, << >>)
  /\ UNCHANGED << screen, vm, received, tuning, frame, late >>

TakeEvent(w) ==
  /\ subs[w].status = "running" /\ subs[w].owner = "logs"
  /\ Idle(w) /\ subs[w].box # << >>
  /\ subs' = [subs EXCEPT ![w].box = << >>]
  /\ Push(w, << Call("look", "logs", "none") >>)
  /\ UNCHANGED << screen, vm, received, tuning, frame, late >>

LogsDown(t) ==
  /\ At(t, "logs_down")
  /\ IF logs.active
     THEN /\ logs' = [active |-> FALSE, handle |-> "none"]
          /\ Then(t, << Call("close", "logs", logs.handle) >>)
     ELSE Then(t, << >>) /\ UNCHANGED logs
  /\ UNCHANGED << screen, feeds, store, tune, frame, late >>

-----------------------------------------------------------------------------
(* Tune page: the view model's notifications and the live readings.         *)

\* One locked change of the Tune view model, by the user or by a goroutine of
\* the view model; the listener is called after the lock is left.
ChangeTune(t) ==
  /\ Idle(t) /\ left.changes > 0
  /\ t = "ui" => nav.selected = "tune"
  /\ left' = [left EXCEPT !.changes = @ - 1]
  /\ tune' = [tune EXCEPT !.version = @ + 1]
  /\ Push(t, TuneNotified(tune'.version))
  /\ View("tune", t, tune.listener)
  /\ UNCHANGED << screen, feeds, store, logs, nav, app, clock >>

\* Tune.Activate and Tune.Deactivate of the view model.
TuneActive(t) ==
  /\ At(t, "tune_active")
  /\ IF tune.active = Now(t).arg
     THEN Then(t, << >>) /\ UNCHANGED << tune, late >>
     ELSE /\ tune' = [tune EXCEPT !.active = ~@, !.version = @ + 1]
          /\ Then(t, TuneNotified(tune'.version))
          /\ View("tune", t, tune.listener)
  /\ UNCHANGED << screen, feeds, store, logs, frame >>

\* Tune.SetListener also notifies the new listener.
SetTuneListener(t) ==
  /\ At(t, "listen")
  /\ tune' = [tune EXCEPT !.listener = Now(t).arg]
  /\ Then(t, IF Now(t).arg THEN << Call("submit", "tune", tune.version) >>
                           ELSE << >>)
  /\ View("tune", t, Now(t).arg)
  /\ UNCHANGED << screen, feeds, store, logs, frame >>

SetLiveListener(t) ==
  /\ At(t, "live")
  /\ tune' = [tune EXCEPT !.live = Now(t).arg]
  /\ Then(t, << >>)
  /\ UNCHANGED << screen, feeds, store, logs, frame, late >>

CancelUpdates(t) ==
  /\ At(t, "cancel")
  /\ updates' = [updates EXCEPT ![Now(t).on] = Cancelled(@)]
  /\ renewed' = [renewed EXCEPT ![Now(t).on] = FALSE]
  /\ late' = [late EXCEPT ![Now(t).on] = TRUE]
  /\ Then(t, << >>)
  /\ UNCHANGED << queue, shown, feeds, tuning, frame >>

ResumeUpdates(t) ==
  /\ At(t, "resume")
  /\ updates' = [updates EXCEPT ![Now(t).on] = Resumed(@)]
  /\ Then(t, << >>)
  /\ UNCHANGED << queue, shown, renewed, feeds, tuning, frame, late >>

-----------------------------------------------------------------------------
(* Monitor page, navigation, catalogs, closing.                             *)

SetMonitorActive(t) ==
  /\ At(t, "page")
  /\ LET on == Now(t).arg
     IN  IF nav.monitorActive = on THEN Then(t, << >>) /\ UNCHANGED nav
         ELSE /\ nav' = [nav EXCEPT !.monitorActive = on]
              /\ Then(t, << Call(IF on THEN "up" ELSE "down", "monitor",
                                 "none") >>)
  /\ UNCHANGED << screen, feeds, tuning, app, left, clock, late >>

\* The end of togglePause, which sets the flag after the view model.
SetFlag(t) ==
  /\ At(t, "flag")
  /\ nav' = [nav EXCEPT !.monitorActive = Now(t).arg]
  /\ Then(t, << >>)
  /\ UNCHANGED << screen, feeds, tuning, app, left, clock, late >>

PageUp(page) ==
  CASE page = "overview" -> << Call("up", "overview", "none") >>
    [] page = "monitor" -> << Call("page", "monitor", TRUE) >>
    [] page = "logs" -> << Call("logs_up", "logs", "none") >>
    [] page = "tune" ->
         << Call("resume", "tune", "none"), Call("listen", "tune", TRUE),
            Call("tune_active", "tune", TRUE), Call("resume", "live", "none"),
            Call("live", "live", TRUE), Call("up", "live", "none") >>

PageDown(page) ==
  CASE page = "none" -> << >>
    [] page = "overview" -> << Call("down", "overview", "none") >>
    [] page = "monitor" -> << Call("page", "monitor", FALSE) >>
    [] page = "logs" -> << Call("logs_down", "logs", "none") >>
    [] page = "tune" ->
         << Call("listen", "tune", FALSE), Call("cancel", "tune", "none"),
            Call("tune_active", "tune", FALSE), Call("live", "live", FALSE),
            Call("cancel", "live", "none"), Call("down", "live", "none") >>

\* LazyNavigator.Select leaves the selected page, then enters the other one.
Command(calls) ==
  /\ Idle("ui") /\ left.commands > 0
  /\ left' = [left EXCEPT !.commands = @ - 1]
  /\ Push("ui", calls)
  /\ UNCHANGED << screen, feeds, tuning, nav, app, clock, late >>

SelectPage ==
  \E page \in left.pages \ {nav.selected} :
    Command(Append(PageDown(nav.selected), Call("enter", page, "none")))

Enter ==
  /\ At("ui", "enter")
  /\ nav' = [nav EXCEPT !.selected = Now("ui").on]
  /\ Then("ui", PageUp(Now("ui").on))
  /\ UNCHANGED << screen, feeds, tuning, app, left, clock, late >>

TogglePause ==
  /\ nav.selected = "monitor"
  /\ Command(<< Call(IF nav.monitorActive THEN "down" ELSE "up", "monitor",
                     "none"),
                Call("flag", "monitor", ~nav.monitorActive) >>)

\* Monitor.applySelection after a metric is ticked or unticked.
ApplySelection(v, ids) ==
  << Call("choose", v, ids), Call("refresh", v, "none") >>

ChooseMetrics ==
  /\ nav.selected = "monitor"
  /\ \E ids \in SUBSET left.metrics \ {vm["monitor"].metrics} :
       Command(ApplySelection("monitor", ids))

ChooseInterval ==
  /\ nav.selected = "monitor"
  /\ Command(<< Call("interval", "monitor", "none") >>)

\* Shell.SetCatalog visits the built pages in no particular order.
SetCatalog ==
  /\ Idle("ui") /\ left.catalogs > 0
  /\ left' = [left EXCEPT !.catalogs = @ - 1]
  /\ \E pages \in SetToSeqs(left.pages \ {"logs"}), ids \in SUBSET left.metrics :
       LET On(page) == IF page = "tune" THEN "live" ELSE page
       IN  Push("ui", [k \in 1 .. 2 * Len(pages) |->
             ApplySelection(On(pages[(k + 1) \div 2]), ids)[2 - (k % 2)]])
  /\ UNCHANGED << screen, feeds, tuning, nav, app, clock, late >>

\* Desktop.Close on its own goroutine, once the Tune session is closed.
BeginClose ==
  /\ left.closes > 0 /\ ~app.closing
  /\ left' = [left EXCEPT !.closes = @ - 1]
  /\ app' = [app EXCEPT !.closing = TRUE]
  /\ Push("closer", << Call("tune_active", "tune", FALSE),
                       Call("quit", "none", "none"),
                       Call("stop", "none", "none") >>)
  /\ UNCHANGED << screen, feeds, tuning, nav, clock, late >>

\* LazyNavigator.Deactivate
Quit ==
  /\ At("closer", "quit")
  /\ Then("closer", IF nav.selected = "none" THEN << >>
                    ELSE Append(PageDown(nav.selected),
                                Call("deselect", "none", "none")))
  /\ UNCHANGED << screen, feeds, tuning, frame, late >>

Deselect ==
  /\ At("closer", "deselect")
  /\ nav' = [nav EXCEPT !.selected = "none"]
  /\ Then("closer", << >>)
  /\ UNCHANGED << screen, feeds, tuning, app, left, clock, late >>

\* The scheduler's context ends: every telemetry subscription is closed.
StopTelemetry ==
  /\ At("closer", "stop")
  /\ app' = [app EXCEPT !.stopped = TRUE]
  /\ subs' = [w \in Workers |->
       IF subs[w].owner \in Monitors THEN [subs[w] EXCEPT !.open = FALSE]
                                     ELSE subs[w]]
  /\ Then("closer", << >>)
  /\ UNCHANGED << screen, vm, received, tuning, nav, left, clock, late >>

-----------------------------------------------------------------------------
CallStep(t) ==
  \/ Submit(t) \/ Dispatch(t)
  \/ MonitorUp(t) \/ MonitorDown(t) \/ CloseHandle(t) \/ Await(t)
  \/ SetMetricIDs(t) \/ SetInterval(t) \/ PublishState(t)
  \/ LogsUp(t) \/ LookAtEvents(t) \/ Go(t) \/ LogsDown(t)
  \/ TuneActive(t) \/ SetTuneListener(t) \/ SetLiveListener(t)
  \/ CancelUpdates(t) \/ ResumeUpdates(t) \/ SetMonitorActive(t) \/ SetFlag(t)

UiStep == CallStep("ui") \/ RunCallback \/ Render \/ Refresh \/ Enter
CloserStep == CallStep("closer") \/ Quit \/ Deselect \/ StopTelemetry
WorkerStep(w) == CallStep(w) \/ Consume(w) \/ EndSubscription(w) \/ TakeEvent(w)

Environment ==
  \/ SelectPage \/ TogglePause \/ ChooseMetrics \/ ChooseInterval
  \/ SetCatalog \/ BeginClose \/ AppendEvent
  \/ \E w \in Workers : Deliver(w)
  \/ \E t \in Services \union {"ui"} : ChangeTune(t)

System ==
  \/ UiStep \/ CloserStep
  \/ \E w \in Workers : WorkerStep(w)
  \/ \E g \in Services : CallStep(g)

PagesNext == Environment \/ System

\* Some goroutine that can run does run, Fyne's loop being one of them;
\* nothing obliges the user, the hardware or the services to do anything.
PagesSpec == PagesInit /\ [][PagesNext]_pagesVars /\ WF_pagesVars(System)

-----------------------------------------------------------------------------
(* Properties.                                                              *)

\* Nothing about d is under way, on any thread or in the UI's queue.
Quiet(d) ==
  /\ Idle("ui") /\ Idle("closer")
  /\ \A t \in Threads : \A k \in DOMAIN todo[t] : todo[t][k].on # d
  /\ \A k \in DOMAIN queue : queue[k].on # d

(* When nothing is under way a page shows the newest state of its view     *)
(* model: the one queued callback per dispatcher loses no update, the      *)
(* one-slot channel of the event store no wake-up, and a restart of the    *)
(* subscription no selection.  The exception (late) is a view that may     *)
(* have overtaken another one, because notifications are submitted outside *)
(* the view model's lock and pages render some views past the dispatcher,  *)
(* and a reading that came while the Tune page was being left or was away. *)
NewestIsShown ==
  /\ \A v \in Monitors : Quiet(v) /\ ~late[v] => shown[v] = StateOf(vm[v])
  /\ Quiet("logs") /\ logs.active /\ subs[logs.handle].box = << >>
       /\ ~late["logs"] => shown["logs"] = store
  /\ Quiet("tune") /\ ~late["tune"] => shown["tune"] = tune.version

(* The history of a metric is its newest available samples, in the order   *)
(* they were measured, across pauses, restarts and changes of the          *)
(* selection: a view model never has two goroutines appending, because     *)
(* Deactivate waits for the previous one (not so once the window closes on *)
(* another goroutine).                                                     *)
HistoryIsNewest ==
  \A v \in Monitors, id \in MetricIDs :
    LET samples == Snapshot(vm[v].rings[id])
    IN  /\ samples = received[v][id]
        /\ app.closing \/ \A i, j \in DOMAIN samples :
             i < j => samples[i].at < samples[j].at

(* A chart never has more than two points per column, in the order they    *)
(* were measured, and never loses a spike.                                 *)
ChartKeepsSpikes ==
  \A v \in Monitors, id \in MetricIDs :
    LET samples == received[v][id]
        points == DownsampleMinMax(Snapshot(vm[v].rings[id]), Columns)
        Values(s) == {s[i].value : i \in DOMAIN s}
    IN  /\ Len(points) <= 2 * Columns
        /\ ToSet(points) \subseteq ToSet(samples)
        /\ samples # << >> =>
             /\ Max(Values(samples)) = Max(Values(points))
             /\ Min(Values(samples)) = Min(Values(points))
        /\ app.closing \/ \A i, j \in DOMAIN points :
             i < j => points[i].at < points[j].at

(* A callback renders nothing that was submitted before its page was left, *)
(* even when the page has been entered again before the callback runs.     *)
CancelledIsDropped ==
  [][\A d \in Dispatchers :
       Idle("ui") /\ todo'["ui"] # << >>
         /\ Head(todo'["ui"]).op = "render" /\ Head(todo'["ui"]).on = d
         /\ d \in {"tune", "live"}
       => renewed[d]]_pagesVars

(* Whatever the UI or the closing goroutine does, leaving pages and        *)
(* waiting for their goroutines included, comes to an end: neither waits   *)
(* for a goroutine that waits for the UI.                                  *)
LeavingEnds == []<>(Idle("ui") /\ Idle("closer"))
=============================================================================
