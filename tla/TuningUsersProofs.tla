-------------------------- MODULE TuningUsersProofs --------------------------
(***************************************************************************)
(* Machine-checked proofs about the two programs that tune: TuneViewModel, *)
(* for any number of sessions, goroutines and events under way, and        *)
(* whatever generations the pending list is valid in; and SmokeHarness,    *)
(* for every set of controls and values, every machine, any number of      *)
(* runs, faults and reboots.  The two modules share no name.               *)
(***************************************************************************)
EXTENDS SmokeHarness, TuneViewModel, TLAPS

-----------------------------------------------------------------------------
(*                         The Tune view model                             *)
-----------------------------------------------------------------------------

\* The proofs about the service, whose invariant holds in the composition too.
ServiceProven == INSTANCE DesktopTuneServiceProofs

-----------------------------------------------------------------------------
(* The inductive invariant.                                                *)

Kinds == Service!Events \cup {"transaction_applied", "review_changed"}

Calls == [kind : {"none", "apply", "revert"}, at : {"none", "service", "returned", "cleared"},
          generation : Generations \cup {"none"},
          result : {"none", "ok", "failed", "cancelled", "incomplete"}]

ViewTypeOK ==
    /\ stream \in Seq(Kinds)
    /\ phase \in Phases
    /\ sessionActive \in BOOLEAN
    /\ caps \in Generations \cup {"none"}
    /\ discovery \in {"none", "running", "privileged"}
    /\ closing \in {"none", "service", "failed", "closed"}
    /\ calls \in [Slots -> Calls]
    /\ \A s \in Slots : calls[s].at = "none" <=> calls[s].kind = "none"

Carries(q, kinds) == \E i \in 1..Len(q) : q[i] \in kinds

\* The operation in the service is that of one goroutine, which waits for it.
Applies == {"dial", "install", "apply", "applied", "discard"}
Reverts == {"revert", "recover", "recovered"}
Served ==
    /\ \A s \in Slots : calls[s].at = "service" =>
         /\ calls[s].kind = "apply" => op.at \in Applies
         /\ calls[s].kind = "revert" => op.at \in Reverts
         /\ \A t \in Slots : calls[t].at = "service" => t = s
    /\ op.at # "none" => \E s \in Slots : calls[s].at = "service"

\* What makes the view model forget a session is true, and stays true until it
\* has: the hardware is at stock, and no Apply is at work that may change that.
Forgets ==
    \/ Carries(stream, ServiceProven!Endings)
    \/ \E s \in Slots : At(s, "revert", "returned") /\ calls[s].result = "ok"
    \/ \E s \in Slots : At(s, "revert", "cleared")
ForgetsRestored == Forgets => ~ServiceProven!MayTune

\* A window that could not be closed shows a session as long as that may matter:
\* a service that stays closed refuses to revert one.
ClosedIsShown == ServiceProven!MayTune /\ closed /\ closing = "none" => sessionActive

\* A modified machine is shown as a session, or something on its way makes it so.
Showings == {"transaction_applied", "rollback_incomplete", "session_terminated"}
Shown ==
    tuned => \/ sessionActive
             \/ Carries(stream, Showings)
             \/ op.at \in {"applied", "discard"}
             \/ closing # "none"

\* A phase that waits has something to wait for: a goroutine, or an event that
\* always changes the phase.
Settlings == Kinds \ {"session_closed"}
Settles ==
    /\ phase = "authorizing" =>
         /\ \E s \in Slots : calls[s].kind = "apply"
         /\ \A s \in Slots : At(s, "apply", "returned") /\ calls[s].result = "ok" => Carries(stream, Settlings)
    /\ phase = "applying" => Carries(stream, Settlings)
    /\ phase = "rolling_back" => \E s \in Slots : calls[s].kind = "revert"
    /\ phase = "discovering" => discovery # "none" /\ ~sessionActive

ViewInv == Served /\ ForgetsRestored /\ ClosedIsShown /\ Shown /\ Settles

ServiceInv == ServiceProven!Inv /\ ServiceProven!Announced

TuneInv == ServiceInv /\ ViewTypeOK /\ ViewInv

-----------------------------------------------------------------------------
(* The service's steps are those that its own proofs are about.            *)

LEMMA SameServiceInit == Service!Init => ServiceProven!Init
BY Zenon DEF Service!Init, ServiceProven!Init, Service!Undialled, ServiceProven!Undialled

LEMMA SameServiceStart ==
    /\ Service!StartApply <=> ServiceProven!StartApply
    /\ Service!StartRevert <=> ServiceProven!StartRevert
    /\ Service!StartClose <=> ServiceProven!StartClose
<1>1. Service!StartApply <=> ServiceProven!StartApply
  BY Zenon DEF Service!StartApply, ServiceProven!StartApply, Service!Go, ServiceProven!Go,
     Service!service, ServiceProven!service
<1>2. Service!StartRevert <=> ServiceProven!StartRevert
  BY Zenon DEF Service!StartRevert, ServiceProven!StartRevert, Service!Go, ServiceProven!Go,
     Service!service, ServiceProven!service
<1>3. Service!StartClose <=> ServiceProven!StartClose
  BY Zenon DEF Service!StartClose, ServiceProven!StartClose
<1>4. QED
  BY <1>1, <1>2, <1>3

Serves ==
    \/ Service!DialApply \/ Service!Install \/ Service!CallApply \/ Service!Applied
    \/ Service!Discard \/ Service!CallRevert \/ Service!Recover \/ Service!Recovered

LEMMA SameServes ==
    ASSUME Serves
    PROVE  ServiceProven!Operation /\ ~ServiceProven!StartApply
<1>1. Service!DialApply <=> ServiceProven!DialApply
  BY Zenon DEF Service!DialApply, ServiceProven!DialApply, Service!Go, ServiceProven!Go,
     Service!Finish, ServiceProven!Finish, Service!service, ServiceProven!service, Service!Dial,
     ServiceProven!Dial, Service!Becomes, ServiceProven!Becomes, Service!Undialled, ServiceProven!Undialled,
     Service!Alive, ServiceProven!Alive
<1>2. Service!Install <=> ServiceProven!Install
  BY Zenon DEF Service!Install, ServiceProven!Install, Service!Go, ServiceProven!Go, Service!Finish,
     ServiceProven!Finish
<1>3. Service!CallApply <=> ServiceProven!CallApply
  BY Zenon DEF Service!CallApply, ServiceProven!CallApply, Service!Go, ServiceProven!Go,
     Service!Finish, ServiceProven!Finish, Service!service, ServiceProven!service,
     Service!ClientApply, ServiceProven!ClientApply, Service!Becomes, ServiceProven!Becomes,
     Service!Die, ServiceProven!Die, Service!Abandon, ServiceProven!Abandon
<1>4. Service!Applied <=> ServiceProven!Applied
  BY Zenon DEF Service!Applied, ServiceProven!Applied, Service!Go, ServiceProven!Go, Service!Finish,
     ServiceProven!Finish
<1>5. Service!Discard <=> ServiceProven!Discard
  BY Zenon DEF Service!Discard, ServiceProven!Discard, Service!Finish, ServiceProven!Finish,
     Service!service, ServiceProven!service, Service!ClientClose, ServiceProven!ClientClose,
     Service!Becomes, ServiceProven!Becomes, Service!Die, ServiceProven!Die, Service!Abandon,
     ServiceProven!Abandon
<1>6. Service!CallRevert <=> ServiceProven!CallRevert
  BY Zenon DEF Service!CallRevert, ServiceProven!CallRevert, Service!Finish, ServiceProven!Finish,
     Service!service, ServiceProven!service, Service!ClientRevert, ServiceProven!ClientRevert,
     Service!Becomes, ServiceProven!Becomes, Service!Die, ServiceProven!Die, Service!Abandon,
     ServiceProven!Abandon
<1>7. Service!Recover <=> ServiceProven!Recover
  BY Zenon DEF Service!Recover, ServiceProven!Recover, Service!Go, ServiceProven!Go, Service!Finish,
     ServiceProven!Finish, Service!service, ServiceProven!service, Service!Dial, ServiceProven!Dial,
     Service!Becomes, ServiceProven!Becomes, Service!Undialled, ServiceProven!Undialled,
     Service!Alive, ServiceProven!Alive
<1>8. Service!Recovered <=> ServiceProven!Recovered
  BY Zenon DEF Service!Recovered, ServiceProven!Recovered, Service!Finish, ServiceProven!Finish,
     Service!ClientClose, ServiceProven!ClientClose, Service!Becomes, ServiceProven!Becomes,
     Service!Die, ServiceProven!Die, Service!Abandon, ServiceProven!Abandon
<1>9. op.at # "none"
  BY DEF Serves, Service!DialApply, Service!Install, Service!CallApply, Service!Applied,
     Service!Discard, Service!CallRevert, Service!Recover, Service!Recovered
<1>10. QED
  BY <1>1, <1>2, <1>3, <1>4, <1>5, <1>6, <1>7, <1>8, <1>9 DEF Serves, ServiceProven!Operation,
     ServiceProven!StartApply

LEMMA SameClosing == Service!Closing => ServiceProven!Closing
<1>1. Service!Join <=> ServiceProven!Join
  BY Zenon DEF Service!Join, ServiceProven!Join, Service!CloseReturns, ServiceProven!CloseReturns,
     Service!service, ServiceProven!service
<1>2. Service!Look <=> ServiceProven!Look
  BY Zenon DEF Service!Look, ServiceProven!Look, Service!CloseReturns, ServiceProven!CloseReturns
<1>3. Service!CallClose <=> ServiceProven!CallClose
  BY Zenon DEF Service!CallClose, ServiceProven!CallClose, Service!ClientClose,
     ServiceProven!ClientClose, Service!Becomes, ServiceProven!Becomes, Service!Die, ServiceProven!Die,
     Service!Abandon, ServiceProven!Abandon, Service!service, ServiceProven!service
<1>4. Service!EndClose <=> ServiceProven!EndClose
  BY Zenon DEF Service!EndClose, ServiceProven!EndClose, Service!CloseReturns,
     ServiceProven!CloseReturns
<1>5. Service!StartClose <=> ServiceProven!StartClose
  BY Zenon DEF Service!StartClose, ServiceProven!StartClose
<1>6. QED
  BY <1>1, <1>2, <1>3, <1>4, <1>5 DEF Service!Closing, ServiceProven!Closing

LEMMA SameSession ==
    ASSUME NEW c \in Clients
    PROVE  /\ Service!HelperEnds(c) <=> ServiceProven!HelperEnds(c)
           /\ Service!LeaseExpires(c) <=> ServiceProven!LeaseExpires(c)
           /\ Service!Watch(c) <=> ServiceProven!Watch(c)
<1>1. Service!HelperEnds(c) <=> ServiceProven!HelperEnds(c)
  BY Zenon DEF Service!HelperEnds, ServiceProven!HelperEnds, Service!Becomes, ServiceProven!Becomes,
     Service!Die, ServiceProven!Die, Service!Alive, ServiceProven!Alive, Service!service,
     ServiceProven!service
<1>2. Service!LeaseExpires(c) <=> ServiceProven!LeaseExpires(c)
  BY Zenon DEF Service!LeaseExpires, ServiceProven!LeaseExpires, Service!Told, ServiceProven!Told,
     Service!Becomes, ServiceProven!Becomes, Service!Die, ServiceProven!Die, Service!service,
     ServiceProven!service
<1>3. Service!Watch(c) <=> ServiceProven!Watch(c)
  BY Zenon DEF Service!Watch, ServiceProven!Watch
<1>4. QED
  BY <1>1, <1>2, <1>3

LEMMA Assumed == NoClient \notin Clients /\ MaxEvents \in Nat
BY ViewAssumption

-----------------------------------------------------------------------------
(* The events under way.                                                   *)

LEMMA CarriesNone == ~Carries(<<>>, Kinds) /\ \A kinds : ~Carries(<<>>, kinds)
BY DEF Carries

LEMMA CarriesOne ==
    ASSUME NEW e, NEW kinds
    PROVE  Carries(<<e>>, kinds) <=> e \in kinds
BY DEF Carries

LEMMA CarriesBoth ==
    ASSUME NEW q \in Seq(Kinds), NEW r \in Seq(Kinds), NEW kinds
    PROVE  Carries(q \o r, kinds) <=> Carries(q, kinds) \/ Carries(r, kinds)
<1>1. /\ q \o r \in Seq(Kinds) /\ Len(q \o r) = Len(q) + Len(r)
      /\ \A i \in 1..Len(q) : i \in 1..Len(q \o r) /\ (q \o r)[i] = q[i]
      /\ \A i \in 1..Len(r) : i + Len(q) \in 1..Len(q \o r) /\ (q \o r)[i + Len(q)] = r[i]
  OBVIOUS
<1>2. \A i \in 1..Len(q \o r) : \/ i \in 1..Len(q) /\ (q \o r)[i] = q[i]
                                \/ \E j \in 1..Len(r) : (q \o r)[i] = r[j]
  <2> SUFFICES ASSUME NEW i \in 1..Len(q \o r), i \notin 1..Len(q) PROVE \E j \in 1..Len(r) : (q \o r)[i] = r[j]
    BY <1>1
  <2>1. i - Len(q) \in 1..Len(r) /\ (i - Len(q)) + Len(q) = i
    BY <1>1
  <2>2. QED
    BY <1>1, <2>1
<1>3. QED
  BY <1>1, <1>2 DEF Carries

LEMMA CarriesHead ==
    ASSUME NEW q \in Seq(Kinds), q # <<>>, NEW kinds
    PROVE  Carries(q, kinds) <=> Head(q) \in kinds \/ Carries(Tail(q), kinds)
<1>1. /\ 1 \in 1..Len(q) /\ Head(q) = q[1]
      /\ \A i \in 1..Len(Tail(q)) : i + 1 \in 1..Len(q) /\ Tail(q)[i] = q[i + 1]
      /\ \A i \in 1..Len(q) : i = 1 \/ \E j \in 1..Len(Tail(q)) : Tail(q)[j] = q[i]
  <2>1. /\ Len(q) \in Nat /\ Len(q) > 0 /\ Len(Tail(q)) = Len(q) - 1 /\ Head(q) = q[1]
        /\ \A i \in 1..Len(Tail(q)) : Tail(q)[i] = q[i + 1]
    OBVIOUS
  <2>2. ASSUME NEW i \in 1..Len(q), i # 1
        PROVE  \E j \in 1..Len(Tail(q)) : Tail(q)[j] = q[i]
    <3>1. i - 1 \in 1..Len(Tail(q)) /\ (i - 1) + 1 = i
      BY <2>1, <2>2
    <3>2. Tail(q)[i - 1] = q[i]
      BY <2>1, <3>1
    <3>3. QED
      BY <3>1, <3>2
  <2>3. QED
    BY <2>1, <2>2
<1>2. ASSUME Carries(q, kinds)
      PROVE  Head(q) \in kinds \/ Carries(Tail(q), kinds)
  BY <1>1, <1>2 DEF Carries
<1>3. ASSUME Head(q) \in kinds \/ Carries(Tail(q), kinds)
      PROVE  Carries(q, kinds)
  BY <1>1, <1>3 DEF Carries
<1>4. QED
  BY <1>2, <1>3

\* What an operation publishes makes the view model show a session or settle.
LEMMA PublishedIs ==
    ASSUME NEW how
    PROVE  /\ Published(how) \in Seq(Kinds)
           /\ ~Carries(Published(how), ServiceProven!Endings)
           /\ Published(how) # <<>> => Carries(Published(how), Settlings)
           /\ how \in {"applied", "lost"} \/ (how = "rollback_incomplete" /\ op.at = "apply") =>
                Carries(Published(how), Showings)
           /\ Published(how) # <<>> =>
                how \in {"applied", "review_changed", "lost"} \/ (how = "rollback_incomplete" /\ op.at = "apply")
<1> DEFINE incomplete == how = "rollback_incomplete" /\ op.at = "apply"
<1>1. /\ how = "applied" => Published(how) = <<"transaction_applied">>
      /\ how = "review_changed" => Published(how) = <<"review_changed">>
      /\ incomplete => Published(how) = <<"rollback_incomplete">>
      /\ how = "lost" => Published(how) = <<"session_terminated">>
      /\ how \notin {"applied", "review_changed", "lost"} /\ ~incomplete => Published(how) = <<>>
  BY Zenon DEF Published
<1>2. \A e \in {"transaction_applied", "review_changed", "rollback_incomplete", "session_terminated"} :
         e \in Kinds /\ e \in Settlings /\ e \notin ServiceProven!Endings
  BY DEF Kinds, Settlings, Service!Events, ServiceProven!Endings
<1>3. ASSUME NEW e \in {"transaction_applied", "review_changed", "rollback_incomplete", "session_terminated"},
             NEW p, p = <<e>>
      PROVE  /\ p \in Seq(Kinds) /\ p # <<>>
             /\ ~Carries(p, ServiceProven!Endings) /\ Carries(p, Settlings)
             /\ e \in Showings => Carries(p, Showings)
  BY <1>2, <1>3, CarriesOne
<1>4. CASE how \in {"applied", "lost"} \/ incomplete
  <2>1. \E e \in {"transaction_applied", "rollback_incomplete", "session_terminated"} : Published(how) = <<e>>
    BY <1>1, <1>4
  <2>2. QED
    BY <1>3, <1>4, <2>1 DEF Showings
<1>5. CASE how = "review_changed"
  BY <1>1, <1>3, <1>5
<1>6. CASE how \notin {"applied", "review_changed", "lost"} /\ ~incomplete
  BY <1>1, <1>6, CarriesNone
<1>7. QED
  BY <1>4, <1>5, <1>6

-----------------------------------------------------------------------------
(* The service's invariant in the composition.                             *)

LEMMA NextIsService ==
    ASSUME ViewNext
    PROVE  ServiceProven!Next \/ UNCHANGED sessionVars
<1>1. CASE Activate \/ Deactivate \/ Stage \/ Reset \/ Review \/ CancelReview
  BY <1>1 DEF Activate, Deactivate, Stage, Reset, Review, CancelReview, serviceVars
<1>2. ASSUME NEW s \in Slots, Confirm(s) \/ ClickRevert(s)
      PROVE  ServiceProven!Next \/ UNCHANGED sessionVars
  <2>1. ServiceProven!StartApply \/ ServiceProven!StartRevert \/ UNCHANGED sessionVars
    BY <1>2, SameServiceStart DEF Confirm, ClickRevert, CallApply, CallRevert, serviceVars
  <2>2. QED
    BY <2>1 DEF ServiceProven!Next, ServiceProven!Operation
<1>3. CASE ClickClose
  BY <1>3, SameServiceStart DEF ClickClose, ServiceProven!Next, ServiceProven!Closing
<1>4. CASE CloseService
  BY <1>4, SameClosing DEF CloseService, ServiceProven!Next
<1>5. CASE EndClose \/ Consume
  BY <1>5 DEF EndClose, Consume, serviceVars
<1>6. ASSUME NEW set, NEW complete, Discovered(set, complete)
      PROVE  UNCHANGED sessionVars
  BY <1>6 DEF Discovered, serviceVars
<1>7. ASSUME NEW s \in Slots, Serve(s)
      PROVE  ServiceProven!Next
  <2>1. Serves
    BY <1>7 DEF Serve, Serves
  <2>2. QED
    BY <2>1, SameServes DEF ServiceProven!Next
<1>8. ASSUME NEW s \in Slots, EndApply(s) \/ EndRevert(s) \/ Cleared(s)
      PROVE  UNCHANGED sessionVars
  BY <1>8 DEF EndApply, EndRevert, Cleared, serviceVars
<1>9. ASSUME NEW c \in Clients, Watch(c) \/ Helper(c)
      PROVE  ServiceProven!Next
  BY <1>9, SameSession DEF Watch, Helper, ServiceProven!Next
<1>10. QED
  BY <1>1, <1>2, <1>3, <1>4, <1>5, <1>6, <1>7, <1>8, <1>9 DEF ViewNext, User, Goroutine

LEMMA SameVars == UNCHANGED sessionVars => UNCHANGED ServiceProven!vars
BY DEF sessionVars, ServiceProven!vars

LEMMA ServiceKeeps ==
    ASSUME ServiceInv, [ViewNext]_viewVars
    PROVE  ServiceInv'
<1>1. ServiceProven!Next \/ UNCHANGED ServiceProven!vars
  BY NextIsService, SameVars DEF viewVars, serviceVars
<1>2. [ServiceProven!Next]_(ServiceProven!vars)
  BY <1>1
<1>3. ServiceProven!Inv'
  BY <1>2, Assumed, ServiceProven!NextInv DEF ServiceInv
<1>4. ServiceProven!Announced'
  BY <1>2, Assumed, ServiceProven!AnnouncedNext DEF ServiceInv
<1>5. QED
  BY <1>3, <1>4 DEF ServiceInv

-----------------------------------------------------------------------------
(* The steps of the view model alone.                                      *)

\* A step that leaves service, events, goroutines and session may only leave a
\* phase that waits, or wait for a discovery.
LEMMA PageKeeps ==
    ASSUME TuneInv, UNCHANGED <<serviceVars, calls, sessionActive, closing>>,
           phase' \in Phases, caps' \in Generations \cup {"none"},
           discovery' \in {"none", "running", "privileged"},
           phase' \in Busy => phase' = phase,
           phase' = "discovering" => discovery' # "none" /\ ~sessionActive
    PROVE  ViewTypeOK' /\ ViewInv'
<1>1. UNCHANGED <<tuned, sess, client, closed, recoveryNeeded, op, stream, calls, sessionActive, closing>>
  BY DEF serviceVars, sessionVars
<1>2. ViewTypeOK'
  BY <1>1 DEF TuneInv, ViewTypeOK
<1>3. ServiceProven!MayTune' <=> ServiceProven!MayTune
  BY <1>1 DEF ServiceProven!MayTune
<1>4. Served' /\ Shown'
  BY <1>1 DEF TuneInv, ViewInv, Served, Shown, Carries
<1>5. ForgetsRestored' /\ ClosedIsShown'
  BY <1>1, <1>3 DEF TuneInv, ViewInv, ForgetsRestored, Forgets, ClosedIsShown, Carries, At, ServiceProven!Endings
<1>6. Settles'
  BY <1>1 DEF TuneInv, ViewInv, Settles, Carries, At, Busy
<1>7. QED
  BY <1>2, <1>4, <1>5, <1>6 DEF ViewInv

LEMMA PageStep ==
    ASSUME TuneInv, Activate \/ Deactivate \/ Stage \/ Reset \/ Review \/ CancelReview
    PROVE  ViewTypeOK' /\ ViewInv'
<1>1. /\ phase \in Phases /\ caps \in Generations \cup {"none"} /\ sessionActive \in BOOLEAN
      /\ discovery \in {"none", "running", "privileged"}
      /\ phase = "discovering" => discovery # "none" /\ ~sessionActive
  BY DEF TuneInv, ViewTypeOK, ViewInv, Settles
<1>2. UNCHANGED <<serviceVars, calls, sessionActive, closing, caps>>
  BY DEF Activate, Deactivate, Stage, Reset, Review, CancelReview, pageVars
<1>3. CASE Activate
  <2>1. discovery' \in {"running", "privileged"} /\ phase' \in {phase, "discovering"}
        /\ (phase' # phase => ~sessionActive)
    BY <1>1, <1>3 DEF Activate
  <2>2. QED
    BY <1>1, <1>2, <2>1, PageKeeps DEF Phases, Busy
<1>4. CASE Deactivate
  <2>1. discovery' = "none" /\ phase' \in {phase, "idle"} /\ phase' # "discovering"
    BY <1>4 DEF Deactivate
  <2>2. QED
    BY <1>1, <1>2, <2>1, PageKeeps DEF Phases, Busy
<1>5. CASE Stage \/ Reset \/ Review \/ CancelReview
  <2>1. discovery' = discovery /\ phase' \in {phase, "staged", "idle", "reviewing"}
    BY <1>5 DEF Stage, Reset, Review, CancelReview, pageVars
  <2>2. QED
    BY <1>1, <1>2, <2>1, PageKeeps DEF Phases, Busy
<1>6. QED
  BY <1>3, <1>4, <1>5

LEMMA DiscoveredStep ==
    ASSUME TuneInv, NEW set \in Generations, NEW complete \in BOOLEAN, Discovered(set, complete)
    PROVE  ViewTypeOK' /\ ViewInv'
<1>1. /\ phase \in Phases /\ caps \in Generations \cup {"none"} /\ sessionActive \in BOOLEAN
      /\ discovery \in {"none", "running", "privileged"}
      /\ phase = "discovering" => discovery # "none" /\ ~sessionActive
  BY DEF TuneInv, ViewTypeOK, ViewInv, Settles
<1>2. UNCHANGED <<serviceVars, calls, sessionActive, closing>> /\ caps' = set
  BY DEF Discovered
<1>3. /\ discovery' = IF complete THEN "none" ELSE discovery
      /\ phase' = IF complete /\ ~sessionActive /\ phase # "rollback_incomplete"
                  THEN IF pending THEN "staged" ELSE "idle"
                  ELSE phase
  BY DEF Discovered
<1>4. phase' \in {phase, "staged", "idle"} /\ (phase' = "discovering" => discovery' # "none" /\ ~sessionActive)
  BY <1>1, <1>3
<1>5. discovery' \in {"none", "running", "privileged"}
  BY <1>1, <1>3
<1>6. QED
  BY <1>1, <1>2, <1>4, <1>5, PageKeeps DEF Phases, Busy

\* The goroutine of s goes away.
LEMMA Gone ==
    ASSUME ViewTypeOK, NEW s \in Slots, calls' = [calls EXCEPT ![s] = NoCall]
    PROVE  /\ calls' \in [Slots -> Calls] /\ calls'[s].kind = "none" /\ calls'[s].at = "none"
           /\ \A t \in Slots : t # s => calls'[t] = calls[t]
BY DEF ViewTypeOK, Calls, NoCall

\* What holds of the goroutines when one that has returned goes on.
LEMMA OneLess ==
    ASSUME TuneInv, NEW s \in Slots, calls[s].at # "service", calls' \in [Slots -> Calls],
           \A t \in Slots : t # s => calls'[t] = calls[t],
           calls'[s].at \notin {"service", "returned"}, calls'[s].at = "none" <=> calls'[s].kind = "none",
           UNCHANGED <<serviceVars, pageVars, caps>>, phase' \in Phases, sessionActive' \in BOOLEAN
    PROVE  /\ ViewTypeOK' /\ Served' /\ (ServiceProven!MayTune' <=> ServiceProven!MayTune)
           /\ Forgets' => Forgets \/ calls'[s].at = "cleared"
           /\ \A kinds : Carries(stream, kinds)' <=> Carries(stream, kinds)
           /\ UNCHANGED <<tuned, op, closed, closing, discovery, stream>>
<1>1. UNCHANGED <<tuned, sess, closed, op, stream, closing, caps, discovery>>
  BY DEF serviceVars, sessionVars, pageVars
<1>2. ViewTypeOK'
  BY <1>1 DEF TuneInv, ViewTypeOK
<1>3. Served'
  BY <1>1 DEF TuneInv, ViewInv, Served
<1>4. ServiceProven!MayTune' <=> ServiceProven!MayTune
  BY <1>1 DEF ServiceProven!MayTune
<1>5. \A kinds : Carries(stream, kinds)' <=> Carries(stream, kinds)
  BY <1>1 DEF Carries
<1>6. Forgets' => Forgets \/ calls'[s].at = "cleared"
  BY <1>1 DEF Forgets, At, Carries, ServiceProven!Endings
<1>7. QED
  BY <1>1, <1>2, <1>3, <1>4, <1>5, <1>6

LEMMA EndApplyStep ==
    ASSUME TuneInv, NEW s \in Slots, EndApply(s)
    PROVE  ViewTypeOK' /\ ViewInv'
<1> DEFINE result == calls[s].result
<1>1. /\ calls[s].kind = "apply" /\ calls[s].at = "returned"
      /\ sessionActive \in BOOLEAN /\ phase \in Phases
      /\ calls \in [Slots -> Calls] /\ calls' = [calls EXCEPT ![s] = NoCall]
      /\ sessionActive' = (sessionActive \/ result = "incomplete")
      /\ UNCHANGED <<serviceVars, pageVars, caps>>
  BY DEF EndApply, At, TuneInv, ViewTypeOK
<1>2. \/ result = "ok" /\ phase = "authorizing" /\ phase' = "applying" /\ sessionActive' = sessionActive
      \/ result = "ok" /\ phase # "authorizing" /\ phase' = phase /\ sessionActive' = sessionActive
      \/ phase' \in {"rollback_incomplete", "staged", "failed"}
  <2>1. \/ result = "ok" /\ phase = "authorizing" /\ phase' = "applying"
        \/ result = "ok" /\ phase # "authorizing" /\ phase' = phase
        \/ phase' \in {"rollback_incomplete", "staged", "failed"}
    BY Zenon DEF EndApply
  <2>2. result = "ok" => sessionActive' = sessionActive
    BY <1>1
  <2>3. QED
    BY <2>1, <2>2
<1>3. /\ calls' \in [Slots -> Calls] /\ calls'[s].kind = "none" /\ calls'[s].at = "none"
      /\ \A t \in Slots : t # s => calls'[t] = calls[t]
  BY <1>1, Gone DEF TuneInv
<1>4. phase' \in Phases /\ sessionActive' \in BOOLEAN
  BY <1>1, <1>2 DEF Phases, Busy
<1>5. /\ ViewTypeOK' /\ Served' /\ (ServiceProven!MayTune' <=> ServiceProven!MayTune)
      /\ Forgets' => Forgets
      /\ \A kinds : Carries(stream, kinds)' <=> Carries(stream, kinds)
      /\ UNCHANGED <<tuned, op, closed, closing, discovery, stream>>
  BY <1>1, <1>3, <1>4, OneLess
<1>6. ForgetsRestored' /\ ClosedIsShown'
  BY <1>1, <1>5 DEF TuneInv, ViewInv, ForgetsRestored, ClosedIsShown
<1>7. Shown'
  BY <1>1, <1>5 DEF TuneInv, ViewInv, Shown
<1>8. Settles'
  <2>1. result = "ok" /\ phase = "authorizing" => Carries(stream, Settlings)
    BY <1>1 DEF TuneInv, ViewInv, Settles, At
  <2>2. CASE phase' = "applying" /\ phase = "authorizing" /\ result = "ok"
    BY <1>5, <2>1, <2>2 DEF Settles, Settlings, Kinds
  <2>3. CASE phase' = phase /\ phase # "authorizing" /\ sessionActive' = sessionActive
    BY <1>1, <1>3, <1>5, <2>3 DEF TuneInv, ViewInv, Settles, Settlings, Kinds
  <2>4. CASE phase' \in {"rollback_incomplete", "staged", "failed"}
    BY <2>4 DEF Settles
  <2>5. QED
    BY <1>2, <2>2, <2>3, <2>4
<1>9. QED
  BY <1>5, <1>6, <1>7, <1>8 DEF ViewInv

LEMMA EndRevertStep ==
    ASSUME TuneInv, NEW s \in Slots, EndRevert(s)
    PROVE  ViewTypeOK' /\ ViewInv'
<1>1. /\ calls[s].kind = "revert" /\ calls[s].at = "returned"
      /\ sessionActive \in BOOLEAN /\ phase \in Phases
      /\ calls \in [Slots -> Calls]
      /\ UNCHANGED <<serviceVars, pageVars, caps>>
  BY DEF EndRevert, At, TuneInv, ViewTypeOK
<1>2. CASE calls[s].result = "ok"
  <2>1. calls' = [calls EXCEPT ![s].at = "cleared"] /\ sessionActive' = FALSE /\ phase' = phase
    BY <1>2 DEF EndRevert
  <2>2. /\ calls' \in [Slots -> Calls] /\ calls'[s].kind = "revert" /\ calls'[s].at = "cleared"
        /\ \A t \in Slots : t # s => calls'[t] = calls[t]
    BY <1>1, <2>1 DEF Calls
  <2>3. /\ ViewTypeOK' /\ Served' /\ (ServiceProven!MayTune' <=> ServiceProven!MayTune)
        /\ \A kinds : Carries(stream, kinds)' <=> Carries(stream, kinds)
        /\ UNCHANGED <<tuned, op, closed, closing, discovery, stream>>
    BY <1>1, <2>1, <2>2, OneLess
  <2>4. ~ServiceProven!MayTune
    BY <1>1, <1>2 DEF TuneInv, ViewInv, ForgetsRestored, Forgets, At
  <2>5. ForgetsRestored' /\ ClosedIsShown'
    BY <2>3, <2>4 DEF ForgetsRestored, ClosedIsShown
  <2>6. Shown'
    BY <2>3, <2>4 DEF Shown, ServiceProven!MayTune
  <2>7. Settles'
    BY <1>1, <2>1, <2>2, <2>3 DEF TuneInv, ViewInv, Settles, At, Settlings, Kinds
  <2>8. QED
    BY <2>3, <2>5, <2>6, <2>7 DEF ViewInv
<1>3. CASE calls[s].result # "ok"
  <2>1. calls' = [calls EXCEPT ![s] = NoCall] /\ sessionActive' = TRUE /\ phase' = "rollback_incomplete"
    BY <1>3 DEF EndRevert
  <2>2. /\ calls' \in [Slots -> Calls] /\ calls'[s].kind = "none" /\ calls'[s].at = "none"
        /\ \A t \in Slots : t # s => calls'[t] = calls[t]
    BY <2>1, Gone DEF TuneInv
  <2>3. /\ ViewTypeOK' /\ Served' /\ (ServiceProven!MayTune' <=> ServiceProven!MayTune) /\ (Forgets' => Forgets)
    BY <1>1, <2>1, <2>2, OneLess DEF Phases
  <2>4. ForgetsRestored' /\ ClosedIsShown' /\ Shown' /\ Settles'
    BY <2>1, <2>3 DEF TuneInv, ViewInv, ForgetsRestored, ClosedIsShown, Shown, Settles
  <2>5. QED
    BY <2>3, <2>4 DEF ViewInv
<1>4. QED
  BY <1>2, <1>3

LEMMA ClearedStep ==
    ASSUME TuneInv, NEW s \in Slots, Cleared(s)
    PROVE  ViewTypeOK' /\ ViewInv'
<1>1. /\ calls[s].kind = "revert" /\ calls[s].at = "cleared"
      /\ calls' = [calls EXCEPT ![s] = NoCall] /\ phase' = "idle"
      /\ UNCHANGED <<serviceVars, pageVars, caps>> /\ sessionActive' = sessionActive
      /\ sessionActive \in BOOLEAN
  BY DEF Cleared, At, TuneInv, ViewTypeOK
<1>2. /\ calls' \in [Slots -> Calls] /\ calls'[s].kind = "none" /\ calls'[s].at = "none"
      /\ \A t \in Slots : t # s => calls'[t] = calls[t]
  BY <1>1, Gone DEF TuneInv
<1>3. /\ ViewTypeOK' /\ Served' /\ (ServiceProven!MayTune' <=> ServiceProven!MayTune) /\ (Forgets' => Forgets)
      /\ \A kinds : Carries(stream, kinds)' <=> Carries(stream, kinds)
      /\ UNCHANGED <<tuned, op, closed, closing, discovery, stream>>
  BY <1>1, <1>2, OneLess DEF Phases
<1>4. ForgetsRestored' /\ ClosedIsShown' /\ Settles'
  BY <1>1, <1>3 DEF TuneInv, ViewInv, ForgetsRestored, ClosedIsShown, Settles
<1>5. Shown'
  BY <1>1, <1>3 DEF TuneInv, ViewInv, Shown
<1>6. QED
  BY <1>3, <1>4, <1>5 DEF ViewInv

-----------------------------------------------------------------------------
(* The steps beneath the view model: the window's Close, the watchers and  *)
(* the helpers, which leave the operation in the service where it is.      *)

\* A step that leaves the operation where it is starts and applies nothing.
LEMMA NotOperating ==
    ASSUME TuneInv, ServiceProven!Next, op' = op
    PROVE  (tuned' => tuned) /\ (ServiceProven!MayTune' => ServiceProven!MayTune)
<1>1. ServiceProven!Inv /\ op \in ServiceProven!Operations
  BY DEF TuneInv, ServiceInv, ServiceProven!Inv, ServiceProven!TypeOK
<1>2. ~ServiceProven!CallApply
  <2> SUFFICES ASSUME ServiceProven!CallApply
               PROVE  FALSE
    OBVIOUS
  <2>1. ServiceProven!Operation /\ op.at = "apply"
    BY DEF ServiceProven!Operation, ServiceProven!CallApply
  <2>2. op'.at # op.at
    BY <1>1, <2>1, Assumed, ServiceProven!Outcomes
  <2>3. QED
    BY <2>2
<1>3. ~ServiceProven!StartApply
  <2> SUFFICES ASSUME ServiceProven!StartApply
               PROVE  FALSE
    OBVIOUS
  <2>1. op.at = "none" /\ client \in ServiceProven!MaybeClient
    BY <1>1 DEF ServiceProven!StartApply, ServiceProven!Inv, ServiceProven!TypeOK
  <2>2. ServiceProven!Go("dial", client) \/ ServiceProven!Go("apply", client)
    BY DEF ServiceProven!StartApply
  <2>3. op'.at \in {"dial", "apply"}
    BY <1>1, <2>1, <2>2, Assumed, ServiceProven!Went
  <2>4. QED
    BY <2>1, <2>3
<1>4. tuned' => tuned
  BY <1>1, <1>2, Assumed, ServiceProven!OnlyApplyTunes
<1>5. ~ServiceProven!MayTune => ~ServiceProven!MayTune'
  BY <1>1, <1>3, Assumed, ServiceProven!TunesOnly
<1>6. QED
  BY <1>4, <1>5

\* A step beneath the view model may announce more, and only what is true.
LEMMA BeneathKeeps ==
    ASSUME TuneInv, ServiceProven!Next, op' = op, UNCHANGED <<stateVars, calls, discovery>>,
           closing' \in {"none", "service", "failed", "closed"},
           (closing' = closing /\ closed' = closed) \/ closing' # "none",
           stream' \in Seq(Kinds),
           \A kinds : Carries(stream, kinds) => Carries(stream, kinds)',
           Carries(stream, ServiceProven!Endings)' => Carries(stream, ServiceProven!Endings) \/ ~ServiceProven!MayTune
    PROVE  ViewTypeOK' /\ ViewInv'
<1>1. UNCHANGED <<phase, sessionActive, caps, calls, discovery>>
  BY DEF stateVars
<1>2. (tuned' => tuned) /\ (ServiceProven!MayTune' => ServiceProven!MayTune)
  BY NotOperating
<1>3. ViewTypeOK'
  BY <1>1 DEF TuneInv, ViewTypeOK
<1>4. Served'
  BY <1>1 DEF TuneInv, ViewInv, Served
<1>5. Forgets' => Forgets \/ ~ServiceProven!MayTune
  <2>1. Forgets' <=> \/ Carries(stream, ServiceProven!Endings)'
                     \/ \E s \in Slots : At(s, "revert", "returned") /\ calls[s].result = "ok"
                     \/ \E s \in Slots : At(s, "revert", "cleared")
    BY <1>1 DEF Forgets, At
  <2>2. QED
    BY <2>1 DEF Forgets
<1>6. ForgetsRestored'
  BY <1>2, <1>5 DEF TuneInv, ViewInv, ForgetsRestored
<1>7. ClosedIsShown'
  BY <1>1, <1>2 DEF TuneInv, ViewInv, ClosedIsShown
<1>8. Shown'
  BY <1>1, <1>2 DEF TuneInv, ViewInv, Shown
<1>9. Settles'
  BY <1>1 DEF TuneInv, ViewInv, Settles, At
<1>10. QED
  BY <1>3, <1>4, <1>6, <1>7, <1>8, <1>9 DEF ViewInv

LEMMA CloseStep ==
    ASSUME TuneInv, ClickClose \/ CloseService
    PROVE  ViewTypeOK' /\ ViewInv'
<1>1. ServiceProven!Next
  BY SameServiceStart, SameClosing DEF ClickClose, CloseService, ServiceProven!Next, ServiceProven!Closing
<1>2. closing' \in {"service", "closed", "failed"}
  BY DEF ClickClose, CloseService
<1>3. UNCHANGED <<stateVars, calls, discovery, stream>>
  BY DEF ClickClose, CloseService
<1>4. op' = op
  BY DEF ClickClose, CloseService, Service!StartClose, Service!Closing, Service!Join, Service!Look,
     Service!CallClose, Service!EndClose
<1>5. /\ stream' \in Seq(Kinds)
      /\ \A kinds : Carries(stream, kinds)' <=> Carries(stream, kinds)
  BY <1>3 DEF TuneInv, ViewTypeOK, Carries
<1>6. Carries(stream, ServiceProven!Endings)' <=> Carries(stream, ServiceProven!Endings)
  BY <1>3 DEF Carries, ServiceProven!Endings
<1>7. QED
  BY <1>1, <1>2, <1>3, <1>4, <1>5, <1>6, BeneathKeeps

LEMMA HelperStep ==
    ASSUME TuneInv, NEW c \in Clients, Helper(c)
    PROVE  ViewTypeOK' /\ ViewInv'
<1>1. ServiceProven!Next
  BY SameSession DEF Helper, ServiceProven!Next
<1>2. UNCHANGED <<stateVars, calls, discovery, stream, closing>>
  BY DEF Helper, pageVars
<1>3. op' = op /\ closed' = closed
  BY DEF Helper, Service!HelperEnds, Service!LeaseExpires, Service!service
<1>4. /\ stream' \in Seq(Kinds) /\ closing \in {"none", "service", "failed", "closed"}
      /\ \A kinds : Carries(stream, kinds)' <=> Carries(stream, kinds)
  BY <1>2 DEF TuneInv, ViewTypeOK, Carries
<1>5. Carries(stream, ServiceProven!Endings)' <=> Carries(stream, ServiceProven!Endings)
  BY <1>2 DEF Carries, ServiceProven!Endings
<1>6. QED
  BY <1>1, <1>2, <1>3, <1>4, <1>5, BeneathKeeps

\* The events of the service's session are published, in their order.
LEMMA WatchStep ==
    ASSUME TuneInv, NEW c \in Clients, Watch(c)
    PROVE  ViewTypeOK' /\ ViewInv'
<1> DEFINE e == Head(sess[c].events)
<1>1. ServiceProven!Next
  BY SameSession DEF Watch, ServiceProven!Next
<1>2. UNCHANGED <<stateVars, calls, discovery, closing>>
  BY DEF Watch, pageVars
<1>3. op' = op /\ closed' = closed /\ sess[c].events # <<>>
  BY DEF Watch, Service!Watch
<1>4. stream \in Seq(Kinds) /\ closing \in {"none", "service", "failed", "closed"}
  BY DEF TuneInv, ViewTypeOK
<1>5. sess[c].events \in Seq(ServiceProven!Events)
  BY DEF TuneInv, ServiceInv, ServiceProven!Inv, ServiceProven!TypeOK, ServiceProven!Sessions
<1>6. e \in Kinds
  BY <1>3, <1>5 DEF Kinds, Service!Events, ServiceProven!Events
<1>7. CASE client = c
  <2>1. stream' = Append(stream, e)
    BY <1>7 DEF Watch
  <2> HIDE DEF e
  <2>2. stream' = stream \o <<e>> /\ <<e>> \in Seq(Kinds) /\ stream' \in Seq(Kinds)
    BY <1>4, <1>6, <2>1
  <2>3. \A kinds : Carries(stream \o <<e>>, kinds) <=> Carries(stream, kinds) \/ e \in kinds
    BY <1>4, <2>2, CarriesBoth, CarriesOne
  <2>4. \A kinds : Carries(stream, kinds)' <=> Carries(stream \o <<e>>, kinds)
    BY <2>2 DEF Carries
  <2>5. Carries(stream, ServiceProven!Endings)' <=> Carries(stream \o <<e>>, ServiceProven!Endings)
    BY <2>2 DEF Carries, ServiceProven!Endings
  <2>6. e \in ServiceProven!Endings => ~ServiceProven!MayTune
    <3>1. ServiceProven!Inv /\ ServiceProven!Announced
      BY DEF TuneInv, ServiceInv
    <3>2. QED
      BY <1>3, <1>7, <3>1, Assumed, ServiceProven!EndingIsTrue DEF e
  <2>7. QED
    BY <1>1, <1>2, <1>3, <1>4, <2>2, <2>3, <2>4, <2>5, <2>6, BeneathKeeps
<1>8. CASE client # c
  <2>1. stream' = stream
    BY <1>8 DEF Watch
  <2>2. \A kinds : Carries(stream, kinds)' <=> Carries(stream, kinds)
    BY <2>1 DEF Carries
  <2>3. Carries(stream, ServiceProven!Endings)' <=> Carries(stream, ServiceProven!Endings)
    BY <2>1 DEF Carries, ServiceProven!Endings
  <2>4. QED
    BY <1>1, <1>2, <1>3, <1>4, <2>1, <2>2, <2>3, BeneathKeeps
<1>9. QED
  BY <1>7, <1>8

\* A window that could not be closed is shown as a session.
LEMMA EndCloseStep ==
    ASSUME TuneInv, EndClose
    PROVE  ViewTypeOK' /\ ViewInv'
<1>1. /\ phase' = "rollback_incomplete" /\ sessionActive' = TRUE /\ closing' = "none"
      /\ UNCHANGED <<tuned, sess, closed, op, stream, caps, discovery, calls>>
  BY DEF EndClose, Incomplete, serviceVars, sessionVars
<1>2. ViewTypeOK' /\ Served'
  BY <1>1 DEF TuneInv, ViewTypeOK, ViewInv, Served, Phases
<1>3. ForgetsRestored'
  <2>1. ServiceProven!MayTune' <=> ServiceProven!MayTune
    BY <1>1 DEF ServiceProven!MayTune
  <2>2. Forgets' => Forgets
    BY <1>1 DEF Forgets, At, Carries, ServiceProven!Endings
  <2>3. QED
    BY <2>1, <2>2 DEF TuneInv, ViewInv, ForgetsRestored
<1>4. ClosedIsShown' /\ Shown' /\ Settles'
  BY <1>1 DEF ClosedIsShown, Shown, Settles
<1>5. QED
  BY <1>2, <1>3, <1>4 DEF ViewInv

-----------------------------------------------------------------------------
(* The consumer of the service's events.                                   *)

\* What an event does to the state: only an ending makes the view model forget.
LEMMA Consumes ==
    ASSUME TuneInv, Consume
    PROVE  \/ Head(stream) = "review_changed" /\ phase' = "staged" /\ sessionActive' = sessionActive
           \/ Head(stream) = "transaction_applied" /\ phase' = "active" /\ sessionActive' = TRUE
           \/ /\ Head(stream) \in {"rollback_incomplete", "session_terminated"}
              /\ phase' = "rollback_incomplete" /\ sessionActive' = TRUE
           \/ Head(stream) \in ServiceProven!Endings /\ phase' = "idle" /\ sessionActive' = FALSE
           \/ /\ Head(stream) = "session_closed"
              /\ phase' = phase /\ sessionActive' = sessionActive
<1> DEFINE kind == Head(stream)
<1>1. stream \in Seq(Kinds) /\ stream # <<>>
  BY DEF TuneInv, ViewTypeOK, Consume
<1>2. kind \in Kinds
  BY <1>1
<1> DEFINE changed == phase' = "staged" /\ sessionActive' = sessionActive
           applied == phase' = "active" /\ sessionActive' = TRUE
           left == phase' = phase /\ sessionActive' = sessionActive
           known == \/ kind = "review_changed" \/ kind = "transaction_applied"
                    \/ kind \in {"rollback_incomplete", "session_terminated"}
           forgotten == kind = "rollback_complete" \/ (kind = "session_closed" /\ sessionActive)
<1>3. \/ kind = "review_changed" /\ changed
      \/ kind = "transaction_applied" /\ applied
      \/ kind \in {"rollback_incomplete", "session_terminated"} /\ Incomplete
      \/ forgotten /\ Clear
      \/ ~known /\ ~forgotten /\ left
  BY Zenon DEF Consume
<1> HIDE DEF kind
<1>4. \/ kind = "review_changed" /\ phase' = "staged" /\ sessionActive' = sessionActive
      \/ kind = "transaction_applied" /\ phase' = "active" /\ sessionActive' = TRUE
      \/ /\ kind \in {"rollback_incomplete", "session_terminated"}
         /\ phase' = "rollback_incomplete" /\ sessionActive' = TRUE
      \/ kind \in ServiceProven!Endings /\ phase' = "idle" /\ sessionActive' = FALSE
      \/ kind = "session_closed" /\ phase' = phase /\ sessionActive' = sessionActive
  BY <1>2, <1>3 DEF Kinds, Service!Events, ServiceProven!Endings, Incomplete, Clear
<1>5. QED
  BY <1>4 DEF kind

LEMMA ConsumeStep ==
    ASSUME TuneInv, Consume
    PROVE  ViewTypeOK' /\ ViewInv'
<1>1. /\ stream \in Seq(Kinds) /\ stream # <<>> /\ stream' = Tail(stream)
      /\ UNCHANGED <<tuned, sess, closed, op, discovery, closing, calls>>
      /\ sessionActive \in BOOLEAN /\ phase \in Phases
  BY DEF TuneInv, ViewTypeOK, Consume, sessionVars, pageVars
<1>2. /\ stream' \in Seq(Kinds)
      /\ \A kinds : Carries(stream, kinds) <=> Head(stream) \in kinds \/ Carries(Tail(stream), kinds)
  BY <1>1, CarriesHead
<1>3. \A kinds : Carries(stream, kinds)' <=> Carries(Tail(stream), kinds)
  BY <1>1 DEF Carries
<1>4. Carries(stream, ServiceProven!Endings)' => Carries(stream, ServiceProven!Endings)
  <2>1. Carries(stream, ServiceProven!Endings)' => Carries(Tail(stream), ServiceProven!Endings)
    BY <1>1 DEF Carries, ServiceProven!Endings
  <2>2. QED
    BY <1>2, <2>1
<1>5. Head(stream) \in ServiceProven!Endings => Forgets
  BY <1>2 DEF Forgets
<1>6. (ServiceProven!MayTune' <=> ServiceProven!MayTune) /\ (Forgets => ~ServiceProven!MayTune)
  BY <1>1 DEF ServiceProven!MayTune, TuneInv, ViewInv, ForgetsRestored
<1>7. \/ Head(stream) = "review_changed" /\ phase' = "staged" /\ sessionActive' = sessionActive
      \/ Head(stream) = "transaction_applied" /\ phase' = "active" /\ sessionActive' = TRUE
      \/ /\ Head(stream) \in {"rollback_incomplete", "session_terminated"}
         /\ phase' = "rollback_incomplete" /\ sessionActive' = TRUE
      \/ Head(stream) \in ServiceProven!Endings /\ phase' = "idle" /\ sessionActive' = FALSE
      \/ /\ Head(stream) = "session_closed"
         /\ phase' = phase /\ sessionActive' = sessionActive
  BY Consumes
<1>8. ViewTypeOK' /\ Served'
  <2>1. caps' \in {caps, "privileged"}
    BY DEF Consume
  <2>2. phase' \in Phases /\ sessionActive' \in BOOLEAN
    BY <1>1, <1>7 DEF Phases
  <2>3. QED
    BY <1>1, <1>2, <2>1, <2>2 DEF TuneInv, ViewTypeOK, ViewInv, Served, Generations
<1>9. ForgetsRestored'
  <2>1. Forgets' => Forgets
    BY <1>1, <1>4 DEF Forgets, At
  <2>2. QED
    BY <1>6, <2>1 DEF ForgetsRestored
<1>10. ClosedIsShown'
  <2>1. ClosedIsShown
    BY DEF TuneInv, ViewInv
  <2>2. QED
    BY <1>1, <1>5, <1>6, <1>7, <2>1 DEF ClosedIsShown
<1>11. Shown'
  <2>1. Shown /\ (tuned => ServiceProven!MayTune)
    BY DEF TuneInv, ViewInv, ServiceProven!MayTune
  <2>2. CASE sessionActive'
    BY <2>2 DEF Shown
  <2>3. CASE Head(stream) \in ServiceProven!Endings
    BY <1>1, <1>5, <1>6, <2>1, <2>3 DEF Shown
  <2>4. CASE Head(stream) \in {"review_changed", "session_closed"} /\ sessionActive' = sessionActive
    <3>1. Carries(stream, Showings) => Carries(stream, Showings)'
      BY <1>2, <1>3, <2>4 DEF Showings
    <3>2. QED
      BY <1>1, <2>1, <2>4, <3>1 DEF Shown
  <2>5. QED
    BY <1>7, <2>2, <2>3, <2>4
<1>12. Settles'
  <2>1. CASE phase' \in {"staged", "active", "rollback_incomplete", "idle"}
    BY <2>1 DEF Settles
  <2>2. CASE Head(stream) = "session_closed" /\ phase' = phase /\ sessionActive' = sessionActive
    <3>1. Carries(stream, Settlings) => Carries(Tail(stream), Settlings)
      BY <1>2, <2>2 DEF Settlings
    <3>2. Carries(stream, Settlings) => Carries(stream, Settlings)'
      BY <1>3, <3>1 DEF Settlings, Kinds, Service!Events
    <3>3. QED
      BY <1>1, <2>2, <3>2 DEF TuneInv, ViewInv, Settles, At
  <2>3. QED
    BY <1>7, <2>1, <2>2
<1>13. QED
  BY <1>8, <1>9, <1>10, <1>11, <1>12 DEF ViewInv

-----------------------------------------------------------------------------
(* The buttons that start a goroutine.                                     *)

\* A new goroutine of Apply or Revert, that waits for the service or was refused.
LEMMA CalledIs ==
    ASSUME ViewTypeOK, NEW s \in Slots, NEW kind \in {"apply", "revert"},
           NEW result \in {"none", "ok", "failed"}, Called(s, kind, result)
    PROVE  /\ calls' \in [Slots -> Calls]
           /\ calls[s].at = "none" /\ calls'[s].kind = kind /\ calls'[s].result = result
           /\ calls'[s].at = (IF result = "none" THEN "service" ELSE "returned")
           /\ \A t \in Slots : t # s => calls'[t] = calls[t]
<1> DEFINE new == [kind |-> kind, generation |-> caps, result |-> result,
                   at |-> IF result = "none" THEN "service" ELSE "returned"]
<1>1. calls' = [calls EXCEPT ![s] = new] /\ calls[s] = NoCall
  BY DEF Called
<1>2. new \in Calls /\ new.kind = kind /\ new.result = result
      /\ new.at = (IF result = "none" THEN "service" ELSE "returned")
  BY DEF ViewTypeOK, Calls
<1> HIDE DEF new
<1>3. QED
  BY <1>1, <1>2 DEF ViewTypeOK, NoCall

\* A click is prompt: nothing that was returned or published is still to be written,
\* so that the phase it shows is not overwritten by what went before.
LEMMA CalledStep ==
    ASSUME TuneInv, Prompt, NEW s \in Slots, NEW kind \in {"apply", "revert"},
           NEW result \in {"none", "ok", "failed"}, Called(s, kind, result),
           UNCHANGED <<sessionActive, caps, discovery, closing>>,
           kind = "apply" => phase' = "authorizing" /\ result # "ok",
           kind = "revert" => phase' = "rolling_back",
           UNCHANGED <<tuned, closed, stream>>,
           result = "none" => /\ op.at = "none" /\ ~closed
                              /\ kind = "apply" => op'.at \in Applies
                              /\ kind = "revert" => op'.at \in Reverts,
           result # "none" => sess' = sess /\ op' = op,
           result = "ok" => ~ServiceProven!MayTune
    PROVE  ViewTypeOK' /\ ViewInv'
<1>1. UNCHANGED <<sessionActive, caps, discovery, closing>>
  OBVIOUS
<1>2. /\ calls' \in [Slots -> Calls]
      /\ calls[s].at = "none" /\ calls'[s].kind = kind /\ calls'[s].result = result
      /\ calls'[s].at = (IF result = "none" THEN "service" ELSE "returned")
      /\ \A t \in Slots : t # s => calls'[t] = calls[t]
  BY CalledIs DEF TuneInv
<1>3. ViewTypeOK'
  BY <1>1, <1>2 DEF TuneInv, ViewTypeOK, Phases, Busy
<1>4. /\ stream = <<>> /\ stream' = <<>>
      /\ \A t \in Slots : calls[t].at \notin {"returned", "cleared"}
      /\ \A kinds : ~Carries(<<>>, kinds)
  BY CarriesNone DEF Prompt
<1>5. ASSUME NEW t \in Slots, calls[t].at = "service"
      PROVE  op.at # "none"
  <2>1. calls[t].kind \in {"apply", "revert"}
    BY <1>5 DEF TuneInv, ViewTypeOK, Calls
  <2>2. QED
    BY <1>5, <2>1 DEF TuneInv, ViewInv, Served, Applies, Reverts
<1>6. Served'
  <2>1. CASE result = "none"
    <3>1. \A t \in Slots : calls[t].at # "service"
      BY <1>5, <2>1
    <3>2. \A t \in Slots : calls'[t].at = "service" => t = s
      BY <1>2, <3>1
    <3>3. QED
      BY <1>2, <2>1, <3>2 DEF Served
  <2>2. CASE result # "none"
    <3>1. \A t \in Slots : calls'[t].at = "service" => t # s /\ calls'[t] = calls[t]
      BY <1>2, <2>2
    <3>2. \A t \in Slots : calls[t].at = "service" => t # s /\ calls'[t] = calls[t]
      BY <1>2
    <3>3. op' = op /\ Served
      BY <2>2 DEF TuneInv, ViewInv
    <3>4. QED
      BY <3>1, <3>2, <3>3 DEF Served
  <2>3. QED
    BY <2>1, <2>2
<1>7. ForgetsRestored'
  <2>1. Forgets' => result = "ok"
    <3>1. Forgets' => \E t \in Slots : /\ calls'[t].kind = "revert"
                                       /\ \/ calls'[t].at = "returned" /\ calls'[t].result = "ok"
                                          \/ calls'[t].at = "cleared"
      BY <1>4 DEF Forgets, Carries, At
    <3>2. QED
      BY <1>2, <1>4, <3>1
  <2>2. result = "ok" => ~ServiceProven!MayTune'
    BY DEF ServiceProven!MayTune
  <2>3. QED
    BY <2>1, <2>2 DEF ForgetsRestored
<1>8. ClosedIsShown'
  <2>1. CASE result = "none"
    BY <2>1 DEF ClosedIsShown
  <2>2. CASE result # "none"
    <3>1. ServiceProven!MayTune' <=> ServiceProven!MayTune
      BY <2>2 DEF ServiceProven!MayTune
    <3>2. QED
      BY <1>1, <3>1 DEF TuneInv, ViewInv, ClosedIsShown
  <2>3. QED
    BY <2>1, <2>2
<1>9. Shown'
  <2>1. Shown /\ ~Carries(stream, Showings)
    BY <1>4 DEF TuneInv, ViewInv
  <2>2. op.at \in {"applied", "discard"} => op' = op
    OBVIOUS
  <2>3. QED
    BY <1>1, <2>1, <2>2 DEF Shown
<1>10. Settles'
  <2>1. phase' \in {"authorizing", "rolling_back"} /\ (phase' = "authorizing" <=> kind = "apply")
    OBVIOUS
  <2>2. \A t \in Slots : calls'[t].at = "returned" /\ calls'[t].kind = "apply" => calls'[t].result # "ok"
    BY <1>2, <1>4
  <2>3. QED
    BY <1>2, <2>1, <2>2 DEF Settles, At
<1>11. QED
  BY <1>3, <1>6, <1>7, <1>8, <1>9, <1>10 DEF ViewInv

\* Where a started operation begins.
LEMMA StartsAt ==
    ASSUME TuneInv
    PROVE  /\ Service!StartApply => op.at = "none" /\ ~closed /\ op'.at \in Applies /\ UNCHANGED <<tuned, sess, closed>>
           /\ Service!StartRevert => op.at = "none" /\ ~closed /\ op'.at \in Reverts /\ UNCHANGED <<tuned, sess, closed>>
<1>1. op \in ServiceProven!Operations /\ client \in ServiceProven!MaybeClient
  BY DEF TuneInv, ServiceInv, ServiceProven!Inv, ServiceProven!TypeOK
<1>2. NoClient \in ServiceProven!MaybeClient
  BY DEF ServiceProven!MaybeClient
<1>3. ASSUME ServiceProven!StartApply
      PROVE  op.at = "none" /\ ~closed /\ op'.at \in Applies /\ UNCHANGED <<tuned, sess, closed>>
  <2>1. /\ op.at = "none" /\ ~closed /\ UNCHANGED <<tuned, sess, closed>>
        /\ ServiceProven!Go("dial", client) \/ ServiceProven!Go("apply", client)
    BY <1>3 DEF ServiceProven!StartApply, ServiceProven!service
  <2>2. op'.at \in {"dial", "apply"}
    BY <1>1, <2>1, Assumed, ServiceProven!Went
  <2>3. QED
    BY <2>1, <2>2 DEF Applies
<1>4. ASSUME ServiceProven!StartRevert
      PROVE  op.at = "none" /\ ~closed /\ op'.at \in Reverts /\ UNCHANGED <<tuned, sess, closed>>
  <2>1. /\ op.at = "none" /\ ~closed /\ UNCHANGED <<tuned, sess, closed>>
        /\ ServiceProven!Go("revert", client) \/ ServiceProven!Go("recover", NoClient)
    BY <1>4 DEF ServiceProven!StartRevert, ServiceProven!service
  <2>2. op'.at \in {"revert", "recover"}
    BY <1>1, <1>2, <2>1, Assumed, ServiceProven!Went
  <2>3. QED
    BY <2>1, <2>2 DEF Reverts
<1>5. QED
  BY <1>3, <1>4, SameServiceStart

LEMMA ConfirmStep ==
    ASSUME TuneInv, NEW s \in Slots, Confirm(s)
    PROVE  ViewTypeOK' /\ ViewInv'
<1>1. Prompt /\ UNCHANGED <<sessionActive, caps, discovery, closing>>
  BY DEF Confirm
<1>2. CASE UNCHANGED <<phase, calls, serviceVars>>
  <2>1. /\ phase \in Phases /\ caps \in Generations \cup {"none"}
        /\ discovery \in {"none", "running", "privileged"}
        /\ phase = "discovering" => discovery # "none" /\ ~sessionActive
    BY DEF TuneInv, ViewTypeOK, ViewInv, Settles
  <2>2. QED
    BY <1>1, <1>2, <2>1, PageKeeps
<1>3. CASE phase' = "authorizing" /\ CallApply(s)
  <2>1. CASE Service!StartApply /\ Called(s, "apply", "none") /\ UNCHANGED <<privileged, stream>>
    <3>1. op.at = "none" /\ ~closed /\ op'.at \in Applies /\ UNCHANGED <<tuned, sess, closed>>
      BY <2>1, StartsAt
    <3>2. QED
      BY <1>1, <1>3, <2>1, <3>1, CalledStep
  <2>2. CASE Called(s, "apply", "failed") /\ UNCHANGED serviceVars
    <3>1. UNCHANGED <<tuned, sess, closed, op, stream>>
      BY <2>2 DEF serviceVars, sessionVars
    <3>2. QED
      BY <1>1, <1>3, <2>2, <3>1, CalledStep
  <2>3. QED
    BY <1>3, <2>1, <2>2 DEF CallApply
<1>4. QED
  BY <1>2, <1>3 DEF Confirm

LEMMA ClickRevertStep ==
    ASSUME TuneInv, NEW s \in Slots, ClickRevert(s)
    PROVE  ViewTypeOK' /\ ViewInv'
<1>1. Prompt /\ phase' = "rolling_back" /\ UNCHANGED <<sessionActive, caps, discovery, closing>>
  BY DEF ClickRevert, UserActs, pageVars
<1>2. CASE Service!StartRevert /\ Called(s, "revert", "none") /\ UNCHANGED <<privileged, stream>>
  <2>1. op.at = "none" /\ ~closed /\ op'.at \in Reverts /\ UNCHANGED <<tuned, sess, closed>>
    BY <1>2, StartsAt
  <2>2. QED
    BY <1>1, <1>2, <2>1, CalledStep
<1>3. CASE Called(s, "revert", "failed") /\ UNCHANGED serviceVars
  <2>1. UNCHANGED <<tuned, sess, closed, op, stream>>
    BY <1>3 DEF serviceVars, sessionVars
  <2>2. QED
    BY <1>1, <1>3, <2>1, CalledStep
<1>4. CASE /\ op.at = "none" /\ ~closed /\ client = NoClient /\ ~recoveryNeeded
           /\ Called(s, "revert", "ok") /\ UNCHANGED serviceVars
  <2>1. UNCHANGED <<tuned, sess, closed, op, stream>>
    BY <1>4 DEF serviceVars, sessionVars
  <2>2. ServiceProven!Inv
    BY DEF TuneInv, ServiceInv
  <2>3. ~ServiceProven!MayTune
    BY <1>4, <2>2, Assumed, ServiceProven!IdleIsStock
  <2>4. QED
    BY <1>1, <1>4, <2>1, <2>3, CalledStep
<1>5. QED
  BY <1>2, <1>3, <1>4 DEF ClickRevert, CallRevert

-----------------------------------------------------------------------------
(* The operation in the service.                                           *)

\* Success is an announced outcome or a confirmed revert.
LEMMA ResultsAre ==
    ASSUME NEW how, NEW r \in Results(how)
    PROVE  /\ r \in {"ok", "failed", "cancelled", "incomplete"}
           /\ r = "ok" => Published(how) # <<>> \/ how = "reverted"
<1> DEFINE dialled == IF recoveryNeeded' /\ ~recoveryNeeded
                      THEN {"incomplete"}
                      ELSE {"cancelled", "failed"} \cup (IF recoveryNeeded THEN {"incomplete"} ELSE {})
           done == Published(how) # <<>> \/ how = "reverted"
<1>1. Results(how) = CASE done -> {"ok"} [] op.at = "dial" -> dialled [] OTHER -> {"failed"}
  BY Zenon DEF Results
<1>2. dialled \in SUBSET {"failed", "cancelled", "incomplete"}
  OBVIOUS
<1> HIDE DEF dialled, done
<1>3. (Results(how) = {"ok"} /\ done) \/ Results(how) = dialled \/ Results(how) = {"failed"}
  BY <1>1, Zenon
<1>4. QED
  BY <1>2, <1>3 DEF done

\* The goroutine of s returns.
LEMMA ReturnedIs ==
    ASSUME ViewTypeOK, NEW s \in Slots, calls[s].at = "service",
           NEW r \in {"ok", "failed", "cancelled", "incomplete"}, Returned(s, r)
    PROVE  /\ calls' \in [Slots -> Calls]
           /\ calls'[s].at = "returned" /\ calls'[s].result = r
           /\ calls'[s].kind = calls[s].kind /\ calls[s].kind \in {"apply", "revert"}
           /\ \A t \in Slots : t # s => calls'[t] = calls[t]
<1>1. calls \in [Slots -> Calls] /\ calls[s] \in Calls /\ (calls[s].at = "none" <=> calls[s].kind = "none")
  BY DEF ViewTypeOK
<1>2. calls' = [calls EXCEPT ![s] = [calls[s] EXCEPT !.at = "returned", !.result = r]]
  BY DEF Returned
<1>3. ASSUME NEW c \in Calls, NEW d, d = [c EXCEPT !.at = "returned", !.result = r]
      PROVE  d \in Calls /\ d.at = "returned" /\ d.result = r /\ d.kind = c.kind
  BY <1>3 DEF Calls
<1>4. PICK d : d = [calls[s] EXCEPT !.at = "returned", !.result = r]
  OBVIOUS
<1>5. d \in Calls /\ d.at = "returned" /\ d.result = r /\ d.kind = calls[s].kind
  BY <1>1, <1>3, <1>4
<1>6. calls' = [calls EXCEPT ![s] = d]
  BY <1>2, <1>4
<1>7. calls[s].kind \in {"apply", "revert"}
  BY <1>1 DEF Calls
<1>8. QED
  BY <1>1, <1>5, <1>6, <1>7

\* What a step of the operation says of the hardware.
LEMMA ServedHardware ==
    ASSUME TuneInv, Serves
    PROVE  /\ closed' = closed
           /\ ServiceProven!MayTune' => ServiceProven!MayTune
           /\ tuned' /\ ~tuned => /\ op.at = "apply"
                                  /\ op'.at # "none" \/ op'.last \in {"rollback_incomplete", "lost"}
           /\ op'.at = "none" /\ op'.last = "reverted" => op.at \in {"revert", "recovered"} /\ ~tuned'
           /\ op'.at # "none" => (op.at \in Applies <=> op'.at \in Applies) /\ (op.at \in Reverts <=> op'.at \in Reverts)
           /\ op'.at # "none" /\ op.at \in {"apply", "applied"} => op'.at \in {"applied", "discard"}
           /\ op'.at = "none" /\ op.at = "applied" => op'.last \in {"applied", "lost"}
           /\ op'.at = "none" /\ op.at \in Reverts => op'.last \in {"reverted", "rollback_incomplete", "error"}
           /\ op.at = "discard" => closed /\ op'.at = "none"
<1>1. /\ ServiceProven!Inv /\ ServiceProven!Operation /\ ~ServiceProven!StartApply
      /\ op.at # "none"
  BY SameServes DEF TuneInv, ServiceInv, Serves, Service!DialApply, Service!Install, Service!CallApply,
     Service!Applied, Service!Discard, Service!CallRevert, Service!Recover, Service!Recovered
<1>2. ServiceProven!Next
  BY <1>1 DEF ServiceProven!Next
<1>3. /\ closed' = closed
      /\ \/ op.at = "dial" /\ op'.at = "install"
         \/ op.at = "install" /\ op'.at \in {"apply", "discard"}
         \/ op.at = "apply" /\ op'.at = "applied" /\ ServiceProven!CallApply
         \/ op.at = "applied" /\ op'.at = "discard"
         \/ op.at = "recover" /\ op'.at = "recovered"
         \/ /\ op.at = "dial" /\ op'.at = "none" /\ op'.last = "error"
         \/ /\ op.at = "install" /\ op'.at = "none" /\ op'.last = "review_changed"
         \/ /\ op.at = "apply" /\ op'.at = "none" /\ ServiceProven!CallApply
            /\ op'.last \in {"review_changed", "rollback_incomplete", "failed", "lost"}
         \/ /\ op.at = "applied" /\ op'.at = "none" /\ op'.last \in {"applied", "lost"}
         \/ /\ op.at = "discard" /\ op'.at = "none" /\ closed /\ op'.last \in {"closed", "discarded"}
         \/ /\ op.at = "revert" /\ op'.at = "none" /\ ServiceProven!CallRevert
            /\ op'.last \in {"reverted", "rollback_incomplete"}
         \/ /\ op.at = "recover" /\ op'.at = "none" /\ op'.last = "error"
         \/ /\ op.at = "recovered" /\ op'.at = "none" /\ ServiceProven!Recovered
            /\ op'.last \in {"reverted", "error"}
  BY <1>1, Assumed, ServiceProven!Outcomes
<1>4. ServiceProven!MayTune' => ServiceProven!MayTune
  BY <1>1, <1>2, Assumed, ServiceProven!TunesOnly
<1>5. tuned' /\ ~tuned => ServiceProven!CallApply
  BY <1>1, <1>2, Assumed, ServiceProven!OnlyApplyTunes
<1>6. ServiceProven!CallApply => op.at = "apply"
  BY DEF ServiceProven!CallApply
<1>7. ServiceProven!CallApply /\ tuned' /\ op'.at = "none" /\ ~tuned => op'.last \in {"rollback_incomplete", "lost"}
  BY <1>1, Assumed, ServiceProven!ApplyEnds
<1>8. (ServiceProven!CallRevert \/ ServiceProven!Recovered) /\ op'.last = "reverted" /\ op'.at = "none" => ~tuned'
  BY <1>1, Assumed, ServiceProven!RevertEnds
<1>9. tuned' /\ ~tuned => /\ op.at = "apply"
                          /\ op'.at # "none" \/ op'.last \in {"rollback_incomplete", "lost"}
  BY <1>5, <1>6, <1>7
<1>10. op'.at = "none" /\ op'.last = "reverted" => op.at \in {"revert", "recovered"} /\ ~tuned'
  BY <1>3, <1>8
<1>11. op'.at # "none" => (op.at \in Applies <=> op'.at \in Applies) /\ (op.at \in Reverts <=> op'.at \in Reverts)
  BY <1>3 DEF Applies, Reverts
<1>12. /\ op'.at # "none" /\ op.at \in {"apply", "applied"} => op'.at \in {"applied", "discard"}
       /\ op'.at = "none" /\ op.at = "applied" => op'.last \in {"applied", "lost"}
       /\ op.at = "discard" => closed /\ op'.at = "none"
  BY <1>3
<1>13. op'.at = "none" /\ op.at \in Reverts => op'.last \in {"reverted", "rollback_incomplete", "error"}
  BY <1>3 DEF Reverts
<1>14. QED
  BY <1>3, <1>4, <1>9, <1>10, <1>11, <1>12, <1>13

\* A step that goes on leaves the view model to wait.
LEMMA ServeGoesOn ==
    ASSUME TuneInv, NEW s \in Slots, Serve(s), op'.at # "none"
    PROVE  ViewTypeOK' /\ ViewInv'
<1>1. /\ Serves /\ calls[s].at = "service"
      /\ UNCHANGED <<stream, calls, phase, sessionActive, caps, discovery, closing>>
  BY DEF Serve, Serves, stateVars, pageVars
<1>2. /\ closed' = closed /\ (ServiceProven!MayTune' => ServiceProven!MayTune)
      /\ tuned' /\ ~tuned => op.at = "apply"
      /\ (op.at \in Applies <=> op'.at \in Applies) /\ (op.at \in Reverts <=> op'.at \in Reverts)
      /\ op.at \in {"apply", "applied", "discard"} => op'.at \in {"applied", "discard"}
  BY <1>1, ServedHardware
<1>3. \A kinds : Carries(stream, kinds)' <=> Carries(stream, kinds)
  BY <1>1 DEF Carries
<1>4. ViewTypeOK'
  BY <1>1 DEF TuneInv, ViewTypeOK
<1>5. Served'
  <2>1. Served
    BY DEF TuneInv, ViewInv
  <2>2. QED
    BY <1>1, <1>2, <2>1 DEF Served
<1>6. ForgetsRestored'
  <2>1. Forgets' => Forgets
    BY <1>1 DEF Forgets, At, Carries, ServiceProven!Endings
  <2>2. QED
    BY <1>2, <2>1 DEF TuneInv, ViewInv, ForgetsRestored
<1>7. ClosedIsShown'
  BY <1>1, <1>2 DEF TuneInv, ViewInv, ClosedIsShown
<1>8. Shown'
  BY <1>1, <1>2, <1>3 DEF TuneInv, ViewInv, Shown
<1>9. Settles'
  BY <1>1 DEF TuneInv, ViewInv, Settles, At, Carries, Settlings, Kinds, Service!Events
<1>10. QED
  BY <1>4, <1>5, <1>6, <1>7, <1>8, <1>9 DEF ViewInv

\* A step that ends the operation publishes what the view model has to know of it.
LEMMA ServeEnds ==
    ASSUME TuneInv, NEW s \in Slots, Serve(s), op'.at = "none"
    PROVE  ViewTypeOK' /\ ViewInv'
<1> DEFINE how == op'.last
<1>1. /\ Serves /\ calls[s].at = "service"
      /\ UNCHANGED <<phase, sessionActive, caps, discovery, closing>>
      /\ stream' = stream \o Published(how)
      /\ \E r \in Results(how) : Returned(s, r)
  BY DEF Serve, Serves, stateVars, pageVars
<1>2. /\ closed' = closed /\ (ServiceProven!MayTune' => ServiceProven!MayTune)
      /\ tuned' /\ ~tuned => op.at = "apply" /\ how \in {"rollback_incomplete", "lost"}
      /\ how = "reverted" => op.at \in {"revert", "recovered"} /\ ~tuned'
      /\ op.at = "applied" => how \in {"applied", "lost"}
      /\ op.at = "discard" => closed
      /\ op.at \in Reverts => how \in {"reverted", "rollback_incomplete", "error"}
  BY <1>1, ServedHardware
<1> HIDE DEF how
<1>3. ViewTypeOK /\ Served /\ ForgetsRestored /\ ClosedIsShown /\ Shown /\ Settles /\ stream \in Seq(Kinds)
  BY DEF TuneInv, ViewInv, ViewTypeOK
<1>4. /\ Published(how) \in Seq(Kinds)
      /\ ~Carries(Published(how), ServiceProven!Endings)
      /\ Published(how) # <<>> => Carries(Published(how), Settlings)
      /\ how \in {"applied", "lost"} \/ (how = "rollback_incomplete" /\ op.at = "apply") =>
           Carries(Published(how), Showings)
      /\ Published(how) # <<>> =>
           how \in {"applied", "review_changed", "lost"} \/ (how = "rollback_incomplete" /\ op.at = "apply")
  BY PublishedIs
<1>5. PICK r \in {"ok", "failed", "cancelled", "incomplete"} :
         Returned(s, r) /\ (r = "ok" => Published(how) # <<>> \/ how = "reverted")
  BY <1>1, ResultsAre
<1>6. /\ calls' \in [Slots -> Calls]
      /\ calls'[s].at = "returned" /\ calls'[s].result = r
      /\ calls'[s].kind = calls[s].kind /\ calls[s].kind \in {"apply", "revert"}
      /\ \A t \in Slots : t # s => calls'[t] = calls[t]
  BY <1>1, <1>3, <1>5, ReturnedIs
<1>7. /\ stream' \in Seq(Kinds)
      /\ \A kinds : Carries(stream \o Published(how), kinds) <=> Carries(stream, kinds) \/ Carries(Published(how), kinds)
  BY <1>1, <1>3, <1>4, CarriesBoth
<1>8. /\ Carries(stream, ServiceProven!Endings)' <=> Carries(stream \o Published(how), ServiceProven!Endings)
      /\ Carries(stream, Showings)' <=> Carries(stream \o Published(how), Showings)
      /\ Carries(stream, Settlings)' <=> Carries(stream \o Published(how), Settlings)
  BY <1>1 DEF Carries, ServiceProven!Endings, Showings, Settlings, Kinds, Service!Events
<1>9. ViewTypeOK'
  BY <1>1, <1>3, <1>6, <1>7 DEF ViewTypeOK
<1>10. Served'
  <2>1. \A t \in Slots : calls[t].at = "service" => t = s
    BY <1>1, <1>3 DEF Served
  <2>2. \A t \in Slots : calls'[t].at # "service"
    BY <1>6, <2>1
  <2>3. QED
    BY <2>2 DEF Served
<1>11. /\ calls[s].kind = "apply" => op.at \in Applies
       /\ calls[s].kind = "revert" => op.at \in Reverts
  BY <1>1, <1>3 DEF Served
<1>12. ServiceProven!MayTune' <=> tuned'
  BY DEF ServiceProven!MayTune
<1>13. ForgetsRestored'
  <2>1. calls[s].kind = "revert" /\ r = "ok" => ~ServiceProven!MayTune'
    BY <1>2, <1>4, <1>5, <1>11, <1>12 DEF Reverts
  <2>2. Forgets' => Forgets \/ (calls[s].kind = "revert" /\ r = "ok")
    BY <1>4, <1>6, <1>7, <1>8 DEF Forgets, At
  <2>3. QED
    BY <1>2, <1>3, <2>1, <2>2 DEF ForgetsRestored
<1>15. ClosedIsShown'
  BY <1>1, <1>2, <1>3 DEF ClosedIsShown
<1>16. Shown'
  <2>1. CASE tuned' /\ ~tuned
    BY <1>2, <1>4, <1>7, <1>8, <2>1 DEF Shown
  <2>2. CASE tuned' /\ tuned /\ op.at = "discard"
    <3>1. closing = "none" => sessionActive
      BY <1>2, <1>3, <2>2 DEF ClosedIsShown, ServiceProven!MayTune
    <3>2. QED
      BY <1>1, <3>1 DEF Shown
  <2>3. CASE tuned' /\ tuned /\ op.at # "discard"
    BY <1>1, <1>2, <1>3, <1>4, <1>7, <1>8, <2>3 DEF Shown
  <2>4. QED
    BY <2>1, <2>2, <2>3 DEF Shown
<1>17. Settles'
  <2>1. Carries(stream, Settlings) => Carries(stream, Settlings)'
    BY <1>7, <1>8
  <2>2. calls[s].kind = "apply" /\ r = "ok" => Carries(stream, Settlings)'
    BY <1>2, <1>4, <1>5, <1>7, <1>8, <1>11 DEF Applies
  <2>3. \A t \in Slots : calls'[t].kind = calls[t].kind
    BY <1>6
  <2>4. \A t \in Slots : calls'[t].at = "returned" /\ calls'[t].kind = "apply" /\ calls'[t].result = "ok" =>
           \/ t # s /\ At(t, "apply", "returned") /\ calls[t].result = "ok"
           \/ calls[s].kind = "apply" /\ r = "ok"
    BY <1>6 DEF At
  <2>5. QED
    BY <1>1, <1>3, <2>1, <2>2, <2>3, <2>4 DEF Settles, At
<1>18. QED
  BY <1>9, <1>10, <1>13, <1>15, <1>16, <1>17 DEF ViewInv

-----------------------------------------------------------------------------
(* The invariant and the theorems.                                         *)

LEMMA TuneInvInit ==
    ASSUME ViewInit
    PROVE  TuneInv
<1>1. ServiceProven!Init /\ op.at = "none" /\ tuned = FALSE /\ closed = FALSE
  BY SameServiceInit DEF ViewInit, Service!Init
<1>2. ServiceInv
  BY <1>1, Assumed, ServiceProven!InitInv, ServiceProven!AnnouncedInit DEF ServiceInv
<1>3. /\ stream = <<>> /\ phase = "idle" /\ sessionActive = FALSE /\ caps = "none"
      /\ discovery = "none" /\ closing = "none" /\ calls = [s \in Slots |-> NoCall]
      /\ NoCall \in Calls /\ NoCall.at = "none" /\ NoCall.kind = "none"
  BY DEF ViewInit, NoCall, Calls
<1> HIDE DEF NoCall
<1>4. ViewTypeOK
  <2>1. stream \in Seq(Kinds) /\ phase \in Phases
    BY <1>3 DEF Phases
  <2>2. calls \in [Slots -> Calls] /\ \A s \in Slots : calls[s] = NoCall
    BY <1>3
  <2>3. QED
    BY <1>3, <2>1, <2>2 DEF ViewTypeOK
<1>5. ~Forgets
  BY <1>3, CarriesNone DEF Forgets, At
<1>6. ViewInv
  BY <1>1, <1>3, <1>5 DEF ViewInv, Served, ForgetsRestored, ClosedIsShown, ServiceProven!MayTune, Shown, Settles
<1>7. QED
  BY <1>2, <1>4, <1>6 DEF TuneInv

LEMMA ViewKeeps ==
    ASSUME TuneInv, [ViewNext]_viewVars
    PROVE  ViewTypeOK' /\ ViewInv'
<1>1. CASE User
  <2>1. ASSUME NEW s \in Slots, Confirm(s) \/ ClickRevert(s)
        PROVE  ViewTypeOK' /\ ViewInv'
    BY <2>1, ConfirmStep, ClickRevertStep
  <2>2. QED
    BY <1>1, <2>1, PageStep, CloseStep DEF User
<1>2. CASE CloseService \/ EndClose \/ Consume
  BY <1>2, CloseStep, EndCloseStep, ConsumeStep
<1>3. ASSUME NEW set \in Generations, NEW complete \in BOOLEAN, Discovered(set, complete)
      PROVE  ViewTypeOK' /\ ViewInv'
  BY <1>3, DiscoveredStep
<1>4. ASSUME NEW s \in Slots, Goroutine(s)
      PROVE  ViewTypeOK' /\ ViewInv'
  BY <1>4, ServeGoesOn, ServeEnds, EndApplyStep, EndRevertStep, ClearedStep DEF Goroutine
<1>5. ASSUME NEW c \in Clients, Watch(c) \/ Helper(c)
      PROVE  ViewTypeOK' /\ ViewInv'
  BY <1>5, WatchStep, HelperStep
<1>6. CASE UNCHANGED viewVars
  <2>1. UNCHANGED <<serviceVars, calls, sessionActive, closing, phase, caps, discovery>>
    BY <1>6 DEF viewVars, stateVars, pageVars
  <2>2. /\ phase \in Phases /\ caps \in Generations \cup {"none"}
        /\ discovery \in {"none", "running", "privileged"}
        /\ phase = "discovering" => discovery # "none" /\ ~sessionActive
    BY DEF TuneInv, ViewTypeOK, ViewInv, Settles
  <2>3. QED
    BY <2>1, <2>2, PageKeeps
<1>7. QED
  BY <1>1, <1>2, <1>3, <1>4, <1>5, <1>6 DEF ViewNext

LEMMA TuneInvNext ==
    ASSUME TuneInv, [ViewNext]_viewVars
    PROVE  TuneInv'
BY ViewKeeps, ServiceKeeps DEF TuneInv

\* The inductive invariant of the view model and of the service below it.
THEOREM TuneInvAlways == ViewSpec => []TuneInv
<1>1. ViewInit => TuneInv
  BY TuneInvInit
<1>2. TuneInv /\ [ViewNext]_viewVars => TuneInv'
  BY TuneInvNext
<1>3. QED
  BY <1>1, <1>2, PTL DEF ViewSpec

\* Every variable of the view model keeps its type, and every variable of the service.
THEOREM ViewTypeCorrect == ViewSpec => [](ViewTypeOK /\ ServiceProven!TypeOK)
<1>1. TuneInv => ViewTypeOK /\ ServiceProven!TypeOK
  BY DEF TuneInv, ServiceInv, ServiceProven!Inv
<1>2. QED
  BY <1>1, TuneInvAlways, PTL

\* Once everything has settled, hardware that may be off stock is shown as a session
\* whose Revert is enabled (viewmodel/tune.go, Apply, Revert and consumeEvents), in
\* whatever order results and events arrived.
THEOREM TunedAlwaysShown == ViewSpec => []TunedIsShown
<1>1. TuneInv => TunedIsShown
  <2> SUFFICES ASSUME TuneInv, AtRest, tuned
               PROVE  sessionActive
    BY DEF TunedIsShown
  <2>1. /\ closing = "none" /\ stream = <<>> /\ Shown /\ Served
        /\ \A s \in Slots : calls[s].at = "none"
    BY DEF AtRest, TuneInv, ViewInv, NoCall
  <2>2. ~Carries(stream, Showings)
    BY <2>1, CarriesNone
  <2>3. op.at \notin {"applied", "discard"}
    BY <2>1 DEF Served
  <2>4. QED
    BY <2>1, <2>2, <2>3 DEF Shown
<1>2. QED
  BY <1>1, TuneInvAlways, PTL

\* Once everything has settled no phase is left that waits for something
\* (viewmodel/tune.go, Apply, Revert, consumeDiscovery and consumeEvents).
THEOREM PhaseAlwaysSettles == ViewSpec => []PhaseSettles
<1>1. TuneInv => PhaseSettles
  <2> SUFFICES ASSUME TuneInv, AtRest
               PROVE  phase \notin Busy \cup {"discovering"}
    BY DEF PhaseSettles
  <2>1. /\ discovery = "none" /\ stream = <<>> /\ Settles
        /\ \A s \in Slots : calls[s].kind = "none"
    BY DEF AtRest, TuneInv, ViewInv, NoCall
  <2>2. ~Carries(stream, Settlings)
    BY <2>1, CarriesNone
  <2>3. QED
    BY <2>1, <2>2 DEF Settles, Busy
<1>2. QED
  BY <1>1, TuneInvAlways, PTL

-----------------------------------------------------------------------------
(*                          The smoke harness                              *)
-----------------------------------------------------------------------------
(* The engine: TuningEngineProofs holds of the one composed here, with     *)
(* what others moved as the set of controls that it does not answer for.   *)

EngineProven == INSTANCE TuningEngineProofs

LEMMA EngineAssumed ==
    /\ NoProc \notin Procs /\ NoRecord \notin EngineProven!Records
    /\ Stock \in Values /\ Order \in [Controls -> Nat]
    /\ MaxFaults \in Nat /\ MaxBoots \in Nat
BY EngineAssumption DEF Engine!Records, EngineProven!Records, Engine!RecordStates, EngineProven!RecordStates

LEMMA SameInit == Engine!Init <=> EngineProven!Init
BY Zenon DEF Engine!Init, EngineProven!Init, Engine!Blank, EngineProven!Blank

LEMMA SameFault == Engine!Fault <=> EngineProven!Fault
BY Zenon DEF Engine!Fault, EngineProven!Fault

LEMMA SameStart == ASSUME NEW p PROVE Engine!Start(p) <=> EngineProven!Start(p)
BY Zenon DEF Engine!Start, EngineProven!Start, Engine!Goto, EngineProven!Goto

LEMMA SameSize == ASSUME NEW S PROVE Engine!Cardinality(S) = EngineProven!Cardinality(S)
BY Zenon DEF Engine!Cardinality, EngineProven!Cardinality

LEMMA SameBegin == ASSUME NEW p PROVE Engine!Begin(p) <=> EngineProven!Begin(p)
<1>1. Engine!Plans = EngineProven!Plans
  BY SameSize, Zenon DEF Engine!Plans, EngineProven!Plans
<1>2. QED
  BY <1>1, Zenon DEF Engine!Begin, EngineProven!Begin, Engine!Goto, EngineProven!Goto

LEMMA SameStop == ASSUME NEW p PROVE Engine!Stop(p) <=> EngineProven!Stop(p)
BY Zenon DEF Engine!Stop, EngineProven!Stop, Engine!Goto, EngineProven!Goto, Engine!Blank, EngineProven!Blank

LEMMA SameEnds ==
    ASSUME NEW p
    PROVE  (Engine!Exit(p) <=> EngineProven!Exit(p)) /\ (Engine!Kill(p) <=> EngineProven!Kill(p))
BY SameStop, SameFault, Zenon DEF Engine!Exit, EngineProven!Exit, Engine!Kill, EngineProven!Kill

LEMMA SameReboot == Engine!Reboot <=> EngineProven!Reboot
BY Zenon DEF Engine!Reboot, EngineProven!Reboot, Engine!Blank, EngineProven!Blank

LEMMA SameCalls ==
    /\ \A r, ok : Engine!Save(r, ok) <=> EngineProven!Save(r, ok)
    /\ \A ok : Engine!Remove(ok) <=> EngineProven!Remove(ok)
    /\ \A c, ok : Engine!WriteControl(c, ok) <=> EngineProven!WriteControl(c, ok)
    /\ \A c, s, ok : Engine!RestoreControl(c, s, ok) <=> EngineProven!RestoreControl(c, s, ok)
BY SameFault, Zenon DEF Engine!Save, EngineProven!Save, Engine!Remove, EngineProven!Remove,
   Engine!WriteControl, EngineProven!WriteControl, Engine!RestoreControl, EngineProven!RestoreControl

LEMMA SameLoops ==
    /\ \A p, l : Engine!SkipEntry(p, l) <=> EngineProven!SkipEntry(p, l)
    /\ \A p, l, s : Engine!RestoreEntry(p, l, s) <=> EngineProven!RestoreEntry(p, l, s)
    /\ \A p, l, s : Engine!SaveEntry(p, l, s) <=> EngineProven!SaveEntry(p, l, s)
<1>1. \A p, l, n : Engine!Step(p, l, n) <=> EngineProven!Step(p, l, n)
  BY Zenon DEF Engine!Step, EngineProven!Step, Engine!Goto, EngineProven!Goto
<1>2. \A p, l : Engine!Goto(p, l) <=> EngineProven!Goto(p, l)
  BY Zenon DEF Engine!Goto, EngineProven!Goto
<1>3. \A p : Engine!Current(p) = EngineProven!Current(p)
  BY Zenon DEF Engine!Current, EngineProven!Current
<1>4. ASSUME NEW p, NEW l
      PROVE  Engine!SkipEntry(p, l) <=> EngineProven!SkipEntry(p, l)
  BY <1>1, <1>3, Zenon DEF Engine!SkipEntry, EngineProven!SkipEntry
<1>5. ASSUME NEW p, NEW l, NEW s
      PROVE  Engine!RestoreEntry(p, l, s) <=> EngineProven!RestoreEntry(p, l, s)
  BY <1>1, <1>2, <1>3, SameCalls, Zenon DEF Engine!RestoreEntry, EngineProven!RestoreEntry
<1>6. ASSUME NEW p, NEW l, NEW s
      PROVE  Engine!SaveEntry(p, l, s) <=> EngineProven!SaveEntry(p, l, s)
  BY <1>1, SameCalls, Zenon DEF Engine!SaveEntry, EngineProven!SaveEntry
<1>7. QED
  BY <1>4, <1>5, <1>6, Zenon

LEMMA SameRecovery == ASSUME NEW p PROVE
    /\ Engine!Load(p) <=> EngineProven!Load(p)
    /\ Engine!RecoverSkip(p) <=> EngineProven!RecoverSkip(p)
    /\ Engine!RecoverRestore(p) <=> EngineProven!RecoverRestore(p)
    /\ Engine!RecoverSave(p) <=> EngineProven!RecoverSave(p)
    /\ Engine!RecoverEnd(p) <=> EngineProven!RecoverEnd(p)
<1>1. Engine!Load(p) <=> EngineProven!Load(p)
  BY SameStop, Zenon DEF Engine!Load, EngineProven!Load, Engine!Goto, EngineProven!Goto
<1>2. Engine!RecoverEnd(p) <=> EngineProven!RecoverEnd(p)
  BY SameStop, SameCalls, Zenon DEF Engine!RecoverEnd, EngineProven!RecoverEnd, Engine!Goto, EngineProven!Goto
<1>3. QED
  BY <1>1, <1>2, SameLoops, Zenon DEF Engine!RecoverSkip, EngineProven!RecoverSkip,
     Engine!RecoverRestore, EngineProven!RecoverRestore, Engine!RecoverSave, EngineProven!RecoverSave

LEMMA SameTransaction == ASSUME NEW p PROVE
    /\ Engine!SaveRecord(p) <=> EngineProven!SaveRecord(p)
    /\ Engine!Mark(p) <=> EngineProven!Mark(p)
    /\ Engine!Write(p) <=> EngineProven!Write(p)
    /\ Engine!Activate(p) <=> EngineProven!Activate(p)
    /\ Engine!Rollback(p) <=> EngineProven!Rollback(p)
    /\ Engine!RollbackSkip(p) <=> EngineProven!RollbackSkip(p)
    /\ Engine!RollbackRestore(p) <=> EngineProven!RollbackRestore(p)
    /\ Engine!RollbackSave(p) <=> EngineProven!RollbackSave(p)
    /\ Engine!RollbackEnd(p) <=> EngineProven!RollbackEnd(p)
<1>1. Engine!SaveRecord(p) <=> EngineProven!SaveRecord(p)
  BY SameCalls, Zenon DEF Engine!SaveRecord, EngineProven!SaveRecord, Engine!Goto, EngineProven!Goto
<1>2. Engine!Mark(p) <=> EngineProven!Mark(p)
  BY SameCalls, Zenon DEF Engine!Mark, EngineProven!Mark, Engine!Goto, EngineProven!Goto, Engine!Current, EngineProven!Current
<1>3. Engine!Write(p) <=> EngineProven!Write(p)
  BY SameCalls, Zenon DEF Engine!Write, EngineProven!Write, Engine!Step, EngineProven!Step, Engine!Goto, EngineProven!Goto,
     Engine!Current, EngineProven!Current
<1>4. Engine!Activate(p) <=> EngineProven!Activate(p)
  BY SameCalls, Zenon DEF Engine!Activate, EngineProven!Activate, Engine!Goto, EngineProven!Goto
<1>5. Engine!Rollback(p) <=> EngineProven!Rollback(p)
  BY SameCalls, Zenon DEF Engine!Rollback, EngineProven!Rollback, Engine!Goto, EngineProven!Goto
<1>6. Engine!RollbackEnd(p) <=> EngineProven!RollbackEnd(p)
  BY SameCalls, Zenon DEF Engine!RollbackEnd, EngineProven!RollbackEnd, Engine!Goto, EngineProven!Goto
<1>7. QED
  BY <1>1, <1>2, <1>3, <1>4, <1>5, <1>6, SameLoops, Zenon DEF Engine!RollbackSkip, EngineProven!RollbackSkip,
     Engine!RollbackRestore, EngineProven!RollbackRestore, Engine!RollbackSave, EngineProven!RollbackSave

\* What the engine keeps, with the controls that others moved since boot.
Sound == EngineProven!TypeInv /\ \A M : M = moved.ever => EngineProven!SafeInv(M)

LEMMA SoundInit == ASSUME Init PROVE Sound
<1>1. EngineProven!Init
  BY SameInit DEF Init
<1>2. EngineProven!TypeInv
  BY <1>1, EngineAssumed, EngineProven!TypeInit
<1>3. \A M : EngineProven!SafeInv(M)
  BY <1>1, EngineAssumed, EngineProven!SafeInit
<1>4. QED
  BY <1>2, <1>3 DEF Sound

LEMMA SoundStep ==
    ASSUME Sound, EngineProven!Next, moved'.ever = moved.ever
    PROVE  Sound'
<1>1. EngineProven!TypeInv'
  BY EngineAssumed, EngineProven!TypeNext DEF Sound
<1>2. ASSUME NEW M, M = moved'.ever PROVE EngineProven!SafeInv(M)'
  <2>1. EngineProven!TypeInv /\ EngineProven!SafeInv(M)
    BY <1>2 DEF Sound
  <2>2. QED
    BY <2>1, EngineAssumed, EngineProven!SafeNext
<1>3. QED
  BY <1>1, <1>2 DEF Sound

\* A call of the harness's own, which may fail.
LEMMA SoundCall ==
    ASSUME Sound, QuietEngine, UNCHANGED faults \/ Fault, moved'.ever = moved.ever
    PROVE  Sound'
<1>1. /\ UNCHANGED <<hw, disk, boot, lock, pc, mem, idx, failed>>
      /\ UNCHANGED faults \/ EngineProven!Fault
  BY SameFault DEF QuietEngine, Fault
<1>2. ASSUME NEW M, M = moved'.ever PROVE EngineProven!TypeInv' /\ EngineProven!SafeInv(M)'
  <2>1. EngineProven!TypeInv /\ EngineProven!SafeInv(M)
    BY <1>2 DEF Sound
  <2>2. QED
    BY <1>1, <2>1, EngineAssumed, EngineProven!FaultSafe
<1>3. EngineProven!TypeInv'
  BY <1>2
<1>4. QED
  BY <1>2, <1>3 DEF Sound

LEMMA SoundFirmware ==
    ASSUME Sound, NEW c \in Controls, NEW v \in Values, hw' = [hw EXCEPT ![c] = v],
           UNCHANGED <<disk, boot, lock, pc, mem, idx, failed>>, Fault,
           moved'.ever = moved.ever \cup {c}
    PROVE  Sound'
<1>1. EngineProven!Fault
  BY SameFault DEF Fault
<1>2. PICK M : M = moved.ever
  OBVIOUS
<1>3. EngineProven!TypeInv /\ EngineProven!SafeInv(M)
  BY <1>2 DEF Sound
<1>4. EngineProven!TypeInv' /\ EngineProven!SafeInv(M \cup {c})'
  BY <1>1, <1>3, EngineAssumed, EngineProven!MovedSafe
<1>5. \A N : N = moved'.ever => N = M \cup {c}
  BY <1>2
<1>6. QED
  BY <1>4, <1>5 DEF Sound

LEMMA SoundReboot ==
    ASSUME Sound, Engine!Reboot
    PROVE  Sound'
<1>1. PICK M : M = moved.ever
  OBVIOUS
<1>2. EngineProven!TypeInv /\ EngineProven!SafeInv(M) /\ EngineProven!Reboot
  BY <1>1, SameReboot DEF Sound
<1>3. EngineProven!Next
  BY <1>2 DEF EngineProven!Next
<1>4. EngineProven!TypeInv'
  BY <1>2, <1>3, EngineAssumed, EngineProven!TypeNext
<1>5. \A N : EngineProven!SafeInv(N)'
  BY <1>2, EngineAssumed, EngineProven!RebootSafe
<1>6. QED
  BY <1>4, <1>5 DEF Sound

\* Every step of the harness that is one of the engine's.
EngineStep ==
    \/ Engine!Start(Self) \/ Engine!Begin(Self) \/ Engine!Exit(Self) \/ Engine!Kill(Self)
    \/ RecoverySteps \/ RollbackSteps
    \/ Engine!SaveRecord(Self) \/ Engine!Mark(Self) \/ Engine!Write(Self) \/ Engine!Activate(Self)
    \/ Engine!Rollback(Self)

LEMMA RecoverySame == RecoverySteps => EngineProven!Recovery(Self)
BY SameRecovery, Zenon DEF RecoverySteps, EngineProven!Recovery

LEMMA RollbackSame == RollbackSteps \/ Engine!Rollback(Self) => EngineProven!Transaction(Self)
BY SameTransaction, Zenon DEF RollbackSteps, EngineProven!Transaction

LEMMA ApplySame ==
    Engine!SaveRecord(Self) \/ Engine!Mark(Self) \/ Engine!Write(Self) \/ Engine!Activate(Self)
        => EngineProven!Transaction(Self)
BY SameTransaction, Zenon DEF EngineProven!Transaction

LEMMA SoundEngineStep ==
    ASSUME Sound, EngineStep, moved'.ever = moved.ever
    PROVE  Sound'
<1>1. Self \in Procs
  BY HarnessAssumption
<1>2. CASE Engine!Start(Self) \/ Engine!Begin(Self) \/ Engine!Exit(Self) \/ Engine!Kill(Self)
  <2>1. EngineProven!Start(Self) \/ EngineProven!Begin(Self) \/ EngineProven!Exit(Self) \/ EngineProven!Kill(Self)
    BY <1>2, SameStart, SameBegin, SameEnds
  <2>2. EngineProven!Next
    BY <1>1, <2>1, Zenon DEF EngineProven!Next
  <2>3. QED
    BY <2>2, SoundStep
<1>3. CASE ~(Engine!Start(Self) \/ Engine!Begin(Self) \/ Engine!Exit(Self) \/ Engine!Kill(Self))
  <2>1. EngineProven!Recovery(Self) \/ EngineProven!Transaction(Self)
    BY <1>3, RecoverySame, RollbackSame, ApplySame, Zenon DEF EngineStep
  <2>2. EngineProven!Next
    BY <1>1, <2>1, EngineAssumed, EngineProven!ClientSteps
  <2>3. QED
    BY <2>2, SoundStep
<1>4. QED
  BY <1>2, <1>3

-----------------------------------------------------------------------------
(* What the harness sees of a step of the engine.                          *)

\* The controls hold numbers, and somebody else's process runs nothing.
LEMMA SoundType ==
    ASSUME Sound
    PROVE  /\ hw \in [Controls -> Values]
           /\ pc \in [Procs -> EngineProven!Labels]
           /\ mem[Self].ops \in Seq(Controls)
           /\ idx[Self] \in Nat
<1>1. Self \in Procs /\ EngineProven!TypeOK
  BY HarnessAssumption DEF Sound, EngineProven!TypeInv
<1>2. mem[Self] \in EngineProven!Records
  BY <1>1 DEF EngineProven!TypeOK
<1>3. QED
  BY <1>1, <1>2 DEF EngineProven!TypeOK, EngineProven!Records

\* A control that nobody else moved is at stock when the engine is idle.
LEMMA IdleIsStock ==
    ASSUME Sound, pc[Self] = "idle", NEW c \in Controls \ moved.ever
    PROVE  hw[c] = Stock
<1>1. PICK M : M = moved.ever
  OBVIOUS
<1>2. EngineProven!ProcInv(M, Self)
  BY <1>1, HarnessAssumption DEF Sound, EngineProven!SafeInv
<1>3. EngineProven!Astray(M) = {}
  BY <1>2 DEF EngineProven!ProcInv
<1>4. QED
  BY <1>1, <1>3 DEF EngineProven!Astray, EngineProven!Dirty

LEMMA AfterStart ==
    ASSUME Sound, Engine!Start(Self)
    PROVE  /\ pc[Self] = "down" /\ pc'[Self] = "started"
           /\ \A q \in Procs \ {Self} : pc'[q] = pc[q]
           /\ UNCHANGED <<hw, disk>>
<1>1. Self \in Procs /\ pc \in [Procs -> EngineProven!Labels]
  BY HarnessAssumption, SoundType
<1>2. QED
  BY <1>1 DEF Engine!Start, Engine!Goto

LEMMA AfterEnd ==
    ASSUME Sound, Engine!Exit(Self) \/ Engine!Kill(Self)
    PROVE  /\ pc'[Self] = "down"
           /\ \A q \in Procs \ {Self} : pc'[q] = pc[q]
           /\ UNCHANGED <<hw, disk>>
<1>1. Self \in Procs /\ pc \in [Procs -> EngineProven!Labels]
  BY HarnessAssumption, SoundType
<1>2. QED
  BY <1>1 DEF Engine!Exit, Engine!Kill, Engine!Stop, Engine!Goto

LEMMA AfterReboot ==
    ASSUME Engine!Reboot
    PROVE  \A q \in Procs : pc'[q] = "down"
BY DEF Engine!Reboot

LEMMA AfterBegin ==
    ASSUME Sound, Engine!Begin(Self)
    PROVE  /\ pc[Self] = "idle" /\ pc'[Self] = "captured"
           /\ \A q \in Procs \ {Self} : pc'[q] = pc[q]
           /\ UNCHANGED <<hw, disk>>
<1>1. Self \in Procs /\ pc \in [Procs -> EngineProven!Labels]
  BY HarnessAssumption, SoundType
<1>2. QED
  BY <1>1 DEF Engine!Begin, Engine!Goto

LEMMA AfterRecovery ==
    ASSUME Sound, RecoverySteps
    PROVE  /\ pc'[Self] \in {"down", "idle"} \cup Engine!InRecovery
           /\ \A q \in Procs \ {Self} : pc'[q] = pc[q]
           /\ pc'[Self] = "idle" => disk' = NoRecord
<1>1. Self \in Procs /\ EngineProven!TypeInv /\ EngineProven!Recovery(Self)
  BY HarnessAssumption, RecoverySame DEF Sound
<1>2. Engine!InRecovery = EngineProven!InRecovery
  BY DEF Engine!InRecovery, EngineProven!InRecovery
<1>3. QED
  BY <1>1, <1>2, EngineAssumed, EngineProven!RecoveryStep

\* A step of a change set.
ApplySteps ==
    \/ Engine!SaveRecord(Self) \/ Engine!Mark(Self) \/ Engine!Write(Self) \/ Engine!Activate(Self)
    \/ Engine!Rollback(Self) \/ RollbackSteps

LEMMA AfterTransaction ==
    ASSUME Sound, ApplySteps
    PROVE  /\ EngineProven!Goes(pc[Self], pc'[Self])
           /\ \A q \in Procs \ {Self} : pc'[q] = pc[q]
           /\ mem'[Self].ops = mem[Self].ops
           /\ \A c \in Controls : hw'[c] # hw[c] => \E i \in 1..Len(mem[Self].ops) : mem[Self].ops[i] = c
           /\ pc'[Self] = "idle" /\ pc[Self] # "captured" => disk' = NoRecord
<1>1. EngineProven!Transaction(Self)
  BY RollbackSame, ApplySame DEF ApplySteps
<1>2. Self \in Procs /\ EngineProven!TypeInv
  BY HarnessAssumption DEF Sound
<1>3. QED
  BY <1>1, <1>2, EngineAssumed, EngineProven!TransactionStep

LEMMA AfterWriting ==
    ASSUME Sound, ApplySteps
    PROVE  /\ pc'[Self] = "mark" =>
                \/ pc[Self] = "captured" /\ idx'[Self] = 1
                \/ /\ pc[Self] = "write" /\ idx'[Self] = idx[Self] + 1
                   /\ \A i \in 1..Len(mem[Self].ops) :
                         i # idx[Self] => hw'[mem[Self].ops[i]] = hw[mem[Self].ops[i]]
           /\ pc'[Self] = "write" => pc[Self] = "mark" /\ idx'[Self] = idx[Self] /\ hw' = hw
           /\ pc'[Self] = "active" =>
                pc[Self] = "mark" /\ idx'[Self] = idx[Self] /\ hw' = hw /\ idx[Self] > Len(mem[Self].ops)
<1>1. EngineProven!Transaction(Self)
  BY RollbackSame, ApplySame DEF ApplySteps
<1>2. Self \in Procs /\ EngineProven!TypeInv
  BY HarnessAssumption DEF Sound
<1>3. PICK M : M = moved.ever
  OBVIOUS
<1>4. EngineProven!SafeInv(M)
  BY <1>3 DEF Sound
<1>5. QED
  BY <1>1, <1>2, <1>4, EngineAssumed, EngineProven!WritingStep

-----------------------------------------------------------------------------
(* Type correctness.                                                       *)

Stages == {"off", "look", "hydrate", "recover", "rediscover", "ready", "case", "apply",
           "effective", "undo", "verify", "save", "final", "leave"}

\* What a discovery may have read.
Readable == UNION {[S -> Values] : S \in SUBSET Controls}

Harnesses == [stage : Stages, mutate : BOOLEAN, output : BOOLEAN, stock : Readable, case : Nat,
              error : BOOLEAN, exit : {"none", "ok", "error", "killed"}]

TypeOK ==
    /\ machine \in Machines
    /\ runs \in Nat
    /\ smoke \in Harnesses
    /\ report \in Reports \cup {None}
    /\ moved \in [ever : SUBSET Controls, late : SUBSET Controls]

-----------------------------------------------------------------------------
(* The inductive invariant.                                                *)

\* Where the harness is, and where that puts its engine.
Preparing == {"look", "hydrate", "recover", "rediscover", "ready"}
Exercising == {"case", "apply", "effective", "undo", "verify", "save"}

InStage(stage, label) ==
    /\ stage \in {"off", "look"} => label = "down"
    /\ stage = "hydrate" => label = "started"
    /\ stage = "recover" => label \in {"started"} \cup Engine!InRecovery
    /\ stage \in {"rediscover", "ready", "case", "final"} => label = "idle"
    /\ stage = "apply" => label \in {"captured", "mark", "write", "roll", "restore", "restored"}
    /\ stage = "effective" => label = "active"
    /\ stage = "undo" => label \in {"active", "restore", "restored"}
    /\ stage \in {"verify", "save", "leave"} => label \in {"idle", "incomplete"}

Placed ==
    /\ \A p \in Procs \ {Self} : pc[p] = "down"
    /\ InStage(smoke.stage, pc[Self])
    /\ smoke.stage \in {"verify", "save"} /\ pc[Self] = "incomplete" => smoke.error
    /\ smoke.stage \notin {"off", "look"} => smoke.output
    /\ smoke.stage \in Preparing => smoke.case = 0
    /\ smoke.stage = "look" => ~smoke.mutate

\* The report is ahead of the case that is exercised; a harness that leaves a
\* rollback behind may have told of that too.
Ahead ==
    /\ smoke.stage \in Exercising =>
          /\ smoke.case >= 1
          /\ report # None /\ report.run = runs /\ report.cases = smoke.case - 1 /\ ~report.error
    /\ smoke.stage = "leave" /\ pc[Self] = "incomplete" =>
          report # None /\ report.run = runs /\ report.cases \in {smoke.case - 1, smoke.case}

Succeeded == smoke.exit = "ok" /\ smoke.mutate

\* It exercises nothing after an error, and succeeds at the end only.
ErrorFree ==
    /\ smoke.stage \in {"case", "apply", "effective"} => ~smoke.error
    /\ Succeeded => smoke.stage \in {"leave", "off"}

\* Between the cases, and after the last, no record is left.
Clean ==
    /\ smoke.stage \in {"rediscover", "ready", "case", "final"} \/ Succeeded => disk = NoRecord
    /\ smoke.stage \in {"verify", "save"} /\ ~smoke.error => disk = NoRecord

\* What it takes for stock is what the engine takes for stock.
StockIsBoot ==
    smoke.stage \in Exercising \cup {"ready", "final"} \/ Succeeded =>
        \A c \in DOMAIN smoke.stock \ moved.ever : smoke.stock[c] = Stock

\* The case that is exercised is one of the cases, has passed its review, and is
\* what the engine works on.
InCase ==
    /\ smoke.stage \in Exercising => smoke.case \in DOMAIN Cases
    /\ smoke.stage \in {"apply", "effective", "undo"} =>
          CaseReview.ok /\ mem[Self].ops = [i \in DOMAIN Case |-> Case[i].id]

\* What it has written so far holds what has been reviewed.
AsReviewed(c, i) == Reported(c, hw[c]) = CaseReview.changes[i].requested

Written ==
    /\ pc[Self] \in {"mark", "write", "active"} =>
          \A i \in DOMAIN mem[Self].ops :
             i < idx[Self] /\ mem[Self].ops[i] \notin moved.ever => AsReviewed(mem[Self].ops[i], i)
    /\ pc[Self] = "active" => idx[Self] > Len(mem[Self].ops)

\* The cases that have been verified are as they were.
Verified ==
    IF Succeeded \/ smoke.stage = "final" THEN DOMAIN Cases
    ELSE {k \in DOMAIN Cases : k < smoke.case \/ (k = smoke.case /\ smoke.stage = "save" /\ ~smoke.error)}

Restored == \A k \in Verified : \A c \in Ids(Cases[k]) \ moved.late : hw[c] = smoke.stock[c]

Basics == TypeOK /\ Placed /\ Ahead /\ ErrorFree /\ Clean /\ StockIsBoot

Inv == Sound /\ Basics /\ InCase /\ Written /\ Restored

-----------------------------------------------------------------------------
(* What does not depend on the cases.                                      *)

LEMMA ReadingsAreReadable == ASSUME Sound PROVE Readings \subseteq Readable
<1>1. hw \in [Controls -> Values]
  BY SoundType
<1>2. ASSUME NEW S \in SUBSET Controls PROVE [d \in S |-> hw[d]] \in Readable
  <2>1. [d \in S |-> hw[d]] \in [S -> Values]
    BY <1>1
  <2>2. QED
    BY <2>1 DEF Readable
<1>3. hw \in Readable
  BY <1>1 DEF Readable
<1>4. QED
  BY <1>2, <1>3 DEF Readings

\* A reading is of what is there.
LEMMA ReadingIs ==
    ASSUME Sound, NEW reading \in Readings, NEW c \in DOMAIN reading
    PROVE  c \in Controls /\ reading[c] = hw[c]
<1>1. hw \in [Controls -> Values]
  BY SoundType
<1>2. CASE reading = hw
  BY <1>1, <1>2
<1>3. CASE reading # hw
  <2>1. PICK b \in Controls : reading = [d \in {e \in Controls : Order[e] # Order[b]} |-> hw[d]]
    BY <1>3 DEF Readings
  <2>2. QED
    BY <2>1
<1>4. QED
  BY <1>2, <1>3

LEMMA DiscoverCalls ==
    ASSUME NEW reading, discover(reading)
    PROVE  UNCHANGED faults \/ Fault
BY DEF discover

LEMMA EmitCalls ==
    ASSUME TypeOK, NEW entry \in Reports, NEW ok \in BOOLEAN, emitReport(entry, ok)
    PROVE  /\ UNCHANGED faults \/ Fault
           /\ report' \in Reports \cup {None}
           /\ ok /\ smoke.output => report' = entry
           /\ ~ok => smoke.output /\ report' = report
BY DEF emitReport, TypeOK

\* What a step has to say of the harness for the basics to go on; Sound and the
\* rest of the invariant are kept by lemmas of their own.
LEMMA EntryIsReport ==
    ASSUME TypeOK, NEW cases \in Nat, NEW error \in BOOLEAN
    PROVE  /\ Entry(cases, error) \in Reports /\ Entry(cases, error) # None
           /\ Entry(cases, error).run = runs /\ Entry(cases, error).cases = cases
           /\ Entry(cases, error).error = error
BY HarnessAssumption DEF Entry, Reports, TypeOK

LEMMA OffIsHarness == Off \in Harnesses
<1>1. << >> \in [{} -> Values] /\ {} \in SUBSET Controls
  OBVIOUS
<1>2. << >> \in Readable
  BY <1>1 DEF Readable
<1>3. QED
  BY <1>2 DEF Off, Harnesses, Stages

LEMMA StartBasics == ASSUME Inv, NEW options \in Options, Start(options) PROVE Basics'
<1>1. /\ smoke.stage = "off" /\ pc[Self] = "down" /\ runs \in Nat /\ runs' = runs + 1
      /\ UNCHANGED <<machine, report, moved>>
  BY DEF Start, Inv, Basics, TypeOK
<1>2. \/ /\ smoke' = [Off EXCEPT !.mutate = FALSE, !.output = options.output, !.stage = "look"]
         /\ UNCHANGED engineVars
      \/ /\ smoke' = [Off EXCEPT !.mutate = TRUE, !.output = TRUE, !.stage = "hydrate"]
         /\ Engine!Start(Self)
      \/ /\ smoke' = [Off EXCEPT !.mutate = TRUE, !.output = options.output, !.exit = "error"]
         /\ UNCHANGED engineVars
  BY DEF Start, Options
<1>3. options.output \in BOOLEAN
  BY DEF Options
<1>4. /\ smoke' \in Harnesses
      /\ smoke'.case = 0 /\ smoke'.stock = << >> /\ smoke'.exit # "ok"
      /\ \/ smoke'.stage = "look" /\ ~smoke'.mutate /\ UNCHANGED engineVars
         \/ smoke'.stage = "hydrate" /\ smoke'.output /\ Engine!Start(Self)
         \/ smoke'.stage = "off" /\ UNCHANGED engineVars
  BY <1>2, <1>3, OffIsHarness, Zenon DEF Off, Harnesses, Stages
<1>5. /\ \A q \in Procs \ {Self} : pc'[q] = "down"
      /\ UNCHANGED disk
      /\ smoke'.stage \in {"look", "off"} => pc'[Self] = "down"
      /\ smoke'.stage = "hydrate" => pc'[Self] = "started"
  BY <1>1, <1>4, AfterStart DEF engineVars, Inv, Basics, Placed
<1>6. TypeOK'
  BY <1>1, <1>4 DEF Inv, Basics, TypeOK
<1>7. Placed'
  BY <1>4, <1>5 DEF Placed, InStage, Preparing
<1>8. Ahead' /\ ErrorFree' /\ Clean' /\ StockIsBoot'
  BY <1>4 DEF Ahead, ErrorFree, Clean, StockIsBoot, Succeeded, Exercising
<1>9. QED
  BY <1>6, <1>7, <1>8 DEF Basics

LEMMA LookBasics == ASSUME Inv, Look PROVE Basics' /\ (UNCHANGED faults \/ Fault)
<1>1. PICK saved \in BOOLEAN :
         /\ emitReport(Entry(0, FALSE), saved)
         /\ Ends(IF saved THEN "ok" ELSE "error")
  BY DEF Look
<1>2. /\ smoke.stage = "look" /\ pc[Self] = "down" /\ ~smoke.mutate /\ smoke.case = 0
      /\ smoke \in Harnesses /\ smoke.exit \in {"none", "ok", "error", "killed"}
      /\ UNCHANGED <<hw, disk, pc, machine, runs, moved>>
  BY DEF Look, QuietEngine, Inv, Basics, TypeOK, Placed, InStage, Preparing, Harnesses
<1>3. /\ UNCHANGED faults \/ Fault
      /\ report' \in Reports \cup {None}
  BY <1>1, EntryIsReport, EmitCalls DEF Inv, Basics
<1>4. smoke' = [smoke EXCEPT !.stage = "off", !.exit = IF saved THEN "ok" ELSE "error"]
  BY <1>1, <1>2 DEF Ends
<1>5. smoke' \in Harnesses /\ smoke'.stage = "off" /\ ~smoke'.mutate
  BY <1>2, <1>4 DEF Harnesses, Stages
<1>6. TypeOK'
  BY <1>2, <1>3, <1>5 DEF Inv, Basics, TypeOK
<1>7. Placed'
  BY <1>2, <1>5 DEF Inv, Basics, Placed, InStage, Preparing
<1>8. Ahead' /\ ErrorFree' /\ Clean' /\ StockIsBoot'
  BY <1>5 DEF Ahead, ErrorFree, Clean, StockIsBoot, Succeeded, Exercising
<1>9. QED
  BY <1>3, <1>6, <1>7, <1>8 DEF Basics

LEMMA HydrateBasics == ASSUME Inv, Hydrate PROVE Basics' /\ (UNCHANGED faults \/ Fault)
<1>1. PICK reading \in Readings :
         /\ discover(reading)
         /\ smoke' = [smoke EXCEPT !.stage = "recover", !.stock = reading, !.error = reading # hw]
  BY DEF Hydrate
<1>2. /\ smoke.stage = "hydrate" /\ pc[Self] = "started" /\ smoke.case = 0 /\ smoke.output
      /\ smoke \in Harnesses
      /\ UNCHANGED <<hw, disk, pc, machine, runs, report, moved>>
  BY DEF Hydrate, QuietEngine, Quiet, Inv, Basics, TypeOK, Placed, InStage, Preparing
<1>3. UNCHANGED faults \/ Fault
  BY <1>1, DiscoverCalls
<1>4. reading \in Readable
  BY ReadingsAreReadable DEF Inv
<1>5. /\ smoke' \in Harnesses /\ smoke'.stage = "recover" /\ smoke'.case = 0 /\ smoke'.output
      /\ smoke'.exit = smoke.exit /\ smoke'.mutate = smoke.mutate
  BY <1>1, <1>2, <1>4 DEF Harnesses, Stages
<1>6. TypeOK'
  BY <1>2, <1>5 DEF Inv, Basics, TypeOK
<1>7. Placed'
  BY <1>2, <1>5 DEF Inv, Basics, Placed, InStage, Preparing
<1>8. ~Succeeded'
  BY <1>2, <1>5 DEF Inv, Basics, ErrorFree, Succeeded
<1>9. Ahead' /\ ErrorFree' /\ Clean' /\ StockIsBoot'
  BY <1>5, <1>8 DEF Ahead, ErrorFree, Clean, StockIsBoot, Exercising
<1>10. QED
  BY <1>3, <1>6, <1>7, <1>9 DEF Basics

LEMMA RecoverBasics == ASSUME Inv, Recover PROVE Basics'
<1>1. /\ smoke.stage = "recover" /\ smoke.case = 0 /\ smoke.output
      /\ smoke \in Harnesses /\ runs \in Nat
      /\ UNCHANGED <<machine, runs, moved>>
      /\ RecoverySteps
  BY DEF Recover, Inv, Basics, TypeOK, Placed, Preparing
<1>2. /\ pc'[Self] \in {"down", "idle"} \cup Engine!InRecovery
      /\ \A q \in Procs \ {Self} : pc'[q] = "down"
      /\ pc'[Self] = "idle" => disk' = NoRecord
  BY <1>1, AfterRecovery DEF Inv, Basics, Placed
<1>3. \/ /\ pc'[Self] = "down"
         /\ smoke' = [smoke EXCEPT !.stage = "off", !.exit = "error", !.error = TRUE]
         /\ report' = Entry(0, TRUE)
      \/ /\ pc'[Self] = "idle"
         /\ smoke' = [smoke EXCEPT !.stage = "rediscover"]
         /\ report' = report
      \/ /\ pc'[Self] \in Engine!InRecovery
         /\ smoke' = [smoke EXCEPT !.stage = "recover"]
         /\ report' = report
  BY <1>2 DEF Recover, Goto, Engine!InRecovery
<1>4. /\ smoke' \in Harnesses /\ smoke'.case = 0 /\ smoke'.output /\ smoke'.mutate = smoke.mutate
      /\ \/ smoke'.stage = "off" /\ pc'[Self] = "down" /\ smoke'.exit = "error"
         \/ smoke'.stage = "rediscover" /\ pc'[Self] = "idle" /\ smoke'.exit = smoke.exit
         \/ smoke'.stage = "recover" /\ pc'[Self] \in Engine!InRecovery /\ smoke'.exit = smoke.exit
  BY <1>1, <1>3 DEF Harnesses, Stages
<1>5. report' \in Reports \cup {None}
  BY <1>3, EntryIsReport DEF Inv, Basics, TypeOK
<1>6. TypeOK'
  BY <1>1, <1>4, <1>5 DEF Inv, Basics, TypeOK
<1>7. Placed'
  BY <1>2, <1>4 DEF Placed, InStage, Preparing, Engine!InRecovery
<1>8. ~Succeeded'
  BY <1>1, <1>4 DEF Inv, Basics, ErrorFree, Succeeded
<1>9. Ahead' /\ ErrorFree' /\ Clean' /\ StockIsBoot'
  BY <1>2, <1>4, <1>8 DEF Ahead, ErrorFree, Clean, StockIsBoot, Exercising
<1>10. QED
  BY <1>6, <1>7, <1>9 DEF Basics

LEMMA RediscoverBasics == ASSUME Inv, Rediscover PROVE Basics' /\ (UNCHANGED faults \/ Fault)
<1>1. PICK reading \in Readings :
         /\ discover(reading)
         /\ smoke' = [smoke EXCEPT !.stage = "ready", !.stock = reading, !.error = smoke.error \/ reading # hw]
  BY DEF Rediscover
<1>2. /\ smoke.stage = "rediscover" /\ pc[Self] = "idle" /\ smoke.case = 0 /\ smoke.output
      /\ smoke \in Harnesses /\ disk = NoRecord
      /\ UNCHANGED <<hw, disk, pc, machine, runs, report, moved>>
  BY DEF Rediscover, QuietEngine, Quiet, Inv, Basics, TypeOK, Placed, InStage, Preparing, Clean
<1>3. UNCHANGED faults \/ Fault
  BY <1>1, DiscoverCalls
<1>4. reading \in Readable
  BY ReadingsAreReadable DEF Inv
<1>5. /\ smoke' \in Harnesses /\ smoke'.stage = "ready" /\ smoke'.case = 0 /\ smoke'.output
      /\ smoke'.exit = smoke.exit /\ smoke'.mutate = smoke.mutate /\ smoke'.stock = reading
  BY <1>1, <1>2, <1>4 DEF Harnesses, Stages
<1>6. TypeOK'
  BY <1>2, <1>5 DEF Inv, Basics, TypeOK
<1>7. Placed'
  BY <1>2, <1>5 DEF Inv, Basics, Placed, InStage, Preparing
<1>8. ~Succeeded'
  BY <1>2, <1>5 DEF Inv, Basics, ErrorFree, Succeeded
<1>9. \A c \in DOMAIN reading \ moved.ever : reading[c] = Stock
  BY <1>2, ReadingIs, IdleIsStock DEF Inv
<1>10. Ahead' /\ ErrorFree' /\ Clean' /\ StockIsBoot'
  BY <1>2, <1>5, <1>8, <1>9 DEF Ahead, ErrorFree, Clean, StockIsBoot, Exercising
<1>11. QED
  BY <1>3, <1>6, <1>7, <1>10 DEF Basics

LEMMA ReadyBasics == ASSUME Inv, Ready PROVE Basics' /\ (UNCHANGED faults \/ Fault)
<1>1. PICK saved \in BOOLEAN :
         /\ emitReport(Entry(0, smoke.error), saved)
         /\ IF saved /\ ~smoke.error
            THEN smoke' = [smoke EXCEPT !.stage = IF Cases = <<>> THEN "final" ELSE "case", !.case = 1]
            ELSE Ends("error")
  BY DEF Ready
<1>2. /\ smoke.stage = "ready" /\ pc[Self] = "idle" /\ smoke.case = 0 /\ smoke.output
      /\ smoke \in Harnesses /\ smoke.error \in BOOLEAN /\ disk = NoRecord
      /\ UNCHANGED <<hw, disk, pc, machine, runs, moved>>
  BY DEF Ready, QuietEngine, Inv, Basics, TypeOK, Placed, InStage, Preparing, Clean, Harnesses
<1>3. /\ UNCHANGED faults \/ Fault
      /\ report' \in Reports \cup {None}
      /\ saved => report' = Entry(0, smoke.error)
  BY <1>1, <1>2, EntryIsReport, EmitCalls DEF Inv, Basics
<1>4. /\ smoke' \in Harnesses /\ smoke'.output /\ smoke'.stock = smoke.stock
      /\ smoke'.mutate = smoke.mutate /\ smoke'.error = smoke.error
      /\ \/ /\ smoke'.stage \in {"final", "case"} /\ smoke'.case = 1 /\ smoke'.exit = smoke.exit
            /\ ~smoke'.error /\ report' = Entry(0, FALSE)
         \/ /\ smoke'.stage = "leave" /\ smoke'.case = 0 /\ smoke'.exit = "error"
  <2>1. CASE saved /\ ~smoke.error
    <3>1. PICK stage \in {"final", "case"} : smoke' = [smoke EXCEPT !.stage = stage, !.case = 1]
      BY <1>1, <2>1
    <3>2. report' = Entry(0, FALSE)
      BY <1>2, <1>3, <2>1
    <3>3. QED
      BY <1>2, <2>1, <3>1, <3>2 DEF Harnesses, Stages
  <2>2. CASE ~(saved /\ ~smoke.error)
    <3>1. smoke' = [smoke EXCEPT !.stage = "leave", !.exit = "error"]
      BY <1>1, <1>2, <2>2 DEF Ends
    <3>2. QED
      BY <1>2, <3>1 DEF Harnesses, Stages
  <2>3. QED
    BY <2>1, <2>2
<1>5. report' = Entry(0, FALSE) => report' # None /\ report'.run = runs /\ report'.cases = 0 /\ ~report'.error
  BY EntryIsReport DEF Inv, Basics
<1>6. TypeOK'
  BY <1>2, <1>3, <1>4 DEF Inv, Basics, TypeOK
<1>7. Placed'
  BY <1>2, <1>4 DEF Inv, Basics, Placed, InStage, Preparing
<1>8. ~Succeeded'
  BY <1>2, <1>4 DEF Inv, Basics, ErrorFree, Succeeded
<1>9. \A c \in DOMAIN smoke.stock \ moved.ever : smoke.stock[c] = Stock
  BY <1>2 DEF Inv, Basics, StockIsBoot
<1>10. Ahead'
  <2>1. CASE smoke'.stage \in {"final", "case"}
    <3>1. smoke'.case = 1 /\ report' = Entry(0, FALSE)
      BY <1>4, <2>1
    <3>2. report' # None /\ report'.run = runs' /\ report'.cases = 0 /\ ~report'.error
      BY <1>2, <1>5, <3>1, Zenon
    <3>3. smoke'.case - 1 = 0 /\ smoke'.case >= 1
      BY <3>1
    <3>4. QED
      BY <2>1, <3>2, <3>3, Zenon DEF Ahead
  <2>2. CASE smoke'.stage = "leave"
    BY <1>2, <2>2 DEF Ahead, Exercising
  <2>3. QED
    BY <1>4, <2>1, <2>2
<1>11. ErrorFree' /\ Clean'
  BY <1>2, <1>4, <1>8 DEF ErrorFree, Clean
<1>12. StockIsBoot'
  BY <1>2, <1>4, <1>9 DEF StockIsBoot
<1>13. QED
  BY <1>3, <1>6, <1>7, <1>10, <1>11, <1>12 DEF Basics

\* Within a case, the report and what was read at the start stay.
LEMMA CaseGoesOn ==
    ASSUME Inv, smoke.stage \in Exercising, smoke'.stage \in Exercising,
           smoke' \in Harnesses, UNCHANGED <<machine, runs, report>>,
           moved' \in [ever : SUBSET Controls, late : SUBSET Controls], moved'.ever = moved.ever,
           smoke'.mutate = smoke.mutate, smoke'.output, smoke'.stock = smoke.stock,
           smoke'.case = smoke.case, smoke'.exit = smoke.exit
    PROVE  TypeOK' /\ Ahead' /\ StockIsBoot' /\ ~Succeeded'
<1>1. TypeOK'
  BY DEF Inv, Basics, TypeOK
<1>2. ~Succeeded'
  BY DEF Inv, Basics, ErrorFree, Succeeded, Exercising
<1>3. Ahead'
  BY DEF Inv, Basics, Ahead, Exercising
<1>4. \A c \in DOMAIN smoke.stock \ moved.ever : smoke.stock[c] = Stock
  BY DEF Inv, Basics, StockIsBoot
<1>5. StockIsBoot'
  BY <1>4 DEF StockIsBoot
<1>6. QED
  BY <1>1, <1>2, <1>3, <1>5

LEMMA BeginBasics == ASSUME Inv, Begin PROVE Basics'
<1>1. /\ smoke.stage = "case" /\ pc[Self] = "idle" /\ smoke.output
      /\ \A q \in Procs \ {Self} : pc[q] = "down"
      /\ smoke \in Harnesses /\ smoke.error \in BOOLEAN /\ ~smoke.error
      /\ moved \in [ever : SUBSET Controls, late : SUBSET Controls]
      /\ UNCHANGED <<machine, runs, report, moved>>
  BY DEF Begin, Quiet, Inv, Basics, TypeOK, Placed, InStage, ErrorFree, Harnesses
<1>2. CASE Engine!Begin(Self) /\ Goto("apply")
  <2>1. /\ pc'[Self] = "captured"
        /\ \A q \in Procs \ {Self} : pc'[q] = "down"
    BY <1>1, <1>2, AfterBegin DEF Inv
  <2>2. /\ smoke' \in Harnesses /\ smoke'.stage = "apply" /\ smoke'.output /\ ~smoke'.error
        /\ smoke'.mutate = smoke.mutate /\ smoke'.stock = smoke.stock
        /\ smoke'.case = smoke.case /\ smoke'.exit = smoke.exit
    BY <1>1, <1>2 DEF Goto, Harnesses, Stages
  <2>3. TypeOK' /\ Ahead' /\ StockIsBoot' /\ ~Succeeded'
    BY <1>1, <2>2, CaseGoesOn DEF Exercising
  <2>4. Placed'
    BY <2>1, <2>2 DEF Placed, InStage, Preparing
  <2>5. ErrorFree' /\ Clean'
    BY <2>2, <2>3 DEF ErrorFree, Clean
  <2>6. QED
    BY <2>3, <2>4, <2>5 DEF Basics
<1>3. CASE smoke' = [smoke EXCEPT !.stage = "save", !.error = TRUE] /\ QuietEngine
  <2>1. pc' = pc /\ disk' = disk
    BY <1>3 DEF QuietEngine
  <2>2. /\ smoke' \in Harnesses /\ smoke'.stage = "save" /\ smoke'.output /\ smoke'.error
        /\ smoke'.mutate = smoke.mutate /\ smoke'.stock = smoke.stock
        /\ smoke'.case = smoke.case /\ smoke'.exit = smoke.exit
    BY <1>1, <1>3 DEF Harnesses, Stages
  <2>3. TypeOK' /\ Ahead' /\ StockIsBoot' /\ ~Succeeded'
    BY <1>1, <2>2, CaseGoesOn DEF Exercising
  <2>4. Placed'
    BY <1>1, <2>1, <2>2 DEF Placed, InStage, Preparing
  <2>5. ErrorFree' /\ Clean'
    BY <2>2, <2>3 DEF ErrorFree, Clean
  <2>6. QED
    BY <2>3, <2>4, <2>5 DEF Basics
<1>4. QED
  BY <1>2, <1>3 DEF Begin

\* What Apply and Undo have in common.
LEMMA TransactionGoesOn ==
    ASSUME Inv, Quiet, ApplySteps, smoke.stage \in {"apply", "undo"},
           \/ smoke' = smoke
           \/ /\ smoke.stage = "apply" /\ pc'[Self] = "active"
              /\ smoke' = [smoke EXCEPT !.stage = "effective"]
           \/ /\ smoke.stage = "apply" /\ pc'[Self] \in {"idle", "incomplete"}
              /\ smoke' = [smoke EXCEPT !.stage = "save", !.error = TRUE]
           \/ /\ smoke.stage = "undo" /\ pc'[Self] \in {"idle", "incomplete"}
              /\ smoke' = [smoke EXCEPT !.stage = "verify", !.error = smoke.error \/ pc'[Self] = "incomplete"]
    PROVE  /\ TypeOK' /\ Ahead' /\ StockIsBoot' /\ ~Succeeded'
           /\ smoke' \in Harnesses /\ smoke'.output
           /\ smoke'.stock = smoke.stock /\ smoke'.case = smoke.case
           /\ \/ smoke' = smoke
              \/ smoke'.stage = "effective" /\ ~smoke'.error /\ pc'[Self] = "active" /\ smoke.stage = "apply"
              \/ smoke'.stage = "save" /\ smoke'.error /\ pc'[Self] \in {"idle", "incomplete"} /\ smoke.stage = "apply"
              \/ /\ smoke'.stage = "verify" /\ pc'[Self] \in {"idle", "incomplete"} /\ smoke.stage = "undo"
                 /\ pc'[Self] = "incomplete" => smoke'.error
<1>1. /\ smoke \in Harnesses /\ smoke.output /\ smoke.error \in BOOLEAN
      /\ smoke.stage = "apply" => ~smoke.error
      /\ moved \in [ever : SUBSET Controls, late : SUBSET Controls]
      /\ UNCHANGED <<machine, runs, report, moved>>
  BY DEF Quiet, Inv, Basics, TypeOK, Placed, ErrorFree, Harnesses
<1>2. /\ smoke' \in Harnesses /\ smoke'.output
      /\ smoke'.mutate = smoke.mutate /\ smoke'.stock = smoke.stock
      /\ smoke'.case = smoke.case /\ smoke'.exit = smoke.exit
      /\ \/ smoke' = smoke
         \/ smoke'.stage = "effective" /\ ~smoke'.error /\ pc'[Self] = "active" /\ smoke.stage = "apply"
         \/ smoke'.stage = "save" /\ smoke'.error /\ pc'[Self] \in {"idle", "incomplete"} /\ smoke.stage = "apply"
         \/ /\ smoke'.stage = "verify" /\ pc'[Self] \in {"idle", "incomplete"} /\ smoke.stage = "undo"
            /\ pc'[Self] = "incomplete" => smoke'.error
  <2>1. CASE smoke' = smoke
    BY <1>1, <2>1
  <2>2. CASE /\ smoke.stage = "apply" /\ pc'[Self] = "active"
             /\ smoke' = [smoke EXCEPT !.stage = "effective"]
    <3>1. /\ smoke' \in Harnesses /\ smoke'.stage = "effective" /\ smoke'.error = smoke.error
          /\ smoke'.output = smoke.output /\ smoke'.mutate = smoke.mutate
          /\ smoke'.stock = smoke.stock /\ smoke'.case = smoke.case /\ smoke'.exit = smoke.exit
      BY <1>1, <2>2 DEF Harnesses, Stages
    <3>2. QED
      BY <1>1, <2>2, <3>1
  <2>3. CASE /\ smoke.stage = "apply" /\ pc'[Self] \in {"idle", "incomplete"}
             /\ smoke' = [smoke EXCEPT !.stage = "save", !.error = TRUE]
    <3>1. /\ smoke' \in Harnesses /\ smoke'.stage = "save" /\ smoke'.error
          /\ smoke'.output = smoke.output /\ smoke'.mutate = smoke.mutate
          /\ smoke'.stock = smoke.stock /\ smoke'.case = smoke.case /\ smoke'.exit = smoke.exit
      BY <1>1, <2>3 DEF Harnesses, Stages
    <3>2. QED
      BY <1>1, <2>3, <3>1
  <2>4. CASE /\ smoke.stage = "undo" /\ pc'[Self] \in {"idle", "incomplete"}
             /\ smoke' = [smoke EXCEPT !.stage = "verify", !.error = smoke.error \/ pc'[Self] = "incomplete"]
    <3>1. PICK e \in BOOLEAN : e = (smoke.error \/ pc'[Self] = "incomplete")
      OBVIOUS
    <3>2. smoke' = [smoke EXCEPT !.stage = "verify", !.error = e]
      BY <2>4, <3>1
    <3>3. /\ smoke' \in Harnesses /\ smoke'.stage = "verify" /\ smoke'.error = e
          /\ smoke'.output = smoke.output /\ smoke'.mutate = smoke.mutate
          /\ smoke'.stock = smoke.stock /\ smoke'.case = smoke.case /\ smoke'.exit = smoke.exit
      BY <1>1, <3>1, <3>2 DEF Harnesses, Stages
    <3>4. QED
      BY <1>1, <2>4, <3>1, <3>3
  <2>5. QED
    BY <2>1, <2>2, <2>3, <2>4, Zenon
<1>3. smoke.stage \in Exercising /\ smoke'.stage \in Exercising
  BY <1>2 DEF Exercising
<1>4. TypeOK' /\ Ahead' /\ StockIsBoot' /\ ~Succeeded'
  BY <1>1, <1>2, <1>3, CaseGoesOn
<1>5. QED
  BY <1>2, <1>4

LEMMA ApplyIs ==
    ASSUME Inv, Apply
    PROVE  /\ ApplySteps /\ smoke.stage = "apply" /\ Quiet
           /\ \/ /\ smoke' = smoke
                 /\ pc'[Self] \in {"mark", "write", "roll", "restore", "restored"}
              \/ pc'[Self] = "active" /\ smoke' = [smoke EXCEPT !.stage = "effective"]
              \/ /\ pc'[Self] \in {"idle", "incomplete"}
                 /\ smoke' = [smoke EXCEPT !.stage = "save", !.error = TRUE]
<1>1. ApplySteps /\ smoke.stage = "apply" /\ Quiet
  BY Zenon DEF Apply, ApplySteps, Write
<1>2. /\ pc[Self] \in {"captured", "mark", "write", "roll", "restore", "restored"}
      /\ EngineProven!Goes(pc[Self], pc'[Self])
  BY <1>1, AfterTransaction DEF Inv, Basics, Placed, InStage
<1>3. pc'[Self] \in {"mark", "write", "roll", "restore", "restored", "active", "idle", "incomplete"}
  BY <1>2 DEF EngineProven!Goes
<1>4. smoke' = CASE pc'[Self] = "active" -> [smoke EXCEPT !.stage = "effective"]
                  [] pc'[Self] \in {"idle", "incomplete"} -> [smoke EXCEPT !.stage = "save", !.error = TRUE]
                  [] OTHER -> smoke
  BY Zenon DEF Apply
<1>5. CASE pc'[Self] = "active"
  <2>1. "active" \notin {"idle", "incomplete"}
    OBVIOUS
  <2>2. smoke' = [smoke EXCEPT !.stage = "effective"]
    BY <1>4, <1>5, <2>1, Zenon
  <2>3. QED
    BY <1>1, <1>5, <2>2
<1>6. CASE pc'[Self] \in {"idle", "incomplete"}
  <2>1. pc'[Self] # "active"
    BY <1>6
  <2>2. smoke' = [smoke EXCEPT !.stage = "save", !.error = TRUE]
    BY <1>4, <1>6, <2>1, Zenon
  <2>3. QED
    BY <1>1, <1>6, <2>2
<1>7. CASE pc'[Self] \in {"mark", "write", "roll", "restore", "restored"}
  <2>1. pc'[Self] # "active" /\ pc'[Self] \notin {"idle", "incomplete"}
    BY <1>7
  <2>2. smoke' = smoke
    BY <1>4, <2>1, Zenon
  <2>3. QED
    BY <1>1, <1>7, <2>2
<1>8. QED
  BY <1>3, <1>5, <1>6, <1>7

LEMMA UndoIs ==
    ASSUME Inv, Undo
    PROVE  /\ ApplySteps /\ smoke.stage = "undo" /\ Quiet
           /\ \/ smoke' = smoke /\ pc'[Self] \in {"restore", "restored"}
              \/ /\ pc'[Self] \in {"idle", "incomplete"}
                 /\ smoke' = [smoke EXCEPT !.stage = "verify", !.error = smoke.error \/ pc'[Self] = "incomplete"]
                 /\ pc'[Self] = "idle" => disk' = NoRecord
<1>1. ApplySteps /\ smoke.stage = "undo" /\ Quiet
  BY Zenon DEF Undo, ApplySteps
<1>2. /\ pc[Self] \in {"active", "restore", "restored"}
      /\ EngineProven!Goes(pc[Self], pc'[Self])
      /\ pc'[Self] = "idle" => disk' = NoRecord
  BY <1>1, AfterTransaction DEF Inv, Basics, Placed, InStage
<1>3. pc'[Self] \in {"restore", "restored", "idle", "incomplete"}
  BY <1>2 DEF EngineProven!Goes
<1>4. QED
  BY <1>1, <1>2, <1>3 DEF Undo

LEMMA ApplyBasics == ASSUME Inv, Apply PROVE Basics'
<1>1. /\ ApplySteps /\ smoke.stage = "apply" /\ Quiet
      /\ \/ /\ smoke' = smoke
            /\ pc'[Self] \in {"mark", "write", "roll", "restore", "restored"}
         \/ pc'[Self] = "active" /\ smoke' = [smoke EXCEPT !.stage = "effective"]
         \/ /\ pc'[Self] \in {"idle", "incomplete"}
            /\ smoke' = [smoke EXCEPT !.stage = "save", !.error = TRUE]
  BY ApplyIs
<1>2. \A q \in Procs \ {Self} : pc'[q] = "down"
  BY <1>1, AfterTransaction DEF Inv, Basics, Placed
<1>3. /\ TypeOK' /\ Ahead' /\ StockIsBoot' /\ ~Succeeded'
      /\ smoke' \in Harnesses /\ smoke'.output
      /\ \/ smoke' = smoke
         \/ smoke'.stage = "effective" /\ ~smoke'.error /\ pc'[Self] = "active"
         \/ smoke'.stage = "save" /\ smoke'.error /\ pc'[Self] \in {"idle", "incomplete"}
         \/ smoke'.stage = "verify" /\ smoke.stage = "undo"
  BY <1>1, TransactionGoesOn
<1>4. /\ \/ /\ smoke'.stage = "apply" /\ pc'[Self] \in {"mark", "write", "roll", "restore", "restored"}
            /\ ~smoke'.error
         \/ smoke'.stage = "effective" /\ ~smoke'.error /\ pc'[Self] = "active"
         \/ smoke'.stage = "save" /\ smoke'.error /\ pc'[Self] \in {"idle", "incomplete"}
  <2>1. smoke.stage = "apply" /\ ~smoke.error /\ smoke \in Harnesses
    BY <1>1 DEF Inv, Basics, ErrorFree, TypeOK
  <2>2. QED
    BY <1>1, <1>3, <2>1 DEF Harnesses
<1>5. Placed'
  BY <1>2, <1>3, <1>4 DEF Placed, InStage, Preparing
<1>6. ErrorFree' /\ Clean'
  BY <1>3, <1>4 DEF ErrorFree, Clean
<1>7. QED
  BY <1>3, <1>5, <1>6 DEF Basics

LEMMA UndoBasics == ASSUME Inv, Undo PROVE Basics'
<1>1. /\ ApplySteps /\ smoke.stage = "undo" /\ Quiet
      /\ \/ smoke' = smoke /\ pc'[Self] \in {"restore", "restored"}
         \/ /\ pc'[Self] \in {"idle", "incomplete"}
            /\ smoke' = [smoke EXCEPT !.stage = "verify", !.error = smoke.error \/ pc'[Self] = "incomplete"]
            /\ pc'[Self] = "idle" => disk' = NoRecord
  BY UndoIs
<1>2. \A q \in Procs \ {Self} : pc'[q] = "down"
  BY <1>1, AfterTransaction DEF Inv, Basics, Placed
<1>3. TypeOK' /\ Ahead' /\ StockIsBoot' /\ ~Succeeded' /\ smoke' \in Harnesses /\ smoke'.output
  BY <1>1, TransactionGoesOn
<1>4. /\ \/ smoke'.stage = "undo" /\ pc'[Self] \in {"restore", "restored"}
         \/ /\ smoke'.stage = "verify" /\ pc'[Self] \in {"idle", "incomplete"}
            /\ pc'[Self] = "incomplete" => smoke'.error
            /\ pc'[Self] = "idle" => disk' = NoRecord
  <2>1. smoke \in Harnesses
    BY DEF Inv, Basics, TypeOK
  <2>2. QED
    BY <1>1, <2>1 DEF Harnesses
<1>5. Placed'
  BY <1>2, <1>3, <1>4 DEF Placed, InStage, Preparing
<1>6. ErrorFree' /\ Clean'
  BY <1>3, <1>4 DEF ErrorFree, Clean
<1>7. QED
  BY <1>3, <1>5, <1>6 DEF Basics

LEMMA ObserveBasics == ASSUME Inv, Observe PROVE Basics' /\ (UNCHANGED faults \/ Fault)
<1>1. PICK reading \in Readings :
         /\ discover(reading)
         /\ smoke' = [smoke EXCEPT !.stage = "undo", !.error = reading # hw]
  BY DEF Observe
<1>2. /\ smoke.stage = "effective" /\ pc[Self] = "active" /\ smoke.output
      /\ smoke \in Harnesses
      /\ moved \in [ever : SUBSET Controls, late : SUBSET Controls]
      /\ UNCHANGED <<hw, disk, pc, machine, runs, report, moved>>
  BY DEF Observe, QuietEngine, Quiet, Inv, Basics, TypeOK, Placed, InStage
<1>3. UNCHANGED faults \/ Fault
  BY <1>1, DiscoverCalls
<1>4. /\ smoke' \in Harnesses /\ smoke'.stage = "undo" /\ smoke'.output
      /\ smoke'.mutate = smoke.mutate /\ smoke'.stock = smoke.stock
      /\ smoke'.case = smoke.case /\ smoke'.exit = smoke.exit
  BY <1>1, <1>2 DEF Harnesses, Stages
<1>5. TypeOK' /\ Ahead' /\ StockIsBoot' /\ ~Succeeded'
  BY <1>2, <1>4, CaseGoesOn DEF Exercising
<1>6. Placed'
  BY <1>2, <1>4 DEF Inv, Basics, Placed, InStage, Preparing
<1>7. ErrorFree' /\ Clean'
  BY <1>4, <1>5 DEF ErrorFree, Clean
<1>8. QED
  BY <1>3, <1>5, <1>6, <1>7 DEF Basics

LEMMA VerifyIs ==
    ASSUME Inv, Verify
    PROVE  /\ smoke.stage = "verify" /\ QuietEngine /\ UNCHANGED <<machine, runs, report>>
           /\ UNCHANGED faults \/ Fault
           /\ moved' \in [ever : SUBSET Controls, late : SUBSET Controls] /\ moved'.ever = moved.ever
           /\ smoke' \in Harnesses /\ smoke'.stage = "save"
           /\ smoke'.mutate = smoke.mutate /\ smoke'.output = smoke.output
           /\ smoke'.stock = smoke.stock /\ smoke'.case = smoke.case /\ smoke'.exit = smoke.exit
           /\ smoke.error => smoke'.error
           /\ moved.late \ Ids(Case) \subseteq moved'.late
           /\ ~smoke'.error => verifyRestored(hw)
<1>1. PICK reading \in Readings :
         /\ discover(reading)
         /\ smoke' = [smoke EXCEPT !.stage = "save",
                         !.error = smoke.error \/ reading # hw \/ ~verifyRestored(reading)]
         /\ moved' = [moved EXCEPT !.late = moved.late \ (Ids(Case) \cap DOMAIN reading)]
  BY DEF Verify
<1>2. /\ smoke.stage = "verify" /\ QuietEngine /\ UNCHANGED <<machine, runs, report>>
      /\ smoke \in Harnesses
      /\ moved \in [ever : SUBSET Controls, late : SUBSET Controls]
  BY DEF Verify, Inv, Basics, TypeOK
<1>3. UNCHANGED faults \/ Fault
  BY <1>1, DiscoverCalls
<1>4. /\ moved' \in [ever : SUBSET Controls, late : SUBSET Controls] /\ moved'.ever = moved.ever
      /\ moved.late \ Ids(Case) \subseteq moved'.late
  BY <1>1, <1>2
<1>5. PICK bad \in BOOLEAN : bad = (smoke.error \/ reading # hw \/ ~verifyRestored(reading))
  OBVIOUS
<1>6. smoke' = [smoke EXCEPT !.stage = "save", !.error = bad]
  BY <1>1, <1>5
<1>7. /\ smoke' \in Harnesses /\ smoke'.stage = "save"
      /\ smoke'.mutate = smoke.mutate /\ smoke'.output = smoke.output
      /\ smoke'.stock = smoke.stock /\ smoke'.case = smoke.case /\ smoke'.exit = smoke.exit
      /\ smoke'.error = bad
  BY <1>2, <1>6 DEF Harnesses, Stages
<1>8. (smoke.error => bad) /\ (~bad => verifyRestored(hw))
  BY <1>5, Zenon
<1>9. QED
  BY <1>2, <1>3, <1>4, <1>7, <1>8

LEMMA VerifyBasics == ASSUME Inv, Verify PROVE Basics'
<1>1. /\ smoke.stage = "verify" /\ QuietEngine /\ UNCHANGED <<machine, runs, report>>
      /\ moved' \in [ever : SUBSET Controls, late : SUBSET Controls] /\ moved'.ever = moved.ever
      /\ smoke' \in Harnesses /\ smoke'.stage = "save"
      /\ smoke'.mutate = smoke.mutate /\ smoke'.output = smoke.output
      /\ smoke'.stock = smoke.stock /\ smoke'.case = smoke.case /\ smoke'.exit = smoke.exit
      /\ smoke.error => smoke'.error
  BY VerifyIs
<1>2. /\ pc' = pc /\ disk' = disk /\ smoke.output
      /\ pc[Self] \in {"idle", "incomplete"} /\ (pc[Self] = "incomplete" => smoke.error)
      /\ ~smoke.error => disk = NoRecord
  BY <1>1 DEF QuietEngine, Inv, Basics, Placed, InStage, Clean
<1>3. TypeOK' /\ Ahead' /\ StockIsBoot' /\ ~Succeeded'
  BY <1>1, <1>2, CaseGoesOn DEF Exercising
<1>4. Placed'
  BY <1>1, <1>2 DEF Inv, Basics, Placed, InStage, Preparing
<1>5. ErrorFree' /\ Clean'
  BY <1>1, <1>2, <1>3 DEF ErrorFree, Clean
<1>6. QED
  BY <1>3, <1>4, <1>5 DEF Basics

LEMMA SaveIs ==
    ASSUME Inv, Save
    PROVE  /\ smoke.stage = "save" /\ QuietEngine /\ UNCHANGED <<machine, runs, moved>>
           /\ UNCHANGED faults \/ Fault
           /\ smoke' \in Harnesses /\ smoke'.error = smoke.error
           /\ smoke'.mutate = smoke.mutate /\ smoke'.output = smoke.output /\ smoke'.stock = smoke.stock
           /\ report' \in {report, Entry(smoke.case, smoke.error)}
           /\ \/ smoke'.stage = "leave" /\ smoke'.case = smoke.case /\ smoke'.exit = "error"
              \/ /\ smoke'.stage = "final" /\ smoke'.case = smoke.case /\ smoke'.exit = smoke.exit
                 /\ ~smoke.error /\ smoke.case = Len(Cases)
              \/ /\ smoke'.stage = "case" /\ smoke'.case = smoke.case + 1 /\ smoke'.exit = smoke.exit
                 /\ ~smoke.error /\ smoke.case # Len(Cases)
                 /\ report' = Entry(smoke.case, smoke.error)
<1>1. PICK saved \in BOOLEAN :
         /\ emitReport(Entry(smoke.case, smoke.error), saved)
         /\ smoke' = CASE ~saved \/ smoke.error -> [smoke EXCEPT !.stage = "leave", !.exit = "error"]
                        [] saved /\ ~smoke.error /\ smoke.case = Len(Cases) -> [smoke EXCEPT !.stage = "final"]
                        [] OTHER -> [smoke EXCEPT !.stage = "case", !.case = smoke.case + 1]
  BY DEF Save
<1>2. /\ smoke.stage = "save" /\ QuietEngine /\ UNCHANGED <<machine, runs, moved>>
      /\ smoke \in Harnesses /\ smoke.case \in Nat /\ smoke.error \in BOOLEAN /\ smoke.output
  BY DEF Save, Inv, Basics, TypeOK, Placed, Harnesses
<1>3. /\ UNCHANGED faults \/ Fault
      /\ saved => report' = Entry(smoke.case, smoke.error)
      /\ ~saved => report' = report
  BY <1>1, <1>2, EntryIsReport, EmitCalls DEF Inv, Basics
<1>4. CASE ~saved \/ smoke.error
  <2>1. smoke' = [smoke EXCEPT !.stage = "leave", !.exit = "error"]
    BY <1>1, <1>4, Zenon
  <2>2. QED
    BY <1>2, <1>3, <2>1 DEF Harnesses, Stages
<1>5. CASE saved /\ ~smoke.error /\ smoke.case = Len(Cases)
  <2>1. smoke' = [smoke EXCEPT !.stage = "final"]
    BY <1>1, <1>5, Zenon
  <2>2. QED
    BY <1>2, <1>3, <1>5, <2>1 DEF Harnesses, Stages
<1>6. CASE saved /\ ~smoke.error /\ smoke.case # Len(Cases)
  <2>1. smoke' = [smoke EXCEPT !.stage = "case", !.case = smoke.case + 1]
    BY <1>1, <1>6, Zenon
  <2>2. smoke.case + 1 \in Nat
    BY <1>2
  <2>3. QED
    BY <1>2, <1>3, <1>6, <2>1, <2>2 DEF Harnesses, Stages
<1>7. QED
  BY <1>4, <1>5, <1>6

LEMMA SaveBasics == ASSUME Inv, Save PROVE Basics'
<1>1. /\ smoke.stage = "save" /\ QuietEngine /\ UNCHANGED <<machine, runs, moved>>
      /\ smoke' \in Harnesses /\ smoke'.error = smoke.error
      /\ smoke'.mutate = smoke.mutate /\ smoke'.output = smoke.output /\ smoke'.stock = smoke.stock
      /\ report' \in {report, Entry(smoke.case, smoke.error)}
      /\ \/ smoke'.stage = "leave" /\ smoke'.case = smoke.case /\ smoke'.exit = "error"
         \/ /\ smoke'.stage = "final" /\ smoke'.case = smoke.case /\ smoke'.exit = smoke.exit
            /\ ~smoke.error
         \/ /\ smoke'.stage = "case" /\ smoke'.case = smoke.case + 1 /\ smoke'.exit = smoke.exit
            /\ ~smoke.error
            /\ report' = Entry(smoke.case, smoke.error)
  BY SaveIs
<1>2. /\ pc' = pc /\ disk' = disk /\ smoke.output /\ smoke.case \in Nat /\ smoke.error \in BOOLEAN
      /\ pc[Self] \in {"idle", "incomplete"} /\ (pc[Self] = "incomplete" => smoke.error)
      /\ ~smoke.error => disk = NoRecord
      /\ ~Succeeded
  BY <1>1 DEF QuietEngine, Inv, Basics, Placed, InStage, Clean, ErrorFree, TypeOK, Harnesses
<1>3. \A e : e = Entry(smoke.case, smoke.error) =>
         e \in Reports /\ e # None /\ e.run = runs /\ e.cases = smoke.case /\ e.error = smoke.error
  BY <1>2, EntryIsReport DEF Inv, Basics
<1>4. report # None /\ report.run = runs /\ report.cases = smoke.case - 1 /\ ~report.error
  BY <1>1 DEF Inv, Basics, Ahead, Exercising
<1>5. TypeOK'
  <2>1. report' \in Reports \cup {None}
    BY <1>1, <1>3 DEF Inv, Basics, TypeOK
  <2>2. QED
    BY <1>1, <2>1 DEF Inv, Basics, TypeOK
<1>6. Placed'
  BY <1>1, <1>2 DEF Inv, Basics, Placed, InStage, Preparing
<1>7. ~Succeeded'
  BY <1>1, <1>2 DEF Succeeded
<1>8. Ahead'
  <2>1. CASE smoke'.stage = "case"
    <3>1. report' = Entry(smoke.case, smoke.error) /\ ~smoke.error /\ smoke'.case = smoke.case + 1
      BY <1>1, <2>1
    <3>2. report' # None /\ report'.run = runs' /\ report'.cases = smoke.case /\ ~report'.error
      <4>1. report' # None /\ report'.run = runs /\ report'.cases = smoke.case /\ report'.error = smoke.error
        BY <1>3, <3>1, Zenon
      <4>2. QED
        BY <1>1, <3>1, <4>1, Zenon
    <3>3. smoke'.case - 1 = smoke.case /\ smoke'.case >= 1
      BY <1>2, <3>1
    <3>4. QED
      BY <2>1, <3>2, <3>3, Zenon DEF Ahead
  <2>2. CASE smoke'.stage = "final"
    BY <2>2 DEF Ahead, Exercising
  <2>3. CASE smoke'.stage = "leave"
    <3>1. report' # None /\ report'.run = runs' /\ report'.cases \in {smoke.case - 1, smoke.case}
      BY <1>1, <1>3, <1>4
    <3>2. smoke'.case = smoke.case
      BY <1>1, <2>3
    <3>3. QED
      BY <2>3, <3>1, <3>2 DEF Ahead, Exercising
  <2>4. QED
    BY <1>1, <2>1, <2>2, <2>3
<1>9. ErrorFree' /\ Clean'
  BY <1>1, <1>2, <1>7 DEF ErrorFree, Clean
<1>10. StockIsBoot'
  <2>1. \A c \in DOMAIN smoke.stock \ moved.ever : smoke.stock[c] = Stock
    BY <1>1 DEF Inv, Basics, StockIsBoot, Exercising
  <2>2. QED
    BY <1>1, <2>1 DEF StockIsBoot
<1>11. QED
  BY <1>5, <1>6, <1>8, <1>9, <1>10 DEF Basics

LEMMA FinalIs ==
    ASSUME Inv, Final, Len(Cases) \in Nat
    PROVE  /\ smoke.stage = "final" /\ QuietEngine /\ UNCHANGED <<machine, runs, moved>>
           /\ UNCHANGED faults \/ Fault
           /\ report' \in Reports \cup {None}
           /\ smoke' \in Harnesses /\ smoke'.stage = "leave" /\ smoke'.case = smoke.case
           /\ smoke'.mutate = smoke.mutate /\ smoke'.output = smoke.output /\ smoke'.stock = smoke.stock
           /\ smoke'.exit \in {"ok", "error"}
<1>1. PICK saved \in BOOLEAN :
         /\ emitReport(Entry(Len(Cases), FALSE), saved)
         /\ smoke' = [smoke EXCEPT !.stage = "leave", !.exit = IF saved THEN "ok" ELSE "error"]
  BY DEF Final
<1>2. /\ smoke.stage = "final" /\ QuietEngine /\ UNCHANGED <<machine, runs, moved>>
      /\ smoke \in Harnesses
  BY DEF Final, Inv, Basics, TypeOK
<1>3. UNCHANGED faults \/ Fault
  BY <1>1, EntryIsReport, EmitCalls DEF Inv, Basics
<1>4. report' \in Reports \cup {None}
  BY <1>1, EntryIsReport, EmitCalls DEF Inv, Basics
<1>5. /\ smoke' \in Harnesses /\ smoke'.stage = "leave" /\ smoke'.case = smoke.case
      /\ smoke'.mutate = smoke.mutate /\ smoke'.output = smoke.output /\ smoke'.stock = smoke.stock
      /\ smoke'.exit \in {"ok", "error"}
  BY <1>1, <1>2 DEF Harnesses, Stages
<1>6. QED
  BY <1>2, <1>3, <1>4, <1>5

LEMMA FinalBasics == ASSUME Inv, Final, Len(Cases) \in Nat PROVE Basics'
<1>1. /\ smoke.stage = "final" /\ QuietEngine /\ UNCHANGED <<machine, runs, moved>>
      /\ report' \in Reports \cup {None}
      /\ smoke' \in Harnesses /\ smoke'.stage = "leave" /\ smoke'.case = smoke.case
      /\ smoke'.mutate = smoke.mutate /\ smoke'.output = smoke.output /\ smoke'.stock = smoke.stock
      /\ smoke'.exit \in {"ok", "error"}
  BY FinalIs
<1>2. pc' = pc /\ disk' = disk /\ smoke.output /\ pc[Self] = "idle" /\ disk = NoRecord
  BY <1>1 DEF QuietEngine, Inv, Basics, Placed, InStage, Clean
<1>3. TypeOK'
  BY <1>1 DEF Inv, Basics, TypeOK
<1>4. Placed'
  BY <1>1, <1>2 DEF Inv, Basics, Placed, InStage, Preparing
<1>5. Ahead' /\ ErrorFree' /\ Clean'
  BY <1>1, <1>2 DEF Ahead, ErrorFree, Clean, Exercising
<1>6. StockIsBoot'
  <2>1. \A c \in DOMAIN smoke.stock \ moved.ever : smoke.stock[c] = Stock
    BY <1>1 DEF Inv, Basics, StockIsBoot
  <2>2. QED
    BY <1>1, <2>1 DEF StockIsBoot
<1>7. QED
  BY <1>3, <1>4, <1>5, <1>6 DEF Basics

LEMMA LeaveBasics == ASSUME Inv, Leave PROVE Basics'
<1>1. /\ smoke.stage = "leave" /\ Engine!Exit(Self)
      /\ UNCHANGED <<machine, runs, report, moved>>
      /\ smoke \in Harnesses /\ smoke' = [smoke EXCEPT !.stage = "off"]
  BY DEF Leave, Goto, Quiet, Inv, Basics, TypeOK
<1>2. /\ smoke' \in Harnesses /\ smoke'.stage = "off" /\ smoke'.mutate = smoke.mutate
      /\ smoke'.stock = smoke.stock /\ smoke'.exit = smoke.exit
  BY <1>1 DEF Harnesses, Stages
<1>3. pc'[Self] = "down" /\ disk' = disk /\ \A q \in Procs \ {Self} : pc'[q] = "down"
  BY <1>1, AfterEnd DEF Inv, Basics, Placed
<1>4. TypeOK'
  BY <1>1, <1>2 DEF Inv, Basics, TypeOK
<1>5. Placed'
  BY <1>2, <1>3 DEF Placed, InStage, Preparing
<1>6. Succeeded' => Succeeded
  BY <1>2 DEF Succeeded
<1>7. Ahead' /\ ErrorFree' /\ Clean'
  BY <1>2, <1>3, <1>6 DEF Inv, Basics, Ahead, ErrorFree, Clean, Exercising
<1>8. StockIsBoot'
  BY <1>1, <1>2, <1>6 DEF Inv, Basics, StockIsBoot, Exercising
<1>9. QED
  BY <1>4, <1>5, <1>7, <1>8 DEF Basics

\* A harness that is not there any more.
LEMMA GoneBasics ==
    ASSUME Inv, smoke' \in Harnesses, smoke'.stage = "off", smoke'.exit # "ok",
           \A q \in Procs : pc'[q] = "down", UNCHANGED <<machine, runs, report>>,
           moved' \in [ever : SUBSET Controls, late : SUBSET Controls]
    PROVE  Basics'
<1>1. pc'[Self] = "down"
  BY HarnessAssumption
<1>2. TypeOK'
  BY DEF Inv, Basics, TypeOK
<1>3. Placed'
  BY <1>1 DEF Placed, InStage, Preparing
<1>4. Ahead' /\ ErrorFree' /\ Clean' /\ StockIsBoot'
  BY DEF Ahead, ErrorFree, Clean, StockIsBoot, Succeeded, Exercising
<1>5. QED
  BY <1>2, <1>3, <1>4 DEF Basics

LEMMA KillIs ==
    ASSUME Inv, Kill \/ Reboot
    PROVE  /\ UNCHANGED <<machine, runs, report>>
           /\ smoke' \in Harnesses /\ smoke'.stage = "off" /\ smoke'.exit # "ok" /\ smoke'.case = 0
           /\ \A q \in Procs : pc'[q] = "down"
           /\ moved' \in [ever : SUBSET Controls, late : SUBSET Controls]
<1>1. CASE Kill
  <2>1. /\ Engine!Kill(Self) /\ UNCHANGED <<machine, runs, report, moved>>
        /\ smoke' = [Off EXCEPT !.exit = "killed"]
    BY <1>1 DEF Kill, Quiet
  <2>2. smoke' \in Harnesses /\ smoke'.stage = "off" /\ smoke'.exit # "ok" /\ smoke'.case = 0
    BY <2>1, OffIsHarness DEF Off, Harnesses
  <2>3. \A q \in Procs : pc'[q] = "down"
    BY <2>1, AfterEnd DEF Inv, Basics, Placed
  <2>4. moved' \in [ever : SUBSET Controls, late : SUBSET Controls]
    BY <2>1 DEF Inv, Basics, TypeOK
  <2>5. QED
    BY <2>1, <2>2, <2>3, <2>4
<1>2. CASE Reboot
  <2>1. /\ Engine!Reboot /\ UNCHANGED <<machine, runs, report>>
        /\ smoke' = Off /\ moved' = [ever |-> {}, late |-> {}]
    BY <1>2 DEF Reboot
  <2>2. smoke' \in Harnesses /\ smoke'.stage = "off" /\ smoke'.exit # "ok" /\ smoke'.case = 0
    BY <2>1, OffIsHarness DEF Off
  <2>3. QED
    BY <2>1, <2>2, AfterReboot
<1>3. QED
  BY <1>1, <1>2

LEMMA FirmwareBasics == ASSUME Inv, NEW c \in Controls, Firmware(c) PROVE Basics'
<1>1. /\ moved' = [ever |-> moved.ever \cup {c}, late |-> moved.late \cup {c}]
      /\ UNCHANGED <<disk, pc, machine, runs, smoke, report>>
  BY DEF Firmware
<1>2. moved' \in [ever : SUBSET Controls, late : SUBSET Controls] /\ moved.ever \subseteq moved'.ever
  BY <1>1 DEF Inv, Basics, TypeOK
<1>3. TypeOK'
  BY <1>1, <1>2 DEF Inv, Basics, TypeOK
<1>4. Placed' /\ Ahead'
  BY <1>1 DEF Inv, Basics, Placed, Ahead
<1>5. ErrorFree' /\ Clean'
  BY <1>1 DEF Inv, Basics, ErrorFree, Clean, Succeeded
<1>6. StockIsBoot'
  BY <1>1, <1>2 DEF Inv, Basics, StockIsBoot, Succeeded
<1>7. QED
  BY <1>3, <1>4, <1>5, <1>6 DEF Basics

-----------------------------------------------------------------------------
(* The engine's own invariant.                                             *)

LEMMA SoundNext == ASSUME Inv, [Next]_vars, Len(Cases) \in Nat PROVE Sound'
<1>1. ASSUME NEW options \in Options, Start(options) PROVE Sound'
  <2>1. Engine!Start(Self) \/ UNCHANGED engineVars
    BY <1>1 DEF Start
  <2>2. moved' = moved
    BY <1>1 DEF Start
  <2>3. CASE Engine!Start(Self)
    BY <2>2, <2>3, SoundEngineStep DEF EngineStep, Inv
  <2>4. CASE UNCHANGED engineVars
    <3>1. QuietEngine /\ UNCHANGED faults
      BY <2>4 DEF QuietEngine, engineVars
    <3>2. QED
      BY <2>2, <3>1, SoundCall DEF Inv
  <2>5. QED
    BY <2>1, <2>3, <2>4
<1>2. CASE Look \/ Ready
  BY <1>2, LookBasics, ReadyBasics, SoundCall DEF Look, Ready, Inv
<1>3. CASE Hydrate \/ Rediscover \/ Observe
  BY <1>3, HydrateBasics, RediscoverBasics, ObserveBasics, SoundCall DEF Hydrate, Rediscover, Observe, Quiet, Inv
<1>4. CASE Recover
  BY <1>4, SoundEngineStep DEF Recover, EngineStep, Inv
<1>5. CASE Begin
  <2>1. moved' = moved
    BY <1>5 DEF Begin, Quiet
  <2>2. Engine!Begin(Self) \/ (QuietEngine /\ (UNCHANGED faults \/ Fault))
    BY <1>5 DEF Begin
  <2>3. QED
    BY <2>1, <2>2, SoundEngineStep, SoundCall DEF EngineStep, Inv
<1>6. CASE Apply \/ Undo
  <2>1. ApplySteps /\ Quiet
    BY <1>6, ApplyIs, UndoIs
  <2>2. EngineStep /\ moved' = moved
    BY <2>1, Zenon DEF EngineStep, ApplySteps, Quiet
  <2>3. QED
    BY <2>2, SoundEngineStep DEF Inv
<1>7. CASE Verify
  BY <1>7, VerifyIs, SoundCall DEF Inv
<1>8. CASE Save
  BY <1>8, SaveIs, SoundCall DEF Inv
<1>9. CASE Final
  BY <1>9, FinalIs, SoundCall DEF Inv
<1>10. CASE Leave
  BY <1>10, SoundEngineStep DEF Leave, Quiet, EngineStep, Inv
<1>11. CASE Kill
  BY <1>11, SoundEngineStep DEF Kill, Quiet, EngineStep, Inv
<1>12. CASE Reboot
  BY <1>12, SoundReboot DEF Reboot, Inv
<1>13. ASSUME NEW c \in Controls, Firmware(c) PROVE Sound'
  <2>1. PICK v \in Values : hw' = [hw EXCEPT ![c] = v]
    BY <1>13 DEF Firmware
  <2>2. /\ Fault /\ UNCHANGED <<disk, boot, lock, pc, mem, idx, failed>>
        /\ moved'.ever = moved.ever \cup {c}
    BY <1>13 DEF Firmware
  <2>3. QED
    BY <2>1, <2>2, SoundFirmware DEF Inv
<1>14. CASE UNCHANGED vars
  <2>1. QuietEngine /\ UNCHANGED faults /\ moved' = moved
    BY <1>14 DEF vars, engineVars, QuietEngine
  <2>2. QED
    BY <2>1, SoundCall DEF Inv
<1>15. QED
  BY <1>1, <1>2, <1>3, <1>4, <1>5, <1>6, <1>7, <1>8, <1>9, <1>10, <1>11, <1>12, <1>13, <1>14 DEF Next

-----------------------------------------------------------------------------
(* The cases.                                                              *)

\* How two sequences are joined.
LEMMA ConcatIs ==
    ASSUME NEW S, NEW p \in Seq(S), NEW q \in Seq(S)
    PROVE  /\ p \o q \in Seq(S)
           /\ Len(p \o q) = Len(p) + Len(q)
           /\ \A k \in 1..Len(p \o q) : (p \o q)[k] = IF k <= Len(p) THEN p[k] ELSE q[k - Len(p)]
<1>1. p \o q \in Seq(S) /\ Len(p \o q) = Len(p) + Len(q)
  OBVIOUS
<1>2. QED
  BY <1>1

\* At most three cases, in this order, of what there is to change.
LEMMA JoinIs ==
    ASSUME NEW a, NEW b, NEW c
    PROVE  LET one(x) == IF x = <<>> THEN <<>> ELSE <<x>>
               s == one(a) \o one(b) \o one(c)
           IN /\ Len(s) \in Nat /\ DOMAIN s = 1..Len(s)
              /\ s = <<>> <=> Len(s) = 0
              /\ \A k \in DOMAIN s : s[k] \in {a, b, c}
              /\ \A j, k \in DOMAIN s : j < k => \/ s[j] = a /\ s[k] \in {b, c}
                                                 \/ s[j] = b /\ s[k] = c
<1> DEFINE one(x) == IF x = <<>> THEN <<>> ELSE <<x>>
           s == one(a) \o one(b) \o one(c)
<1>1. PICK S : S = {a, b, c}
  OBVIOUS
<1>2. PICK p \in Seq(S), q \in Seq(S), r \in Seq(S) : p = one(a) /\ q = one(b) /\ r = one(c)
  <2>1. \A x \in S : one(x) \in Seq(S)
    OBVIOUS
  <2>2. a \in S /\ b \in S /\ c \in S
    BY <1>1
  <2> HIDE DEF one
  <2>3. QED
    BY <2>1, <2>2
<1>3. /\ Len(p) \in {0, 1} /\ (Len(p) = 1 => p[1] = a)
      /\ Len(q) \in {0, 1} /\ (Len(q) = 1 => q[1] = b)
      /\ Len(r) \in {0, 1} /\ (Len(r) = 1 => r[1] = c)
  BY <1>2
<1>4. PICK t \in Seq(S) :
         /\ t = p \o q /\ Len(t) = Len(p) + Len(q)
         /\ \A k \in 1..Len(t) : t[k] = IF k <= Len(p) THEN p[k] ELSE q[k - Len(p)]
  <2>1. /\ p \o q \in Seq(S) /\ Len(p \o q) = Len(p) + Len(q)
        /\ \A k \in 1..Len(p \o q) : (p \o q)[k] = IF k <= Len(p) THEN p[k] ELSE q[k - Len(p)]
    BY ConcatIs
  <2>2. QED
    BY <2>1, Zenon
<1>5. PICK u \in Seq(S) :
         /\ u = t \o r /\ Len(u) = Len(t) + Len(r)
         /\ \A k \in 1..Len(u) : u[k] = IF k <= Len(t) THEN t[k] ELSE r[k - Len(t)]
  <2>1. /\ t \o r \in Seq(S) /\ Len(t \o r) = Len(t) + Len(r)
        /\ \A k \in 1..Len(t \o r) : (t \o r)[k] = IF k <= Len(t) THEN t[k] ELSE r[k - Len(t)]
    BY ConcatIs
  <2>2. QED
    BY <2>1, Zenon
<1>6. s = u
  BY <1>2, <1>4, <1>5, Zenon
<1>7. Len(u) \in Nat /\ DOMAIN u = 1..Len(u) /\ (u = <<>> <=> Len(u) = 0)
  OBVIOUS
<1> HIDE DEF s, one
<1>8. \A k \in 1..Len(u) :
         \/ k = 1 /\ Len(p) = 1 /\ u[k] = a
         \/ k = Len(p) + 1 /\ Len(q) = 1 /\ u[k] = b
         \/ k = Len(p) + Len(q) + 1 /\ Len(r) = 1 /\ u[k] = c
  <2> SUFFICES ASSUME NEW k \in 1..Len(u)
               PROVE  \/ k = 1 /\ Len(p) = 1 /\ u[k] = a
                      \/ k = Len(p) + 1 /\ Len(q) = 1 /\ u[k] = b
                      \/ k = Len(p) + Len(q) + 1 /\ Len(r) = 1 /\ u[k] = c
    OBVIOUS
  <2>0. k \in Nat /\ Len(u) \in Nat /\ Len(t) \in Nat /\ k >= 1 /\ k <= Len(u)
    BY <1>7
  <2>1. CASE k <= Len(p)
    <3>1. k \in 1..Len(t) /\ k = 1 /\ Len(p) = 1
      BY <1>3, <1>4, <1>5, <2>1, SMTT(30)
    <3>2. u[k] = t[k] /\ t[k] = p[k]
      BY <1>4, <1>5, <2>1, <3>1
    <3>3. QED
      BY <1>3, <3>1, <3>2
  <2>2. CASE k > Len(p) /\ k <= Len(t)
    <3>1. k \in 1..Len(t) /\ k = Len(p) + 1 /\ Len(q) = 1 /\ k - Len(p) = 1
      <4>1. PICK l, m, n \in Nat : l = Len(t) /\ m = Len(p) /\ n = Len(q)
        BY <1>3, <2>0
      <4>2. l = m + n /\ n \in {0, 1} /\ k > m /\ k <= l
        BY <1>3, <1>4, <2>2, <4>1
      <4>3. n = 1 /\ k = m + 1 /\ k - m = 1 /\ k \in 1..l
        BY <2>0, <4>2
      <4>4. QED
        BY <4>1, <4>3
    <3>2. u[k] = t[k] /\ t[k] = q[1]
      <4>1. u[k] = t[k]
        BY <1>5, <2>2
      <4>2. Len(p) \in Nat /\ ~(k <= Len(p))
        BY <1>3, <2>0, <2>2
      <4>3. t[k] = IF k <= Len(p) THEN p[k] ELSE q[k - Len(p)]
        BY <1>4, <3>1
      <4>4. t[k] = q[k - Len(p)]
        BY <4>2, <4>3, Zenon
      <4>5. QED
        BY <3>1, <4>1, <4>4, Zenon
    <3>3. QED
      BY <1>3, <3>1, <3>2
  <2>3. CASE k > Len(t)
    <3>1. k = Len(p) + Len(q) + 1 /\ Len(r) = 1 /\ k - Len(t) = 1
      <4>1. PICK l, m, n \in Nat : l = Len(t) /\ m = Len(u) /\ n = Len(r)
        BY <1>3, <2>0
      <4>2. m = l + n /\ n \in {0, 1} /\ k > l /\ k <= m
        BY <1>3, <1>5, <2>0, <2>3, <4>1
      <4>3. n = 1 /\ k = l + 1 /\ k - l = 1
        BY <2>0, <4>2
      <4>4. QED
        BY <1>4, <4>1, <4>3
    <3>2. u[k] = r[1]
      BY <1>3, <1>4, <1>5, <2>3, <3>1
    <3>3. QED
      BY <1>3, <3>1, <3>2
  <2>4. QED
    BY <1>3, <1>4, <2>1, <2>2, <2>3
<1>9. ASSUME NEW k \in DOMAIN u PROVE u[k] \in {a, b, c}
  BY <1>7, <1>8
<1>10. ASSUME NEW j \in DOMAIN u, NEW k \in DOMAIN u, j < k
       PROVE  (u[j] = a /\ u[k] \in {b, c}) \/ (u[j] = b /\ u[k] = c)
  <2>1. PICK l \in Nat, m \in Nat : l = Len(p) /\ m = Len(q)
    BY <1>3
  <2>2. /\ (j = 1 /\ u[j] = a) \/ (j = l + 1 /\ u[j] = b) \/ (j = l + m + 1 /\ u[j] = c)
        /\ (k = 1 /\ u[k] = a) \/ (k = l + 1 /\ m = 1 /\ u[k] = b) \/ (k = l + m + 1 /\ u[k] = c)
    BY <1>7, <1>8, <2>1
  <2>3. (k = 1 => j # 1 /\ j # l + 1 /\ j # l + m + 1) /\ (k = l + 1 => j # l + 1 /\ j # l + m + 1)
        /\ (k = l + m + 1 => j # l + m + 1)
    BY <1>10
  <2>4. QED
    BY <2>2, <2>3, SMT
<1>11. QED
  BY <1>6, <1>7, <1>9, <1>10 DEF s, one

\* What is asked of a control that is offered.
Offered(id) == id \in DOMAIN smoke.stock /\ id \in machine.offered

Lower(id) == LET c == Caps(smoke.stock)[id] IN lowerNumeric(c, c.range.step)

LowerPL1 ==
    IF Offered("pl1") THEN Lower("pl1")
    ELSE IF "pl1" \in DOMAIN smoke.stock THEN Caps(smoke.stock)["pl1"].current.of ELSE Lower("pl2")

AskedFor(id) ==
    CASE id = "pl1" -> Numeric(LowerPL1)
      [] id = "pl2" -> Numeric(Greatest(Lower("pl2"), LowerPL1))
      [] id = "tcc" -> Numeric(Lower("tcc"))
      [] OTHER -> Choice(mostSaving(machine.preferences))

Part(id) == IF Offered(id) THEN <<[id |-> id, requested |-> AskedFor(id)]>> ELSE <<>>

LEMMA CapsAre ==
    /\ DOMAIN Caps(smoke.stock) = DOMAIN smoke.stock
    /\ \A c \in DOMAIN smoke.stock :
          Caps(smoke.stock)[c] =
             Capability(c, IF c \in machine.offered THEN "supported" ELSE "read_only", "W",
                        Reported(c, smoke.stock[c]),
                        IF c = "epp" THEN None
                        ELSE [min |-> machine.min[c], max |-> machine.max[c], step |-> 1],
                        IF c = "epp" THEN machine.preferences ELSE {}, "kernel")
BY Zenon DEF Caps

LEMMA OfferedIs ==
    ASSUME NEW id
    PROVE  Offered(id) <=> id \in DOMAIN Caps(smoke.stock) /\ Caps(smoke.stock)[id].state = "supported"
<1>1. CASE id \in DOMAIN smoke.stock
  <2>1. Caps(smoke.stock)[id].state = IF id \in machine.offered THEN "supported" ELSE "read_only"
    <3>1. Caps(smoke.stock)[id] =
             Capability(id, IF id \in machine.offered THEN "supported" ELSE "read_only", "W",
                        Reported(id, smoke.stock[id]),
                        IF id = "epp" THEN None
                        ELSE [min |-> machine.min[id], max |-> machine.max[id], step |-> 1],
                        IF id = "epp" THEN machine.preferences ELSE {}, "kernel")
      BY <1>1, CapsAre, Zenon
    <3>2. QED
      BY <3>1 DEF Capability
  <2>2. QED
    BY <1>1, <2>1, CapsAre DEF Offered
<1>2. CASE id \notin DOMAIN smoke.stock
  BY <1>2, CapsAre DEF Offered
<1>3. QED
  BY <1>1, <1>2

LEMMA CasesAre ==
    LET one(x) == IF x = <<>> THEN <<>> ELSE <<x>>
    IN  Cases = one(Part("pl1") \o Part("pl2")) \o one(Part("tcc")) \o one(Part("epp"))
<1> DEFINE listed == Caps(smoke.stock)
           offered(id) == id \in DOMAIN listed /\ listed[id].state = "supported"
           lower(id) == lowerNumeric(listed[id], listed[id].range.step)
           pl1 == IF offered("pl1") THEN lower("pl1")
                  ELSE IF "pl1" \in DOMAIN listed THEN listed["pl1"].current.of ELSE lower("pl2")
           case(id, value) == IF offered(id) THEN Ask(id, value) ELSE <<>>
           power == case("pl1", Numeric(pl1)) \o
                    case("pl2", IF offered("pl2") THEN Numeric(Greatest(lower("pl2"), pl1)) ELSE NoValue)
           thermal == case("tcc", IF offered("tcc") THEN Numeric(lower("tcc")) ELSE NoValue)
           epp == case("epp", Choice(mostSaving(machine.preferences)))
           one(x) == IF x = <<>> THEN <<>> ELSE <<x>>
<1>1. Cases = one(power) \o one(thermal) \o one(epp)
  BY Zenon DEF Cases, conservativeCases
<1>2. \A id : offered(id) <=> Offered(id)
  BY OfferedIs
<1>3. \A id : lower(id) = Lower(id)
  BY Zenon DEF Lower
<1>4. pl1 = LowerPL1
  <2>1. DOMAIN listed = DOMAIN smoke.stock
    BY CapsAre, Zenon
  <2> HIDE DEF offered, lower
  <2>2. CASE offered("pl1")
    <3>1. Offered("pl1")
      BY <1>2, <2>2
    <3>2. pl1 = lower("pl1") /\ LowerPL1 = Lower("pl1")
      BY <2>2, <3>1, Zenon DEF LowerPL1
    <3>3. QED
      BY <1>3, <3>2
  <2>3. CASE ~offered("pl1")
    <3>1. ~Offered("pl1")
      BY <1>2, <2>3
    <3>2. /\ pl1 = IF "pl1" \in DOMAIN listed THEN listed["pl1"].current.of ELSE lower("pl2")
          /\ LowerPL1 = IF "pl1" \in DOMAIN listed THEN listed["pl1"].current.of ELSE Lower("pl2")
      BY <2>1, <2>3, <3>1, Zenon DEF LowerPL1
    <3>3. QED
      BY <1>3, <3>2, Zenon
  <2>4. QED
    BY <2>2, <2>3
<1> HIDE DEF lower, pl1, offered
<1>5. case("pl1", Numeric(pl1)) = Part("pl1")
  BY <1>2, <1>4, Zenon DEF Part, AskedFor, Ask
<1>6. case("pl2", IF offered("pl2") THEN Numeric(Greatest(lower("pl2"), pl1)) ELSE NoValue) = Part("pl2")
  <2>1. CASE offered("pl2")
    <3>1. AskedFor("pl2") = Numeric(Greatest(lower("pl2"), pl1))
      <4>1. "pl2" # "pl1"
        OBVIOUS
      <4>2. QED
        BY <1>3, <1>4, <4>1, Zenon DEF AskedFor
    <3>2. QED
      BY <1>2, <2>1, <3>1, Zenon DEF Part, Ask
  <2>2. CASE ~offered("pl2")
    BY <1>2, <2>2, Zenon DEF Part
  <2>3. QED
    BY <2>1, <2>2
<1>7. thermal = Part("tcc")
  <2>1. CASE offered("tcc")
    <3>1. AskedFor("tcc") = Numeric(lower("tcc"))
      <4>1. "tcc" # "pl1" /\ "tcc" # "pl2"
        OBVIOUS
      <4>2. QED
        BY <1>3, <4>1, Zenon DEF AskedFor
    <3>2. QED
      BY <1>2, <2>1, <3>1, Zenon DEF Part, Ask
  <2>2. CASE ~offered("tcc")
    BY <1>2, <2>2, Zenon DEF Part
  <2>3. QED
    BY <2>1, <2>2
<1>8. epp = Part("epp")
  <2>1. AskedFor("epp") = Choice(mostSaving(machine.preferences))
    <3>1. "epp" # "pl1" /\ "epp" # "pl2" /\ "epp" # "tcc"
      OBVIOUS
    <3>2. QED
      BY <3>1, Zenon DEF AskedFor
  <2>2. QED
    BY <1>2, <2>1, Zenon DEF Part, Ask
<1>9. power = Part("pl1") \o Part("pl2")
  BY <1>5, <1>6, Zenon
<1> HIDE DEF power, thermal, epp
<1>10. Cases = one(Part("pl1") \o Part("pl2")) \o one(Part("tcc")) \o one(Part("epp"))
  BY <1>1, <1>7, <1>8, <1>9
<1>11. QED
  BY <1>10, Zenon

\* A case is a sequence of changes to controls that are offered.
Changes(s, ids) ==
    /\ Len(s) \in Nat /\ DOMAIN s = 1..Len(s)
    /\ \A i \in DOMAIN s : s[i].id \in ids /\ Offered(s[i].id) /\ s[i].requested = AskedFor(s[i].id)

LEMMA PartIs ==
    ASSUME NEW id, NEW S, [id |-> id, requested |-> AskedFor(id)] \in S
    PROVE  Part(id) \in Seq(S) /\ Changes(Part(id), {id})
<1>1. PICK e : e = [id |-> id, requested |-> AskedFor(id)]
  OBVIOUS
<1>2. e.id = id /\ e.requested = AskedFor(id) /\ e \in S
  BY <1>1
<1>3. CASE Offered(id)
  <2>1. Part(id) = <<e>>
    BY <1>1, <1>3, Zenon DEF Part
  <2>2. QED
    BY <1>2, <1>3, <2>1 DEF Changes
<1>4. CASE ~Offered(id)
  <2>1. Part(id) = <<>>
    BY <1>4, Zenon DEF Part
  <2>2. QED
    BY <2>1 DEF Changes
<1>5. QED
  BY <1>3, <1>4

LEMMA PowerIs == Changes(Part("pl1") \o Part("pl2"), {"pl1", "pl2"})
<1>1. PICK d, e : d = [id |-> "pl1", requested |-> AskedFor("pl1")] /\ e = [id |-> "pl2", requested |-> AskedFor("pl2")]
  OBVIOUS
<1>2. PICK p, q : p = Part("pl1") /\ q = Part("pl2")
  OBVIOUS
<1>3. PICK S : S = {d, e}
  OBVIOUS
<1>4. p \in Seq(S) /\ q \in Seq(S) /\ Changes(p, {"pl1"}) /\ Changes(q, {"pl2"})
  BY <1>1, <1>2, <1>3, PartIs
<1>5. PICK s \in Seq(S) :
         /\ s = p \o q /\ Len(s) = Len(p) + Len(q)
         /\ \A k \in 1..Len(s) : s[k] = IF k <= Len(p) THEN p[k] ELSE q[k - Len(p)]
  <2>1. /\ p \o q \in Seq(S) /\ Len(p \o q) = Len(p) + Len(q)
        /\ \A k \in 1..Len(p \o q) : (p \o q)[k] = IF k <= Len(p) THEN p[k] ELSE q[k - Len(p)]
    BY <1>4, ConcatIs
  <2>2. QED
    BY <2>1, Zenon
<1>6. Len(s) \in Nat /\ DOMAIN s = 1..Len(s) /\ Len(p) \in Nat /\ Len(q) \in Nat
  BY <1>4 DEF Changes
<1>7. ASSUME NEW k \in 1..Len(s)
      PROVE  (\E i \in DOMAIN p : s[k] = p[i]) \/ (\E i \in DOMAIN q : s[k] = q[i])
  <2>1. CASE k <= Len(p)
    BY <1>4, <1>5, <1>6, <2>1 DEF Changes
  <2>2. CASE k > Len(p)
    <3>1. k - Len(p) \in 1..Len(q) /\ s[k] = q[k - Len(p)]
      BY <1>5, <1>6, <2>2
    <3>2. QED
      BY <1>4, <3>1 DEF Changes
  <2>3. QED
    BY <1>6, <2>1, <2>2
<1>8. Changes(s, {"pl1", "pl2"})
  <2>1. ASSUME NEW k \in DOMAIN s
        PROVE  s[k].id \in {"pl1", "pl2"} /\ Offered(s[k].id) /\ s[k].requested = AskedFor(s[k].id)
    <3>1. \/ \E i \in DOMAIN p : s[k] = p[i]
          \/ \E i \in DOMAIN q : s[k] = q[i]
      BY <1>6, <1>7
    <3>2. CASE \E i \in DOMAIN p : s[k] = p[i]
      BY <1>4, <3>2 DEF Changes
    <3>3. CASE \E i \in DOMAIN q : s[k] = q[i]
      BY <1>4, <3>3 DEF Changes
    <3>4. QED
      BY <3>1, <3>2, <3>3
  <2>2. QED
    BY <1>6, <2>1 DEF Changes
<1>9. QED
  BY <1>2, <1>5, <1>8

LEMMA CaseIs ==
    /\ Len(Cases) \in Nat /\ DOMAIN Cases = 1..Len(Cases)
    /\ Cases = <<>> <=> Len(Cases) = 0
    /\ \A k \in DOMAIN Cases : Changes(Cases[k], {"pl1", "pl2", "tcc", "epp"})
    /\ \A j, k \in DOMAIN Cases : j # k => Ids(Cases[j]) \cap Ids(Cases[k]) = {}
<1>1. PICK a, b, c : a = Part("pl1") \o Part("pl2") /\ b = Part("tcc") /\ c = Part("epp")
  OBVIOUS
<1>2. Changes(a, {"pl1", "pl2"}) /\ Changes(b, {"tcc"}) /\ Changes(c, {"epp"})
  BY <1>1, PowerIs, PartIs
<1>3. PICK cases : cases = Cases
  OBVIOUS
<1>4. /\ Len(cases) \in Nat /\ DOMAIN cases = 1..Len(cases)
      /\ cases = <<>> <=> Len(cases) = 0
      /\ \A k \in DOMAIN cases : cases[k] \in {a, b, c}
      /\ \A j, k \in DOMAIN cases : j < k => \/ cases[j] = a /\ cases[k] \in {b, c}
                                             \/ cases[j] = b /\ cases[k] = c
  <2> DEFINE one(x) == IF x = <<>> THEN <<>> ELSE <<x>>
             s == one(a) \o one(b) \o one(c)
  <2>1. cases = s
    BY <1>1, <1>3, CasesAre, Zenon
  <2>2. /\ Len(s) \in Nat /\ DOMAIN s = 1..Len(s)
        /\ s = <<>> <=> Len(s) = 0
        /\ \A k \in DOMAIN s : s[k] \in {a, b, c}
        /\ \A j, k \in DOMAIN s : j < k => \/ s[j] = a /\ s[k] \in {b, c}
                                           \/ s[j] = b /\ s[k] = c
    BY JoinIs, SMTT(30)
  <2> HIDE DEF s
  <2>3. QED
    BY <2>1, <2>2, Zenon
<1>5. Ids(a) \subseteq {"pl1", "pl2"} /\ Ids(b) \subseteq {"tcc"} /\ Ids(c) \subseteq {"epp"}
  BY <1>2 DEF Changes, Ids
<1>6. \A k \in DOMAIN cases : Changes(cases[k], {"pl1", "pl2", "tcc", "epp"})
  <2>1. \A s \in {a, b, c} : Changes(s, {"pl1", "pl2", "tcc", "epp"})
    BY <1>2 DEF Changes
  <2>2. QED
    BY <1>4, <2>1
<1>7. Ids(a) \cap Ids(b) = {} /\ Ids(a) \cap Ids(c) = {} /\ Ids(b) \cap Ids(c) = {}
  BY <1>5
<1>8. \A j, k \in DOMAIN cases : j < k => Ids(cases[j]) \cap Ids(cases[k]) = {}
  BY <1>4, <1>7
<1>9. \A j, k \in DOMAIN cases : j # k => Ids(cases[j]) \cap Ids(cases[k]) = {}
  BY <1>4, <1>8
<1>10. QED
  BY <1>3, <1>4, <1>6, <1>9

-----------------------------------------------------------------------------
(* The cases, and their review, stay what they are while the machine and   *)
(* what was read at the start do.                                          *)

LEMMA CapsKept == ASSUME NEW s, NEW m, machine = m, machine' = m PROVE Caps(s)' = Caps(s)
BY SMT DEF Caps, Reported, Number

LEMMA CasesOfKept ==
    ASSUME NEW s, NEW m, machine = m, machine' = m
    PROVE  conservativeCases(Caps(s))' = conservativeCases(Caps(s))
BY SMT DEF conservativeCases, Caps, Reported, Number, mostSaving

CasesOf == \A s : s = smoke.stock => Cases = conservativeCases(Caps(s))

ReviewOf ==
    \A s, case : s = smoke.stock /\ case = Case =>
        CaseReview = ValidateChangeSet([generation |-> "stock", caps |-> Caps(s)],
                                   [generation |-> "stock", changes |-> case])

LEMMA AreOf == CasesOf /\ ReviewOf
BY Zenon DEF CasesOf, Cases, ReviewOf, CaseReview

LEMMA CasesKept ==
    ASSUME machine' = machine, smoke'.stock = smoke.stock
    PROVE  Cases' = Cases
<1>1. CasesOf'
  BY AreOf, PTL
<1>2. PICK s, m : s = smoke.stock /\ m = machine
  OBVIOUS
<1>3. Cases' = conservativeCases(Caps(s))'
  BY <1>1, <1>2 DEF CasesOf
<1>4. Cases = conservativeCases(Caps(s))
  BY <1>2, AreOf DEF CasesOf
<1>5. QED
  BY <1>2, <1>3, <1>4, CasesOfKept

LEMMA ReviewKept ==
    ASSUME machine' = machine, smoke'.stock = smoke.stock, smoke'.case = smoke.case
    PROVE  Cases' = Cases /\ Case' = Case /\ CaseReview' = CaseReview
<1>1. Cases' = Cases
  BY CasesKept
<1>2. Case' = Case
  BY <1>1 DEF Case
<1>3. ReviewOf'
  BY AreOf, PTL
<1>4. PICK s, m, case : s = smoke.stock /\ m = machine /\ case = Case
  OBVIOUS
<1>5. PICK listed : listed = Caps(s)
  OBVIOUS
<1>6. Caps(s)' = listed
  BY <1>4, <1>5, CapsKept
<1>7. CaseReview' = ValidateChangeSet([generation |-> "stock", caps |-> listed],
                                  [generation |-> "stock", changes |-> case])
  BY <1>2, <1>3, <1>4, <1>6 DEF ReviewOf
<1>8. CaseReview = ValidateChangeSet([generation |-> "stock", caps |-> listed],
                                 [generation |-> "stock", changes |-> case])
  BY <1>4, <1>5, AreOf DEF ReviewOf
<1>9. QED
  BY <1>1, <1>2, <1>7, <1>8

LEMMA ReportedKept ==
    ASSUME machine' = machine, NEW c, NEW v
    PROVE  Reported(c, v)' = Reported(c, v)
BY DEF Reported, Number

-----------------------------------------------------------------------------
(* The case that is exercised.                                             *)

\* What a review that accepts says of a request.
LEMMA ReviewIs ==
    ASSUME NEW set, NEW request, ValidateChangeSet(set, request).ok
    PROVE  LET changes == request.changes
           IN /\ \A i \in DOMAIN changes :
                    Normalized(set.caps[changes[i].id], changes[i].requested) # None
              /\ ValidateChangeSet(set, request).changes = [i \in DOMAIN changes |->
                    [id |-> changes[i].id,
                     requested |-> Normalized(set.caps[changes[i].id], changes[i].requested)]]
<1> DEFINE changes == request.changes
           listed == set.caps
           value(i) == Normalized(listed[changes[i].id], changes[i].requested)
           accepted ==
               /\ request.generation = set.generation
               /\ \A i, j \in DOMAIN changes : changes[i].id = changes[j].id => i = j
               /\ \A i \in DOMAIN changes :
                     /\ changes[i].id \in DOMAIN listed
                     /\ value(i) # None
                     /\ changes[i].id \in RatioControls =>
                           RatioFits(listed[changes[i].id].current, value(i))
           normalized == [i \in DOMAIN changes |-> [id |-> changes[i].id, requested |-> value(i)]]
           differing == {changes[i].id : i \in {j \in DOMAIN changes : value(j) # changes[j].requested}}
<1>1. ValidateChangeSet(set, request) =
         IF accepted /\ PowerRelationship(listed, normalized)
         THEN [ok |-> TRUE, changes |-> normalized, adjusted |-> differing]
         ELSE Refused
  BY Zenon DEF ValidateChangeSet
<1>2. accepted => \A i \in DOMAIN changes : value(i) # None
  OBVIOUS
<1> HIDE DEF accepted, normalized, differing
<1>3. accepted /\ PowerRelationship(listed, normalized)
  BY <1>1 DEF Refused
<1>4. ValidateChangeSet(set, request).changes = normalized
  BY <1>1, <1>3
<1>5. QED
  BY <1>2, <1>3, <1>4, Zenon DEF normalized

\* What is reviewed of a control of the case.
Reviewed(c, v) == Normalized(Caps(smoke.stock)[c], v)

LEMMA ReviewedCase ==
    ASSUME CaseReview.ok
    PROVE  /\ \A i \in DOMAIN Case : Reviewed(Case[i].id, Case[i].requested) # None
           /\ CaseReview.changes = [i \in DOMAIN Case |->
                 [id |-> Case[i].id, requested |-> Reviewed(Case[i].id, Case[i].requested)]]
<1>1. PICK set, request :
         /\ set = [generation |-> "stock", caps |-> Caps(smoke.stock)]
         /\ request = [generation |-> "stock", changes |-> Case]
  OBVIOUS
<1>2. set.caps = Caps(smoke.stock) /\ request.changes = Case
  BY <1>1
<1>3. CaseReview = ValidateChangeSet(set, request)
  BY <1>1, Zenon DEF CaseReview
<1>4. /\ \A i \in DOMAIN request.changes :
            Normalized(set.caps[request.changes[i].id], request.changes[i].requested) # None
      /\ CaseReview.changes = [i \in DOMAIN request.changes |->
            [id |-> request.changes[i].id,
             requested |-> Normalized(set.caps[request.changes[i].id], request.changes[i].requested)]]
  <2>1. ValidateChangeSet(set, request).ok
    BY <1>3
  <2>2. /\ \A i \in DOMAIN request.changes :
              Normalized(set.caps[request.changes[i].id], request.changes[i].requested) # None
        /\ ValidateChangeSet(set, request).changes = [i \in DOMAIN request.changes |->
              [id |-> request.changes[i].id,
               requested |-> Normalized(set.caps[request.changes[i].id], request.changes[i].requested)]]
    BY <2>1, ReviewIs
  <2>3. QED
    BY <1>3, <2>2, Zenon
<1>5. QED
  BY <1>2, <1>4, Zenon DEF Reviewed

LEMMA InCaseOut == ASSUME smoke'.stage \notin Exercising PROVE InCase'
BY DEF InCase, Exercising

LEMMA InCaseSame ==
    ASSUME InCase, smoke.stage \in Exercising,
           machine' = machine, smoke'.stock = smoke.stock, smoke'.case = smoke.case,
           smoke'.stage \in {"apply", "effective", "undo"} =>
               smoke.stage \in {"apply", "effective", "undo"} /\ mem'[Self].ops = mem[Self].ops
    PROVE  InCase'
<1>1. Cases' = Cases /\ Case' = Case /\ CaseReview' = CaseReview
  BY ReviewKept
<1>2. smoke'.case \in DOMAIN Cases'
  BY <1>1 DEF InCase
<1>3. smoke'.stage \in {"apply", "effective", "undo"} =>
         CaseReview'.ok /\ mem'[Self].ops = [i \in DOMAIN Case' |-> Case'[i].id]
  BY <1>1 DEF InCase
<1>4. QED
  BY <1>2, <1>3 DEF InCase

LEMMA BeginInCase == ASSUME Inv, Begin PROVE InCase'
<1>1. /\ smoke.stage = "case" /\ machine' = machine /\ smoke \in Harnesses
      /\ smoke.case \in DOMAIN Cases
  BY DEF Begin, Quiet, Inv, Basics, TypeOK, InCase, Exercising
<1>2. CASE /\ CaseReview.ok
           /\ mem'[Self].ops = [i \in DOMAIN CaseReview.changes |-> CaseReview.changes[i].id]
           /\ Goto("apply")
  <2>1. smoke'.stage = "apply" /\ smoke'.stock = smoke.stock /\ smoke'.case = smoke.case
    BY <1>1, <1>2 DEF Goto, Harnesses
  <2>2. Cases' = Cases /\ Case' = Case /\ CaseReview' = CaseReview
    BY <1>1, <2>1, ReviewKept
  <2>3. mem'[Self].ops = [i \in DOMAIN Case |-> Case[i].id]
    <3>1. PICK changes, case :
             /\ changes = CaseReview.changes /\ case = Case
             /\ changes = [i \in DOMAIN case |->
                   [id |-> case[i].id, requested |-> Reviewed(case[i].id, case[i].requested)]]
      BY <1>2, ReviewedCase
    <3>2. DOMAIN changes = DOMAIN case /\ \A i \in DOMAIN case : changes[i].id = case[i].id
      BY <3>1
    <3>3. mem'[Self].ops = [i \in DOMAIN changes |-> changes[i].id]
      BY <1>2, <3>1
    <3>4. mem'[Self].ops = [i \in DOMAIN case |-> case[i].id]
      BY <3>2, <3>3
    <3>5. QED
      BY <3>1, <3>4
  <2>4. QED
    BY <1>1, <1>2, <2>1, <2>2, <2>3 DEF InCase
<1>3. CASE smoke' = [smoke EXCEPT !.stage = "save", !.error = TRUE]
  <2>1. smoke'.stage = "save" /\ smoke'.stock = smoke.stock /\ smoke'.case = smoke.case
    BY <1>1, <1>3 DEF Harnesses
  <2>2. QED
    BY <1>1, <2>1, InCaseSame DEF Inv, Exercising
<1>4. QED
  BY <1>2, <1>3 DEF Begin

LEMMA InCaseNext == ASSUME Inv, [Next]_vars PROVE InCase'
<1>1. ASSUME NEW options \in Options, Start(options) PROVE InCase'
  <2>1. smoke'.stage \in {"look", "hydrate", "off"}
    BY <1>1 DEF Start, Off
  <2>2. QED
    BY <2>1, InCaseOut DEF Exercising
<1>2. smoke \in Harnesses
  BY DEF Inv, Basics, TypeOK
<1>3. CASE Look
  <2>1. smoke'.stage \in {"off", "leave"}
    BY <1>2, <1>3 DEF Look, Ends, Harnesses
  <2>2. QED
    BY <2>1, InCaseOut DEF Exercising
<1>4. CASE Hydrate \/ Rediscover \/ Final \/ Leave
  <2>1. smoke'.stage \in {"recover", "ready", "leave", "off"}
    BY <1>2, <1>4 DEF Hydrate, Rediscover, Final, Leave, Goto, Harnesses
  <2>2. QED
    BY <2>1, InCaseOut DEF Exercising
<1>5. CASE Recover
  <2>1. smoke'.stage \in {"off", "rediscover", "recover"}
    BY <1>2, <1>5 DEF Recover, Goto, Harnesses
  <2>2. QED
    BY <2>1, InCaseOut DEF Exercising
<1>6. CASE Ready
  <2>1. PICK saved \in BOOLEAN :
           IF saved /\ ~smoke.error
           THEN smoke' = [smoke EXCEPT !.stage = IF Cases = <<>> THEN "final" ELSE "case", !.case = 1]
           ELSE Ends("error")
    BY <1>6 DEF Ready
  <2>2. CASE saved /\ ~smoke.error
    <3>1. CASE Cases = <<>>
      <4>1. smoke'.stage = "final"
        BY <1>2, <2>1, <2>2, <3>1 DEF Harnesses
      <4>2. QED
        BY <4>1, InCaseOut DEF Exercising
    <3>2. CASE Cases # <<>>
      <4>1. smoke'.stage = "case" /\ smoke'.case = 1 /\ smoke'.stock = smoke.stock /\ machine' = machine
        BY <1>2, <1>6, <2>1, <2>2, <3>2 DEF Harnesses, Ready
      <4>2. Cases' = Cases
        BY <4>1, CasesKept
      <4>3. 1 \in DOMAIN Cases
        BY <3>2, CaseIs
      <4>4. QED
        BY <4>1, <4>2, <4>3 DEF InCase
    <3>3. QED
      BY <3>1, <3>2
  <2>3. CASE ~(saved /\ ~smoke.error)
    <3>1. smoke'.stage \in {"off", "leave"}
      BY <1>2, <2>1, <2>3 DEF Ends, Harnesses
    <3>2. QED
      BY <3>1, InCaseOut DEF Exercising
  <2>4. QED
    BY <2>2, <2>3
<1>7. CASE Apply \/ Undo
  <2>1. ApplySteps /\ Quiet /\ smoke.stage \in {"apply", "undo"}
    BY <1>7, ApplyIs, UndoIs
  <2>2. mem'[Self].ops = mem[Self].ops
    BY <2>1, AfterTransaction DEF Inv
  <2>3. smoke'.stock = smoke.stock /\ smoke'.case = smoke.case
    BY <1>2, <1>7, ApplyIs, UndoIs DEF Harnesses
  <2>4. QED
    BY <2>1, <2>2, <2>3, InCaseSame DEF Inv, Quiet, Exercising
<1>8. CASE Observe
  <2>1. /\ smoke.stage = "effective" /\ machine' = machine /\ mem' = mem
        /\ smoke'.stock = smoke.stock /\ smoke'.case = smoke.case
    BY <1>2, <1>8 DEF Observe, Quiet, QuietEngine, Harnesses
  <2>2. QED
    BY <2>1, InCaseSame DEF Inv, Exercising
<1>9. CASE Verify
  <2>1. /\ smoke.stage = "verify" /\ machine' = machine /\ smoke'.stage = "save"
        /\ smoke'.stock = smoke.stock /\ smoke'.case = smoke.case
    BY <1>9, VerifyIs
  <2>2. QED
    BY <2>1, InCaseSame DEF Inv, Exercising
<1>10. CASE Save
  <2>1. /\ machine' = machine /\ smoke'.stock = smoke.stock /\ smoke.stage = "save"
        /\ \/ smoke'.stage \in {"leave", "final"}
           \/ smoke'.stage = "case" /\ smoke'.case = smoke.case + 1 /\ smoke.case # Len(Cases)
    BY <1>10, SaveIs
  <2>2. CASE smoke'.stage \in {"leave", "final"}
    BY <2>2, InCaseOut DEF Exercising
  <2>3. CASE smoke'.stage = "case" /\ smoke'.case = smoke.case + 1 /\ smoke.case # Len(Cases)
    <3>1. Cases' = Cases
      BY <2>1, CasesKept
    <3>2. smoke.case \in 1..Len(Cases) /\ Len(Cases) \in Nat
      BY <2>1, CaseIs DEF Inv, InCase, Exercising
    <3>3. smoke'.case \in DOMAIN Cases'
      BY <2>3, <3>1, <3>2, CaseIs
    <3>4. QED
      BY <2>3, <3>3 DEF InCase
  <2>4. QED
    BY <2>1, <2>2, <2>3
<1>11. CASE Kill \/ Reboot
  <2>1. smoke'.stage = "off"
    BY <1>11, KillIs
  <2>2. QED
    BY <2>1, InCaseOut DEF Exercising
<1>12. ASSUME UNCHANGED vars \/ \E c \in Controls : Firmware(c) PROVE InCase'
  <2>1. machine' = machine /\ smoke' = smoke /\ mem' = mem
    BY <1>12 DEF vars, engineVars, Firmware
  <2>2. CASE smoke.stage \in Exercising
    BY <2>1, <2>2, InCaseSame DEF Inv
  <2>3. CASE smoke.stage \notin Exercising
    BY <2>1, <2>3, InCaseOut
  <2>4. QED
    BY <2>2, <2>3
<1>13. QED
  BY <1>1, <1>3, <1>4, <1>5, <1>6, <1>7, <1>8, <1>9, <1>10, <1>11, <1>12, BeginInCase DEF Next

-----------------------------------------------------------------------------
(* What does not depend on the cases, of every step.                       *)

LEMMA BasicsNext == ASSUME Inv, [Next]_vars PROVE Basics'
<1>1. CASE Kill \/ Reboot
  BY <1>1, KillIs, GoneBasics
<1>2. CASE UNCHANGED vars
  <2>1. UNCHANGED <<disk, pc, machine, runs, smoke, report, moved>>
    BY <1>2 DEF vars, engineVars
  <2>2. TypeOK' /\ Placed' /\ Ahead'
    BY <2>1 DEF Inv, Basics, TypeOK, Placed, Ahead
  <2>3. ErrorFree' /\ Clean' /\ StockIsBoot'
    BY <2>1 DEF Inv, Basics, ErrorFree, Clean, StockIsBoot, Succeeded
  <2>4. QED
    BY <2>2, <2>3 DEF Basics
<1>3. CASE Final
  BY <1>3, FinalBasics, CaseIs
<1>4. CASE \E options \in Options : Start(options)
  BY <1>4, StartBasics
<1>5. CASE \E c \in Controls : Firmware(c)
  BY <1>5, FirmwareBasics
<1>6. CASE Look \/ Hydrate \/ Recover \/ Rediscover \/ Ready \/ Begin
  BY <1>6, LookBasics, HydrateBasics, RecoverBasics, RediscoverBasics, ReadyBasics, BeginBasics
<1>7. CASE Apply \/ Observe \/ Undo \/ Verify \/ Save \/ Leave
  BY <1>7, ApplyBasics, ObserveBasics, UndoBasics, VerifyBasics, SaveBasics, LeaveBasics
<1>8. QED
  BY <1>1, <1>2, <1>3, <1>4, <1>5, <1>6, <1>7 DEF Next

-----------------------------------------------------------------------------
(* What it has written.                                                    *)

Writing == {"apply", "effective", "undo"}

LEMMA WrittenOut == ASSUME Placed', smoke'.stage \in Stages \ Writing PROVE Written'
<1>1. pc'[Self] \notin {"mark", "write", "active"}
  BY DEF Placed, InStage, Stages, Writing, Engine!InRecovery
<1>2. QED
  BY <1>1 DEF Written

LEMMA AsReviewedIs ==
    ASSUME machine' = machine, CaseReview' = CaseReview, NEW c, NEW i, NEW v, hw'[c] = v
    PROVE  AsReviewed(c, i)' <=> Reported(c, v) = CaseReview.changes[i].requested
BY DEF AsReviewed, Reported, Number

LEMMA WrittenSame ==
    ASSUME Written, UNCHANGED <<machine, pc, mem, idx>>,
           smoke'.stock = smoke.stock, smoke'.case = smoke.case,
           moved.ever \subseteq moved'.ever, mem[Self].ops \in Seq(Controls),
           \A c \in Controls \ moved'.ever : hw'[c] = hw[c]
    PROVE  Written'
<1>1. CaseReview' = CaseReview
  BY ReviewKept
<1>2. PICK ops \in Seq(Controls) : ops = mem[Self].ops
  OBVIOUS
<1>3. ASSUME pc[Self] \in {"mark", "write", "active"}, NEW i \in DOMAIN ops, i < idx[Self],
             ops[i] \notin moved'.ever
      PROVE  AsReviewed(ops[i], i)'
  <2>1. PICK c, v : c = ops[i] /\ v = hw[c]
    OBVIOUS
  <2>2. hw'[c] = v
    BY <1>3, <2>1
  <2>3. Reported(c, v) = CaseReview.changes[i].requested
    BY <1>2, <1>3, <2>1 DEF Written, AsReviewed
  <2>4. QED
    BY <1>1, <2>1, <2>2, <2>3, AsReviewedIs
<1>4. QED
  BY <1>2, <1>3 DEF Written

\* A driver that says it has written leaves what was reviewed.
LEMMA WritesReviewed ==
    ASSUME Inv, Apply, pc[Self] = "write", pc'[Self] = "mark"
    PROVE  Reported(mem[Self].ops[idx[Self]], hw'[mem[Self].ops[idx[Self]]])
              = CaseReview.changes[idx[Self]].requested
<1>1. ~Engine!SaveRecord(Self) /\ ~Engine!Mark(Self) /\ ~Engine!Activate(Self) /\ ~Engine!Rollback(Self)
  BY DEF Engine!SaveRecord, Engine!Mark, Engine!Activate, Engine!Rollback
<1>2. ~RollbackSteps
  BY DEF RollbackSteps, Engine!RollbackSkip, Engine!RollbackRestore, Engine!RollbackSave, Engine!RollbackEnd,
     Engine!SkipEntry, Engine!RestoreEntry, Engine!SaveEntry
<1>3. Write
  BY <1>1, <1>2, Zenon DEF Apply
<1>4. QED
  BY <1>3, Zenon DEF Write

LEMMA ApplyWritten == ASSUME Inv, Apply PROVE Written'
<1>1. /\ ApplySteps /\ Quiet /\ mem[Self].ops \in Seq(Controls) /\ idx[Self] \in Nat
      /\ smoke \in Harnesses /\ machine' = machine /\ moved' = moved
  BY ApplyIs, SoundType DEF Inv, Basics, TypeOK, Quiet
<1>2. mem'[Self].ops = mem[Self].ops
  BY <1>1, AfterTransaction DEF Inv
<1>3. smoke'.stock = smoke.stock /\ smoke'.case = smoke.case
  BY <1>1, ApplyIs DEF Harnesses
<1>4. CaseReview' = CaseReview
  BY <1>1, <1>3, ReviewKept
<1>5. PICK ops \in Seq(Controls) : ops = mem[Self].ops
  BY <1>1
<1>6. PICK n \in Nat : n = idx[Self]
  BY <1>1
<1>7. Len(ops) \in Nat /\ DOMAIN ops = 1..Len(ops)
  OBVIOUS
<1>8. /\ pc'[Self] = "mark" =>
           \/ idx'[Self] = 1
           \/ /\ pc[Self] = "write" /\ idx'[Self] = n + 1
              /\ \A i \in 1..Len(ops) : i # n => hw'[ops[i]] = hw[ops[i]]
      /\ pc'[Self] = "write" => pc[Self] = "mark" /\ idx'[Self] = n /\ hw' = hw
      /\ pc'[Self] = "active" => pc[Self] = "mark" /\ idx'[Self] = n /\ hw' = hw /\ n > Len(ops)
  BY <1>1, <1>5, <1>6, AfterWriting DEF Inv
<1>9. ASSUME pc[Self] \in {"mark", "write", "active"}, NEW i \in DOMAIN ops, i < n, ops[i] \notin moved.ever
      PROVE  Reported(ops[i], hw[ops[i]]) = CaseReview.changes[i].requested
  BY <1>5, <1>6, <1>9 DEF Inv, Written, AsReviewed
<1>10. ASSUME pc'[Self] \in {"mark", "write", "active"}, NEW i \in DOMAIN ops, i < idx'[Self],
              ops[i] \notin moved.ever
       PROVE  AsReviewed(ops[i], i)'
  <2>1. PICK v : v = hw'[ops[i]]
    OBVIOUS
  <2>2. Reported(ops[i], v) = CaseReview.changes[i].requested
    <3>1. CASE i = n /\ pc[Self] = "write" /\ pc'[Self] = "mark"
      BY <1>5, <1>6, <2>1, <3>1, WritesReviewed
    <3>2. CASE ~(i = n /\ pc[Self] = "write" /\ pc'[Self] = "mark")
      <4>1. i \in Nat /\ i >= 1
        BY <1>7
      <4>2. /\ i < n /\ hw'[ops[i]] = hw[ops[i]]
            /\ pc[Self] \in {"mark", "write", "active"}
        BY <1>7, <1>8, <1>10, <3>2, <4>1
      <4>3. QED
        BY <1>9, <1>10, <2>1, <4>2
    <3>3. QED
      BY <3>1, <3>2
  <2>3. QED
    BY <1>1, <1>4, <2>1, <2>2, AsReviewedIs
<1>11. pc'[Self] = "active" => idx'[Self] > Len(ops)
  BY <1>8
<1>12. QED
  BY <1>1, <1>2, <1>5, <1>10, <1>11 DEF Written

LEMMA WrittenNext == ASSUME Inv, [Next]_vars PROVE Written'
<1>1. Placed' /\ smoke'.stage \in Stages
  BY BasicsNext DEF Basics, TypeOK, Harnesses
<1>2. smoke \in Harnesses /\ mem[Self].ops \in Seq(Controls)
  BY SoundType DEF Inv, Basics, TypeOK
<1>3. CASE smoke'.stage \notin Writing
  BY <1>1, <1>3, WrittenOut
<1>4. CASE Apply
  BY <1>4, ApplyWritten
<1>5. CASE Undo
  <2>1. pc'[Self] \notin {"mark", "write", "active"}
    BY <1>5, UndoIs
  <2>2. QED
    BY <2>1 DEF Written
<1>6. CASE Begin
  <2>1. smoke.stage = "case" /\ (Engine!Begin(Self) \/ (smoke'.stage = "save"))
    BY <1>2, <1>6 DEF Begin, Harnesses
  <2>2. CASE Engine!Begin(Self)
    BY <2>2, AfterBegin DEF Written, Inv
  <2>3. CASE smoke'.stage = "save"
    BY <1>3, <2>3 DEF Writing
  <2>4. QED
    BY <2>1, <2>2, <2>3
<1>7. CASE Observe
  <2>1. /\ UNCHANGED <<hw, machine, pc, mem, idx, moved>>
        /\ smoke'.stock = smoke.stock /\ smoke'.case = smoke.case
    BY <1>2, <1>7 DEF Observe, Quiet, QuietEngine, Harnesses
  <2>2. QED
    BY <1>2, <2>1, WrittenSame DEF Inv
<1>8. CASE UNCHANGED vars
  BY <1>2, <1>8, WrittenSame DEF Inv, vars, engineVars
<1>9. ASSUME NEW c \in Controls, Firmware(c) PROVE Written'
  <2>1. PICK v \in Values : hw' = [hw EXCEPT ![c] = v]
    BY <1>9 DEF Firmware
  <2>2. UNCHANGED <<machine, pc, mem, idx, smoke>> /\ moved'.ever = moved.ever \cup {c}
    BY <1>9 DEF Firmware
  <2>3. hw \in [Controls -> Values]
    BY SoundType DEF Inv
  <2>4. \A d \in Controls \ moved'.ever : hw'[d] = hw[d]
    BY <2>1, <2>2, <2>3
  <2>5. QED
    BY <1>2, <2>2, <2>4, WrittenSame DEF Inv
<1>10. ASSUME NEW options \in Options, Start(options) PROVE Written'
  <2>1. smoke'.stage \in {"look", "hydrate", "off"}
    BY <1>10 DEF Start, Off
  <2>2. QED
    BY <1>3, <2>1 DEF Writing
<1>11. CASE Look \/ Hydrate \/ Recover \/ Rediscover \/ Ready \/ Final \/ Leave
  <2>1. smoke'.stage \notin Writing
    BY <1>2, <1>11 DEF Look, Hydrate, Recover, Rediscover, Ready, Final, Leave, Ends, Goto, Harnesses, Writing
  <2>2. QED
    BY <1>3, <2>1
<1>12. CASE Verify \/ Save \/ Kill \/ Reboot
  <2>1. smoke'.stage \in {"save", "leave", "final", "case", "off"}
    BY <1>12, VerifyIs, SaveIs, KillIs
  <2>2. QED
    BY <1>3, <2>1 DEF Writing
<1>13. QED
  BY <1>4, <1>5, <1>6, <1>7, <1>8, <1>9, <1>10, <1>11, <1>12 DEF Next

-----------------------------------------------------------------------------
(* What has been verified.                                                 *)

LEMMA IdsAreControls ==
    ASSUME smoke \in Harnesses, NEW k \in DOMAIN Cases
    PROVE  Ids(Cases[k]) \subseteq Controls \cap DOMAIN smoke.stock
<1>1. PICK s : s = Cases[k]
  OBVIOUS
<1>2. \A i \in DOMAIN s : Offered(s[i].id)
  BY <1>1, CaseIs DEF Changes
<1>3. DOMAIN smoke.stock \subseteq Controls
  BY DEF Harnesses, Readable
<1>4. QED
  BY <1>1, <1>2, <1>3 DEF Ids, Offered

\* Nothing has been verified before the first case, nor after a kill.
LEMMA RestoredOut ==
    ASSUME smoke'.case \in {0, 1}, ~Succeeded', smoke'.stage \notin {"final", "save"}
    PROVE  Restored'
<1>1. (Len(Cases) \in Nat /\ DOMAIN Cases = 1..Len(Cases))'
  BY CaseIs, PTL
<1>2. PICK cases : cases = Cases'
  BY SMTT(30)
<1>3. PICK n \in Nat : n = Len(cases)
  BY <1>1, <1>2
<1>4. DOMAIN cases = 1..n
  BY <1>1, <1>2, <1>3
<1>5. \A k \in 1..n : ~(k < smoke'.case) /\ k # 0
  BY <1>3
<1>6. Verified' = {}
  BY <1>2, <1>4, <1>5 DEF Verified
<1>7. QED
  BY <1>6 DEF Restored

LEMMA RestoredSame ==
    ASSUME Restored, machine' = machine, smoke'.stock = smoke.stock,
           \A k \in Verified' :
              /\ k \in Verified
              /\ \A c \in Ids(Cases[k]) \ moved'.late : c \notin moved.late /\ hw'[c] = hw[c]
    PROVE  Restored'
<1>1. Cases' = Cases
  BY CasesKept
<1>2. ASSUME NEW k \in Verified', NEW c \in Ids(Cases[k]) \ moved'.late
      PROVE  hw'[c] = smoke.stock[c]
  BY <1>2 DEF Restored
<1>3. QED
  BY <1>1, <1>2 DEF Restored

\* A step that moves no control, and verifies nothing.
LEMMA RestoredStill ==
    ASSUME Restored, hw' = hw, machine' = machine, smoke'.stock = smoke.stock,
           moved.late \subseteq moved'.late, Verified' \subseteq Verified
    PROVE  Restored'
BY RestoredSame

\* How the set goes on within a case.
LEMMA VerifiedGoesOn ==
    ASSUME Inv, smoke.stage \in Exercising, ~Succeeded', machine' = machine, smoke'.stock = smoke.stock,
           smoke'.case = smoke.case, smoke'.stage \in Exercising, smoke'.stage = "save" => smoke'.error
    PROVE  Verified' = {k \in DOMAIN Cases : k < smoke.case} /\ Verified' \subseteq Verified
<1>1. Cases' = Cases
  BY CasesKept
<1>2. ~Succeeded
  BY DEF Inv, Basics, ErrorFree, Exercising
<1>3. Verified' = {k \in DOMAIN Cases : k < smoke.case}
  BY <1>1 DEF Verified, Exercising
<1>4. smoke.stage # "final"
  BY DEF Exercising
<1>5. {k \in DOMAIN Cases : k < smoke.case} \subseteq Verified
  BY <1>2, <1>4 DEF Verified
<1>6. QED
  BY <1>3, <1>5

\* A change set writes, and restores, controls of its own case only.
LEMMA TransactionRestored ==
    ASSUME Inv, ApplySteps, Quiet, smoke.stage \in {"apply", "undo"}, ~Succeeded',
           smoke'.stock = smoke.stock, smoke'.case = smoke.case,
           smoke'.stage \in Exercising, smoke'.stage = "save" => smoke'.error
    PROVE  Restored'
<1>1. machine' = machine /\ moved' = moved /\ smoke.stage \in Exercising /\ smoke \in Harnesses
  BY DEF Quiet, Exercising, Inv, Basics, TypeOK
<1>2. Verified' = {k \in DOMAIN Cases : k < smoke.case} /\ Verified' \subseteq Verified
  BY <1>1, VerifiedGoesOn
<1>3. smoke.case \in DOMAIN Cases /\ mem[Self].ops = [i \in DOMAIN Case |-> Case[i].id]
  BY <1>1 DEF Inv, InCase
<1>4. smoke.case \in Nat
  BY <1>1 DEF Harnesses
<1>5. \A c \in Controls : hw'[c] # hw[c] => c \in Ids(Case)
  <2>1. SUFFICES ASSUME NEW c \in Controls, hw'[c] # hw[c] PROVE c \in Ids(Case)
    OBVIOUS
  <2>2. PICK i \in 1..Len(mem[Self].ops) : mem[Self].ops[i] = c
    BY <2>1, AfterTransaction DEF Inv
  <2>3. i \in DOMAIN mem[Self].ops
    BY SoundType DEF Inv
  <2>4. PICK case : case = Case
    OBVIOUS
  <2>5. i \in DOMAIN case /\ case[i].id = c
    BY <1>3, <2>2, <2>3, <2>4
  <2>6. QED
    BY <2>4, <2>5 DEF Ids
<1>6. ASSUME NEW k \in Verified', NEW c \in Ids(Cases[k]) PROVE hw'[c] = hw[c]
  <2>1. k \in DOMAIN Cases /\ k # smoke.case
    BY <1>2, <1>4
  <2>2. c \in Controls
    BY <1>1, <2>1, IdsAreControls
  <2>3. Ids(Cases[k]) \cap Ids(Cases[smoke.case]) = {}
    BY <1>3, <2>1, CaseIs
  <2>4. QED
    BY <1>5, <2>2, <2>3 DEF Case
<1>7. QED
  BY <1>1, <1>2, <1>6, RestoredSame DEF Inv

LEMMA VerifyRestored == ASSUME Inv, Verify PROVE Restored'
<1>1. /\ smoke.stage = "verify" /\ smoke'.stage = "save" /\ hw' = hw /\ machine' = machine
      /\ smoke'.stock = smoke.stock /\ smoke'.case = smoke.case /\ smoke'.exit = smoke.exit
      /\ smoke'.mutate = smoke.mutate
      /\ moved.late \ Ids(Case) \subseteq moved'.late
      /\ ~smoke'.error => verifyRestored(hw)
  BY VerifyIs DEF QuietEngine
<1>2. ~Succeeded /\ ~Succeeded'
  BY <1>1 DEF Inv, Basics, ErrorFree, Succeeded
<1>3. Cases' = Cases
  BY <1>1, CasesKept
<1>4. smoke.case \in DOMAIN Cases
  BY <1>1 DEF Inv, InCase, Exercising
<1>5. Verified = {k \in DOMAIN Cases : k < smoke.case}
  BY <1>1, <1>2 DEF Verified
<1>6. \A k \in Verified' : /\ k \in DOMAIN Cases
                           /\ k < smoke.case \/ (k = smoke.case /\ ~smoke'.error)
  BY <1>1, <1>2, <1>3 DEF Verified
<1>7. ASSUME NEW k \in Verified', NEW c \in Ids(Cases[k]) \ moved'.late
      PROVE  hw[c] = smoke.stock[c]
  <2>1. CASE k = smoke.case /\ ~smoke'.error
    BY <1>1, <1>7, <2>1 DEF verifyRestored, Case
  <2>2. CASE k < smoke.case
    <3>1. k \in Verified /\ k # smoke.case
      BY <1>5, <1>6, <2>2, <1>4, CaseIs
    <3>2. Ids(Cases[k]) \cap Ids(Case) = {}
      BY <1>4, <1>6, <3>1, CaseIs DEF Case
    <3>3. c \notin moved.late
      BY <1>1, <3>2
    <3>4. QED
      BY <3>1, <3>3 DEF Inv, Restored
  <2>3. QED
    BY <1>6, <2>1, <2>2
<1>8. QED
  BY <1>1, <1>3, <1>7 DEF Restored

LEMMA SaveRestored == ASSUME Inv, Save PROVE Restored'
<1>1. /\ smoke.stage = "save" /\ hw' = hw /\ machine' = machine /\ moved' = moved
      /\ smoke'.stock = smoke.stock /\ smoke'.mutate = smoke.mutate
      /\ \/ smoke'.stage = "leave" /\ smoke'.case = smoke.case /\ smoke'.exit = "error"
         \/ /\ smoke'.stage = "final" /\ ~smoke.error /\ smoke.case = Len(Cases)
         \/ /\ smoke'.stage = "case" /\ smoke'.case = smoke.case + 1 /\ smoke'.exit = smoke.exit
            /\ ~smoke.error
  BY SaveIs DEF QuietEngine
<1>2. Cases' = Cases
  BY <1>1, CasesKept
<1>3. PICK cases, m : cases = Cases /\ m = smoke.case
  BY SMTT(30)
<1>4. PICK n \in Nat : n = Len(cases)
  BY <1>3, CaseIs
<1>5. DOMAIN cases = 1..n /\ m \in 1..n
  BY <1>1, <1>3, <1>4, CaseIs DEF Inv, InCase, Exercising
<1>6. ~Succeeded
  BY <1>1 DEF Inv, Basics, ErrorFree
<1>7. Verified = {k \in 1..n : k < m \/ (k = m /\ ~smoke.error)}
  BY <1>1, <1>3, <1>5, <1>6 DEF Verified
<1>8. Verified' \subseteq Verified
  <2>1. CASE smoke'.stage = "leave" /\ smoke'.case = smoke.case /\ smoke'.exit = "error"
    <3>1. Verified' = {k \in 1..n : k < m}
      BY <1>2, <1>3, <1>5, <2>1 DEF Verified, Succeeded
    <3>2. QED
      BY <1>7, <3>1
  <2>2. CASE smoke'.stage = "final" /\ ~smoke.error /\ smoke.case = Len(Cases)
    <3>1. Verified' = 1..n /\ m = n
      BY <1>2, <1>3, <1>4, <1>5, <2>2 DEF Verified
    <3>2. QED
      BY <1>7, <2>2, <3>1
  <2>3. CASE /\ smoke'.stage = "case" /\ smoke'.case = smoke.case + 1 /\ smoke'.exit = smoke.exit
             /\ ~smoke.error
    <3>1. ~Succeeded'
      BY <1>1, <1>6, <2>3 DEF Succeeded
    <3>2. Verified' = {k \in 1..n : k < m + 1}
      BY <1>2, <1>3, <1>5, <2>3, <3>1 DEF Verified
    <3>3. QED
      BY <1>5, <1>7, <2>3, <3>2
  <2>4. QED
    BY <1>1, <2>1, <2>2, <2>3
<1>9. QED
  BY <1>1, <1>8, RestoredStill DEF Inv

LEMMA ReadyRestored == ASSUME Inv, Ready PROVE Restored'
<1>1. PICK saved \in BOOLEAN :
         IF saved /\ ~smoke.error
         THEN smoke' = [smoke EXCEPT !.stage = IF Cases = <<>> THEN "final" ELSE "case", !.case = 1]
         ELSE Ends("error")
  BY DEF Ready
<1>2. /\ smoke.stage = "ready" /\ pc[Self] = "idle" /\ smoke.case = 0 /\ smoke \in Harnesses
      /\ machine' = machine /\ ~Succeeded
  BY DEF Ready, Inv, Basics, TypeOK, Placed, InStage, Preparing, ErrorFree
<1>3. CASE saved /\ ~smoke.error /\ Cases = <<>>
  <2>1. smoke' = [smoke EXCEPT !.stage = "final", !.case = 1]
    BY <1>1, <1>3, Zenon
  <2>2. smoke'.stage = "final" /\ smoke'.stock = smoke.stock
    BY <1>2, <2>1 DEF Harnesses
  <2>3. Cases' = <<>>
    BY <1>2, <1>3, <2>2, CasesKept
  <2>4. Verified' = {}
    BY <2>2, <2>3 DEF Verified
  <2>5. QED
    BY <2>4 DEF Restored
<1>4. CASE saved /\ ~smoke.error /\ Cases # <<>>
  <2>1. smoke' = [smoke EXCEPT !.stage = "case", !.case = 1]
    BY <1>1, <1>4, Zenon
  <2>2. smoke'.stage = "case" /\ smoke'.case = 1 /\ ~Succeeded'
    BY <1>2, <2>1 DEF Harnesses, Succeeded
  <2>3. QED
    BY <2>2, RestoredOut
<1>5. CASE ~(saved /\ ~smoke.error)
  <2>1. smoke' = [smoke EXCEPT !.stage = "leave", !.exit = "error"]
    BY <1>1, <1>2, <1>5 DEF Ends
  <2>2. smoke'.stage = "leave" /\ smoke'.case = 0 /\ ~Succeeded'
    BY <1>2, <2>1 DEF Harnesses, Succeeded
  <2>3. QED
    BY <2>2, RestoredOut
<1>6. QED
  BY <1>3, <1>4, <1>5

LEMMA PreparingRestored ==
    ASSUME Inv, Look \/ Hydrate \/ Recover \/ Rediscover
    PROVE  Restored'
<1>1. /\ smoke.case = 0 /\ smoke \in Harnesses /\ ~Succeeded
      /\ smoke.stage = "look" => ~smoke.mutate
  BY DEF Look, Hydrate, Recover, Rediscover, Inv, Basics, TypeOK, Placed, Preparing, ErrorFree
<1>2. CASE Look
  <2>1. smoke'.stage \in {"off", "leave"} /\ smoke'.case = 0 /\ smoke'.mutate = smoke.mutate /\ ~smoke.mutate
    BY <1>1, <1>2 DEF Look, Ends, Harnesses
  <2>2. QED
    BY <2>1, RestoredOut DEF Succeeded
<1>3. CASE Hydrate \/ Rediscover
  <2>1. /\ smoke'.stage \in {"recover", "ready"} /\ smoke'.case = 0
        /\ smoke'.mutate = smoke.mutate /\ smoke'.exit = smoke.exit
    BY <1>1, <1>3 DEF Hydrate, Rediscover, Harnesses
  <2>2. QED
    BY <1>1, <2>1, RestoredOut DEF Succeeded
<1>4. CASE Recover
  <2>1. /\ smoke'.stage \in {"off", "rediscover", "recover"} /\ smoke'.case = 0
        /\ smoke'.mutate = smoke.mutate /\ smoke'.exit \in {smoke.exit, "error"}
    BY <1>1, <1>4 DEF Recover, Goto, Harnesses
  <2>2. QED
    BY <1>1, <2>1, RestoredOut DEF Succeeded
<1>5. QED
  BY <1>2, <1>3, <1>4

LEMMA CaseRestored ==
    ASSUME Inv, Begin \/ Apply \/ Observe \/ Undo
    PROVE  Restored'
<1>1. smoke \in Harnesses
  BY DEF Inv, Basics, TypeOK
<1>2. CASE Apply \/ Undo
  <2>1. ApplySteps /\ Quiet /\ smoke.stage \in {"apply", "undo"}
    BY <1>2, ApplyIs, UndoIs
  <2>2. /\ smoke'.stock = smoke.stock /\ smoke'.case = smoke.case /\ smoke'.exit = smoke.exit
        /\ smoke'.mutate = smoke.mutate
        /\ smoke'.stage \in {"apply", "effective", "undo", "verify", "save"}
        /\ smoke'.stage = "save" => smoke'.error
    BY <1>1, <1>2, <2>1, ApplyIs, UndoIs DEF Harnesses
  <2>3. ~Succeeded'
    BY <2>1, <2>2 DEF Inv, Basics, ErrorFree, Succeeded
  <2>4. QED
    BY <2>1, <2>2, <2>3, TransactionRestored DEF Exercising
<1>3. CASE Begin \/ Observe
  <2>1. /\ smoke.stage \in {"case", "effective"} /\ hw' = hw /\ machine' = machine /\ moved' = moved
        /\ smoke'.stock = smoke.stock /\ smoke'.case = smoke.case /\ smoke'.exit = smoke.exit
        /\ smoke'.mutate = smoke.mutate
        /\ smoke'.stage \in {"apply", "undo", "save"}
        /\ smoke'.stage = "save" => smoke'.error
    BY <1>1, <1>3, AfterBegin DEF Begin, Observe, Quiet, QuietEngine, Goto, Harnesses, Inv
  <2>2. ~Succeeded'
    BY <2>1 DEF Inv, Basics, ErrorFree, Succeeded
  <2>3. Verified' \subseteq Verified
    BY <2>1, <2>2, VerifiedGoesOn DEF Exercising
  <2>4. QED
    BY <2>1, <2>3, RestoredStill DEF Inv
<1>4. QED
  BY <1>2, <1>3

LEMMA EndRestored == ASSUME Inv, Final \/ Leave PROVE Restored'
<1>1. smoke \in Harnesses
  BY DEF Inv, Basics, TypeOK
<1>2. CASE Final
  <2>1. /\ smoke.stage = "final" /\ hw' = hw /\ machine' = machine /\ moved' = moved
        /\ smoke'.stock = smoke.stock
    BY <1>2, FinalIs, CaseIs DEF QuietEngine
  <2>2. Cases' = Cases
    BY <2>1, CasesKept
  <2>3. Verified = DOMAIN Cases
    BY <2>1 DEF Verified
  <2>4. Verified' \subseteq DOMAIN Cases'
    BY DEF Verified
  <2>5. QED
    BY <2>1, <2>2, <2>3, <2>4, RestoredStill DEF Inv
<1>3. CASE Leave
  <2>1. /\ hw' = hw /\ machine' = machine /\ moved' = moved /\ smoke.stage = "leave"
        /\ smoke' = [smoke EXCEPT !.stage = "off"]
    BY <1>3, AfterEnd DEF Leave, Quiet, Goto, Inv
  <2>2. /\ smoke'.stock = smoke.stock /\ smoke'.case = smoke.case /\ smoke'.stage = "off"
        /\ smoke'.exit = smoke.exit /\ smoke'.mutate = smoke.mutate
    BY <1>1, <2>1 DEF Harnesses
  <2>3. Cases' = Cases
    BY <2>1, <2>2, CasesKept
  <2>4. Verified' = Verified
    BY <2>1, <2>2, <2>3 DEF Verified, Succeeded
  <2>5. QED
    BY <2>1, <2>2, <2>4, RestoredStill DEF Inv
<1>4. QED
  BY <1>2, <1>3

LEMMA RestoredNext == ASSUME Inv, [Next]_vars PROVE Restored'
<1>1. ASSUME NEW options \in Options, Start(options) PROVE Restored'
  <2>1. smoke'.stage \in {"look", "hydrate", "off"} /\ smoke'.case = 0 /\ smoke'.exit # "ok"
    BY <1>1 DEF Start, Off
  <2>2. QED
    BY <2>1, RestoredOut DEF Succeeded
<1>2. CASE Kill \/ Reboot
  <2>1. smoke'.stage = "off" /\ smoke'.case = 0 /\ smoke'.exit # "ok"
    BY <1>2, KillIs
  <2>2. QED
    BY <2>1, RestoredOut DEF Succeeded
<1>3. ASSUME NEW c \in Controls, Firmware(c) PROVE Restored'
  <2>1. PICK v \in Values : hw' = [hw EXCEPT ![c] = v]
    BY <1>3 DEF Firmware
  <2>2. UNCHANGED <<machine, smoke>> /\ moved'.late = moved.late \cup {c}
    BY <1>3 DEF Firmware
  <2>3. hw \in [Controls -> Values]
    BY SoundType DEF Inv
  <2>4. Cases' = Cases
    BY <2>2, CasesKept
  <2>5. Verified' = Verified
    BY <2>2, <2>4 DEF Verified, Succeeded
  <2>6. \A d : d # c => hw'[d] = hw[d]
    BY <2>1, <2>3
  <2>7. QED
    BY <2>2, <2>5, <2>6, RestoredSame DEF Inv
<1>4. CASE UNCHANGED vars
  <2>1. UNCHANGED <<hw, machine, smoke, moved>>
    BY <1>4 DEF vars, engineVars
  <2>2. Cases' = Cases
    BY <2>1, CasesKept
  <2>3. Verified' = Verified
    BY <2>1, <2>2 DEF Verified, Succeeded
  <2>4. QED
    BY <2>1, <2>3, RestoredStill DEF Inv
<1>5. QED
  BY <1>1, <1>2, <1>3, <1>4, ReadyRestored, PreparingRestored, CaseRestored, EndRestored,
     VerifyRestored, SaveRestored DEF Next

-----------------------------------------------------------------------------
(* The invariant.                                                          *)

LEMMA InvInit == ASSUME Init PROVE Inv
<1>1. /\ smoke = Off /\ moved = [ever |-> {}, late |-> {}] /\ runs = 0 /\ report = None
      /\ machine \in Machines /\ pc = [p \in Procs |-> "down"]
  BY DEF Init, Engine!Init
<1>2. smoke.stage = "off" /\ smoke.case = 0 /\ smoke.exit = "none"
  BY <1>1 DEF Off
<1>3. Sound
  BY SoundInit
<1>4. TypeOK
  BY <1>1, OffIsHarness DEF TypeOK
<1>5. Placed
  BY <1>1, <1>2, HarnessAssumption DEF Placed, InStage, Preparing
<1>6. Ahead /\ ErrorFree /\ Clean /\ StockIsBoot /\ InCase
  BY <1>2 DEF Ahead, ErrorFree, Clean, StockIsBoot, InCase, Exercising, Succeeded
<1>7. Written
  BY <1>1, HarnessAssumption DEF Written
<1>8. Restored
  <2>1. Verified = {}
    BY <1>2, CaseIs DEF Verified, Succeeded
  <2>2. QED
    BY <2>1 DEF Restored
<1>9. QED
  BY <1>3, <1>4, <1>5, <1>6, <1>7, <1>8 DEF Inv, Basics

LEMMA InvNext == ASSUME Inv, [Next]_vars PROVE Inv'
<1>1. Sound'
  BY SoundNext, CaseIs
<1>2. QED
  BY <1>1, BasicsNext, InCaseNext, WrittenNext, RestoredNext DEF Inv

\* The inductive invariant holds of every run of the harness.
THEOREM InvHolds == Spec => []Inv
<1>1. Init => Inv
  BY InvInit
<1>2. Inv /\ [Next]_vars => Inv'
  BY InvNext
<1>3. QED
  BY <1>1, <1>2, PTL DEF Spec

-----------------------------------------------------------------------------
(* The properties.                                                         *)

\* The harness and its report stay what they are typed to be, and so does the
\* engine that it drives.
THEOREM TypeHolds == Spec => [](TypeOK /\ EngineProven!TypeOK)
<1>1. Inv => TypeOK /\ EngineProven!TypeOK
  BY DEF Inv, Basics, Sound, EngineProven!TypeInv
<1>2. QED
  BY <1>1, InvHolds, PTL

\* As long as a case may have changed the machine, the report on disk is the one
\* of this run, has every case before it and tells of no error.
THEOREM ReportHolds == Spec => []ReportIsAhead
<1>1. ASSUME Inv PROVE ReportIsAhead
  <2>1. SUFFICES ASSUME pc[Self] \in Engine!InTransaction \cup {"captured"} PROVE
           /\ report # None /\ report.run = runs
           /\ report.cases \in {smoke.case - 1, smoke.case} /\ (report.cases = smoke.case => smoke.stage = "leave")
           /\ report.error => smoke.stage = "leave"
    BY DEF ReportIsAhead
  <2>2. Placed /\ Ahead /\ smoke.stage \in Stages /\ smoke.case \in Nat
    BY <1>1 DEF Inv, Basics, TypeOK, Harnesses
  <2>3. \/ smoke.stage \in {"apply", "effective", "undo", "verify", "save"}
        \/ smoke.stage = "leave" /\ pc[Self] = "incomplete"
    BY <2>1, <2>2 DEF Placed, InStage, Stages, Engine!InTransaction, Engine!InRollback, Engine!InRecovery
  <2>4. CASE smoke.stage \in {"apply", "effective", "undo", "verify", "save"}
    <3>1. /\ report # None /\ report.run = runs /\ report.cases = smoke.case - 1 /\ ~report.error
      BY <2>2, <2>4 DEF Ahead, Exercising
    <3>2. report.cases # smoke.case
      BY <2>2, <3>1
    <3>3. QED
      BY <3>1, <3>2, Zenon
  <2>5. CASE smoke.stage = "leave" /\ pc[Self] = "incomplete"
    BY <2>2, <2>5 DEF Ahead
  <2>6. QED
    BY <2>3, <2>4, <2>5
<1>2. QED
  BY <1>1, InvHolds, PTL

\* When a mutating run succeeds, every control it exercised holds what it held
\* before, unless others moved it after it had been verified; no record is left;
\* and what it took for stock is what the machine had at boot, unless others
\* moved it.
THEOREM SuccessHolds == Spec => []SuccessMeansRestored
<1>1. ASSUME Inv PROVE SuccessMeansRestored
  <2>1. SUFFICES ASSUME smoke.exit = "ok", smoke.mutate PROVE
           /\ disk = NoRecord
           /\ \A k \in DOMAIN Cases : \A c \in Ids(Cases[k]) \ moved.late : hw[c] = smoke.stock[c]
           /\ \A c \in DOMAIN smoke.stock \ moved.ever : smoke.stock[c] = Stock
    BY DEF SuccessMeansRestored
  <2>2. Succeeded
    BY <2>1 DEF Succeeded
  <2>3. Verified = DOMAIN Cases
    BY <2>2 DEF Verified
  <2>4. QED
    BY <1>1, <2>2, <2>3 DEF Inv, Basics, Clean, StockIsBoot, Restored
<1>2. QED
  BY <1>1, InvHolds, PTL

-----------------------------------------------------------------------------
(* What a case asks for.                                                   *)

LEMMA RoundIs == ASSUME NEW n \in Nat PROVE Round(n, 1) = n
<1>1. (2 * n + 1) \div 2 = n
  OBVIOUS
<1>2. QED
  BY <1>1 DEF Round

\* A review raises a number to the minimum at most.
LEMMA NormalizedNumber ==
    ASSUME NEW cap, NEW lo \in Int, NEW hi \in Int, NEW x \in Int, cap.state = "supported",
           cap.range = [min |-> lo, max |-> hi, step |-> 1], cap.range # None,
           Normalized(cap, Numeric(x)) # None
    PROVE  \E y \in Int : Normalized(cap, Numeric(x)) = Numeric(y) /\ y <= Greatest(lo, x)
<1>1. PICK r : r = cap.range
  OBVIOUS
<1>2. r.min = lo /\ r.max = hi /\ r.step = 1 /\ r # None
  BY <1>1
<1>3. PICK v : v = Numeric(x)
  OBVIOUS
<1>4. v.kind = "numeric" /\ v.of = x
  BY <1>3 DEF Numeric
<1> DEFINE number == /\ v.kind = "numeric"
                     /\ ~(cap.id \in VoltageControls /\ v.of > 0)
                     /\ r.max >= r.min /\ r.step > 0
           onStep == r.min + Round(Clamp(r, v.of) - r.min, r.step) * r.step
<1>5. Normalized(cap, v) = IF number THEN Numeric(Clamp(r, onStep)) ELSE None
  BY <1>1, <1>2, Zenon DEF Normalized
<1>6. number
  BY <1>3, <1>5
<1>7. hi >= lo
  BY <1>2, <1>6
<1>8. PICK z : z = Clamp(r, x)
  OBVIOUS
<1>9. z \in Int /\ z >= lo /\ z <= Greatest(lo, x) /\ z <= hi
  BY <1>2, <1>7, <1>8 DEF Clamp, Least, Greatest
<1>10. onStep = z
  <2>1. Round(z - lo, 1) = z - lo
    BY <1>9, RoundIs
  <2>2. onStep = lo + (z - lo) * 1
    BY <1>2, <1>4, <1>8, <2>1
  <2>3. QED
    BY <1>9, <2>2
<1>11. Clamp(r, z) = z
  BY <1>2, <1>9 DEF Clamp, Least, Greatest
<1> HIDE DEF number, onStep
<1>12. Normalized(cap, v) = Numeric(z)
  BY <1>5, <1>6, <1>10, <1>11, Zenon
<1>13. QED
  BY <1>3, <1>9, <1>12

\* A review leaves a choice alone.
LEMMA NormalizedChoice ==
    ASSUME NEW cap, NEW x, cap.state = "supported", cap.range = None, cap.unit = "W",
           Normalized(cap, Choice(x)) # None
    PROVE  Normalized(cap, Choice(x)) = Choice(x) /\ x \in cap.choices
<1>1. PICK v : v = Choice(x)
  OBVIOUS
<1>2. v.kind = "choice" /\ v.of = x
  BY <1>1 DEF Choice
<1>3. PICK unit : unit = cap.unit
  OBVIOUS
<1>4. unit # "ratio"
  BY <1>3
<1> DEFINE chosen == v.kind = "choice" /\ v.of \in cap.choices
           ratios == unit = "ratio" /\ v.kind = "vector" /\ v.of # <<>>
<1>5. Normalized(cap, v) =
         IF cap.choices # {} \/ unit = "choice" THEN IF chosen THEN v ELSE None
         ELSE IF ratios THEN v ELSE None
  <2>1. CASE cap.choices # {} \/ unit = "choice"
    BY <1>3, <2>1, Zenon DEF Normalized
  <2>2. CASE ~(cap.choices # {} \/ unit = "choice")
    BY <1>3, <2>2, Zenon DEF Normalized
  <2>3. QED
    BY <2>1, <2>2
<1>6. ~ratios
  BY <1>4
<1>7. chosen
  BY <1>1, <1>5, <1>6
<1>8. Normalized(cap, v) = v
  BY <1>1, <1>5, <1>6, <1>7
<1>9. QED
  BY <1>1, <1>2, <1>7, <1>8

\* The most saving preference is the first of those that are listed.
LEMMA MostSavingIs ==
    ASSUME NEW S \in SUBSET (1..4), NEW k \in S
    PROVE  mostSaving(S) \in S /\ mostSaving(S) <= k
<1>1. \E i \in S : \A j \in S : i <= j
  <2>1. CASE 1 \in S
    BY <2>1
  <2>2. CASE 1 \notin S /\ 2 \in S
    BY <2>2
  <2>3. CASE 1 \notin S /\ 2 \notin S /\ 3 \in S
    BY <2>3
  <2>4. CASE 1 \notin S /\ 2 \notin S /\ 3 \notin S
    BY <2>4
  <2>5. QED
    BY <2>1, <2>2, <2>3, <2>4
<1>2. PICK m : m = mostSaving(S)
  OBVIOUS
<1>3. m \in S /\ \A j \in S : m <= j
  BY <1>1, <1>2 DEF mostSaving
<1>4. QED
  BY <1>2, <1>3

\* The number at which a control stood when the cases were made.
StockNumber(c) == Number(c, smoke.stock[c])

\* What discovery says of a limit.
LEMMA LimitIs ==
    ASSUME TypeOK, NEW c \in DOMAIN smoke.stock, c # "epp"
    PROVE  LET cap == Caps(smoke.stock)[c]
           IN  /\ cap.range = [min |-> machine.min[c], max |-> machine.max[c], step |-> 1]
               /\ cap.range # None
               /\ cap.current.of = StockNumber(c)
               /\ Offered(c) => cap.state = "supported"
<1>1. PICK cap : cap = Caps(smoke.stock)[c]
  OBVIOUS
<1>2. cap = Capability(c, IF c \in machine.offered THEN "supported" ELSE "read_only", "W",
                       Reported(c, smoke.stock[c]),
                       IF c = "epp" THEN None
                       ELSE [min |-> machine.min[c], max |-> machine.max[c], step |-> 1],
                       IF c = "epp" THEN machine.preferences ELSE {}, "kernel")
  BY <1>1, CapsAre, Zenon
<1>3. /\ cap.range = [min |-> machine.min[c], max |-> machine.max[c], step |-> 1]
      /\ cap.current = Reported(c, smoke.stock[c])
      /\ Offered(c) => cap.state = "supported"
  BY <1>2 DEF Capability, Offered
<1>4. cap.current = Numeric(StockNumber(c))
  BY <1>3, Zenon DEF Reported, StockNumber
<1>5. cap.current.of = StockNumber(c)
  BY <1>4 DEF Numeric
<1>6. c \in Controls
  BY DEF TypeOK, Harnesses, Readable
<1>7. machine.min[c] \in Int /\ machine.max[c] \in Int
  BY <1>6, HarnessAssumption DEF TypeOK
<1>8. [min |-> machine.min[c], max |-> machine.max[c], step |-> 1] \in [min : Int, max : Int, step : Int]
  BY <1>7
<1>9. cap.range # None
  BY <1>3, <1>8, HarnessAssumption
<1>10. QED
  BY <1>1, <1>3, <1>5, <1>9, Zenon

\* What discovery says of the energy preference.
LEMMA PreferenceIs ==
    ASSUME "epp" \in DOMAIN smoke.stock
    PROVE  LET cap == Caps(smoke.stock)["epp"]
           IN  /\ cap.range = None /\ cap.unit = "W" /\ cap.choices = machine.preferences
               /\ Offered("epp") => cap.state = "supported"
<1>1. PICK cap : cap = Caps(smoke.stock)["epp"]
  OBVIOUS
<1>2. cap = Capability("epp", IF "epp" \in machine.offered THEN "supported" ELSE "read_only", "W",
                       Reported("epp", smoke.stock["epp"]), None, machine.preferences, "kernel")
  BY <1>1, CapsAre, Zenon
<1>3. /\ cap.range = None /\ cap.unit = "W" /\ cap.choices = machine.preferences
      /\ Offered("epp") => cap.state = "supported"
  BY <1>2 DEF Capability, Offered
<1>4. QED
  BY <1>1, <1>3, Zenon

LEMMA NumbersAre ==
    ASSUME TypeOK, NEW c \in DOMAIN smoke.stock
    PROVE  c \in Controls /\ StockNumber(c) \in Int /\ machine.base[c] \in Int
           /\ (c # "epp" => machine.min[c] \in Int /\ machine.max[c] \in Int /\ machine.min[c] <= machine.base[c])
<1>1. c \in Controls /\ smoke.stock[c] \in Values
  BY DEF TypeOK, Harnesses, Readable
<1>2. smoke.stock[c] \in Int
  BY <1>1, HarnessAssumption
<1>3. machine.base[c] \in Int /\ machine.min[c] \in Int /\ machine.max[c] \in Int
  BY <1>1, HarnessAssumption DEF TypeOK
<1>4. c # "epp" => machine.min[c] <= machine.base[c]
  BY <1>1, HarnessAssumption DEF TypeOK
<1>5. StockNumber(c) \in Int
  BY <1>2, <1>3 DEF StockNumber, Number
<1>6. QED
  BY <1>1, <1>3, <1>4, <1>5

\* A step below, and not below the minimum.
LEMMA LowerIs ==
    ASSUME TypeOK, NEW c \in DOMAIN smoke.stock, c # "epp"
    PROVE  Lower(c) = Greatest(machine.min[c], StockNumber(c) - 1)
<1>1. PICK cap : cap = Caps(smoke.stock)[c]
  OBVIOUS
<1>2. /\ cap.range = [min |-> machine.min[c], max |-> machine.max[c], step |-> 1]
      /\ cap.current.of = StockNumber(c)
  BY <1>1, LimitIs, Zenon
<1>3. cap.range.min = machine.min[c] /\ cap.range.step = 1
  BY <1>2
<1>4. Lower(c) = lowerNumeric(cap, cap.range.step)
  BY <1>1, Zenon DEF Lower
<1>5. QED
  BY <1>2, <1>3, <1>4 DEF lowerNumeric

\* Nothing is asked of a limit that is above its minimum and above what it is,
\* but of PL2 where PL1 was above it.
LEMMA AskedForIs ==
    ASSUME TypeOK, NEW c \in {"pl1", "pl2", "tcc"}, Offered(c), smoke.stock[c] = 0,
           c = "pl2" => ~(StockNumber("pl1") > StockNumber("pl2"))
    PROVE  \E x \in Int : AskedFor(c) = Numeric(x) /\ x <= machine.base[c]
<1>1. c \in DOMAIN smoke.stock /\ c # "epp"
  BY DEF Offered
<1>2. PICK b, lo \in Int : b = machine.base[c] /\ lo = machine.min[c] /\ lo <= b
  BY <1>1, NumbersAre
<1>3. StockNumber(c) = b
  BY <1>2 DEF StockNumber, Number
<1>4. Lower(c) = Greatest(lo, b - 1)
  BY <1>1, <1>2, <1>3, LowerIs
<1>5. Lower(c) \in Int /\ Lower(c) <= b
  BY <1>2, <1>4 DEF Greatest
<1>6. CASE c = "tcc"
  <2>1. AskedFor(c) = Numeric(Lower(c))
    <3>1. "tcc" # "pl1" /\ "tcc" # "pl2"
      OBVIOUS
    <3>2. QED
      BY <1>6, <3>1, Zenon DEF AskedFor
  <2>2. QED
    BY <1>2, <1>5, <2>1
<1>7. CASE c = "pl1"
  <2>1. AskedFor(c) = Numeric(Lower(c))
    BY <1>7, Zenon DEF AskedFor, LowerPL1
  <2>2. QED
    BY <1>2, <1>5, <2>1
<1>8. CASE c = "pl2"
  <2>1. AskedFor(c) = Numeric(Greatest(Lower(c), LowerPL1))
    <3>1. "pl2" # "pl1"
      OBVIOUS
    <3>2. QED
      BY <1>8, <3>1, Zenon DEF AskedFor
  <2>2. LowerPL1 \in Int /\ LowerPL1 <= b
    <3>1. CASE "pl1" \in DOMAIN smoke.stock
      <4>1. PICK n \in Int : n = StockNumber("pl1")
        BY <3>1, NumbersAre
      <4>2. n <= b
        BY <1>2, <1>3, <1>8, <4>1
      <4>3. CASE Offered("pl1")
        <5>1. Lower("pl1") = Greatest(machine.min["pl1"], n - 1)
          <6>1. "pl1" # "epp"
            OBVIOUS
          <6>2. QED
            BY <3>1, <4>1, <6>1, LowerIs
        <5>2. machine.min["pl1"] = lo
          <6>1. "pl1" \in Controls /\ "pl2" \in Controls
            BY <1>1, <1>8, <3>1, NumbersAre
          <6>2. QED
            BY <1>2, <1>8, <6>1, HarnessAssumption DEF TypeOK
        <5>3. LowerPL1 = Lower("pl1")
          BY <4>3, Zenon DEF LowerPL1
        <5>4. QED
          BY <1>2, <4>1, <4>2, <5>1, <5>2, <5>3 DEF Greatest
      <4>4. CASE ~Offered("pl1")
        <5>1. LowerPL1 = Caps(smoke.stock)["pl1"].current.of
          BY <3>1, <4>4, Zenon DEF LowerPL1
        <5>2. Caps(smoke.stock)["pl1"].current.of = StockNumber("pl1")
          <6>1. "pl1" # "epp"
            OBVIOUS
          <6>2. QED
            BY <3>1, <6>1, LimitIs
        <5>3. QED
          BY <4>1, <4>2, <5>1, <5>2
      <4>5. QED
        BY <4>3, <4>4
    <3>2. CASE "pl1" \notin DOMAIN smoke.stock
      <4>1. ~Offered("pl1")
        BY <3>2 DEF Offered
      <4>2. LowerPL1 = Lower("pl2")
        BY <3>2, <4>1, Zenon DEF LowerPL1
      <4>3. QED
        BY <1>5, <1>8, <4>2
    <3>3. QED
      BY <3>1, <3>2
  <2>3. PICK l \in Int, m \in Int : l = Lower(c) /\ m = LowerPL1 /\ l <= b /\ m <= b
    BY <1>5, <2>2
  <2>4. Greatest(l, m) \in Int /\ Greatest(l, m) <= b
    BY <1>2, <2>3 DEF Greatest
  <2>5. QED
    BY <1>2, <2>1, <2>3, <2>4
<1>9. QED
  BY <1>6, <1>7, <1>8

\* What a case in effect holds.
LEMMA EffectIs ==
    ASSUME Inv, pc[Self] = "active", NEW c \in Ids(Case) \ moved.ever
    PROVE  /\ Offered(c) /\ c \in {"pl1", "pl2", "tcc", "epp"}
           /\ smoke.stock[c] = 0 /\ hw[c] \in Int
           /\ Reviewed(c, AskedFor(c)) # None
           /\ Reported(c, hw[c]) = Reviewed(c, AskedFor(c))
<1>1. smoke.stage \in {"effective", "undo"} /\ TypeOK
  BY DEF Inv, Basics, TypeOK, Harnesses, Placed, InStage, Stages, Engine!InRecovery
<1>2. smoke.case \in DOMAIN Cases /\ CaseReview.ok /\ mem[Self].ops = [i \in DOMAIN Case |-> Case[i].id]
  BY <1>1 DEF Inv, InCase, Exercising
<1>3. PICK case : case = Case
  OBVIOUS
<1>4. Changes(case, {"pl1", "pl2", "tcc", "epp"})
  BY <1>2, <1>3, CaseIs DEF Case
<1>5. PICK i \in DOMAIN case : case[i].id = c
  BY <1>3 DEF Ids
<1>6. /\ Offered(c) /\ c \in {"pl1", "pl2", "tcc", "epp"} /\ case[i].requested = AskedFor(c)
      /\ i \in 1..Len(case) /\ Len(case) \in Nat
  BY <1>4, <1>5 DEF Changes
<1>7. /\ Reviewed(c, AskedFor(c)) # None
      /\ CaseReview.changes[i].requested = Reviewed(c, AskedFor(c))
  <2>1. PICK changes :
           /\ changes = CaseReview.changes
           /\ changes = [j \in DOMAIN case |->
                 [id |-> case[j].id, requested |-> Reviewed(case[j].id, case[j].requested)]]
    BY <1>2, <1>3, ReviewedCase
  <2>2. changes[i] = [id |-> case[i].id, requested |-> Reviewed(case[i].id, case[i].requested)]
    BY <2>1
  <2>3. changes[i].requested = Reviewed(case[i].id, case[i].requested)
    BY <2>2
  <2>4. Reviewed(case[i].id, case[i].requested) # None
    BY <1>2, <1>3, ReviewedCase
  <2>5. QED
    BY <1>5, <1>6, <2>1, <2>3, <2>4
<1>8. PICK ops \in Seq(Controls) : ops = mem[Self].ops
  BY SoundType DEF Inv
<1>9. DOMAIN ops = DOMAIN case /\ ops[i] = c /\ DOMAIN ops = 1..Len(ops) /\ Len(ops) \in Nat
  BY <1>2, <1>3, <1>5, <1>8
<1>10. idx[Self] \in Nat /\ idx[Self] > Len(ops)
  BY <1>8, SoundType DEF Inv, Written
<1>11. i < idx[Self]
  BY <1>9, <1>10
<1>12. AsReviewed(c, i)
  BY <1>8, <1>9, <1>11 DEF Inv, Written
<1>13. Reported(c, hw[c]) = Reviewed(c, AskedFor(c))
  BY <1>7, <1>12 DEF AsReviewed
<1>14. c \in DOMAIN smoke.stock
  BY <1>6 DEF Offered
<1>15. smoke.stock[c] = 0
  BY <1>1, <1>14, HarnessAssumption DEF Inv, Basics, StockIsBoot, Exercising
<1>16. hw[c] \in Int
  BY <1>1, <1>14, NumbersAre, SoundType, HarnessAssumption DEF Inv
<1>17. QED
  BY <1>6, <1>7, <1>13, <1>15, <1>16

\* No case raises a limit or asks for more performance, except that PL2 is
\* lifted to PL1 on a machine whose PL1 was above it.
THEOREM NeverRaisesHolds == Spec => []NeverRaises
<1>1. ASSUME Inv PROVE NeverRaises
  <2>1. SUFFICES ASSUME pc[Self] = "active", NEW c \in Ids(Case) \ moved.ever,
                        c = "pl2" => ~(StockNumber("pl1") > StockNumber("pl2"))
                 PROVE  hw[c] <= smoke.stock[c]
    BY Zenon DEF NeverRaises, StockNumber
  <2>2. /\ TypeOK /\ Offered(c) /\ c \in {"pl1", "pl2", "tcc", "epp"}
        /\ smoke.stock[c] = 0 /\ hw[c] \in Int
        /\ Reviewed(c, AskedFor(c)) # None
        /\ Reported(c, hw[c]) = Reviewed(c, AskedFor(c))
    BY <1>1, <2>1, EffectIs DEF Inv, Basics
  <2>3. c \in DOMAIN smoke.stock
    BY <2>2 DEF Offered
  <2>4. PICK cap : cap = Caps(smoke.stock)[c]
    OBVIOUS
  <2>5. Reviewed(c, AskedFor(c)) = Normalized(cap, AskedFor(c))
    BY <2>4, Zenon DEF Reviewed
  <2>6. PICK b \in Int : b = machine.base[c]
    BY <2>2, <2>3, NumbersAre
  <2>7. PICK h \in Int : h = hw[c]
    BY <2>2
  <2>8. CASE c # "epp"
    <3>1. PICK lo, hi \in Int : lo = machine.min[c] /\ hi = machine.max[c] /\ lo <= b
      BY <2>2, <2>3, <2>6, <2>8, NumbersAre
    <3>2. cap.range = [min |-> lo, max |-> hi, step |-> 1] /\ cap.range # None /\ cap.state = "supported"
      BY <2>2, <2>3, <2>4, <2>8, <3>1, LimitIs, Zenon
    <3>3. PICK x \in Int : AskedFor(c) = Numeric(x) /\ x <= b
      BY <2>1, <2>2, <2>6, <2>8, AskedForIs
    <3>4. PICK y \in Int : Normalized(cap, Numeric(x)) = Numeric(y) /\ y <= Greatest(lo, x)
      BY <2>2, <2>5, <3>2, <3>3, NormalizedNumber
    <3>5. Reported(c, h) = Numeric(b + h)
      BY <2>6, <2>8, Zenon DEF Reported, Number
    <3>6. Numeric(b + h) = Numeric(y)
      BY <2>2, <2>5, <2>7, <3>3, <3>4, <3>5
    <3>7. b + h = y
      BY <3>6 DEF Numeric
    <3>8. y <= b
      BY <3>1, <3>3, <3>4 DEF Greatest
    <3>9. QED
      BY <2>2, <2>7, <3>7, <3>8
  <2>9. CASE c = "epp"
    <3>1. /\ cap.range = None /\ cap.unit = "W" /\ cap.choices = machine.preferences
          /\ cap.state = "supported"
      BY <2>2, <2>3, <2>4, <2>9, PreferenceIs, Zenon
    <3>2. PICK m : m = mostSaving(machine.preferences)
      OBVIOUS
    <3>3. AskedFor(c) = Choice(m)
      <4>1. "epp" # "pl1" /\ "epp" # "pl2" /\ "epp" # "tcc"
        OBVIOUS
      <4>2. QED
        BY <2>9, <3>2, <4>1, Zenon DEF AskedFor
    <3>4. Normalized(cap, Choice(m)) = Choice(m)
      BY <2>2, <2>5, <3>1, <3>3, NormalizedChoice
    <3>5. Reported(c, h) = Choice(b + h)
      BY <2>6, <2>9, Zenon DEF Reported, Number
    <3>6. Choice(b + h) = Choice(m)
      BY <2>2, <2>5, <2>7, <3>3, <3>4, <3>5
    <3>7. b + h = m
      BY <3>6 DEF Choice
    <3>8. "epp" \in Controls
      BY <2>2, <2>3, <2>9, NumbersAre
    <3>9. machine.preferences \in SUBSET (1..4) /\ b \in machine.preferences
      BY <2>2, <2>6, <2>9, <3>8, HarnessAssumption DEF TypeOK
    <3>10. m \in machine.preferences /\ m <= b
      BY <3>2, <3>9, MostSavingIs
    <3>11. QED
      BY <2>2, <2>7, <3>7, <3>10
  <2>10. QED
    BY <2>8, <2>9
<1>2. QED
  BY <1>1, InvHolds, PTL

=============================================================================
