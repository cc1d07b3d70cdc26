---------------------------- MODULE TuneViewModel ----------------------------
(***************************************************************************)
(* internal/ui/viewmodel/tune.go, with the page that drives it and the     *)
(* service it drives.  A confirmed review and every click on Revert run in *)
(* goroutines of their own; discovery and the service's event stream are   *)
(* consumed by two more, and the window closes in another.  They all write *)
(* one state under viewModel.mu, and none waits for the others.            *)
(*                                                                         *)
(* The service is DesktopTuneService, composed step by step: this module   *)
(* adds what its operations return and publish.                            *)
(*                                                                         *)
(* Abstractions.  The pending list is empty or not; a capability set is    *)
(* its generation; review rows, values, labels and error texts are left    *)
(* out.  A discovery of an earlier activation is left out: its context is  *)
(* cancelled and its token differs, so it writes nothing.  A goroutine's   *)
(* first write of the phase and its try for the service's lock are one     *)
(* step.  The user is slower than the program's bookkeeping (Prompt), so a *)
(* button is only used in the state that is shown.                         *)
(*                                                                         *)
(* Op_Something is a faulty variant of Op, as in TuningEngine.             *)
(***************************************************************************)
EXTENDS Naturals, Sequences

CONSTANTS
    Clients, NoClient, MaxEvents,   \* see DesktopTuneService
    Slots,      \* goroutines of Apply and Revert at one time (bound)
    MaxStream,  \* events the consumer may lag behind; the real buffer has 32
    ValidIn     \* generations for which ValidateChangeSet accepts the pending list

\* What discovery publishes first, what it completes with, and what the helper
\* probes: the processor's registers are only readable by the helper, so the
\* last is never one of the others.
Generations == {"partial", "full", "privileged"}

ASSUME ViewAssumption ==
    /\ NoClient \notin Clients /\ MaxEvents \in Nat
    /\ MaxStream \in Nat /\ ValidIn \subseteq Generations

VARIABLES
    tuned, sess, client, closed, recoveryNeeded, op, cancelled, closer,
    privileged,     \* service.privileged is known
    stream,         \* service.eventStream
    phase, active, sessionActive, pending, pendingValid, caps,  \* TuneState
    discovery,      \* what the discovery of this activation has still to deliver
    calls,          \* the goroutines of Apply and Revert
    dialog,         \* the review dialog is open: it is modal
    closing         \* where Close of the view model is; "closed": the window is gone

Service == INSTANCE DesktopTuneService

sessionVars == <<tuned, sess, client, closed, recoveryNeeded, op, cancelled, closer>>
serviceVars == <<sessionVars, privileged, stream>>
stateVars == <<phase, sessionActive, pending, pendingValid, caps>>
pageVars == <<active, discovery, dialog, closing>>
viewVars == <<serviceVars, stateVars, pageVars, calls>>

Busy == {"authorizing", "applying", "rolling_back"}
Phases == Busy \cup {"idle", "discovering", "staged", "reviewing", "active", "failed",
                     "rollback_incomplete"}
NoCall == [kind |-> "none", at |-> "none", generation |-> "none", result |-> "none"]

\* page.render: what can be edited, and the buttons Review, and Revert or Retry.
locked == sessionActive \/ phase \in Busy
canReview == phase = "staged" /\ pendingValid /\ ~sessionActive /\ pending
canRevert == sessionActive \/ phase = "rollback_incomplete"

ViewInit ==
    /\ Service!Init
    /\ privileged = FALSE /\ stream = <<>>
    /\ phase = "idle" /\ sessionActive = FALSE
    /\ pending = FALSE /\ pendingValid = FALSE /\ caps = "none"
    /\ active = FALSE /\ discovery = "none" /\ dialog = FALSE /\ closing = "none"
    /\ calls = [s \in Slots |-> NoCall]

\* validatePendingLocked.
Validate(set, change) == change /\ set \in ValidIn

-----------------------------------------------------------------------------
(* The page.                                                               *)

\* The user is slow: what has returned or was published is written, and
\* rendered, before the next click.
Prompt ==
    /\ stream = <<>>
    /\ \A s \in Slots : calls[s].at \notin {"returned", "cleared"}
    /\ closing \notin {"failed", "closed"}

UserActs(enabled) == active /\ ~dialog /\ Prompt /\ enabled

\* A service with a session answers with the capabilities of its helper.
Activate ==
    /\ ~active /\ Prompt
    /\ active' = TRUE
    /\ phase' = IF sessionActive \/ phase = "rollback_incomplete" THEN phase ELSE "discovering"
    /\ discovery' = IF privileged THEN "privileged" ELSE "running"
    /\ UNCHANGED <<serviceVars, sessionActive, pending, pendingValid, caps, dialog, closing, calls>>

Deactivate ==
    /\ UserActs(TRUE)
    /\ active' = FALSE
    /\ phase' = IF phase = "discovering" THEN "idle" ELSE phase
    /\ discovery' = "none"
    /\ UNCHANGED <<serviceVars, sessionActive, pending, pendingValid, caps, dialog, closing, calls>>

\* A locked page has no editors; the view model refuses in the same states.
Stage ==
    /\ UserActs(caps # "none" /\ ~locked)
    /\ pending' = TRUE
    /\ pendingValid' = Validate(caps, TRUE)
    /\ phase' = "staged"
    /\ UNCHANGED <<serviceVars, pageVars, calls, sessionActive, caps>>

\* Reset is always enabled, and refused only by a session.
Reset ==
    /\ UserActs(TRUE)
    /\ ~sessionActive /\ phase # "rollback_incomplete"
    /\ pending' = FALSE /\ pendingValid' = FALSE
    /\ phase' = IF phase = "active" THEN phase ELSE "idle"
    /\ UNCHANGED <<serviceVars, pageVars, calls, sessionActive, caps>>

\* An empty set is valid.  No other guard than the validation.
Review ==
    /\ UserActs(canReview)
    /\ Validate(caps, pending)
    /\ pendingValid' = TRUE
    /\ phase' = "reviewing"
    /\ dialog' = TRUE
    /\ UNCHANGED <<serviceVars, calls, sessionActive, pending, caps, active, discovery, closing>>

CancelReview ==
    /\ dialog /\ Prompt
    /\ dialog' = FALSE
    /\ IF phase = "reviewing" /\ ~sessionActive
       THEN phase' = IF pending THEN "staged" ELSE "idle"
       ELSE UNCHANGED phase
    /\ UNCHANGED <<serviceVars, calls, sessionActive, pending, pendingValid, caps,
                   active, discovery, closing>>

Called(s, kind, result) ==
    /\ calls[s] = NoCall
    /\ calls' = [calls EXCEPT ![s] = [kind |-> kind, generation |-> caps, result |-> result,
                                     at |-> IF result = "none" THEN "service" ELSE "returned"]]

\* The service's operations exclude each other: a second one is refused.
CallApply(s) ==
    \/ /\ Service!StartApply
       /\ Called(s, "apply", "none")
       /\ UNCHANGED <<privileged, stream>>
    \/ /\ op.at # "none" \/ closed
       /\ Called(s, "apply", "failed")
       /\ UNCHANGED serviceVars

\* Without a session Revert returns at once, unless a recovery is due.
CallRevert(s) ==
    \/ /\ Service!StartRevert
       /\ Called(s, "revert", "none")
       /\ UNCHANGED <<privileged, stream>>
    \/ /\ op.at # "none" \/ closed
       /\ Called(s, "revert", "failed")
       /\ UNCHANGED serviceVars
    \/ /\ op.at = "none" /\ ~closed /\ client = NoClient /\ ~recoveryNeeded
       /\ Called(s, "revert", "ok")
       /\ UNCHANGED serviceVars

\* "Authenticate & apply": a goroutine of its own.  The state may have changed
\* under the open dialog; a refusal changes nothing and is not reported.
Confirm(s) ==
    /\ dialog /\ Prompt
    /\ dialog' = FALSE
    /\ IF phase = "reviewing" /\ pendingValid /\ ~sessionActive
       THEN /\ phase' = "authorizing"
            /\ CallApply(s)
       ELSE UNCHANGED <<phase, calls, serviceVars>>
    /\ UNCHANGED <<sessionActive, pending, pendingValid, caps, active, discovery, closing>>

\* "Revert active session" and "Retry rollback".
ClickRevert(s) ==
    /\ UserActs(canRevert)
    /\ phase' = "rolling_back"
    /\ CallRevert(s)
    /\ UNCHANGED <<pageVars, sessionActive, pending, pendingValid, caps>>

-----------------------------------------------------------------------------
(* Apply and Revert.                                                       *)

At(s, kind, at) == calls[s].kind = kind /\ calls[s].at = at

Returned(s, result) == calls' = [calls EXCEPT ![s].at = "returned", ![s].result = result]

\* What the service publishes when an operation ends in a given way.
Published(how) ==
    CASE how = "applied" -> <<"transaction_applied">>
      [] how = "review_changed" -> <<"review_changed">>
      [] how = "rollback_incomplete" /\ op.at = "apply" -> <<"rollback_incomplete">>
      [] how = "lost" -> <<"session_terminated">>
      [] OTHER -> <<>>

\* What it returns.  A dial fails with a cancelled authorization, with an
\* incomplete recovery, which the service notes, or with another error.
Results(how) ==
    CASE Published(how) # <<>> \/ how = "reverted" -> {"ok"}
      [] op.at = "dial" -> IF recoveryNeeded' /\ ~recoveryNeeded
                           THEN {"incomplete"}
                           ELSE {"cancelled", "failed"} \cup
                                (IF recoveryNeeded THEN {"incomplete"} ELSE {})
      [] OTHER -> {"failed"}

\* One step of the operation.  Apply goes on only with the generation the helper
\* probed; the helper may find another at any time.
Serve(s) ==
    /\ calls[s].at = "service"
    /\ \/ Service!DialApply \/ Service!Install \/ Service!CallApply
       \/ Service!Applied \/ Service!Discard
       \/ Service!CallRevert \/ Service!Recover \/ Service!Recovered
    /\ op.at = "install" => (op'.at = "apply") = (calls[s].generation = "privileged")
    /\ op.at = "apply" /\ calls[s].generation # "privileged" =>
          op'.last \in {"review_changed", "lost"}
    /\ privileged' = (privileged \/ op.at = "install" \/ Published(op'.last) = <<"review_changed">>)
    /\ IF op'.at = "none"
       THEN /\ stream' = stream \o Published(op'.last)
            /\ \E r \in Results(op'.last) : Returned(s, r)
       ELSE UNCHANGED <<stream, calls>>
    /\ Len(stream') <= MaxStream
    /\ UNCHANGED <<stateVars, pageVars>>

EndApply_Unconditionally(s) ==
    /\ At(s, "apply", "returned")
    /\ LET result == calls[s].result IN
       /\ phase' = CASE result = "ok" -> "applying"
                     [] result = "incomplete" -> "rollback_incomplete"
                     [] result = "cancelled" -> "staged"
                     [] OTHER -> "failed"
       /\ sessionActive' = (sessionActive \/ result = "incomplete")
    /\ calls' = [calls EXCEPT ![s] = NoCall]
    /\ UNCHANGED <<serviceVars, pageVars, pending, pendingValid, caps>>

\* The events may have been consumed before Apply returns.
EndApply(s) ==
    /\ At(s, "apply", "returned")
    /\ LET result == calls[s].result IN
       /\ phase' = CASE result = "ok" -> IF phase = "authorizing" THEN "applying" ELSE phase
                     [] result = "incomplete" -> "rollback_incomplete"
                     [] result = "cancelled" -> "staged"
                     [] OTHER -> "failed"
       /\ sessionActive' = (sessionActive \/ result = "incomplete")
    /\ calls' = [calls EXCEPT ![s] = NoCall]
    /\ UNCHANGED <<serviceVars, pageVars, pending, pendingValid, caps>>

EndRevert_ForgetsFailure(s) ==
    /\ At(s, "revert", "returned")
    /\ calls' = [calls EXCEPT ![s].at = "cleared"]
    /\ sessionActive' = FALSE
    /\ pending' = FALSE /\ pendingValid' = FALSE
    /\ UNCHANGED <<serviceVars, pageVars, phase, caps>>

\* The state is cleared under one lock, the phase under another.
EndRevert(s) ==
    /\ At(s, "revert", "returned")
    /\ IF calls[s].result = "ok"
       THEN /\ calls' = [calls EXCEPT ![s].at = "cleared"]
            /\ sessionActive' = FALSE
            /\ pending' = FALSE /\ pendingValid' = FALSE
            /\ UNCHANGED phase
       ELSE /\ calls' = [calls EXCEPT ![s] = NoCall]
            /\ phase' = "rollback_incomplete"
            /\ sessionActive' = TRUE
            /\ UNCHANGED <<pending, pendingValid>>
    /\ UNCHANGED <<serviceVars, pageVars, caps>>

Cleared(s) ==
    /\ At(s, "revert", "cleared")
    /\ calls' = [calls EXCEPT ![s] = NoCall]
    /\ phase' = "idle"
    /\ UNCHANGED <<serviceVars, pageVars, sessionActive, pending, pendingValid, caps>>

Incomplete ==
    /\ phase' = "rollback_incomplete" /\ sessionActive' = TRUE
    /\ UNCHANGED <<pending, pendingValid>>

\* Bound: a window that could not be closed is not closed again.
OneClose == closer.result = "none"

\* Close, in a goroutine of the window.
ClickClose ==
    /\ ~dialog /\ Prompt
    /\ closing = "none" /\ OneClose
    /\ closing' = "service"
    /\ Service!StartClose
    /\ UNCHANGED <<privileged, stream, stateVars, active, discovery, dialog, calls>>

CloseService ==
    /\ closing = "service"
    /\ Service!Closing
    /\ closing' = IF closer'.at # "none" THEN closing
                  ELSE IF closer'.result = "ok" THEN "closed" ELSE "failed"
    /\ UNCHANGED <<privileged, stream, stateVars, active, discovery, dialog, calls>>

\* A failure is shown as an incomplete rollback and the window stays.
EndClose ==
    /\ closing = "failed"
    /\ closing' = "none"
    /\ Incomplete
    /\ UNCHANGED <<serviceVars, caps, active, discovery, dialog, calls>>

-----------------------------------------------------------------------------
(* The consumers.                                                          *)

\* consumeDiscovery: partial results, then the complete one.  The phase is only
\* protected from it by a session and an incomplete rollback.
Discovered(set, complete) ==
    /\ \/ discovery = "running" /\ set = IF complete THEN "full" ELSE "partial"
       \/ discovery = "privileged" /\ set = "privileged" /\ complete
    /\ caps' = set
    /\ discovery' = IF complete THEN "none" ELSE discovery
    /\ pendingValid' = IF pending /\ phase # "rollback_incomplete"
                       THEN Validate(set, pending) ELSE pendingValid
    /\ phase' = IF complete /\ ~sessionActive /\ phase # "rollback_incomplete"
                THEN IF pending THEN "staged" ELSE "idle"
                ELSE phase
    /\ UNCHANGED <<serviceVars, calls, sessionActive, pending, active, dialog, closing>>

\* The state without a session.
Clear ==
    /\ phase' = "idle" /\ sessionActive' = FALSE
    /\ pending' = FALSE /\ pendingValid' = FALSE

\* consumeEvents.
Consume ==
    /\ stream # <<>>
    /\ stream' = Tail(stream)
    /\ LET kind == Head(stream) IN
       /\ caps' = IF kind = "review_changed" THEN "privileged" ELSE caps
       /\ CASE kind = "review_changed" ->
                 /\ phase' = "staged"
                 /\ pendingValid' = Validate(caps', pending)
                 /\ UNCHANGED <<sessionActive, pending>>
            [] kind = "transaction_applied" ->
                 /\ phase' = "active" /\ sessionActive' = TRUE
                 /\ UNCHANGED <<pending, pendingValid>>
            [] kind \in {"rollback_incomplete", "session_terminated"} -> Incomplete
            [] kind = "rollback_complete" \/ (kind = "session_closed" /\ sessionActive) -> Clear
            [] OTHER -> UNCHANGED <<phase, sessionActive, pending, pendingValid>>
    /\ UNCHANGED <<sessionVars, privileged, pageVars, calls>>

-----------------------------------------------------------------------------
(* The session, and the service's watcher, which publishes its events.     *)

Watch(c) ==
    /\ Service!Watch(c)
    /\ stream' = IF client = c THEN Append(stream, Head(sess[c].events)) ELSE stream
    /\ Len(stream') <= MaxStream
    /\ privileged' = (privileged /\ client' = client)
    /\ UNCHANGED <<stateVars, pageVars, calls>>

Helper(c) ==
    /\ Service!HelperEnds(c) \/ Service!LeaseExpires(c)
    /\ UNCHANGED <<privileged, stream, stateVars, pageVars, calls>>

User == \/ Activate \/ Deactivate \/ Stage \/ Reset \/ Review \/ CancelReview
        \/ \E s \in Slots : Confirm(s) \/ ClickRevert(s)
        \/ ClickClose

Goroutine(s) == Serve(s) \/ EndApply(s) \/ EndRevert(s) \/ Cleared(s)

ViewNext ==
    \/ User \/ CloseService \/ EndClose \/ Consume
    \/ \E set \in Generations, complete \in BOOLEAN : Discovered(set, complete)
    \/ \E s \in Slots : Goroutine(s)
    \/ \E c \in Clients : Watch(c) \/ Helper(c)

ViewSpec == ViewInit /\ [][ViewNext]_viewVars

-----------------------------------------------------------------------------
(* Properties.                                                             *)

\* Nothing is under way that will still write the state.
AtRest ==
    /\ closing = "none"
    /\ discovery = "none"
    /\ \A s \in Slots : calls[s] = NoCall
    /\ stream = <<>>
    /\ \A c \in Clients : sess[c].events = <<>>

\* When everything has settled, hardware that may be off stock is shown as a
\* session, whose Revert is enabled: in whatever order results and events
\* arrived, no tuned machine is left shown as untouched.
TunedIsShown == AtRest /\ tuned => sessionActive

\* When everything has settled no phase is left that waits for something: an
\* event consumed before the call that caused it returned is not overwritten.
PhaseSettles == AtRest => phase \notin Busy \cup {"discovering"}

=============================================================================
