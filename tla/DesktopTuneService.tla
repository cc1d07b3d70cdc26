-------------------------- MODULE DesktopTuneService --------------------------
(***************************************************************************)
(* internal/ui/tune_service.go: the desktop's owner of tuning sessions.    *)
(* An operation (Apply or Revert, one at a time), the closing of the       *)
(* window, and one watcher goroutine per session share the service's       *)
(* fields; each step below is what one of them does between two releases   *)
(* of service.mu, or one call of a session's client.                       *)
(*                                                                         *)
(* Abstractions.  A session, its client and its helper are reduced to what *)
(* PrivilegedSession shows of them: the outcomes of Client.Apply, Revert   *)
(* and Close, the events of the client, and the helper's own endings.  The *)
(* client reads what the helper sends at once.  A context may be cancelled *)
(* or expire at any step that waits.                                       *)
(*                                                                         *)
(* Op_Something is a faulty variant of Op, as in TuningEngine.             *)
(***************************************************************************)
EXTENDS Naturals, Sequences

CONSTANTS
    Clients,    \* sessions that may be dialled (bound)
    NoClient,   \* nil
    MaxEvents   \* events of a session the watcher may lag behind (bound)

ASSUME ServiceAssumption == NoClient \notin Clients /\ MaxEvents \in Nat

VARIABLES
    tuned,          \* a control may be off stock
    sess,           \* the clients and their helpers
    client,         \* service.client
    closed,         \* service.closed
    recoveryNeeded, \* service.recoveryNeeded
    op,             \* the operation that holds applyMu
    cancelled,      \* its operationContext is cancelled
    closer          \* Close, serialised by its callers

service == <<client, closed, recoveryNeeded>>
vars == <<tuned, sess, client, closed, recoveryNeeded, op, cancelled, closer>>

Helpers == {"none", "idle", "tuned", "stuck", "ended"}
Alive == {"idle", "tuned", "stuck"}
Events == {"rollback_complete", "rollback_incomplete", "session_closed", "session_terminated"}

\* helper: the helper process; "stuck" after a rollback that failed.  input: its
\* stdin is open.  dead, tx, last: Client.dead, transactionID # "", lastRollback.
\* result: closed and closeResult.  events: sent and not yet seen by the watcher.
Undialled == [helper |-> "none", input |-> TRUE, dead |-> FALSE, tx |-> FALSE,
              last |-> "", result |-> "open", events |-> <<>>]

Init ==
    /\ tuned = FALSE
    /\ sess = [c \in Clients |-> Undialled]
    /\ client = NoClient /\ closed = FALSE /\ recoveryNeeded = FALSE
    /\ op = [at |-> "none", on |-> NoClient, last |-> "none"]
    /\ cancelled = FALSE
    /\ closer = [at |-> "none", on |-> NoClient, result |-> "none"]

-----------------------------------------------------------------------------
(* A session.                                                              *)

Becomes(c, r, t) ==
    /\ sess' = [sess EXCEPT ![c] = r]
    /\ tuned' = t

\* failPending: the terminal event.
Die(r) == IF r.dead THEN r
          ELSE [r EXCEPT !.dead = TRUE, !.tx = FALSE,
                         !.events = Append(@, IF r.last = "complete" THEN "session_closed"
                                              ELSE "session_terminated")]

\* A cancelled request closes the helper's input.
Abandon(r) == Die([r EXCEPT !.input = FALSE])

\* The helper ends: end of input, a signal (both after a rollback, which may
\* fail) or a kill.
HelperEnds(c) ==
    /\ sess[c].helper \in Alive
    /\ \E t \in {tuned, FALSE} : Becomes(c, Die([sess[c] EXCEPT !.helper = "ended"]), t)
    /\ UNCHANGED <<service, op, cancelled, closer>>

\* A live client is told of a rollback it did not ask for.
Told(c, kind, event) ==
    IF sess[c].dead THEN sess[c]
    ELSE [sess[c] EXCEPT !.last = kind, !.events = Append(@, event)]

\* The lease expires: a completed rollback ends the session, a failed one does not.
LeaseExpires(c) ==
    /\ sess[c].helper = "tuned"
    /\ Len(sess[c].events) < MaxEvents
    /\ \/ Becomes(c, Die([Told(c, "complete", "rollback_complete") EXCEPT !.helper = "ended", !.tx = FALSE]), FALSE)
       \/ Becomes(c, [Told(c, "incomplete", "rollback_incomplete") EXCEPT !.helper = "stuck"], tuned)
    /\ UNCHANGED <<service, op, cancelled, closer>>

\* Client.Apply on a live session, and what it returns.
ClientApply(c, outcome) ==
    LET r == [sess[c] EXCEPT !.last = ""] IN
    /\ ~r.dead
    /\ \/ /\ outcome = "applied" /\ r.helper = "idle"
          /\ Becomes(c, [r EXCEPT !.helper = "tuned", !.tx = TRUE], TRUE)
       \/ /\ outcome = "review_changed" /\ r.helper = "idle"
          /\ Becomes(c, [r EXCEPT !.last = "complete"], tuned)
       \/ /\ outcome = "rollback_incomplete" /\ r.helper = "idle"
          /\ Becomes(c, [r EXCEPT !.helper = "stuck", !.last = "incomplete"], TRUE)
       \/ /\ outcome = "failed" /\ r.helper = "idle"
          /\ Becomes(c, r, tuned)
       \/ \* a second Begin: the helper restores and ends
          /\ outcome = "failed" /\ r.helper \in {"tuned", "stuck"}
          /\ Becomes(c, Die([r EXCEPT !.helper = "ended", !.last = "complete"]), FALSE)
       \/ /\ outcome = "rollback_incomplete" /\ r.helper \in {"tuned", "stuck"}
          /\ Becomes(c, Die([r EXCEPT !.helper = "ended", !.last = "incomplete"]), tuned)
       \/ \* cancelled, before or after the helper applied
          /\ outcome = "lost"
          /\ \/ Becomes(c, Abandon(r), tuned)
             \/ r.helper = "idle" /\ Becomes(c, Abandon([r EXCEPT !.helper = "tuned"]), TRUE)

ClientRevert_DeadIsDone(c, ok) ==
    LET r == sess[c] IN
    \/ /\ r.dead \/ ~r.tx
       /\ ok
       /\ UNCHANGED <<sess, tuned>>
    \/ /\ ~r.dead /\ r.tx
       /\ \/ ok /\ Becomes(c, [r EXCEPT !.helper = "idle", !.tx = FALSE, !.last = "complete"], FALSE)
          \/ ~ok /\ Becomes(c, [r EXCEPT !.helper = "stuck", !.last = "incomplete"], tuned)
          \/ ~ok /\ Becomes(c, Abandon(r), tuned)

\* Client.Revert; ok: it returns nil.
ClientRevert(c, ok) ==
    LET r == sess[c] IN
    \/ /\ r.dead
       /\ ok = (r.last = "complete")
       /\ UNCHANGED <<sess, tuned>>
    \/ /\ ~r.dead /\ ~r.tx /\ r.last # "incomplete"
       /\ ok
       /\ UNCHANGED <<sess, tuned>>
    \/ /\ ~r.dead /\ (r.tx \/ r.last = "incomplete")
       /\ \/ ok /\ Becomes(c, [r EXCEPT !.helper = "idle", !.tx = FALSE, !.last = "complete"], FALSE)
          \/ ~ok /\ Becomes(c, [r EXCEPT !.helper = "stuck", !.last = "incomplete"], tuned)
          \/ ~ok /\ Becomes(c, Abandon(r), tuned)

\* Client.Close; ok: it returns nil.  An incomplete rollback leaves the client
\* open for another attempt, any other failure is final.
ClientClose(c, ok) ==
    LET r == sess[c] IN
    \/ /\ r.result # "open"
       /\ ok = (r.result = "ok")
       /\ UNCHANGED <<sess, tuned>>
    \/ /\ r.result = "open" /\ ok
       /\ ~r.dead
       /\ Becomes(c, Die([r EXCEPT !.helper = "ended", !.input = FALSE, !.result = "ok",
                                   !.last = "complete"]), FALSE)
    \/ /\ r.result = "open" /\ ~ok
       /\ ~r.dead /\ (r.tx \/ r.last = "incomplete")
       /\ Becomes(c, [r EXCEPT !.helper = "stuck", !.last = "incomplete"], tuned)
    \/ /\ r.result = "open" /\ ~ok
       /\ Becomes(c, [Abandon(r) EXCEPT !.result = "failed"], tuned)

\* Dial starts a helper, which needs the session lock, and probes: recovery
\* restores what an earlier helper left.
Dial(c) ==
    /\ sess[c].helper = "none"
    /\ \A d \in Clients : sess[d].helper \notin Alive
    /\ Becomes(c, [Undialled EXCEPT !.helper = "idle", !.last = "complete"], FALSE)

-----------------------------------------------------------------------------
(* Apply and Revert.                                                       *)

Go(at, c) == op' = [op EXCEPT !.at = at, !.on = c]

\* The deferred function: applyDone is closed, applyMu released.
Finish(how) ==
    /\ op' = [at |-> "none", on |-> NoClient, last |-> how]
    /\ cancelled' = FALSE

StartApply ==
    /\ op.at = "none"
    /\ ~closed
    /\ Go(IF client = NoClient THEN "dial" ELSE "apply", client)
    /\ UNCHANGED <<tuned, sess, service, cancelled, closer>>

\* Authorization, handshake and probe.  A failure that names an incomplete
\* restoration is remembered.
DialApply ==
    /\ op.at = "dial"
    /\ \/ /\ ~cancelled
          /\ \E c \in Clients : Dial(c) /\ Go("install", c)
          /\ UNCHANGED <<recoveryNeeded, cancelled>>
       \/ /\ Finish("error")
          /\ recoveryNeeded' \in {recoveryNeeded, TRUE}
          /\ UNCHANGED <<tuned, sess>>
    /\ UNCHANGED <<client, closed, closer>>

\* A service closed meanwhile closes the new session instead; a changed review
\* keeps it and returns.
Install ==
    /\ op.at = "install"
    /\ \/ /\ closed
          /\ Go("discard", op.on)
          /\ UNCHANGED <<client, cancelled>>
       \/ /\ ~closed
          /\ client' = op.on
          /\ Go("apply", op.on)
          /\ UNCHANGED cancelled
       \/ /\ ~closed
          /\ client' = op.on
          /\ Finish("review_changed")
    /\ UNCHANGED <<tuned, sess, closed, recoveryNeeded, closer>>

CallApply ==
    /\ op.at = "apply"
    /\ \/ /\ ClientApply(op.on, "applied")
          /\ Go("applied", op.on)
          /\ UNCHANGED cancelled
       \/ \E outcome \in {"review_changed", "rollback_incomplete", "failed", "lost"} :
             ClientApply(op.on, outcome) /\ Finish(outcome)
       \/ /\ sess[op.on].dead
          /\ Finish("lost")
          /\ UNCHANGED <<tuned, sess>>
    /\ UNCHANGED <<service, closer>>

\* The transaction is published, unless the service was closed or the watcher
\* dropped the session while Apply ran.
Applied ==
    /\ op.at = "applied"
    /\ \/ /\ closed
          /\ client' = IF client = op.on THEN NoClient ELSE client
          /\ Go("discard", op.on)
          /\ UNCHANGED cancelled
       \/ /\ ~closed
          /\ Finish(IF client = op.on THEN "applied" ELSE "lost")
          /\ UNCHANGED client
    /\ UNCHANGED <<tuned, sess, closed, recoveryNeeded, closer>>

\* closeTuneSession: the result is ignored.
Discard ==
    /\ op.at = "discard"
    /\ \E ok \in BOOLEAN :
         /\ ClientClose(op.on, ok)
         /\ Finish(IF ok THEN "closed" ELSE "discarded")
    /\ UNCHANGED <<service, closer>>

\* Without a session there is nothing to revert, unless a recovery is due: then
\* a new helper is dialled for it.
StartRevert ==
    /\ op.at = "none"
    /\ ~closed
    /\ \/ client # NoClient /\ Go("revert", client)
       \/ client = NoClient /\ recoveryNeeded /\ Go("recover", NoClient)
    /\ UNCHANGED <<tuned, sess, service, cancelled, closer>>

CallRevert ==
    /\ op.at = "revert"
    /\ \E ok \in BOOLEAN :
         /\ ClientRevert(op.on, ok)
         /\ Finish(IF ok THEN "reverted" ELSE "rollback_incomplete")
    /\ UNCHANGED <<service, closer>>

\* Dial a helper for its recovery.
Recover ==
    /\ op.at = "recover"
    /\ \/ /\ ~cancelled
          /\ \E c \in Clients : Dial(c) /\ Go("recovered", c)
          /\ UNCHANGED cancelled
       \/ /\ Finish("error")
          /\ UNCHANGED <<tuned, sess>>
    /\ UNCHANGED <<service, closer>>

Recovered ==
    /\ op.at = "recovered"
    /\ \E ok \in BOOLEAN :
         /\ ClientClose(op.on, ok)
         /\ recoveryNeeded' = (recoveryNeeded /\ ~ok)
         /\ Finish(IF ok THEN "reverted" ELSE "error")
    /\ UNCHANGED <<client, closed, closer>>

-----------------------------------------------------------------------------
(* Close.                                                                  *)

StartClose ==
    /\ closer.at = "none"
    /\ closer.result # "ok"
    /\ closed' = TRUE
    /\ cancelled' = (op.at # "none")
    /\ closer' = [closer EXCEPT !.at = IF op.at = "none" THEN "look" ELSE "join"]
    /\ UNCHANGED <<tuned, sess, client, recoveryNeeded, op>>

CloseReturns(ok) ==
    closer' = [at |-> "none", on |-> NoClient, result |-> IF ok THEN "ok" ELSE "failed"]

\* Wait for the operation, or for the deadline (three seconds).  The operation
\* may end and another cannot start, because the service is closed.
Join ==
    /\ closer.at = "join"
    /\ \/ op.at = "none" /\ closer' = [closer EXCEPT !.at = "look"]
       \/ op.at # "none" /\ CloseReturns(FALSE)
    /\ UNCHANGED <<tuned, sess, service, op, cancelled>>

Look_IgnoresRecovery ==
    /\ closer.at = "look"
    /\ \/ /\ client # NoClient
          /\ closer' = [closer EXCEPT !.at = "close", !.on = client]
       \/ /\ client = NoClient
          /\ CloseReturns(TRUE)
    /\ UNCHANGED <<tuned, sess, service, op, cancelled>>

Look ==
    /\ closer.at = "look"
    /\ \/ /\ client # NoClient
          /\ closer' = [closer EXCEPT !.at = "close", !.on = client]
          /\ UNCHANGED closed
       \/ /\ client = NoClient
          /\ CloseReturns(~recoveryNeeded)
          /\ closed' = ~recoveryNeeded
    /\ UNCHANGED <<tuned, sess, client, recoveryNeeded, op, cancelled>>

CallClose ==
    /\ closer.at = "close"
    /\ \E ok \in BOOLEAN :
         /\ ClientClose(closer.on, ok)
         /\ closer' = [closer EXCEPT !.at = IF ok THEN "closed" ELSE "unclosed"]
    /\ UNCHANGED <<service, op, cancelled>>

\* The result under the lock: a session that could not be closed is kept.
EndClose ==
    /\ \/ /\ closer.at = "closed"
          /\ client' = NoClient
          /\ CloseReturns(TRUE)
          /\ UNCHANGED closed
       \/ /\ closer.at = "unclosed"
          /\ closed' = FALSE
          /\ CloseReturns(FALSE)
          /\ UNCHANGED client
    /\ UNCHANGED <<tuned, sess, recoveryNeeded, op, cancelled>>

-----------------------------------------------------------------------------
(* watchSession.                                                           *)

Watch_AnyClient(c) ==
    /\ sess[c].events # <<>>
    /\ LET kind == Head(sess[c].events)
           terminal == kind \in {"session_closed", "session_terminated"}
       IN
       /\ client' = IF terminal THEN NoClient ELSE client
       /\ recoveryNeeded' = (kind \notin {"session_closed", "rollback_complete"})
       /\ sess' = [sess EXCEPT ![c].events = Tail(@)]
    /\ UNCHANGED <<tuned, closed, op, cancelled, closer>>

\* The events of the current session decide whether a recovery is due; a
\* terminal one drops the session (and closes it, which changes nothing more).
Watch(c) ==
    /\ sess[c].events # <<>>
    /\ LET kind == Head(sess[c].events)
           terminal == kind \in {"session_closed", "session_terminated"}
       IN
       /\ client' = IF client = c /\ terminal THEN NoClient ELSE client
       /\ recoveryNeeded' = IF client = c THEN kind \notin {"session_closed", "rollback_complete"}
                            ELSE recoveryNeeded
       /\ sess' = [sess EXCEPT ![c].events = Tail(@),
                               ![c].result = IF client = c /\ terminal /\ @ = "open"
                                             THEN "failed" ELSE @]
    /\ UNCHANGED <<tuned, closed, op, cancelled, closer>>

Operation == \/ StartApply \/ DialApply \/ Install \/ CallApply \/ Applied \/ Discard
             \/ StartRevert \/ CallRevert \/ Recover \/ Recovered

Closing == StartClose \/ Join \/ Look \/ CallClose \/ EndClose

Next == \/ Operation \/ Closing
        \/ \E c \in Clients : HelperEnds(c) \/ LeaseExpires(c) \/ Watch(c)

Spec == Init /\ [][Next]_vars

-----------------------------------------------------------------------------
(* Properties.                                                             *)

Sessions == [helper : Helpers, input : BOOLEAN, dead : BOOLEAN, tx : BOOLEAN,
             last : {"", "complete", "incomplete"}, result : {"open", "ok", "failed"},
             events : Seq(Events)]

\* Modified hardware is never forgotten: the service holds a session that can
\* revert it, or knows that a recovery is due, or an operation is about to
\* settle which.  The exception is a session discarded by an Apply that found
\* the service closed (CloseConfirmed).
TunedIsOwned ==
    tuned => \/ client # NoClient
             \/ recoveryNeeded
             \/ op.on # NoClient
             \/ op.last = "discarded"

\* When Close returns nil, whatever operation it interrupted, the hardware is at
\* stock, nothing runs on, and the only helper that may be left is one whose input
\* is closed, which ends by itself.  The exception is the one of TunedIsOwned.
CloseIsFinal ==
    closer.result = "ok" /\ op.last # "discarded" =>
        /\ ~tuned
        /\ client = NoClient /\ op.at = "none"
        /\ \A c \in Clients : sess[c].helper \in Alive => ~sess[c].input

\* A Revert that returns nil has restored the hardware: the view model then
\* shows an idle session and clears its warnings.
RevertRestores ==
    [][op.at \in {"revert", "recovered"} /\ op'.at = "none" /\ op'.last = "reverted" => ~tuned']_vars

\* README:50 "Closing the window stops if restoration cannot be confirmed."
CloseConfirmed == closer.result = "ok" => ~tuned

=============================================================================
