-------------------------- MODULE PrivilegedSession --------------------------
(***************************************************************************)
(* One tuning session: the loop of the root helper                         *)
(* (internal/privilege/session/server.go), the client in the GUI process   *)
(* (internal/privilege/client/client.go) and the two pipes between them.   *)
(*                                                                         *)
(* An iteration of the helper's loop is one step: while it runs, nothing   *)
(* it looks at can change, except that the GUI may die, which its next     *)
(* write then notices.  In the client the calls of the desktop service     *)
(* (one at a time), the reader goroutine and the renewal goroutine         *)
(* interleave at their locks and channels.                                 *)
(*                                                                         *)
(* Abstractions.  The transaction engine is reduced to its outcomes, as    *)
(* TuningEngine has them: a rollback succeeds, and then the hardware is at *)
(* stock, or fails, and then it may be anything.  Time is not counted: the *)
(* lease may expire, and a call may time out, whenever they are pending.   *)
(* Both programs are of the same build, so that the handshake finds the    *)
(* identity it expects.                                                    *)
(*                                                                         *)
(* Op_Something is a faulty variant of Op, as in TuningEngine.             *)
(***************************************************************************)
EXTENDS Integers, Sequences, FiniteSets

CONSTANTS
    None,           \* no transaction, no request, no reply
    Lost,           \* the reply of a request that failed (io error, timeout)
    RequestLimit,   \* requests a helper accepts (4096 in server.go)
    MaxSerial,      \* bound: messages the client sends
    MaxFaults       \* bound: rollbacks that fail

Requests == {"hello", "probe", "begin", "renew", "revert", "close"}
Responses == {"ready", "capabilities", "review_changed", "applied", "failed",
              "complete", "incomplete"}

\* protocol.Message.  tx is the transaction a request or "applied" names; the
\* transaction is called after the request that began it.  0 is "lease".
Msg(id, type, tx) == [id |-> id, type |-> type, tx |-> tx]
Ids == 0..MaxSerial
Transactions == Ids \cup {None}
Orders == [id : Ids, type : Requests, tx : Transactions]
Reports == [id : Ids, type : Responses, tx : Transactions]

ASSUME SessionAssumption ==
    /\ RequestLimit \in Nat \ {0}
    /\ MaxSerial \in Nat
    /\ MaxFaults \in Nat
    /\ None \notin Nat \cup Reports
    /\ Lost \notin Reports \cup {None}

VARIABLES
    helper,     \* "run", or how the helper process ended
    stage,      \* greeted and probed
    active,     \* the transaction, or None
    leased,     \* lease # nil
    seen,       \* the request IDs seen
    faults,     \* rollbacks that failed
    tuned,      \* a control may be off stock
    attempted,  \* history: no transaction, or its rollback was attempted
    toHelper,   \* stdin pipe
    inputOpen,  \* ... its write end is open
    toClient,   \* stdout pipe
    gui,        \* the GUI process lives
    cl,         \* the Client
    renewal,    \* the transaction the renewal goroutine is about to name
    serial      \* Client.serial

helperVars == <<helper, stage, active, leased, seen, faults, tuned, attempted>>
vars == <<helper, stage, active, leased, seen, faults, tuned, attempted,
          toHelper, inputOpen, toClient, gui, cl, renewal, serial>>

Running == helper = "run"

\* call: what the service waits for; pending: the request ID in Client.pending;
\* reply: what its channel holds; ready: how far Dial is; last: lastRollback;
\* err, result: requestErr and closeResult of Close; ended: the terminal event.
NewClient == [call |-> "none", pending |-> None, reply |-> None, ready |-> "new",
              tx |-> None, renewing |-> FALSE, last |-> "", dead |-> FALSE,
              closed |-> FALSE, err |-> FALSE, result |-> "none", ended |-> "no"]

\* tuned: an earlier helper may have died before it restored the hardware.
Init ==
    /\ helper = "run" /\ stage = "new" /\ active = None /\ leased = FALSE
    /\ seen = {} /\ faults = 0
    /\ tuned \in BOOLEAN /\ attempted = TRUE
    /\ toHelper = <<>> /\ inputOpen = TRUE /\ toClient = <<>>
    /\ gui = TRUE /\ cl = NewClient /\ renewal = None /\ serial = 0

-----------------------------------------------------------------------------
(* The helper.                                                             *)

\* rollback: stop the lease, and if there is a transaction roll it back.
RollBack(ok) ==
    /\ leased' = FALSE
    /\ attempted' = TRUE
    /\ \/ /\ ok
          /\ active' = None
          /\ tuned' = (tuned /\ active = None)
          /\ UNCHANGED faults
       \/ /\ ~ok
          /\ active # None
          /\ faults < MaxFaults
          /\ faults' = faults + 1
          /\ tuned' \in {tuned, FALSE}
          /\ UNCHANGED active

Outcome_Optimistic(ok) == "complete"

Outcome(ok) == IF ok THEN "complete" ELSE "incomplete"

\* server.write, after which the helper is in state next.  When the GUI does
\* not drain its pipe for 250 ms the write fails and the loop returns an error.
\* When the GUI is dead the write raises SIGPIPE, which ends a Go process at
\* once because the descriptor is its standard output.
Answer(id, type, tx, next) ==
    \/ /\ gui
       /\ toClient' = Append(toClient, Msg(id, type, tx))
       /\ helper' = next
    \/ /\ gui
       /\ helper' = "error"
       /\ UNCHANGED toClient
    \/ /\ ~gui
       /\ helper' = "sigpipe"
       /\ UNCHANGED toClient

\* fatal: restore before the response, then return.
Fatal(id) ==
    \E ok \in BOOLEAN :
        /\ RollBack(ok)
        /\ Answer(id, IF active = None THEN "failed" ELSE Outcome(ok), None, "error")

\* A message in an order the state machine does not allow.
Invalid(m) ==
    CASE m.type = "hello"  -> stage # "new"
      [] m.type = "probe"  -> stage = "new" \/ active # None
      [] m.type = "begin"  -> stage # "probed" \/ active # None
      [] m.type = "renew"  -> active = None \/ ~leased \/ m.tx # active
      [] m.type = "revert" -> stage = "new" \/ active = None
      [] m.type = "close"  -> stage = "new"

Refused(m) == m.id \in seen \/ Cardinality(seen) >= RequestLimit \/ Invalid(m)

\* The message case of the select.
Take(m) ==
    /\ Running
    /\ toHelper' = Tail(toHelper)
    /\ seen' = seen \cup {m.id}
    /\ UNCHANGED <<inputOpen, gui, cl, renewal, serial>>

Accept(m, type) ==
    /\ Take(m)
    /\ m.type = type
    /\ ~Refused(m)

Refuse(m) ==
    /\ Take(m)
    /\ Refused(m)
    /\ Fatal(m.id)
    /\ UNCHANGED stage

Hello(m) ==
    /\ Accept(m, "hello")
    /\ stage' = "greeted"
    /\ Answer(m.id, "ready", None, "run")
    /\ UNCHANGED <<active, leased, faults, tuned, attempted>>

\* Hydrate, recover what an earlier helper left, probe again.  If hydration or
\* recovery fails the session ends with what could not be restored; if only
\* the second probe fails it ends at stock.
Probe(m) ==
    /\ Accept(m, "probe")
    /\ \/ /\ tuned' = FALSE
          /\ stage' = "probed"
          /\ Answer(m.id, "capabilities", None, "run")
       \/ /\ tuned' \in {tuned, FALSE}
          /\ Answer(m.id, "incomplete", None, "error")
          /\ UNCHANGED stage
       \/ /\ tuned' = FALSE
          /\ Answer(m.id, "failed", None, "error")
          /\ UNCHANGED stage
    /\ UNCHANGED <<active, leased, faults, attempted>>

\* Begin when nothing is applied: the probe fails, the review is out of date
\* (before or inside Apply), or Apply failed and restored everything.
BeginRefused(m) ==
    /\ Accept(m, "begin")
    /\ \/ Answer(m.id, "failed", None, "error")
       \/ Answer(m.id, "review_changed", None, "run")
       \/ Answer(m.id, "failed", None, "run")
    /\ UNCHANGED <<stage, active, leased, faults, tuned, attempted>>

\* Apply failed and so did its rollback: the transaction is kept, without a
\* lease, for a retry.
BeginIncomplete(m) ==
    /\ Accept(m, "begin")
    /\ faults < MaxFaults
    /\ faults' = faults + 1
    /\ active' = m.id
    /\ tuned' \in BOOLEAN
    /\ attempted' = TRUE
    /\ Answer(m.id, "incomplete", None, "run")
    /\ UNCHANGED <<stage, leased>>

Begin_NoLease(m) ==
    /\ Accept(m, "begin")
    /\ active' = m.id
    /\ tuned' = TRUE
    /\ attempted' = FALSE
    /\ Answer(m.id, "applied", m.id, "run")
    /\ UNCHANGED <<stage, leased, faults>>

\* Applied.  If the answer cannot be delivered in time it is rolled back; a
\* SIGPIPE leaves no time to.
Begin(m) ==
    /\ Accept(m, "begin")
    /\ \/ /\ Answer(m.id, "applied", m.id, "run")
          /\ helper' # "error"
          /\ active' = m.id
          /\ leased' = TRUE
          /\ tuned' = TRUE
          /\ attempted' = FALSE
          /\ UNCHANGED faults
       \/ /\ gui
          /\ helper' = "error"
          /\ attempted' = TRUE
          /\ \/ active' = None /\ tuned' = FALSE /\ UNCHANGED faults
             \/ /\ faults < MaxFaults
                /\ faults' = faults + 1
                /\ active' = m.id
                /\ tuned' \in BOOLEAN
          /\ UNCHANGED <<leased, toClient>>
    /\ UNCHANGED stage

\* The lease timer starts again.
Renew(m) ==
    /\ Accept(m, "renew")
    /\ UNCHANGED <<helper, stage, active, leased, faults, tuned, attempted, toClient>>

Revert(m) ==
    /\ Accept(m, "revert")
    /\ \E ok \in BOOLEAN :
         /\ RollBack(ok)
         /\ Answer(m.id, Outcome(ok), None, "run")
    /\ UNCHANGED stage

CloseSession_Unconditional(m) ==
    /\ Accept(m, "close")
    /\ \E ok \in BOOLEAN :
         /\ RollBack(ok)
         /\ Answer(m.id, "complete", None, "ok")
    /\ UNCHANGED stage

\* Close ends the session only when it restored the hardware.
CloseSession(m) ==
    /\ Accept(m, "close")
    /\ \E ok \in BOOLEAN :
         /\ RollBack(ok)
         /\ Answer(m.id, Outcome(ok), None, IF ok THEN "ok" ELSE "run")
    /\ UNCHANGED stage

\* The lease expires.  A rollback that succeeds ends the session; one that
\* fails keeps it, without a lease, for an explicit retry.
LeaseExpires ==
    /\ Running
    /\ leased
    /\ \E ok \in BOOLEAN :
         /\ RollBack(ok)
         /\ Answer(0, Outcome(ok), None, IF ok THEN "ok" ELSE "run")
    /\ UNCHANGED <<stage, seen, toHelper, inputOpen, gui, cl, renewal, serial>>

EndOfInput_AwaitsRetry ==
    /\ Running
    /\ toHelper = <<>> /\ ~inputOpen
    /\ active # None => ~attempted
    /\ \E ok \in BOOLEAN :
         /\ RollBack(ok)
         /\ helper' = IF ok THEN "ok" ELSE "run"
    /\ UNCHANGED <<stage, seen, toHelper, inputOpen, toClient, gui, cl, renewal, serial>>

EndOfInput_NoRollback ==
    /\ Running
    /\ toHelper = <<>> /\ ~inputOpen
    /\ helper' = "ok"
    /\ UNCHANGED <<stage, active, leased, seen, faults, tuned, attempted,
                   toHelper, inputOpen, toClient, gui, cl, renewal, serial>>

\* The GUI closed the pipe or died, and every message before that was read.
EndOfInput ==
    /\ Running
    /\ toHelper = <<>> /\ ~inputOpen
    /\ \E ok \in BOOLEAN :
         /\ RollBack(ok)
         /\ helper' = IF ok THEN "ok" ELSE "error"
    /\ UNCHANGED <<stage, seen, toHelper, inputOpen, toClient, gui, cl, renewal, serial>>

\* SIGINT, SIGTERM or SIGHUP.
Signal ==
    /\ Running
    /\ \E ok \in BOOLEAN : RollBack(ok)
    /\ helper' = "error"
    /\ UNCHANGED <<stage, seen, toHelper, inputOpen, toClient, gui, cl, renewal, serial>>

\* SIGKILL and the like.
Kill ==
    /\ Running
    /\ helper' = "killed"
    /\ UNCHANGED <<stage, active, leased, seen, faults, tuned, attempted,
                   toHelper, inputOpen, toClient, gui, cl, renewal, serial>>

Handle(m) == \/ Refuse(m) \/ Hello(m) \/ Probe(m)
             \/ BeginRefused(m) \/ BeginIncomplete(m) \/ Begin(m)
             \/ Renew(m) \/ Revert(m) \/ CloseSession(m)

HelperStep == \/ toHelper # <<>> /\ Handle(Head(toHelper))
              \/ EndOfInput

-----------------------------------------------------------------------------
(* The client.                                                             *)

Dead_DropsPending(c) ==
    IF c.dead THEN c
    ELSE [c EXCEPT !.dead = TRUE, !.tx = None, !.renewing = FALSE, !.pending = None,
                   !.ended = IF c.last = "complete" THEN "closed" ELSE "terminated"]

\* failPending: the connection is given up.  The terminal event says whether
\* the last thing the helper reported was a completed restoration.
Dead(c) ==
    IF c.dead THEN c
    ELSE [c EXCEPT !.dead = TRUE, !.tx = None, !.renewing = FALSE,
                   !.reply = IF c.pending # None THEN Lost ELSE @,
                   !.pending = None,
                   !.ended = IF c.last = "complete" THEN "closed" ELSE "terminated"]

\* clearTransaction.
Clear(c) == [c EXCEPT !.tx = None, !.renewing = FALSE]

Writable == inputOpen /\ Running

\* write, in a request that was registered as c.  A failed write fails the
\* request and the connection.
Send(type, tx, c) ==
    /\ serial < MaxSerial
    /\ serial' = serial + 1
    /\ LET c1 == [c EXCEPT !.pending = serial + 1] IN
       IF Writable
       THEN /\ toHelper' = Append(toHelper, Msg(serial + 1, type, tx))
            /\ cl' = c1
            /\ UNCHANGED inputOpen
       ELSE /\ cl' = Dead(c1)
            /\ inputOpen' = FALSE
            /\ UNCHANGED toHelper

\* The service makes one call at a time.
Call(type) ==
    /\ gui
    /\ cl.call = "none" /\ ~cl.closed
    /\ UNCHANGED <<helperVars, toClient, gui, renewal>>

CallHello ==
    /\ Call("hello")
    /\ cl.ready = "new" /\ ~cl.dead
    /\ Send("hello", None, [cl EXCEPT !.call = "hello"])

CallProbe ==
    /\ Call("probe")
    /\ cl.ready = "greeted" /\ ~cl.dead
    /\ Send("probe", None, [cl EXCEPT !.call = "probe"])

CallApply_KeepsProof ==
    /\ Call("begin")
    /\ cl.ready = "ready" /\ ~cl.dead
    /\ Send("begin", None, [cl EXCEPT !.call = "begin"])

\* Client.Apply.  The proof of an earlier restoration ends here.
CallApply ==
    /\ Call("begin")
    /\ cl.ready = "ready" /\ ~cl.dead
    /\ Send("begin", None, [cl EXCEPT !.call = "begin", !.last = ""])

\* Client.Revert, when there is something to revert.
CallRevert ==
    /\ Call("revert")
    /\ cl.ready = "ready" /\ ~cl.dead
    /\ cl.tx # None \/ cl.last = "incomplete"
    /\ Send("revert", cl.tx, [cl EXCEPT !.call = "revert"])

\* Client.Close.  With nothing to restore the request is written and the input
\* closed without waiting for an answer.
CallClose ==
    /\ Call("close")
    /\ cl.ready = "failed" \/ cl.ready = "ready"
    /\ LET c == [cl EXCEPT !.closed = TRUE, !.renewing = FALSE] IN
       IF cl.tx # None \/ cl.last = "incomplete"
       THEN IF cl.dead
            THEN /\ cl' = [c EXCEPT !.call = "close", !.reply = Lost]
                 /\ UNCHANGED <<toHelper, inputOpen, serial>>
            ELSE Send("close", None, [c EXCEPT !.call = "close"])
       ELSE /\ serial < MaxSerial
            /\ serial' = serial + 1
            /\ toHelper' = IF Writable THEN Append(toHelper, Msg(serial + 1, "close", None))
                           ELSE toHelper
            /\ inputOpen' = FALSE
            /\ cl' = [c EXCEPT !.call = "wait", !.err = ~Writable]

\* startRenewal after a transaction was applied.
Applied(c, tx) == IF c.dead THEN c ELSE [c EXCEPT !.tx = tx, !.renewing = ~c.closed]

\* The call takes its answer.
Return ==
    /\ gui
    /\ cl.reply # None
    /\ LET type == IF cl.reply = Lost THEN "lost" ELSE cl.reply.type
           c == [cl EXCEPT !.call = "none", !.reply = None]
       IN
       /\ cl' = CASE cl.call = "hello" ->
                       [c EXCEPT !.ready = IF type = "ready" THEN "greeted" ELSE "failed"]
                  [] cl.call = "probe" ->
                       [c EXCEPT !.ready = IF type = "capabilities" THEN "ready" ELSE "failed"]
                  [] cl.call = "begin" ->
                       IF type = "applied" THEN Applied(c, cl.reply.tx) ELSE c
                  [] cl.call = "revert" ->
                       IF type = "complete" THEN Clear(c) ELSE c
                  [] cl.call = "close" ->
                       IF type = "incomplete" THEN [c EXCEPT !.closed = FALSE]
                       ELSE [c EXCEPT !.call = "wait", !.err = (type # "complete")]
       /\ inputOpen' = (inputOpen /\ cl'.call # "wait")
    /\ UNCHANGED <<helperVars, toHelper, toClient, gui, renewal, serial>>

\* A call's context is cancelled or its deadline passes, whatever it waits for.
Timeout ==
    /\ gui
    /\ \/ /\ cl.pending # None \/ cl.reply # None
          /\ cl' = [Dead(cl) EXCEPT !.reply = Lost]
          /\ inputOpen' = FALSE
       \/ /\ cl.call = "wait"
          /\ cl' = [cl EXCEPT !.call = "none", !.result = "failed"]
          /\ UNCHANGED inputOpen
    /\ UNCHANGED <<helperVars, toHelper, toClient, gui, renewal, serial>>

\* Close waited for the process; its result is kept for later calls.
Waited ==
    /\ gui
    /\ cl.call = "wait"
    /\ ~Running
    /\ cl' = [cl EXCEPT !.call = "none",
                        !.result = IF helper = "ok" /\ ~cl.err THEN "ok" ELSE "failed"]
    /\ toClient' \in {toClient, <<>>}    \* exec.Cmd.Wait closes the pipe
    /\ UNCHANGED <<helperVars, toHelper, inputOpen, gui, renewal, serial>>

\* readLoop.  A rollback outcome ends the renewal.  A message that answers no
\* pending request is an event; if it reports a completed rollback, nothing is
\* active any more.
Receive(m) ==
    /\ toClient' = Tail(toClient)
    /\ LET c == [cl EXCEPT !.last =
                       CASE m.type \in {"capabilities", "review_changed"} -> "complete"
                         [] m.type \in {"complete", "incomplete"} -> m.type
                         [] OTHER -> @,
                    !.renewing = @ /\ m.type \notin {"complete", "incomplete"}]
       IN cl' = IF m.id = cl.pending THEN [c EXCEPT !.pending = None, !.reply = m]
                ELSE IF m.type = "complete" THEN Clear(c)
                ELSE c

ReadLoop ==
    /\ gui
    /\ \/ /\ toClient # <<>>
          /\ Receive(Head(toClient))
       \/ /\ toClient = <<>>
          /\ ~Running
          /\ ~cl.dead
          /\ cl' = Dead(cl)
          /\ UNCHANGED toClient
    /\ UNCHANGED <<helperVars, toHelper, inputOpen, gui, renewal, serial>>

\* The renewal goroutine reads the transaction ...
RenewTick ==
    /\ gui
    /\ cl.renewing
    /\ cl.tx # None
    /\ renewal = None
    /\ renewal' = cl.tx
    /\ UNCHANGED <<helperVars, toHelper, inputOpen, toClient, gui, cl, serial>>

\* ... and writes, even when it was cancelled meanwhile.
RenewWrite ==
    /\ gui
    /\ renewal # None
    /\ renewal' = None
    /\ serial < MaxSerial
    /\ serial' = serial + 1
    /\ IF Writable
       THEN /\ toHelper' = Append(toHelper, Msg(serial + 1, "renew", renewal))
            /\ UNCHANGED <<inputOpen, cl>>
       ELSE /\ cl' = Dead(cl)
            /\ inputOpen' = FALSE
            /\ UNCHANGED toHelper
    /\ UNCHANGED <<helperVars, toClient, gui>>

\* The GUI process ends without closing the session.
GuiDies ==
    /\ gui
    /\ gui' = FALSE
    /\ inputOpen' = FALSE
    /\ UNCHANGED <<helperVars, toHelper, toClient, cl, renewal, serial>>

Calls == CallHello \/ CallProbe \/ CallApply \/ CallRevert \/ CallClose

Next == \/ HelperStep \/ LeaseExpires \/ Signal \/ Kill
        \/ Calls \/ Return \/ Timeout \/ Waited
        \/ ReadLoop \/ RenewTick \/ RenewWrite \/ GuiDies

Spec == Init /\ [][Next]_vars

-----------------------------------------------------------------------------
(* Properties.                                                             *)

\* lastRollback is a proof: as long as the client holds "complete" the hardware
\* is at stock (failPending and Revert on a dead client rely on it).
ProofOfRollback == cl.last = "complete" => ~tuned

\* Close returns nil only when the helper confirmed that the hardware is at stock
\* and exited, and "Stock settings restored; helper session closed" is never
\* reported in error: the window may close.
CloseIsHonest ==
    /\ cl.result = "ok" => ~tuned /\ ~Running
    /\ cl.ended = "closed" => ~tuned

InFlight(type) == \E i \in DOMAIN toClient : toClient[i].type = type

\* A rollback that failed is reported: a live client knows it, or will.
IncompleteIsReported ==
    Running /\ active # None /\ attempted /\ gui /\ ~cl.dead =>
        \/ cl.last = "incomplete"
        \/ InFlight("incomplete")
        \/ \E i \in DOMAIN toHelper : toHelper[i].type = "begin"

\* A helper that ends in good order has restored the hardware or tried to; one
\* that exits with status 0 has restored it (what an earlier helper left is not
\* its doing until it has probed).
OrderlyExit ==
    /\ helper \in {"ok", "error"} => attempted
    /\ helper = "ok" /\ stage = "probed" => ~tuned

\* README:48 "attempts rollback on explicit revert, GUI close, pipe loss, lease
\* expiry, or a transaction failure": a helper that was not killed never leaves
\* a transaction behind without an attempt to roll it back.
PipeLossRollsBack == ~Running /\ helper # "killed" => attempted

\* Fairness: the helper's loop, the reader, the renewal and the call in progress
\* run; the lease timer fires once the client has gone silent (MaxSerial).
\* Nothing makes the user call, a context expire, or a process die.
FairSpec ==
    /\ Spec
    /\ WF_vars(HelperStep) /\ WF_vars(LeaseExpires)
    /\ WF_vars(ReadLoop) /\ WF_vars(RenewWrite) /\ WF_vars(Return) /\ WF_vars(Waited)

\* The root helper, and with it the session lock, does not outlive the GUI.
HelperEnds == ~gui ~> ~Running

\* Every call returns: its answer comes, or the end of the helper.
CallsReturn == cl.call # "none" ~> cl.call = "none" \/ ~gui

\* A transaction of a silent client does not last: it is rolled back, or its
\* rollback is attempted.
LeaseBoundsTuning == Running /\ active # None ~> attempted \/ ~Running

=============================================================================
