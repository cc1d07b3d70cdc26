----------------------- MODULE DesktopTuneServiceProofs -----------------------
(***************************************************************************)
(* Machine-checked proofs about DesktopTuneService, for any number of      *)
(* sessions and of events that a watcher lags behind.                      *)
(***************************************************************************)
EXTENDS DesktopTuneService, TLAPS

-----------------------------------------------------------------------------
(* Type correctness.                                                       *)

MaybeClient == Clients \cup {NoClient}

Operations == [at : {"none", "dial", "install", "apply", "applied", "discard", "revert",
                     "recover", "recovered"},
               on : MaybeClient,
               last : {"none", "error", "review_changed", "rollback_incomplete", "failed", "lost",
                       "applied", "closed", "discarded", "reverted"}]

Closers == [at : {"none", "join", "look", "close", "closed", "unclosed"},
            on : MaybeClient, result : {"none", "ok", "failed"}]

TypeOK ==
    /\ tuned \in BOOLEAN
    /\ sess \in [Clients -> Sessions]
    /\ client \in MaybeClient
    /\ closed \in BOOLEAN
    /\ recoveryNeeded \in BOOLEAN
    /\ op \in Operations
    /\ cancelled \in BOOLEAN
    /\ closer \in Closers

-----------------------------------------------------------------------------
(* The inductive invariant.                                                *)

Terminal == {"session_closed", "session_terminated"}

\* What a session knows of itself: a client gives up only a helper that has ended
\* or has lost its input; a live one knows whether its helper holds a transaction
\* or could not restore one; a proof of restoration is not of a tuned helper; and
\* a terminal event is of a dead client, "session_closed" of one with that proof.
Sound(r) ==
    /\ r.dead => r.helper = "ended" \/ ~r.input
    /\ r.helper = "ended" => r.dead
    /\ ~r.dead /\ r.helper = "tuned" => r.tx
    /\ ~r.dead /\ r.helper = "stuck" => r.last = "incomplete"
    /\ r.last = "complete" => r.helper \in {"idle", "ended"}
    /\ \A i \in 1..Len(r.events) : r.events[i] \in Terminal => r.dead
    /\ \A i \in 1..Len(r.events) : r.events[i] = "session_closed" => r.last = "complete"

\* One helper at a time, because of its lock; an idle one has restored the hardware.
Sounds ==
    /\ \A c \in Clients : Sound(sess[c])
    /\ \A c \in Clients : sess[c].helper = "idle" => ~tuned
    /\ \A c, d \in Clients : sess[c].helper \in Alive /\ sess[d].helper \in Alive => c = d

\* A helper that waits for requests.
Attached(c) == sess[c].helper \in Alive /\ sess[c].input

\* The session that the service or its operation holds was dialled, and a proof it
\* has is of the hardware as it is.
Held ==
    \A c \in Clients : c = client \/ c = op.on =>
        /\ sess[c].helper # "none"
        /\ sess[c].last = "complete" => ~tuned

\* Where the operation is determines which session is held.
Operating ==
    /\ op.on = NoClient <=> op.at \in {"none", "dial", "recover"}
    /\ op.at \in {"dial", "install", "recover", "recovered", "discard"} => client = NoClient
    /\ op.at \in {"apply", "applied", "revert"} => client \in {op.on, NoClient}
    /\ op.at \in {"apply", "applied", "revert"} /\ client = NoClient =>
         sess[op.on].dead /\ (tuned => recoveryNeeded)
    /\ op.at \in {"recover", "recovered"} => recoveryNeeded
    /\ op.at = "discard" => closed

\* A session whose Close has returned nil is not used again.
Unclosed ==
    /\ op.on # NoClient => sess[op.on].result # "ok"
    /\ client # NoClient => sess[client].result # "ok" \/ closer.at = "closed"
    /\ closer.at = "close" => closer.on # NoClient /\ sess[closer.on].result # "ok"

\* A helper that waits for requests is the held session's, or nothing is held.
Attachment ==
    \A c \in Clients : Attached(c) => c = client \/ c = op.on \/ (client = NoClient /\ op.on = NoClient)

Pending == tuned \/ \E c \in Clients : Attached(c)

\* Close at work excludes an operation, and knows the only helper left.
Closes ==
    /\ closer.at # "none" => closed
    /\ closer.at \in {"look", "close", "closed", "unclosed"} => op.at = "none"
    /\ closer.at = "close" =>
         /\ sess[closer.on].helper # "none"
         /\ client = closer.on \/ (client = NoClient /\ sess[closer.on].dead)
         /\ \A c \in Clients : Attached(c) => c = closer.on
    /\ closer.at = "closed" => ~Pending
    /\ closer.result = "ok" => /\ closed /\ closer.at = "none"
                               /\ op.at = "none" /\ client = NoClient
                               /\ Pending => op.last = "discarded"

\* Nothing is left behind, except by an Apply that found the service closed; the
\* service stays closed then.
Settled ==
    Pending =>
        \/ client # NoClient
        \/ recoveryNeeded
        \/ op.on # NoClient
        \/ /\ op.last = "discarded" /\ op.at = "none"
           /\ closed /\ closer.at \in {"none", "join", "look"}

ServiceInv ==
    /\ Sounds
    /\ Held
    /\ Operating
    /\ Unclosed
    /\ Attachment
    /\ Closes
    /\ Settled

-----------------------------------------------------------------------------
(* What the steps of a session do to it.                                   *)

\* Another value that is the same as before or FALSE.
LEMMA NoLonger ==
    ASSUME NEW before, NEW after, before \in BOOLEAN, after \in {before, FALSE}
    PROVE  after \in BOOLEAN /\ (after => before)
<1>1. after \in BOOLEAN
  OBVIOUS
<1>2. after => before
  OBVIOUS
<1>3. QED
  BY <1>1, <1>2, Zenon

\* The terminal events of a session tell the truth.
Frank(dead, last, events) ==
    /\ \A i \in 1..Len(events) : events[i] \in Terminal => dead
    /\ \A i \in 1..Len(events) : events[i] = "session_closed" => last = "complete"

\* A live session has sent no terminal event, so that its state may change.
LEMMA FrankAlive ==
    ASSUME NEW events \in Seq(Events), NEW last, NEW other, NEW dead \in BOOLEAN, Frank(FALSE, last, events)
    PROVE  Frank(dead, other, events)
BY DEF Frank, Terminal

LEMMA FrankMore ==
    ASSUME NEW events \in Seq(Events), NEW last, NEW dead \in BOOLEAN, Frank(dead, last, events), NEW e \in Events,
           e \in Terminal => dead, e = "session_closed" => last = "complete"
    PROVE  Frank(dead, last, Append(events, e)) /\ Append(events, e) \in Seq(Events)
<1>1. /\ Append(events, e) \in Seq(Events)
      /\ \A i \in 1..Len(Append(events, e)) : i \in 1..Len(events) \/ i = Len(events) + 1
      /\ \A i \in 1..Len(events) : Append(events, e)[i] = events[i]
      /\ Append(events, e)[Len(events) + 1] = e
  OBVIOUS
<1>2. QED
  BY <1>1 DEF Frank

\* Giving up.
LEMMA DieIs ==
    ASSUME NEW r \in Sessions, Frank(r.dead, r.last, r.events)
    PROVE  /\ Die(r) \in Sessions /\ Die(r).dead
           /\ Die(r).helper = r.helper /\ Die(r).input = r.input /\ Die(r).last = r.last
           /\ Die(r).result = r.result
           /\ Frank(TRUE, Die(r).last, Die(r).events)
<1>1. CASE r.dead
  BY <1>1 DEF Die, Frank
<1>2. CASE ~r.dead
  <2> DEFINE e == IF r.last = "complete" THEN "session_closed" ELSE "session_terminated"
             events == Append(r.events, e)
  <2>1. r.events \in Seq(Events) /\ Frank(FALSE, r.last, r.events)
    BY <1>2 DEF Sessions
  <2>2. Frank(TRUE, r.last, r.events)
    BY <2>1, FrankAlive
  <2>3. e \in Events /\ (e = "session_closed" => r.last = "complete")
    BY DEF Events
  <2> HIDE DEF e
  <2>4. Frank(TRUE, r.last, events) /\ events \in Seq(Events)
    BY <2>1, <2>2, <2>3, FrankMore
  <2>5. Die(r) = [r EXCEPT !.dead = TRUE, !.tx = FALSE, !.events = events]
    BY <1>2 DEF Die, e
  <2> HIDE DEF events
  <2>6. ASSUME NEW d, d = [r EXCEPT !.dead = TRUE, !.tx = FALSE, !.events = events]
        PROVE  /\ d \in Sessions /\ d.dead = TRUE /\ d.helper = r.helper /\ d.input = r.input /\ d.last = r.last
               /\ d.result = r.result /\ d.events = events
    BY <2>4, <2>6 DEF Sessions
  <2>7. /\ Die(r) \in Sessions /\ Die(r).dead = TRUE /\ Die(r).helper = r.helper /\ Die(r).input = r.input
        /\ Die(r).last = r.last /\ Die(r).result = r.result /\ Die(r).events = events
    BY <2>5, <2>6, Zenon
  <2>8. QED
    BY <2>4, <2>7
<1>3. QED
  BY <1>1, <1>2

LEMMA AbandonIs ==
    ASSUME NEW r \in Sessions, Frank(r.dead, r.last, r.events)
    PROVE  /\ Abandon(r) \in Sessions /\ Abandon(r).dead
           /\ Abandon(r).helper = r.helper /\ ~Abandon(r).input /\ Abandon(r).last = r.last
           /\ Abandon(r).result = r.result
           /\ Frank(TRUE, Abandon(r).last, Abandon(r).events)
<1> DEFINE q == [r EXCEPT !.input = FALSE]
<1>1. /\ q \in Sessions /\ q.input = FALSE /\ q.dead = r.dead /\ q.last = r.last /\ q.events = r.events
      /\ q.helper = r.helper /\ q.result = r.result
  BY DEF Sessions
<1>2. Abandon(r) = Die(q)
  BY DEF Abandon
<1> HIDE DEF q
<1>3. QED
  BY <1>1, <1>2, DieIs

\* What every step of session c does, and what it may not do.
Moves(c) ==
    /\ sess' \in [Clients -> Sessions] /\ tuned' \in BOOLEAN
    /\ \A d \in Clients : d # c => sess'[d] = sess[d]
    /\ Sound(sess'[c])
    /\ sess'[c].helper \in Alive => sess[c].helper \in Alive
    /\ sess[c].helper # "none" => sess'[c].helper # "none"
    /\ sess'[c].input => sess[c].input
    /\ sess[c].dead => sess'[c].dead
    /\ sess'[c].helper = "idle" => ~tuned'
    /\ sess'[c].last = "complete" => ~tuned' \/ (sess[c].last = "complete" /\ (tuned' => tuned))
    /\ tuned' => tuned \/ sess[c].helper \in Alive

LEMMA Becoming ==
    ASSUME TypeOK, NEW c \in Clients, NEW r \in Sessions, NEW t \in BOOLEAN, Becomes(c, r, t)
    PROVE  /\ sess' \in [Clients -> Sessions] /\ sess'[c] = r /\ tuned' = t /\ tuned' \in BOOLEAN
           /\ \A d \in Clients : d # c => sess'[d] = sess[d]
BY DEF Becomes, TypeOK

\* A step of c to the state r.
LEMMA MovingTo ==
    ASSUME TypeOK, NEW c \in Clients, NEW r \in Sessions, NEW t \in BOOLEAN, Becomes(c, r, t), Sound(r),
           r.helper \in Alive => sess[c].helper \in Alive,
           sess[c].helper # "none" => r.helper # "none",
           r.input => sess[c].input,
           sess[c].dead => r.dead,
           r.helper = "idle" => ~t,
           r.last = "complete" => ~t \/ (sess[c].last = "complete" /\ (t => tuned)),
           t => tuned \/ sess[c].helper \in Alive
    PROVE  Moves(c) /\ sess'[c] = r /\ (tuned' <=> t)
<1>1. /\ sess' \in [Clients -> Sessions] /\ sess'[c] = r /\ tuned' = t /\ tuned' \in BOOLEAN
      /\ \A d \in Clients : d # c => sess'[d] = sess[d]
  BY Becoming
<1>2. QED
  BY <1>1 DEF Moves

LEMMA SoundIs ==
    ASSUME NEW r
    PROVE  Sound(r) <=> /\ r.dead => r.helper = "ended" \/ ~r.input
                        /\ r.helper = "ended" => r.dead
                        /\ ~r.dead /\ r.helper = "tuned" => r.tx
                        /\ ~r.dead /\ r.helper = "stuck" => r.last = "incomplete"
                        /\ r.last = "complete" => r.helper \in {"idle", "ended"}
                        /\ Frank(r.dead, r.last, r.events)
BY DEF Sound, Frank

LEMMA Ending ==
    ASSUME TypeOK, Sounds, NEW c \in Clients, HelperEnds(c)
    PROVE  Moves(c) /\ (tuned' => tuned) /\ sess'[c].result = sess[c].result
<1> DEFINE q == [sess[c] EXCEPT !.helper = "ended"]
<1>1. sess[c] \in Sessions /\ Sound(sess[c]) /\ tuned \in BOOLEAN
  BY DEF TypeOK, Sounds
<1>2. /\ q \in Sessions /\ q.helper = "ended" /\ q.dead = sess[c].dead /\ q.last = sess[c].last
      /\ q.events = sess[c].events /\ q.input = sess[c].input /\ q.result = sess[c].result
  BY <1>1 DEF Sessions, Helpers
<1>3. sess[c].helper \in Alive
  BY DEF HelperEnds
<1>4. PICK t \in {tuned, FALSE} : Becomes(c, Die(q), t)
  BY DEF HelperEnds
<1> HIDE DEF q
<1>5. t \in BOOLEAN /\ (t => tuned)
  BY <1>1, <1>4, NoLonger, Zenon
<1>6. /\ Die(q) \in Sessions /\ Die(q).dead /\ Die(q).helper = "ended" /\ Die(q).input = sess[c].input
      /\ Die(q).last = sess[c].last /\ Die(q).result = sess[c].result
      /\ Frank(TRUE, Die(q).last, Die(q).events)
  BY <1>1, <1>2, DieIs, SoundIs
<1> DEFINE r == Die(q)
<1> HIDE DEF r
<1>7. /\ r \in Sessions /\ r.dead /\ r.helper = "ended" /\ r.input = sess[c].input
      /\ r.last = sess[c].last /\ r.result = sess[c].result
      /\ Frank(TRUE, r.last, r.events) /\ Becomes(c, r, t)
  BY <1>4, <1>6 DEF r
<1>8. Frank(r.dead, r.last, r.events)
  BY <1>7 DEF Frank
<1>9. Sound(r)
  BY <1>7, <1>8, SoundIs
<1>10. QED
  BY <1>3, <1>5, <1>7, <1>9, MovingTo DEF Alive

LEMMA Expiring ==
    ASSUME TypeOK, Sounds, NEW c \in Clients, LeaseExpires(c)
    PROVE  Moves(c) /\ (tuned' => tuned) /\ sess'[c].result = sess[c].result
<1>1. sess[c] \in Sessions /\ Sound(sess[c]) /\ tuned \in BOOLEAN /\ sess[c].helper = "tuned"
  BY DEF TypeOK, Sounds, LeaseExpires
<1>2. ASSUME NEW kind \in {"complete", "incomplete"}, NEW event \in Events \ Terminal
      PROVE  LET q == Told(c, kind, event) IN
             /\ q \in Sessions /\ q.dead = sess[c].dead /\ q.tx = sess[c].tx /\ q.helper = sess[c].helper
             /\ q.input = sess[c].input /\ q.result = sess[c].result
             /\ q.last = IF sess[c].dead THEN sess[c].last ELSE kind
             /\ Frank(q.dead, q.last, q.events)
  <2>1. CASE sess[c].dead
    BY <1>1, <2>1, SoundIs DEF Told
  <2>2. CASE ~sess[c].dead
    <3> DEFINE events == Append(sess[c].events, event)
               s == sess[c]
    <3>1. sess[c].events \in Seq(Events) /\ Frank(FALSE, sess[c].last, sess[c].events)
      BY <1>1, <2>2, SoundIs DEF Sessions
    <3>2. Frank(FALSE, kind, sess[c].events) /\ event # "session_closed"
      BY <3>1, FrankAlive DEF Terminal
    <3>3. Frank(FALSE, kind, events) /\ events \in Seq(Events)
      BY <3>1, <3>2, FrankMore
    <3>4. Told(c, kind, event) = [s EXCEPT !.last = kind, !.events = events]
      BY <2>2 DEF Told
    <3>5. s \in Sessions /\ s.dead = FALSE
      BY <1>1, <2>2 DEF Sessions
    <3>6. s = sess[c]
      OBVIOUS
    <3> HIDE DEF events, s
    <3>7. ASSUME NEW q, q = [s EXCEPT !.last = kind, !.events = events]
          PROVE  /\ q \in Sessions /\ q.dead = FALSE /\ q.tx = s.tx /\ q.helper = s.helper
                 /\ q.input = s.input /\ q.result = s.result
                 /\ q.last = kind /\ q.events = events
      BY <3>3, <3>5, <3>7 DEF Sessions
    <3>8. LET q == Told(c, kind, event) IN
          /\ q \in Sessions /\ q.dead = FALSE /\ q.tx = s.tx /\ q.helper = s.helper
          /\ q.input = s.input /\ q.result = s.result
          /\ q.last = kind /\ q.events = events
      BY <3>4, <3>7, Zenon
    <3>9. QED
      BY <2>2, <3>3, <3>5, <3>6, <3>8
  <2>3. QED
    BY <2>1, <2>2
<1>3. \/ Becomes(c, Die([Told(c, "complete", "rollback_complete") EXCEPT !.helper = "ended", !.tx = FALSE]), FALSE)
      \/ Becomes(c, [Told(c, "incomplete", "rollback_incomplete") EXCEPT !.helper = "stuck"], tuned)
  BY DEF LeaseExpires
<1>4. CASE Becomes(c, Die([Told(c, "complete", "rollback_complete") EXCEPT !.helper = "ended", !.tx = FALSE]), FALSE)
  <2> DEFINE p == Told(c, "complete", "rollback_complete")
             q == [p EXCEPT !.helper = "ended", !.tx = FALSE]
             r == Die(q)
  <2>1. "rollback_complete" \in Events \ Terminal
    BY DEF Events, Terminal
  <2>2. /\ p \in Sessions /\ p.dead = sess[c].dead /\ p.input = sess[c].input /\ p.result = sess[c].result
        /\ Frank(p.dead, p.last, p.events)
    BY <1>2, <2>1
  <2>3. Becomes(c, r, FALSE)
    BY <1>4
  <2> HIDE DEF p
  <2>4. /\ q \in Sessions /\ q.helper = "ended" /\ q.dead = p.dead /\ q.last = p.last
        /\ q.events = p.events /\ q.input = p.input /\ q.result = p.result
    BY <2>2 DEF Sessions, Helpers
  <2> HIDE DEF q
  <2>5. Frank(q.dead, q.last, q.events)
    BY <2>2, <2>4
  <2>6. /\ r \in Sessions /\ r.dead /\ r.helper = "ended" /\ r.input = sess[c].input
        /\ r.result = sess[c].result /\ Frank(TRUE, r.last, r.events)
    BY <2>2, <2>4, <2>5, DieIs
  <2> HIDE DEF r
  <2>7. Frank(r.dead, r.last, r.events)
    BY <2>6 DEF Frank
  <2>8. Sound(r)
    BY <2>6, <2>7, SoundIs
  <2>9. QED
    BY <2>3, <2>6, <2>8, MovingTo DEF Alive
<1>5. CASE Becomes(c, [Told(c, "incomplete", "rollback_incomplete") EXCEPT !.helper = "stuck"], tuned)
  <2> DEFINE p == Told(c, "incomplete", "rollback_incomplete")
             r == [p EXCEPT !.helper = "stuck"]
  <2>1. "rollback_incomplete" \in Events \ Terminal
    BY DEF Events, Terminal
  <2>2. /\ p \in Sessions /\ p.dead = sess[c].dead /\ p.input = sess[c].input /\ p.result = sess[c].result
        /\ p.last = IF sess[c].dead THEN sess[c].last ELSE "incomplete"
        /\ Frank(p.dead, p.last, p.events)
    BY <1>2, <2>1
  <2>3. Becomes(c, r, tuned)
    BY <1>5
  <2> HIDE DEF p
  <2>4. /\ r \in Sessions /\ r.helper = "stuck" /\ r.dead = p.dead /\ r.last = p.last
        /\ r.events = p.events /\ r.input = p.input /\ r.result = p.result
    BY <2>2 DEF Sessions, Helpers
  <2> HIDE DEF r
  <2>5. Frank(r.dead, r.last, r.events)
    BY <2>2, <2>4
  <2>6. sess[c].last # "complete" /\ (sess[c].dead => ~sess[c].input)
    BY <1>1, SoundIs
  <2>7. Sound(r) /\ r.last # "complete"
    BY <2>2, <2>4, <2>5, <2>6, SoundIs
  <2>8. QED
    BY <1>1, <2>2, <2>3, <2>4, <2>7, MovingTo DEF Alive
<1>6. QED
  BY <1>3, <1>4, <1>5


\* A step of c in which its client gives up in the state q.
LEMMA DyingTo ==
    ASSUME TypeOK, NEW c \in Clients, NEW q \in Sessions, NEW t \in BOOLEAN, Becomes(c, Die(q), t),
           Frank(q.dead, q.last, q.events),
           q.helper = "ended" \/ ~q.input,
           q.last = "complete" => q.helper \in {"idle", "ended"},
           q.helper \in Alive => sess[c].helper \in Alive,
           sess[c].helper # "none" => q.helper # "none",
           q.input => sess[c].input,
           q.helper = "idle" => ~t,
           q.last = "complete" => ~t \/ (sess[c].last = "complete" /\ (t => tuned)),
           t => tuned \/ sess[c].helper \in Alive
    PROVE  /\ Moves(c) /\ (tuned' <=> t) /\ sess'[c].dead
           /\ sess'[c].result = q.result /\ sess'[c].helper = q.helper
<1> DEFINE r == Die(q)
<1>1. /\ r \in Sessions /\ r.dead /\ r.helper = q.helper /\ r.input = q.input /\ r.last = q.last
      /\ r.result = q.result /\ Frank(TRUE, r.last, r.events)
  BY DieIs
<1>2. Becomes(c, r, t)
  OBVIOUS
<1> HIDE DEF r
<1>3. Frank(r.dead, r.last, r.events)
  BY <1>1 DEF Frank
<1>4. Sound(r)
  BY <1>1, <1>3, SoundIs
<1>5. QED
  BY <1>1, <1>2, <1>4, MovingTo

LEMMA AbandoningTo ==
    ASSUME TypeOK, NEW c \in Clients, NEW q \in Sessions, NEW t \in BOOLEAN, Becomes(c, Abandon(q), t),
           Frank(q.dead, q.last, q.events),
           q.last = "complete" => q.helper \in {"idle", "ended"},
           q.helper \in Alive => sess[c].helper \in Alive,
           sess[c].helper # "none" => q.helper # "none",
           q.helper = "idle" => ~t,
           q.last = "complete" => ~t \/ (sess[c].last = "complete" /\ (t => tuned)),
           t => tuned \/ sess[c].helper \in Alive
    PROVE  /\ Moves(c) /\ (tuned' <=> t) /\ sess'[c].dead /\ ~sess'[c].input
           /\ sess'[c].result = q.result /\ sess'[c].helper = q.helper
<1> DEFINE r == Abandon(q)
<1>1. /\ r \in Sessions /\ r.dead /\ r.helper = q.helper /\ ~r.input /\ r.last = q.last
      /\ r.result = q.result /\ Frank(TRUE, r.last, r.events)
  BY AbandonIs
<1>2. Becomes(c, r, t)
  OBVIOUS
<1> HIDE DEF r
<1>3. Frank(r.dead, r.last, r.events)
  BY <1>1 DEF Frank
<1>4. Sound(r)
  BY <1>1, <1>3, SoundIs
<1>5. QED
  BY <1>1, <1>2, <1>4, MovingTo

LEMMA Applying ==
    ASSUME TypeOK, Sounds, NEW c \in Clients, NEW outcome, ClientApply(c, outcome), sess[c].helper # "none"
    PROVE  Moves(c) /\ ~sess[c].dead /\ sess'[c].result = sess[c].result
<1> DEFINE s == sess[c]
           r == [s EXCEPT !.last = ""]
           applied == [r EXCEPT !.helper = "tuned", !.tx = TRUE]
           reviewed == [r EXCEPT !.last = "complete"]
           stuck == [r EXCEPT !.helper = "stuck", !.last = "incomplete"]
           restored == [r EXCEPT !.helper = "ended", !.last = "complete"]
           broken == [r EXCEPT !.helper = "ended", !.last = "incomplete"]
           lost == [r EXCEPT !.helper = "tuned"]
<1>1. s \in Sessions /\ Sound(s) /\ tuned \in BOOLEAN /\ s.helper # "none" /\ (s.helper = "idle" => ~tuned)
  BY DEF TypeOK, Sounds
<1>2. s = sess[c]
  OBVIOUS
<1>3. /\ ~r.dead
      /\ \/ r.helper = "idle" /\ Becomes(c, applied, TRUE)
         \/ r.helper = "idle" /\ Becomes(c, reviewed, tuned)
         \/ r.helper = "idle" /\ Becomes(c, stuck, TRUE)
         \/ r.helper = "idle" /\ Becomes(c, r, tuned)
         \/ r.helper \in {"tuned", "stuck"} /\ Becomes(c, Die(restored), FALSE)
         \/ r.helper \in {"tuned", "stuck"} /\ Becomes(c, Die(broken), tuned)
         \/ Becomes(c, Abandon(r), tuned)
         \/ r.helper = "idle" /\ Becomes(c, Abandon(lost), TRUE)
  BY DEF ClientApply
<1> HIDE DEF s
<1>4. /\ r \in Sessions /\ r.helper = s.helper /\ r.dead = s.dead /\ r.input = s.input /\ r.events = s.events
      /\ r.result = s.result /\ r.tx = s.tx /\ r.last = ""
  BY <1>1 DEF Sessions
<1>5. /\ ~s.dead /\ s.dead = FALSE /\ s.helper \in Alive /\ s.helper \in {"idle", "tuned", "stuck"} /\ s.helper # "ended"
      /\ s.events \in Seq(Events)
  BY <1>1, <1>3, <1>4, SoundIs DEF Sessions, Helpers, Alive
<1>6. Frank(FALSE, s.last, s.events)
  BY <1>1, <1>5, SoundIs
<1>7. \A last : Frank(FALSE, last, s.events) /\ Frank(TRUE, last, s.events)
  BY <1>5, <1>6, FrankAlive
<1>8. (~s.dead /\ s.helper = "tuned" => s.tx) /\ r.dead = FALSE
  BY <1>1, <1>4, <1>5, SoundIs
<1> HIDE DEF r
<1>9. CASE r.helper = "idle" /\ Becomes(c, applied, TRUE)
  <2>1. /\ applied \in Sessions /\ applied.helper = "tuned" /\ applied.tx = TRUE /\ applied.dead = r.dead
        /\ applied.last = r.last /\ applied.events = r.events /\ applied.input = r.input /\ applied.result = r.result
    BY <1>4 DEF Sessions, Helpers
  <2> HIDE DEF applied
  <2>2. Sound(applied)
    BY <1>4, <1>5, <1>7, <1>8, <2>1, SoundIs
  <2>3. QED
    BY <1>2, <1>4, <1>5, <1>9, <2>1, <2>2, MovingTo
<1>10. CASE r.helper = "idle" /\ Becomes(c, reviewed, tuned)
  <2>1. /\ reviewed \in Sessions /\ reviewed.helper = r.helper /\ reviewed.tx = r.tx /\ reviewed.dead = r.dead
        /\ reviewed.last = "complete" /\ reviewed.events = r.events /\ reviewed.input = r.input /\ reviewed.result = r.result
    BY <1>4 DEF Sessions
  <2> HIDE DEF reviewed
  <2>2. Sound(reviewed)
    BY <1>4, <1>5, <1>7, <1>8, <1>10, <2>1, SoundIs
  <2>3. ~tuned
    BY <1>1, <1>4, <1>10
  <2>4. QED
    BY <1>1, <1>2, <1>4, <1>5, <1>10, <2>1, <2>2, <2>3, MovingTo
<1>11. CASE r.helper = "idle" /\ Becomes(c, stuck, TRUE)
  <2>1. /\ stuck \in Sessions /\ stuck.helper = "stuck" /\ stuck.tx = r.tx /\ stuck.dead = r.dead
        /\ stuck.last = "incomplete" /\ stuck.events = r.events /\ stuck.input = r.input /\ stuck.result = r.result
    BY <1>4 DEF Sessions, Helpers
  <2> HIDE DEF stuck
  <2>2. Sound(stuck)
    BY <1>4, <1>5, <1>7, <1>8, <2>1, SoundIs
  <2>3. QED
    BY <1>2, <1>4, <1>5, <1>11, <2>1, <2>2, MovingTo
<1>12. CASE r.helper = "idle" /\ Becomes(c, r, tuned)
  <2>1. Sound(r)
    BY <1>4, <1>5, <1>7, <1>8, <1>12, SoundIs
  <2>2. ~tuned
    BY <1>1, <1>4, <1>12
  <2>3. QED
    BY <1>1, <1>2, <1>4, <1>5, <1>12, <2>1, <2>2, MovingTo
<1>13. CASE r.helper \in {"tuned", "stuck"} /\ Becomes(c, Die(restored), FALSE)
  <2>1. /\ restored \in Sessions /\ restored.helper = "ended" /\ restored.dead = r.dead
        /\ restored.last = "complete" /\ restored.events = r.events /\ restored.input = r.input
        /\ restored.result = r.result
    BY <1>4 DEF Sessions, Helpers
  <2> HIDE DEF restored
  <2>2. Frank(restored.dead, restored.last, restored.events) /\ restored.helper \notin Alive
    BY <1>4, <1>7, <1>8, <2>1 DEF Alive
  <2>3. QED
    BY <1>2, <1>4, <1>5, <1>13, <2>1, <2>2, DyingTo
<1>14. CASE r.helper \in {"tuned", "stuck"} /\ Becomes(c, Die(broken), tuned)
  <2>1. /\ broken \in Sessions /\ broken.helper = "ended" /\ broken.dead = r.dead
        /\ broken.last = "incomplete" /\ broken.events = r.events /\ broken.input = r.input
        /\ broken.result = r.result
    BY <1>4 DEF Sessions, Helpers
  <2> HIDE DEF broken
  <2>2. Frank(broken.dead, broken.last, broken.events) /\ broken.helper \notin Alive
    BY <1>4, <1>7, <1>8, <2>1 DEF Alive
  <2>3. QED
    BY <1>1, <1>2, <1>4, <1>5, <1>14, <2>1, <2>2, DyingTo
<1>15. CASE Becomes(c, Abandon(r), tuned)
  <2>1. Frank(r.dead, r.last, r.events)
    BY <1>4, <1>7, <1>8
  <2>2. QED
    BY <1>1, <1>2, <1>4, <1>5, <1>15, <2>1, AbandoningTo
<1>16. CASE r.helper = "idle" /\ Becomes(c, Abandon(lost), TRUE)
  <2>1. /\ lost \in Sessions /\ lost.helper = "tuned" /\ lost.dead = r.dead
        /\ lost.last = r.last /\ lost.events = r.events /\ lost.input = r.input
        /\ lost.result = r.result
    BY <1>4 DEF Sessions, Helpers
  <2> HIDE DEF lost
  <2>2. Frank(lost.dead, lost.last, lost.events)
    BY <1>4, <1>7, <1>8, <2>1
  <2>3. QED
    BY <1>2, <1>4, <1>5, <1>16, <2>1, <2>2, AbandoningTo
<1>17. Moves(c) /\ sess'[c].result = sess[c].result
  BY <1>3, <1>9, <1>10, <1>11, <1>12, <1>13, <1>14, <1>15, <1>16
<1>18. QED
  BY <1>2, <1>5, <1>17

LEMMA Staying ==
    ASSUME TypeOK, Sounds, NEW c \in Clients, UNCHANGED <<sess, tuned>>
    PROVE  Moves(c)
BY DEF TypeOK, Sounds, Moves

\* A live client whose session was dialled.
LEMMA Living ==
    ASSUME TypeOK, Sounds, NEW c \in Clients, ~sess[c].dead, sess[c].helper # "none"
    PROVE  /\ sess[c].dead = FALSE /\ sess[c].helper \in Alive /\ sess[c].helper # "ended"
           /\ \A last : Frank(FALSE, last, sess[c].events) /\ Frank(TRUE, last, sess[c].events)
           /\ ~sess[c].tx /\ sess[c].last # "incomplete" => sess[c].helper = "idle"
<1>1. sess[c] \in Sessions /\ Sound(sess[c])
  BY DEF TypeOK, Sounds
<1>2. /\ sess[c].dead = FALSE /\ sess[c].helper \in Alive /\ sess[c].helper # "ended"
      /\ sess[c].events \in Seq(Events)
      /\ ~sess[c].tx /\ sess[c].last # "incomplete" => sess[c].helper = "idle"
  BY <1>1, SoundIs DEF Sessions, Helpers, Alive
<1>3. Frank(FALSE, sess[c].last, sess[c].events)
  BY <1>1, <1>2, SoundIs
<1>4. \A last : Frank(FALSE, last, sess[c].events) /\ Frank(TRUE, last, sess[c].events)
  BY <1>2, <1>3, FrankAlive
<1>5. QED
  BY <1>2, <1>4

LEMMA Reverting ==
    ASSUME TypeOK, Sounds, NEW c \in Clients, NEW ok \in BOOLEAN, ClientRevert(c, ok), sess[c].helper # "none",
           sess[c].last = "complete" => ~tuned
    PROVE  Moves(c) /\ (tuned' => tuned) /\ sess'[c].result = sess[c].result /\ (ok => ~tuned')
<1> DEFINE s == sess[c]
           back == [s EXCEPT !.helper = "idle", !.tx = FALSE, !.last = "complete"]
           stuck == [s EXCEPT !.helper = "stuck", !.last = "incomplete"]
<1>1. s \in Sessions /\ tuned \in BOOLEAN /\ (s.helper = "idle" => ~tuned)
  BY DEF TypeOK, Sounds
<1>2. s = sess[c]
  OBVIOUS
<1>3. \/ s.dead /\ ok = (s.last = "complete") /\ UNCHANGED <<sess, tuned>>
      \/ ~s.dead /\ ~s.tx /\ s.last # "incomplete" /\ UNCHANGED <<sess, tuned>>
      \/ ~s.dead /\ Becomes(c, back, FALSE)
      \/ ~s.dead /\ ~ok /\ Becomes(c, stuck, tuned)
      \/ ~s.dead /\ ~ok /\ Becomes(c, Abandon(s), tuned)
  BY DEF ClientRevert
<1> HIDE DEF s
<1>4. CASE s.dead /\ ok = (s.last = "complete") /\ UNCHANGED <<sess, tuned>>
  <2>1. ok => ~tuned
    BY <1>2, <1>4
  <2>2. QED
    BY <1>4, <2>1, Staying
<1>5. CASE ~s.dead /\ ~s.tx /\ s.last # "incomplete" /\ UNCHANGED <<sess, tuned>>
  <2>1. ~tuned
    BY <1>1, <1>2, <1>5, Living
  <2>2. QED
    BY <1>5, <2>1, Staying
<1>6. CASE ~s.dead /\ Becomes(c, back, FALSE)
  <2>1. /\ back \in Sessions /\ back.helper = "idle" /\ back.dead = s.dead
        /\ back.last = "complete" /\ back.events = s.events /\ back.input = s.input
        /\ back.result = s.result
    BY <1>1 DEF Sessions, Helpers
  <2> HIDE DEF back
  <2>2. s.helper \in Alive /\ Frank(back.dead, back.last, back.events) /\ ~back.dead
    BY <1>2, <1>6, <2>1, Living
  <2>3. Sound(back)
    BY <2>1, <2>2, SoundIs
  <2>4. QED
    BY <1>2, <1>6, <2>1, <2>2, <2>3, MovingTo
<1>7. CASE ~s.dead /\ ~ok /\ Becomes(c, stuck, tuned)
  <2>1. /\ stuck \in Sessions /\ stuck.helper = "stuck" /\ stuck.dead = s.dead
        /\ stuck.last = "incomplete" /\ stuck.events = s.events /\ stuck.input = s.input
        /\ stuck.result = s.result
    BY <1>1 DEF Sessions, Helpers
  <2> HIDE DEF stuck
  <2>2. s.helper \in Alive /\ Frank(stuck.dead, stuck.last, stuck.events) /\ ~stuck.dead
    BY <1>2, <1>7, <2>1, Living
  <2>3. Sound(stuck)
    BY <2>1, <2>2, SoundIs
  <2>4. QED
    BY <1>1, <1>2, <1>7, <2>1, <2>2, <2>3, MovingTo
<1>8. CASE ~s.dead /\ ~ok /\ Becomes(c, Abandon(s), tuned)
  <2>1. Frank(s.dead, s.last, s.events) /\ (s.last = "complete" => s.helper \in {"idle", "ended"})
    BY <1>2, SoundIs DEF Sounds
  <2>2. QED
    BY <1>1, <1>2, <1>8, <2>1, AbandoningTo
<1>9. QED
  BY <1>3, <1>4, <1>5, <1>6, <1>7, <1>8

LEMMA Shutting ==
    ASSUME TypeOK, Sounds, NEW c \in Clients, NEW ok \in BOOLEAN, ClientClose(c, ok), sess[c].helper # "none"
    PROVE  /\ Moves(c) /\ (tuned' => tuned)
           /\ IF ok THEN /\ sess'[c].result = "ok"
                         /\ sess[c].result # "ok" => ~tuned' /\ sess'[c].helper = "ended"
              ELSE sess'[c].result # "ok"
<1> DEFINE s == sess[c]
           shut == [s EXCEPT !.helper = "ended", !.input = FALSE, !.result = "ok", !.last = "complete"]
           stuck == [s EXCEPT !.helper = "stuck", !.last = "incomplete"]
           final == [Abandon(s) EXCEPT !.result = "failed"]
<1>1. s \in Sessions /\ Sound(s) /\ tuned \in BOOLEAN /\ (s.helper = "idle" => ~tuned)
  BY DEF TypeOK, Sounds
<1>2. s = sess[c]
  OBVIOUS
<1>3. \/ s.result # "open" /\ ok = (s.result = "ok") /\ UNCHANGED <<sess, tuned>>
      \/ s.result = "open" /\ ok /\ ~s.dead /\ Becomes(c, Die(shut), FALSE)
      \/ s.result = "open" /\ ~ok /\ ~s.dead /\ Becomes(c, stuck, tuned)
      \/ s.result = "open" /\ ~ok /\ Becomes(c, final, tuned)
  BY DEF ClientClose
<1> HIDE DEF s
<1>4. CASE s.result # "open" /\ ok = (s.result = "ok") /\ UNCHANGED <<sess, tuned>>
  <2>1. Moves(c) /\ (tuned' => tuned)
    BY <1>4, Staying
  <2>2. CASE ok
    BY <1>2, <1>4, <2>1, <2>2
  <2>3. CASE ~ok
    BY <1>2, <1>4, <2>1, <2>3
  <2>4. QED
    BY <2>2, <2>3
<1>5. CASE s.result = "open" /\ ok /\ ~s.dead /\ Becomes(c, Die(shut), FALSE)
  <2>1. /\ shut \in Sessions /\ shut.helper = "ended" /\ shut.dead = s.dead
        /\ shut.last = "complete" /\ shut.events = s.events /\ shut.input = FALSE
        /\ shut.result = "ok"
    BY <1>1 DEF Sessions, Helpers
  <2> HIDE DEF shut
  <2>2. Frank(shut.dead, shut.last, shut.events) /\ shut.helper \notin Alive
    BY <1>2, <1>5, <2>1, Living DEF Alive
  <2>3. QED
    BY <1>2, <1>5, <2>1, <2>2, DyingTo
<1>6. CASE s.result = "open" /\ ~ok /\ ~s.dead /\ Becomes(c, stuck, tuned)
  <2>1. /\ stuck \in Sessions /\ stuck.helper = "stuck" /\ stuck.dead = s.dead
        /\ stuck.last = "incomplete" /\ stuck.events = s.events /\ stuck.input = s.input
        /\ stuck.result = s.result
    BY <1>1 DEF Sessions, Helpers
  <2> HIDE DEF stuck
  <2>2. s.helper \in Alive /\ Frank(stuck.dead, stuck.last, stuck.events) /\ ~stuck.dead
    BY <1>2, <1>6, <2>1, Living
  <2>3. Sound(stuck)
    BY <2>1, <2>2, SoundIs
  <2>4. QED
    BY <1>1, <1>2, <1>6, <2>1, <2>2, <2>3, MovingTo
<1>7. CASE s.result = "open" /\ ~ok /\ Becomes(c, final, tuned)
  <2> DEFINE q == Abandon(s)
  <2>1. Frank(s.dead, s.last, s.events) /\ (s.last = "complete" => s.helper \in {"idle", "ended"})
    BY <1>1, SoundIs
  <2>2. /\ q \in Sessions /\ q.dead /\ q.helper = s.helper /\ ~q.input /\ q.last = s.last
        /\ Frank(TRUE, q.last, q.events)
    BY <1>1, <2>1, AbandonIs
  <2> HIDE DEF q
  <2>3. final = [q EXCEPT !.result = "failed"]
    BY DEF q
  <2> HIDE DEF final
  <2>4. ASSUME NEW f, f = [q EXCEPT !.result = "failed"]
        PROVE  /\ f \in Sessions /\ f.dead = q.dead /\ f.helper = q.helper /\ f.input = q.input
               /\ f.last = q.last /\ f.events = q.events /\ f.result = "failed"
    BY <2>2, <2>4 DEF Sessions
  <2>5. /\ final \in Sessions /\ final.dead = q.dead /\ final.helper = q.helper /\ final.input = q.input
        /\ final.last = q.last /\ final.events = q.events /\ final.result = "failed"
    BY <2>3, <2>4, Zenon
  <2>6. Frank(final.dead, final.last, final.events)
    BY <2>2, <2>5 DEF Frank
  <2>7. Sound(final)
    BY <2>1, <2>2, <2>5, <2>6, SoundIs
  <2>8. QED
    BY <1>1, <1>2, <1>7, <2>2, <2>5, <2>7, MovingTo
<1>8. QED
  BY <1>3, <1>4, <1>5, <1>6, <1>7

\* An event is taken: the session is otherwise as it was, except that the watcher
\* closes the client of one that has ended.
LEMMA Watching ==
    ASSUME TypeOK, Sounds, NEW c \in Clients, Watch(c)
    PROVE  /\ Moves(c) /\ tuned' = tuned
           /\ sess'[c].helper = sess[c].helper /\ sess'[c].input = sess[c].input
           /\ sess'[c].dead = sess[c].dead /\ sess'[c].last = sess[c].last
           /\ sess'[c].result = "ok" <=> sess[c].result = "ok"
           /\ \/ client # c /\ client' = client /\ recoveryNeeded' = recoveryNeeded
              \/ client = c /\ client' = client /\ recoveryNeeded' = TRUE
              \/ client = c /\ client' = client /\ recoveryNeeded' = FALSE
              \/ client = c /\ client' = NoClient /\ sess[c].dead /\ recoveryNeeded' = TRUE
              \/ /\ client = c /\ client' = NoClient /\ sess[c].dead /\ recoveryNeeded' = FALSE
                 /\ sess[c].last = "complete"
<1> DEFINE s == sess[c]
           kind == Head(s.events)
           terminal == kind \in Terminal
           result == IF client = c /\ terminal /\ s.result = "open" THEN "failed" ELSE s.result
           r == [s EXCEPT !.events = Tail(s.events), !.result = result]
<1>1. s \in Sessions /\ Sound(s) /\ tuned \in BOOLEAN /\ sess \in [Clients -> Sessions]
  BY DEF TypeOK, Sounds
<1>2. /\ s.events # <<>>
      /\ client' = IF client = c /\ terminal THEN NoClient ELSE client
      /\ recoveryNeeded' = IF client = c THEN kind \notin {"session_closed", "rollback_complete"}
                            ELSE recoveryNeeded
      /\ tuned' = tuned
  BY DEF Watch, Terminal
<1>3. sess' = [sess EXCEPT ![c].events = Tail(@),
                          ![c].result = IF client = c /\ kind \in Terminal /\ @ = "open" THEN "failed" ELSE @]
  BY DEF Watch, Terminal
<1>4. s = sess[c]
  OBVIOUS
<1>5. /\ s.events \in Seq(Events) /\ s.result \in {"open", "ok", "failed"}
      /\ Frank(s.dead, s.last, s.events)
  BY <1>1, SoundIs DEF Sessions
<1>6. /\ Tail(s.events) \in Seq(Events) /\ Frank(s.dead, s.last, Tail(s.events))
      /\ terminal => s.dead
      /\ kind = "session_closed" => s.last = "complete"
      /\ kind \in Events
  <2>1. /\ Tail(s.events) \in Seq(Events) /\ Len(s.events) \in Nat \ {0}
        /\ kind = s.events[1] /\ kind \in Events /\ 1 \in 1..Len(s.events)
        /\ \A i \in 1..Len(Tail(s.events)) : i + 1 \in 1..Len(s.events) /\ Tail(s.events)[i] = s.events[i + 1]
    BY <1>2, <1>5
  <2>2. QED
    BY <1>5, <2>1 DEF Frank
<1>7. result \in {"open", "ok", "failed"} /\ (result = "ok" <=> s.result = "ok")
  BY <1>5
<1>8. sess'[c] = r
  BY <1>1, <1>3, <1>4
<1>9. \A d \in Clients : d # c => sess'[d] = sess[d]
  BY <1>1, <1>3
<1>10. DOMAIN sess' = Clients /\ sess' = [d \in Clients |-> sess'[d]]
  BY <1>1, <1>3
<1> HIDE DEF s, result
<1>11. /\ r \in Sessions /\ r.helper = s.helper /\ r.input = s.input /\ r.dead = s.dead /\ r.last = s.last
       /\ r.tx = s.tx /\ r.events = Tail(s.events) /\ r.result = result
  BY <1>1, <1>6, <1>7 DEF Sessions
<1> HIDE DEF r
<1>12. Sound(r)
  BY <1>1, <1>6, <1>11, SoundIs
<1>13. sess' \in [Clients -> Sessions]
  BY <1>1, <1>8, <1>9, <1>10, <1>11
<1>14. Moves(c)
  <2>1. s.helper = "idle" => ~tuned
    BY <1>4 DEF Sounds
  <2>2. tuned' = tuned /\ tuned' \in BOOLEAN /\ (tuned' => tuned)
    BY <1>1, <1>2
  <2>3. QED
    BY <1>4, <1>8, <1>9, <1>11, <1>12, <1>13, <2>1, <2>2 DEF Moves
<1>15. /\ tuned' = tuned
       /\ sess'[c].helper = sess[c].helper /\ sess'[c].input = sess[c].input
       /\ sess'[c].dead = sess[c].dead /\ sess'[c].last = sess[c].last
       /\ sess'[c].result = "ok" <=> sess[c].result = "ok"
  BY <1>2, <1>4, <1>7, <1>8, <1>11
<1> HIDE DEF kind
<1>16. CASE client # c
  <2>1. client' = client
    BY <1>2, <1>16, Zenon
  <2>2. recoveryNeeded' = recoveryNeeded
    BY <1>2, <1>16
  <2>3. QED
    BY <1>14, <1>15, <1>16, <2>1, <2>2
<1>17. CASE client = c
  <2>1. CASE kind = "session_closed"
    <3>1. client' = NoClient /\ s.dead /\ s.last = "complete" /\ recoveryNeeded' = FALSE
      BY <1>2, <1>6, <1>17, <2>1 DEF Terminal
    <3>2. QED
      BY <1>4, <1>14, <1>15, <1>17, <3>1
  <2>2. CASE kind = "session_terminated"
    <3>1. client' = NoClient /\ s.dead /\ recoveryNeeded' = TRUE
      BY <1>2, <1>6, <1>17, <2>2 DEF Terminal
    <3>2. QED
      BY <1>4, <1>14, <1>15, <1>17, <3>1
  <2>3. CASE kind = "rollback_complete"
    <3>1. client' = client /\ recoveryNeeded' = FALSE
      BY <1>2, <1>17, <2>3 DEF Terminal
    <3>2. QED
      BY <1>14, <1>15, <1>17, <3>1
  <2>4. CASE kind = "rollback_incomplete"
    <3>1. client' = client /\ recoveryNeeded' = TRUE
      BY <1>2, <1>17, <2>4 DEF Terminal
    <3>2. QED
      BY <1>14, <1>15, <1>17, <3>1
  <2>5. QED
    BY <1>6, <2>1, <2>2, <2>3, <2>4 DEF Events
<1>18. QED
  BY <1>16, <1>17

LEMMA Dialing ==
    ASSUME TypeOK, Sounds, NEW c \in Clients, Dial(c)
    PROVE  /\ sess' \in [Clients -> Sessions] /\ tuned' = FALSE /\ sess[c].helper = "none"
           /\ \A d \in Clients : d # c => sess'[d] = sess[d]
           /\ \A d \in Clients : sess[d].helper \notin Alive
           /\ Sound(sess'[c]) /\ sess'[c].helper = "idle" /\ sess'[c].result = "open"
           /\ sess'[c].last = "complete" /\ ~sess'[c].dead
<1> DEFINE u == [Undialled EXCEPT !.helper = "idle", !.last = "complete"]
<1> DEFINE n == Undialled
<1>1. /\ n \in Sessions /\ n.dead = FALSE /\ n.input = TRUE /\ n.result = "open" /\ n.events = <<>>
  BY DEF Undialled, Sessions, Helpers
<1>2. u = [n EXCEPT !.helper = "idle", !.last = "complete"]
  OBVIOUS
<1> HIDE DEF n, u
<1>3. ASSUME NEW v, v = [n EXCEPT !.helper = "idle", !.last = "complete"]
      PROVE  /\ v \in Sessions /\ v.helper = "idle" /\ v.last = "complete" /\ v.dead = FALSE /\ v.input = TRUE
             /\ v.result = "open" /\ v.events = <<>>
  BY <1>1, <1>3 DEF Sessions, Helpers
<1>4. /\ u \in Sessions /\ u.helper = "idle" /\ u.last = "complete" /\ u.dead = FALSE /\ u.input = TRUE
      /\ u.result = "open" /\ u.events = <<>>
  BY <1>2, <1>3, Zenon
<1>5. Becomes(c, u, FALSE) /\ sess[c].helper = "none" /\ \A d \in Clients : sess[d].helper \notin Alive
  BY DEF Dial, u, n
<1>6. Len(u.events) = 0
  BY <1>4
<1>7. Sound(u)
  BY <1>4, <1>6 DEF Sound
<1>8. QED
  BY <1>4, <1>5, <1>7, Becoming

-----------------------------------------------------------------------------
(* Type correctness of every step.                                         *)

LEMMA Went ==
    ASSUME op \in Operations, NEW at, NEW c, Go(at, c),
           at \in {"dial", "install", "apply", "applied", "discard", "revert", "recover", "recovered"},
           c \in MaybeClient
    PROVE  op' \in Operations /\ op'.at = at /\ op'.on = c /\ op'.last = op.last
BY DEF Go, Operations

LEMMA Finished ==
    ASSUME NEW how, Finish(how),
           how \in {"error", "review_changed", "rollback_incomplete", "failed", "lost",
                    "applied", "closed", "discarded", "reverted"}
    PROVE  /\ op' \in Operations /\ op'.at = "none" /\ op'.on = NoClient /\ op'.last = how
           /\ cancelled' = FALSE
BY DEF Finish, Operations, MaybeClient

LEMMA Returned ==
    ASSUME NEW ok, CloseReturns(ok)
    PROVE  /\ closer' \in Closers /\ closer'.at = "none" /\ closer'.on = NoClient
           /\ closer'.result = IF ok THEN "ok" ELSE "failed"
BY DEF CloseReturns, Closers, MaybeClient

\* The closer goes on.
LEMMA Proceeds ==
    ASSUME closer \in Closers, NEW at \in {"join", "look", "close", "closed", "unclosed"},
           closer' = [closer EXCEPT !.at = at]
    PROVE  closer' \in Closers /\ closer'.at = at /\ closer'.on = closer.on /\ closer'.result = closer.result
BY DEF Closers

\* The session an operation holds, and the one Close has taken.
LEMMA HeldSession ==
    ASSUME TypeOK, Operating, op.at \in {"install", "apply", "applied", "discard", "revert", "recovered"}
    PROVE  op.on \in Clients /\ op.on # NoClient
BY DEF TypeOK, Operating, Operations, MaybeClient

LEMMA ClosedSession ==
    ASSUME TypeOK, Unclosed, closer.at = "close"
    PROVE  closer.on \in Clients /\ closer.on # NoClient
BY DEF TypeOK, Unclosed, Closers, MaybeClient

-----------------------------------------------------------------------------
(* What a step of a session leaves of the invariant.                       *)

LEMMA MovesKeep ==
    ASSUME TypeOK, Sounds, NEW c \in Clients, Moves(c)
    PROVE  /\ Sounds'
           /\ \A d \in Clients : Attached(d)' => Attached(d)
           /\ \A d \in Clients : sess[d].helper # "none" => sess'[d].helper # "none"
           /\ \A d \in Clients : sess[d].dead => sess'[d].dead
           /\ (tuned' => tuned) => (Pending' => Pending)
<1>1. \A d \in Clients : d # c => sess'[d] = sess[d]
  BY DEF Moves
<1>2. \A d \in Clients : Sound(sess'[d])
  BY <1>1 DEF Moves, Sounds
<1>3. \A d \in Clients : sess'[d].helper \in Alive => sess[d].helper \in Alive
  BY <1>1 DEF Moves
<1>4. \A d \in Clients : sess'[d].helper = "idle" => ~tuned'
  <2> SUFFICES ASSUME NEW d \in Clients, sess'[d].helper = "idle" PROVE ~tuned'
    OBVIOUS
  <2>1. CASE d = c
    BY <2>1 DEF Moves
  <2>2. CASE d # c
    <3>1. sess[d].helper = "idle" /\ ~tuned
      BY <1>1, <2>2 DEF Sounds
    <3>2. sess[c].helper \notin Alive
      BY <2>2, <3>1 DEF Sounds, Alive
    <3>3. QED
      BY <3>1, <3>2 DEF Moves
  <2>3. QED
    BY <2>1, <2>2
<1>5. Sounds'
  BY <1>2, <1>3, <1>4 DEF Sounds
<1>6. \A d \in Clients : Attached(d)' => Attached(d)
  BY <1>1, <1>3 DEF Moves, Attached
<1>7. \A d \in Clients : sess[d].helper # "none" => sess'[d].helper # "none"
  BY <1>1 DEF Moves
<1>8. \A d \in Clients : sess[d].dead => sess'[d].dead
  BY <1>1 DEF Moves
<1>9. (tuned' => tuned) => (Pending' => Pending)
  BY <1>6 DEF Pending
<1>10. QED
  BY <1>5, <1>6, <1>7, <1>8, <1>9

\* What is held after the step was held before it.
LEMMA HeldKept ==
    ASSUME TypeOK, Sounds, Held, NEW c \in Clients, Moves(c),
           (tuned' => tuned) \/ (client' \in {c, NoClient} /\ op'.on \in {c, NoClient}),
           \A d \in Clients : d = client' \/ d = op'.on => d = client \/ d = op.on
    PROVE  Held'
<1> SUFFICES ASSUME NEW d \in Clients, d = client' \/ d = op'.on
             PROVE  sess'[d].helper # "none" /\ (sess'[d].last = "complete" => ~tuned')
  BY DEF Held
<1>1. sess[d].helper # "none" /\ (sess[d].last = "complete" => ~tuned)
  BY DEF Held
<1>2. sess'[d].helper # "none"
  BY <1>1, MovesKeep
<1>3. sess'[d].last = "complete" => ~tuned'
  <2>1. CASE d = c
    BY <1>1, <2>1 DEF Moves
  <2>2. CASE d # c
    <3>1. sess'[d] = sess[d] /\ (tuned' => tuned)
      BY <2>2, ServiceAssumption DEF Moves
    <3>2. QED
      BY <1>1, <3>1
  <2>3. QED
    BY <2>1, <2>2
<1>4. QED
  BY <1>2, <1>3

\* A step that leaves the sessions alone.
LEMMA Still ==
    ASSUME UNCHANGED <<tuned, sess>>
    PROVE  /\ Sounds => Sounds'
           /\ \A d \in Clients : Attached(d)' <=> Attached(d)
           /\ Pending' <=> Pending
<1>1. Sounds => Sounds'
  BY DEF Sounds
<1>2. \A d \in Clients : Attached(d)' <=> Attached(d)
  BY DEF Attached
<1>3. Pending' <=> Pending
  BY <1>2 DEF Pending
<1>4. QED
  BY <1>1, <1>2, <1>3

\* A client that has given up has no helper that waits.
LEMMA DeadIsDetached ==
    ASSUME Sounds, NEW c \in Clients, sess[c].dead
    PROVE  ~Attached(c)
BY DEF Sounds, Sound, Attached, Alive

-----------------------------------------------------------------------------
(* Every step preserves the invariant: the helpers and the watchers.       *)

Inv == TypeOK /\ ServiceInv

\* The helper's own endings.
LEMMA HelperKeeps ==
    ASSUME Inv, NEW c \in Clients, HelperEnds(c) \/ LeaseExpires(c)
    PROVE  Inv'
<1>1. TypeOK /\ ServiceInv /\ Sounds
  BY DEF Inv, ServiceInv
<1>2. Moves(c) /\ (tuned' => tuned) /\ sess'[c].result = sess[c].result
  BY <1>1, Ending, Expiring
<1>3. UNCHANGED <<client, closed, recoveryNeeded, op, cancelled, closer>>
  BY DEF HelperEnds, LeaseExpires, service
<1>4. TypeOK'
  BY <1>1, <1>2, <1>3 DEF TypeOK, Moves
<1>5. /\ Sounds'
      /\ \A d \in Clients : Attached(d)' => Attached(d)
      /\ \A d \in Clients : sess[d].helper # "none" => sess'[d].helper # "none"
      /\ \A d \in Clients : sess[d].dead => sess'[d].dead
      /\ Pending' => Pending
  BY <1>1, <1>2, MovesKeep
<1>6. \A d \in Clients : sess'[d].result = sess[d].result
  BY <1>2 DEF Moves
<1>7. Held'
  BY <1>1, <1>2, <1>3, HeldKept DEF ServiceInv
<1>8. Operating'
  <2>1. op.at \in {"apply", "applied", "revert"} => op.on \in Clients
    BY <1>1, HeldSession DEF ServiceInv
  <2>2. QED
    BY <1>1, <1>2, <1>3, <1>5, <2>1 DEF ServiceInv, Operating
<1>9. Unclosed'
  BY <1>1, <1>3, <1>6, ServiceAssumption DEF ServiceInv, Unclosed, TypeOK, Operations, Closers, MaybeClient
<1>10. Attachment'
  BY <1>1, <1>3, <1>5 DEF ServiceInv, Attachment
<1>11. Closes'
  <2>1. closer.at = "close" => closer.on \in Clients
    BY <1>1, ClosedSession DEF ServiceInv
  <2>2. QED
    BY <1>1, <1>3, <1>5, <2>1 DEF ServiceInv, Closes
<1>12. Settled'
  BY <1>1, <1>3, <1>5 DEF ServiceInv, Settled
<1>13. QED
  BY <1>4, <1>5, <1>7, <1>8, <1>9, <1>10, <1>11, <1>12 DEF Inv, ServiceInv

LEMMA WatchKeeps ==
    ASSUME Inv, NEW c \in Clients, Watch(c)
    PROVE  Inv'
<1>1. TypeOK /\ ServiceInv /\ Sounds
  BY DEF Inv, ServiceInv
<1>2. /\ Moves(c) /\ (tuned' => tuned)
      /\ sess'[c].result = "ok" <=> sess[c].result = "ok"
  BY <1>1, Watching
<1>3. \/ client # c /\ client' = client /\ recoveryNeeded' = recoveryNeeded
      \/ client = c /\ client' = client /\ recoveryNeeded' = TRUE
      \/ client = c /\ client' = client /\ recoveryNeeded' = FALSE
      \/ client = c /\ client' = NoClient /\ sess[c].dead /\ recoveryNeeded' = TRUE
      \/ client = c /\ client' = NoClient /\ sess[c].dead /\ recoveryNeeded' = FALSE /\ sess[c].last = "complete"
  BY <1>1, Watching
<1>4. UNCHANGED <<closed, op, cancelled, closer>>
  BY DEF Watch
<1>5. client' \in {client, NoClient} /\ client' \in MaybeClient /\ recoveryNeeded' \in BOOLEAN
  BY <1>1, <1>3 DEF TypeOK, MaybeClient
<1>6. TypeOK'
  BY <1>1, <1>2, <1>4, <1>5 DEF TypeOK, Moves
<1>7. /\ Sounds'
      /\ \A d \in Clients : Attached(d)' => Attached(d)
      /\ \A d \in Clients : sess[d].helper # "none" => sess'[d].helper # "none"
      /\ \A d \in Clients : sess[d].dead => sess'[d].dead
      /\ Pending' => Pending
  BY <1>1, <1>2, MovesKeep
<1>8. \A d \in Clients : sess'[d].result = "ok" <=> sess[d].result = "ok"
  BY <1>2 DEF Moves
<1>9. Held'
  BY <1>1, <1>2, <1>4, <1>5, HeldKept, ServiceAssumption DEF ServiceInv
<1>10. client' # client => /\ client = c /\ client' = NoClient /\ sess[c].dead /\ ~Attached(c)
                           /\ tuned => recoveryNeeded'
  <2>1. client = c /\ sess[c].last = "complete" => ~tuned
    BY <1>1 DEF ServiceInv, Held
  <2>2. sess[c].dead => ~Attached(c)
    BY <1>1, DeadIsDetached
  <2>3. QED
    BY <1>3, <2>1, <2>2
<1>11. c # NoClient
  BY ServiceAssumption
<1>12. Operating'
  <2>1. op.at \in {"apply", "applied", "revert"} => op.on \in Clients
    BY <1>1, HeldSession DEF ServiceInv
  <2>2. Operating
    BY <1>1 DEF ServiceInv
  <2>3. op.on = NoClient <=> op.at \in {"none", "dial", "recover"}
    BY <2>2 DEF Operating
  <2>4. op.at \in {"dial", "install", "recover", "recovered", "discard"} => client' = NoClient
    BY <1>5, <2>2 DEF Operating
  <2>5. op.at \in {"apply", "applied", "revert"} => client' \in {op.on, NoClient}
    BY <1>5, <2>2 DEF Operating
  <2>6. op.at \in {"apply", "applied", "revert"} /\ client' = NoClient =>
          sess'[op.on].dead /\ (tuned' => recoveryNeeded')
    <3> SUFFICES ASSUME op.at \in {"apply", "applied", "revert"}, client' = NoClient
                 PROVE  sess'[op.on].dead /\ (tuned' => recoveryNeeded')
      OBVIOUS
    <3>1. CASE client = NoClient
      <4>1. recoveryNeeded' = recoveryNeeded
        BY <1>3, <1>11, <3>1
      <4>2. QED
        BY <1>2, <1>7, <2>1, <2>2, <3>1, <4>1 DEF Operating
    <3>2. CASE client # NoClient
      BY <1>2, <1>7, <1>10, <2>1, <2>5, <2>2, <3>2 DEF Operating
    <3>3. QED
      BY <3>1, <3>2
  <2>7. op.at \in {"recover", "recovered"} => recoveryNeeded'
    BY <1>3, <1>11, <2>2 DEF Operating
  <2>8. op.at = "discard" => closed
    BY <2>2 DEF Operating
  <2>9. QED
    BY <1>4, <2>3, <2>4, <2>5, <2>6, <2>7, <2>8 DEF Operating
<1>13. Unclosed'
  BY <1>1, <1>4, <1>5, <1>8, ServiceAssumption DEF ServiceInv, Unclosed, TypeOK, Operations, Closers, MaybeClient
<1>14. Attachment'
  BY <1>1, <1>4, <1>7, <1>10 DEF ServiceInv, Attachment
<1>15. Closes'
  <2>1. closer.at = "close" => closer.on \in Clients
    BY <1>1, ClosedSession DEF ServiceInv
  <2>2. Closes
    BY <1>1 DEF ServiceInv
  <2>3. closer.at = "close" => client' = closer.on \/ (client' = NoClient /\ sess'[closer.on].dead)
    BY <1>5, <1>7, <1>10, <2>1, <2>2 DEF Closes
  <2>4. closer.result = "ok" => client' = NoClient
    BY <1>5, <2>2 DEF Closes
  <2>5. QED
    BY <1>4, <1>7, <2>1, <2>2, <2>3, <2>4 DEF Closes
<1>16. Settled'
  <2>1. Attachment /\ Settled
    BY <1>1 DEF ServiceInv
  <2>2. CASE client' = client
    <3>1. client = NoClient => recoveryNeeded' = recoveryNeeded
      BY <1>3, <1>11
    <3>2. QED
      BY <1>4, <1>7, <2>1, <2>2, <3>1 DEF Settled
  <2>3. CASE client' # client
    <3>1. Pending' => recoveryNeeded' \/ op.on # NoClient
      <4>1. tuned' => recoveryNeeded'
        BY <1>2, <1>10, <2>3
      <4>2. ASSUME NEW d \in Clients, Attached(d)'
            PROVE  op.on # NoClient
        <5>1. Attached(d) /\ d # client /\ client # NoClient /\ d # NoClient
          BY <1>7, <1>10, <1>11, <2>3, <4>2, ServiceAssumption
        <5>2. QED
          BY <2>1, <5>1 DEF Attachment
      <4>3. QED
        BY <4>1, <4>2 DEF Pending
    <3>2. QED
      BY <1>4, <3>1 DEF Settled
  <2>4. QED
    BY <2>2, <2>3
<1>17. QED
  BY <1>6, <1>7, <1>9, <1>12, <1>13, <1>14, <1>15, <1>16 DEF Inv, ServiceInv

-----------------------------------------------------------------------------
(* The closing of the window.                                              *)

LEMMA StartCloseKeeps ==
    ASSUME Inv, StartClose
    PROVE  Inv'
<1>1. TypeOK /\ ServiceInv /\ Sounds
  BY DEF Inv, ServiceInv
<1>2. /\ closer.at = "none" /\ closer.result # "ok" /\ closed' = TRUE
      /\ cancelled' = (op.at # "none")
      /\ UNCHANGED <<tuned, sess, client, recoveryNeeded, op>>
  BY DEF StartClose
<1>3. /\ closer' \in Closers /\ closer'.on = closer.on /\ closer'.result = closer.result
      /\ closer'.at = IF op.at = "none" THEN "look" ELSE "join"
  <2> DEFINE at == IF op.at = "none" THEN "look" ELSE "join"
  <2>1. at \in {"join", "look", "close", "closed", "unclosed"} /\ closer' = [closer EXCEPT !.at = at]
    BY DEF StartClose
  <2> HIDE DEF at
  <2>2. closer' \in Closers /\ closer'.on = closer.on /\ closer'.result = closer.result /\ closer'.at = at
    BY <1>1, <2>1, Proceeds DEF TypeOK
  <2>3. QED
    BY <2>2 DEF at
<1>4. TypeOK'
  BY <1>1, <1>2, <1>3 DEF TypeOK
<1>5. Sounds' /\ (\A d \in Clients : Attached(d)' <=> Attached(d)) /\ (Pending' <=> Pending)
  BY <1>1, <1>2, Still
<1>6. Held'
  BY <1>1, <1>2 DEF ServiceInv, Held
<1>7. Operating'
  BY <1>1, <1>2 DEF ServiceInv, Operating
<1>8. Unclosed'
  BY <1>1, <1>2, <1>3 DEF ServiceInv, Unclosed
<1>9. Attachment'
  BY <1>1, <1>2, <1>5 DEF ServiceInv, Attachment
<1>10. Closes'
  BY <1>2, <1>3 DEF Closes
<1>11. Settled'
  BY <1>1, <1>2, <1>3, <1>5 DEF ServiceInv, Settled
<1>12. QED
  BY <1>4, <1>5, <1>6, <1>7, <1>8, <1>9, <1>10, <1>11 DEF Inv, ServiceInv

LEMMA JoinKeeps ==
    ASSUME Inv, Join
    PROVE  Inv'
<1>1. TypeOK /\ ServiceInv /\ Sounds
  BY DEF Inv, ServiceInv
<1>2. closer.at = "join" /\ UNCHANGED <<tuned, sess, client, closed, recoveryNeeded, op, cancelled>>
  BY DEF Join, service
<1>3. /\ closer' \in Closers
      /\ \/ closer'.at = "look" /\ closer'.result = closer.result /\ op.at = "none"
         \/ closer'.at = "none" /\ closer'.result = "failed"
  <2>1. CASE op.at = "none" /\ closer' = [closer EXCEPT !.at = "look"]
    BY <1>1, <2>1, Proceeds DEF TypeOK
  <2>2. CASE CloseReturns(FALSE)
    BY <2>2, Returned
  <2>3. QED
    BY <2>1, <2>2 DEF Join
<1>4. TypeOK'
  BY <1>1, <1>2, <1>3 DEF TypeOK
<1>5. Sounds' /\ (\A d \in Clients : Attached(d)' <=> Attached(d)) /\ (Pending' <=> Pending)
  BY <1>1, <1>2, Still
<1>6. Held'
  BY <1>1, <1>2 DEF ServiceInv, Held
<1>7. Operating'
  BY <1>1, <1>2 DEF ServiceInv, Operating
<1>8. Unclosed'
  BY <1>1, <1>2, <1>3 DEF ServiceInv, Unclosed
<1>9. Attachment'
  BY <1>1, <1>2, <1>5 DEF ServiceInv, Attachment
<1>10. Closes'
  BY <1>1, <1>2, <1>3 DEF ServiceInv, Closes
<1>11. Settled'
  BY <1>1, <1>2, <1>3, <1>5 DEF ServiceInv, Settled
<1>12. QED
  BY <1>4, <1>5, <1>6, <1>7, <1>8, <1>9, <1>10, <1>11 DEF Inv, ServiceInv

LEMMA LookKeeps ==
    ASSUME Inv, Look
    PROVE  Inv'
<1>1. TypeOK /\ ServiceInv /\ Sounds
  BY DEF Inv, ServiceInv
<1>2. closer.at = "look" /\ UNCHANGED <<tuned, sess, client, recoveryNeeded, op, cancelled>>
  BY DEF Look
<1>3. closed = TRUE /\ op.at = "none" /\ op.on = NoClient /\ closer.result # "ok"
  BY <1>1, <1>2 DEF ServiceInv, Closes, Operating, TypeOK
<1>4. \/ /\ client # NoClient /\ closed' = closed
         /\ closer' \in Closers /\ closer'.at = "close" /\ closer'.on = client /\ closer'.result = closer.result
      \/ /\ client = NoClient /\ closed' = ~recoveryNeeded /\ closer' \in Closers /\ closer'.at = "none"
         /\ closer'.result = IF ~recoveryNeeded THEN "ok" ELSE "failed"
  <2>1. CASE client # NoClient /\ closer' = [closer EXCEPT !.at = "close", !.on = client] /\ UNCHANGED closed
    BY <1>1, <2>1 DEF TypeOK, Closers
  <2>2. CASE client = NoClient /\ CloseReturns(~recoveryNeeded) /\ closed' = ~recoveryNeeded
    BY <2>2, Returned
  <2>3. QED
    BY <2>1, <2>2 DEF Look
<1>5. TypeOK'
  BY <1>1, <1>2, <1>4 DEF TypeOK
<1>6. Sounds' /\ (\A d \in Clients : Attached(d)' <=> Attached(d)) /\ (Pending' <=> Pending)
  BY <1>1, <1>2, Still
<1>7. Held'
  BY <1>1, <1>2 DEF ServiceInv, Held
<1>8. Operating'
  BY <1>1, <1>2, <1>3 DEF ServiceInv, Operating
<1>9. Unclosed'
  BY <1>1, <1>2, <1>4 DEF ServiceInv, Unclosed
<1>10. Attachment'
  BY <1>1, <1>2, <1>6 DEF ServiceInv, Attachment
<1>11. CASE client # NoClient
  <2>1. client \in Clients
    BY <1>1, <1>11 DEF TypeOK, MaybeClient
  <2>2. /\ sess[client].helper # "none"
        /\ \A d \in Clients : Attached(d) => d = client
    BY <1>1, <1>3, <1>11, <2>1, ServiceAssumption DEF ServiceInv, Held, Attachment
  <2>3. Closes'
    BY <1>2, <1>3, <1>4, <1>6, <1>11, <2>2 DEF Closes
  <2>4. Settled'
    BY <1>2, <1>11 DEF Settled
  <2>5. QED
    BY <1>5, <1>6, <1>7, <1>8, <1>9, <1>10, <2>3, <2>4 DEF Inv, ServiceInv
<1>12. CASE client = NoClient
  <2>1. Pending /\ ~recoveryNeeded => op.last = "discarded"
    BY <1>1, <1>3, <1>12 DEF ServiceInv, Settled
  <2>2. Closes'
    BY <1>2, <1>3, <1>4, <1>6, <1>12, <2>1 DEF Closes
  <2>3. Settled'
    BY <1>2, <1>3, <1>4, <1>6, <1>12, <2>1 DEF Settled
  <2>4. QED
    BY <1>5, <1>6, <1>7, <1>8, <1>9, <1>10, <2>2, <2>3 DEF Inv, ServiceInv
<1>13. QED
  BY <1>11, <1>12

LEMMA CallCloseKeeps ==
    ASSUME Inv, CallClose
    PROVE  Inv'
<1>1. TypeOK /\ ServiceInv /\ Sounds /\ closer.at = "close"
  BY DEF Inv, ServiceInv, CallClose
<1> PICK c \in Clients : c = closer.on
  BY <1>1, ClosedSession DEF ServiceInv
<1>2. UNCHANGED <<client, closed, recoveryNeeded, op, cancelled>>
  BY DEF CallClose, service
<1>3. /\ c # NoClient /\ sess[c].helper # "none" /\ sess[c].result # "ok"
      /\ closed /\ op.at = "none" /\ op.on = NoClient /\ closer.result # "ok"
      /\ client = c \/ client = NoClient
      /\ \A d \in Clients : Attached(d) => d = c
  BY <1>1, ClosedSession DEF ServiceInv, Closes, Unclosed, Operating
<1>4. PICK ok \in BOOLEAN : /\ ClientClose(c, ok)
                            /\ closer' = [closer EXCEPT !.at = IF ok THEN "closed" ELSE "unclosed"]
  BY DEF CallClose
<1>5. /\ Moves(c) /\ (tuned' => tuned)
      /\ ok => sess'[c].result = "ok" /\ ~tuned' /\ sess'[c].helper = "ended"
      /\ ~ok => sess'[c].result # "ok"
  BY <1>1, <1>3, <1>4, Shutting
<1>6. /\ closer' \in Closers /\ closer'.on = c /\ closer'.result = closer.result
      /\ closer'.at = IF ok THEN "closed" ELSE "unclosed"
  <2> DEFINE at == IF ok THEN "closed" ELSE "unclosed"
  <2>1. at \in {"join", "look", "close", "closed", "unclosed"} /\ closer' = [closer EXCEPT !.at = at]
    BY <1>4
  <2> HIDE DEF at
  <2>2. closer' \in Closers /\ closer'.on = closer.on /\ closer'.result = closer.result /\ closer'.at = at
    BY <1>1, <2>1, Proceeds DEF TypeOK
  <2>3. QED
    BY <2>2 DEF at
<1>7. TypeOK'
  BY <1>1, <1>2, <1>5, <1>6 DEF TypeOK, Moves
<1>8. /\ Sounds'
      /\ \A d \in Clients : Attached(d)' => Attached(d)
      /\ Pending' => Pending
  BY <1>1, <1>3, <1>5, MovesKeep
<1>9. Held'
  BY <1>1, <1>2, <1>3, <1>5, HeldKept DEF ServiceInv
<1>10. Operating'
  BY <1>1, <1>2, <1>3 DEF ServiceInv, Operating
<1>11. Unclosed'
  <2>1. client # NoClient => sess'[client].result # "ok" \/ closer'.at = "closed"
    BY <1>3, <1>5, <1>6
  <2>2. QED
    BY <1>2, <1>3, <1>6, <2>1 DEF Unclosed
<1>12. Attachment'
  BY <1>1, <1>2, <1>8 DEF ServiceInv, Attachment
<1>13. ok => ~Pending'
  <2>1. ok => ~Attached(c)'
    BY <1>5 DEF Attached, Alive
  <2>2. QED
    BY <1>3, <1>5, <1>8, <2>1 DEF Pending
<1>14. Closes'
  BY <1>2, <1>3, <1>6, <1>13 DEF Closes
<1>15. Settled'
  BY <1>1, <1>2, <1>8 DEF ServiceInv, Settled
<1>16. QED
  BY <1>7, <1>8, <1>9, <1>10, <1>11, <1>12, <1>14, <1>15 DEF Inv, ServiceInv

LEMMA EndCloseKeeps ==
    ASSUME Inv, EndClose
    PROVE  Inv'
<1>1. TypeOK /\ ServiceInv /\ Sounds
  BY DEF Inv, ServiceInv
<1>2. UNCHANGED <<tuned, sess, recoveryNeeded, op, cancelled>>
  BY DEF EndClose
<1>3. /\ closer.at \in {"closed", "unclosed"} /\ closed /\ op.at = "none" /\ op.on = NoClient
  BY <1>1 DEF EndClose, ServiceInv, Closes, Operating
<1>4. /\ closer' \in Closers /\ closer'.at = "none"
      /\ \/ closer.at = "closed" /\ client' = NoClient /\ closed' = closed /\ closer'.result = "ok"
         \/ closer.at = "unclosed" /\ client' = client /\ closed' = FALSE /\ closer'.result = "failed"
  <2>1. CASE closer.at = "closed" /\ client' = NoClient /\ CloseReturns(TRUE) /\ UNCHANGED closed
    BY <2>1, Returned
  <2>2. CASE closer.at = "unclosed" /\ closed' = FALSE /\ CloseReturns(FALSE) /\ UNCHANGED client
    BY <2>2, Returned
  <2>3. QED
    BY <2>1, <2>2 DEF EndClose
<1>5. TypeOK'
  BY <1>1, <1>2, <1>4 DEF TypeOK, MaybeClient
<1>6. Sounds' /\ (\A d \in Clients : Attached(d)' <=> Attached(d)) /\ (Pending' <=> Pending)
  BY <1>1, <1>2, Still
<1>7. closer.at = "closed" => ~Pending /\ \A d \in Clients : ~Attached(d)
  BY <1>1 DEF ServiceInv, Closes, Pending
<1>8. Held'
  BY <1>1, <1>2, <1>4, ServiceAssumption DEF ServiceInv, Held
<1>9. Operating'
  BY <1>1, <1>2, <1>3 DEF ServiceInv, Operating
<1>10. Unclosed'
  BY <1>1, <1>2, <1>3, <1>4 DEF ServiceInv, Unclosed
<1>11. Attachment'
  BY <1>1, <1>2, <1>4, <1>6, <1>7 DEF ServiceInv, Attachment
<1>12. Closes'
  BY <1>2, <1>3, <1>4, <1>6, <1>7 DEF Closes
<1>13. Settled'
  BY <1>1, <1>2, <1>4, <1>6, <1>7 DEF ServiceInv, Settled
<1>14. QED
  BY <1>5, <1>6, <1>8, <1>9, <1>10, <1>11, <1>12, <1>13 DEF Inv, ServiceInv

-----------------------------------------------------------------------------
(* The operations.                                                         *)

\* An operation is not at work together with the last steps of Close.
LEMMA AtWork ==
    ASSUME Inv, op.at # "none"
    PROVE  closer.at \in {"none", "join"} /\ closer.result # "ok"
BY DEF Inv, TypeOK, Closers, ServiceInv, Closes

LEMMA StartApplyKeeps ==
    ASSUME Inv, StartApply
    PROVE  Inv'
<1>1. TypeOK /\ ServiceInv /\ Sounds
  BY DEF Inv, ServiceInv
<1>2. op.at = "none" /\ ~closed /\ UNCHANGED <<tuned, sess, client, closed, recoveryNeeded, cancelled, closer>>
  BY DEF StartApply, service
<1>3. op.on = NoClient /\ closer.at = "none" /\ closer.result # "ok"
  BY <1>1, <1>2 DEF ServiceInv, Operating, Closes
<1>4. /\ op' \in Operations /\ op'.on = client /\ op'.last = op.last
      /\ op'.at = IF client = NoClient THEN "dial" ELSE "apply"
  <2> DEFINE at == IF client = NoClient THEN "dial" ELSE "apply"
  <2>1. Go(at, client) /\ at \in {"dial", "apply"}
    BY DEF StartApply
  <2> HIDE DEF at
  <2>2. op' \in Operations /\ op'.at = at /\ op'.on = client /\ op'.last = op.last
    BY <1>1, <2>1, Went DEF TypeOK
  <2>3. QED
    BY <2>2 DEF at
<1>5. TypeOK'
  BY <1>1, <1>2, <1>4 DEF TypeOK
<1>6. Sounds' /\ (\A d \in Clients : Attached(d)' <=> Attached(d)) /\ (Pending' <=> Pending)
  BY <1>1, <1>2, Still
<1>7. Held'
  BY <1>1, <1>2, <1>4 DEF ServiceInv, Held
<1>8. Operating'
  BY <1>1, <1>2, <1>4 DEF ServiceInv, Operating
<1>9. Unclosed'
  BY <1>1, <1>2, <1>3, <1>4 DEF ServiceInv, Unclosed
<1>10. Attachment'
  BY <1>1, <1>2, <1>3, <1>4, <1>6, ServiceAssumption DEF ServiceInv, Attachment
<1>11. Closes'
  BY <1>2, <1>3 DEF Closes
<1>12. Settled'
  BY <1>1, <1>2, <1>3, <1>4, <1>6 DEF ServiceInv, Settled
<1>13. QED
  BY <1>5, <1>6, <1>7, <1>8, <1>9, <1>10, <1>11, <1>12 DEF Inv, ServiceInv

LEMMA StartRevertKeeps ==
    ASSUME Inv, StartRevert
    PROVE  Inv'
<1>1. TypeOK /\ ServiceInv /\ Sounds
  BY DEF Inv, ServiceInv
<1>2. op.at = "none" /\ ~closed /\ UNCHANGED <<tuned, sess, client, closed, recoveryNeeded, cancelled, closer>>
  BY DEF StartRevert, service
<1>3. op.on = NoClient /\ closer.at = "none" /\ closer.result # "ok"
  BY <1>1, <1>2 DEF ServiceInv, Operating, Closes
<1>4. /\ op' \in Operations /\ op'.last = op.last
      /\ \/ client # NoClient /\ op'.at = "revert" /\ op'.on = client
         \/ client = NoClient /\ recoveryNeeded /\ op'.at = "recover" /\ op'.on = NoClient
  <2>1. CASE client # NoClient /\ Go("revert", client)
    BY <1>1, <2>1, Went DEF TypeOK
  <2>2. CASE client = NoClient /\ recoveryNeeded /\ Go("recover", NoClient)
    BY <1>1, <2>2, Went DEF TypeOK, MaybeClient
  <2>3. QED
    BY <2>1, <2>2 DEF StartRevert
<1>5. TypeOK'
  BY <1>1, <1>2, <1>4 DEF TypeOK
<1>6. Sounds' /\ (\A d \in Clients : Attached(d)' <=> Attached(d)) /\ (Pending' <=> Pending)
  BY <1>1, <1>2, Still
<1>7. Held'
  BY <1>1, <1>2, <1>4 DEF ServiceInv, Held
<1>8. Operating'
  BY <1>1, <1>2, <1>4 DEF ServiceInv, Operating
<1>9. Unclosed'
  BY <1>1, <1>2, <1>3, <1>4 DEF ServiceInv, Unclosed
<1>10. Attachment'
  BY <1>1, <1>2, <1>3, <1>4, <1>6, ServiceAssumption DEF ServiceInv, Attachment
<1>11. Closes'
  BY <1>2, <1>3 DEF Closes
<1>12. Settled'
  BY <1>1, <1>2, <1>3, <1>4, <1>6 DEF ServiceInv, Settled
<1>13. QED
  BY <1>5, <1>6, <1>7, <1>8, <1>9, <1>10, <1>11, <1>12 DEF Inv, ServiceInv

\* A helper is dialled by an operation that holds nothing.
LEMMA DialedKeeps ==
    ASSUME Inv, NEW c \in Clients, Dial(c), op.at \in {"dial", "recover"},
           op'.at \in {"install", "recovered"}, op'.at = "recovered" <=> op.at = "recover",
           op' \in Operations, op'.on = c, op'.last = op.last,
           UNCHANGED <<client, closed, recoveryNeeded, cancelled, closer>>
    PROVE  Inv'
<1>1. TypeOK /\ ServiceInv /\ Sounds /\ c # NoClient
  BY ServiceAssumption DEF Inv, ServiceInv
<1>2. /\ sess' \in [Clients -> Sessions] /\ tuned' = FALSE /\ sess[c].helper = "none"
      /\ \A d \in Clients : d # c => sess'[d] = sess[d]
      /\ \A d \in Clients : sess[d].helper \notin Alive
      /\ Sound(sess'[c]) /\ sess'[c].helper = "idle" /\ sess'[c].result = "open"
      /\ sess'[c].last = "complete" /\ ~sess'[c].dead
  BY <1>1, Dialing
<1>3. closer.at \in {"none", "join"} /\ closer.result # "ok" /\ client = NoClient
  BY <1>1, AtWork DEF ServiceInv, Operating
<1>4. TypeOK'
  BY <1>1, <1>2 DEF TypeOK
<1>5. \A d \in Clients : sess'[d].helper \in Alive => d = c
  BY <1>2
<1>6. Sounds'
  <2>1. \A d \in Clients : Sound(sess'[d])
    BY <1>1, <1>2 DEF Sounds
  <2>2. QED
    BY <1>2, <1>5, <2>1 DEF Sounds
<1>7. Held'
  BY <1>2, <1>3, ServiceAssumption DEF Held
<1>8. Operating'
  BY <1>1, <1>3 DEF ServiceInv, Operating
<1>9. Unclosed'
  BY <1>2, <1>3 DEF Unclosed
<1>10. Attachment'
  BY <1>5 DEF Attachment, Attached
<1>11. Closes'
  BY <1>1, <1>3 DEF ServiceInv, Closes
<1>12. Settled'
  BY <1>1 DEF Settled
<1>13. QED
  BY <1>4, <1>6, <1>7, <1>8, <1>9, <1>10, <1>11, <1>12 DEF Inv, ServiceInv

\* The dial fails: the operation ends with nothing held.
LEMMA DialFailedKeeps ==
    ASSUME Inv, op.at \in {"dial", "recover"}, Finish("error"), recoveryNeeded' \in BOOLEAN,
           recoveryNeeded => recoveryNeeded', UNCHANGED <<tuned, sess, client, closed, closer>>
    PROVE  Inv'
<1>1. TypeOK /\ ServiceInv /\ Sounds
  BY DEF Inv, ServiceInv
<1>2. closer.at \in {"none", "join"} /\ closer.result # "ok" /\ client = NoClient /\ op.on = NoClient
  BY <1>1, AtWork DEF ServiceInv, Operating
<1>3. op' \in Operations /\ op'.at = "none" /\ op'.on = NoClient /\ op'.last = "error" /\ cancelled' = FALSE
  BY Finished
<1>4. TypeOK'
  BY <1>1, <1>3 DEF TypeOK
<1>5. Sounds' /\ (\A d \in Clients : Attached(d)' <=> Attached(d)) /\ (Pending' <=> Pending)
  BY <1>1, Still
<1>6. Held'
  BY <1>1, <1>2, <1>3 DEF ServiceInv, Held
<1>7. Operating'
  BY <1>3 DEF Operating
<1>8. Unclosed'
  BY <1>2, <1>3 DEF Unclosed
<1>9. Attachment'
  BY <1>2, <1>3 DEF Attachment
<1>10. Closes'
  BY <1>1, <1>2, <1>3 DEF ServiceInv, Closes
<1>11. Settled'
  BY <1>1, <1>2, <1>5 DEF ServiceInv, Settled
<1>12. QED
  BY <1>4, <1>5, <1>6, <1>7, <1>8, <1>9, <1>10, <1>11 DEF Inv, ServiceInv

LEMMA DialApplyKeeps ==
    ASSUME Inv, DialApply
    PROVE  Inv'
<1>1. op.at = "dial" /\ op \in Operations /\ recoveryNeeded \in BOOLEAN /\ UNCHANGED <<client, closed, closer>>
  BY DEF Inv, TypeOK, DialApply
<1>2. CASE \E c \in Clients : Dial(c) /\ Go("install", c) /\ UNCHANGED <<recoveryNeeded, cancelled>>
  <2>1. PICK c \in Clients : Dial(c) /\ Go("install", c) /\ UNCHANGED <<recoveryNeeded, cancelled>>
    BY <1>2
  <2>2. op' \in Operations /\ op'.at = "install" /\ op'.on = c /\ op'.last = op.last
    BY <1>1, <2>1, Went DEF MaybeClient
  <2>3. QED
    BY <1>1, <2>1, <2>2, DialedKeeps
<1>3. CASE Finish("error") /\ recoveryNeeded' \in {recoveryNeeded, TRUE} /\ UNCHANGED <<tuned, sess>>
  <2>1. recoveryNeeded' \in BOOLEAN /\ (recoveryNeeded => recoveryNeeded')
    <3>1. CASE recoveryNeeded' = recoveryNeeded
      BY <1>1, <3>1
    <3>2. CASE recoveryNeeded' = TRUE
      BY <3>2
    <3>3. QED
      BY <1>3, <3>1, <3>2
  <2>2. QED
    BY <1>1, <1>3, <2>1, DialFailedKeeps
<1>4. QED
  BY <1>2, <1>3 DEF DialApply

LEMMA RecoverKeeps ==
    ASSUME Inv, Recover
    PROVE  Inv'
<1>1. op.at = "recover" /\ op \in Operations /\ recoveryNeeded \in BOOLEAN
      /\ UNCHANGED <<client, closed, recoveryNeeded, closer>>
  BY DEF Inv, TypeOK, Recover, service
<1>2. CASE \E c \in Clients : Dial(c) /\ Go("recovered", c) /\ UNCHANGED cancelled
  <2>1. PICK c \in Clients : Dial(c) /\ Go("recovered", c) /\ UNCHANGED cancelled
    BY <1>2
  <2>2. op' \in Operations /\ op'.at = "recovered" /\ op'.on = c /\ op'.last = op.last
    BY <1>1, <2>1, Went DEF MaybeClient
  <2>3. QED
    BY <1>1, <2>1, <2>2, DialedKeeps
<1>3. CASE Finish("error") /\ UNCHANGED <<tuned, sess>>
  BY <1>1, <1>3, DialFailedKeeps
<1>4. QED
  BY <1>2, <1>3 DEF Recover

LEMMA InstallKeeps ==
    ASSUME Inv, Install
    PROVE  Inv'
<1>1. TypeOK /\ ServiceInv /\ Sounds
  BY DEF Inv, ServiceInv
<1>2. op.at = "install" /\ UNCHANGED <<tuned, sess, closed, recoveryNeeded, closer>>
  BY DEF Install
<1>3. /\ op.on \in Clients /\ op.on # NoClient /\ client = NoClient /\ sess[op.on].result # "ok"
      /\ closer.at \in {"none", "join"} /\ closer.result # "ok" /\ op \in Operations
  BY <1>1, <1>2, HeldSession, AtWork DEF ServiceInv, Operating, Unclosed, TypeOK
<1>4. /\ op' \in Operations /\ cancelled' \in BOOLEAN
      /\ \/ closed /\ op'.at = "discard" /\ op'.on = op.on /\ client' = client
         \/ ~closed /\ op'.at = "apply" /\ op'.on = op.on /\ client' = op.on
         \/ ~closed /\ op'.at = "none" /\ op'.on = NoClient /\ client' = op.on
  <2>1. CASE closed /\ Go("discard", op.on) /\ UNCHANGED <<client, cancelled>>
    BY <1>1, <1>3, <2>1, Went DEF TypeOK, MaybeClient
  <2>2. CASE ~closed /\ client' = op.on /\ Go("apply", op.on) /\ UNCHANGED cancelled
    BY <1>1, <1>3, <2>2, Went DEF TypeOK, MaybeClient
  <2>3. CASE ~closed /\ client' = op.on /\ Finish("review_changed")
    BY <2>3, Finished
  <2>4. QED
    BY <2>1, <2>2, <2>3 DEF Install
<1>5. TypeOK'
  BY <1>1, <1>2, <1>3, <1>4 DEF TypeOK, MaybeClient
<1>6. Sounds' /\ (\A d \in Clients : Attached(d)' <=> Attached(d)) /\ (Pending' <=> Pending)
  BY <1>1, <1>2, Still
<1>7. Held'
  BY <1>1, <1>2, <1>3, <1>4, ServiceAssumption DEF ServiceInv, Held
<1>8. Operating'
  BY <1>2, <1>3, <1>4 DEF Operating
<1>9. Unclosed'
  BY <1>2, <1>3, <1>4 DEF Unclosed
<1>10. Attachment'
  BY <1>1, <1>3, <1>4, <1>6, ServiceAssumption DEF ServiceInv, Attachment
<1>11. Closes'
  BY <1>1, <1>2, <1>3 DEF ServiceInv, Closes
<1>12. Settled'
  BY <1>3, <1>4 DEF Settled
<1>13. QED
  BY <1>5, <1>6, <1>7, <1>8, <1>9, <1>10, <1>11, <1>12 DEF Inv, ServiceInv

\* A call on the held session, live or given up: the session is the service's, or
\* was dropped by its watcher, which knew of the recovery.
LEMMA CallEndsKeeps ==
    ASSUME Inv, op.at \in {"apply", "applied", "revert"}, NEW c \in Clients, c = op.on,
           Moves(c), sess'[c].result = sess[c].result, (tuned' => tuned) \/ ~sess[c].dead,
           NEW how \in {"error", "review_changed", "rollback_incomplete", "failed", "lost",
                        "applied", "closed", "discarded", "reverted"},
           Finish(how), UNCHANGED <<client, closed, recoveryNeeded, closer>>
    PROVE  Inv'
<1>1. TypeOK /\ ServiceInv /\ Sounds /\ Held /\ Attachment /\ c # NoClient
  BY ServiceAssumption DEF Inv, ServiceInv
<1>2. /\ closer.at \in {"none", "join"} /\ closer.result # "ok"
      /\ client \in {c, NoClient}
      /\ client = NoClient => sess[c].dead /\ (tuned => recoveryNeeded)
  BY <1>1, AtWork DEF ServiceInv, Operating
<1>3. op' \in Operations /\ op'.at = "none" /\ op'.on = NoClient /\ cancelled' = FALSE
  BY Finished
<1>4. TypeOK'
  BY <1>1, <1>3 DEF TypeOK, Moves
<1>5. /\ Sounds'
      /\ \A d \in Clients : Attached(d)' => Attached(d)
      /\ (tuned' => tuned) => (Pending' => Pending)
  BY <1>1, MovesKeep
<1>6. Held'
  BY <1>1, <1>2, <1>3, HeldKept, ServiceAssumption
<1>7. Operating'
  BY <1>3 DEF Operating
<1>8. Unclosed'
  BY <1>1, <1>2, <1>3 DEF ServiceInv, Unclosed
<1>9. \A d \in Clients : Attached(d) => d = client
  <2> SUFFICES ASSUME NEW d \in Clients, Attached(d) PROVE d = client
    OBVIOUS
  <2>1. d = client \/ d = c
    BY <1>1 DEF Attachment
  <2>2. QED
    BY <1>1, <1>2, <2>1, DeadIsDetached
<1>10. Attachment'
  BY <1>5, <1>9 DEF Attachment
<1>11. Closes'
  BY <1>1, <1>2, <1>3 DEF ServiceInv, Closes
<1>12. client = NoClient /\ Pending' => recoveryNeeded
  <2> SUFFICES ASSUME client = NoClient, Pending' PROVE recoveryNeeded
    OBVIOUS
  <2>1. Pending /\ (tuned => recoveryNeeded)
    BY <1>2, <1>5
  <2>2. \A d \in Clients : ~Attached(d)
    BY <1>9, ServiceAssumption
  <2>3. QED
    BY <2>1, <2>2 DEF Pending
<1>13. Settled'
  BY <1>12 DEF Settled
<1>14. QED
  BY <1>4, <1>5, <1>6, <1>7, <1>8, <1>10, <1>11, <1>13 DEF Inv, ServiceInv

LEMMA CallApplyKeeps ==
    ASSUME Inv, CallApply
    PROVE  Inv'
<1>1. TypeOK /\ ServiceInv /\ Sounds /\ Held /\ op.at = "apply"
  BY DEF Inv, ServiceInv, CallApply
<1>2. PICK c \in Clients : c = op.on
  BY <1>1, HeldSession DEF ServiceInv
<1>3. UNCHANGED <<client, closed, recoveryNeeded, closer>> /\ sess[c].helper # "none"
  BY <1>1, <1>2 DEF CallApply, service, Held
<1>4. CASE ClientApply(op.on, "applied") /\ Go("applied", op.on) /\ UNCHANGED cancelled
  <2>1. Moves(c) /\ ~sess[c].dead /\ sess'[c].result = sess[c].result
    BY <1>1, <1>2, <1>3, <1>4, Applying
  <2>2. /\ op' \in Operations /\ op'.at = "applied" /\ op'.on = op.on /\ cancelled' = cancelled
    BY <1>1, <1>2, <1>4, Went DEF TypeOK, MaybeClient
  <2>3. /\ closer.at \in {"none", "join"} /\ closer.result # "ok" /\ client = c /\ c # NoClient
    BY <1>1, <1>2, <2>1, AtWork, ServiceAssumption DEF ServiceInv, Operating
  <2>4. TypeOK'
    BY <1>1, <1>3, <2>1, <2>2 DEF TypeOK, Moves
  <2>5. Sounds' /\ \A d \in Clients : Attached(d)' => Attached(d)
    BY <1>1, <2>1, MovesKeep
  <2>6. Held'
    BY <1>1, <1>2, <1>3, <2>1, <2>2, <2>3, HeldKept
  <2>7. Operating'
    BY <1>2, <1>3, <2>2, <2>3 DEF Operating
  <2>8. Unclosed'
    BY <1>1, <1>2, <1>3, <2>1, <2>2, <2>3 DEF ServiceInv, Unclosed
  <2>9. Attachment'
    BY <1>1, <1>3, <2>2, <2>5 DEF ServiceInv, Attachment
  <2>10. Closes'
    BY <1>1, <1>3, <2>3 DEF ServiceInv, Closes
  <2>11. Settled'
    BY <1>3, <2>3 DEF Settled
  <2>12. QED
    BY <2>4, <2>5, <2>6, <2>7, <2>8, <2>9, <2>10, <2>11 DEF Inv, ServiceInv
<1>5. ASSUME NEW outcome \in {"review_changed", "rollback_incomplete", "failed", "lost"},
             ClientApply(op.on, outcome), Finish(outcome)
      PROVE  Inv'
  <2>1. Moves(c) /\ ~sess[c].dead /\ sess'[c].result = sess[c].result
    BY <1>1, <1>2, <1>3, <1>5, Applying
  <2>2. QED
    BY <1>1, <1>2, <1>3, <1>5, <2>1, CallEndsKeeps
<1>6. CASE sess[op.on].dead /\ Finish("lost") /\ UNCHANGED <<tuned, sess>>
  <2>1. Moves(c)
    BY <1>1, <1>6, Staying
  <2>2. QED
    BY <1>1, <1>2, <1>3, <1>6, <2>1, CallEndsKeeps
<1>7. QED
  BY <1>4, <1>5, <1>6 DEF CallApply

LEMMA AppliedKeeps ==
    ASSUME Inv, Applied
    PROVE  Inv'
<1>1. TypeOK /\ ServiceInv /\ Sounds /\ Held /\ op.at = "applied"
  BY DEF Inv, ServiceInv, Applied
<1>2. PICK c \in Clients : c = op.on
  BY <1>1, HeldSession DEF ServiceInv
<1>3. UNCHANGED <<tuned, sess, closed, recoveryNeeded, closer>>
  BY DEF Applied
<1>4. CASE /\ closed /\ Go("discard", op.on) /\ UNCHANGED cancelled
           /\ client' = IF client = op.on THEN NoClient ELSE client
  <2>1. op' \in Operations /\ op'.at = "discard" /\ op'.on = op.on
    BY <1>1, <1>2, <1>4, Went DEF TypeOK, MaybeClient
  <2>2. /\ closer.at \in {"none", "join"} /\ closer.result # "ok" /\ client' = NoClient /\ c # NoClient
        /\ \A d \in Clients : Attached(d) => d = c
    BY <1>1, <1>2, <1>4, AtWork, ServiceAssumption DEF ServiceInv, Operating, Attachment
  <2>3. TypeOK'
    BY <1>1, <1>3, <1>4, <2>1, <2>2 DEF TypeOK, MaybeClient
  <2>4. Sounds' /\ \A d \in Clients : Attached(d)' <=> Attached(d)
    BY <1>1, <1>3, Still
  <2>5. Held'
    BY <1>1, <1>3, <2>1, <2>2, ServiceAssumption DEF Held
  <2>6. Operating'
    BY <1>2, <1>3, <1>4, <2>1, <2>2 DEF Operating
  <2>7. Unclosed'
    BY <1>1, <1>3, <2>1, <2>2 DEF ServiceInv, Unclosed
  <2>8. Attachment'
    BY <1>2, <2>1, <2>2, <2>4 DEF Attachment
  <2>9. Closes'
    BY <1>1, <1>3, <2>2 DEF ServiceInv, Closes
  <2>10. Settled'
    BY <1>2, <2>1, <2>2 DEF Settled
  <2>11. QED
    BY <2>3, <2>4, <2>5, <2>6, <2>7, <2>8, <2>9, <2>10 DEF Inv, ServiceInv
<1>5. CASE Finish(IF client = op.on THEN "applied" ELSE "lost") /\ UNCHANGED client
  <2>1. Moves(c)
    BY <1>1, <1>3, Staying
  <2>2. PICK how \in {"applied", "lost"} : Finish(how)
    BY <1>5
  <2>3. QED
    BY <1>1, <1>2, <1>3, <1>5, <2>1, <2>2, CallEndsKeeps
<1>6. QED
  BY <1>4, <1>5 DEF Applied

LEMMA CallRevertKeeps ==
    ASSUME Inv, CallRevert
    PROVE  Inv'
<1>1. TypeOK /\ ServiceInv /\ Sounds /\ Held /\ op.at = "revert"
  BY DEF Inv, ServiceInv, CallRevert
<1>2. PICK c \in Clients : c = op.on
  BY <1>1, HeldSession DEF ServiceInv
<1>3. /\ UNCHANGED <<client, closed, recoveryNeeded, closer>> /\ sess[c].helper # "none"
      /\ sess[c].last = "complete" => ~tuned
  BY <1>1, <1>2 DEF CallRevert, service, Held
<1>4. PICK ok \in BOOLEAN : /\ ClientRevert(c, ok)
                            /\ Finish(IF ok THEN "reverted" ELSE "rollback_incomplete")
  BY <1>2 DEF CallRevert
<1>5. Moves(c) /\ (tuned' => tuned) /\ sess'[c].result = sess[c].result
  BY <1>1, <1>3, <1>4, Reverting
<1>6. PICK how \in {"reverted", "rollback_incomplete"} : Finish(how)
  BY <1>4
<1>7. QED
  BY <1>1, <1>2, <1>3, <1>5, <1>6, CallEndsKeeps

\* A session that the service does not keep is closed.
LEMMA DroppedKeeps ==
    ASSUME Inv, op.at \in {"discard", "recovered"}, NEW c \in Clients, c = op.on, NEW ok \in BOOLEAN,
           ClientClose(c, ok), UNCHANGED <<client, closed, closer>>, recoveryNeeded' \in BOOLEAN,
           NEW how \in {"error", "review_changed", "rollback_incomplete", "failed", "lost",
                        "applied", "closed", "discarded", "reverted"},
           Finish(how), ~ok => recoveryNeeded' \/ (how = "discarded" /\ closed)
    PROVE  Inv' /\ (ok => ~tuned')
<1>1. TypeOK /\ ServiceInv /\ Sounds /\ Held /\ Attachment /\ c # NoClient
  BY ServiceAssumption DEF Inv, ServiceInv
<1>2. /\ closer.at \in {"none", "join"} /\ closer.result # "ok" /\ client = NoClient
      /\ sess[c].helper # "none" /\ sess[c].result # "ok"
  BY <1>1, AtWork DEF ServiceInv, Operating, Unclosed, Held
<1>3. /\ Moves(c) /\ (tuned' => tuned)
      /\ ok => ~tuned' /\ sess'[c].helper = "ended"
  BY <1>1, <1>2, Shutting
<1>4. op' \in Operations /\ op'.at = "none" /\ op'.on = NoClient /\ op'.last = how /\ cancelled' = FALSE
  BY Finished
<1>5. TypeOK'
  BY <1>1, <1>3, <1>4 DEF TypeOK, Moves
<1>6. Sounds' /\ \A d \in Clients : Attached(d)' => Attached(d)
  BY <1>1, <1>3, MovesKeep
<1>7. \A d \in Clients : Attached(d) => d = c
  BY <1>1, <1>2, ServiceAssumption DEF Attachment
<1>8. ok => ~Pending'
  <2>1. ok => ~Attached(c)'
    BY <1>3 DEF Attached, Alive
  <2>2. QED
    BY <1>3, <1>6, <1>7, <2>1 DEF Pending
<1>9. Held'
  BY <1>2, <1>4, ServiceAssumption DEF Held
<1>10. Operating'
  BY <1>4 DEF Operating
<1>11. Unclosed'
  BY <1>2, <1>4 DEF Unclosed
<1>12. Attachment'
  BY <1>2, <1>4 DEF Attachment
<1>13. Closes'
  BY <1>1, <1>2 DEF ServiceInv, Closes
<1>14. Settled'
  BY <1>2, <1>4, <1>8 DEF Settled
<1>15. QED
  BY <1>3, <1>5, <1>6, <1>9, <1>10, <1>11, <1>12, <1>13, <1>14 DEF Inv, ServiceInv

LEMMA DiscardKeeps ==
    ASSUME Inv, Discard
    PROVE  Inv'
<1>1. TypeOK /\ ServiceInv /\ op.at = "discard"
  BY DEF Inv, Discard
<1>2. PICK c \in Clients : c = op.on
  BY <1>1, HeldSession DEF ServiceInv
<1>3. PICK ok \in BOOLEAN : ClientClose(c, ok) /\ Finish(IF ok THEN "closed" ELSE "discarded")
  BY <1>2 DEF Discard
<1>4. closed /\ recoveryNeeded \in BOOLEAN /\ UNCHANGED <<client, closed, recoveryNeeded, closer>>
  BY <1>1 DEF ServiceInv, Operating, TypeOK, Discard, service
<1>5. PICK how \in {"closed", "discarded"} : Finish(how) /\ (~ok => how = "discarded")
  BY <1>3
<1>6. QED
  BY <1>1, <1>2, <1>3, <1>4, <1>5, DroppedKeeps

LEMMA RecoveredKeeps ==
    ASSUME Inv, Recovered
    PROVE  Inv' /\ (op'.last = "reverted" => ~tuned')
<1>1. TypeOK /\ ServiceInv /\ op.at = "recovered"
  BY DEF Inv, Recovered
<1>2. PICK c \in Clients : c = op.on
  BY <1>1, HeldSession DEF ServiceInv
<1>3. PICK ok \in BOOLEAN : /\ ClientClose(c, ok) /\ Finish(IF ok THEN "reverted" ELSE "error")
                            /\ recoveryNeeded' = (recoveryNeeded /\ ~ok)
  BY <1>2 DEF Recovered
<1>4. recoveryNeeded = TRUE /\ UNCHANGED <<client, closed, closer>>
  BY <1>1 DEF ServiceInv, Operating, TypeOK, Recovered
<1>5. recoveryNeeded' \in BOOLEAN /\ (~ok => recoveryNeeded')
  BY <1>3, <1>4
<1>6. PICK how \in {"reverted", "error"} : Finish(how) /\ (how = "reverted" => ok)
  BY <1>3
<1>7. Inv' /\ (ok => ~tuned')
  BY <1>1, <1>2, <1>3, <1>4, <1>5, <1>6, DroppedKeeps
<1>8. op'.last = how
  BY <1>6, Finished
<1>9. QED
  BY <1>6, <1>7, <1>8

-----------------------------------------------------------------------------
(* The theorems.                                                           *)

LEMMA InitInv ==
    ASSUME Init
    PROVE  Inv
<1>1. /\ tuned = FALSE /\ client = NoClient /\ closed = FALSE /\ recoveryNeeded = FALSE /\ cancelled = FALSE
      /\ \A c \in Clients : sess[c] = Undialled
  BY DEF Init
<1>2. /\ Undialled \in Sessions /\ Undialled.helper = "none" /\ Undialled.dead = FALSE
      /\ Undialled.last = "" /\ Undialled.events = <<>>
  BY DEF Undialled, Sessions, Helpers
<1>3. op \in Operations /\ op.at = "none" /\ op.on = NoClient
  BY DEF Init, Operations, MaybeClient
<1>4. closer \in Closers /\ closer.at = "none" /\ closer.result = "none"
  BY DEF Init, Closers, MaybeClient
<1>5. sess \in [Clients -> Sessions]
  BY <1>2 DEF Init
<1>6. TypeOK
  BY <1>1, <1>3, <1>4, <1>5 DEF TypeOK, MaybeClient
<1>7. ASSUME NEW u \in Sessions, u.helper = "none", u.dead = FALSE, u.last = "", u.events = <<>>
      PROVE  Sound(u)
  <2>1. \A i \in 1..Len(<<>>) : FALSE
    OBVIOUS
  <2>2. \A i \in 1..Len(u.events) : FALSE
    BY <1>7, <2>1, Zenon
  <2>3. QED
    BY <1>7, <2>2 DEF Sound
<1>8. Sound(Undialled)
  BY <1>2, <1>7, Zenon
<1>9. \A c \in Clients : Sound(sess[c]) /\ sess[c].helper = "none" /\ ~Attached(c)
  BY <1>1, <1>2, <1>8 DEF Attached, Alive
<1>10. Sounds
  BY <1>9 DEF Sounds, Alive
<1>11. ~Pending
  BY <1>1, <1>9 DEF Pending
<1>12. Held /\ Operating /\ Unclosed
  BY <1>1, <1>3, <1>4, ServiceAssumption DEF Held, Operating, Unclosed
<1>13. Attachment /\ Closes /\ Settled
  BY <1>4, <1>9, <1>11 DEF Attachment, Closes, Settled
<1>14. QED
  BY <1>6, <1>10, <1>12, <1>13 DEF Inv, ServiceInv

LEMMA NextInv ==
    ASSUME Inv, [Next]_vars
    PROVE  Inv'
<1>1. CASE Operation
  BY <1>1, StartApplyKeeps, DialApplyKeeps, InstallKeeps, CallApplyKeeps, AppliedKeeps, DiscardKeeps,
     StartRevertKeeps, CallRevertKeeps, RecoverKeeps, RecoveredKeeps DEF Operation
<1>2. CASE Closing
  BY <1>2, StartCloseKeeps, JoinKeeps, LookKeeps, CallCloseKeeps, EndCloseKeeps DEF Closing
<1>3. ASSUME NEW c \in Clients, HelperEnds(c) \/ LeaseExpires(c) \/ Watch(c)
      PROVE  Inv'
  BY <1>3, HelperKeeps, WatchKeeps
<1>4. CASE UNCHANGED vars
  <2>1. UNCHANGED <<tuned, sess>> /\ UNCHANGED <<client, closed, recoveryNeeded, op, cancelled, closer>>
    BY <1>4 DEF vars
  <2>2. Sounds' /\ (\A d \in Clients : Attached(d)' <=> Attached(d)) /\ (Pending' <=> Pending)
    BY <2>1, Still DEF Inv, ServiceInv
  <2>3. TypeOK' /\ Held' /\ Operating'
    BY <2>1 DEF Inv, ServiceInv, TypeOK, Held, Operating
  <2>4. Unclosed' /\ Attachment'
    BY <2>1, <2>2 DEF Inv, ServiceInv, Unclosed, Attachment
  <2>5. Closes' /\ Settled'
    BY <2>1, <2>2 DEF Inv, ServiceInv, Closes, Settled
  <2>6. QED
    BY <2>2, <2>3, <2>4, <2>5 DEF Inv, ServiceInv
<1>5. QED
  BY <1>1, <1>2, <1>3, <1>4 DEF Next

\* The types and the inductive invariant hold in every state of the service, however
\* operations, the closing of the window, helpers and watchers interleave.
THEOREM InvAlways == Spec => []Inv
<1>1. Init => Inv
  BY InitInv
<1>2. Inv /\ [Next]_vars => Inv'
  BY NextInv
<1>3. QED
  BY <1>1, <1>2, PTL DEF Spec

\* Every variable of the service keeps its type.
THEOREM TypeCorrect == Spec => []TypeOK
<1>1. Inv => TypeOK
  BY DEF Inv
<1>2. QED
  BY <1>1, InvAlways, PTL

\* Modified hardware always has an owner (tune_service.go, Apply, Revert, Close and
\* watchSession): a session the service can revert, a recovery it knows of, or an
\* operation at work, except after an Apply that found the service closed.
THEOREM TunedAlwaysOwned == Spec => []TunedIsOwned
<1>1. Inv => TunedIsOwned
  BY DEF Inv, ServiceInv, Settled, Pending, TunedIsOwned
<1>2. QED
  BY <1>1, InvAlways, PTL

\* A Close that returns nil leaves the hardware at stock, no session and no operation,
\* and only helpers whose input is closed (tune_service.go, Close).
THEOREM CloseAlwaysFinal == Spec => []CloseIsFinal
<1>1. Inv => CloseIsFinal
  BY DEF Inv, ServiceInv, Closes, Pending, Attached, CloseIsFinal
<1>2. QED
  BY <1>1, InvAlways, PTL

\* A Revert that returns nil has restored the hardware (tune_service.go, Revert), by
\* its session's proof or by the recovery of a newly dialled helper.
THEOREM RevertAlwaysRestores == Spec => RevertRestores
<1> DEFINE Restores == op.at \in {"revert", "recovered"} /\ op'.at = "none" /\ op'.last = "reverted" => ~tuned'
<1>1. Inv /\ [Next]_vars => [Restores]_vars
  <2> SUFFICES ASSUME Inv, Next, op.at \in {"revert", "recovered"}, op'.at = "none", op'.last = "reverted"
               PROVE  ~tuned'
    OBVIOUS
  <2>1. CallRevert \/ Recovered
    <3>1. op' # op
      OBVIOUS
    <3>2. ~\E c \in Clients : HelperEnds(c) \/ LeaseExpires(c) \/ Watch(c)
      BY <3>1 DEF HelperEnds, LeaseExpires, Watch
    <3>3. ~Closing
      BY <3>1 DEF Closing, StartClose, Join, Look, CallClose, EndClose
    <3>4. Operation
      BY <3>2, <3>3 DEF Next
    <3>5. QED
      BY <3>4 DEF Operation, StartApply, DialApply, Install, CallApply, Applied, Discard, StartRevert, Recover
  <2>2. CASE CallRevert
    <3>1. TypeOK /\ ServiceInv /\ Sounds /\ Held /\ op.at = "revert"
      BY <2>2 DEF Inv, ServiceInv, CallRevert
    <3>2. PICK c \in Clients : c = op.on
      BY <3>1, HeldSession DEF ServiceInv
    <3>3. sess[c].helper # "none" /\ (sess[c].last = "complete" => ~tuned)
      BY <3>1, <3>2 DEF Held
    <3>4. PICK ok \in BOOLEAN : /\ ClientRevert(c, ok)
                                /\ Finish(IF ok THEN "reverted" ELSE "rollback_incomplete")
      BY <2>2, <3>2 DEF CallRevert
    <3>5. ok
      BY <3>4 DEF Finish
    <3>6. QED
      BY <3>1, <3>3, <3>4, <3>5, Reverting
  <2>3. CASE Recovered
    BY <2>3, RecoveredKeeps
  <2>4. QED
    BY <2>1, <2>2, <2>3
<1>2. QED
  BY <1>1, InvAlways, PTL DEF Spec, RevertRestores

-----------------------------------------------------------------------------
(* What the view model above the service relies on, step by step.          *)

\* The hardware is modified, or an Apply may still modify it.
MayTune ==
    \/ tuned
    \/ op.at \in {"dial", "install"}
    \/ op.at = "apply" /\ ~sess[op.on].dead

\* A completed rollback is announced only by a client that ended with it.
Announces(r) ==
    \A i \in 1..Len(r.events) : r.events[i] = "rollback_complete" => r.dead /\ r.last = "complete"

Announced == \A c \in Clients : Announces(sess[c])

\* The events that end a session with the hardware at stock.
Endings == {"rollback_complete", "session_closed"}

\* Only Client.Apply modifies the hardware.
LEMMA OnlyApplyTunes ==
    ASSUME Inv, Next, ~CallApply
    PROVE  tuned' => tuned
<1>1. TypeOK /\ ServiceInv /\ Sounds /\ Held
  BY DEF Inv, ServiceInv
<1>2. CASE StartApply \/ Install \/ Applied \/ StartRevert \/ StartClose \/ Join \/ Look \/ EndClose
  BY <1>2 DEF StartApply, Install, Applied, StartRevert, StartClose, Join, Look, EndClose
<1>3. CASE DialApply \/ Recover
  <2>1. (\E c \in Clients : Dial(c)) \/ tuned' = tuned
    BY <1>3 DEF DialApply, Recover
  <2>2. QED
    BY <1>1, <2>1, Dialing
<1>4. CASE CallRevert
  <2>1. PICK c \in Clients : c = op.on
    BY <1>1, <1>4, HeldSession DEF ServiceInv, CallRevert
  <2>2. sess[c].helper # "none" /\ (sess[c].last = "complete" => ~tuned)
    BY <1>1, <2>1 DEF Held
  <2>3. PICK ok \in BOOLEAN : ClientRevert(c, ok)
    BY <1>4, <2>1 DEF CallRevert
  <2>4. QED
    BY <1>1, <2>2, <2>3, Reverting
<1>5. CASE Discard \/ Recovered
  <2>1. PICK c \in Clients : c = op.on
    BY <1>1, <1>5, HeldSession DEF ServiceInv, Discard, Recovered
  <2>2. sess[c].helper # "none"
    BY <1>1, <2>1 DEF Held
  <2>3. PICK ok \in BOOLEAN : ClientClose(c, ok)
    BY <1>5, <2>1 DEF Discard, Recovered
  <2>4. QED
    BY <1>1, <2>2, <2>3, Shutting
<1>6. CASE CallClose
  <2>1. PICK c \in Clients : c = closer.on
    BY <1>1, <1>6, ClosedSession DEF ServiceInv, CallClose
  <2>2. sess[c].helper # "none"
    BY <1>1, <1>6, <2>1 DEF ServiceInv, Closes, CallClose
  <2>3. PICK ok \in BOOLEAN : ClientClose(c, ok)
    BY <1>6, <2>1 DEF CallClose
  <2>4. QED
    BY <1>1, <2>2, <2>3, Shutting
<1>7. ASSUME NEW c \in Clients, HelperEnds(c) \/ LeaseExpires(c) \/ Watch(c)
      PROVE  tuned' => tuned
  BY <1>1, <1>7, Ending, Expiring, Watching
<1>8. QED
  BY <1>2, <1>3, <1>4, <1>5, <1>6, <1>7 DEF Next, Operation, Closing

\* Only a new Apply may come to modify the hardware.
LEMMA TunesOnly ==
    ASSUME Inv, Next, ~StartApply, ~MayTune
    PROVE  ~MayTune'
<1>1. TypeOK /\ ServiceInv /\ Sounds /\ Held
  BY DEF Inv, ServiceInv
<1>2. CASE DialApply \/ Install
  BY <1>2 DEF DialApply, Install, MayTune
<1>3. CASE CallApply
  <2>1. sess[op.on].dead /\ op.at = "apply" /\ ~tuned
    BY <1>3 DEF CallApply, MayTune
  <2>2. \A outcome : ~ClientApply(op.on, outcome)
    <3>1. PICK c \in Clients : c = op.on
      BY <1>1, <2>1, HeldSession DEF ServiceInv
    <3>2. sess[c].helper # "none"
      BY <1>1, <3>1 DEF Held
    <3>3. QED
      BY <1>1, <2>1, <3>1, <3>2, Applying
  <2>3. Finish("lost") /\ UNCHANGED <<tuned, sess>>
    BY <1>3, <2>2 DEF CallApply
  <2>4. op'.at = "none"
    BY <2>3 DEF Finish
  <2>5. QED
    BY <2>1, <2>3, <2>4 DEF MayTune
<1>4. ASSUME ~CallApply
      PROVE  ~tuned'
  BY <1>4, OnlyApplyTunes DEF MayTune
<1>5. \A how : Finish(how) => op'.at = "none"
  BY DEF Finish
<1>6. CASE Applied \/ StartRevert \/ Recover
  <2>1. ~CallApply
    BY <1>6 DEF Applied, StartRevert, Recover, CallApply
  <2>2. \/ \E c \in MaybeClient, at \in {"discard", "revert", "recover", "recovered"} : Go(at, c)
        \/ \E how : Finish(how)
    BY <1>1, <1>6 DEF Applied, StartRevert, Recover, TypeOK, Operations, MaybeClient
  <2>3. op'.at \in {"discard", "revert", "recover", "recovered", "none"}
    BY <1>1, <1>5, <2>2, Went DEF TypeOK
  <2>4. QED
    BY <1>4, <2>1, <2>3 DEF MayTune
<1>7. CASE CallRevert \/ Discard \/ Recovered
  <2>1. ~CallApply
    BY <1>7 DEF CallRevert, Discard, Recovered, CallApply
  <2>2. op'.at = "none"
    BY <1>5, <1>7 DEF CallRevert, Discard, Recovered
  <2>3. QED
    BY <1>4, <2>1, <2>2 DEF MayTune
<1>8. CASE CallClose
  <2>1. op.at = "none" /\ op' = op
    BY <1>1, <1>8 DEF ServiceInv, Closes, CallClose
  <2>2. ~CallApply
    BY <2>1 DEF CallApply
  <2>3. QED
    BY <1>4, <2>1, <2>2 DEF MayTune
<1>9. CASE StartClose \/ Join \/ Look \/ EndClose
  BY <1>9 DEF StartClose, Join, Look, EndClose, MayTune
<1>10. ASSUME NEW c \in Clients, HelperEnds(c) \/ LeaseExpires(c) \/ Watch(c)
       PROVE  ~MayTune'
  <2>1. Moves(c) /\ (tuned' => tuned)
    BY <1>1, <1>10, Ending, Expiring, Watching
  <2>2. op' = op
    BY <1>10 DEF HelperEnds, LeaseExpires, Watch
  <2>3. \A d \in Clients : sess[d].dead => sess'[d].dead
    BY <2>1 DEF Moves
  <2>4. op.at = "apply" => op.on \in Clients
    BY <1>1, HeldSession DEF ServiceInv
  <2>5. QED
    BY <2>1, <2>2, <2>3, <2>4 DEF MayTune
<1>11. QED
  BY <1>2, <1>3, <1>6, <1>7, <1>8, <1>9, <1>10 DEF Next, Operation, Closing

\* A service without a session and without a recovery due has stock hardware.
LEMMA IdleIsStock ==
    ASSUME Inv, op.at = "none", ~closed, client = NoClient, ~recoveryNeeded
    PROVE  ~MayTune
BY DEF Inv, ServiceInv, Operating, Settled, Pending, MayTune

\* How an operation goes on, and how it ends.
LEMMA Outcomes ==
    ASSUME Inv, Operation, op.at # "none"
    PROVE  /\ closed' = closed
           /\ \/ op.at = "dial" /\ op'.at = "install"
              \/ op.at = "install" /\ op'.at \in {"apply", "discard"}
              \/ op.at = "apply" /\ op'.at = "applied" /\ CallApply
              \/ op.at = "applied" /\ op'.at = "discard"
              \/ op.at = "recover" /\ op'.at = "recovered"
              \/ /\ op.at = "dial" /\ op'.at = "none" /\ op'.last = "error"
              \/ /\ op.at = "install" /\ op'.at = "none" /\ op'.last = "review_changed"
              \/ /\ op.at = "apply" /\ op'.at = "none" /\ CallApply
                 /\ op'.last \in {"review_changed", "rollback_incomplete", "failed", "lost"}
              \/ /\ op.at = "applied" /\ op'.at = "none" /\ op'.last \in {"applied", "lost"}
              \/ /\ op.at = "discard" /\ op'.at = "none" /\ closed /\ op'.last \in {"closed", "discarded"}
              \/ /\ op.at = "revert" /\ op'.at = "none" /\ CallRevert
                 /\ op'.last \in {"reverted", "rollback_incomplete"}
              \/ /\ op.at = "recover" /\ op'.at = "none" /\ op'.last = "error"
              \/ /\ op.at = "recovered" /\ op'.at = "none" /\ Recovered /\ op'.last \in {"reverted", "error"}
<1>1. op \in Operations /\ (op.at = "discard" => closed)
  BY DEF Inv, TypeOK, ServiceInv, Operating
<1>2. op.on \in MaybeClient
  BY <1>1 DEF Operations
<1>3. \A how : Finish(how) => op'.at = "none" /\ op'.last = how
  BY DEF Finish
<1>4. ASSUME NEW c \in MaybeClient, NEW at \in {"install", "apply", "applied", "discard", "recovered"}, Go(at, c)
      PROVE  op'.at = at
  BY <1>1, <1>4, Went
<1>5. \A c \in Clients : c \in MaybeClient
  BY DEF MaybeClient
<1>6. CASE DialApply
  <2>1. op.at = "dial" /\ closed' = closed /\ ((\E c \in Clients : Go("install", c)) \/ Finish("error"))
    BY <1>6 DEF DialApply
  <2>2. QED
    BY <1>3, <1>4, <1>5, <2>1
<1>7. CASE Install
  <2>1. /\ op.at = "install" /\ closed' = closed
        /\ Go("discard", op.on) \/ Go("apply", op.on) \/ Finish("review_changed")
    BY <1>7 DEF Install
  <2>2. QED
    BY <1>2, <1>3, <1>4, <2>1
<1>8. CASE CallApply
  <2>1. /\ op.at = "apply" /\ closed' = closed
        /\ \/ Go("applied", op.on)
           \/ \E how \in {"review_changed", "rollback_incomplete", "failed", "lost"} : Finish(how)
    BY <1>8 DEF CallApply, service
  <2>2. QED
    BY <1>2, <1>3, <1>4, <1>8, <2>1
<1>9. CASE Applied
  <2>1. /\ op.at = "applied" /\ closed' = closed
        /\ Go("discard", op.on) \/ \E how \in {"applied", "lost"} : Finish(how)
    BY <1>9 DEF Applied
  <2>2. QED
    BY <1>2, <1>3, <1>4, <2>1
<1>10. CASE Discard
  <2>1. op.at = "discard" /\ closed' = closed /\ \E how \in {"closed", "discarded"} : Finish(how)
    BY <1>10 DEF Discard, service
  <2>2. QED
    BY <1>1, <1>3, <2>1
<1>11. CASE CallRevert
  <2>1. op.at = "revert" /\ closed' = closed /\ \E how \in {"reverted", "rollback_incomplete"} : Finish(how)
    BY <1>11 DEF CallRevert, service
  <2>2. QED
    BY <1>3, <1>11, <2>1
<1>12. CASE Recover
  <2>1. op.at = "recover" /\ closed' = closed /\ ((\E c \in Clients : Go("recovered", c)) \/ Finish("error"))
    BY <1>12 DEF Recover, service
  <2>2. QED
    BY <1>3, <1>4, <1>5, <2>1
<1>13. CASE Recovered
  <2>1. op.at = "recovered" /\ closed' = closed /\ \E how \in {"reverted", "error"} : Finish(how)
    BY <1>13 DEF Recovered
  <2>2. QED
    BY <1>3, <1>13, <2>1
<1>14. QED
  BY <1>6, <1>7, <1>8, <1>9, <1>10, <1>11, <1>12, <1>13 DEF Operation, StartApply, StartRevert

\* An Apply that leaves modified hardware ends in one of these ways.
LEMMA ApplyEnds ==
    ASSUME Inv, CallApply, tuned', op'.at = "none", ~tuned
    PROVE  op'.last \in {"rollback_incomplete", "lost"}
<1>1. TypeOK /\ ServiceInv /\ Sounds /\ Held /\ op.at = "apply"
  BY DEF Inv, ServiceInv, CallApply
<1>2. PICK c \in Clients : c = op.on
  BY <1>1, HeldSession DEF ServiceInv
<1>3. ASSUME NEW outcome \in {"review_changed", "failed"}
      PROVE  ~ClientApply(c, outcome)
  BY <1>3 DEF ClientApply, Becomes
<1>4. ~Go("applied", op.on)
  BY <1>1 DEF Go, TypeOK, Operations
<1>5. PICK how \in {"rollback_incomplete", "lost"} : Finish(how)
  BY <1>2, <1>3, <1>4 DEF CallApply
<1>6. QED
  BY <1>5 DEF Finish

LEMMA RevertEnds ==
    ASSUME Inv, CallRevert \/ Recovered, op'.last = "reverted", op'.at = "none"
    PROVE  ~tuned'
<1>1. CASE CallRevert
  <2>1. TypeOK /\ ServiceInv /\ Sounds /\ Held /\ op.at = "revert"
    BY <1>1 DEF Inv, ServiceInv, CallRevert
  <2>2. PICK c \in Clients : c = op.on
    BY <2>1, HeldSession DEF ServiceInv
  <2>3. sess[c].helper # "none" /\ (sess[c].last = "complete" => ~tuned)
    BY <2>1, <2>2 DEF Held
  <2>4. PICK ok \in BOOLEAN : /\ ClientRevert(c, ok)
                              /\ Finish(IF ok THEN "reverted" ELSE "rollback_incomplete")
    BY <1>1, <2>2 DEF CallRevert
  <2>5. ok
    BY <2>4 DEF Finish
  <2>6. QED
    BY <2>1, <2>3, <2>4, <2>5, Reverting
<1>2. CASE Recovered
  BY <1>2, RecoveredKeeps
<1>3. QED
  BY <1>1, <1>2

\* The event that ends the service's session tells the truth.
LEMMA EndingIsTrue ==
    ASSUME Inv, Announced, NEW c \in Clients, client = c, sess[c].events # <<>>,
           Head(sess[c].events) \in Endings
    PROVE  ~MayTune
<1>1. TypeOK /\ ServiceInv /\ sess[c].events \in Seq(Events) /\ Sound(sess[c])
  BY DEF Inv, TypeOK, Sessions, ServiceInv, Sounds
<1>2. 1 \in 1..Len(sess[c].events) /\ sess[c].events[1] \in Endings
  BY <1>1
<1>3. sess[c].dead /\ sess[c].last = "complete"
  BY <1>1, <1>2 DEF Announced, Announces, Sound, Endings, Terminal
<1>4. ~tuned
  BY <1>1, <1>3 DEF ServiceInv, Held
<1>5. op.at \notin {"dial", "install"} /\ (op.at = "apply" => op.on = c)
  BY <1>1, ServiceAssumption DEF ServiceInv, Operating
<1>6. QED
  BY <1>3, <1>4, <1>5 DEF MayTune

-----------------------------------------------------------------------------
(* Announcements stay true: a dead client's last rollback does not change. *)

Silent(events) == \A i \in 1..Len(events) : events[i] # "rollback_complete"

LEMMA Announcing ==
    ASSUME TypeOK, Announced, NEW c \in Clients, NEW r \in Sessions, NEW t, Becomes(c, r, t), Announces(r)
    PROVE  Announced'
<1>1. sess'[c] = r /\ \A d \in Clients : d # c => sess'[d] = sess[d]
  BY DEF Becomes, TypeOK
<1>2. QED
  BY <1>1 DEF Announced, Announces

LEMMA LiveIsSilent ==
    ASSUME NEW r, Announces(r), ~r.dead
    PROVE  Silent(r.events)
BY DEF Announces, Silent

LEMMA SilentAnnounces ==
    ASSUME NEW r, Silent(r.events)
    PROVE  Announces(r)
BY DEF Announces, Silent

LEMMA DieAnnounces ==
    ASSUME NEW r \in Sessions, Frank(r.dead, r.last, r.events), Silent(r.events) \/ r.last = "complete" \/ r.dead,
           r.dead => Announces(r)
    PROVE  Announces(Die(r))
<1>1. CASE r.dead
  BY <1>1 DEF Die
<1>2. CASE ~r.dead
  <2> DEFINE e == IF r.last = "complete" THEN "session_closed" ELSE "session_terminated"
             d == Die(r)
  <2>1. d = [r EXCEPT !.dead = TRUE, !.tx = FALSE, !.events = Append(r.events, e)]
    BY <1>2 DEF Die
  <2>2. e # "rollback_complete" /\ r.events \in Seq(Events)
    BY DEF Sessions
  <2> HIDE DEF e
  <2>3. \A i \in 1..Len(Append(r.events, e)) :
           Append(r.events, e)[i] = "rollback_complete" => i \in 1..Len(r.events) /\ r.events[i] = "rollback_complete"
    BY <2>2
  <2>4. d.events = Append(r.events, e) /\ d.dead = TRUE /\ d.last = r.last
    BY <2>1 DEF Sessions
  <2> HIDE DEF d
  <2>5. Announces(d)
    BY <1>2, <2>3, <2>4 DEF Announces, Silent
  <2>6. QED
    BY <2>5 DEF d
<1>3. QED
  BY <1>1, <1>2

LEMMA AbandonAnnounces ==
    ASSUME NEW r \in Sessions, Frank(r.dead, r.last, r.events), Announces(r)
    PROVE  Announces(Abandon(r))
<1> DEFINE q == [r EXCEPT !.input = FALSE]
<1>1. q \in Sessions /\ q.dead = r.dead /\ q.last = r.last /\ q.events = r.events
  BY DEF Sessions
<1>2. Abandon(r) = Die(q)
  BY DEF Abandon
<1> HIDE DEF q
<1>3. Announces(q) /\ (Silent(q.events) \/ q.dead)
  BY <1>1, LiveIsSilent DEF Announces
<1>4. QED
  BY <1>1, <1>2, <1>3, DieAnnounces

\* A step of c that leaves the events of its session, or ends it.
LEMMA QuietStep ==
    ASSUME TypeOK, Announced, NEW c \in Clients, NEW q \in Sessions, NEW t,
           q.events = sess[c].events, q.dead = sess[c].dead,
           Frank(q.dead, q.last, q.events),
           sess[c].dead => q.last = sess[c].last,
           Becomes(c, q, t) \/ Becomes(c, Die(q), t) \/ Becomes(c, Abandon(q), t)
    PROVE  Announced'
<1>1. Announces(sess[c])
  BY DEF Announced
<1>2. Announces(q) /\ (Silent(q.events) \/ q.dead)
  <2>1. CASE sess[c].dead
    BY <1>1, <2>1 DEF Announces
  <2>2. CASE ~sess[c].dead
    BY <1>1, <2>2, LiveIsSilent, SilentAnnounces
  <2>3. QED
    BY <2>1, <2>2
<1>3. Announces(Die(q)) /\ Announces(Abandon(q)) /\ Die(q) \in Sessions /\ Abandon(q) \in Sessions
  BY <1>2, DieAnnounces, AbandonAnnounces, DieIs, AbandonIs
<1>4. QED
  BY <1>2, <1>3, Announcing

LEMMA FrankSession ==
    ASSUME TypeOK, Sounds, NEW c \in Clients
    PROVE  /\ sess[c] \in Sessions /\ Frank(sess[c].dead, sess[c].last, sess[c].events)
           /\ ~sess[c].dead => \A last : Frank(sess[c].dead, last, sess[c].events)
<1>1. sess[c] \in Sessions /\ Frank(sess[c].dead, sess[c].last, sess[c].events)
  BY SoundIs DEF TypeOK, Sounds
<1>2. sess[c].events \in Seq(Events) /\ sess[c].dead \in BOOLEAN
  BY <1>1 DEF Sessions
<1>3. ~sess[c].dead => \A last : Frank(sess[c].dead, last, sess[c].events)
  <2> SUFFICES ASSUME ~sess[c].dead, NEW last PROVE Frank(sess[c].dead, last, sess[c].events)
    OBVIOUS
  <2>1. sess[c].dead = FALSE
    BY <1>2
  <2>2. Frank(FALSE, sess[c].last, sess[c].events)
    BY <1>1, <2>1
  <2>3. QED
    BY <1>2, <2>1, <2>2, FrankAlive
<1>4. QED
  BY <1>1, <1>3

LEMMA ApplyAnnounces ==
    ASSUME TypeOK, Sounds, Announced, NEW c \in Clients, NEW outcome, ClientApply(c, outcome)
    PROVE  Announced'
<1> DEFINE s == sess[c]
           r == [s EXCEPT !.last = ""]
           applied == [r EXCEPT !.helper = "tuned", !.tx = TRUE]
           reviewed == [r EXCEPT !.last = "complete"]
           stuck == [r EXCEPT !.helper = "stuck", !.last = "incomplete"]
           restored == [r EXCEPT !.helper = "ended", !.last = "complete"]
           broken == [r EXCEPT !.helper = "ended", !.last = "incomplete"]
           lost == [r EXCEPT !.helper = "tuned"]
<1>1. s \in Sessions /\ s = sess[c]
  BY DEF TypeOK
<1>2. /\ ~r.dead
      /\ \E t : \/ Becomes(c, applied, t) \/ Becomes(c, reviewed, t) \/ Becomes(c, stuck, t)
                \/ Becomes(c, r, t) \/ Becomes(c, Die(restored), t) \/ Becomes(c, Die(broken), t)
                \/ Becomes(c, Abandon(r), t) \/ Becomes(c, Abandon(lost), t)
  BY DEF ClientApply
<1> HIDE DEF s
<1>3. r \in Sessions /\ r.events = s.events /\ r.dead = s.dead
  BY <1>1 DEF Sessions
<1>4. ~s.dead /\ \A last : Frank(s.dead, last, s.events)
  BY <1>1, <1>2, <1>3, FrankSession
<1> HIDE DEF r
<1>5. applied \in Sessions /\ applied.events = r.events /\ applied.dead = r.dead
  BY <1>3 DEF Sessions, Helpers
<1>6. reviewed \in Sessions /\ reviewed.events = r.events /\ reviewed.dead = r.dead
  BY <1>3 DEF Sessions
<1>7. stuck \in Sessions /\ stuck.events = r.events /\ stuck.dead = r.dead
  BY <1>3 DEF Sessions, Helpers
<1>8. restored \in Sessions /\ restored.events = r.events /\ restored.dead = r.dead
  BY <1>3 DEF Sessions, Helpers
<1>9. broken \in Sessions /\ broken.events = r.events /\ broken.dead = r.dead
  BY <1>3 DEF Sessions, Helpers
<1>10. lost \in Sessions /\ lost.events = r.events /\ lost.dead = r.dead
  BY <1>3 DEF Sessions, Helpers
<1> HIDE DEF applied, reviewed, stuck, restored, broken, lost
<1>11. \A q \in Sessions : q.events = s.events /\ q.dead = s.dead => Frank(q.dead, q.last, q.events)
  BY <1>4
<1>12. ASSUME NEW q \in Sessions, q.events = s.events, q.dead = s.dead, NEW t,
              Becomes(c, q, t) \/ Becomes(c, Die(q), t) \/ Becomes(c, Abandon(q), t)
       PROVE  Announced'
  BY <1>1, <1>4, <1>11, <1>12, QuietStep
<1>13. QED
  BY <1>2, <1>3, <1>5, <1>6, <1>7, <1>8, <1>9, <1>10, <1>12

LEMMA RevertAnnounces ==
    ASSUME TypeOK, Sounds, Announced, NEW c \in Clients, NEW ok, ClientRevert(c, ok)
    PROVE  Announced'
<1> DEFINE s == sess[c]
           back == [s EXCEPT !.helper = "idle", !.tx = FALSE, !.last = "complete"]
           stuck == [s EXCEPT !.helper = "stuck", !.last = "incomplete"]
<1>1. s \in Sessions /\ s = sess[c] /\ Frank(s.dead, s.last, s.events)
      /\ (~s.dead => \A last : Frank(s.dead, last, s.events))
  BY FrankSession
<1>2. \/ sess' = sess
      \/ ~s.dead /\ \E t : Becomes(c, back, t) \/ Becomes(c, stuck, t) \/ Becomes(c, Abandon(s), t)
  BY DEF ClientRevert
<1> HIDE DEF s
<1>3. back \in Sessions /\ back.events = s.events /\ back.dead = s.dead
  BY <1>1 DEF Sessions, Helpers
<1>4. stuck \in Sessions /\ stuck.events = s.events /\ stuck.dead = s.dead
  BY <1>1 DEF Sessions, Helpers
<1> HIDE DEF back, stuck
<1>5. CASE sess' = sess
  BY <1>5 DEF Announced, Announces
<1>6. ASSUME ~s.dead, NEW q \in Sessions, q.events = s.events, q.dead = s.dead, NEW t,
             Becomes(c, q, t) \/ Becomes(c, Die(q), t) \/ Becomes(c, Abandon(q), t)
      PROVE  Announced'
  <2>1. Frank(q.dead, q.last, q.events)
    BY <1>1, <1>6
  <2>2. QED
    BY <1>1, <1>6, <2>1, QuietStep
<1>7. QED
  BY <1>1, <1>2, <1>3, <1>4, <1>5, <1>6

LEMMA CloseAnnounces ==
    ASSUME TypeOK, Sounds, Announced, NEW c \in Clients, NEW ok, ClientClose(c, ok)
    PROVE  Announced'
<1> DEFINE s == sess[c]
           shut == [s EXCEPT !.helper = "ended", !.input = FALSE, !.result = "ok", !.last = "complete"]
           stuck == [s EXCEPT !.helper = "stuck", !.last = "incomplete"]
           left == Abandon(s)
           final == [left EXCEPT !.result = "failed"]
<1>1. s \in Sessions /\ s = sess[c] /\ Frank(s.dead, s.last, s.events) /\ Announces(s)
      /\ (~s.dead => \A last : Frank(s.dead, last, s.events))
  BY FrankSession DEF Announced
<1>2. \/ sess' = sess
      \/ ~s.dead /\ \E t : Becomes(c, Die(shut), t) \/ Becomes(c, stuck, t)
      \/ \E t : Becomes(c, final, t)
  BY DEF ClientClose
<1> HIDE DEF s
<1>3. shut \in Sessions /\ shut.events = s.events /\ shut.dead = s.dead
  BY <1>1 DEF Sessions, Helpers
<1>4. stuck \in Sessions /\ stuck.events = s.events /\ stuck.dead = s.dead
  BY <1>1 DEF Sessions, Helpers
<1>5. left \in Sessions /\ Announces(left)
  BY <1>1, AbandonIs, AbandonAnnounces
<1> HIDE DEF shut, stuck, left
<1>6. final \in Sessions /\ final.events = left.events /\ final.dead = left.dead /\ final.last = left.last
  BY <1>5 DEF Sessions
<1> HIDE DEF final
<1>7. CASE sess' = sess
  BY <1>7 DEF Announced, Announces
<1>8. ASSUME ~s.dead, NEW q \in Sessions, q.events = s.events, q.dead = s.dead, NEW t,
             Becomes(c, q, t) \/ Becomes(c, Die(q), t)
      PROVE  Announced'
  <2>1. Frank(q.dead, q.last, q.events)
    BY <1>1, <1>8
  <2>2. QED
    BY <1>1, <1>8, <2>1, QuietStep
<1>9. Announces(final)
  BY <1>5, <1>6 DEF Announces
<1>10. QED
  BY <1>1, <1>2, <1>3, <1>4, <1>6, <1>7, <1>8, <1>9, Announcing

LEMMA HelperAnnounces ==
    ASSUME TypeOK, Sounds, Announced, NEW c \in Clients, HelperEnds(c)
    PROVE  Announced'
<1> DEFINE s == sess[c]
           q == [s EXCEPT !.helper = "ended"]
<1>1. s \in Sessions /\ s = sess[c] /\ Frank(s.dead, s.last, s.events)
  BY FrankSession
<1>2. \E t : Becomes(c, Die(q), t)
  BY DEF HelperEnds
<1> HIDE DEF s
<1>3. q \in Sessions /\ q.events = s.events /\ q.dead = s.dead /\ q.last = s.last
  BY <1>1 DEF Sessions, Helpers
<1> HIDE DEF q
<1>4. Frank(q.dead, q.last, q.events)
  BY <1>1, <1>3
<1>5. QED
  BY <1>1, <1>2, <1>3, <1>4, QuietStep

LEMMA ExpiryAnnounces ==
    ASSUME TypeOK, Sounds, Announced, NEW c \in Clients, LeaseExpires(c)
    PROVE  Announced'
<1> DEFINE s == sess[c]
           p == Told(c, "complete", "rollback_complete")
           q == [p EXCEPT !.helper = "ended", !.tx = FALSE]
           o == Told(c, "incomplete", "rollback_incomplete")
           r == [o EXCEPT !.helper = "stuck"]
<1>1. /\ s \in Sessions /\ s = sess[c] /\ Frank(s.dead, s.last, s.events) /\ Announces(s)
      /\ s.dead \in BOOLEAN /\ s.events \in Seq(Events)
  BY FrankSession DEF Announced, Sessions
<1>2. \E t : Becomes(c, Die(q), t) \/ Becomes(c, r, t)
  BY DEF LeaseExpires
<1>3. CASE s.dead
  <2>1. p = s /\ o = s
    BY <1>3 DEF Told
  <2> HIDE DEF s, p, o
  <2>2. q \in Sessions /\ q.events = s.events /\ q.dead = s.dead /\ q.last = s.last
    BY <1>1, <2>1 DEF Sessions, Helpers
  <2>3. r \in Sessions /\ r.events = s.events /\ r.dead = s.dead /\ r.last = s.last
    BY <1>1, <2>1 DEF Sessions, Helpers
  <2> HIDE DEF q, r
  <2>4. Frank(q.dead, q.last, q.events) /\ Frank(r.dead, r.last, r.events)
    BY <1>1, <2>2, <2>3
  <2>5. QED
    BY <1>1, <1>2, <2>2, <2>3, <2>4, QuietStep
<1>4. CASE ~s.dead
  <2>1. p = [s EXCEPT !.last = "complete", !.events = Append(s.events, "rollback_complete")]
    BY <1>4 DEF Told
  <2>2. o = [s EXCEPT !.last = "incomplete", !.events = Append(s.events, "rollback_incomplete")]
    BY <1>4 DEF Told
  <2>3. Silent(s.events) /\ s.dead = FALSE /\ Frank(FALSE, s.last, s.events)
    BY <1>1, <1>4, LiveIsSilent
  <2> HIDE DEF s
  <2>4. /\ Frank(FALSE, "complete", s.events) /\ Frank(FALSE, "incomplete", s.events)
        /\ "rollback_complete" \in Events \ Terminal /\ "rollback_incomplete" \in Events \ Terminal
    BY <1>1, <2>3, FrankAlive DEF Events, Terminal
  <2>5. /\ Append(s.events, "rollback_complete") \in Seq(Events)
        /\ Append(s.events, "rollback_incomplete") \in Seq(Events)
        /\ Frank(FALSE, "complete", Append(s.events, "rollback_complete"))
        /\ Frank(FALSE, "incomplete", Append(s.events, "rollback_incomplete"))
    BY <1>1, <2>4, FrankMore DEF Terminal
  <2>6. p \in Sessions /\ p.events = Append(s.events, "rollback_complete") /\ p.dead = FALSE /\ p.last = "complete"
    <3> HIDE DEF p
    <3>1. QED
      BY <1>1, <2>1, <2>3, <2>5 DEF Sessions
  <2>7. o \in Sessions /\ o.events = Append(s.events, "rollback_incomplete") /\ o.dead = FALSE
    <3> HIDE DEF o
    <3>1. QED
      BY <1>1, <2>2, <2>3, <2>5 DEF Sessions
  <2> HIDE DEF p, o
  <2>8. q \in Sessions /\ q.events = p.events /\ q.dead = FALSE /\ q.last = "complete"
    BY <2>6 DEF Sessions, Helpers
  <2>9. r \in Sessions /\ r.events = o.events /\ r.dead = FALSE
    BY <2>7 DEF Sessions, Helpers
  <2> HIDE DEF q, r
  <2>10. Frank(q.dead, q.last, q.events)
    BY <2>5, <2>6, <2>8
  <2>11. Announces(Die(q)) /\ Die(q) \in Sessions
    BY <2>8, <2>10, DieAnnounces, DieIs
  <2>12. Silent(r.events)
    BY <1>1, <2>3, <2>7, <2>9 DEF Silent
  <2>13. QED
    BY <1>2, <2>9, <2>11, <2>12, SilentAnnounces, Announcing
<1>5. QED
  BY <1>3, <1>4

LEMMA DialAnnounces ==
    ASSUME TypeOK, Announced, NEW c \in Clients, Dial(c)
    PROVE  Announced'
<1> DEFINE n == Undialled
           u == [n EXCEPT !.helper = "idle", !.last = "complete"]
<1>1. n \in Sessions /\ n.events = <<>>
  BY DEF Undialled, Sessions, Helpers
<1>2. Becomes(c, u, FALSE)
  BY DEF Dial
<1> HIDE DEF n
<1>3. u \in Sessions /\ u.events = <<>>
  BY <1>1 DEF Sessions, Helpers
<1> HIDE DEF u
<1>4. Silent(<<>>)
  BY DEF Silent
<1>5. QED
  BY <1>2, <1>3, <1>4, SilentAnnounces, Announcing

LEMMA WatchAnnounces ==
    ASSUME TypeOK, Sounds, Announced, NEW c \in Clients, Watch(c)
    PROVE  Announced'
<1>1. /\ sess' \in [Clients -> Sessions] /\ \A d \in Clients : d # c => sess'[d] = sess[d]
      /\ sess'[c].dead = sess[c].dead /\ sess'[c].last = sess[c].last
  BY Watching DEF Moves
<1>2. sess'[c].events = Tail(sess[c].events) /\ sess[c].events # <<>> /\ sess[c].events \in Seq(Events)
  BY DEF Watch, TypeOK, Sessions
<1>3. \A i \in 1..Len(Tail(sess[c].events)) :
         i + 1 \in 1..Len(sess[c].events) /\ Tail(sess[c].events)[i] = sess[c].events[i + 1]
  BY <1>2
<1>4. Announces(sess'[c])
  BY <1>1, <1>2, <1>3 DEF Announced, Announces
<1>5. QED
  BY <1>1, <1>4 DEF Announced, Announces

LEMMA AnnouncedNext ==
    ASSUME Inv, Announced, [Next]_vars
    PROVE  Announced'
<1>1. TypeOK /\ ServiceInv /\ Sounds
  BY DEF Inv, ServiceInv
<1>2. CASE sess' = sess
  BY <1>2 DEF Announced, Announces
<1>3. ASSUME NEW c \in Clients, NEW outcome, ClientApply(c, outcome) \/ ClientRevert(c, outcome) \/ ClientClose(c, outcome)
      PROVE  Announced'
  BY <1>1, <1>3, ApplyAnnounces, RevertAnnounces, CloseAnnounces
<1>4. ASSUME NEW c \in Clients, Dial(c) \/ HelperEnds(c) \/ LeaseExpires(c) \/ Watch(c)
      PROVE  Announced'
  BY <1>1, <1>4, DialAnnounces, HelperAnnounces, ExpiryAnnounces, WatchAnnounces
<1>5. op.at \in {"apply", "revert", "discard", "recovered"} => op.on \in Clients
  BY <1>1, HeldSession DEF ServiceInv
<1>6. closer.at = "close" => closer.on \in Clients
  BY <1>1, ClosedSession DEF ServiceInv
<1>7. CASE StartApply \/ Install \/ Applied \/ StartRevert
  BY <1>2, <1>7 DEF StartApply, Install, Applied, StartRevert
<1>8. CASE DialApply \/ Recover
  BY <1>2, <1>4, <1>8 DEF DialApply, Recover
<1>9. CASE CallApply \/ Discard \/ CallRevert \/ Recovered
  BY <1>2, <1>3, <1>5, <1>9 DEF CallApply, Discard, CallRevert, Recovered
<1>10. CASE Closing
  BY <1>2, <1>3, <1>6, <1>10 DEF Closing, StartClose, Join, Look, CallClose, EndClose
<1>11. CASE UNCHANGED vars
  BY <1>2, <1>11 DEF vars
<1>12. QED
  BY <1>4, <1>7, <1>8, <1>9, <1>10, <1>11 DEF Next, Operation

LEMMA AnnouncedInit ==
    ASSUME Init
    PROVE  Announced
<1>1. \A c \in Clients : sess[c].events = <<>>
  BY DEF Init, Undialled
<1>2. Silent(<<>>)
  BY DEF Silent
<1>3. QED
  BY <1>1, <1>2, SilentAnnounces DEF Announced

=============================================================================
