----------------------- MODULE PrivilegedSessionProofs -----------------------
(***************************************************************************)
(* Machine-checked proofs about PrivilegedSession, for every limit on      *)
(* requests, messages and faults.                                          *)
(***************************************************************************)
EXTENDS PrivilegedSession, TLAPS

-----------------------------------------------------------------------------
(* Type correctness, with what is waited for at each call.                 *)

Clients == [call : {"none", "hello", "probe", "begin", "revert", "close", "wait"},
            pending : Transactions, reply : Reports \cup {None, Lost},
            ready : {"new", "greeted", "ready", "failed"}, tx : Transactions,
            renewing : BOOLEAN, last : {"", "complete", "incomplete"},
            dead : BOOLEAN, closed : BOOLEAN, err : BOOLEAN,
            result : {"none", "ok", "failed"}, ended : {"no", "closed", "terminated"}]

\* A call that waits for nothing has nothing pending; a dead client neither, nor
\* one that has its answer; and a closed one makes no other call.
Waits(c) ==
    /\ c.call \in {"none", "wait"} => c.pending = None /\ c.reply = None
    /\ c.dead \/ c.reply # None => c.pending = None
    /\ c.closed => c.call \in {"none", "wait", "close"}

TypeOK ==
    /\ helper \in {"run", "ok", "error", "sigpipe", "killed"}
    /\ stage \in {"new", "greeted", "probed"}
    /\ active \in Transactions
    /\ leased \in BOOLEAN
    /\ seen \subseteq Ids
    /\ faults \in Nat
    /\ tuned \in BOOLEAN
    /\ attempted \in BOOLEAN
    /\ toHelper \in Seq(Orders)
    /\ inputOpen \in BOOLEAN
    /\ toClient \in Seq(Reports)
    /\ gui \in BOOLEAN
    /\ cl \in Clients
    /\ Waits(cl)
    /\ renewal \in Transactions
    /\ serial \in Ids

-----------------------------------------------------------------------------
(* The inductive invariant.                                                *)

\* The helper by itself: a lease is of a transaction, only a helper that has
\* probed has one, a transaction whose rollback was not attempted is still
\* active, and a probed helper without one leaves the hardware at stock.
HelperInv ==
    /\ leased => active # None
    /\ active # None => stage = "probed"
    /\ active = None => attempted
    /\ Running /\ stage = "probed" /\ active = None => ~tuned
    /\ OrderlyExit

\* Some message in q is of one of these types.
Carries(q, types) == \E i \in 1..Len(q) : q[i].type \in types

IsCall(m) == m.type # "renew"

\* A connection is given up only when the helper cannot hear of it any more.
Dropped ==
    /\ cl.dead => ~inputOpen \/ ~Running
    /\ cl.reply = Lost => cl.dead

\* The id of the lease is no request's.  A lease that expires says so once more
\* only when its rollback failed.
Identified ==
    /\ cl.pending # 0
    /\ \A i \in 1..Len(toHelper) : toHelper[i].id # 0
    /\ Running => \A i \in 1..Len(toClient) : toClient[i].id = 0 => toClient[i].type = "incomplete"

\* One call at a time: while the helper runs, its input holds at most one message
\* that is not a renewal.
OneCall ==
    Running => \A i, j \in 1..Len(toHelper) : IsCall(toHelper[i]) /\ IsCall(toHelper[j]) => i = j

\* The client may still make a call, or waits for the answer to one.
Open == ~cl.dead /\ (cl.closed => cl.call = "close")

\* A client that is open waits for the answer to that message, or finds the
\* answer in its input, where everything else is of the lease.
OneAnswer ==
    Running /\ Open =>
        /\ \A i \in 1..Len(toHelper) : IsCall(toHelper[i]) =>
             toHelper[i].id = cl.pending /\ toHelper[i].type = cl.call
        /\ \A i \in 1..Len(toClient) : toClient[i].id # 0 => toClient[i].id = cl.pending
        /\ \A i, j \in 1..Len(toClient) : toClient[i].id # 0 /\ toClient[j].id # 0 => i = j
        /\ \A i \in 1..Len(toHelper), j \in 1..Len(toClient) :
             ~(IsCall(toHelper[i]) /\ toClient[j].id # 0)

Flow == Dropped /\ Identified /\ OneCall /\ OneAnswer

\* What a helper that goes on running answers to a handshake or a probe.
Suits(type, call) ==
    /\ call = "hello" => type = "ready"
    /\ call = "probe" => type = "capabilities"

\* A client that is ready has a helper that has probed ...
KnowsProbe ==
    /\ Carries(toClient, {"capabilities"}) => stage = "probed"
    /\ cl.reply \in Reports /\ cl.reply.type = "capabilities" => stage = "probed"
    /\ cl.ready = "ready" => stage = "probed"

\* ... one that failed has lost it ...
KnowsFailure == cl.ready = "failed" => ~Running \/ ~inputOpen

\* ... because only a helper that ends gives another answer ...
Fitting ==
    /\ Running /\ Open => \A i \in 1..Len(toClient) :
                            toClient[i].id # 0 => Suits(toClient[i].type, cl.call)
    /\ Running /\ cl.reply \in Reports => Suits(cl.reply.type, cl.call)

\* ... and only a helper that has probed is asked to close.
ClosesProbed ==
    /\ Running /\ Carries(toHelper, {"close"}) => stage = "probed"
    /\ cl.call = "close" /\ (cl.pending # None \/ cl.reply \in Reports) => stage = "probed"
    /\ cl.call = "wait" /\ ~cl.err => stage = "probed"

Readiness == KnowsProbe /\ KnowsFailure /\ Fitting /\ ClosesProbed

\* The messages that prove that the hardware is at stock.
Proofs == {"capabilities", "review_changed", "complete"}

\* A proof, held or under way, is of hardware at stock, and while it lasts no
\* transaction is active or about to begin ...
AtStock ==
    cl.last = "complete" \/ Carries(toClient, Proofs) =>
        /\ ~tuned
        /\ Running => active = None /\ ~Carries(toHelper, {"begin"})

\* ... and so is a session that ended with one ...
EndedAtStock ==
    cl.ended = "closed" =>
        /\ ~tuned /\ cl.dead
        /\ Running => ~Carries(toHelper, {"begin"})

\* ... and one that was closed without an error.
ClosedAtStock == cl.result = "ok" => ~tuned /\ ~Running

Proven == AtStock /\ EndedAtStock /\ ClosedAtStock

SessionInv ==
    /\ HelperInv
    /\ Flow
    /\ Readiness
    /\ Proven
    /\ IncompleteIsReported

-----------------------------------------------------------------------------
(* Messages in a pipe.                                                     *)

LEMMA Appending ==
    ASSUME NEW S, NEW q \in Seq(S), NEW m \in S
    PROVE  /\ Append(q, m) \in Seq(S)
           /\ Len(q) \in Nat /\ Len(Append(q, m)) = Len(q) + 1
           /\ \A i \in 1..Len(q) : i \in 1..Len(Append(q, m)) /\ Append(q, m)[i] = q[i]
           /\ Append(q, m)[Len(q) + 1] = m
           /\ \A i \in 1..Len(Append(q, m)) : i \in 1..Len(q) \/ i = Len(q) + 1
OBVIOUS

LEMMA Taking ==
    ASSUME NEW S, NEW q \in Seq(S), q # <<>>
    PROVE  /\ Tail(q) \in Seq(S) /\ Head(q) \in S
           /\ Len(q) \in Nat /\ Len(Tail(q)) = Len(q) - 1
           /\ 1 \in 1..Len(q) /\ Head(q) = q[1]
           /\ \A i \in 1..Len(Tail(q)) : i + 1 \in 1..Len(q) /\ Tail(q)[i] = q[i + 1]
OBVIOUS

\* What the pipe carries after a message is put in, or taken out.
LEMMA CarriesAppended ==
    ASSUME NEW S, NEW q \in Seq(S), NEW m \in S, NEW types
    PROVE  Carries(Append(q, m), types) <=> Carries(q, types) \/ m.type \in types
<1>1. ASSUME Carries(Append(q, m), types)
      PROVE  Carries(q, types) \/ m.type \in types
  <2>1. PICK i \in 1..Len(Append(q, m)) : Append(q, m)[i].type \in types
    BY <1>1 DEF Carries
  <2>2. QED
    BY <2>1, Appending DEF Carries
<1>2. ASSUME Carries(q, types)
      PROVE  Carries(Append(q, m), types)
  <2>1. PICK i \in 1..Len(q) : q[i].type \in types
    BY <1>2 DEF Carries
  <2>2. i \in 1..Len(Append(q, m)) /\ Append(q, m)[i] = q[i]
    BY Appending
  <2>3. QED
    BY <2>1, <2>2 DEF Carries
<1>3. ASSUME m.type \in types
      PROVE  Carries(Append(q, m), types)
  <2>1. Len(q) + 1 \in 1..Len(Append(q, m)) /\ Append(q, m)[Len(q) + 1] = m
    BY Appending
  <2>2. QED
    BY <1>3, <2>1 DEF Carries
<1>4. QED
  BY <1>1, <1>2, <1>3

LEMMA CarriesTail ==
    ASSUME NEW S, NEW q \in Seq(S), q # <<>>, NEW types
    PROVE  Carries(q, types) <=> Head(q).type \in types \/ Carries(Tail(q), types)
<1>1. ASSUME Carries(q, types), Head(q).type \notin types
      PROVE  Carries(Tail(q), types)
  <2>1. PICK i \in 1..Len(q) : q[i].type \in types
    BY <1>1 DEF Carries
  <2>2. i # 1
    BY <1>1, <2>1, Taking
  <2>3. i - 1 \in 1..Len(Tail(q))
    BY <2>2, Taking
  <2>4. Tail(q)[i - 1] = q[(i - 1) + 1] /\ (i - 1) + 1 = i
    BY <2>3, Taking
  <2>5. QED
    BY <2>1, <2>3, <2>4 DEF Carries
<1>2. ASSUME Carries(Tail(q), types)
      PROVE  Carries(q, types)
  <2>1. PICK i \in 1..Len(Tail(q)) : Tail(q)[i].type \in types
    BY <1>2 DEF Carries
  <2>2. QED
    BY <2>1, Taking DEF Carries
<1>3. Head(q).type \in types => Carries(q, types)
  BY Taking DEF Carries
<1>4. QED
  BY <1>1, <1>2, <1>3

-----------------------------------------------------------------------------
(* What the steps of the client do to its state.                           *)

\* Giving up the connection.
LEMMA DeadIs ==
    ASSUME NEW c \in Clients
    PROVE  /\ Dead(c) \in Clients /\ Dead(c).dead
           /\ Dead(c).call = c.call /\ Dead(c).closed = c.closed /\ Dead(c).ready = c.ready
           /\ Dead(c).last = c.last /\ Dead(c).err = c.err /\ Dead(c).result = c.result
           /\ c.dead => Dead(c) = c
           /\ ~c.dead => /\ Dead(c).pending = None
                         /\ Dead(c).reply = IF c.pending # None THEN Lost ELSE c.reply
                         /\ Dead(c).ended = "closed" => c.last = "complete"
<1> DEFINE reply == IF c.pending # None THEN Lost ELSE c.reply
           ended == IF c.last = "complete" THEN "closed" ELSE "terminated"
<1>1. CASE c.dead
  BY <1>1 DEF Dead
<1>2. CASE ~c.dead
  <2>1. Dead(c) = [c EXCEPT !.dead = TRUE, !.tx = None, !.renewing = FALSE, !.reply = reply,
                            !.pending = None, !.ended = ended]
    BY <1>2 DEF Dead
  <2>2. c.reply \in Reports \cup {None, Lost}
    BY DEF Clients
  <2>3. reply \in Reports \cup {None, Lost}
    BY <2>2
  <2>4. ended \in {"no", "closed", "terminated"} /\ (ended = "closed" => c.last = "complete")
    OBVIOUS
  <2>5. reply = IF c.pending # None THEN Lost ELSE c.reply
    OBVIOUS
  <2> HIDE DEF reply, ended
  <2>6. /\ Dead(c) \in Clients /\ Dead(c).dead /\ Dead(c).reply = reply
        /\ Dead(c).pending = None /\ Dead(c).ended = ended
        /\ Dead(c).call = c.call /\ Dead(c).closed = c.closed /\ Dead(c).ready = c.ready
        /\ Dead(c).last = c.last /\ Dead(c).err = c.err /\ Dead(c).result = c.result
    <3>1. ASSUME NEW d, d = [c EXCEPT !.dead = TRUE, !.tx = None, !.renewing = FALSE,
                                      !.reply = reply, !.pending = None, !.ended = ended]
          PROVE  /\ d \in Clients /\ d.dead /\ d.reply = reply /\ d.pending = None /\ d.ended = ended
                 /\ d.call = c.call /\ d.closed = c.closed /\ d.ready = c.ready
                 /\ d.last = c.last /\ d.err = c.err /\ d.result = c.result
      <4>1. None \in Transactions
        BY DEF Transactions
      <4>2. QED
        BY <2>3, <2>4, <3>1, <4>1 DEF Clients
    <3>2. QED
      BY <2>1, <3>1, Zenon
  <2>7. QED
    BY <1>2, <2>4, <2>5, <2>6
<1>3. QED
  BY <1>1, <1>2

\* Registering a request.
LEMMA Registered ==
    ASSUME NEW c \in Clients, NEW id \in Ids
    PROVE  LET d == [c EXCEPT !.pending = id]
           IN  /\ d \in Clients /\ d.pending = id /\ d.pending # None
               /\ d.call = c.call /\ d.closed = c.closed /\ d.ready = c.ready
               /\ d.last = c.last /\ d.err = c.err /\ d.result = c.result
               /\ d.dead = c.dead /\ d.ended = c.ended /\ d.reply = c.reply
<1>1. id # None
  BY SessionAssumption DEF Ids
<1>2. QED
  BY <1>1 DEF Clients, Transactions

\* What a call changes of the client before it sends.
Asked(c) ==
    /\ c \in Clients /\ ~c.dead
    /\ c.call \in {"hello", "probe", "begin", "revert", "close"}
    /\ c.pending = None /\ c.reply = None
    /\ c.closed <=> c.call = "close"
    /\ c.ready = cl.ready /\ c.err = cl.err /\ c.result = cl.result /\ c.ended = cl.ended
    /\ c.last = IF c.call = "begin" THEN "" ELSE cl.last

\* A request that is sent: the helper's pipe takes it and the client waits, or
\* the client is dead.
Sent(type, tx) ==
    /\ serial' = serial + 1 /\ serial' \in Ids
    /\ UNCHANGED <<helperVars, toClient, gui, renewal>>
    /\ cl.call = "none" /\ ~cl.dead /\ ~cl.closed
    /\ cl' \in Clients /\ cl'.call = type /\ type # "renew"
    /\ cl'.closed <=> type = "close"
    /\ cl'.ready = cl.ready /\ cl'.err = cl.err /\ cl'.result = cl.result
    /\ cl'.last = IF type = "begin" THEN "" ELSE cl.last
    /\ \/ /\ Writable
          /\ toHelper' = Append(toHelper, Msg(serial + 1, type, tx))
          /\ Msg(serial + 1, type, tx) \in Orders
          /\ inputOpen' = inputOpen
          /\ ~cl'.dead
          /\ cl'.pending = serial + 1 /\ cl'.pending # None /\ cl'.reply = None
          /\ cl'.ended = cl.ended
       \/ /\ ~Writable
          /\ toHelper' = toHelper /\ inputOpen' = FALSE
          /\ cl'.dead /\ cl'.pending = None /\ cl'.reply = Lost
          /\ cl'.ended = "closed" => cl'.last = "complete"

LEMMA Sending ==
    ASSUME TypeOK, NEW type \in Requests, type # "renew", NEW tx \in Transactions,
           NEW c, Asked(c), c.call = type, Call(type), ~cl.dead, Send(type, tx, c)
    PROVE  Sent(type, tx)
<1>1. serial + 1 \in Ids /\ serial' = serial + 1
  BY SessionAssumption DEF Send, TypeOK, Ids
<1> DEFINE d == [c EXCEPT !.pending = serial + 1]
<1>2. /\ d \in Clients /\ d.pending = serial + 1 /\ d.pending # None
      /\ d.call = c.call /\ d.closed = c.closed /\ d.ready = c.ready
      /\ d.last = c.last /\ d.err = c.err /\ d.result = c.result
      /\ d.dead = c.dead /\ d.ended = c.ended /\ d.reply = c.reply
  BY <1>1, Registered DEF Asked
<1>3. Msg(serial + 1, type, tx) \in Orders
  BY <1>1 DEF Msg, Orders
<1>4. \/ Writable /\ toHelper' = Append(toHelper, Msg(serial + 1, type, tx)) /\ cl' = d
         /\ inputOpen' = inputOpen
      \/ ~Writable /\ cl' = Dead(d) /\ inputOpen' = FALSE /\ toHelper' = toHelper
  BY DEF Send
<1>5. UNCHANGED <<helperVars, toClient, gui, renewal>> /\ cl.call = "none" /\ ~cl.closed
  BY DEF Call
<1> HIDE DEF d
<1>6. CASE Writable /\ cl' = d
  BY <1>1, <1>2, <1>3, <1>4, <1>5, <1>6 DEF Sent, Asked
<1>7. CASE ~Writable /\ cl' = Dead(d)
  <2>1. ~d.dead
    BY <1>2 DEF Asked
  <2>2. /\ cl' \in Clients /\ cl'.dead /\ cl'.call = c.call /\ cl'.closed = c.closed
        /\ cl'.ready = c.ready /\ cl'.last = c.last /\ cl'.err = c.err /\ cl'.result = c.result
        /\ cl'.pending = None /\ cl'.reply = Lost /\ (cl'.ended = "closed" => c.last = "complete")
    BY <1>2, <1>7, <2>1, DeadIs
  <2>3. inputOpen' = FALSE /\ toHelper' = toHelper
    BY <1>4, <1>7
  <2>4. /\ c.ready = cl.ready /\ c.err = cl.err /\ c.result = cl.result /\ c.call = type
        /\ (c.closed <=> type = "close") /\ c.last = IF type = "begin" THEN "" ELSE cl.last
    BY DEF Asked
  <2>5. cl'.closed <=> type = "close"
    BY <2>2, <2>4
  <2>6. QED
    BY <1>1, <1>5, <1>7, <2>2, <2>3, <2>4, <2>5 DEF Sent
<1>8. QED
  BY <1>4, <1>6, <1>7

\* The calls that wait for an answer.
LEMMA CallsSend ==
    ASSUME TypeOK
    PROVE  /\ CallHello => Sent("hello", None) /\ cl.ready = "new"
           /\ CallProbe => Sent("probe", None) /\ cl.ready = "greeted"
           /\ CallApply => Sent("begin", None) /\ cl.ready = "ready"
           /\ CallRevert => Sent("revert", cl.tx) /\ cl.ready = "ready"
<1> DEFINE hello == [cl EXCEPT !.call = "hello"]
           probe == [cl EXCEPT !.call = "probe"]
           begin == [cl EXCEPT !.call = "begin", !.last = ""]
           revert == [cl EXCEPT !.call = "revert"]
<1>1. cl \in Clients /\ cl.tx \in Transactions /\ None \in Transactions
  BY DEF TypeOK, Clients, Transactions
<1>2. ASSUME cl.call = "none", ~cl.closed, ~cl.dead
      PROVE  /\ Asked(hello) /\ hello.call = "hello"
             /\ Asked(probe) /\ probe.call = "probe"
             /\ Asked(begin) /\ begin.call = "begin"
             /\ Asked(revert) /\ revert.call = "revert"
  <2>1. cl.pending = None /\ cl.reply = None
    BY <1>2 DEF TypeOK, Waits
  <2>2. Asked(hello) /\ hello.call = "hello"
    BY <1>1, <1>2, <2>1 DEF Asked, Clients
  <2>3. Asked(probe) /\ probe.call = "probe"
    BY <1>1, <1>2, <2>1 DEF Asked, Clients
  <2>4. Asked(begin) /\ begin.call = "begin"
    BY <1>1, <1>2, <2>1 DEF Asked, Clients
  <2>5. Asked(revert) /\ revert.call = "revert"
    BY <1>1, <1>2, <2>1 DEF Asked, Clients
  <2>6. QED
    BY <2>2, <2>3, <2>4, <2>5
<1>3. ASSUME CallHello PROVE Sent("hello", None) /\ cl.ready = "new"
  <2>1. /\ Call("hello") /\ cl.ready = "new" /\ ~cl.dead /\ cl.call = "none" /\ ~cl.closed
        /\ Send("hello", None, hello)
    BY <1>3 DEF CallHello, Call
  <2> HIDE DEF hello, probe, begin, revert
  <2>2. QED
    BY <1>1, <1>2, <2>1, Sending DEF Requests
<1>4. ASSUME CallProbe PROVE Sent("probe", None) /\ cl.ready = "greeted"
  <2>1. /\ Call("probe") /\ cl.ready = "greeted" /\ ~cl.dead /\ cl.call = "none" /\ ~cl.closed
        /\ Send("probe", None, probe)
    BY <1>4 DEF CallProbe, Call
  <2> HIDE DEF hello, probe, begin, revert
  <2>2. QED
    BY <1>1, <1>2, <2>1, Sending DEF Requests
<1>5. ASSUME CallApply PROVE Sent("begin", None) /\ cl.ready = "ready"
  <2>1. /\ Call("begin") /\ cl.ready = "ready" /\ ~cl.dead /\ cl.call = "none" /\ ~cl.closed
        /\ Send("begin", None, begin)
    BY <1>5 DEF CallApply, Call
  <2> HIDE DEF hello, probe, begin, revert
  <2>2. QED
    BY <1>1, <1>2, <2>1, Sending DEF Requests
<1>6. ASSUME CallRevert PROVE Sent("revert", cl.tx) /\ cl.ready = "ready"
  <2>1. /\ Call("revert") /\ cl.ready = "ready" /\ ~cl.dead /\ cl.call = "none" /\ ~cl.closed
        /\ Send("revert", cl.tx, revert)
    BY <1>6 DEF CallRevert, Call
  <2> HIDE DEF hello, probe, begin, revert
  <2>2. QED
    BY <1>1, <1>2, <2>1, Sending DEF Requests
<1>7. QED
  BY <1>3, <1>4, <1>5, <1>6

\* Close on a client that is dead, and Close when there is nothing to restore.
ClosedDead ==
    /\ cl.dead /\ cl'.dead /\ cl'.ended = cl.ended
    /\ cl'.call = "close" /\ cl'.pending = None /\ cl'.reply = Lost
    /\ UNCHANGED <<toHelper, inputOpen, serial>>

ClosedAtOnce ==
    /\ serial' = serial + 1 /\ serial' \in Ids
    /\ Msg(serial + 1, "close", None) \in Orders
    /\ toHelper' = IF Writable THEN Append(toHelper, Msg(serial + 1, "close", None)) ELSE toHelper
    /\ inputOpen' = FALSE
    /\ cl'.call = "wait" /\ cl'.pending = None /\ cl'.reply = None
    /\ cl'.err = ~Writable /\ cl'.dead = cl.dead /\ cl'.ended = cl.ended

LEMMA Closing ==
    ASSUME TypeOK, CallClose
    PROVE  /\ cl.ready \in {"failed", "ready"}
           /\ \/ Sent("close", None)
              \/ /\ cl' \in Clients /\ cl'.closed /\ cl.call = "none" /\ ~cl.closed
                 /\ cl'.ready = cl.ready /\ cl'.last = cl.last /\ cl'.result = cl.result
                 /\ UNCHANGED <<helperVars, toClient, gui, renewal>>
                 /\ ClosedDead \/ ClosedAtOnce
<1> DEFINE c == [cl EXCEPT !.closed = TRUE, !.renewing = FALSE]
           e == [c EXCEPT !.call = "close"]
           f == [c EXCEPT !.call = "close", !.reply = Lost]
           g == [c EXCEPT !.call = "wait", !.err = ~Writable]
<1>1. cl \in Clients /\ Call("close") /\ cl.ready \in {"failed", "ready"}
  BY DEF TypeOK, CallClose
<1>2. cl.call = "none" /\ ~cl.closed /\ UNCHANGED <<helperVars, toClient, gui, renewal>>
  BY <1>1 DEF Call
<1>3. cl.pending = None /\ cl.reply = None /\ None \in Transactions
  BY <1>2 DEF TypeOK, Waits, Transactions
<1>4. \/ cl.dead /\ cl' = f /\ UNCHANGED <<toHelper, inputOpen, serial>>
      \/ ~cl.dead /\ Send("close", None, e)
      \/ /\ serial < MaxSerial
         /\ serial' = serial + 1
         /\ toHelper' = IF Writable THEN Append(toHelper, Msg(serial + 1, "close", None)) ELSE toHelper
         /\ inputOpen' = FALSE
         /\ cl' = g
  BY DEF CallClose
<1>5. CASE cl.dead /\ cl' = f /\ UNCHANGED <<toHelper, inputOpen, serial>>
  <2>1. /\ f \in Clients /\ f.closed /\ f.ready = cl.ready /\ f.last = cl.last /\ f.result = cl.result
        /\ f.dead = cl.dead /\ f.ended = cl.ended /\ f.call = "close"
        /\ f.pending = cl.pending /\ f.reply = Lost
    BY <1>1 DEF Clients
  <2> HIDE DEF f
  <2>2. QED
    BY <1>1, <1>2, <1>3, <1>5, <2>1 DEF ClosedDead
<1>6. CASE ~cl.dead /\ Send("close", None, e)
  <2>1. Asked(e) /\ e.call = "close"
    BY <1>1, <1>2, <1>3, <1>6 DEF Asked, Clients
  <2> HIDE DEF e
  <2>2. QED
    BY <1>1, <1>3, <1>6, <2>1, Sending DEF Requests
<1>7. CASE /\ serial < MaxSerial
           /\ serial' = serial + 1
           /\ toHelper' = IF Writable THEN Append(toHelper, Msg(serial + 1, "close", None)) ELSE toHelper
           /\ inputOpen' = FALSE
           /\ cl' = g
  <2>1. serial + 1 \in Ids /\ Msg(serial + 1, "close", None) \in Orders
    BY <1>3, <1>7, SessionAssumption DEF TypeOK, Ids, Msg, Orders, Requests
  <2>2. Writable \in BOOLEAN
    BY DEF Writable, Running, TypeOK
  <2>3. /\ g \in Clients /\ g.closed /\ g.ready = cl.ready /\ g.last = cl.last /\ g.result = cl.result
        /\ g.dead = cl.dead /\ g.ended = cl.ended /\ g.call = "wait"
        /\ g.pending = cl.pending /\ g.reply = cl.reply /\ g.err = ~Writable
    BY <1>1, <2>2 DEF Clients
  <2> HIDE DEF g
  <2>4. QED
    BY <1>1, <1>2, <1>3, <1>7, <2>1, <2>3 DEF ClosedAtOnce
<1>8. QED
  BY <1>4, <1>5, <1>6, <1>7

\* The answer that a call has found.
Answered(type) == cl.reply # Lost /\ cl.reply.type = type

\* A call that returns keeps what the client knows, except how far it is: a
\* handshake and a probe that were not answered fail, and a Close that was not
\* answered "incomplete" goes on to wait for the helper.
LEMMA Returning ==
    ASSUME TypeOK, Return
    PROVE  /\ cl.reply # None /\ cl.pending = None
           /\ cl' \in Clients /\ cl'.reply = None /\ cl'.pending = None
           /\ cl'.dead = cl.dead /\ cl'.ended = cl.ended /\ cl'.result = cl.result /\ cl'.last = cl.last
           /\ cl'.ready = "ready" => cl.ready = "ready" \/ (cl.call = "probe" /\ Answered("capabilities"))
           /\ cl'.ready = "failed" => \/ cl.ready = "failed"
                                      \/ (cl.call = "hello" /\ ~Answered("ready"))
                                      \/ (cl.call = "probe" /\ ~Answered("capabilities"))
           /\ \/ /\ cl.call # "close" \/ Answered("incomplete")
                 /\ cl'.call = "none" /\ inputOpen' = inputOpen
                 /\ cl'.closed <=> cl.closed /\ cl.call # "close"
              \/ /\ cl.call = "close"
                 /\ cl'.call = "wait" /\ (cl'.err <=> ~Answered("complete")) /\ cl'.closed = cl.closed
                 /\ inputOpen' = FALSE
           /\ UNCHANGED <<helperVars, toHelper, toClient, gui, renewal, serial>>
<1> DEFINE type == IF cl.reply = Lost THEN "lost" ELSE cl.reply.type
           c == [cl EXCEPT !.call = "none", !.reply = None]
<1>1. /\ cl.reply # None /\ UNCHANGED <<helperVars, toHelper, toClient, gui, renewal, serial>>
      /\ inputOpen' = (inputOpen /\ cl'.call # "wait")
  BY DEF Return
<1>2. /\ cl.pending = None /\ cl \in Clients
      /\ cl.call \in {"hello", "probe", "begin", "revert", "close"}
      /\ cl.dead => cl.pending = None
      /\ cl.reply \in Reports \cup {Lost} /\ inputOpen \in BOOLEAN
  BY <1>1 DEF TypeOK, Waits, Clients
<1>3. \A t \in Responses : type = t <=> Answered(t)
  BY DEF Answered, Responses
<1>4. /\ c \in Clients /\ c.call = "none" /\ c.reply = None /\ c.pending = cl.pending
      /\ c.dead = cl.dead /\ c.ended = cl.ended /\ c.result = cl.result /\ c.last = cl.last
      /\ c.ready = cl.ready /\ c.closed = cl.closed
  BY <1>2 DEF Clients
<1>5. cl' = CASE cl.call = "hello" ->
                   [c EXCEPT !.ready = IF type = "ready" THEN "greeted" ELSE "failed"]
              [] cl.call = "probe" ->
                   [c EXCEPT !.ready = IF type = "capabilities" THEN "ready" ELSE "failed"]
              [] cl.call = "begin" ->
                   IF type = "applied" THEN Applied(c, cl.reply.tx) ELSE c
              [] cl.call = "revert" ->
                   IF type = "complete" THEN Clear(c) ELSE c
              [] cl.call = "close" ->
                   IF type = "incomplete" THEN [c EXCEPT !.closed = FALSE]
                   ELSE [c EXCEPT !.call = "wait", !.err = (type # "complete")]
  BY DEF Return
<1>6. ASSUME NEW d \in Clients, NEW ready \in {"new", "greeted", "ready", "failed"}, NEW e,
             e = [d EXCEPT !.ready = ready]
      PROVE  /\ e \in Clients /\ e.call = d.call /\ e.reply = d.reply /\ e.pending = d.pending
             /\ e.dead = d.dead /\ e.ended = d.ended /\ e.result = d.result /\ e.last = d.last
             /\ e.ready = ready /\ e.closed = d.closed
  BY <1>6 DEF Clients
<1>10. type = "applied" => cl.reply.tx \in Transactions
  BY <1>2 DEF Reports
<1> HIDE DEF type, c
<1>11. CASE cl.call = "hello"
  <2>1. cl' = [c EXCEPT !.ready = IF type = "ready" THEN "greeted" ELSE "failed"]
    BY <1>5, <1>11, Zenon
  <2>2. (type = "ready") <=> Answered("ready")
    BY <1>3 DEF Responses
  <2>3. CASE type = "ready"
    <3>1. cl' = [c EXCEPT !.ready = "greeted"]
      BY <2>1, <2>3
    <3>2. QED
      BY <1>1, <1>2, <1>4, <1>6, <1>11, <2>2, <2>3, <3>1
  <2>4. CASE type # "ready"
    <3>1. cl' = [c EXCEPT !.ready = "failed"]
      BY <2>1, <2>4
    <3>2. QED
      BY <1>1, <1>2, <1>4, <1>6, <1>11, <2>2, <2>4, <3>1
  <2>5. QED
    BY <2>3, <2>4
<1>12. CASE cl.call = "probe"
  <2>1. cl' = [c EXCEPT !.ready = IF type = "capabilities" THEN "ready" ELSE "failed"]
    BY <1>5, <1>12, Zenon
  <2>2. (type = "capabilities") <=> Answered("capabilities")
    BY <1>3 DEF Responses
  <2>3. CASE type = "capabilities"
    <3>1. cl' = [c EXCEPT !.ready = "ready"]
      BY <2>1, <2>3
    <3>2. QED
      BY <1>1, <1>2, <1>4, <1>6, <1>12, <2>2, <2>3, <3>1
  <2>4. CASE type # "capabilities"
    <3>1. cl' = [c EXCEPT !.ready = "failed"]
      BY <2>1, <2>4
    <3>2. QED
      BY <1>1, <1>2, <1>4, <1>6, <1>12, <2>2, <2>4, <3>1
  <2>5. QED
    BY <2>3, <2>4
<1>13. CASE cl.call = "begin" \/ cl.call = "revert"
  <2>1. cl' = c \/ (type = "applied" /\ cl' = Applied(c, cl.reply.tx)) \/ cl' = Clear(c)
    BY <1>5, <1>13
  <2>2. c.closed \in BOOLEAN
    BY <1>4 DEF Clients
  <2>3. \/ cl' = c
        \/ \E tx \in Transactions : \E renewing \in BOOLEAN : cl' = [c EXCEPT !.tx = tx, !.renewing = renewing]
    BY <1>10, <2>1, <2>2 DEF Applied, Clear, Transactions
  <2>4. /\ cl' \in Clients /\ cl'.call = c.call /\ cl'.reply = c.reply /\ cl'.pending = c.pending
        /\ cl'.dead = c.dead /\ cl'.ended = c.ended /\ cl'.result = c.result /\ cl'.last = c.last
        /\ cl'.ready = c.ready /\ cl'.closed = c.closed
    BY <1>4, <2>3 DEF Clients
  <2>5. /\ cl' \in Clients /\ cl'.reply = None /\ cl'.pending = None
        /\ cl'.dead = cl.dead /\ cl'.ended = cl.ended /\ cl'.result = cl.result /\ cl'.last = cl.last
        /\ cl'.ready = cl.ready
    BY <1>2, <1>4, <2>4
  <2>6. cl'.call = "none" /\ inputOpen' = inputOpen /\ cl'.closed = cl.closed /\ cl.call # "close"
    BY <1>1, <1>2, <1>4, <1>13, <2>4
  <2>7. QED
    BY <1>1, <1>2, <2>5, <2>6
<1>14. CASE cl.call = "close"
  <2>1. cl' = IF type = "incomplete" THEN [c EXCEPT !.closed = FALSE]
              ELSE [c EXCEPT !.call = "wait", !.err = (type # "complete")]
    BY <1>5, <1>14, Zenon
  <2>2. /\ (type = "incomplete") <=> Answered("incomplete")
        /\ (type = "complete") <=> Answered("complete")
    BY <1>3 DEF Responses
  <2>3. CASE type = "incomplete"
    <3>1. cl' = [c EXCEPT !.closed = FALSE]
      BY <2>1, <2>3
    <3>2. /\ cl' \in Clients /\ cl'.call = c.call /\ cl'.reply = c.reply /\ cl'.pending = c.pending
          /\ cl'.dead = c.dead /\ cl'.ended = c.ended /\ cl'.result = c.result /\ cl'.last = c.last
          /\ cl'.ready = c.ready /\ ~cl'.closed
      BY <1>4, <3>1 DEF Clients
    <3>3. /\ cl' \in Clients /\ cl'.reply = None /\ cl'.pending = None
          /\ cl'.dead = cl.dead /\ cl'.ended = cl.ended /\ cl'.result = cl.result /\ cl'.last = cl.last
          /\ cl'.ready = cl.ready
      BY <1>2, <1>4, <3>2
    <3>4. cl'.call = "none" /\ inputOpen' = inputOpen /\ ~cl'.closed
      BY <1>1, <1>2, <1>4, <3>2
    <3>5. QED
      BY <1>1, <1>2, <1>14, <2>2, <2>3, <3>3, <3>4
  <2>4. CASE type # "incomplete"
    <3> DEFINE err == type # "complete"
    <3>1. cl' = [c EXCEPT !.call = "wait", !.err = err] /\ err \in BOOLEAN
      BY <2>1, <2>4
    <3> HIDE DEF err
    <3>2. /\ cl' \in Clients /\ cl'.call = "wait" /\ cl'.reply = c.reply /\ cl'.pending = c.pending
          /\ cl'.dead = c.dead /\ cl'.ended = c.ended /\ cl'.result = c.result /\ cl'.last = c.last
          /\ cl'.ready = c.ready /\ cl'.closed = c.closed /\ cl'.err = err
      BY <1>4, <3>1 DEF Clients
    <3>3. err <=> type # "complete"
      BY DEF err
    <3>4. /\ cl' \in Clients /\ cl'.reply = None /\ cl'.pending = None
          /\ cl'.dead = cl.dead /\ cl'.ended = cl.ended /\ cl'.result = cl.result /\ cl'.last = cl.last
          /\ cl'.ready = cl.ready
      BY <1>2, <1>4, <3>2
    <3>5. cl'.call = "wait" /\ inputOpen' = FALSE /\ cl'.closed = cl.closed /\ (cl'.err <=> ~Answered("complete"))
      BY <1>1, <1>4, <2>2, <3>2, <3>3
    <3>6. QED
      BY <1>1, <1>2, <1>14, <3>4, <3>5
  <2>5. QED
    BY <2>3, <2>4
<1>15. QED
  BY <1>2, <1>11, <1>12, <1>13, <1>14

\* A call that gives up loses the connection, or its wait for the helper.
LEMMA TimingOut ==
    ASSUME TypeOK, Timeout
    PROVE  /\ cl' \in Clients
           /\ cl'.closed = cl.closed /\ cl'.ready = cl.ready /\ cl'.last = cl.last /\ cl'.err = cl.err
           /\ UNCHANGED <<helperVars, toHelper, toClient, gui, renewal, serial>>
           /\ \/ /\ cl.call \notin {"none", "wait"} /\ cl'.call = cl.call
                 /\ cl'.dead /\ cl'.pending = None /\ cl'.reply = Lost
                 /\ cl'.ended = "closed" => cl.ended = "closed" \/ cl.last = "complete"
                 /\ cl'.result = cl.result /\ inputOpen' = FALSE
              \/ /\ cl.call = "wait" /\ cl'.call = "none"
                 /\ cl'.dead = cl.dead /\ cl'.pending = None /\ cl'.reply = None
                 /\ cl'.ended = cl.ended /\ cl'.result = "failed" /\ inputOpen' = inputOpen
<1>1. cl \in Clients /\ UNCHANGED <<helperVars, toHelper, toClient, gui, renewal, serial>>
  BY DEF TypeOK, Timeout
<1>2. CASE /\ cl.pending # None \/ cl.reply # None
           /\ cl' = [Dead(cl) EXCEPT !.reply = Lost]
           /\ inputOpen' = FALSE
  <2>1. /\ Dead(cl) \in Clients /\ Dead(cl).dead
        /\ Dead(cl).call = cl.call /\ Dead(cl).closed = cl.closed /\ Dead(cl).ready = cl.ready
        /\ Dead(cl).last = cl.last /\ Dead(cl).err = cl.err /\ Dead(cl).result = cl.result
    BY <1>1, DeadIs
  <2>2. Dead(cl).pending = None
    BY <1>1, DeadIs DEF TypeOK, Waits
  <2>3. Dead(cl).ended = "closed" => cl.ended = "closed" \/ cl.last = "complete"
    BY <1>1, DeadIs
  <2> DEFINE d == Dead(cl)
  <2>4. d \in Clients /\ cl' = [d EXCEPT !.reply = Lost]
    BY <1>2, <2>1
  <2> HIDE DEF d
  <2>5. /\ cl' \in Clients /\ cl'.reply = Lost /\ cl'.dead = d.dead /\ cl'.pending = d.pending
        /\ cl'.call = d.call /\ cl'.closed = d.closed /\ cl'.ready = d.ready /\ cl'.ended = d.ended
        /\ cl'.last = d.last /\ cl'.err = d.err /\ cl'.result = d.result
    BY <2>4 DEF Clients
  <2>6. cl.call \notin {"none", "wait"}
    BY <1>2 DEF TypeOK, Waits
  <2> USE DEF d
  <2>7. /\ cl'.dead /\ cl'.pending = None /\ cl'.call = cl.call /\ cl'.result = cl.result
        /\ cl'.closed = cl.closed /\ cl'.ready = cl.ready /\ cl'.last = cl.last /\ cl'.err = cl.err
    BY <2>1, <2>2, <2>5
  <2>8. cl'.ended = "closed" => cl.ended = "closed" \/ cl.last = "complete"
    BY <2>3, <2>5
  <2>9. QED
    BY <1>1, <1>2, <2>5, <2>6, <2>7, <2>8
<1>3. CASE /\ cl.call = "wait"
           /\ cl' = [cl EXCEPT !.call = "none", !.result = "failed"]
           /\ UNCHANGED inputOpen
  <2>1. /\ cl' \in Clients /\ cl'.call = "none" /\ cl'.result = "failed" /\ cl'.dead = cl.dead
        /\ cl'.pending = cl.pending /\ cl'.reply = cl.reply /\ cl'.ended = cl.ended
        /\ cl'.closed = cl.closed /\ cl'.ready = cl.ready /\ cl'.last = cl.last /\ cl'.err = cl.err
    BY <1>1, <1>3 DEF Clients
  <2>2. cl.pending = None /\ cl.reply = None
    BY <1>3 DEF TypeOK, Waits
  <2>3. QED
    BY <1>1, <1>3, <2>1, <2>2
<1>4. QED
  BY <1>2, <1>3 DEF Timeout

LEMMA HavingWaited ==
    ASSUME TypeOK, Waited
    PROVE  /\ ~Running /\ cl.call = "wait"
           /\ cl' \in Clients /\ cl'.call = "none" /\ cl'.pending = None /\ cl'.reply = None
           /\ cl'.closed = cl.closed /\ cl'.ready = cl.ready /\ cl'.last = cl.last
           /\ cl'.dead = cl.dead /\ cl'.ended = cl.ended
           /\ cl'.result = "ok" => helper = "ok" /\ ~cl.err
           /\ toClient' \in {toClient, <<>>}
           /\ UNCHANGED <<helperVars, toHelper, inputOpen, gui, renewal, serial>>
<1> DEFINE result == IF helper = "ok" /\ ~cl.err THEN "ok" ELSE "failed"
<1>1. /\ cl \in Clients /\ ~Running /\ cl.call = "wait"
      /\ cl' = [cl EXCEPT !.call = "none", !.result = result]
      /\ toClient' \in {toClient, <<>>}
      /\ UNCHANGED <<helperVars, toHelper, inputOpen, gui, renewal, serial>>
  BY DEF TypeOK, Waited
<1>2. result \in {"ok", "failed"} /\ (result = "ok" => helper = "ok" /\ ~cl.err)
  OBVIOUS
<1> HIDE DEF result
<1>3. /\ cl' \in Clients /\ cl'.call = "none" /\ cl'.result = result /\ cl'.dead = cl.dead
      /\ cl'.pending = cl.pending /\ cl'.reply = cl.reply /\ cl'.ended = cl.ended
      /\ cl'.closed = cl.closed /\ cl'.ready = cl.ready /\ cl'.last = cl.last
  BY <1>1, <1>2 DEF Clients
<1>4. cl.pending = None /\ cl.reply = None
  BY <1>1 DEF TypeOK, Waits
<1>5. QED
  BY <1>1, <1>2, <1>3, <1>4

\* What the reader makes of a message: the proof or the report of an unfinished
\* rollback, and the answer that a call waits for.
LEMMA Receiving ==
    ASSUME TypeOK, toClient # <<>>, NEW m, m = Head(toClient), Receive(m)
    PROVE  /\ toClient' = Tail(toClient) /\ m \in Reports
           /\ cl' \in Clients /\ cl'.call = cl.call /\ cl'.dead = cl.dead /\ cl'.closed = cl.closed
           /\ cl'.ready = cl.ready /\ cl'.err = cl.err /\ cl'.result = cl.result /\ cl'.ended = cl.ended
           /\ cl'.last = IF m.type \in Proofs THEN "complete"
                         ELSE IF m.type = "incomplete" THEN "incomplete" ELSE cl.last
           /\ \/ m.id = cl.pending /\ cl'.pending = None /\ cl'.reply = m
              \/ m.id # cl.pending /\ cl'.pending = cl.pending /\ cl'.reply = cl.reply
<1> DEFINE last == CASE m.type \in {"capabilities", "review_changed"} -> "complete"
                     [] m.type \in {"complete", "incomplete"} -> m.type
                     [] OTHER -> cl.last
           renewing == cl.renewing /\ m.type \notin {"complete", "incomplete"}
           c == [cl EXCEPT !.last = last, !.renewing = renewing]
<1>1. m \in Reports /\ cl \in Clients /\ toClient' = Tail(toClient)
  BY Taking DEF TypeOK, Receive
<1>2. m.type \in Responses
  BY <1>1 DEF Reports
<1>3. last = IF m.type \in Proofs THEN "complete"
             ELSE IF m.type = "incomplete" THEN "incomplete" ELSE cl.last
  BY <1>2 DEF Responses, Proofs
<1>4. last \in {"", "complete", "incomplete"} /\ renewing \in BOOLEAN
  BY <1>1, <1>3 DEF Clients
<1>5. cl' = IF m.id = cl.pending THEN [c EXCEPT !.pending = None, !.reply = m]
            ELSE IF m.type = "complete" THEN Clear(c)
            ELSE c
  BY DEF Receive
<1> HIDE DEF last, renewing
<1>6. /\ c \in Clients /\ c.call = cl.call /\ c.dead = cl.dead /\ c.closed = cl.closed
      /\ c.ready = cl.ready /\ c.err = cl.err /\ c.result = cl.result /\ c.ended = cl.ended
      /\ c.last = last /\ c.pending = cl.pending /\ c.reply = cl.reply
  BY <1>1, <1>4 DEF Clients
<1> HIDE DEF c
<1>7. CASE m.id = cl.pending
  <2>1. cl' = [c EXCEPT !.pending = None, !.reply = m]
    BY <1>5, <1>7
  <2>2. None \in Transactions
    BY DEF Transactions
  <2>3. /\ cl' \in Clients /\ cl'.call = c.call /\ cl'.dead = c.dead /\ cl'.closed = c.closed
        /\ cl'.ready = c.ready /\ cl'.err = c.err /\ cl'.result = c.result /\ cl'.ended = c.ended
        /\ cl'.last = c.last /\ cl'.pending = None /\ cl'.reply = m
    BY <1>1, <1>6, <2>1, <2>2 DEF Clients
  <2>4. QED
    BY <1>1, <1>3, <1>6, <1>7, <2>3
<1>8. CASE m.id # cl.pending
  <2>1. cl' = c \/ cl' = [c EXCEPT !.tx = None, !.renewing = FALSE]
    BY <1>5, <1>8 DEF Clear
  <2>2. None \in Transactions
    BY DEF Transactions
  <2>3. /\ cl' \in Clients /\ cl'.call = c.call /\ cl'.dead = c.dead /\ cl'.closed = c.closed
        /\ cl'.ready = c.ready /\ cl'.err = c.err /\ cl'.result = c.result /\ cl'.ended = c.ended
        /\ cl'.last = c.last /\ cl'.pending = c.pending /\ cl'.reply = c.reply
    BY <1>6, <2>1, <2>2 DEF Clients
  <2>4. QED
    BY <1>1, <1>3, <1>6, <1>8, <2>3
<1>9. QED
  BY <1>7, <1>8

\* The connection ends: the helper has, or its input is closed.
Ending ==
    /\ cl' \in Clients /\ cl'.dead
    /\ cl'.call = cl.call /\ cl'.closed = cl.closed /\ cl'.ready = cl.ready
    /\ cl'.last = cl.last /\ cl'.err = cl.err /\ cl'.result = cl.result
    /\ cl'.pending = None
    /\ cl'.reply = cl.reply \/ (cl'.reply = Lost /\ cl.call \notin {"none", "wait"})
    /\ cl'.ended = "closed" => cl.ended = "closed" \/ cl.last = "complete"

LEMMA GivingUp ==
    ASSUME TypeOK, cl' = Dead(cl)
    PROVE  Ending
<1>1. cl \in Clients /\ cl.pending \in Transactions
  BY DEF TypeOK, Clients
<1>2. cl.pending # None => cl.call \notin {"none", "wait"}
  BY DEF TypeOK, Waits
<1>3. CASE cl.dead
  <2>1. cl' = cl /\ cl.pending = None
    BY <1>1, <1>3, DeadIs DEF TypeOK, Waits
  <2>2. QED
    BY <1>1, <1>3, <2>1 DEF Ending
<1>4. CASE ~cl.dead
  <2>1. /\ cl' \in Clients /\ cl'.dead
        /\ cl'.call = cl.call /\ cl'.closed = cl.closed /\ cl'.ready = cl.ready
        /\ cl'.last = cl.last /\ cl'.err = cl.err /\ cl'.result = cl.result
        /\ cl'.pending = None /\ (cl'.ended = "closed" => cl.last = "complete")
        /\ cl'.reply = IF cl.pending # None THEN Lost ELSE cl.reply
    BY <1>1, <1>4, DeadIs
  <2>2. QED
    BY <1>2, <2>1 DEF Ending
<1>5. QED
  BY <1>3, <1>4

\* A renewal is a message of its own.
LEMMA Renewing ==
    ASSUME TypeOK, RenewWrite
    PROVE  /\ serial' = serial + 1 /\ serial' \in Ids /\ renewal' = None
           /\ UNCHANGED <<helperVars, toClient, gui>>
           /\ \/ /\ Msg(serial + 1, "renew", renewal) \in Orders
                 /\ toHelper' = Append(toHelper, Msg(serial + 1, "renew", renewal))
                 /\ UNCHANGED <<inputOpen, cl>>
              \/ /\ Ending
                 /\ inputOpen' = FALSE /\ toHelper' = toHelper
<1>1. /\ serial' = serial + 1 /\ serial' \in Ids /\ renewal' = None
      /\ UNCHANGED <<helperVars, toClient, gui>>
  BY SessionAssumption DEF RenewWrite, TypeOK, Ids
<1>2. Msg(serial + 1, "renew", renewal) \in Orders
  BY <1>1 DEF Msg, Orders, Requests, TypeOK
<1>3. CASE Writable
  BY <1>1, <1>2, <1>3 DEF RenewWrite
<1>4. CASE ~Writable
  <2>1. cl' = Dead(cl) /\ inputOpen' = FALSE /\ toHelper' = toHelper
    BY <1>4 DEF RenewWrite
  <2>2. Ending
    BY <2>1, GivingUp
  <2>3. QED
    BY <1>1, <2>1, <2>2
<1>5. QED
  BY <1>3, <1>4

-----------------------------------------------------------------------------
(* What the steps of the helper do.                                        *)

\* Hardware that may still be off stock after a step was so before.
LEMMA NoLonger ==
    ASSUME NEW before, NEW after, before \in BOOLEAN, after \in {before, FALSE}
    PROVE  after \in BOOLEAN /\ (after => before)
<1>1. after \in BOOLEAN
  OBVIOUS
<1>2. after => before
  OBVIOUS
<1>3. QED
  BY <1>1, <1>2, Zenon

LEMMA RollingBack ==
    ASSUME TypeOK, HelperInv, NEW ok \in BOOLEAN, RollBack(ok)
    PROVE  /\ leased' = FALSE /\ attempted' = TRUE
           /\ active' \in Transactions /\ tuned' \in BOOLEAN /\ faults' \in Nat
           /\ tuned' => tuned
           /\ ok => active' = None /\ (active # None => ~tuned')
           /\ ~ok => active # None /\ active' = active
           /\ Running /\ stage = "probed" /\ ok => ~tuned'
<1>1. /\ tuned \in BOOLEAN /\ active \in Transactions /\ faults \in Nat /\ None \in Transactions
      /\ leased' = FALSE /\ attempted' = TRUE
      /\ Running /\ stage = "probed" /\ active = None => ~tuned
  BY DEF RollBack, TypeOK, HelperInv, Transactions
<1>2. CASE ok
  <2>1. active' = None /\ tuned' = (tuned /\ active = None) /\ faults' = faults
    BY <1>2 DEF RollBack
  <2>2. QED
    BY <1>1, <1>2, <2>1
<1>3. CASE ~ok
  <2>1. active # None /\ faults' = faults + 1 /\ active' = active
    BY <1>3 DEF RollBack
  <2>2. tuned' \in {tuned, FALSE} /\ tuned \in BOOLEAN
    BY <1>3 DEF RollBack, TypeOK
  <2>3. faults' \in Nat
    BY <1>1, <2>1
  <2> tuned' \in BOOLEAN /\ (tuned' => tuned)
    BY <2>2, NoLonger, Zenon
  <2>4. QED
    BY <1>1, <1>3, <2>1, <2>2, <2>3
<1>4. QED
  BY <1>2, <1>3

LEMMA Answering ==
    ASSUME TypeOK, NEW id \in Ids, NEW type \in Responses, NEW tx \in Transactions,
           NEW next \in {"run", "ok", "error"}, Answer(id, type, tx, next)
    PROVE  /\ Msg(id, type, tx) \in Reports /\ Msg(id, type, tx).id = id
           /\ Msg(id, type, tx).type = type
           /\ helper' \in {"run", "ok", "error", "sigpipe"}
           /\ helper' = "ok" => next = "ok"
           /\ Running' => next = "run"
           /\ \/ toClient' = Append(toClient, Msg(id, type, tx)) /\ helper' = next
              \/ toClient' = toClient /\ helper' \in {"error", "sigpipe"}
BY DEF Answer, Msg, Reports, Running

\* One answer, at most, to the message m: while the helper goes on it suits the
\* call, and a proof in it is one.
Replies(m) ==
    \/ /\ toClient' = toClient
       /\ Running' => m.type = "renew"
    \/ \E r \in Reports :
         /\ toClient' = Append(toClient, r) /\ r.id = m.id
         /\ Running' => IsCall(m) /\ Suits(r.type, m.type)
         /\ r.type = "capabilities" => stage' = "probed"
         /\ r.type \in Proofs /\ (m.type = "close" => stage = "probed") =>
              ~tuned' /\ (Running' => active' = None)
         /\ Running' /\ active' # None /\ attempted' =>
              r.type = "incomplete" \/ (active # None /\ attempted /\ m.type # "begin")

\* What is true of every step of the helper that handles m.
Handled(m) ==
    /\ Running /\ toHelper' = Tail(toHelper)
    /\ UNCHANGED <<inputOpen, gui, cl, renewal, serial>>
    /\ helper' \in {"run", "ok", "error", "sigpipe", "killed"}
    /\ stage' \in {"new", "greeted", "probed"} /\ (stage = "probed" => stage' = "probed")
    /\ active' \in Transactions /\ leased' \in BOOLEAN /\ seen' \subseteq Ids
    /\ faults' \in Nat /\ tuned' \in BOOLEAN /\ attempted' \in BOOLEAN
    /\ HelperInv'
    /\ tuned' => tuned \/ m.type = "begin"
    /\ active' # None => active # None \/ m.type = "begin"
    /\ active # None /\ Running' => m.type # "begin"
    /\ m.type = "renew" => UNCHANGED <<active, attempted>> \/ ~Running'
    /\ Replies(m)

LEMMA Handling ==
    ASSUME TypeOK, HelperInv, NEW m \in Orders, Handle(m)
    PROVE  Handled(m)
<1>1. m.id \in Ids /\ m.type \in Requests /\ None \in Transactions /\ m.id \in Transactions
  BY DEF Orders, Transactions
<1>2. m.id # None
  BY <1>1, SessionAssumption DEF Ids
<1>3. /\ Running /\ toHelper' = Tail(toHelper) /\ seen' = seen \cup {m.id}
      /\ UNCHANGED <<inputOpen, gui, cl, renewal, serial>>
  BY DEF Handle, Refuse, Hello, Probe, BeginRefused, BeginIncomplete, Begin, Renew, Revert,
         CloseSession, Accept, Take
<1>4. seen' \subseteq Ids /\ helper = "run"
  BY <1>1, <1>3 DEF TypeOK, Running
<1>5. CASE Refuse(m)
  <2>1. PICK ok \in BOOLEAN :
           /\ RollBack(ok)
           /\ Answer(m.id, IF active = None THEN "failed" ELSE Outcome(ok), None, "error")
    BY <1>5 DEF Refuse, Fatal
  <2> DEFINE type == IF active = None THEN "failed" ELSE Outcome(ok)
  <2>2. type \in Responses /\ (type \in Proofs => active # None /\ ok) /\ type # "capabilities"
    BY DEF Outcome, Responses, Proofs
  <2> HIDE DEF type
  <2>3. Answer(m.id, type, None, "error")
    BY <2>1 DEF type
  <2>4. /\ Msg(m.id, type, None) \in Reports /\ Msg(m.id, type, None).id = m.id
        /\ Msg(m.id, type, None).type = type
        /\ helper' \in {"error", "sigpipe"} /\ ~Running'
        /\ toClient' = toClient \/ toClient' = Append(toClient, Msg(m.id, type, None))
    BY <1>1, <2>2, <2>3, Answering DEF Running
  <2>5. Replies(m)
    BY <2>1, <2>2, <2>4, RollingBack DEF Replies
  <2>6. stage' = stage
    BY <1>5 DEF Refuse
  <2>7. HelperInv'
    BY <1>3, <2>1, <2>4, <2>6, RollingBack DEF HelperInv, OrderlyExit, Running
  <2>8. QED
    BY <1>3, <1>4, <2>1, <2>4, <2>5, <2>6, <2>7, RollingBack DEF Handled, TypeOK
<1>6. CASE Hello(m)
  <2>1. /\ m.type = "hello" /\ stage = "new" /\ stage' = "greeted"
        /\ Answer(m.id, "ready", None, "run")
        /\ UNCHANGED <<active, leased, faults, tuned, attempted>>
    BY <1>6 DEF Hello, Accept, Refused, Invalid
  <2>2. PICK r \in Reports :
           /\ r.id = m.id /\ r.type = "ready"
           /\ helper' \in {"run", "ok", "error", "sigpipe"} /\ (helper' = "ok" => "run" = "ok") /\ (Running' => "run" = "run")
           /\ \/ toClient' = toClient /\ ~Running'
              \/ toClient' = Append(toClient, r)
    BY <1>1, <2>1, Answering DEF Responses, Running
  <2>3. Replies(m)
    <3>1. /\ r.type # "capabilities" /\ r.type \notin Proofs /\ IsCall(m) /\ Suits(r.type, m.type)
          /\ active' # None /\ attempted' => active # None /\ attempted /\ m.type # "begin"
      BY <2>1, <2>2 DEF IsCall, Suits, Proofs, TypeOK
    <3>2. QED
      BY <2>2, <3>1 DEF Replies
  <2>4. HelperInv'
    BY <1>3, <1>4, <2>1, <2>2 DEF HelperInv, OrderlyExit, Running, TypeOK
  <2>5. QED
    BY <1>3, <1>4, <2>1, <2>2, <2>3, <2>4 DEF Handled, TypeOK
<1>7. CASE Probe(m)
  <2>1. PICK type \in {"capabilities", "incomplete", "failed"}, next \in {"run", "error"} :
           /\ m.type = "probe" /\ active = None
           /\ Answer(m.id, type, None, next)
           /\ type = "capabilities" => next = "run" /\ ~tuned' /\ tuned' = FALSE /\ stage' = "probed"
           /\ type # "capabilities" => next = "error" /\ stage' = stage
           /\ UNCHANGED <<active, leased, faults, attempted>>
    BY <1>7 DEF Probe, Accept, Refused, Invalid
  <2>2. PICK r \in Reports :
           /\ r.id = m.id /\ r.type = type
           /\ helper' \in {"run", "ok", "error", "sigpipe"} /\ (helper' = "ok" => next = "ok") /\ (Running' => next = "run")
           /\ \/ toClient' = toClient /\ ~Running'
              \/ toClient' = Append(toClient, r)
    BY <1>1, <2>1, Answering DEF Responses, Running
  <2> tuned' \in {tuned, FALSE} /\ tuned \in BOOLEAN
    BY <1>7 DEF Probe, TypeOK
  <2> tuned' \in BOOLEAN /\ (tuned' => tuned)
    BY NoLonger, Zenon
  <2>3. /\ helper' # "ok" /\ active' = None
        /\ Running' \/ r.type \in Proofs => r.type = "capabilities" /\ ~tuned' /\ stage' = "probed"
    BY <2>1, <2>2 DEF Proofs
  <2>4. Replies(m)
    BY <2>1, <2>2, <2>3 DEF Replies, IsCall, Suits
  <2>5. HelperInv'
    BY <1>3, <1>4, <2>1, <2>2, <2>3 DEF HelperInv, OrderlyExit, Running
  <2>6. stage' \in {"new", "greeted", "probed"} /\ (stage = "probed" => stage' = "probed")
    BY <2>1 DEF TypeOK
  <2>7. UNCHANGED <<active, leased, faults, attempted>> /\ m.type = "probe"
    BY <2>1
  <2>8. QED
    BY <1>3, <1>4, <2>2, <2>3, <2>4, <2>5, <2>6, <2>7 DEF Handled, TypeOK
<1>8. CASE BeginRefused(m)
  <2>1. PICK type \in {"failed", "review_changed"}, next \in {"run", "error"} :
           /\ m.type = "begin" /\ stage = "probed" /\ active = None
           /\ Answer(m.id, type, None, next)
           /\ UNCHANGED <<stage, active, leased, faults, tuned, attempted>>
    BY <1>8 DEF BeginRefused, Accept, Refused, Invalid
  <2>2. PICK r \in Reports :
           /\ r.id = m.id /\ r.type = type
           /\ helper' \in {"run", "ok", "error", "sigpipe"} /\ (helper' = "ok" => next = "ok") /\ (Running' => next = "run")
           /\ \/ toClient' = toClient /\ ~Running'
              \/ toClient' = Append(toClient, r)
    BY <1>1, <2>1, Answering DEF Responses, Running
  <2>3. Replies(m)
    BY <1>3, <2>1, <2>2 DEF Replies, IsCall, Suits, Proofs, HelperInv
  <2>4. HelperInv'
    BY <1>3, <1>4, <2>1, <2>2 DEF HelperInv, OrderlyExit, Running, TypeOK
  <2>5. QED
    BY <1>3, <1>4, <2>1, <2>2, <2>3, <2>4 DEF Handled, TypeOK
<1>9. CASE BeginIncomplete(m)
  <2>1. /\ m.type = "begin" /\ stage = "probed" /\ active = None
        /\ faults' = faults + 1 /\ active' = m.id /\ tuned' \in BOOLEAN /\ attempted' = TRUE
        /\ Answer(m.id, "incomplete", None, "run")
        /\ UNCHANGED <<stage, leased>>
    BY <1>9 DEF BeginIncomplete, Accept, Refused, Invalid
  <2>2. PICK r \in Reports :
           /\ r.id = m.id /\ r.type = "incomplete"
           /\ helper' \in {"run", "ok", "error", "sigpipe"} /\ (helper' = "ok" => "run" = "ok") /\ (Running' => "run" = "run")
           /\ \/ toClient' = toClient /\ ~Running'
              \/ toClient' = Append(toClient, r)
    BY <1>1, <2>1, Answering DEF Responses, Running
  <2>3. Replies(m)
    BY <1>1, <1>2, <2>1, <2>2 DEF Replies, IsCall, Suits, Proofs
  <2>4. HelperInv'
    BY <1>3, <1>4, <1>1, <1>2, <2>1, <2>2 DEF HelperInv, OrderlyExit, Running, TypeOK
  <2>5. QED
    BY <1>3, <1>4, <1>1, <1>2, <2>1, <2>2, <2>3, <2>4 DEF Handled, TypeOK
<1>10. CASE Begin(m)
  <2>1. m.type = "begin" /\ stage = "probed" /\ active = None /\ stage' = stage
    BY <1>10 DEF Begin, Accept, Refused, Invalid
  <2>2. CASE /\ Answer(m.id, "applied", m.id, "run")
             /\ helper' # "error"
             /\ active' = m.id
             /\ leased' = TRUE
             /\ tuned' = TRUE
             /\ attempted' = FALSE
             /\ UNCHANGED faults
    <3>1. PICK r \in Reports :
             /\ r.id = m.id /\ r.type = "applied"
             /\ helper' \in {"run", "ok", "error", "sigpipe"} /\ (helper' = "ok" => "run" = "ok") /\ (Running' => "run" = "run")
             /\ \/ toClient' = toClient /\ ~Running'
                \/ toClient' = Append(toClient, r)
      BY <1>1, <2>2, Answering DEF Responses, Running
    <3>2. Replies(m)
      BY <1>1, <1>2, <2>1, <2>2, <3>1 DEF Replies, IsCall, Suits, Proofs, HelperInv, TypeOK
    <3>3. HelperInv'
      BY <1>3, <1>4, <1>1, <1>2, <2>1, <2>2, <3>1 DEF HelperInv, OrderlyExit, Running, TypeOK
    <3>4. QED
      BY <1>3, <1>4, <1>1, <1>2, <2>1, <2>2, <3>1, <3>2, <3>3 DEF Handled, TypeOK
  <2>3. CASE /\ gui
             /\ helper' = "error"
             /\ attempted' = TRUE
             /\ \/ active' = None /\ tuned' = FALSE /\ UNCHANGED faults
                \/ /\ faults < MaxFaults
                   /\ faults' = faults + 1
                   /\ active' = m.id
                   /\ tuned' \in BOOLEAN
             /\ UNCHANGED <<leased, toClient>>
    <3>1. ~Running' /\ Replies(m)
      BY <2>3 DEF Replies, Running
    <3>2. HelperInv'
      BY <1>2, <2>1, <2>3, <3>1 DEF HelperInv, OrderlyExit, Running
    <3>3. active' \in Transactions /\ faults' \in Nat
      BY <1>1, <2>3 DEF TypeOK
    <3>4. tuned' \in BOOLEAN
      BY <2>3
    <3>5. leased' \in BOOLEAN /\ attempted' \in BOOLEAN
      BY <2>3 DEF TypeOK
    <3>6. QED
      BY <1>3, <1>4, <2>1, <2>3, <3>1, <3>2, <3>3, <3>4, <3>5 DEF Handled, TypeOK
  <2>4. QED
    BY <1>10, <2>2, <2>3 DEF Begin
<1>11. CASE Renew(m)
  <2>1. /\ m.type = "renew"
        /\ UNCHANGED <<helper, stage, active, leased, faults, tuned, attempted, toClient>>
    BY <1>11 DEF Renew, Accept
  <2>2. Replies(m) /\ HelperInv'
    BY <2>1 DEF Replies, HelperInv, OrderlyExit, Running
  <2>3. QED
    BY <1>3, <1>4, <2>1, <2>2 DEF Handled, TypeOK
<1>12. CASE Revert(m)
  <2>1. PICK ok \in BOOLEAN :
           /\ m.type = "revert" /\ stage # "new" /\ active # None /\ stage' = stage
           /\ RollBack(ok)
           /\ Answer(m.id, Outcome(ok), None, "run")
    BY <1>12 DEF Revert, Accept, Refused, Invalid
  <2>2. Outcome(ok) \in Responses /\ Outcome(ok) = IF ok THEN "complete" ELSE "incomplete"
    BY DEF Outcome, Responses
  <2>3. PICK r \in Reports :
           /\ r.id = m.id /\ r.type = Outcome(ok)
           /\ helper' \in {"run", "ok", "error", "sigpipe"} /\ (helper' = "ok" => "run" = "ok") /\ (Running' => "run" = "run")
           /\ \/ toClient' = toClient /\ ~Running'
              \/ toClient' = Append(toClient, r)
    BY <1>1, <2>1, <2>2, Answering DEF Responses, Running
  <2>4. Replies(m)
    BY <2>1, <2>2, <2>3, RollingBack DEF Replies, IsCall, Suits, Proofs, HelperInv, TypeOK
  <2>5. HelperInv'
    BY <1>3, <1>4, <2>1, <2>2, <2>3, RollingBack DEF HelperInv, OrderlyExit, Running, TypeOK
  <2>6. QED
    BY <1>3, <1>4, <2>1, <2>2, <2>3, <2>4, <2>5, RollingBack DEF Handled, TypeOK
<1>13. CASE CloseSession(m)
  <2>1. PICK ok \in BOOLEAN :
           /\ m.type = "close" /\ stage # "new" /\ stage' = stage
           /\ RollBack(ok)
           /\ Answer(m.id, Outcome(ok), None, IF ok THEN "ok" ELSE "run")
    BY <1>13 DEF CloseSession, Accept, Refused, Invalid
  <2> DEFINE next == IF ok THEN "ok" ELSE "run"
  <2>2. Outcome(ok) \in Responses /\ Outcome(ok) = IF ok THEN "complete" ELSE "incomplete"
    BY DEF Outcome, Responses
  <2>3. next \in {"run", "ok", "error"} /\ (next = "run" => ~ok) /\ (next = "ok" => ok)
    OBVIOUS
  <2>4. PICK r \in Reports :
           /\ r.id = m.id /\ r.type = Outcome(ok)
           /\ helper' \in {"run", "ok", "error", "sigpipe"} /\ (helper' = "ok" => next = "ok") /\ (Running' => next = "run")
           /\ \/ toClient' = toClient /\ ~Running'
              \/ toClient' = Append(toClient, r)
    BY <1>1, <2>1, <2>2, <2>3, Answering DEF Responses, Running
  <2> HIDE DEF next
  <2>5. Replies(m)
    BY <1>3, <2>1, <2>2, <2>3, <2>4, RollingBack DEF Replies, IsCall, Suits, Proofs
  <2>6. HelperInv'
    BY <1>3, <1>4, <2>1, <2>2, <2>3, <2>4, RollingBack DEF HelperInv, OrderlyExit, Running, TypeOK
  <2>7. QED
    BY <1>3, <1>4, <2>1, <2>2, <2>3, <2>4, <2>5, <2>6, RollingBack DEF Handled, TypeOK
<1>14. QED
  BY <1>5, <1>6, <1>7, <1>8, <1>9, <1>10, <1>11, <1>12, <1>13 DEF Handle

\* What is true of the steps of the helper that no message causes.
Alone ==
    /\ Running
    /\ UNCHANGED <<stage, seen, toHelper, inputOpen, gui, cl, renewal, serial>>
    /\ helper' \in {"run", "ok", "error", "sigpipe", "killed"}
    /\ active' \in Transactions /\ leased' \in BOOLEAN
    /\ faults' \in Nat /\ tuned' \in BOOLEAN /\ attempted' \in BOOLEAN
    /\ HelperInv'
    /\ tuned' => tuned
    /\ active' # None => active # None
    /\ \/ toClient' = toClient /\ ~Running'
       \/ \E r \in Reports :
            /\ toClient' = Append(toClient, r) /\ r.id = 0
            /\ r.type \in {"complete", "incomplete"}
            /\ Running' => r.type = "incomplete"
            /\ r.type = "complete" => ~tuned'

LEMMA BeingAlone ==
    ASSUME TypeOK, HelperInv, LeaseExpires \/ EndOfInput \/ Signal \/ Kill
    PROVE  Alone
<1>1. CASE LeaseExpires
  <2>1. PICK ok \in BOOLEAN : /\ Running /\ leased
                              /\ RollBack(ok)
                              /\ Answer(0, Outcome(ok), None, IF ok THEN "ok" ELSE "run")
    BY <1>1 DEF LeaseExpires
  <2> DEFINE next == IF ok THEN "ok" ELSE "run"
             type == Outcome(ok)
  <2>2. type \in Responses /\ type = IF ok THEN "complete" ELSE "incomplete"
    BY DEF Outcome, Responses
  <2>3. next \in {"run", "ok", "error"} /\ (next = "run" => ~ok) /\ (next = "ok" => ok)
    OBVIOUS
  <2>4. Answer(0, type, None, next) /\ 0 \in Ids /\ None \in Transactions
    BY <2>1, SessionAssumption DEF Ids, Transactions
  <2> HIDE DEF next, type
  <2>5. PICK r \in Reports :
           /\ r.id = 0 /\ r.type = type
           /\ helper' \in {"run", "ok", "error", "sigpipe"} /\ (helper' = "ok" => next = "ok") /\ (Running' => next = "run")
           /\ \/ toClient' = toClient /\ ~Running'
              \/ toClient' = Append(toClient, r)
    BY <2>2, <2>3, <2>4, Answering DEF Running
  <2>6. active # None
    BY <2>1 DEF HelperInv
  <2>7. UNCHANGED <<stage, seen, toHelper, inputOpen, gui, cl, renewal, serial>>
    BY <1>1 DEF LeaseExpires
  <2>8. HelperInv'
    BY <2>1, <2>3, <2>5, <2>6, <2>7, RollingBack DEF HelperInv, OrderlyExit, Running
  <2>9. \/ toClient' = toClient /\ ~Running'
        \/ \E q \in Reports :
             /\ toClient' = Append(toClient, q) /\ q.id = 0
             /\ q.type \in {"complete", "incomplete"}
             /\ Running' => q.type = "incomplete"
             /\ q.type = "complete" => ~tuned'
    BY <2>1, <2>2, <2>3, <2>5, <2>6, RollingBack
  <2>10. QED
    BY <2>1, <2>5, <2>6, <2>7, <2>8, <2>9, RollingBack DEF Alone
<1>2. CASE EndOfInput \/ Signal
  <2>1. PICK ok \in BOOLEAN : /\ Running /\ RollBack(ok)
                              /\ helper' \in {"ok", "error"} /\ (helper' = "ok" => ok)
    BY <1>2 DEF EndOfInput, Signal
  <2>2. UNCHANGED <<stage, seen, toHelper, inputOpen, toClient, gui, cl, renewal, serial>>
    BY <1>2 DEF EndOfInput, Signal
  <2>3. ~Running'
    BY <2>1 DEF Running
  <2>4. HelperInv'
    BY <2>1, <2>2, <2>3, RollingBack DEF HelperInv, OrderlyExit
  <2>5. active' # None => active # None
    BY <2>1, RollingBack
  <2>6. QED
    BY <2>1, <2>2, <2>3, <2>4, <2>5, RollingBack DEF Alone
<1>3. CASE Kill
  <2>1. Running /\ helper' = "killed" /\ ~Running'
    BY <1>3 DEF Kill, Running
  <2>2. UNCHANGED <<stage, active, leased, seen, faults, tuned, attempted,
                    toHelper, inputOpen, toClient, gui, cl, renewal, serial>>
    BY <1>3 DEF Kill
  <2>3. HelperInv'
    BY <2>1, <2>2 DEF HelperInv, OrderlyExit
  <2>4. QED
    BY <2>1, <2>2, <2>3 DEF Alone, TypeOK
<1>4. QED
  BY <1>1, <1>2, <1>3

-----------------------------------------------------------------------------
(* The steps, by what they do to the state.                                *)

HelperHandles == toHelper # <<>> /\ Handled(Head(toHelper))

ClientSends ==
    \E type \in Requests, tx \in Transactions :
        /\ Sent(type, tx)
        /\ type = "close" => cl.ready \in {"failed", "ready"}

ClientCloses ==
    /\ cl' \in Clients /\ cl'.closed /\ cl.call = "none" /\ ~cl.closed
    /\ cl.ready \in {"failed", "ready"}
    /\ cl'.ready = cl.ready /\ cl'.last = cl.last /\ cl'.result = cl.result
    /\ UNCHANGED <<helperVars, toClient, gui, renewal>>
    /\ ClosedDead \/ ClosedAtOnce

ClientReads == toClient # <<>> /\ Receive(Head(toClient)) /\ UNCHANGED <<helperVars, toHelper, inputOpen, gui, renewal, serial>>

ClientLosesHelper ==
    /\ ~Running /\ Ending
    /\ UNCHANGED <<helperVars, toHelper, inputOpen, toClient, gui, renewal, serial>>

\* Nothing but the renewal goroutine's own state, or the life of the GUI.
Elsewhere ==
    /\ UNCHANGED <<helperVars, toHelper, toClient, cl, serial>>
    /\ inputOpen' \in {inputOpen, FALSE} /\ renewal' \in Transactions /\ gui' \in {gui, FALSE}

LEMMA StepKinds ==
    ASSUME TypeOK, HelperInv, [Next]_vars
    PROVE  \/ HelperHandles \/ Alone
           \/ ClientSends \/ ClientCloses
           \/ Return \/ Timeout \/ Waited
           \/ ClientReads \/ ClientLosesHelper
           \/ RenewWrite \/ Elsewhere
<1>1. ASSUME HelperStep PROVE HelperHandles \/ Alone
  <2>1. CASE toHelper # <<>> /\ Handle(Head(toHelper))
    <3>1. Head(toHelper) \in Orders
      BY <2>1, Taking DEF TypeOK
    <3>2. QED
      BY <2>1, <3>1, Handling DEF HelperHandles
  <2>2. QED
    BY <1>1, <2>1, BeingAlone DEF HelperStep
<1>2. ASSUME Calls PROVE ClientSends \/ ClientCloses
  <2>1. cl.tx \in Transactions /\ None \in Transactions
    BY DEF TypeOK, Clients, Transactions
  <2>2. CASE CallClose
    <3>1. Sent("close", None) => ClientSends
      BY <2>1, <2>2, Closing DEF ClientSends, Requests
    <3>2. QED
      BY <2>2, <3>1, Closing DEF ClientCloses
  <2>3. CASE CallHello
    BY <2>1, <2>3, CallsSend DEF ClientSends, Requests
  <2>4. CASE CallProbe
    BY <2>1, <2>4, CallsSend DEF ClientSends, Requests
  <2>5. CASE CallApply
    BY <2>1, <2>5, CallsSend DEF ClientSends, Requests
  <2>6. CASE CallRevert
    BY <2>1, <2>6, CallsSend DEF ClientSends, Requests
  <2>7. QED
    BY <1>2, <2>2, <2>3, <2>4, <2>5, <2>6 DEF Calls
<1>3. ASSUME ReadLoop PROVE ClientReads \/ ClientLosesHelper
  <2>1. CASE toClient # <<>> /\ Receive(Head(toClient))
    BY <1>3, <2>1 DEF ReadLoop, ClientReads
  <2>2. CASE ~Running /\ cl' = Dead(cl) /\ UNCHANGED toClient
    BY <1>3, <2>2, GivingUp DEF ReadLoop, ClientLosesHelper
  <2>3. QED
    BY <1>3, <2>1, <2>2 DEF ReadLoop
<1>4. ASSUME RenewTick PROVE Elsewhere
  BY <1>4 DEF RenewTick, Elsewhere, TypeOK, Clients
<1>5. ASSUME GuiDies PROVE Elsewhere
  BY <1>5 DEF GuiDies, Elsewhere, TypeOK
<1>6. ASSUME UNCHANGED vars PROVE Elsewhere
  BY <1>6 DEF vars, helperVars, Elsewhere, TypeOK
<1>7. QED
  BY <1>1, <1>2, <1>3, <1>4, <1>5, <1>6, BeingAlone DEF Next

-----------------------------------------------------------------------------
(* Type correctness is inductive, given what the helper keeps of itself.   *)

LEMMA TypeNext ==
    ASSUME TypeOK, HelperInv, [Next]_vars
    PROVE  TypeOK' /\ HelperInv'
<1> USE DEF helperVars
<1>1. CASE HelperHandles
  <2>1. toHelper' \in Seq(Orders) /\ Handled(Head(toHelper))
    BY <1>1, Taking DEF HelperHandles, Handled, TypeOK
  <2>2. toClient' \in Seq(Reports)
    <3>1. toClient' = toClient \/ \E r \in Reports : toClient' = Append(toClient, r)
      BY <2>1 DEF Handled, Replies
    <3>2. QED
      BY <3>1, Appending DEF TypeOK
  <2>3. Waits(cl')
    BY <2>1 DEF Handled, TypeOK
  <2>4. QED
    BY <2>1, <2>2, <2>3 DEF Handled, TypeOK
<1>2. CASE Alone
  <2>1. toClient' \in Seq(Reports)
    BY <1>2, Appending DEF Alone, TypeOK
  <2>2. Waits(cl')
    BY <1>2 DEF Alone, TypeOK
  <2>3. QED
    BY <1>2, <2>1, <2>2 DEF Alone, TypeOK
<1>3. ASSUME ~HelperHandles, ~Alone
      PROVE  UNCHANGED helperVars
  <2>1. CASE ClientSends
    BY <2>1 DEF ClientSends, Sent
  <2>2. CASE ClientCloses
    BY <2>2 DEF ClientCloses
  <2>3. CASE Return
    BY <2>3 DEF Return
  <2>4. CASE Timeout
    BY <2>4 DEF Timeout
  <2>5. CASE Waited
    BY <2>5 DEF Waited
  <2>6. CASE ClientReads
    BY <2>6 DEF ClientReads
  <2>7. CASE ClientLosesHelper
    BY <2>7 DEF ClientLosesHelper
  <2>8. CASE RenewWrite
    BY <2>8 DEF RenewWrite
  <2>9. CASE Elsewhere
    BY <2>9 DEF Elsewhere
  <2>10. QED
    BY <1>3, <2>1, <2>2, <2>3, <2>4, <2>5, <2>6, <2>7, <2>8, <2>9, StepKinds
<1>4. ASSUME UNCHANGED helperVars
      PROVE  HelperInv'
  BY <1>4 DEF HelperInv, OrderlyExit, Running
<1>5. ASSUME UNCHANGED helperVars, UNCHANGED <<toClient, gui>>, renewal' \in Transactions,
             toHelper' \in Seq(Orders), inputOpen' \in BOOLEAN, serial' \in Ids,
             cl' \in Clients, Waits(cl')
      PROVE  TypeOK'
  BY <1>5 DEF TypeOK
<1>6. CASE ClientSends
  <2>1. PICK type \in Requests, tx \in Transactions : Sent(type, tx)
    BY <1>6 DEF ClientSends
  <2>2. toHelper' \in Seq(Orders)
    <3>1. toHelper' = toHelper \/ \E q \in Orders : toHelper' = Append(toHelper, q)
      BY <2>1 DEF Sent
    <3>2. QED
      BY <3>1, Appending DEF TypeOK
  <2> inputOpen' \in BOOLEAN
    BY <2>1 DEF Sent, TypeOK
  <2>3. cl' \in Clients /\ Waits(cl')
    BY <2>1 DEF Sent, Waits, Requests
  <2>4. UNCHANGED helperVars /\ UNCHANGED <<toClient, gui>> /\ renewal' \in Transactions /\ serial' \in Ids
    BY <2>1 DEF Sent, TypeOK
  <2>5. QED
    BY <1>4, <1>5, <2>2, <2>3, <2>4
<1>7. CASE ClientCloses
  <2>1. CASE ClosedDead
    <3>1. Waits(cl') /\ cl' \in Clients /\ UNCHANGED <<toHelper, inputOpen, serial>>
      BY <1>7, <2>1 DEF ClientCloses, ClosedDead, Waits
    <3>2. QED
      BY <1>4, <1>5, <1>7, <3>1 DEF ClientCloses, TypeOK
  <2>2. CASE ClosedAtOnce
    <3>1. Waits(cl') /\ cl' \in Clients /\ inputOpen' = FALSE /\ serial' \in Ids
      BY <1>7, <2>2 DEF ClientCloses, ClosedAtOnce, Waits
    <3>2. toHelper' \in Seq(Orders)
      BY <2>2, Appending DEF ClosedAtOnce, TypeOK
    <3>3. QED
      BY <1>4, <1>5, <1>7, <3>1, <3>2 DEF ClientCloses, TypeOK
  <2>3. QED
    BY <1>7, <2>1, <2>2 DEF ClientCloses
<1>8. CASE Return
  <2>1. /\ cl' \in Clients /\ cl'.reply = None /\ cl'.pending = None
        /\ UNCHANGED <<helperVars, toHelper, toClient, gui, renewal, serial>>
        /\ inputOpen' \in BOOLEAN
    BY <1>8, Returning DEF TypeOK
  <2>2. cl'.closed => cl'.call \in {"none", "wait", "close"}
    BY <1>8, Returning
  <2>3. QED
    BY <1>4, <1>5, <2>1, <2>2 DEF TypeOK, Waits
<1>9. CASE Timeout
  <2>1. /\ cl' \in Clients
        /\ UNCHANGED <<helperVars, toHelper, toClient, gui, renewal, serial>>
        /\ inputOpen' \in BOOLEAN
    BY <1>9, TimingOut DEF TypeOK
  <2>2. cl'.pending = None /\ (cl'.call \in {"none", "wait"} => cl'.reply = None)
    BY <1>9, TimingOut
  <2>3. cl'.closed => cl'.call \in {"none", "wait", "close"}
    BY <1>9, TimingOut DEF TypeOK, Waits
  <2>4. QED
    BY <1>4, <1>5, <2>1, <2>2, <2>3 DEF TypeOK, Waits
<1>10. CASE Waited
  <2>1. /\ cl' \in Clients /\ Waits(cl')
        /\ UNCHANGED <<helperVars, toHelper, inputOpen, gui, renewal, serial>>
    BY <1>10, HavingWaited DEF Waits
  <2>2. toClient' \in Seq(Reports)
    <3>1. toClient' = toClient \/ toClient' = <<>>
      BY <1>10, HavingWaited
    <3>2. toClient \in Seq(Reports) /\ <<>> \in Seq(Reports)
      BY DEF TypeOK
    <3>3. QED
      BY <3>1, <3>2, Zenon
  <2>3. QED
    BY <1>4, <2>1, <2>2 DEF TypeOK
<1>11. CASE ClientReads
  <2> DEFINE m == Head(toClient)
  <2>1. toClient # <<>> /\ Receive(m)
        /\ UNCHANGED <<helperVars, toHelper, inputOpen, gui, renewal, serial>>
    BY <1>11 DEF ClientReads
  <2> HIDE DEF m
  <2>2. /\ toClient' = Tail(toClient) /\ m \in Reports
        /\ cl' \in Clients /\ cl'.call = cl.call /\ cl'.dead = cl.dead /\ cl'.closed = cl.closed
        /\ \/ m.id = cl.pending /\ cl'.pending = None /\ cl'.reply = m
           \/ m.id # cl.pending /\ cl'.pending = cl.pending /\ cl'.reply = cl.reply
    BY <2>1, Receiving DEF m
  <2>3. toClient' \in Seq(Reports)
    BY <2>1, <2>2, Taking DEF TypeOK
  <2>4. m.id # None
    BY <2>2, SessionAssumption DEF Reports, Ids
  <2>5. Waits(cl')
    BY <2>2, <2>4 DEF TypeOK, Waits
  <2>6. QED
    BY <1>4, <2>1, <2>2, <2>3, <2>5 DEF TypeOK
<1>12. CASE ClientLosesHelper
  <2>1. Ending /\ UNCHANGED <<helperVars, toHelper, inputOpen, toClient, gui, renewal, serial>>
    BY <1>12 DEF ClientLosesHelper
  <2>2. cl' \in Clients /\ Waits(cl')
    BY <2>1 DEF Ending, TypeOK, Waits
  <2>3. QED
    BY <1>4, <1>5, <2>1, <2>2 DEF TypeOK
<1>13. CASE RenewWrite
  <2>1. /\ serial' \in Ids /\ renewal' \in Transactions
        /\ UNCHANGED <<helperVars, toClient, gui>>
        /\ inputOpen' \in BOOLEAN
    BY <1>13, Renewing DEF TypeOK, Transactions
  <2>2. toHelper' \in Seq(Orders)
    <3>1. toHelper' = toHelper \/ \E q \in Orders : toHelper' = Append(toHelper, q)
      BY <1>13, Renewing
    <3>2. QED
      BY <3>1, Appending DEF TypeOK
  <2>3. UNCHANGED cl \/ Ending
    BY <1>13, Renewing
  <2>4. cl' \in Clients /\ Waits(cl')
    BY <2>3 DEF Ending, TypeOK, Waits
  <2>5. QED
    BY <1>4, <1>5, <2>1, <2>2, <2>4
<1>14. CASE Elsewhere
  <2>1. Waits(cl')
    BY <1>14 DEF Elsewhere, TypeOK
  <2>2. QED
    BY <1>4, <1>14, <2>1 DEF Elsewhere, TypeOK
<1>15. QED
  BY <1>1, <1>2, <1>6, <1>7, <1>8, <1>9, <1>10, <1>11, <1>12, <1>13, <1>14, StepKinds DEF HelperHandles, Handled, Alone

-----------------------------------------------------------------------------
(* The flow of messages.                                                   *)

\* A client that is open and waits for nothing has nothing under way.
LEMMA Idle ==
    ASSUME TypeOK, Flow, Running, Open, cl.pending = None
    PROVE  /\ \A i \in 1..Len(toHelper) : ~IsCall(toHelper[i])
           /\ \A i \in 1..Len(toClient) : toClient[i].id = 0
<1>1. /\ \A i \in 1..Len(toHelper) : toHelper[i].id # None
      /\ \A i \in 1..Len(toClient) : toClient[i].id # None
  <2>1. None \notin Ids
    BY SessionAssumption DEF Ids
  <2>2. /\ \A i \in 1..Len(toHelper) : toHelper[i] \in Orders
        /\ \A i \in 1..Len(toClient) : toClient[i] \in Reports
    BY DEF TypeOK
  <2>3. (\A m \in Orders : m.id \in Ids) /\ (\A m \in Reports : m.id \in Ids)
    BY DEF Orders, Reports
  <2>4. QED
    BY <2>1, <2>2, <2>3
<1>2. QED
  BY <1>1 DEF Flow, OneAnswer

\* What a step that leaves the helper alone keeps.
LEMMA FlowOfDead ==
    ASSUME TypeOK, Flow, UNCHANGED <<helper, toHelper, toClient>>, cl'.dead, cl'.pending = None,
           inputOpen' = FALSE \/ ~Running
    PROVE  Flow'
<1>1. None # 0
  BY SessionAssumption
<1>2. Dropped' /\ Identified'
  BY <1>1 DEF Flow, Dropped, Identified, Running
<1>3. OneCall' /\ OneAnswer'
  BY DEF Flow, OneCall, OneAnswer, Open, Running
<1>4. QED
  BY <1>2, <1>3 DEF Flow

LEMMA FlowOfHelper ==
    ASSUME TypeOK, Flow, HelperHandles
    PROVE  Flow'
<1> DEFINE m == Head(toHelper)
<1>1. /\ Running /\ toHelper # <<>> /\ toHelper' = Tail(toHelper) /\ UNCHANGED <<inputOpen, cl>>
      /\ \/ toClient' = toClient /\ (Running' => ~IsCall(m))
         \/ \E r \in Reports : toClient' = Append(toClient, r) /\ r.id = m.id /\ (Running' => IsCall(m))
  BY DEF HelperHandles, Handled, Replies, IsCall
<1>2. /\ Len(toHelper) \in Nat /\ Len(toHelper') = Len(toHelper) - 1
      /\ 1 \in 1..Len(toHelper) /\ m = toHelper[1]
      /\ \A i \in 1..Len(toHelper') : i + 1 \in 1..Len(toHelper) /\ toHelper'[i] = toHelper[i + 1]
  BY <1>1, Taking DEF TypeOK
<1> HIDE DEF m
<1>3. Dropped'
  BY <1>1 DEF Flow, Dropped
<1>4. OneCall'
  BY <1>1, <1>2 DEF Flow, OneCall
<1>5. m.id # 0
  BY <1>2 DEF Flow, Identified
<1>6. Open' <=> Open
  BY <1>1 DEF Open
<1>7. CASE toClient' = toClient /\ (Running' => ~IsCall(m))
  <2>1. Identified'
    BY <1>1, <1>2, <1>7 DEF Flow, Identified
  <2>2. OneAnswer'
    BY <1>1, <1>2, <1>6, <1>7 DEF Flow, OneAnswer
  <2>3. QED
    BY <1>3, <1>4, <2>1, <2>2 DEF Flow
<1>8. ASSUME NEW r \in Reports, toClient' = Append(toClient, r), r.id = m.id, Running' => IsCall(m)
      PROVE  Flow'
  <2>1. /\ Len(toClient) \in Nat /\ Len(toClient') = Len(toClient) + 1
        /\ \A i \in 1..Len(toClient) : i \in 1..Len(toClient') /\ toClient'[i] = toClient[i]
        /\ toClient'[Len(toClient) + 1] = r
        /\ \A i \in 1..Len(toClient') : i \in 1..Len(toClient) \/ i = Len(toClient) + 1
    BY <1>8, Appending DEF TypeOK
  <2>2. Identified'
    BY <1>1, <1>2, <1>5, <1>8, <2>1 DEF Flow, Identified
  <2>3. ASSUME Running', Open'
        PROVE  /\ \A i \in 1..Len(toClient) : toClient[i].id = 0
               /\ \A i \in 1..Len(toHelper') : ~IsCall(toHelper'[i])
               /\ r.id = cl.pending
    <3>1. IsCall(toHelper[1]) /\ Open
      BY <1>2, <1>6, <1>8, <2>3
    <3>2. r.id = cl.pending /\ \A j \in 1..Len(toClient) : toClient[j].id = 0
      BY <1>1, <1>2, <1>8, <3>1 DEF Flow, OneAnswer
    <3>3. \A i \in 1..Len(toHelper') : i + 1 # 1 /\ ~IsCall(toHelper[i + 1])
      BY <1>1, <1>2, <3>1 DEF Flow, OneCall
    <3>4. QED
      BY <1>2, <3>2, <3>3
  <2>4. OneAnswer'
    BY <1>1, <2>1, <2>3 DEF OneAnswer
  <2>5. QED
    BY <1>3, <1>4, <2>2, <2>4 DEF Flow
<1>9. QED
  BY <1>1, <1>7, <1>8

LEMMA FlowOfLease ==
    ASSUME TypeOK, Flow, Alone
    PROVE  Flow'
<1>1. /\ Running /\ UNCHANGED <<toHelper, inputOpen, cl>>
      /\ \/ toClient' = toClient /\ ~Running'
         \/ \E r \in Reports : /\ toClient' = Append(toClient, r) /\ r.id = 0
                               /\ Running' => r.type = "incomplete"
  BY DEF Alone
<1>2. Dropped' /\ OneCall'
  BY <1>1 DEF Flow, Dropped, OneCall
<1>3. Open' <=> Open
  BY <1>1 DEF Open
<1>4. CASE toClient' = toClient /\ ~Running'
  BY <1>1, <1>2, <1>4 DEF Flow, Identified, OneAnswer
<1>5. ASSUME NEW r \in Reports, toClient' = Append(toClient, r), r.id = 0, Running' => r.type = "incomplete"
      PROVE  Flow'
  <2>1. /\ Len(toClient) \in Nat /\ Len(toClient') = Len(toClient) + 1
        /\ \A i \in 1..Len(toClient) : i \in 1..Len(toClient') /\ toClient'[i] = toClient[i]
        /\ toClient'[Len(toClient) + 1] = r
        /\ \A i \in 1..Len(toClient') : i \in 1..Len(toClient) \/ i = Len(toClient) + 1
    BY <1>5, Appending DEF TypeOK
  <2>2. Identified'
    BY <1>1, <1>5, <2>1 DEF Flow, Identified
  <2>3. OneAnswer'
    BY <1>1, <1>3, <1>5, <2>1 DEF Flow, OneAnswer
  <2>4. QED
    BY <1>2, <2>2, <2>3 DEF Flow
<1>6. QED
  BY <1>1, <1>4, <1>5

LEMMA FlowOfRequest ==
    ASSUME TypeOK, Flow, NEW type \in Requests, NEW tx \in Transactions, Sent(type, tx)
    PROVE  Flow'
<1> DEFINE q == Msg(serial + 1, type, tx)
<1>1. /\ cl.call = "none" /\ ~cl.dead /\ ~cl.closed /\ Open /\ cl.pending = None /\ cl'.call = type
      /\ type # "renew" /\ UNCHANGED <<helper, toClient>> /\ (cl'.closed <=> type = "close")
  BY DEF Sent, TypeOK, Waits, Open, helperVars
<1>2. CASE Writable
  <2>1. /\ Running /\ toHelper' = Append(toHelper, q) /\ q \in Orders /\ inputOpen' = inputOpen
        /\ ~cl'.dead /\ cl'.pending = serial + 1 /\ cl'.reply = None
    BY <1>2 DEF Sent, Writable
  <2>2. /\ q.id = serial + 1 /\ q.type = type /\ IsCall(q) /\ serial + 1 # 0
    BY <1>1 DEF Msg, IsCall, TypeOK, Ids
  <2> HIDE DEF q
  <2>3. /\ Len(toHelper) \in Nat /\ Len(toHelper') = Len(toHelper) + 1
        /\ \A i \in 1..Len(toHelper) : i \in 1..Len(toHelper') /\ toHelper'[i] = toHelper[i]
        /\ toHelper'[Len(toHelper) + 1] = q
        /\ \A i \in 1..Len(toHelper') : i \in 1..Len(toHelper) \/ i = Len(toHelper) + 1
    BY <2>1, Appending DEF TypeOK
  <2>4. /\ \A i \in 1..Len(toHelper) : ~IsCall(toHelper[i])
        /\ \A i \in 1..Len(toClient) : toClient[i].id = 0
    BY <1>1, <2>1, Idle
  <2>5. None # Lost /\ Running'
    BY <1>1, <2>1, SessionAssumption DEF Running
  <2>6. Dropped'
    BY <2>1, <2>5 DEF Dropped
  <2>7. Identified'
    BY <1>1, <2>1, <2>2, <2>3, <2>5 DEF Flow, Identified
  <2>8. OneCall'
    BY <2>3, <2>4 DEF OneCall
  <2>9. OneAnswer'
    BY <1>1, <2>1, <2>2, <2>3, <2>4 DEF OneAnswer
  <2>10. QED
    BY <2>6, <2>7, <2>8, <2>9 DEF Flow
<1>3. CASE ~Writable
  <2>1. /\ cl'.dead /\ cl'.pending = None /\ inputOpen' = FALSE /\ UNCHANGED <<helper, toHelper, toClient>>
    BY <1>1, <1>3 DEF Sent
  <2>2. QED
    BY <2>1, FlowOfDead
<1>4. QED
  BY <1>2, <1>3

LEMMA FlowOfClose ==
    ASSUME TypeOK, Flow, ClientCloses
    PROVE  Flow'
<1>1. UNCHANGED <<helper, toClient>> /\ cl'.closed /\ cl.call = "none" /\ ~cl.closed /\ cl.pending = None
  BY DEF ClientCloses, TypeOK, Waits, helperVars
<1>2. CASE ClosedDead
  <2>1. /\ cl.dead /\ cl'.dead /\ cl'.pending = None /\ UNCHANGED <<toHelper, inputOpen>>
    BY <1>2 DEF ClosedDead
  <2>2. inputOpen' = FALSE \/ ~Running
    BY <2>1 DEF Flow, Dropped, TypeOK
  <2>3. QED
    BY <1>1, <2>1, <2>2, FlowOfDead
<1>3. CASE ClosedAtOnce
  <2> DEFINE q == Msg(serial + 1, "close", None)
  <2>1. /\ inputOpen' = FALSE /\ cl'.call = "wait" /\ cl'.pending = None /\ cl'.reply = None /\ q \in Orders
        /\ toHelper' = IF Writable THEN Append(toHelper, q) ELSE toHelper
    BY <1>3 DEF ClosedAtOnce
  <2>2. None # Lost /\ None # 0 /\ ~Open' /\ (Running' <=> Running) /\ Dropped'
    BY <1>1, <2>1, SessionAssumption DEF Open, Running, Dropped
  <2>3. OneAnswer'
    BY <2>2 DEF OneAnswer
  <2>4. CASE Writable
    <3>1. Running /\ Open
      BY <1>1, <2>4 DEF Writable, Open, Flow, Dropped
    <3>2. \A i \in 1..Len(toHelper) : ~IsCall(toHelper[i])
      BY <1>1, <3>1, Idle
    <3>3. q.id # 0 /\ toHelper' = Append(toHelper, q)
      BY <2>1, <2>4 DEF Msg, TypeOK, Ids
    <3> HIDE DEF q
    <3>4. /\ Len(toHelper) \in Nat /\ Len(toHelper') = Len(toHelper) + 1
          /\ \A i \in 1..Len(toHelper) : i \in 1..Len(toHelper') /\ toHelper'[i] = toHelper[i]
          /\ toHelper'[Len(toHelper) + 1] = q
          /\ \A i \in 1..Len(toHelper') : i \in 1..Len(toHelper) \/ i = Len(toHelper) + 1
      BY <2>1, <3>3, Appending DEF TypeOK
    <3>5. Identified'
      BY <1>1, <2>1, <2>2, <3>3, <3>4 DEF Flow, Identified
    <3>6. OneCall'
      BY <3>2, <3>4 DEF OneCall
    <3>7. QED
      BY <2>2, <2>3, <3>5, <3>6 DEF Flow
  <2>5. CASE ~Writable
    <3>1. toHelper' = toHelper
      BY <2>1, <2>5
    <3>2. Identified' /\ OneCall'
      BY <1>1, <2>1, <2>2, <3>1 DEF Flow, Identified, OneCall
    <3>3. QED
      BY <2>2, <2>3, <3>2 DEF Flow
  <2>6. QED
    BY <2>4, <2>5
<1>4. QED
  BY <1>2, <1>3 DEF ClientCloses

\* A call that ends, with its answer or without.
LEMMA FlowOfReturn ==
    ASSUME TypeOK, Flow, Return \/ Timeout \/ Waited
    PROVE  Flow'
<1> USE DEF helperVars
<1>1. None # Lost /\ None # 0
  BY SessionAssumption
<1>2. ASSUME UNCHANGED <<helper, toHelper, toClient>>, cl'.dead = cl.dead, inputOpen' => inputOpen,
             cl'.reply = None, cl'.pending = None, Open' => Open /\ cl.pending = None
      PROVE  Flow'
  <2>1. Dropped' /\ Identified' /\ OneCall'
    BY <1>1, <1>2 DEF Flow, Dropped, Identified, OneCall, Running
  <2>2. OneAnswer'
    <3>1. ASSUME Running', Open'
          PROVE  /\ \A i \in 1..Len(toHelper) : ~IsCall(toHelper[i])
                 /\ \A i \in 1..Len(toClient) : toClient[i].id = 0
      BY <1>2, <3>1, Idle DEF Running
    <3>2. QED
      BY <1>2, <3>1 DEF OneAnswer
  <2>3. QED
    BY <2>1, <2>2 DEF Flow
<1>3. CASE Return
  <2>1. /\ UNCHANGED <<helper, toHelper, toClient>> /\ cl'.dead = cl.dead
        /\ cl'.reply = None /\ cl'.pending = None /\ cl.pending = None
    BY <1>3, Returning
  <2> inputOpen' => inputOpen
    BY <1>3, Returning
  <2>2. Open' => Open
    BY <1>3, Returning DEF Open
  <2>3. QED
    BY <1>2, <2>1, <2>2
<1>4. CASE Timeout
  <2>1. CASE cl'.dead /\ cl'.pending = None /\ inputOpen' = FALSE
    BY <1>4, <2>1, TimingOut, FlowOfDead
  <2>2. CASE /\ cl.call = "wait" /\ cl'.call = "none"
             /\ cl'.dead = cl.dead /\ cl'.pending = None /\ cl'.reply = None /\ inputOpen' = inputOpen
    <3>1. UNCHANGED <<helper, toHelper, toClient>> /\ cl'.closed = cl.closed /\ cl.pending = None
      BY <1>4, <2>2, TimingOut DEF TypeOK, Waits
    <3>2. Open' => Open
      BY <2>2, <3>1 DEF Open
    <3>3. QED
      BY <1>2, <2>2, <3>1, <3>2
  <2>3. QED
    BY <1>4, <2>1, <2>2, TimingOut
<1>5. CASE Waited
  <2>1. /\ ~Running /\ ~Running' /\ UNCHANGED <<toHelper, inputOpen>> /\ cl'.reply = None /\ cl'.pending = None
    BY <1>5, HavingWaited DEF Running
  <2>2. QED
    BY <1>1, <2>1 DEF Flow, Dropped, Identified, OneCall, OneAnswer
<1>6. QED
  BY <1>3, <1>4, <1>5

LEMMA FlowOfReader ==
    ASSUME TypeOK, Flow, ClientReads
    PROVE  Flow'
<1> DEFINE m == Head(toClient)
<1>1. toClient # <<>> /\ Receive(m) /\ UNCHANGED <<helper, toHelper, inputOpen>>
  BY DEF ClientReads, helperVars
<1>2. /\ m \in Reports /\ toClient' = Tail(toClient)
      /\ cl'.call = cl.call /\ cl'.dead = cl.dead /\ cl'.closed = cl.closed
      /\ \/ m.id = cl.pending /\ cl'.pending = None /\ cl'.reply = m
         \/ m.id # cl.pending /\ cl'.pending = cl.pending /\ cl'.reply = cl.reply
  BY <1>1, Receiving
<1>3. /\ Len(toClient) \in Nat /\ Len(toClient') = Len(toClient) - 1
      /\ 1 \in 1..Len(toClient) /\ m = toClient[1]
      /\ \A i \in 1..Len(toClient') : i + 1 \in 1..Len(toClient) /\ toClient'[i] = toClient[i + 1]
  BY <1>1, <1>2, Taking DEF TypeOK
<1> HIDE DEF m
<1>4. /\ None # 0 /\ m # Lost /\ (Open' <=> Open) /\ (Running' <=> Running)
  BY <1>1, <1>2, SessionAssumption DEF Open, Running
<1>5. Dropped'
  BY <1>1, <1>2, <1>4 DEF Flow, Dropped
<1>6. Identified'
  BY <1>1, <1>2, <1>3, <1>4 DEF Flow, Identified
<1>7. OneCall'
  BY <1>1, <1>4 DEF Flow, OneCall
<1>8. ASSUME Running, Open, m.id = cl.pending
      PROVE  /\ \A i \in 1..Len(toHelper) : ~IsCall(toHelper[i])
             /\ \A i \in 1..Len(toClient') : toClient'[i].id = 0
  <2>1. toClient[1].id # 0
    BY <1>3, <1>8 DEF Flow, Identified
  <2>2. \A i \in 1..Len(toHelper) : ~IsCall(toHelper[i])
    BY <1>3, <1>8, <2>1 DEF Flow, OneAnswer
  <2>3. \A i \in 1..Len(toClient') : i + 1 # 1 /\ toClient[i + 1].id = 0
    BY <1>3, <1>8, <2>1 DEF Flow, OneAnswer
  <2>4. QED
    BY <1>3, <2>2, <2>3
<1>9. OneAnswer'
  <2>1. CASE m.id = cl.pending
    BY <1>1, <1>4, <1>8, <2>1 DEF OneAnswer
  <2>2. CASE m.id # cl.pending
    BY <1>1, <1>2, <1>3, <1>4, <2>2 DEF Flow, OneAnswer
  <2>3. QED
    BY <2>1, <2>2
<1>10. QED
  BY <1>5, <1>6, <1>7, <1>9 DEF Flow

LEMMA FlowOfRenewal ==
    ASSUME TypeOK, Flow, RenewWrite
    PROVE  Flow'
<1> DEFINE q == Msg(serial + 1, "renew", renewal)
<1>1. UNCHANGED <<helper, toClient>>
  BY Renewing DEF helperVars
<1>2. CASE q \in Orders /\ toHelper' = Append(toHelper, q) /\ UNCHANGED <<inputOpen, cl>>
  <2>1. q.id # 0 /\ ~IsCall(q)
    BY DEF Msg, IsCall, TypeOK, Ids
  <2> HIDE DEF q
  <2>2. /\ Len(toHelper) \in Nat /\ Len(toHelper') = Len(toHelper) + 1
        /\ \A i \in 1..Len(toHelper) : i \in 1..Len(toHelper') /\ toHelper'[i] = toHelper[i]
        /\ toHelper'[Len(toHelper) + 1] = q
        /\ \A i \in 1..Len(toHelper') : i \in 1..Len(toHelper) \/ i = Len(toHelper) + 1
    BY <1>2, Appending DEF TypeOK
  <2>3. (Open' <=> Open) /\ (Running' <=> Running)
    BY <1>1, <1>2 DEF Open, Running
  <2>4. Dropped'
    BY <1>2, <2>3 DEF Flow, Dropped
  <2>5. Identified'
    BY <1>1, <1>2, <2>1, <2>2, <2>3 DEF Flow, Identified
  <2>6. OneCall'
    BY <2>1, <2>2, <2>3 DEF Flow, OneCall
  <2>7. OneAnswer'
    BY <1>1, <1>2, <2>1, <2>2, <2>3 DEF Flow, OneAnswer
  <2>8. QED
    BY <2>4, <2>5, <2>6, <2>7 DEF Flow
<1>3. CASE Ending /\ inputOpen' = FALSE /\ toHelper' = toHelper
  BY <1>1, <1>3, FlowOfDead DEF Ending
<1>4. QED
  BY <1>2, <1>3, Renewing

LEMMA FlowNext ==
    ASSUME TypeOK, HelperInv, Flow, [Next]_vars
    PROVE  Flow'
<1>1. CASE ClientSends
  BY <1>1, FlowOfRequest DEF ClientSends
<1>2. CASE ClientLosesHelper
  BY <1>2, FlowOfDead DEF ClientLosesHelper, Ending, helperVars
<1>3. CASE Elsewhere
  <2>1. UNCHANGED <<helper, toHelper, toClient, cl>> /\ inputOpen' \in {inputOpen, FALSE}
    BY <1>3 DEF Elsewhere, helperVars
  <2> inputOpen' => inputOpen
    BY <2>1, NoLonger, Zenon DEF TypeOK
  <2>2. (Running' <=> Running) /\ (Open' <=> Open)
    BY <2>1 DEF Running, Open
  <2>3. Dropped'
    BY <2>1, <2>2 DEF Flow, Dropped, TypeOK
  <2>4. Identified' /\ OneCall' /\ OneAnswer'
    BY <2>1, <2>2 DEF Flow, Identified, OneCall, OneAnswer
  <2>5. QED
    BY <2>3, <2>4 DEF Flow
<1>4. QED
  BY <1>1, <1>2, <1>3, StepKinds, FlowOfHelper, FlowOfLease, FlowOfClose, FlowOfReturn, FlowOfReader,
     FlowOfRenewal

-----------------------------------------------------------------------------
(* How far the helper is.                                                  *)

LEMMA ReadinessOfHelper ==
    ASSUME TypeOK, Flow, Readiness, HelperHandles
    PROVE  Readiness'
<1> DEFINE m == Head(toHelper)
<1>1. /\ Running /\ toHelper # <<>> /\ toHelper' = Tail(toHelper) /\ UNCHANGED <<inputOpen, cl>>
      /\ stage = "probed" => stage' = "probed"
      /\ \/ toClient' = toClient
         \/ \E r \in Reports : /\ toClient' = Append(toClient, r) /\ r.id = m.id
                               /\ Running' => IsCall(m) /\ Suits(r.type, m.type)
                               /\ r.type = "capabilities" => stage' = "probed"
  BY DEF HelperHandles, Handled, Replies
<1>2. 1 \in 1..Len(toHelper) /\ m = toHelper[1] /\ m \in Orders
  BY <1>1, Taking DEF TypeOK
<1>3. Carries(toHelper', {"close"}) => Carries(toHelper, {"close"})
  BY <1>1, CarriesTail DEF TypeOK
<1> HIDE DEF m
<1>4. Open' <=> Open
  BY <1>1 DEF Open
<1>5. KnowsFailure' /\ ClosesProbed'
  BY <1>1, <1>3 DEF Readiness, KnowsFailure, ClosesProbed
<1>6. CASE toClient' = toClient
  <2>1. KnowsProbe'
    BY <1>1, <1>6 DEF Readiness, KnowsProbe
  <2>2. Fitting'
    BY <1>1, <1>4, <1>6 DEF Readiness, Fitting
  <2>3. QED
    BY <1>5, <2>1, <2>2 DEF Readiness
<1>7. ASSUME NEW r \in Reports, toClient' = Append(toClient, r), r.id = m.id,
             Running' => IsCall(m) /\ Suits(r.type, m.type), r.type = "capabilities" => stage' = "probed"
      PROVE  Readiness'
  <2>1. Carries(toClient', {"capabilities"}) <=> Carries(toClient, {"capabilities"}) \/ r.type = "capabilities"
    BY <1>7, CarriesAppended DEF TypeOK
  <2>2. KnowsProbe'
    BY <1>1, <1>7, <2>1 DEF Readiness, KnowsProbe
  <2>3. /\ Len(toClient) \in Nat
        /\ \A i \in 1..Len(toClient) : toClient'[i] = toClient[i]
        /\ toClient'[Len(toClient) + 1] = r
        /\ \A i \in 1..Len(toClient') : i \in 1..Len(toClient) \/ i = Len(toClient) + 1
    BY <1>7, Appending DEF TypeOK
  <2>4. Running' /\ Open' => Suits(r.type, cl.call)
    BY <1>1, <1>2, <1>4, <1>7 DEF Flow, OneAnswer
  <2>5. Fitting'
    BY <1>1, <1>4, <2>3, <2>4 DEF Readiness, Fitting
  <2>6. QED
    BY <1>5, <2>2, <2>5 DEF Readiness
<1>8. QED
  BY <1>1, <1>6, <1>7

LEMMA ReadinessOfLease ==
    ASSUME TypeOK, Readiness, Alone
    PROVE  Readiness'
<1>1. /\ Running /\ UNCHANGED <<stage, toHelper, inputOpen, cl>>
      /\ \/ toClient' = toClient
         \/ \E r \in Reports : /\ toClient' = Append(toClient, r) /\ r.id = 0
                               /\ r.type \in {"complete", "incomplete"}
  BY DEF Alone
<1>2. (Open' <=> Open) /\ KnowsFailure' /\ ClosesProbed'
  BY <1>1 DEF Open, Readiness, KnowsFailure, ClosesProbed
<1>3. CASE toClient' = toClient
  BY <1>1, <1>2, <1>3 DEF Readiness, KnowsProbe, Fitting
<1>4. ASSUME NEW r \in Reports, toClient' = Append(toClient, r), r.id = 0, r.type \in {"complete", "incomplete"}
      PROVE  Readiness'
  <2>1. Carries(toClient', {"capabilities"}) <=> Carries(toClient, {"capabilities"}) \/ r.type = "capabilities"
    BY <1>4, CarriesAppended DEF TypeOK
  <2>2. KnowsProbe'
    BY <1>1, <1>4, <2>1 DEF Readiness, KnowsProbe
  <2>3. /\ Len(toClient) \in Nat
        /\ \A i \in 1..Len(toClient) : toClient'[i] = toClient[i]
        /\ toClient'[Len(toClient) + 1] = r
        /\ \A i \in 1..Len(toClient') : i \in 1..Len(toClient) \/ i = Len(toClient) + 1
    BY <1>4, Appending DEF TypeOK
  <2>4. Fitting'
    BY <1>1, <1>2, <1>4, <2>3 DEF Readiness, Fitting
  <2>5. QED
    BY <1>2, <2>2, <2>4 DEF Readiness
<1>5. QED
  BY <1>1, <1>3, <1>4

\* The request to close goes to a helper that runs only after the probe.
LEMMA ReadyToClose ==
    ASSUME TypeOK, Readiness, Writable, cl.ready \in {"failed", "ready"}
    PROVE  stage = "probed"
BY DEF Readiness, KnowsFailure, KnowsProbe, Writable

LEMMA ReadinessOfCalls ==
    ASSUME TypeOK, Flow, Readiness, ClientSends \/ ClientCloses
    PROVE  Readiness'
<1> USE DEF helperVars
<1>1. None \notin Reports /\ Lost \notin Reports
  BY SessionAssumption
<1>2. CASE ClientSends
  <2>1. PICK type \in Requests, tx \in Transactions :
           Sent(type, tx) /\ (type = "close" => cl.ready \in {"failed", "ready"})
    BY <1>2 DEF ClientSends
  <2> DEFINE q == Msg(serial + 1, type, tx)
  <2>2. /\ UNCHANGED <<helper, stage, toClient>> /\ cl.call = "none" /\ Open /\ cl.pending = None
        /\ cl'.call = type /\ cl'.ready = cl.ready /\ cl'.reply \in {None, Lost}
        /\ type # "wait"
    BY <2>1 DEF Sent, TypeOK, Waits, Open, Requests
  <2>3. inputOpen' => inputOpen
    BY <2>1 DEF Sent
  <2>4. (Running' <=> Running) /\ KnowsProbe' /\ KnowsFailure'
    BY <1>1, <2>2, <2>3 DEF Running, Readiness, KnowsProbe, KnowsFailure
  <2>5. Fitting'
    <3>1. Running => \A i \in 1..Len(toClient) : toClient[i].id = 0
      BY <2>2, Idle
    <3>2. QED
      BY <1>1, <2>2, <2>4, <3>1 DEF Fitting
  <2>6. CASE Writable
    <3>1. toHelper' = Append(toHelper, q) /\ q \in Orders /\ q.type = type
      BY <2>1, <2>6 DEF Sent, Msg
    <3> HIDE DEF q
    <3>2. Carries(toHelper', {"close"}) <=> Carries(toHelper, {"close"}) \/ type = "close"
      BY <3>1, CarriesAppended DEF TypeOK
    <3>3. type = "close" => stage = "probed"
      BY <2>1, <2>6, ReadyToClose
    <3>4. ClosesProbed'
      BY <2>2, <2>4, <3>2, <3>3 DEF Readiness, ClosesProbed
    <3>5. QED
      BY <2>4, <2>5, <3>4 DEF Readiness
  <2>7. CASE ~Writable
    <3>1. toHelper' = toHelper /\ cl'.pending = None /\ cl'.reply = Lost
      BY <2>1, <2>7 DEF Sent
    <3>2. ClosesProbed'
      BY <1>1, <2>2, <2>4, <3>1 DEF Readiness, ClosesProbed
    <3>3. QED
      BY <2>4, <2>5, <3>2 DEF Readiness
  <2>8. QED
    BY <2>6, <2>7
<1>3. CASE ClientCloses
  <2>1. /\ UNCHANGED <<helper, stage, toClient>> /\ cl'.closed /\ cl'.ready = cl.ready
        /\ cl.ready \in {"failed", "ready"}
    BY <1>3 DEF ClientCloses
  <2>2. (Running' <=> Running)
    BY <2>1 DEF Running
  <2>3. CASE ClosedDead
    <3>1. /\ UNCHANGED <<toHelper, inputOpen>> /\ cl'.dead
          /\ cl'.call = "close" /\ cl'.pending = None /\ cl'.reply = Lost
      BY <2>3 DEF ClosedDead
    <3>2. KnowsProbe' /\ KnowsFailure' /\ Fitting'
      BY <1>1, <2>1, <2>2, <3>1 DEF Readiness, KnowsProbe, KnowsFailure, Fitting, Open
    <3>3. ClosesProbed'
      BY <1>1, <2>1, <2>2, <3>1 DEF Readiness, ClosesProbed
    <3>4. QED
      BY <3>2, <3>3 DEF Readiness
  <2>4. CASE ClosedAtOnce
    <3> DEFINE q == Msg(serial + 1, "close", None)
    <3>1. /\ inputOpen' = FALSE /\ cl'.call = "wait" /\ cl'.reply = None /\ q \in Orders
          /\ toHelper' = IF Writable THEN Append(toHelper, q) ELSE toHelper
          /\ cl'.err = ~Writable
      BY <2>4 DEF ClosedAtOnce
    <3> cl'.err <=> ~Writable
      BY <3>1
    <3>2. KnowsProbe' /\ KnowsFailure' /\ Fitting'
      BY <1>1, <2>1, <2>2, <3>1 DEF Readiness, KnowsProbe, KnowsFailure, Fitting, Open
    <3>3. Writable => stage = "probed"
      BY <2>1, ReadyToClose
    <3> HIDE DEF q
    <3>4. Carries(toHelper', {"close"}) => Carries(toHelper, {"close"}) \/ Writable
      BY <3>1
    <3>5. ClosesProbed'
      BY <2>1, <2>2, <3>1, <3>3, <3>4 DEF Readiness, ClosesProbed
    <3>6. QED
      BY <3>2, <3>5 DEF Readiness
  <2>5. QED
    BY <1>3, <2>3, <2>4 DEF ClientCloses
<1>4. QED
  BY <1>2, <1>3

LEMMA ReadinessOfReturn ==
    ASSUME TypeOK, Flow, Readiness, Return \/ Timeout \/ Waited
    PROVE  Readiness'
<1> USE DEF helperVars
<1>1. None \notin Reports /\ Lost \notin Reports /\ None # Lost
  BY SessionAssumption
<1>2. CASE Return
  <2>1. /\ UNCHANGED <<helper, stage, toHelper, toClient>> /\ cl.pending = None
        /\ cl'.reply = None /\ cl'.pending = None
    BY <1>2, Returning
  <2>2. Running' <=> Running
    BY <2>1 DEF Running
  <2>3. cl.reply = Lost \/ cl.reply \in Reports
    BY <1>2, Returning DEF TypeOK, Clients
  <2>4. KnowsProbe'
    <3>1. cl'.ready = "ready" => cl.ready = "ready" \/ Answered("capabilities")
      BY <1>2, Returning
    <3>2. Answered("capabilities") => cl.reply \in Reports /\ cl.reply.type = "capabilities"
      BY <2>3 DEF Answered
    <3>3. QED
      BY <1>1, <2>1, <3>1, <3>2 DEF Readiness, KnowsProbe
  <2>5. KnowsFailure'
    <3>1. cl'.ready = "failed" => \/ cl.ready = "failed"
                                  \/ cl.call = "hello" /\ ~Answered("ready")
                                  \/ cl.call = "probe" /\ ~Answered("capabilities")
      BY <1>2, Returning
    <3>2. inputOpen' => inputOpen
      BY <1>2, Returning
    <3>3. cl.reply = Lost => ~Running \/ ~inputOpen
      BY DEF Flow, Dropped
    <3>4. cl.reply \in Reports /\ Running =>
             /\ cl.call = "hello" => Answered("ready")
             /\ cl.call = "probe" => Answered("capabilities")
      BY <1>1 DEF Readiness, Fitting, Suits, Answered
    <3>5. QED
      BY <2>2, <2>3, <3>1, <3>2, <3>3, <3>4 DEF Readiness, KnowsFailure
  <2>6. Fitting'
    <3>1. Open' => Open
      BY <1>2, Returning DEF Open
    <3>2. Running /\ Open => \A i \in 1..Len(toClient) : toClient[i].id = 0
      BY <2>1, Idle
    <3>3. QED
      BY <1>1, <2>1, <2>2, <3>1, <3>2 DEF Fitting
  <2>7. ClosesProbed'
    <3>1. \/ cl'.call = "none"
          \/ cl'.call = "wait" /\ cl.call = "close" /\ (cl'.err <=> ~Answered("complete"))
      BY <1>2, Returning
    <3>2. cl.call = "close" /\ Answered("complete") => stage = "probed"
      BY <2>3 DEF Readiness, ClosesProbed, Answered
    <3>3. QED
      BY <2>1, <2>2, <3>1, <3>2 DEF Readiness, ClosesProbed
  <2>8. QED
    BY <2>4, <2>5, <2>6, <2>7 DEF Readiness
<1>3. CASE Timeout
  <2>1. /\ UNCHANGED <<helper, stage, toHelper, toClient>> /\ cl'.ready = cl.ready
        /\ cl'.closed = cl.closed /\ cl'.pending = None /\ cl'.reply \in {None, Lost}
    BY <1>3, TimingOut
  <2>2. inputOpen' => inputOpen
    BY <1>3, TimingOut
  <2>3. Running' <=> Running
    BY <2>1 DEF Running
  <2>4. KnowsProbe' /\ KnowsFailure'
    BY <1>1, <2>1, <2>2, <2>3 DEF Readiness, KnowsProbe, KnowsFailure
  <2>5. Fitting'
    <3>1. Open' => Open /\ cl.pending = None
      BY <1>3, TimingOut DEF Open, TypeOK, Waits
    <3>2. Running /\ Open' => \A i \in 1..Len(toClient) : toClient[i].id = 0
      BY <3>1, Idle
    <3>3. QED
      BY <1>1, <2>1, <2>3, <3>2 DEF Fitting
  <2>6. ClosesProbed'
    <3>1. cl'.call # "wait"
      BY <1>3, TimingOut
    <3>2. QED
      BY <1>1, <2>1, <2>3, <3>1 DEF Readiness, ClosesProbed
  <2>7. QED
    BY <2>4, <2>5, <2>6 DEF Readiness
<1>4. CASE Waited
  <2>1. /\ UNCHANGED <<helper, stage, toHelper, inputOpen>> /\ ~Running /\ cl'.ready = cl.ready
        /\ cl'.call = "none" /\ cl'.reply = None
        /\ toClient' \in {toClient, <<>>}
    BY <1>4, HavingWaited
  <2>2. ~Running'
    BY <2>1 DEF Running
  <2>3. Carries(toClient', {"capabilities"}) => Carries(toClient, {"capabilities"})
    BY <2>1 DEF Carries
  <2>4. QED
    BY <1>1, <2>1, <2>2, <2>3 DEF Readiness, KnowsProbe, KnowsFailure, Fitting, ClosesProbed
<1>5. QED
  BY <1>2, <1>3, <1>4

LEMMA ReadinessOfReader ==
    ASSUME TypeOK, Flow, Readiness, ClientReads
    PROVE  Readiness'
<1> DEFINE m == Head(toClient)
<1>1. toClient # <<>> /\ Receive(m) /\ UNCHANGED <<helper, stage, toHelper, inputOpen>>
  BY DEF ClientReads, helperVars
<1>2. /\ m \in Reports /\ toClient' = Tail(toClient)
      /\ cl'.call = cl.call /\ cl'.dead = cl.dead /\ cl'.closed = cl.closed
      /\ cl'.ready = cl.ready /\ cl'.err = cl.err
      /\ \/ m.id = cl.pending /\ cl'.pending = None /\ cl'.reply = m
         \/ m.id # cl.pending /\ cl'.pending = cl.pending /\ cl'.reply = cl.reply
  BY <1>1, Receiving
<1>3. /\ Len(toClient) \in Nat /\ 1 \in 1..Len(toClient) /\ m = toClient[1]
      /\ \A i \in 1..Len(toClient') : i + 1 \in 1..Len(toClient) /\ toClient'[i] = toClient[i + 1]
  BY <1>1, <1>2, Taking DEF TypeOK
<1>4. Carries(toClient, {"capabilities"}) <=> m.type = "capabilities" \/ Carries(toClient', {"capabilities"})
  BY <1>1, <1>2, CarriesTail DEF TypeOK
<1> HIDE DEF m
<1>5. (Running' <=> Running) /\ (Open' <=> Open)
  BY <1>1, <1>2 DEF Running, Open
<1>6. KnowsProbe' /\ KnowsFailure'
  BY <1>1, <1>2, <1>4, <1>5 DEF Readiness, KnowsProbe, KnowsFailure
<1>7. m.id = cl.pending => cl.pending # None /\ Open
  <2>1. None \notin Ids /\ m.id \in Ids
    BY <1>2, SessionAssumption DEF Ids, Reports
  <2>2. QED
    BY <2>1 DEF TypeOK, Waits, Open
<1>8. m.id = cl.pending /\ Running => Suits(m.type, cl.call)
  BY <1>3, <1>7 DEF Flow, Identified, Readiness, Fitting
<1>9. Fitting'
  BY <1>1, <1>2, <1>3, <1>5, <1>8 DEF Readiness, Fitting
<1>10. ClosesProbed'
  BY <1>1, <1>2, <1>5, <1>7 DEF Readiness, ClosesProbed
<1>11. QED
  BY <1>6, <1>9, <1>10 DEF Readiness

\* Giving up keeps it.
LEMMA ReadinessOfEnding ==
    ASSUME TypeOK, Readiness, Ending, UNCHANGED <<helper, stage, toHelper, toClient>>, inputOpen' => inputOpen
    PROVE  Readiness'
<1>1. None \notin Reports /\ Lost \notin Reports /\ (Running' <=> Running)
  BY SessionAssumption DEF Running
<1>2. /\ cl'.dead /\ cl'.call = cl.call /\ cl'.ready = cl.ready /\ cl'.err = cl.err /\ cl'.pending = None
      /\ cl'.reply = cl.reply \/ cl'.reply = Lost
  BY DEF Ending
<1>3. KnowsProbe' /\ KnowsFailure' /\ Fitting'
  BY <1>1, <1>2 DEF Readiness, KnowsProbe, KnowsFailure, Fitting, Open
<1>4. ClosesProbed'
  BY <1>1, <1>2 DEF Readiness, ClosesProbed
<1>5. QED
  BY <1>3, <1>4 DEF Readiness

LEMMA ReadinessNext ==
    ASSUME TypeOK, HelperInv, Flow, Readiness, [Next]_vars
    PROVE  Readiness'
<1> USE DEF helperVars
<1>1. CASE ClientLosesHelper
  BY <1>1, ReadinessOfEnding DEF ClientLosesHelper
<1>2. CASE RenewWrite
  <2> DEFINE q == Msg(serial + 1, "renew", renewal)
  <2>1. UNCHANGED <<helper, stage, toClient>>
    BY <1>2, Renewing
  <2>2. CASE q \in Orders /\ toHelper' = Append(toHelper, q) /\ UNCHANGED <<inputOpen, cl>>
    <3>1. q.type # "close"
      BY DEF Msg
    <3> HIDE DEF q
    <3>2. Carries(toHelper', {"close"}) <=> Carries(toHelper, {"close"})
      BY <2>2, <3>1, CarriesAppended DEF TypeOK
    <3>3. (Running' <=> Running) /\ (Open' <=> Open)
      BY <2>1, <2>2 DEF Running, Open
    <3>4. KnowsProbe' /\ KnowsFailure' /\ Fitting'
      BY <2>1, <2>2, <3>3 DEF Readiness, KnowsProbe, KnowsFailure, Fitting
    <3>5. ClosesProbed'
      BY <2>1, <2>2, <3>2, <3>3 DEF Readiness, ClosesProbed
    <3>6. QED
      BY <3>4, <3>5 DEF Readiness
  <2>3. CASE Ending /\ inputOpen' = FALSE /\ toHelper' = toHelper
    BY <2>1, <2>3, ReadinessOfEnding
  <2>4. QED
    BY <1>2, <2>2, <2>3, Renewing
<1>3. CASE Elsewhere
  <2>1. UNCHANGED <<helper, stage, toHelper, toClient, cl>> /\ inputOpen' \in {inputOpen, FALSE}
    BY <1>3 DEF Elsewhere
  <2>2. inputOpen' => inputOpen
    BY <2>1, NoLonger, Zenon DEF TypeOK
  <2>3. (Running' <=> Running) /\ (Open' <=> Open)
    BY <2>1 DEF Running, Open
  <2>4. QED
    BY <2>1, <2>2, <2>3 DEF Readiness, KnowsProbe, KnowsFailure, Fitting, ClosesProbed
<1>4. QED
  BY <1>1, <1>2, <1>3, StepKinds, ReadinessOfHelper, ReadinessOfLease, ReadinessOfCalls, ReadinessOfReturn,
     ReadinessOfReader

-----------------------------------------------------------------------------
(* The proofs of a rollback.                                               *)

\* A step of the client makes none of its own.
LEMMA ProvenOfClient ==
    ASSUME Proven, UNCHANGED <<helper, active, tuned>>,
           Carries(toHelper', {"begin"}) => Carries(toHelper, {"begin"}),
           Carries(toClient', Proofs) => Carries(toClient, Proofs),
           cl'.last = "complete" => cl.last = "complete" \/ Carries(toClient, Proofs),
           cl'.ended = "closed" => cl'.dead /\ (cl.ended = "closed" \/ cl.last = "complete"),
           cl'.result = "ok" => cl.result = "ok" \/ (~tuned /\ ~Running)
    PROVE  Proven'
<1>1. Running' <=> Running
  BY DEF Running
<1>2. AtStock'
  BY <1>1 DEF Proven, AtStock
<1>3. EndedAtStock'
  BY <1>1 DEF Proven, AtStock, EndedAtStock
<1>4. ClosedAtStock'
  BY <1>1 DEF Proven, ClosedAtStock
<1>5. QED
  BY <1>2, <1>3, <1>4 DEF Proven

LEMMA ProvenOfHelper ==
    ASSUME TypeOK, Flow, Readiness, Proven, HelperHandles
    PROVE  Proven'
<1> DEFINE m == Head(toHelper)
<1>1. /\ Running /\ toHelper # <<>> /\ toHelper' = Tail(toHelper) /\ UNCHANGED cl
      /\ tuned' => tuned \/ m.type = "begin"
      /\ active' # None => active # None \/ m.type = "begin"
      /\ \/ toClient' = toClient
         \/ \E r \in Reports :
              /\ toClient' = Append(toClient, r)
              /\ Running' => IsCall(m)
              /\ r.type \in Proofs /\ (m.type = "close" => stage = "probed") =>
                   ~tuned' /\ (Running' => active' = None)
  BY DEF HelperHandles, Handled, Replies
<1>2. /\ Len(toHelper) \in Nat /\ 1 \in 1..Len(toHelper) /\ m = toHelper[1]
      /\ \A i \in 1..Len(toHelper') : i + 1 \in 1..Len(toHelper) /\ toHelper'[i] = toHelper[i + 1]
  BY <1>1, Taking DEF TypeOK
<1>3. /\ Carries(toHelper, {"begin"}) <=> m.type \in {"begin"} \/ Carries(toHelper', {"begin"})
      /\ Carries(toHelper, {"close"}) <=> m.type \in {"close"} \/ Carries(toHelper', {"close"})
  BY <1>1, CarriesTail DEF TypeOK
<1> HIDE DEF m
<1>4. ASSUME cl.last = "complete" \/ Carries(toClient, Proofs)
      PROVE  ~tuned' /\ active' = None /\ ~Carries(toHelper', {"begin"})
  BY <1>1, <1>3, <1>4 DEF Proven, AtStock
<1>5. EndedAtStock'
  BY <1>1, <1>3 DEF Proven, EndedAtStock
<1>6. ClosedAtStock'
  BY <1>1 DEF Proven, ClosedAtStock
<1>7. CASE toClient' = toClient
  <2>1. AtStock'
    BY <1>1, <1>4, <1>7 DEF AtStock
  <2>2. QED
    BY <1>5, <1>6, <2>1 DEF Proven
<1>8. ASSUME NEW r \in Reports, toClient' = Append(toClient, r), Running' => IsCall(m),
             r.type \in Proofs /\ (m.type = "close" => stage = "probed") =>
               ~tuned' /\ (Running' => active' = None)
      PROVE  Proven'
  <2>1. Carries(toClient', Proofs) <=> Carries(toClient, Proofs) \/ r.type \in Proofs
    BY <1>8, CarriesAppended DEF TypeOK
  <2>2. m.type = "close" => stage = "probed"
    BY <1>1, <1>3 DEF Readiness, ClosesProbed
  <2>3. Running' => ~Carries(toHelper', {"begin"})
    <3>1. ASSUME Running', NEW i \in 1..Len(toHelper'), toHelper'[i].type \in {"begin"}
          PROVE  FALSE
      <4>1. IsCall(toHelper[i + 1]) /\ i + 1 # 1 /\ i + 1 \in 1..Len(toHelper) /\ IsCall(toHelper[1])
        BY <1>2, <1>8, <3>1 DEF IsCall
      <4>2. QED
        BY <1>1, <1>2, <4>1 DEF Flow, OneCall
    <3>2. QED
      BY <3>1 DEF Carries
  <2>4. AtStock'
    BY <1>1, <1>4, <1>8, <2>1, <2>2, <2>3 DEF AtStock
  <2>5. QED
    BY <1>5, <1>6, <2>4 DEF Proven
<1>9. QED
  BY <1>1, <1>7, <1>8

LEMMA ProvenOfLease ==
    ASSUME TypeOK, Proven, Alone
    PROVE  Proven'
<1>1. /\ Running /\ UNCHANGED <<toHelper, cl>>
      /\ tuned' => tuned
      /\ active' # None => active # None
      /\ \/ toClient' = toClient
         \/ \E r \in Reports : /\ toClient' = Append(toClient, r)
                               /\ r.type \in {"complete", "incomplete"}
                               /\ Running' => r.type = "incomplete"
                               /\ r.type = "complete" => ~tuned'
  BY DEF Alone
<1>2. EndedAtStock'
  BY <1>1 DEF Proven, EndedAtStock
<1>3. ClosedAtStock'
  BY <1>1 DEF Proven, ClosedAtStock
<1>4. CASE toClient' = toClient
  <2>1. AtStock'
    BY <1>1, <1>4 DEF Proven, AtStock
  <2>2. QED
    BY <1>2, <1>3, <2>1 DEF Proven
<1>5. ASSUME NEW r \in Reports, toClient' = Append(toClient, r), r.type \in {"complete", "incomplete"},
             Running' => r.type = "incomplete", r.type = "complete" => ~tuned'
      PROVE  Proven'
  <2>1. Carries(toClient', Proofs) <=> Carries(toClient, Proofs) \/ r.type \in Proofs
    BY <1>5, CarriesAppended DEF TypeOK
  <2>2. r.type \in Proofs => ~tuned' /\ ~Running'
    BY <1>5 DEF Proofs
  <2>3. AtStock'
    BY <1>1, <2>1, <2>2 DEF Proven, AtStock
  <2>4. QED
    BY <1>2, <1>3, <2>3 DEF Proven
<1>6. QED
  BY <1>1, <1>4, <1>5

\* A new transaction forgets the proof of the one before it.
LEMMA ProvenOfRequest ==
    ASSUME TypeOK, Flow, Proven, NEW type \in Requests, NEW tx \in Transactions, Sent(type, tx)
    PROVE  Proven'
<1> DEFINE q == Msg(serial + 1, type, tx)
<1>1. /\ UNCHANGED <<helper, active, tuned, toClient>> /\ cl'.result = cl.result
      /\ cl'.last = IF type = "begin" THEN "" ELSE cl.last
      /\ ~cl.dead /\ Open /\ cl.pending = None
  BY DEF Sent, Open, TypeOK, Waits, helperVars
<1>2. CASE Writable
  <2>1. Running /\ toHelper' = Append(toHelper, q) /\ q \in Orders /\ q.type = type /\ cl'.ended = cl.ended
    BY <1>2 DEF Sent, Msg, Writable
  <2> HIDE DEF q
  <2>2. Carries(toHelper', {"begin"}) <=> Carries(toHelper, {"begin"}) \/ type = "begin"
    BY <2>1, CarriesAppended DEF TypeOK
  <2>3. cl'.ended # "closed"
    BY <1>1, <2>1 DEF Proven, EndedAtStock
  <2>4. CASE type = "begin"
    <3>1. \A i \in 1..Len(toClient) : toClient[i].id = 0
      BY <1>1, <2>1, Idle
    <3>2. \A i \in 1..Len(toClient) : toClient[i].type = "incomplete"
      BY <2>1, <3>1 DEF Flow, Identified
    <3>3. ~Carries(toClient', Proofs)
      BY <1>1, <3>2 DEF Carries, Proofs
    <3>4. AtStock'
      BY <1>1, <2>4, <3>3 DEF AtStock
    <3>5. EndedAtStock' /\ ClosedAtStock'
      BY <1>1, <2>1, <2>3 DEF Proven, EndedAtStock, ClosedAtStock
    <3>6. QED
      BY <3>4, <3>5 DEF Proven
  <2>5. CASE type # "begin"
    BY <1>1, <2>2, <2>3, <2>5, ProvenOfClient
  <2>6. QED
    BY <2>4, <2>5
<1>3. CASE ~Writable
  <2>1. toHelper' = toHelper /\ cl'.dead /\ (cl'.ended = "closed" => cl'.last = "complete")
    BY <1>3 DEF Sent
  <2>2. cl'.last = "complete" => cl.last = "complete"
    BY <1>1
  <2>3. QED
    BY <1>1, <2>1, <2>2, ProvenOfClient
<1>4. QED
  BY <1>2, <1>3

LEMMA ProvenNext ==
    ASSUME TypeOK, HelperInv, Flow, Readiness, Proven, [Next]_vars
    PROVE  Proven'
<1> USE DEF helperVars
<1>1. CASE ClientSends
  BY <1>1, ProvenOfRequest DEF ClientSends
<1>2. CASE ClientCloses
  <2> DEFINE q == Msg(serial + 1, "close", None)
  <2>1. /\ UNCHANGED <<helper, active, tuned, toClient>> /\ cl'.last = cl.last /\ cl'.result = cl.result
        /\ ClosedDead \/ ClosedAtOnce
    BY <1>2 DEF ClientCloses
  <2>2. cl'.ended = cl.ended /\ (cl.dead => cl'.dead)
    BY <2>1 DEF ClosedDead, ClosedAtOnce
  <2>3. toHelper' = toHelper \/ (toHelper' = Append(toHelper, q) /\ q \in Orders)
    BY <2>1 DEF ClosedDead, ClosedAtOnce
  <2>4. Carries(toHelper', {"begin"}) => Carries(toHelper, {"begin"})
    <3>1. q.type # "begin"
      BY DEF Msg
    <3> HIDE DEF q
    <3>2. QED
      BY <2>3, <3>1, CarriesAppended DEF TypeOK
  <2>5. cl.ended = "closed" => cl.dead
    BY DEF Proven, EndedAtStock
  <2>6. QED
    BY <2>1, <2>2, <2>4, <2>5, ProvenOfClient
<1>3. CASE Return
  <2>1. /\ UNCHANGED <<helper, active, tuned, toHelper, toClient>>
        /\ cl'.dead = cl.dead /\ cl'.ended = cl.ended /\ cl'.result = cl.result /\ cl'.last = cl.last
    BY <1>3, Returning
  <2>2. cl.ended = "closed" => cl.dead
    BY DEF Proven, EndedAtStock
  <2>3. QED
    BY <2>1, <2>2, ProvenOfClient
<1>4. CASE Timeout
  <2>1. UNCHANGED <<helper, active, tuned, toHelper, toClient>> /\ cl'.last = cl.last
    BY <1>4, TimingOut
  <2>2. cl.ended = "closed" => cl.dead
    BY DEF Proven, EndedAtStock
  <2>3. cl'.ended = "closed" => cl'.dead /\ (cl.ended = "closed" \/ cl.last = "complete")
    BY <1>4, <2>2, TimingOut
  <2>4. cl'.result = "ok" => cl.result = "ok"
    BY <1>4, TimingOut
  <2>5. QED
    BY <2>1, <2>3, <2>4, ProvenOfClient
<1>5. CASE Waited
  <2>1. /\ UNCHANGED <<helper, active, tuned, toHelper>> /\ cl'.last = cl.last /\ ~Running
        /\ cl'.dead = cl.dead /\ cl'.ended = cl.ended /\ toClient' \in {toClient, <<>>}
        /\ cl.call = "wait"
        /\ cl'.result = "ok" => helper = "ok" /\ ~cl.err
    BY <1>5, HavingWaited
  <2>2. cl.ended = "closed" => cl.dead
    BY DEF Proven, EndedAtStock
  <2>3. cl'.result = "ok" => ~tuned
    <3>1. ~cl.err => stage = "probed"
      BY <2>1 DEF Readiness, ClosesProbed
    <3>2. QED
      BY <2>1, <3>1 DEF HelperInv, OrderlyExit
  <2>4. Carries(toClient', Proofs) => Carries(toClient, Proofs)
    BY <2>1 DEF Carries
  <2>5. QED
    BY <2>1, <2>2, <2>3, <2>4, ProvenOfClient
<1>6. CASE ClientReads
  <2> DEFINE m == Head(toClient)
  <2>1. toClient # <<>> /\ Receive(m) /\ UNCHANGED <<helper, active, tuned, toHelper>>
    BY <1>6 DEF ClientReads
  <2>2. /\ toClient' = Tail(toClient)
        /\ cl'.dead = cl.dead /\ cl'.result = cl.result /\ cl'.ended = cl.ended
        /\ cl'.last = IF m.type \in Proofs THEN "complete"
                      ELSE IF m.type = "incomplete" THEN "incomplete" ELSE cl.last
    BY <2>1, Receiving
  <2>3. Carries(toClient, Proofs) <=> m.type \in Proofs \/ Carries(toClient', Proofs)
    BY <2>1, <2>2, CarriesTail DEF TypeOK
  <2> HIDE DEF m
  <2>4. cl.ended = "closed" => cl.dead
    BY DEF Proven, EndedAtStock
  <2>5. cl'.last = "complete" => cl.last = "complete" \/ Carries(toClient, Proofs)
    BY <2>2, <2>3
  <2>6. QED
    BY <2>1, <2>2, <2>3, <2>4, <2>5, ProvenOfClient
<1>7. ASSUME Ending, UNCHANGED <<helper, active, tuned, toHelper, toClient>>
      PROVE  Proven'
  BY <1>7, ProvenOfClient DEF Ending
<1>8. CASE RenewWrite
  <2> DEFINE q == Msg(serial + 1, "renew", renewal)
  <2>1. UNCHANGED <<helper, active, tuned, toClient>>
    BY <1>8, Renewing
  <2>2. CASE q \in Orders /\ toHelper' = Append(toHelper, q) /\ UNCHANGED cl
    <3>1. q.type # "begin"
      BY DEF Msg
    <3> HIDE DEF q
    <3>2. Carries(toHelper', {"begin"}) => Carries(toHelper, {"begin"})
      BY <2>2, <3>1, CarriesAppended DEF TypeOK
    <3>3. cl.ended = "closed" => cl.dead
      BY DEF Proven, EndedAtStock
    <3>4. QED
      BY <2>1, <2>2, <3>2, <3>3, ProvenOfClient
  <2>3. QED
    BY <1>7, <1>8, <2>1, <2>2, Renewing
<1>9. CASE Elsewhere
  <2>1. UNCHANGED <<helper, active, tuned, toHelper, toClient, cl>>
    BY <1>9 DEF Elsewhere
  <2>2. cl.ended = "closed" => cl.dead
    BY DEF Proven, EndedAtStock
  <2>3. QED
    BY <2>1, <2>2, ProvenOfClient
<1>10. QED
  BY <1>1, <1>2, <1>3, <1>4, <1>5, <1>6, <1>7, <1>8, <1>9, StepKinds, ProvenOfHelper, ProvenOfLease
     DEF ClientLosesHelper

-----------------------------------------------------------------------------
(* The reports of a rollback that failed.                                  *)

\* IncompleteIsReported, with the messages as the pipes carry them.
Reported ==
    Running /\ active # None /\ attempted /\ gui /\ ~cl.dead =>
        \/ cl.last = "incomplete"
        \/ Carries(toClient, {"incomplete"})
        \/ Carries(toHelper, {"begin"})

LEMMA ReportedIs ==
    ASSUME TypeOK
    PROVE  IncompleteIsReported <=> Reported
<1>1. DOMAIN toClient = 1..Len(toClient) /\ DOMAIN toHelper = 1..Len(toHelper)
  BY DEF TypeOK
<1>2. InFlight("incomplete") <=> Carries(toClient, {"incomplete"})
  BY <1>1 DEF InFlight, Carries
<1>3. (\E i \in DOMAIN toHelper : toHelper[i].type = "begin") <=> Carries(toHelper, {"begin"})
  BY <1>1 DEF Carries
<1>4. QED
  BY <1>2, <1>3 DEF IncompleteIsReported, Reported

\* A step of the client that keeps what it was told, or gives up.
LEMMA ReportedOfClient ==
    ASSUME Reported, UNCHANGED <<helper, active, attempted>>, gui' => gui, cl.dead => cl'.dead,
           cl.last = "incomplete" => cl'.last = "incomplete" \/ cl'.dead,
           Carries(toClient, {"incomplete"}) => cl'.last = "incomplete" \/ Carries(toClient', {"incomplete"}),
           Carries(toHelper, {"begin"}) => Carries(toHelper', {"begin"})
    PROVE  Reported'
BY DEF Reported, Running

LEMMA ReportedOfHelper ==
    ASSUME TypeOK, Reported, HelperHandles \/ Alone
    PROVE  Reported'
<1>1. CASE HelperHandles
  <2> DEFINE m == Head(toHelper)
  <2>1. /\ Running /\ toHelper # <<>> /\ toHelper' = Tail(toHelper) /\ UNCHANGED <<gui, cl>>
        /\ m.type = "renew" => UNCHANGED <<active, attempted>> \/ ~Running'
        /\ \/ toClient' = toClient /\ (Running' => m.type = "renew")
           \/ \E r \in Reports :
                /\ toClient' = Append(toClient, r)
                /\ Running' /\ active' # None /\ attempted' =>
                     r.type = "incomplete" \/ (active # None /\ attempted /\ m.type # "begin")
    BY <1>1 DEF HelperHandles, Handled, Replies
  <2>2. Carries(toHelper, {"begin"}) <=> m.type \in {"begin"} \/ Carries(toHelper', {"begin"})
    BY <2>1, CarriesTail DEF TypeOK
  <2> HIDE DEF m
  <2>3. CASE toClient' = toClient /\ (Running' => m.type = "renew")
    BY <2>1, <2>2, <2>3 DEF Reported
  <2>4. ASSUME NEW r \in Reports, toClient' = Append(toClient, r),
               Running' /\ active' # None /\ attempted' =>
                 r.type = "incomplete" \/ (active # None /\ attempted /\ m.type # "begin")
        PROVE  Reported'
    <3>1. Carries(toClient', {"incomplete"}) <=> Carries(toClient, {"incomplete"}) \/ r.type \in {"incomplete"}
      BY <2>4, CarriesAppended DEF TypeOK
    <3>2. QED
      BY <2>1, <2>2, <2>4, <3>1 DEF Reported
  <2>5. QED
    BY <2>1, <2>3, <2>4
<1>2. CASE Alone
  <2>1. \/ ~Running'
        \/ \E r \in Reports : toClient' = Append(toClient, r) /\ (Running' => r.type = "incomplete")
    BY <1>2 DEF Alone
  <2>2. ASSUME NEW r \in Reports, toClient' = Append(toClient, r), Running' => r.type = "incomplete"
        PROVE  Reported'
    <3>1. Carries(toClient', {"incomplete"}) <=> Carries(toClient, {"incomplete"}) \/ r.type \in {"incomplete"}
      BY <2>2, CarriesAppended DEF TypeOK
    <3>2. QED
      BY <2>2, <3>1 DEF Reported
  <2>3. QED
    BY <2>1, <2>2 DEF Reported
<1>3. QED
  BY <1>1, <1>2

LEMMA ReportedNext ==
    ASSUME TypeOK, HelperInv, Flow, Proven, Reported, [Next]_vars
    PROVE  Reported'
<1> USE DEF helperVars
<1>1. CASE ClientSends
  <2>1. PICK type \in Requests, tx \in Transactions : Sent(type, tx)
    BY <1>1 DEF ClientSends
  <2> DEFINE q == Msg(serial + 1, type, tx)
  <2>2. /\ UNCHANGED <<helper, active, attempted, toClient, gui>> /\ ~cl.dead
        /\ cl'.last = IF type = "begin" THEN "" ELSE cl.last
    BY <2>1 DEF Sent
  <2>3. CASE Writable
    <3>1. toHelper' = Append(toHelper, q) /\ q \in Orders /\ q.type = type
      BY <2>1, <2>3 DEF Sent, Msg
    <3> HIDE DEF q
    <3>2. Carries(toHelper', {"begin"}) <=> Carries(toHelper, {"begin"}) \/ type \in {"begin"}
      BY <3>1, CarriesAppended DEF TypeOK
    <3>3. CASE type = "begin"
      BY <3>2, <3>3 DEF Reported
    <3>4. CASE type # "begin"
      BY <2>2, <3>2, <3>4, ReportedOfClient
    <3>5. QED
      BY <3>3, <3>4
  <2>4. CASE ~Writable
    BY <2>1, <2>4 DEF Sent, Reported
  <2>5. QED
    BY <2>3, <2>4
<1>2. CASE ClientCloses
  <2> DEFINE q == Msg(serial + 1, "close", None)
  <2>1. /\ UNCHANGED <<helper, active, attempted, toClient, gui>> /\ cl'.last = cl.last
        /\ ClosedDead \/ ClosedAtOnce
    BY <1>2 DEF ClientCloses
  <2>2. cl.dead => cl'.dead
    BY <2>1 DEF ClosedDead, ClosedAtOnce
  <2>3. toHelper' = toHelper \/ (toHelper' = Append(toHelper, q) /\ q \in Orders)
    BY <2>1 DEF ClosedDead, ClosedAtOnce
  <2> HIDE DEF q
  <2>4. Carries(toHelper, {"begin"}) => Carries(toHelper', {"begin"})
    BY <2>3, CarriesAppended DEF TypeOK
  <2>5. QED
    BY <2>1, <2>2, <2>4, ReportedOfClient
<1>3. CASE Return
  <2>1. /\ UNCHANGED <<helper, active, attempted, toHelper, toClient, gui>>
        /\ cl'.dead = cl.dead /\ cl'.last = cl.last
    BY <1>3, Returning
  <2>2. QED
    BY <2>1, ReportedOfClient
<1>4. CASE Timeout
  <2>1. UNCHANGED <<helper, active, attempted, toHelper, toClient, gui>> /\ cl'.last = cl.last
    BY <1>4, TimingOut
  <2>2. cl.dead => cl'.dead
    BY <1>4, TimingOut
  <2>3. QED
    BY <2>1, <2>2, ReportedOfClient
<1>5. CASE Waited \/ ClientLosesHelper
  <2>1. ~Running /\ helper' = helper
    BY <1>5, HavingWaited DEF ClientLosesHelper
  <2>2. QED
    BY <2>1 DEF Reported, Running
<1>6. CASE ClientReads
  <2> DEFINE m == Head(toClient)
  <2>1. toClient # <<>> /\ Receive(m) /\ UNCHANGED <<helper, active, attempted, toHelper, gui>>
    BY <1>6 DEF ClientReads
  <2>2. /\ toClient' = Tail(toClient) /\ cl'.dead = cl.dead
        /\ cl'.last = IF m.type \in Proofs THEN "complete"
                      ELSE IF m.type = "incomplete" THEN "incomplete" ELSE cl.last
    BY <2>1, Receiving
  <2>3. /\ Carries(toClient, Proofs) <=> m.type \in Proofs \/ Carries(toClient', Proofs)
        /\ Carries(toClient, {"incomplete"}) <=> m.type \in {"incomplete"} \/ Carries(toClient', {"incomplete"})
    BY <2>1, <2>2, CarriesTail DEF TypeOK
  <2> HIDE DEF m
  <2>4. CASE Running /\ active # None
    <3>1. m.type \notin Proofs
      BY <2>3, <2>4 DEF Proven, AtStock
    <3>2. QED
      BY <2>1, <2>2, <2>3, <3>1, ReportedOfClient
  <2>5. CASE ~(Running /\ active # None)
    BY <2>1, <2>5 DEF Reported, Running
  <2>6. QED
    BY <2>4, <2>5
<1>7. CASE RenewWrite
  <2> DEFINE q == Msg(serial + 1, "renew", renewal)
  <2>1. UNCHANGED <<helper, active, attempted, toClient, gui>>
    BY <1>7, Renewing
  <2>2. CASE q \in Orders /\ toHelper' = Append(toHelper, q) /\ UNCHANGED cl
    <3> HIDE DEF q
    <3>1. Carries(toHelper, {"begin"}) => Carries(toHelper', {"begin"})
      BY <2>2, CarriesAppended DEF TypeOK
    <3>2. QED
      BY <2>1, <2>2, <3>1, ReportedOfClient
  <2>3. CASE Ending
    BY <2>3 DEF Ending, Reported
  <2>4. QED
    BY <1>7, <2>2, <2>3, Renewing
<1>8. CASE Elsewhere
  <2>1. UNCHANGED <<helper, active, attempted, toHelper, toClient, cl>> /\ gui' \in {gui, FALSE}
    BY <1>8 DEF Elsewhere
  <2>2. gui' => gui
    BY <2>1, NoLonger, Zenon DEF TypeOK
  <2>3. QED
    BY <2>1, <2>2, ReportedOfClient
<1>9. QED
  BY <1>1, <1>2, <1>3, <1>4, <1>5, <1>6, <1>7, <1>8, StepKinds, ReportedOfHelper

-----------------------------------------------------------------------------
(* The invariant holds.                                                    *)

LEMMA InvInit ==
    ASSUME Init
    PROVE  TypeOK /\ SessionInv
<1>1. NewClient \in Clients /\ Waits(NewClient)
  BY DEF NewClient, Clients, Waits, Transactions
<1>2. /\ NewClient.call = "none" /\ NewClient.pending = None /\ NewClient.reply = None
      /\ NewClient.ready = "new" /\ NewClient.last = "" /\ ~NewClient.dead /\ ~NewClient.closed
      /\ NewClient.result = "none" /\ NewClient.ended = "no"
  BY DEF NewClient
<1>3. None # 0 /\ None # Lost /\ None \notin Reports /\ Lost \notin Reports
  BY SessionAssumption
<1>4. /\ Running /\ stage = "new" /\ active = None /\ leased = FALSE /\ attempted = TRUE
      /\ toHelper = <<>> /\ toClient = <<>> /\ cl = NewClient
  BY DEF Init, Running
<1>5. /\ \A i \in 1..Len(toHelper) : FALSE
      /\ \A i \in 1..Len(toClient) : FALSE
  <2>1. Len(toHelper) = 0 /\ Len(toClient) = 0
    BY <1>4
  <2>2. \A i \in 1..0 : FALSE
    OBVIOUS
  <2>3. QED
    BY <2>1, <2>2
<1>6. TypeOK
  <2>1. None \in Transactions /\ 0 \in Ids
    BY SessionAssumption DEF Transactions, Ids
  <2>2. toHelper \in Seq(Orders) /\ toClient \in Seq(Reports)
    BY <1>4
  <2>3. tuned \in BOOLEAN /\ inputOpen \in BOOLEAN /\ gui \in BOOLEAN
    BY DEF Init
  <2>4. QED
    BY <1>1, <2>1, <2>2, <2>3 DEF Init, TypeOK
<1>7. HelperInv
  BY <1>4 DEF HelperInv, OrderlyExit, Running
<1>8. Flow
  BY <1>2, <1>3, <1>4, <1>5 DEF Flow, Dropped, Identified, OneCall, OneAnswer
<1>9. Readiness
  BY <1>2, <1>3, <1>4, <1>5 DEF Readiness, KnowsProbe, KnowsFailure, Fitting, ClosesProbed, Carries
<1>10. Proven
  BY <1>2, <1>4, <1>5 DEF Proven, AtStock, EndedAtStock, ClosedAtStock, Carries
<1>11. IncompleteIsReported
  BY <1>4 DEF IncompleteIsReported
<1>12. QED
  BY <1>6, <1>7, <1>8, <1>9, <1>10, <1>11 DEF SessionInv

LEMMA InvNext ==
    ASSUME TypeOK, SessionInv, [Next]_vars
    PROVE  TypeOK' /\ SessionInv'
<1>1. HelperInv /\ Flow /\ Readiness /\ Proven /\ Reported
  BY ReportedIs DEF SessionInv
<1>2. TypeOK' /\ HelperInv'
  BY <1>1, TypeNext
<1>3. Flow' /\ Readiness' /\ Proven' /\ Reported'
  BY <1>1, FlowNext, ReadinessNext, ProvenNext, ReportedNext
<1>4. ASSUME TypeOK' PROVE IncompleteIsReported' <=> Reported'
  <2>1. DOMAIN toClient' = 1..Len(toClient') /\ DOMAIN toHelper' = 1..Len(toHelper')
    BY <1>4 DEF TypeOK
  <2>2. InFlight("incomplete")' <=> Carries(toClient', {"incomplete"})
    BY <2>1 DEF InFlight, Carries
  <2>3. (\E i \in DOMAIN toHelper' : toHelper'[i].type = "begin") <=> Carries(toHelper', {"begin"})
    BY <2>1 DEF Carries
  <2>4. QED
    BY <2>2, <2>3 DEF IncompleteIsReported, Reported
<1>5. QED
  BY <1>2, <1>3, <1>4 DEF SessionInv

\* The types and the inductive invariant hold in every state of the helper and its
\* client, whatever is in the pipes between them.
THEOREM InvAlways == Spec => [](TypeOK /\ SessionInv)
<1>1. Init => TypeOK /\ SessionInv
  BY InvInit
<1>2. (TypeOK /\ SessionInv) /\ [Next]_vars => (TypeOK /\ SessionInv)'
  BY InvNext
<1>3. QED
  BY <1>1, <1>2, PTL DEF Spec

\* The pipes, the helper and the client keep to their types, whatever the
\* interleaving of the loop of server.go and the goroutines of client.go.
THEOREM TypeCorrect == Spec => []TypeOK
BY InvAlways, PTL

\* What the client keeps as lastRollback = "complete" is a proof: the hardware is
\* at stock, although the message was under way while the helper went on.
THEOREM ProofAlwaysHolds == Spec => []ProofOfRollback
<1>1. TypeOK /\ SessionInv => ProofOfRollback
  BY DEF SessionInv, Proven, AtStock, ProofOfRollback
<1>2. QED
  BY <1>1, InvAlways, PTL

\* Client.Close returns nil, and the session is said to have ended with stock
\* settings restored, only when it is so.
THEOREM CloseAlwaysHonest == Spec => []CloseIsHonest
<1>1. TypeOK /\ SessionInv => CloseIsHonest
  BY DEF SessionInv, Proven, EndedAtStock, ClosedAtStock, CloseIsHonest
<1>2. QED
  BY <1>1, InvAlways, PTL

\* A rollback that failed is known to the client, or is about to be, through
\* every order of answers, lease expiry, retries and new transactions.
THEOREM IncompleteAlwaysReported == Spec => []IncompleteIsReported
<1>1. TypeOK /\ SessionInv => IncompleteIsReported
  BY DEF SessionInv
<1>2. QED
  BY <1>1, InvAlways, PTL

\* A helper that returns from its loop has restored the hardware or tried to, and
\* status 0 means that it has.
THEOREM ExitAlwaysOrderly == Spec => []OrderlyExit
<1>1. TypeOK /\ SessionInv => OrderlyExit
  BY DEF SessionInv, HelperInv
<1>2. QED
  BY <1>1, InvAlways, PTL

=============================================================================
