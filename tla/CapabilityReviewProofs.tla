----------------------- MODULE CapabilityReviewProofs -----------------------
(***************************************************************************)
(* What the discovery and the review of CapabilityReview promise, for any  *)
(* drivers, reports, machines and bounds: the merge does not depend on the *)
(* order of the answers, what is written is what was shown, and the limits *)
(* stay ordered.                                                           *)
(***************************************************************************)
EXTENDS CapabilityReview, FiniteSetTheorems, TLAPS

-----------------------------------------------------------------------------
(* The inductive invariant.                                                *)

IsSeq(s) == Len(s) \in Nat /\ s = [i \in 1..Len(s) |-> s[i]]

\* Everything a process ever reports, and the capabilities taken from it.
ReportsOf(p) == UNION {Reports(p, d, m) : d \in Drivers, m \in Hardware}
From(p, caps) == /\ caps \in [DOMAIN caps -> ReportsOf(p)]
                 /\ \A id \in DOMAIN caps : caps[id].id = id

\* A set of the application, and one of the helper: only that has registers
\* that need no probe.
AppMade(set) == set = immutableSet(set.caps) /\ From("app", set.caps)
HelperMade(set) == /\ set = immutableSet(set.caps) /\ From("helper", set.caps)
                   /\ \E id \in DOMAIN set.caps : id \in Registers

\* No driver has answered twice, and m has the best of the answers R.
OneRun(R) == \A c, o \in R : c.id = o.id /\ c.driver = o.driver => c = o
IsBest(m, R) == /\ m \in [{c.id : c \in R} -> R]
                /\ \A id \in DOMAIN m :
                      /\ m[id].id = id
                      /\ \A o \in R : o.id = id => Rank(m[id]) <= Rank(o)

Answers(s) == UNION {s.done[i] : i \in DOMAIN s.done}
Taken(s) == UNION {s.done[k] : k \in 1..s.taken}

\* The answers of a run, and what has been made of them.
RunOK(s) ==
    /\ s.stage \in {"start", "receive", "publish", "closed"}
    /\ s.waiting \subseteq Drivers
    /\ s.stage # "closed" => Len(s.done) + Cardinality(s.waiting) = Cardinality(Drivers)
    /\ s.taken \in 0..Len(s.done)
    /\ s.stage = "start" => s.done = <<>>
    /\ Answers(s) \subseteq ReportsOf("app")
    /\ \A i \in DOMAIN s.done : \A c, o \in s.done[i] : c.id = o.id => c = o
    /\ \A c \in Answers(s) : c.driver \notin s.waiting
    /\ OneRun(Answers(s))
    /\ IsBest(s.merged, Taken(s))

\* What a stream holds for its reader: only a complete set may be the helper's.
ItemsOK(s) ==
    \A k \in DOMAIN s.out :
        AppMade(s.out[k].set) \/ (s.out[k].complete /\ HelperMade(s.out[k].set))

CompleteOK(s) ==
    \A k \in DOMAIN s.out : s.out[k].complete =>
        s.stage = "closed" /\ IsBest(s.out[k].set.caps, Answers(s))

StreamShape(s) ==
    s = [stage |-> s.stage, waiting |-> s.waiting, done |-> s.done, taken |-> s.taken,
         merged |-> s.merged, out |-> s.out, cancelled |-> s.cancelled, reading |-> s.reading]

StreamOK(s) ==
    /\ StreamShape(s)
    /\ IsSeq(s.done) /\ IsSeq(s.out)
    /\ RunOK(s) /\ ItemsOK(s)

StreamsOK ==
    /\ IsSeq(streams)
    /\ \A t \in DOMAIN streams : StreamOK(streams[t])
    /\ service.set = None => \A t \in DOMAIN streams : CompleteOK(streams[t])

WorldOK == machine \in Hardware /\ scope \in Scopes

HelperShape(h) == h = [waiting |-> h.waiting, merged |-> h.merged, fresh |-> h.fresh]

HelperOK ==
    /\ HelperShape(helper)
    /\ helper.waiting \subseteq Drivers
    /\ From("helper", helper.merged)
    /\ \A d \in Drivers \ helper.waiting, id \in Limits \cup Registers :
          Always(d, id) => id \in DOMAIN helper.merged
    /\ helper.fresh => \A id \in Limits \cap DOMAIN helper.merged :
                          helper.merged[id].current = Numeric(machine[id])

\* What was shown is the review of the set whose generation is sent, unless the
\* helper cannot have that generation.
ShownOK ==
    \/ From("app", service.sent.generation)
    \/ service.shown = ValidateChangeSet(immutableSet(service.sent.generation), service.sent).changes

ServiceShape(v) == v = [set |-> v.set, stage |-> v.stage, sent |-> v.sent, shown |-> v.shown]

ServiceOK ==
    /\ ServiceShape(service)
    /\ service.set = None \/ HelperMade(service.set)
    /\ service.stage \in {"none", "dial", "begin", "changed", "applied", "failed"}
    /\ service.stage \in {"dial", "begin"} =>
          service.sent.changes \in Seq(scope.requests) /\ ShownOK
    /\ service.stage = "changed" => service.set # None

Rows(set, pending) == ValidateChangeSet(set, [generation |-> set.generation, changes |-> pending]).changes

ViewShape(v) ==
    v = [active |-> v.active, phase |-> v.phase, session |-> v.session, set |-> v.set,
         pending |-> v.pending, valid |-> v.valid, rows |-> v.rows,
         dialog |-> v.dialog, confirmed |-> v.confirmed]

VmOK ==
    /\ ViewShape(vm)
    /\ vm.pending \in Seq(scope.requests)
    /\ vm.set = EmptySet \/ AppMade(vm.set) \/ HelperMade(vm.set)
    /\ vm.valid => validatePending(vm.set, vm.pending)
    /\ vm.phase = "reviewing" /\ ~vm.session =>
          AppMade(vm.set) \/ vm.rows = Rows(vm.set, vm.pending)

OutcomeOK == WrittenAsShown /\ LimitsStayOrdered

Inv == WorldOK /\ StreamsOK /\ HelperOK /\ ServiceOK /\ VmOK /\ OutcomeOK

-----------------------------------------------------------------------------
(* Sequences and functions.                                                *)

LEMMA SeqIsSeq == ASSUME NEW S, NEW s \in Seq(S) PROVE IsSeq(s)
  BY DEF IsSeq

LEMMA AppendSeq ==
    ASSUME NEW s, NEW x, IsSeq(s)
    PROVE  /\ IsSeq(Append(s, x)) /\ Len(Append(s, x)) = Len(s) + 1
           /\ DOMAIN s = 1..Len(s) /\ DOMAIN Append(s, x) = 1..(Len(s) + 1)
           /\ \A i \in DOMAIN s : Append(s, x)[i] = s[i]
           /\ Append(s, x)[Len(s) + 1] = x
  <1> DEFINE S == {s[i] : i \in 1..Len(s)} \cup {x}
  <1>1. s \in Seq(S) /\ x \in S
    BY DEF IsSeq
  <1> HIDE DEF S
  <1>2. /\ Append(s, x) \in Seq(S) /\ Len(Append(s, x)) = Len(s) + 1
        /\ \A i \in 1..Len(s) : Append(s, x)[i] = s[i]
        /\ Append(s, x)[Len(s) + 1] = x
    BY <1>1
  <1>3. DOMAIN s = 1..Len(s) /\ DOMAIN Append(s, x) = 1..Len(Append(s, x))
    BY <1>1, <1>2
  <1>4. IsSeq(Append(s, x))
    BY <1>2, SeqIsSeq, Zenon
  <1>5. QED
    BY <1>2, <1>3, <1>4

LEMMA TailSeq ==
    ASSUME NEW s, IsSeq(s), s # <<>>
    PROVE  /\ IsSeq(Tail(s)) /\ 1 \in DOMAIN s /\ Head(s) = s[1]
           /\ \A i \in DOMAIN Tail(s) : i + 1 \in DOMAIN s /\ Tail(s)[i] = s[i + 1]
  <1> DEFINE S == {s[i] : i \in 1..Len(s)}
  <1>1. s \in Seq(S)
    BY DEF IsSeq
  <1> HIDE DEF S
  <1>2. Len(s) > 0 /\ Head(s) = s[1] /\ 1 \in DOMAIN s
    BY <1>1
  <1>3. /\ Tail(s) \in Seq(S) /\ Len(Tail(s)) = Len(s) - 1
        /\ \A i \in 1..(Len(s) - 1) : Tail(s)[i] = s[i + 1]
    BY <1>1, <1>2
  <1>4. IsSeq(Tail(s))
    BY <1>3, SeqIsSeq, Zenon
  <1>5. DOMAIN s = 1..Len(s) /\ DOMAIN Tail(s) = 1..(Len(s) - 1) /\ Len(s) \in Nat
    BY <1>1, <1>3
  <1>6. QED
    BY <1>2, <1>3, <1>4, <1>5

LEMMA SetSeq ==
    ASSUME NEW s, NEW t \in DOMAIN s, NEW n, NEW c, IsSeq(s), c = [s EXCEPT ![t] = n]
    PROVE  /\ IsSeq(c) /\ DOMAIN c = DOMAIN s /\ c[t] = n
           /\ \A u \in DOMAIN s : u # t => c[u] = s[u]
  <1> DEFINE D == 1..Len(s)
  <1>1. s = [i \in D |-> s[i]] /\ DOMAIN s = D /\ Len(s) \in Nat
    BY DEF IsSeq
  <1> HIDE DEF D
  <1>2. /\ c = [i \in D |-> c[i]] /\ DOMAIN c = D /\ c[t] = n
        /\ \A u \in D : u # t => c[u] = s[u]
    BY <1>1
  <1>3. Len(c) = Len(s)
    BY <1>1, <1>2 DEF D
  <1>4. IsSeq(c)
    BY <1>1, <1>2, <1>3 DEF IsSeq, D
  <1>5. QED
    BY <1>1, <1>2, <1>4

LEMMA EmptySeq == IsSeq(<<>>) /\ DOMAIN <<>> = {} /\ Len(<<>>) = 0
  BY DEF IsSeq

LEMMA OneSeq == ASSUME NEW x PROVE IsSeq(<<x>>) /\ DOMAIN <<x>> = {1} /\ <<x>>[1] = x
  BY DEF IsSeq

-----------------------------------------------------------------------------
(* The merge.                                                              *)

\* Whatever reports, a priority is one of a few small numbers.
LEMMA PriorityIsSmall == \A d : DriverPriority(d) \in {0, 1, 2, 10, 20}
  BY Zenon DEF DriverPriority

LEMMA PriorityIsNumber == \A d : DriverPriority(d) \in 0..20
  BY PriorityIsSmall

\* preferCapability is the order of the ranks.
LEMMA PreferredIsRankedFirst ==
    \A c, o : preferCapability(c, o) <=> Rank(c) < Rank(o)
  <1> SUFFICES ASSUME NEW c, NEW o PROVE preferCapability(c, o) <=> Rank(c) < Rank(o)
    OBVIOUS
  <1>1. DriverPriority(c.driver) \in 0..20 /\ DriverPriority(o.driver) \in 0..20
    BY PriorityIsNumber
  <1>2. QED
    BY <1>1 DEF preferCapability, Rank, KernelSupported, Supported

\* Capabilities of one rank come from one driver.
LEMMA RankIsOfOneDriver ==
    ASSUME NEW c, NEW o, c.driver \in Drivers, o.driver \in Drivers, Rank(c) = Rank(o)
    PROVE  c.driver = o.driver
  <1>1. DriverPriority(c.driver) \in 0..20 /\ DriverPriority(o.driver) \in 0..20
    BY PriorityIsNumber
  <1>2. DriverPriority(c.driver) = DriverPriority(o.driver)
    BY <1>1 DEF Rank
  <1>3. QED
    BY <1>2, ReviewAssumption

LEMMA RankIsNumber == \A c : Rank(c) \in Int
  BY PriorityIsNumber DEF Rank

\* What Merge returns, control by control.
LEMMA MergeIs ==
    ASSUME NEW m, NEW reports, \A c, o \in reports : c.id = o.id => c = o
    PROVE  /\ Merge(m, reports) = [id \in DOMAIN Merge(m, reports) |-> Merge(m, reports)[id]]
           /\ DOMAIN Merge(m, reports) = DOMAIN m \cup {c.id : c \in reports}
           /\ \A id \in DOMAIN Merge(m, reports) :
                 \/ \E c \in reports : /\ c.id = id /\ Merge(m, reports)[id] = c
                                       /\ id \in DOMAIN m => Rank(c) < Rank(m[id])
                 \/ /\ id \in DOMAIN m /\ Merge(m, reports)[id] = m[id]
                    /\ \A c \in reports : c.id = id => Rank(m[id]) <= Rank(c)
  <1> DEFINE M == Merge(m, reports)
  <1>1. M = [id \in DOMAIN M |-> M[id]] /\ DOMAIN M = DOMAIN m \cup {c.id : c \in reports}
    BY DEF Merge
  <1>2. ASSUME NEW id \in DOMAIN M,
               NEW c \in reports, c.id = id, id \in DOMAIN m => preferCapability(c, m[id])
        PROVE  M[id] = c
    <2>1. (CHOOSE o \in reports : o.id = id) = c
      BY <1>2
    <2>2. QED
      BY <1>1, <1>2, <2>1 DEF Merge
  <1>3. ASSUME NEW id \in DOMAIN M,
               ~\E c \in reports : c.id = id /\ (id \in DOMAIN m => preferCapability(c, m[id]))
        PROVE  /\ id \in DOMAIN m /\ M[id] = m[id]
               /\ \A c \in reports : c.id = id => ~preferCapability(c, m[id])
    BY <1>1, <1>3 DEF Merge
  <1> HIDE DEF M
  <1>4. ASSUME NEW id \in DOMAIN M
        PROVE  \/ \E c \in reports : /\ c.id = id /\ M[id] = c
                                     /\ id \in DOMAIN m => Rank(c) < Rank(m[id])
               \/ /\ id \in DOMAIN m /\ M[id] = m[id]
                  /\ \A c \in reports : c.id = id => Rank(m[id]) <= Rank(c)
    <2>1. CASE \E c \in reports : c.id = id /\ (id \in DOMAIN m => preferCapability(c, m[id]))
      BY <1>2, <2>1, PreferredIsRankedFirst
    <2>2. CASE ~\E c \in reports : c.id = id /\ (id \in DOMAIN m => preferCapability(c, m[id]))
      BY <1>3, <2>2, PreferredIsRankedFirst, RankIsNumber
    <2>3. QED
      BY <2>1, <2>2
  <1>5. QED
    BY <1>1, <1>4 DEF M

\* Merging keeps the best: what the merged set was before and what the new
\* reports add.
LEMMA MergeKeepsBest ==
    ASSUME NEW m, NEW R, NEW reports, IsBest(m, R),
           \A c, o \in reports : c.id = o.id => c = o
    PROVE  IsBest(Merge(m, reports), R \cup reports)
  <1> DEFINE M == Merge(m, reports)
             All == R \cup reports
  <1>1. /\ M = [id \in DOMAIN M |-> M[id]]
        /\ DOMAIN M = DOMAIN m \cup {c.id : c \in reports}
        /\ \A id \in DOMAIN M :
              \/ \E c \in reports : /\ c.id = id /\ M[id] = c
                                    /\ id \in DOMAIN m => Rank(c) < Rank(m[id])
              \/ /\ id \in DOMAIN m /\ M[id] = m[id]
                 /\ \A c \in reports : c.id = id => Rank(m[id]) <= Rank(c)
    BY MergeIs
  <1> HIDE DEF M
  <1>2. /\ DOMAIN m = {c.id : c \in R}
        /\ \A id \in DOMAIN m : m[id] \in R /\ m[id].id = id
        /\ \A id \in DOMAIN m : \A o \in R : o.id = id => Rank(m[id]) <= Rank(o)
    BY DEF IsBest
  <1>3. DOMAIN M = {c.id : c \in All}
    BY <1>1, <1>2
  <1>4. ASSUME NEW id \in DOMAIN M
        PROVE  M[id] \in All /\ M[id].id = id /\ \A o \in All : o.id = id => Rank(M[id]) <= Rank(o)
    BY <1>1, <1>2, RankIsNumber
  <1>5. M \in [{c.id : c \in All} -> All]
    BY <1>1, <1>3, <1>4
  <1>6. QED
    BY <1>4, <1>5 DEF IsBest, M

\* There is one best merge of the answers of a run: the reference.
LEMMA BestIsReference ==
    ASSUME NEW m, NEW R, IsBest(m, R), OneRun(R), \A c \in R : c.driver \in Drivers
    PROVE  m = Best(R)
  <1>1. /\ m = [id \in {c.id : c \in R} |-> m[id]]
        /\ \A id \in {c.id : c \in R} :
              /\ m[id] \in R /\ m[id].id = id
              /\ \A o \in R : o.id = id => Rank(m[id]) <= Rank(o)
    BY DEF IsBest
  <1>2. ASSUME NEW id \in {c.id : c \in R}
        PROVE  m[id] = CHOOSE c \in R : c.id = id /\ \A o \in R : o.id = id => Rank(c) <= Rank(o)
    <2>1. ASSUME NEW c \in R, c.id = id, \A o \in R : o.id = id => Rank(c) <= Rank(o)
          PROVE  c = m[id]
      <3>1. Rank(c) = Rank(m[id])
        BY <1>1, <2>1, RankIsNumber
      <3>2. c.driver = m[id].driver
        BY <1>1, <3>1, RankIsOfOneDriver
      <3>3. QED
        BY <1>1, <2>1, <3>2 DEF OneRun
    <2>2. QED
      BY <1>1, <2>1
  <1>3. QED
    BY <1>1, <1>2 DEF Best

LEMMA NothingIsBest == IsBest(<<>>, {})
  BY DEF IsBest

-----------------------------------------------------------------------------
(* What is reported.                                                       *)

LEMMA ReportFacts ==
    ASSUME NEW p \in Processes
    PROVE  /\ ReportsOf(p) \subseteq Capabilities
           /\ \A c \in ReportsOf(p) :
                 c.driver \in Drivers /\ (c.id \in Registers => (c.state = "requires_probe") = (p = "app"))
           /\ \A d \in Drivers, m \in Hardware :
                 /\ Reports(p, d, m) \subseteq ReportsOf(p)
                 /\ \A c, o \in Reports(p, d, m) : c.driver = d /\ (c.id = o.id => c = o)
  BY ReviewAssumption DEF ReportsOf, Capabilities

\* No set of the application is one of the helper.
LEMMA OriginsDiffer == ASSUME NEW set, AppMade(set), HelperMade(set) PROVE FALSE
  <1>1. PICK id \in DOMAIN set.caps : id \in Registers
    BY DEF HelperMade
  <1>2. /\ set.caps[id] \in ReportsOf("app") /\ set.caps[id] \in ReportsOf("helper")
        /\ set.caps[id].id = id
    BY <1>1 DEF AppMade, HelperMade, From
  <1>3. "app" \in Processes /\ "helper" \in Processes
    BY DEF Processes
  <1>4. (set.caps[id].state = "requires_probe") = TRUE /\ (set.caps[id].state = "requires_probe") = FALSE
    BY <1>1, <1>2, <1>3, ReportFacts
  <1>5. QED
    BY <1>4

\* What is merged from the answers of a process comes from the process.
LEMMA BestIsFrom ==
    ASSUME NEW m, NEW R, NEW p, IsBest(m, R), R \subseteq ReportsOf(p)
    PROVE  From(p, m)
  BY DEF IsBest, From

LEMMA MergeIsFrom ==
    ASSUME NEW m, NEW p, NEW reports, From(p, m), reports \subseteq ReportsOf(p),
           \A c, o \in reports : c.id = o.id => c = o
    PROVE  From(p, Merge(m, reports))
  <1> DEFINE M == Merge(m, reports)
  <1>1. /\ M = [id \in DOMAIN M |-> M[id]]
        /\ DOMAIN M = DOMAIN m \cup {c.id : c \in reports}
        /\ \A id \in DOMAIN M :
              \/ \E c \in reports : /\ c.id = id /\ M[id] = c
                                    /\ id \in DOMAIN m => Rank(c) < Rank(m[id])
              \/ /\ id \in DOMAIN m /\ M[id] = m[id]
                 /\ \A c \in reports : c.id = id => Rank(m[id]) <= Rank(c)
    BY MergeIs
  <1> HIDE DEF M
  <1>2. \A id \in DOMAIN M : M[id] \in ReportsOf(p) /\ M[id].id = id
    BY <1>1 DEF From
  <1>3. QED
    BY <1>1, <1>2 DEF From, M

\* There is a set that a review can be made of.
LEMMA MadeIsSomething ==
    ASSUME NEW set, AppMade(set) \/ HelperMade(set)
    PROVE  set # None
  <1>1. PICK p \in Processes : set = immutableSet(set.caps) /\ From(p, set.caps)
    BY DEF AppMade, HelperMade, Processes
  <1>2. set.caps \in [DOMAIN set.caps -> Capabilities] /\ \A id \in DOMAIN set.caps : set.caps[id].id = id
    BY <1>1, ReportFacts DEF From
  <1>3. DOMAIN set.caps \in SUBSET {c.id : c \in Capabilities}
    BY <1>2
  <1>4. set.caps \in Sets
    BY <1>2, <1>3 DEF Sets
  <1>5. set \in [generation : Sets, caps : Sets]
    BY <1>1, <1>4 DEF immutableSet, generationFor
  <1>6. QED
    BY <1>5, ReviewAssumption

-----------------------------------------------------------------------------
(* A stream, step by step.                                                 *)

LEMMA EndStream ==
    ASSUME NEW x, NEW e,
           x = [stage |-> "start", waiting |-> Drivers, done |-> <<>>, taken |-> 0, merged |-> <<>>,
                out |-> <<>>, cancelled |-> FALSE, reading |-> TRUE],
           e = [x EXCEPT !.stage = "closed", !.waiting = {}, !.reading = FALSE]
    PROVE  e = [stage |-> "closed", waiting |-> {}, done |-> <<>>, taken |-> 0, merged |-> <<>>,
                out |-> <<>>, cancelled |-> FALSE, reading |-> FALSE]
  OBVIOUS

LEMMA CancelStream ==
    ASSUME NEW x, NEW e, NEW q,
           x = [stage |-> "closed", waiting |-> {}, done |-> <<>>, taken |-> 0, merged |-> <<>>,
                out |-> <<>>, cancelled |-> FALSE, reading |-> FALSE],
           e = [x EXCEPT !.cancelled = q]
    PROVE  e = [stage |-> "closed", waiting |-> {}, done |-> <<>>, taken |-> 0, merged |-> <<>>,
                out |-> <<>>, cancelled |-> q, reading |-> FALSE]
  OBVIOUS

LEMMA AnswerStream ==
    ASSUME NEW x, NEW z, NEW o,
           x = [stage |-> "start", waiting |-> Drivers, done |-> <<>>, taken |-> 0, merged |-> <<>>,
                out |-> <<>>, cancelled |-> FALSE, reading |-> TRUE],
           z = [x EXCEPT !.stage = "closed", !.waiting = {}, !.out = o]
    PROVE  z = [stage |-> "closed", waiting |-> {}, done |-> <<>>, taken |-> 0, merged |-> <<>>,
                out |-> o, cancelled |-> FALSE, reading |-> TRUE]
  OBVIOUS

LEMMA StreamsAre ==
    ASSUME NEW q, NEW set
    PROVE  /\ [EndedStream EXCEPT !.cancelled = q] =
                  [stage |-> "closed", waiting |-> {}, done |-> <<>>, taken |-> 0, merged |-> <<>>,
                   out |-> <<>>, cancelled |-> q, reading |-> FALSE]
           /\ AnsweredStream(set) =
                  [stage |-> "closed", waiting |-> {}, done |-> <<>>, taken |-> 0, merged |-> <<>>,
                   out |-> <<[set |-> set, complete |-> TRUE]>>, cancelled |-> FALSE, reading |-> TRUE]
  <1>1. NewStream = [stage |-> "start", waiting |-> Drivers, done |-> <<>>, taken |-> 0, merged |-> <<>>,
                     out |-> <<>>, cancelled |-> FALSE, reading |-> TRUE]
    BY DEF NewStream
  <1>2. EndedStream = [NewStream EXCEPT !.stage = "closed", !.waiting = {}, !.reading = FALSE]
    BY Zenon DEF EndedStream
  <1>3. AnsweredStream(set) = [NewStream EXCEPT !.stage = "closed", !.waiting = {},
                                                !.out = <<[set |-> set, complete |-> TRUE]>>]
    BY Zenon DEF AnsweredStream
  <1>4. EndedStream =
           [stage |-> "closed", waiting |-> {}, done |-> <<>>, taken |-> 0, merged |-> <<>>,
            out |-> <<>>, cancelled |-> FALSE, reading |-> FALSE]
    BY <1>1, <1>2, EndStream, Zenon
  <1>5. [EndedStream EXCEPT !.cancelled = q] =
           [stage |-> "closed", waiting |-> {}, done |-> <<>>, taken |-> 0, merged |-> <<>>,
            out |-> <<>>, cancelled |-> q, reading |-> FALSE]
    BY <1>4, CancelStream, Zenon
  <1>6. AnsweredStream(set) =
           [stage |-> "closed", waiting |-> {}, done |-> <<>>, taken |-> 0, merged |-> <<>>,
            out |-> <<[set |-> set, complete |-> TRUE]>>, cancelled |-> FALSE, reading |-> TRUE]
    BY <1>1, <1>3, AnswerStream, Zenon
  <1>7. QED
    BY <1>5, <1>6

\* A stream, written out field by field, after an assignment to some of them.
LEMMA WrittenOut ==
    ASSUME NEW s, NEW x, NEW y, NEW z, StreamShape(s)
    PROVE  /\ [s EXCEPT !.stage = x] =
                 [stage |-> x, waiting |-> s.waiting, done |-> s.done, taken |-> s.taken,
                  merged |-> s.merged, out |-> s.out, cancelled |-> s.cancelled, reading |-> s.reading]
           /\ [s EXCEPT !.cancelled = x] =
                 [stage |-> s.stage, waiting |-> s.waiting, done |-> s.done, taken |-> s.taken,
                  merged |-> s.merged, out |-> s.out, cancelled |-> x, reading |-> s.reading]
           /\ [s EXCEPT !.out = x] =
                 [stage |-> s.stage, waiting |-> s.waiting, done |-> s.done, taken |-> s.taken,
                  merged |-> s.merged, out |-> x, cancelled |-> s.cancelled, reading |-> s.reading]
  <1>1. [s EXCEPT !.stage = x] =
               [stage |-> x, waiting |-> s.waiting, done |-> s.done, taken |-> s.taken,
                merged |-> s.merged, out |-> s.out, cancelled |-> s.cancelled, reading |-> s.reading]
    BY DEF StreamShape
  <1>2. [s EXCEPT !.cancelled = x] =
               [stage |-> s.stage, waiting |-> s.waiting, done |-> s.done, taken |-> s.taken,
                merged |-> s.merged, out |-> s.out, cancelled |-> x, reading |-> s.reading]
    BY DEF StreamShape
  <1>3. [s EXCEPT !.out = x] =
               [stage |-> s.stage, waiting |-> s.waiting, done |-> s.done, taken |-> s.taken,
                merged |-> s.merged, out |-> x, cancelled |-> s.cancelled, reading |-> s.reading]
    BY DEF StreamShape
  <1>4. QED
    BY <1>1, <1>2, <1>3

LEMMA AnsweredOut ==
    ASSUME NEW s, NEW n, NEW x, NEW y, StreamShape(s), n = [s EXCEPT !.waiting = x, !.done = y]
    PROVE  n = [stage |-> s.stage, waiting |-> x, done |-> y, taken |-> s.taken,
                merged |-> s.merged, out |-> s.out, cancelled |-> s.cancelled, reading |-> s.reading]
  BY DEF StreamShape

LEMMA TakenOut ==
    ASSUME NEW s, NEW n, NEW x, NEW y, NEW z, StreamShape(s),
           n = [s EXCEPT !.stage = x, !.taken = y, !.merged = z]
    PROVE  n = [stage |-> x, waiting |-> s.waiting, done |-> s.done, taken |-> y,
                merged |-> z, out |-> s.out, cancelled |-> s.cancelled, reading |-> s.reading]
  BY DEF StreamShape

LEMMA SentOut ==
    ASSUME NEW s, NEW n, NEW x, NEW y, StreamShape(s), n = [s EXCEPT !.out = x, !.stage = y]
    PROVE  n = [stage |-> y, waiting |-> s.waiting, done |-> s.done, taken |-> s.taken,
                merged |-> s.merged, out |-> x, cancelled |-> s.cancelled, reading |-> s.reading]
  BY DEF StreamShape

LEMMA NewStreamOK ==
    /\ StreamOK(NewStream) /\ CompleteOK(NewStream)
    /\ \A q : /\ StreamOK([EndedStream EXCEPT !.cancelled = q])
              /\ CompleteOK([EndedStream EXCEPT !.cancelled = q])
    /\ \A set : HelperMade(set) => StreamOK(AnsweredStream(set))
  <1>2. ASSUME NEW s, s.done = <<>>, s.taken = 0, s.merged = <<>>
        PROVE  Answers(s) = {} /\ Taken(s) = {} /\ IsBest(s.merged, Taken(s)) /\ OneRun(Answers(s))
               /\ IsSeq(s.done) /\ Len(s.done) = 0 /\ DOMAIN s.done = {}
    BY <1>2, NothingIsBest, EmptySeq, SMTT(30) DEF Answers, Taken, OneRun
  <1>3. ASSUME NEW s, s.done = <<>>, s.taken = 0, s.merged = <<>>, s.waiting \subseteq Drivers,
               \/ s.stage = "start" /\ s.waiting = Drivers
               \/ s.stage = "closed"
        PROVE  RunOK(s)
    <2>1. Cardinality(Drivers) \in Nat
      BY FS_CardinalityType, ReviewAssumption
    <2>2. QED
      BY <1>2, <1>3, <2>1 DEF RunOK
  <1>4. ASSUME NEW s, s.out = <<>>
        PROVE  IsSeq(s.out) /\ ItemsOK(s) /\ CompleteOK(s)
    BY <1>4, EmptySeq DEF ItemsOK, CompleteOK
  <1>5. StreamOK(NewStream) /\ CompleteOK(NewStream)
    <2>1. RunOK(NewStream) /\ IsSeq(NewStream.done)
      <3> DEFINE s == NewStream
      <3>1. s.done = <<>> /\ s.taken = 0 /\ s.merged = <<>> /\ s.waiting = Drivers /\ s.stage = "start"
        BY DEF NewStream
      <3> HIDE DEF s
      <3>2. RunOK(s) /\ IsSeq(s.done)
        BY <1>2, <1>3, <3>1
      <3>3. QED
        BY <3>2 DEF s
    <2>2. IsSeq(NewStream.out) /\ ItemsOK(NewStream) /\ CompleteOK(NewStream)
      BY <1>4 DEF NewStream
    <2>3. QED
      BY <2>1, <2>2 DEF StreamOK, StreamShape, NewStream
  <1>6. ASSUME NEW q
        PROVE  /\ StreamOK([EndedStream EXCEPT !.cancelled = q])
               /\ CompleteOK([EndedStream EXCEPT !.cancelled = q])
    <2> DEFINE s == [EndedStream EXCEPT !.cancelled = q]
    <2>1. s = [stage |-> "closed", waiting |-> {}, done |-> <<>>, taken |-> 0, merged |-> <<>>,
               out |-> <<>>, cancelled |-> q, reading |-> FALSE]
      BY StreamsAre
    <2> HIDE DEF s
    <2>2. RunOK(s) /\ IsSeq(s.done)
      BY <1>2, <1>3, <2>1
    <2>3. IsSeq(s.out) /\ ItemsOK(s) /\ CompleteOK(s)
      BY <1>4, <2>1
    <2>4. StreamOK(s)
      BY <2>1, <2>2, <2>3 DEF StreamOK, StreamShape
    <2>5. QED
      BY <2>3, <2>4 DEF s
  <1>7. ASSUME NEW set, HelperMade(set)
        PROVE  StreamOK(AnsweredStream(set))
    <2> DEFINE s == AnsweredStream(set)
    <2>1. s = [stage |-> "closed", waiting |-> {}, done |-> <<>>, taken |-> 0, merged |-> <<>>,
               out |-> <<[set |-> set, complete |-> TRUE]>>, cancelled |-> FALSE, reading |-> TRUE]
      BY StreamsAre
    <2> HIDE DEF s
    <2>2. RunOK(s) /\ IsSeq(s.done)
      BY <1>2, <1>3, <2>1
    <2>3. IsSeq(s.out) /\ ItemsOK(s)
      BY <1>7, <2>1, OneSeq DEF ItemsOK
    <2>4. QED
      BY <2>1, <2>2, <2>3 DEF StreamOK, StreamShape, s
  <1>8. QED
    BY <1>5, <1>6, <1>7

\* The stage changes, and nothing else.
LEMMA StageKeeps ==
    ASSUME NEW s, NEW x \in {"receive", "closed"}, StreamOK(s), s.stage = "closed" => x = "closed"
    PROVE  /\ StreamOK([s EXCEPT !.stage = x])
           /\ CompleteOK(s) => CompleteOK([s EXCEPT !.stage = x])
  <1> DEFINE n == [s EXCEPT !.stage = x]
  <1>1. n = [stage |-> x, waiting |-> s.waiting, done |-> s.done, taken |-> s.taken,
             merged |-> s.merged, out |-> s.out, cancelled |-> s.cancelled, reading |-> s.reading]
    BY WrittenOut, Zenon DEF StreamOK
  <1> HIDE DEF n
  <1>2. Answers(n) = Answers(s) /\ Taken(n) = Taken(s)
    BY <1>1 DEF Answers, Taken
  <1>3. RunOK(n)
    BY <1>1, <1>2 DEF StreamOK, RunOK
  <1>4. ItemsOK(n)
    BY <1>1 DEF StreamOK, ItemsOK
  <1>5. StreamOK(n)
    BY <1>1, <1>3, <1>4 DEF StreamOK, StreamShape
  <1>6. CompleteOK(s) => CompleteOK(n)
    BY <1>1, <1>2 DEF CompleteOK
  <1>7. QED
    BY <1>5, <1>6 DEF n

\* Whether a stream is read, or its context has ended, is of no account.
LEMMA CancelKeeps ==
    ASSUME NEW s, NEW q, StreamOK(s)
    PROVE  /\ StreamOK([s EXCEPT !.cancelled = q])
           /\ CompleteOK(s) => CompleteOK([s EXCEPT !.cancelled = q])
  <1> DEFINE n == [s EXCEPT !.cancelled = q]
  <1>1. n = [stage |-> s.stage, waiting |-> s.waiting, done |-> s.done, taken |-> s.taken,
             merged |-> s.merged, out |-> s.out, cancelled |-> q, reading |-> s.reading]
    BY WrittenOut, Zenon DEF StreamOK
  <1> HIDE DEF n
  <1>2. Answers(n) = Answers(s) /\ Taken(n) = Taken(s)
    BY <1>1 DEF Answers, Taken
  <1>3. RunOK(n)
    BY <1>1, <1>2 DEF StreamOK, RunOK
  <1>4. ItemsOK(n)
    BY <1>1 DEF StreamOK, ItemsOK
  <1>5. StreamOK(n)
    BY <1>1, <1>3, <1>4 DEF StreamOK, StreamShape
  <1>6. CompleteOK(s) => CompleteOK(n)
    BY <1>1, <1>2 DEF CompleteOK
  <1>7. QED
    BY <1>5, <1>6 DEF n

\* The reader takes the first set.
LEMMA ReadKeeps ==
    ASSUME NEW s, NEW rest, StreamOK(s), s.out # <<>>, rest = Tail(s.out)
    PROVE  /\ StreamOK([s EXCEPT !.out = rest])
           /\ CompleteOK(s) => CompleteOK([s EXCEPT !.out = rest])
           /\ \/ AppMade(Head(s.out).set)
              \/ Head(s.out).complete /\ HelperMade(Head(s.out).set)
  <1> DEFINE n == [s EXCEPT !.out = rest]
  <1>1. n = [stage |-> s.stage, waiting |-> s.waiting, done |-> s.done, taken |-> s.taken,
             merged |-> s.merged, out |-> rest, cancelled |-> s.cancelled, reading |-> s.reading]
    BY WrittenOut, Zenon DEF StreamOK
  <1> HIDE DEF n
  <1>2. /\ IsSeq(n.out) /\ 1 \in DOMAIN s.out /\ Head(s.out) = s.out[1]
        /\ \A k \in DOMAIN n.out : k + 1 \in DOMAIN s.out /\ n.out[k] = s.out[k + 1]
    BY <1>1, TailSeq DEF StreamOK
  <1>3. Answers(n) = Answers(s) /\ Taken(n) = Taken(s)
    BY <1>1 DEF Answers, Taken
  <1>4. RunOK(n)
    BY <1>1, <1>3, ZenonT(60) DEF StreamOK, RunOK
  <1>5. ItemsOK(n)
    BY <1>2 DEF StreamOK, ItemsOK
  <1>6. StreamOK(n)
    BY <1>1, <1>2, <1>4, <1>5 DEF StreamOK, StreamShape
  <1>7. CompleteOK(s) => CompleteOK(n)
    BY <1>1, <1>2, <1>3 DEF CompleteOK
  <1>8. QED
    BY <1>2, <1>6, <1>7 DEF n, StreamOK, ItemsOK

\* There is one driver less to wait for, and one answer more.
LEMMA OneFewer ==
    ASSUME NEW W, NEW d \in W, NEW k \in Nat, W \subseteq Drivers,
           k + Cardinality(W) = Cardinality(Drivers)
    PROVE  (k + 1) + Cardinality(W \ {d}) = Cardinality(Drivers)
  <1>1. IsFiniteSet(W)
    BY FS_Subset, ReviewAssumption
  <1>2. Cardinality(W) \in Nat /\ Cardinality(W \ {d}) = Cardinality(W) - 1
    BY <1>1, FS_CardinalityType, FS_RemoveElement
  <1>3. QED
    BY <1>2

\* A driver answers.
Answered(s, n, d, reports) ==
    /\ d \in s.waiting /\ reports \subseteq ReportsOf("app")
    /\ \A c, o \in reports : c.driver = d /\ (c.id = o.id => c = o)
    /\ s.stage # "start" /\ s.stage # "closed"
    /\ StreamShape(n) /\ n.stage = s.stage /\ n.waiting = s.waiting \ {d}
    /\ n.done = Append(s.done, reports) /\ n.taken = s.taken
    /\ n.merged = s.merged /\ n.out = s.out

LEMMA ProbeKeeps ==
    ASSUME NEW s, NEW d, NEW reports, NEW n, StreamOK(s), Answered(s, n, d, reports)
    PROVE  StreamOK(n) /\ (CompleteOK(s) => CompleteOK(n))
  <1> USE DEF Answered
  <1>1. /\ IsSeq(n.done) /\ Len(n.done) = Len(s.done) + 1 /\ Len(s.done) \in Nat
        /\ DOMAIN s.done = 1..Len(s.done) /\ DOMAIN n.done = 1..(Len(s.done) + 1)
        /\ \A i \in DOMAIN s.done : n.done[i] = s.done[i]
        /\ n.done[Len(s.done) + 1] = reports
    BY AppendSeq DEF StreamOK, IsSeq
  <1>2. /\ RunOK(s) /\ s.waiting \subseteq Drivers /\ d \in Drivers
    BY DEF StreamOK, RunOK
  <1>3. /\ reports \subseteq ReportsOf("app")
        /\ \A c, o \in reports : c.driver = d /\ (c.id = o.id => c = o)
    OBVIOUS
  <1>4. Answers(n) = Answers(s) \cup reports
    <2>1. DOMAIN n.done = DOMAIN s.done \cup {Len(s.done) + 1}
      BY <1>1
    <2>2. QED
      BY <1>1, <2>1 DEF Answers
  <1>5. Taken(n) = Taken(s)
    <2>1. \A k \in 1..s.taken : k \in DOMAIN s.done
      BY <1>1, <1>2 DEF RunOK
    <2>2. QED
      BY <1>1, <2>1 DEF Taken
  <1>6. Len(n.done) + Cardinality(n.waiting) = Cardinality(Drivers)
    <2>1. Len(s.done) + Cardinality(s.waiting) = Cardinality(Drivers)
      BY <1>2 DEF RunOK
    <2>2. (Len(s.done) + 1) + Cardinality(s.waiting \ {d}) = Cardinality(Drivers)
      BY <1>1, <1>2, <2>1, OneFewer, SMTT(30)
    <2>3. n.waiting = s.waiting \ {d}
      OBVIOUS
    <2>4. QED
      BY <1>1, <2>2, <2>3, Zenon
  <1>7. \A c \in Answers(s) : c.driver # d
    BY <1>2 DEF RunOK
  <1>8. OneRun(Answers(n))
    BY <1>2, <1>3, <1>4, <1>7 DEF RunOK, OneRun
  <1>9. RunOK(n)
    <2>1. n.stage = s.stage /\ n.taken = s.taken /\ n.merged = s.merged /\ n.waiting = s.waiting \ {d}
      OBVIOUS
    <2>2. n.taken \in 0..Len(n.done)
      BY <1>1, <1>2, <2>1 DEF RunOK
    <2>3. \A i \in DOMAIN n.done : \A c, o \in n.done[i] : c.id = o.id => c = o
      <3>1. \A i \in DOMAIN n.done : i \in DOMAIN s.done \/ i = Len(s.done) + 1
        BY <1>1
      <3>2. QED
        BY <1>1, <1>2, <1>3, <3>1 DEF RunOK
    <2>4. Answers(n) \subseteq ReportsOf("app") /\ \A c \in Answers(n) : c.driver \notin n.waiting
      BY <1>2, <1>3, <1>4, <2>1 DEF RunOK
    <2>5. IsBest(n.merged, Taken(n))
      BY <1>2, <1>5, <2>1 DEF RunOK
    <2>6. QED
      BY <1>2, <1>6, <1>8, <2>1, <2>2, <2>3, <2>4, <2>5 DEF RunOK
  <1>10. ItemsOK(n)
    BY DEF StreamOK, ItemsOK
  <1>11. StreamOK(n)
    BY <1>1, <1>9, <1>10 DEF StreamOK, StreamShape
  <1>12. CompleteOK(s) => CompleteOK(n)
    BY DEF CompleteOK
  <1>13. QED
    BY <1>11, <1>12

\* The run takes an answer and merges it.
LEMMA ReceiveKeeps ==
    ASSUME NEW s, NEW n, NEW k, NEW m, StreamOK(s), s.stage = "receive", s.taken < Len(s.done),
           k = s.taken + 1, m = Merge(s.merged, s.done[k]),
           n = [stage |-> "publish", waiting |-> s.waiting, done |-> s.done, taken |-> k, merged |-> m,
                      out |-> s.out, cancelled |-> s.cancelled, reading |-> s.reading]
    PROVE  StreamOK(n) /\ (CompleteOK(s) => CompleteOK(n))
  <1>1. n = [stage |-> "publish", waiting |-> s.waiting, done |-> s.done, taken |-> k, merged |-> m,
             out |-> s.out, cancelled |-> s.cancelled, reading |-> s.reading]
    OBVIOUS
  <1>2. RunOK(s) /\ DOMAIN s.done = 1..Len(s.done) /\ Len(s.done) \in Nat
    BY DEF StreamOK, IsSeq
  <1>3. s.taken \in Nat /\ k \in 1..Len(s.done)
    BY <1>2 DEF RunOK
  <1>4. Answers(n) = Answers(s)
    BY <1>1 DEF Answers
  <1>5. Taken(n) = Taken(s) \cup s.done[k]
    <2>1. 1..k = (1..s.taken) \cup {k}
      BY <1>3
    <2>2. n.taken = k /\ n.done = s.done
      BY <1>1
    <2>3. Taken(n) = UNION {s.done[i] : i \in (1..s.taken) \cup {k}}
      BY <2>1, <2>2, ZenonT(60) DEF Taken
    <2>4. QED
      BY <2>3 DEF Taken
  <1>6. IsBest(n.merged, Taken(n))
    <2>1. \A c, o \in s.done[k] : c.id = o.id => c = o
      BY <1>2, <1>3 DEF RunOK
    <2>2. IsBest(s.merged, Taken(s))
      BY <1>2 DEF RunOK
    <2>3. IsBest(Merge(s.merged, s.done[k]), Taken(s) \cup s.done[k])
      BY <2>1, <2>2, MergeKeepsBest
    <2>4. n.merged = Merge(s.merged, s.done[k])
      BY <1>1
    <2>5. QED
      BY <1>5, <2>3, <2>4, Zenon
  <1>7. RunOK(n)
    <2>1. /\ n.stage = "publish" /\ s.stage = "receive" /\ n.waiting = s.waiting /\ n.done = s.done
          /\ n.taken \in 0..Len(n.done)
      BY <1>1, <1>3
    <2>2. QED
      BY <1>2, <1>4, <1>6, <2>1, ZenonT(60) DEF RunOK
  <1>8. ItemsOK(n)
    BY <1>1 DEF StreamOK, ItemsOK
  <1>9. StreamOK(n)
    BY <1>1, <1>7, <1>8 DEF StreamOK, StreamShape
  <1>10. CompleteOK(s) => CompleteOK(n)
    BY <1>1 DEF CompleteOK
  <1>11. QED
    BY <1>9, <1>10

\* What has been merged is published, and is complete when every driver has
\* answered.
LEMMA PublishKeeps ==
    ASSUME NEW s, NEW n, NEW item, NEW out, NEW stage, StreamOK(s), s.stage = "publish",
           item.set = immutableSet(s.merged),
           item.complete <=> s.taken = Cardinality(Drivers),
           out = Append(s.out, item),
           stage \in {"closed", "receive"}, item.complete => stage = "closed",
           n = [stage |-> stage, waiting |-> s.waiting, done |-> s.done, taken |-> s.taken,
                      merged |-> s.merged, out |-> out, cancelled |-> s.cancelled, reading |-> s.reading]
    PROVE  StreamOK(n) /\ (CompleteOK(s) => CompleteOK(n))
  <1>1. n = [stage |-> stage, waiting |-> s.waiting, done |-> s.done, taken |-> s.taken,
             merged |-> s.merged, out |-> out, cancelled |-> s.cancelled, reading |-> s.reading]
    OBVIOUS
  <1>2. RunOK(s) /\ DOMAIN s.done = 1..Len(s.done) /\ Len(s.done) \in Nat
    BY DEF StreamOK, IsSeq
  <1>3. Answers(n) = Answers(s) /\ Taken(n) = Taken(s)
    BY <1>1 DEF Answers, Taken
  <1>4. RunOK(n)
    <2>1. /\ n.stage \in {"receive", "closed"} /\ n.waiting = s.waiting /\ n.done = s.done
          /\ n.taken = s.taken /\ n.merged = s.merged
      BY <1>1
    <2>2. s.stage = "publish" /\ n.stage # "start"
      BY <2>1
    <2>3. QED
      BY <1>2, <1>3, <2>1, <2>2, ZenonT(60) DEF RunOK
  <1>5. /\ IsSeq(out) /\ \A i \in DOMAIN s.out : out[i] = s.out[i]
        /\ DOMAIN out = DOMAIN s.out \cup {Len(s.out) + 1} /\ out[Len(s.out) + 1] = item
    <2>1. /\ IsSeq(s.out) /\ Len(s.out) \in Nat
      BY DEF StreamOK, IsSeq
    <2>2. /\ IsSeq(out) /\ \A i \in DOMAIN s.out : out[i] = s.out[i]
          /\ DOMAIN s.out = 1..Len(s.out) /\ DOMAIN out = 1..(Len(s.out) + 1)
          /\ out[Len(s.out) + 1] = item
      BY <2>1, AppendSeq
    <2>3. 1..(Len(s.out) + 1) = (1..Len(s.out)) \cup {Len(s.out) + 1}
      BY <2>1
    <2>4. QED
      BY <2>2, <2>3, Zenon
  <1>6. AppMade(item.set)
    <2>1. Taken(s) \subseteq ReportsOf("app")
      BY <1>2 DEF RunOK, Answers, Taken
    <2>2. From("app", s.merged)
      BY <1>2, <2>1, BestIsFrom DEF RunOK
    <2>3. item.set = immutableSet(s.merged) /\ immutableSet(s.merged).caps = s.merged
      BY DEF immutableSet
    <2>4. QED
      BY <2>2, <2>3 DEF AppMade
  <1>7. ItemsOK(n)
    <2>1. n.out = out /\ ItemsOK(s)
      BY <1>1 DEF StreamOK
    <2>2. SUFFICES ASSUME NEW k \in DOMAIN out
                   PROVE  AppMade(out[k].set) \/ (out[k].complete /\ HelperMade(out[k].set))
      BY <2>1, Zenon DEF ItemsOK
    <2>3. CASE k \in DOMAIN s.out
      BY <1>5, <2>1, <2>3 DEF ItemsOK
    <2>4. CASE k = Len(s.out) + 1
      BY <1>5, <1>6, <2>4, Zenon
    <2>5. QED
      BY <1>5, <2>3, <2>4
  <1>8. StreamOK(n)
    BY <1>1, <1>4, <1>5, <1>7 DEF StreamOK, StreamShape
  <1>9. ASSUME item.complete PROVE n.stage = "closed" /\ IsBest(item.set.caps, Answers(n))
    <2>1. n.stage = "closed" /\ item.set.caps = s.merged
      BY <1>1, <1>9 DEF immutableSet
    <2>2. s.taken = Len(s.done)
      <3>1. Cardinality(s.waiting) \in Nat
        <4>1. IsFiniteSet(s.waiting)
          BY <1>2, FS_Subset, ReviewAssumption DEF RunOK
        <4>2. QED
          BY <4>1, FS_CardinalityType
      <3>2. Len(s.done) + Cardinality(s.waiting) = Cardinality(Drivers) /\ s.taken \in 0..Len(s.done)
        BY <1>2 DEF RunOK
      <3>3. s.taken = Cardinality(Drivers)
        BY <1>9
      <3>4. QED
        BY <1>2, <3>1, <3>2, <3>3
    <2>3. Taken(s) = Answers(s)
      BY <1>2, <2>2 DEF Taken, Answers
    <2>4. IsBest(s.merged, Taken(s))
      BY <1>2 DEF RunOK
    <2>5. QED
      BY <1>3, <2>1, <2>3, <2>4, Zenon
  <1>10. CompleteOK(s) => CompleteOK(n)
    <2>1. n.out = out
      BY <1>1
    <2>2. SUFFICES ASSUME CompleteOK(s), NEW k \in DOMAIN out, out[k].complete
                   PROVE  n.stage = "closed" /\ IsBest(out[k].set.caps, Answers(n))
      BY <2>1, Zenon DEF CompleteOK
    <2>3. CASE k \in DOMAIN s.out
      BY <1>5, <2>2, <2>3 DEF CompleteOK
    <2>4. CASE k = Len(s.out) + 1
      <3>1. out[k] = item
        BY <1>5, <2>4, Zenon
      <3>2. QED
        BY <1>9, <2>1, <2>2, <3>1, Zenon
    <2>5. QED
      BY <1>5, <2>3, <2>4
  <1>11. QED
    BY <1>8, <1>10

-----------------------------------------------------------------------------
(* The streams.                                                            *)

LEMMA OneStreamChanges ==
    ASSUME NEW t \in DOMAIN streams, NEW n, StreamsOK, streams' = [streams EXCEPT ![t] = n],
           StreamOK(n), CompleteOK(streams[t]) => CompleteOK(n), service'.set = service.set
    PROVE  StreamsOK'
  <1>1. /\ IsSeq(streams') /\ DOMAIN streams' = DOMAIN streams /\ streams'[t] = n
        /\ \A u \in DOMAIN streams : u # t => streams'[u] = streams[u]
    BY SetSeq DEF StreamsOK
  <1>2. \A u \in DOMAIN streams' : StreamOK(streams'[u])
    BY <1>1 DEF StreamsOK
  <1>3. service'.set = None => \A u \in DOMAIN streams' : CompleteOK(streams'[u])
    BY <1>1 DEF StreamsOK
  <1>4. QED
    BY <1>1, <1>2, <1>3 DEF StreamsOK

LEMMA OneStreamIsAdded ==
    ASSUME NEW n, StreamsOK, streams' = Append(streams, n),
           StreamOK(n), service.set = None => CompleteOK(n), service'.set = service.set
    PROVE  StreamsOK'
  <1>1. /\ IsSeq(streams') /\ DOMAIN streams' = DOMAIN streams \cup {Len(streams) + 1}
        /\ \A u \in DOMAIN streams : streams'[u] = streams[u]
        /\ streams'[Len(streams) + 1] = n
    <2>1. Len(streams) \in Nat /\ IsSeq(streams)
      BY DEF StreamsOK, IsSeq
    <2>2. 1..(Len(streams) + 1) = (1..Len(streams)) \cup {Len(streams) + 1}
      BY <2>1
    <2>3. QED
      BY <2>1, <2>2, AppendSeq
  <1>2. \A u \in DOMAIN streams' : StreamOK(streams'[u])
    BY <1>1 DEF StreamsOK
  <1>3. service'.set = None => \A u \in DOMAIN streams' : CompleteOK(streams'[u])
    BY <1>1 DEF StreamsOK
  <1>4. QED
    BY <1>1, <1>2, <1>3 DEF StreamsOK

LEMMA StreamsUnchanged ==
    ASSUME StreamsOK, streams' = streams, service'.set = service.set
    PROVE  StreamsOK'
  BY DEF StreamsOK

\* Two fields of a stream are set, one after the other.
LEMMA AnswerInStreams ==
    ASSUME NEW s, NEW t \in DOMAIN s, NEW n, NEW c, NEW x, NEW y, IsSeq(s), StreamShape(s[t]),
           c = [s EXCEPT ![t].waiting = x, ![t].done = y],
           n = [s[t] EXCEPT !.waiting = x, !.done = y]
    PROVE  c = [s EXCEPT ![t] = n]
  BY DEF IsSeq, StreamShape

LEMMA ItemInStreams ==
    ASSUME NEW s, NEW t \in DOMAIN s, NEW n, NEW c, NEW x, NEW y, IsSeq(s), StreamShape(s[t]),
           c = [s EXCEPT ![t].out = x, ![t].stage = y],
           n = [s[t] EXCEPT !.out = x, !.stage = y]
    PROVE  c = [s EXCEPT ![t] = n]
  BY DEF IsSeq, StreamShape

LEMMA BeginStreams ==
    ASSUME NEW t \in DOMAIN streams, Inv, Begin(t) PROVE StreamsOK'
  <1> DEFINE x == IF streams[t].cancelled \/ latest # t THEN "closed" ELSE "receive"
             n == [streams[t] EXCEPT !.stage = x]
  <1>1. x \in {"receive", "closed"} /\ StreamsOK /\ StreamOK(streams[t]) /\ streams[t].stage = "start"
    BY DEF Inv, StreamsOK, Begin
  <1>2. streams' = [streams EXCEPT ![t] = n] /\ service'.set = service.set
    BY DEF Begin
  <1> HIDE DEF x
  <1>3. StreamOK(n) /\ (CompleteOK(streams[t]) => CompleteOK(n))
    BY <1>1, StageKeeps
  <1> HIDE DEF n
  <1>4. QED
    BY <1>1, <1>2, <1>3, OneStreamChanges

LEMMA StopRunStreams ==
    ASSUME NEW t \in DOMAIN streams, Inv, StopRun(t) PROVE StreamsOK'
  <1> DEFINE n == [streams[t] EXCEPT !.stage = "closed"]
  <1>1. StreamsOK /\ StreamOK(streams[t])
    BY DEF Inv, StreamsOK
  <1>2. streams' = [streams EXCEPT ![t] = n] /\ service'.set = service.set
    BY DEF StopRun
  <1>3. StreamOK(n) /\ (CompleteOK(streams[t]) => CompleteOK(n))
    BY <1>1, StageKeeps
  <1> HIDE DEF n
  <1>4. QED
    BY <1>1, <1>2, <1>3, OneStreamChanges

LEMMA StopReadingStreams ==
    ASSUME NEW t \in DOMAIN streams, Inv, StopReading(t) PROVE StreamsOK'
  <1> DEFINE n == [EndedStream EXCEPT !.cancelled = streams[t].cancelled]
  <1>1. StreamsOK /\ StreamOK(n) /\ CompleteOK(n)
    BY NewStreamOK DEF Inv
  <1>2. streams' = [streams EXCEPT ![t] = n] /\ service'.set = service.set
    BY DEF StopReading
  <1> HIDE DEF n
  <1>3. QED
    BY <1>1, <1>2, OneStreamChanges

LEMMA ProbeStreams ==
    ASSUME NEW t \in DOMAIN streams, NEW d \in Drivers, Inv, Probe(t, d) PROVE StreamsOK'
  <1>1. /\ StreamsOK /\ StreamOK(streams[t]) /\ machine \in Hardware
        /\ streams[t].stage \in {"receive", "publish"} /\ d \in streams[t].waiting
        /\ service'.set = service.set
    BY DEF Inv, StreamsOK, WorldOK, Probe
  <1>2. PICK reports : /\ reports = Reports("app", d, machine) \/ reports = {}
                       /\ streams' = [streams EXCEPT ![t].waiting = @ \ {d}, ![t].done = Append(@, reports)]
    <2>1. PICK ok \in BOOLEAN :
             streams' = [streams EXCEPT ![t].waiting = @ \ {d},
                                        ![t].done = Append(@, IF ok THEN Reports("app", d, machine) ELSE {})]
      BY DEF Probe
    <2>2. CASE ok
      BY <2>1, <2>2
    <2>3. CASE ~ok
      BY <2>1, <2>3
    <2>4. QED
      BY <2>2, <2>3
  <1>3. PICK rest, done : rest = streams[t].waiting \ {d} /\ done = Append(streams[t].done, reports)
    OBVIOUS
  <1>4. PICK n : n = [streams[t] EXCEPT !.waiting = rest, !.done = done]
    OBVIOUS
  <1>5. streams' = [streams EXCEPT ![t] = n]
    <2>1. streams' = [streams EXCEPT ![t].waiting = rest, ![t].done = done]
      BY <1>2, <1>3, Zenon
    <2>2. IsSeq(streams) /\ StreamShape(streams[t])
      BY <1>1 DEF StreamsOK, StreamOK
    <2>3. QED
      BY <1>4, <2>1, <2>2, AnswerInStreams, Zenon
  <1>6. StreamOK(n) /\ (CompleteOK(streams[t]) => CompleteOK(n))
    <2>1. /\ StreamShape(n) /\ n.stage = streams[t].stage /\ n.waiting = streams[t].waiting \ {d}
          /\ n.done = Append(streams[t].done, reports) /\ n.taken = streams[t].taken
          /\ n.merged = streams[t].merged /\ n.out = streams[t].out
      <3>1. n = [stage |-> streams[t].stage, waiting |-> rest, done |-> done,
                 taken |-> streams[t].taken, merged |-> streams[t].merged, out |-> streams[t].out,
                 cancelled |-> streams[t].cancelled, reading |-> streams[t].reading]
        BY <1>1, <1>4, AnsweredOut, Zenon DEF StreamOK
      <3>2. QED
        BY <1>3, <3>1 DEF StreamShape
    <2>2. /\ reports \subseteq ReportsOf("app")
          /\ \A c, o \in reports : c.driver = d /\ (c.id = o.id => c = o)
      <3>1. "app" \in Processes
        BY DEF Processes
      <3>2. QED
        BY <1>1, <1>2, <3>1, ReportFacts
    <2>3. streams[t].stage # "start" /\ streams[t].stage # "closed"
      BY <1>1
    <2>4. StreamOK(streams[t]) /\ d \in streams[t].waiting
      BY <1>1
    <2>5. Answered(streams[t], n, d, reports)
      BY <2>1, <2>2, <2>3, <2>4, Zenon DEF Answered
    <2>6. QED
      BY <2>4, <2>5, ProbeKeeps
  <1>7. QED
    BY <1>1, <1>5, <1>6, OneStreamChanges

LEMMA ReceiveStreams ==
    ASSUME NEW t \in DOMAIN streams, Inv, Receive(t) PROVE StreamsOK'
  <1>1. /\ StreamsOK /\ StreamOK(streams[t]) /\ streams[t].stage = "receive"
        /\ streams[t].taken < Len(streams[t].done) /\ service'.set = service.set
    BY DEF Inv, StreamsOK, Receive
  <1>2. CASE latest # t
    <2> DEFINE n == [streams[t] EXCEPT !.stage = "closed"]
    <2>1. streams' = [streams EXCEPT ![t] = n]
      BY <1>2 DEF Receive
    <2>2. StreamOK(n) /\ (CompleteOK(streams[t]) => CompleteOK(n))
      BY <1>1, StageKeeps
    <2> HIDE DEF n
    <2>3. QED
      BY <1>1, <2>1, <2>2, OneStreamChanges
  <1>3. CASE latest = t
    <2>1. PICK k, m : k = streams[t].taken + 1 /\ m = Merge(streams[t].merged, streams[t].done[k])
      OBVIOUS
    <2>2. PICK n : n = [streams[t] EXCEPT !.stage = "publish", !.taken = k, !.merged = m]
      OBVIOUS
    <2>3. streams' = [streams EXCEPT ![t] = n]
      <3>1. n = [streams[t] EXCEPT !.stage = "publish", !.taken = streams[t].taken + 1,
                    !.merged = Merge(streams[t].merged, streams[t].done[streams[t].taken + 1])]
        BY <2>1, <2>2, Zenon
      <3>2. n = IF latest # t THEN [streams[t] EXCEPT !.stage = "closed"]
                ELSE [streams[t] EXCEPT !.stage = "publish", !.taken = streams[t].taken + 1,
                        !.merged = Merge(streams[t].merged, streams[t].done[streams[t].taken + 1])]
        BY <1>3, <3>1, Zenon
      <3>3. QED
        BY <3>2, Zenon DEF Receive
    <2>4. StreamOK(n) /\ (CompleteOK(streams[t]) => CompleteOK(n))
      <3>1. n = [stage |-> "publish", waiting |-> streams[t].waiting, done |-> streams[t].done,
                 taken |-> k, merged |-> m, out |-> streams[t].out,
                 cancelled |-> streams[t].cancelled, reading |-> streams[t].reading]
        BY <1>1, <2>2 DEF StreamOK, StreamShape
      <3>2. QED
        BY <1>1, <2>1, <3>1, ReceiveKeeps
    <2>5. QED
      BY <1>1, <2>3, <2>4, OneStreamChanges
  <1>4. QED
    BY <1>2, <1>3

LEMMA PublishStreams ==
    ASSUME NEW t \in DOMAIN streams, Inv, Publish(t) PROVE StreamsOK'
  <1>1. /\ StreamsOK /\ StreamOK(streams[t]) /\ streams[t].stage = "publish"
        /\ service'.set = service.set
    BY DEF Inv, StreamsOK, Publish
  <1>2. PICK item : item = [set |-> immutableSet(streams[t].merged),
                             complete |-> streams[t].taken = Cardinality(Drivers)]
    OBVIOUS
  <1>3. PICK stage : stage = IF streams[t].taken = Cardinality(Drivers) THEN "closed" ELSE "receive"
    OBVIOUS
  <1>4. PICK out : out = Append(streams[t].out, item)
    OBVIOUS
  <1>5. PICK n : n = [streams[t] EXCEPT !.out = out, !.stage = stage]
    OBVIOUS
  <1>6. streams' = [streams EXCEPT ![t].out = Append(@, item), ![t].stage = stage]
    BY <1>2, <1>3, Zenon DEF Publish
  <1>7. streams' = [streams EXCEPT ![t] = n]
    <2>1. streams' = [streams EXCEPT ![t].out = out, ![t].stage = stage]
      BY <1>4, <1>6, Zenon
    <2>2. IsSeq(streams) /\ StreamShape(streams[t])
      BY <1>1 DEF StreamsOK, StreamOK
    <2>3. QED
      BY <1>5, <2>1, <2>2, ItemInStreams, Zenon
  <1>8. StreamOK(n) /\ (CompleteOK(streams[t]) => CompleteOK(n))
    <2>1. n = [stage |-> stage, waiting |-> streams[t].waiting, done |-> streams[t].done,
               taken |-> streams[t].taken, merged |-> streams[t].merged, out |-> out,
               cancelled |-> streams[t].cancelled, reading |-> streams[t].reading]
      BY <1>1, <1>5 DEF StreamOK, StreamShape
    <2>2. /\ item.set = immutableSet(streams[t].merged)
          /\ item.complete <=> streams[t].taken = Cardinality(Drivers)
      BY <1>2
    <2>3. stage \in {"closed", "receive"} /\ (item.complete => stage = "closed")
      BY <1>3, <2>2
    <2>4. QED
      BY <1>1, <1>4, <2>1, <2>2, <2>3, PublishKeeps
  <1>9. QED
    BY <1>1, <1>7, <1>8, OneStreamChanges

LEMMA ReadStreams ==
    ASSUME NEW t \in DOMAIN streams, Inv, consumeDiscovery(t)
    PROVE  /\ StreamsOK'
           /\ \/ AppMade(Head(streams[t].out).set)
              \/ Head(streams[t].out).complete /\ HelperMade(Head(streams[t].out).set)
  <1>1. /\ StreamsOK /\ StreamOK(streams[t]) /\ streams[t].out # <<>>
        /\ service'.set = service.set
    BY DEF Inv, StreamsOK, consumeDiscovery
  <1>2. PICK rest : rest = Tail(streams[t].out)
    OBVIOUS
  <1> DEFINE n == [streams[t] EXCEPT !.out = rest]
  <1>3. streams' = [streams EXCEPT ![t] = n]
    BY <1>2 DEF consumeDiscovery
  <1>4. /\ StreamOK(n) /\ (CompleteOK(streams[t]) => CompleteOK(n))
        /\ \/ AppMade(Head(streams[t].out).set)
           \/ Head(streams[t].out).complete /\ HelperMade(Head(streams[t].out).set)
    BY <1>1, <1>2, ReadKeeps
  <1> HIDE DEF n
  <1>5. QED
    BY <1>1, <1>3, <1>4, OneStreamChanges

LEMMA ActivateStreams == ASSUME Inv, Activate PROVE StreamsOK'
  <1>1. StreamsOK /\ ServiceOK /\ service'.set = service.set
    BY DEF Inv, Activate
  <1>2. CASE service.set = None
    BY <1>1, <1>2, NewStreamOK, OneStreamIsAdded DEF Activate
  <1>3. CASE service.set # None
    <2>1. HelperMade(service.set)
      BY <1>1, <1>3 DEF ServiceOK
    <2>2. StreamOK(AnsweredStream(service.set)) /\ streams' = Append(streams, AnsweredStream(service.set))
      BY <1>3, <2>1, NewStreamOK DEF Activate
    <2>3. QED
      BY <1>1, <1>3, <2>2, OneStreamIsAdded
  <1>4. QED
    BY <1>2, <1>3

LEMMA DeactivateStreams == ASSUME Inv, Deactivate PROVE StreamsOK'
  <1>1. StreamsOK /\ service'.set = service.set
    BY DEF Inv, Deactivate
  <1>2. CASE Current \in DOMAIN streams
    <2> DEFINE n == [streams[Current] EXCEPT !.cancelled = streams[Current].reading]
    <2>1. streams' = [streams EXCEPT ![Current] = n]
      BY DEF Deactivate
    <2>2. StreamOK(streams[Current])
      BY <1>1, <1>2 DEF StreamsOK
    <2>3. StreamOK(n) /\ (CompleteOK(streams[Current]) => CompleteOK(n))
      BY <2>2, CancelKeeps
    <2> HIDE DEF n
    <2>4. QED
      BY <1>1, <1>2, <2>1, <2>3, OneStreamChanges
  <1>3. CASE Current \notin DOMAIN streams
    <2>1. streams' = streams
      BY <1>1, <1>3 DEF Deactivate, StreamsOK, IsSeq
    <2>2. QED
      BY <1>1, <2>1, StreamsUnchanged
  <1>4. QED
    BY <1>2, <1>3

-----------------------------------------------------------------------------
(* The review.                                                             *)

\* What a review that accepts says of the request.
LEMMA ReviewIs ==
    ASSUME NEW set, NEW request, ValidateChangeSet(set, request).ok
    PROVE  LET changes == request.changes
               reviewed == ValidateChangeSet(set, request).changes
           IN /\ \A i, j \in DOMAIN changes : changes[i].id = changes[j].id => i = j
              /\ \A i \in DOMAIN changes :
                    /\ changes[i].id \in DOMAIN set.caps
                    /\ Normalized(set.caps[changes[i].id], changes[i].requested) # None
              /\ reviewed = [i \in DOMAIN changes |->
                    [id |-> changes[i].id,
                     requested |-> Normalized(set.caps[changes[i].id], changes[i].requested)]]
              /\ PowerRelationship(set.caps, reviewed)
  <1> DEFINE changes == request.changes
             caps == set.caps
             value(i) == Normalized(caps[changes[i].id], changes[i].requested)
             known == /\ \A i, j \in DOMAIN changes : changes[i].id = changes[j].id => i = j
                      /\ \A i \in DOMAIN changes : changes[i].id \in DOMAIN caps /\ value(i) # None
             accepted ==
                 /\ request.generation = set.generation
                 /\ \A i, j \in DOMAIN changes : changes[i].id = changes[j].id => i = j
                 /\ \A i \in DOMAIN changes :
                       /\ changes[i].id \in DOMAIN caps
                       /\ value(i) # None
                       /\ changes[i].id \in RatioControls =>
                             RatioFits(caps[changes[i].id].current, value(i))
             normalized == [i \in DOMAIN changes |-> [id |-> changes[i].id, requested |-> value(i)]]
             differing == {changes[i].id : i \in {j \in DOMAIN changes : value(j) # changes[j].requested}}
  <1>1. ValidateChangeSet(set, request) =
           IF accepted /\ PowerRelationship(caps, normalized)
           THEN [ok |-> TRUE, changes |-> normalized, adjusted |-> differing]
           ELSE Refused
    BY Zenon DEF ValidateChangeSet
  <1>2. accepted => known
    OBVIOUS
  <1> HIDE DEF accepted, normalized, differing, known
  <1>3. accepted /\ PowerRelationship(caps, normalized)
    BY <1>1 DEF Refused
  <1>4. ValidateChangeSet(set, request).changes = normalized
    BY <1>1, <1>3
  <1>5. QED
    BY <1>2, <1>3, <1>4, Zenon DEF known, normalized

\* Nothing can be reviewed before anything has been discovered.
LEMMA EmptyIsRefused == ASSUME NEW S, NEW pending \in Seq(S) PROVE ~validatePending(EmptySet, pending)
  <1>1. SUFFICES ASSUME validatePending(EmptySet, pending) PROVE FALSE
    OBVIOUS
  <1> DEFINE request == [generation |-> EmptySet.generation, changes |-> pending]
  <1>2. pending # <<>> /\ ValidateChangeSet(EmptySet, request).ok
    BY <1>1 DEF validatePending
  <1>3. \A i \in DOMAIN request.changes : request.changes[i].id \in DOMAIN EmptySet.caps
    BY <1>2, ReviewIs, Zenon
  <1>4. request.changes = pending /\ 1 \in DOMAIN pending
    BY <1>2
  <1>5. DOMAIN EmptySet.caps = {}
    BY EmptySeq DEF EmptySet
  <1>6. QED
    BY <1>3, <1>4, <1>5

-----------------------------------------------------------------------------
(* The view model.                                                         *)

\* Nothing that a review depends on is different.
ViewStays(v, w) ==
    /\ ViewShape(w) /\ w.session = v.session /\ w.set = v.set /\ w.pending = v.pending
    /\ w.valid = v.valid /\ w.rows = v.rows
    /\ w.phase = "reviewing" => v.phase = "reviewing"

LEMMA ViewFields ==
    ASSUME NEW v, NEW w, NEW x, NEW y, ViewShape(v)
    PROVE  /\ w = [v EXCEPT !.active = x, !.phase = y] /\ y # "reviewing" => ViewStays(v, w)
           /\ w = [v EXCEPT !.active = x, !.phase = y] /\ y = v.phase => ViewStays(v, w)
           /\ w = [v EXCEPT !.dialog = x, !.confirmed = y] => ViewStays(v, w)
           /\ w = [v EXCEPT !.confirmed = x, !.phase = y] /\ y # "reviewing" => ViewStays(v, w)
           /\ w = [v EXCEPT !.confirmed = x] => ViewStays(v, w)
           /\ w = [v EXCEPT !.phase = y] /\ y # "reviewing" => ViewStays(v, w)
  <1>1. w = [v EXCEPT !.active = x, !.phase = y] /\ y # "reviewing" => ViewStays(v, w)
    BY DEF ViewShape, ViewStays
  <1>2. w = [v EXCEPT !.active = x, !.phase = y] /\ y = v.phase => ViewStays(v, w)
    BY DEF ViewShape, ViewStays
  <1>3. w = [v EXCEPT !.dialog = x, !.confirmed = y] => ViewStays(v, w)
    BY DEF ViewShape, ViewStays
  <1>4. w = [v EXCEPT !.confirmed = x, !.phase = y] /\ y # "reviewing" => ViewStays(v, w)
    BY DEF ViewShape, ViewStays
  <1>5. w = [v EXCEPT !.confirmed = x] => ViewStays(v, w)
    BY DEF ViewShape, ViewStays
  <1>6. w = [v EXCEPT !.phase = y] /\ y # "reviewing" => ViewStays(v, w)
    BY DEF ViewShape, ViewStays
  <1>7. QED
    BY <1>1, <1>2, <1>3, <1>4, <1>5, <1>6

LEMMA ViewUnchanged ==
    ASSUME VmOK, scope' = scope, ViewStays(vm, vm') \/ vm' = vm
    PROVE  VmOK'
  <1>1. CASE ViewStays(vm, vm')
    BY <1>1 DEF VmOK, ViewStays, ViewShape
  <1>2. CASE vm' = vm
    BY <1>2 DEF VmOK
  <1>3. QED
    BY <1>1, <1>2

LEMMA PageView ==
    ASSUME Inv, scope' = scope,
           Activate \/ Deactivate \/ Confirm \/ Apply
    PROVE  VmOK'
  <1>1. VmOK /\ ViewShape(vm)
    BY DEF Inv, VmOK, ViewShape
  <1>2. CASE Activate
    <2>1. PICK y : y = IF vm.session THEN vm.phase ELSE "discovering"
      OBVIOUS
    <2>2. vm' = [vm EXCEPT !.active = TRUE, !.phase = y]
      BY <1>2, <2>1 DEF Activate
    <2>3. y # "reviewing" \/ y = vm.phase
      BY <2>1
    <2>4. ViewStays(vm, vm')
      BY <1>1, <2>2, <2>3, ViewFields, Zenon
    <2>5. QED
      BY <1>1, <2>4, ViewUnchanged
  <1>3. CASE Deactivate
    <2>1. PICK y : y = IF vm.phase = "discovering" THEN "idle" ELSE vm.phase
      OBVIOUS
    <2>2. vm' = [vm EXCEPT !.active = FALSE, !.phase = y]
      BY <1>3, <2>1 DEF Deactivate
    <2>3. y # "reviewing" \/ y = vm.phase
      BY <2>1
    <2>4. ViewStays(vm, vm')
      BY <1>1, <2>2, <2>3, ViewFields, Zenon
    <2>5. QED
      BY <1>1, <2>4, ViewUnchanged
  <1>4. CASE Confirm
    <2>1. vm' = [vm EXCEPT !.dialog = FALSE, !.confirmed = TRUE]
      BY <1>4 DEF Confirm
    <2>2. ViewStays(vm, vm')
      BY <1>1, <2>1, ViewFields, Zenon
    <2>3. QED
      BY <1>1, <2>2, ViewUnchanged
  <1>5. CASE Apply
    <2>1. PICK y : y = IF service.stage = "none" THEN "authorizing" ELSE "failed"
      OBVIOUS
    <2>2. \/ vm' = [vm EXCEPT !.confirmed = FALSE, !.phase = y]
          \/ vm' = [vm EXCEPT !.confirmed = FALSE]
      BY <1>5, <2>1 DEF Apply
    <2>3. y # "reviewing"
      BY <2>1
    <2>4. ViewStays(vm, vm')
      BY <1>1, <2>2, <2>3, ViewFields, Zenon
    <2>5. QED
      BY <1>1, <2>4, ViewUnchanged
  <1>6. QED
    BY <1>2, <1>3, <1>4, <1>5

\* What a step sets of the page's state, and what it leaves.
SetByConsume(v, w, set, valid, phase) ==
    w = [v EXCEPT !.set = set, !.valid = valid, !.phase = phase]
SetByStage(v, w, pending, valid, rows, phase) ==
    w = [v EXCEPT !.pending = pending, !.valid = valid, !.rows = rows, !.phase = phase]
SetByReview(v, w, rows, phase) ==
    w = [v EXCEPT !.rows = rows, !.phase = phase, !.dialog = TRUE]
SetByCancel(v, w, x, rows, phase) ==
    w = [v EXCEPT !.dialog = x, !.rows = rows, !.phase = phase]
SetByChanged(v, w, set, rows, phase, valid) ==
    w = [v EXCEPT !.set = set, !.rows = rows, !.phase = phase, !.valid = valid]
SetByApplied(v, w, phase) ==
    w = [v EXCEPT !.phase = phase, !.session = TRUE]

LEMMA ConsumeSets ==
    ASSUME NEW v, NEW w, NEW set, NEW valid, NEW phase, ViewShape(v),
           SetByConsume(v, w, set, valid, phase)
    PROVE  /\ ViewShape(w) /\ w.session = v.session /\ w.set = set /\ w.pending = v.pending
           /\ w.valid = valid /\ w.rows = v.rows /\ w.phase = phase
  BY DEF ViewShape, SetByConsume

LEMMA StageSets ==
    ASSUME NEW v, NEW w, NEW pending, NEW valid, NEW rows, NEW phase, ViewShape(v),
           SetByStage(v, w, pending, valid, rows, phase)
    PROVE  /\ ViewShape(w) /\ w.session = v.session /\ w.set = v.set /\ w.pending = pending
           /\ w.valid = valid /\ w.rows = rows /\ w.phase = phase
  BY DEF ViewShape, SetByStage

LEMMA ReviewSets ==
    ASSUME NEW v, NEW w, NEW rows, NEW phase, ViewShape(v),
           SetByReview(v, w, rows, phase)
    PROVE  /\ ViewShape(w) /\ w.session = v.session /\ w.set = v.set /\ w.pending = v.pending
           /\ w.valid = v.valid /\ w.rows = rows /\ w.phase = phase
  BY DEF ViewShape, SetByReview

LEMMA CancelSets ==
    ASSUME NEW v, NEW w, NEW x, NEW rows, NEW phase, ViewShape(v),
           SetByCancel(v, w, x, rows, phase)
    PROVE  /\ ViewShape(w) /\ w.session = v.session /\ w.set = v.set /\ w.pending = v.pending
           /\ w.valid = v.valid /\ w.rows = rows /\ w.phase = phase
  BY DEF ViewShape, SetByCancel

LEMMA ChangedSets ==
    ASSUME NEW v, NEW w, NEW set, NEW rows, NEW phase, NEW valid, ViewShape(v),
           SetByChanged(v, w, set, rows, phase, valid)
    PROVE  /\ ViewShape(w) /\ w.session = v.session /\ w.set = set /\ w.pending = v.pending
           /\ w.valid = valid /\ w.rows = rows /\ w.phase = phase
  BY DEF ViewShape, SetByChanged

LEMMA AppliedSets ==
    ASSUME NEW v, NEW w, NEW phase, ViewShape(v),
           SetByApplied(v, w, phase)
    PROVE  /\ ViewShape(w) /\ w.session = TRUE /\ w.set = v.set /\ w.pending = v.pending
           /\ w.valid = v.valid /\ w.rows = v.rows /\ w.phase = phase
  BY DEF ViewShape, SetByApplied

LEMMA ConsumeView ==
    ASSUME NEW t \in DOMAIN streams, Inv, consumeDiscovery(t) PROVE VmOK'
  <1>1. VmOK /\ ViewShape(vm) /\ scope' = scope
    BY DEF Inv, VmOK, consumeDiscovery
  <1>2. PICK r : r = Head(streams[t].out)
    OBVIOUS
  <1>3. AppMade(r.set) \/ (r.complete /\ HelperMade(r.set))
    BY <1>2, ReadStreams
  <1>4. PICK valid, phase :
           /\ valid = IF vm.pending = <<>> THEN vm.valid ELSE validatePending(r.set, vm.pending)
           /\ phase = IF r.complete /\ ~vm.session
                      THEN IF vm.pending = <<>> THEN "idle" ELSE "staged"
                      ELSE vm.phase
    OBVIOUS
  <1>5. CASE vm' = vm
    BY <1>1, <1>5, ViewUnchanged
  <1>6. CASE vm' = [vm EXCEPT !.set = r.set, !.valid = valid, !.phase = phase]
    <2>1. /\ ViewShape(vm') /\ vm'.session = vm.session /\ vm'.set = r.set /\ vm'.pending = vm.pending
          /\ vm'.valid = valid /\ vm'.rows = vm.rows /\ vm'.phase = phase
      <3>1. SetByConsume(vm, vm', r.set, valid, phase)
        BY <1>6, Zenon DEF SetByConsume
      <3>2. QED
        BY <1>1, <3>1, ConsumeSets
    <2>2. valid => validatePending(r.set, vm.pending)
      <3>1. vm.valid => vm.pending # <<>>
        BY <1>1 DEF VmOK, validatePending
      <3>2. QED
        BY <1>4, <3>1, Zenon
    <2>3. vm'.phase = "reviewing" /\ ~vm'.session => AppMade(vm'.set)
      BY <1>3, <1>4, <2>1
    <2>4. vm'.pending \in Seq(scope'.requests)
      BY <1>1, <2>1 DEF VmOK
    <2>5. QED
      BY <1>3, <2>1, <2>2, <2>3, <2>4, Zenon DEF VmOK
  <1>7. QED
    BY <1>2, <1>4, <1>5, <1>6, Zenon DEF consumeDiscovery

LEMMA StageView ==
    ASSUME NEW change \in scope.requests, Inv, Stage(change) PROVE VmOK'
  <1>1. VmOK /\ ViewShape(vm) /\ scope' = scope /\ vm.pending \in Seq(scope.requests)
    BY DEF Inv, VmOK, Stage
  <1> DEFINE same == {i \in DOMAIN vm.pending : vm.pending[i].id = change.id}
  <1>2. PICK pending : pending = IF same = {} THEN Append(vm.pending, change)
                                 ELSE [i \in DOMAIN vm.pending |-> IF i \in same THEN change ELSE vm.pending[i]]
    OBVIOUS
  <1>3. pending \in Seq(scope.requests)
    <2> HIDE DEF same
    <2>1. Append(vm.pending, change) \in Seq(scope.requests)
      <3>1. \A S : \A s \in Seq(S), x \in S : Append(s, x) \in Seq(S)
        OBVIOUS
      <3>2. QED
        BY <1>1, <3>1, Zenon
    <2>2. [i \in DOMAIN vm.pending |-> IF i \in same THEN change ELSE vm.pending[i]] \in Seq(scope.requests)
      <3>1. DOMAIN vm.pending = 1..Len(vm.pending) /\ Len(vm.pending) \in Nat
            /\ \A i \in DOMAIN vm.pending : vm.pending[i] \in scope.requests
        BY <1>1
      <3>2. PICK f : f = [i \in DOMAIN vm.pending |-> IF i \in same THEN change ELSE vm.pending[i]]
        OBVIOUS
      <3>3. f \in [1..Len(vm.pending) -> scope.requests]
        BY <3>1, <3>2
      <3>4. f \in Seq(scope.requests)
        BY <3>1, <3>3
      <3>5. QED
        BY <3>2, <3>4
    <2>3. QED
      BY <1>2, <2>1, <2>2
  <1>4. vm' = [vm EXCEPT !.pending = pending, !.valid = validatePending(vm.set, pending),
                         !.rows = None, !.phase = "staged"]
    BY <1>2, Zenon DEF Stage
  <1>5. PICK valid, rows, phase : valid = validatePending(vm.set, pending) /\ rows = None /\ phase = "staged"
    OBVIOUS
  <1>6. /\ ViewShape(vm') /\ vm'.session = vm.session /\ vm'.set = vm.set /\ vm'.pending = pending
        /\ vm'.valid = valid /\ vm'.phase = "staged"
    <2>1. SetByStage(vm, vm', pending, valid, rows, phase)
      BY <1>4, <1>5, Zenon DEF SetByStage
    <2>2. QED
      BY <1>1, <1>5, <2>1, StageSets
  <1>7. vm'.phase # "reviewing"
    BY <1>6
  <1>8. QED
    BY <1>1, <1>3, <1>5, <1>6, <1>7, Zenon DEF VmOK

LEMMA ReviewView == ASSUME Inv, Review PROVE VmOK'
  <1>1. VmOK /\ ViewShape(vm) /\ scope' = scope
    BY DEF Inv, VmOK, Review
  <1>2. vm' = [vm EXCEPT !.rows = Rows(vm.set, vm.pending), !.phase = "reviewing", !.dialog = TRUE]
    BY Zenon DEF Review, Rows
  <1>3. PICK rows, phase : rows = Rows(vm.set, vm.pending) /\ phase = "reviewing"
    OBVIOUS
  <1>4. /\ ViewShape(vm') /\ vm'.session = vm.session /\ vm'.set = vm.set /\ vm'.pending = vm.pending
        /\ vm'.valid = vm.valid /\ vm'.rows = rows /\ vm'.phase = "reviewing"
    <2>1. SetByReview(vm, vm', rows, phase)
      BY <1>2, <1>3, Zenon DEF SetByReview
    <2>2. QED
      BY <1>1, <1>3, <2>1, ReviewSets
  <1>5. QED
    BY <1>1, <1>3, <1>4, Zenon DEF VmOK

LEMMA CancelView == ASSUME Inv, CancelReview PROVE VmOK'
  <1>1. VmOK /\ ViewShape(vm) /\ scope' = scope
    BY DEF Inv, VmOK, CancelReview
  <1>2. PICK rows, phase : /\ rows = IF vm.phase = "reviewing" THEN None ELSE vm.rows
                           /\ phase = IF vm.phase = "reviewing" THEN "staged" ELSE vm.phase
    OBVIOUS
  <1> PICK x : x = FALSE
    OBVIOUS
  <1>3. vm' = [vm EXCEPT !.dialog = x, !.rows = rows, !.phase = phase]
    BY <1>2 DEF CancelReview
  <1>4. /\ ViewShape(vm') /\ vm'.session = vm.session /\ vm'.set = vm.set /\ vm'.pending = vm.pending
        /\ vm'.valid = vm.valid /\ vm'.phase = phase
    <2>1. SetByCancel(vm, vm', x, rows, phase)
      BY <1>3, Zenon DEF SetByCancel
    <2>2. QED
      BY <1>1, <2>1, CancelSets
  <1>5. vm'.phase # "reviewing"
    BY <1>2, <1>4
  <1>6. QED
    BY <1>1, <1>4, <1>5, Zenon DEF VmOK

LEMMA AnswerView == ASSUME Inv, Answer PROVE VmOK'
  <1>1. VmOK /\ ViewShape(vm) /\ scope' = scope /\ ServiceOK
        /\ service.stage \in {"changed", "applied", "failed"}
    BY DEF Inv, VmOK, Answer
  <1>2. CASE service.stage = "changed"
    <2>1. HelperMade(service.set)
      BY <1>1, <1>2 DEF ServiceOK
    <2>2. vm' = [vm EXCEPT !.set = service.set, !.rows = None, !.phase = "staged",
                           !.valid = validatePending(service.set, vm.pending)]
      BY <1>2, Zenon DEF Answer
    <2>3. PICK valid, set, rows, phase : /\ valid = validatePending(service.set, vm.pending)
                                         /\ set = service.set /\ rows = None /\ phase = "staged"
      OBVIOUS
    <2>4. /\ ViewShape(vm') /\ vm'.session = vm.session /\ vm'.set = service.set
          /\ vm'.pending = vm.pending /\ vm'.valid = valid /\ vm'.phase = "staged"
      <3>1. SetByChanged(vm, vm', set, rows, phase, valid)
        BY <2>2, <2>3, Zenon DEF SetByChanged
      <3>2. QED
        BY <1>1, <2>3, <3>1, ChangedSets
    <2>5. vm'.phase # "reviewing"
      BY <2>4
    <2>6. QED
      BY <1>1, <2>1, <2>3, <2>4, <2>5, Zenon DEF VmOK
  <1>3. CASE service.stage = "applied"
    <2>1. service.stage # "changed"
      BY <1>3
    <2>2. vm' = [vm EXCEPT !.phase = "active", !.session = TRUE]
      BY <1>3, <2>1, Zenon DEF Answer
    <2>3. /\ ViewShape(vm') /\ vm'.session = TRUE /\ vm'.set = vm.set /\ vm'.pending = vm.pending
          /\ vm'.valid = vm.valid
      <3>1. PICK phase : phase = "active"
        OBVIOUS
      <3>2. SetByApplied(vm, vm', phase)
        BY <2>2, <3>1, Zenon DEF SetByApplied
      <3>3. QED
        BY <1>1, <3>1, <3>2, AppliedSets
    <2>4. QED
      BY <1>1, <2>3, Zenon DEF VmOK
  <1>4. CASE service.stage = "failed"
    <2>1. service.stage # "changed" /\ service.stage # "applied"
      BY <1>4
    <2>2. vm' = [vm EXCEPT !.phase = "failed"]
      BY <2>1, Zenon DEF Answer
    <2>3. PICK y : y = "failed" /\ y # "reviewing"
      OBVIOUS
    <2>4. ViewStays(vm, vm')
      BY <1>1, <2>2, <2>3, ViewFields, Zenon
    <2>5. QED
      BY <1>1, <2>4, ViewUnchanged
  <1>5. QED
    BY <1>1, <1>2, <1>3, <1>4

-----------------------------------------------------------------------------
(* The helper.                                                             *)

LEMMA IdleHelperOK == ASSUME helper' = IdleHelper PROVE HelperOK'
  <1>1. IdleHelper = [waiting |-> Drivers, merged |-> <<>>, fresh |-> TRUE]
    BY DEF IdleHelper
  <1>2. helper'.waiting = Drivers /\ helper'.merged = <<>> /\ helper'.fresh = TRUE /\ HelperShape(helper')
    BY <1>1 DEF HelperShape
  <1>3. DOMAIN helper'.merged = {} /\ From("helper", helper'.merged)
    BY <1>2, EmptySeq DEF From
  <1>4. QED
    BY <1>2, <1>3 DEF HelperOK

SetByRead(h, n, waiting, merged) == n = [h EXCEPT !.waiting = waiting, !.merged = merged]

LEMMA HelperReadSets ==
    ASSUME NEW h, NEW n, NEW waiting, NEW merged, HelperShape(h), SetByRead(h, n, waiting, merged)
    PROVE  HelperShape(n) /\ n.waiting = waiting /\ n.merged = merged /\ n.fresh = h.fresh
  BY DEF HelperShape, SetByRead

LEMMA HelperReadsOK ==
    ASSUME NEW d \in Drivers, Inv, HelperReads(d) PROVE HelperOK'
  <1>1. /\ HelperOK /\ HelperShape(helper) /\ machine \in Hardware
        /\ machine' = machine /\ d \in helper.waiting
    BY DEF Inv, HelperOK, WorldOK, HelperReads
  <1>2. PICK waiting, merged : /\ waiting = helper.waiting \ {d}
                               /\ merged = Merge(helper.merged, Reports("helper", d, machine))
    OBVIOUS
  <1>3. /\ HelperShape(helper') /\ helper'.waiting = waiting
        /\ helper'.merged = merged /\ helper'.fresh = helper.fresh
    <2>1. SetByRead(helper, helper', waiting, merged)
      BY <1>2, Zenon DEF HelperReads, SetByRead
    <2>2. QED
      BY <1>1, <2>1, HelperReadSets
  <1> DEFINE reports == Reports("helper", d, machine)
             M == Merge(helper.merged, reports)
  <1>4. /\ reports \subseteq ReportsOf("helper")
        /\ \A c, o \in reports : c.id = o.id => c = o
    <2>1. "helper" \in Processes
      BY DEF Processes
    <2>2. QED
      BY <1>1, <2>1, ReportFacts
  <1>5. From("helper", M)
    BY <1>1, <1>4, MergeIsFrom DEF HelperOK
  <1>6. /\ DOMAIN M = DOMAIN helper.merged \cup {c.id : c \in reports}
        /\ \A id \in DOMAIN M : \/ \E c \in reports : c.id = id /\ M[id] = c
                                \/ id \in DOMAIN helper.merged /\ M[id] = helper.merged[id]
    <2>1. /\ DOMAIN M = DOMAIN helper.merged \cup {c.id : c \in reports}
          /\ \A id \in DOMAIN M :
                \/ \E c \in reports : /\ c.id = id /\ M[id] = c
                                      /\ id \in DOMAIN helper.merged => Rank(c) < Rank(helper.merged[id])
                \/ /\ id \in DOMAIN helper.merged /\ M[id] = helper.merged[id]
                   /\ \A c \in reports : c.id = id => Rank(helper.merged[id]) <= Rank(c)
      BY <1>4, MergeIs
    <2> HIDE DEF M, reports
    <2>2. QED
      BY <2>1
  <1> HIDE DEF M
  <1>7. ASSUME NEW e \in Drivers \ waiting, NEW id \in Limits \cup Registers, Always(e, id)
        PROVE  id \in DOMAIN M
    <2>1. CASE e = d
      <3>1. \E c \in reports : c.id = id
        BY <1>1, <1>7, <2>1 DEF Always
      <3>2. QED
        BY <1>6, <3>1
    <2>2. CASE e # d
      <3>1. e \in Drivers \ helper.waiting
        BY <1>2, <1>7, <2>2
      <3>2. id \in DOMAIN helper.merged
        BY <1>1, <1>7, <3>1 DEF HelperOK
      <3>3. QED
        BY <1>6, <3>2
    <2>3. QED
      BY <2>1, <2>2
  <1>8. ASSUME helper.fresh, NEW id \in Limits, id \in DOMAIN M
        PROVE  M[id].current = Numeric(machine[id])
    <2>1. CASE \E c \in reports : c.id = id /\ M[id] = c
      BY <1>1, <1>8, <2>1, LimitsAssumption
    <2>2. CASE id \in DOMAIN helper.merged /\ M[id] = helper.merged[id]
      BY <1>1, <1>8, <2>2 DEF HelperOK
    <2>3. QED
      BY <1>6, <1>8, <2>1, <2>2
  <1>9. helper'.merged = M
    BY <1>2, <1>3 DEF M
  <1>10. helper'.waiting \subseteq Drivers
    BY <1>1, <1>2, <1>3 DEF HelperOK
  <1>11. \A e \in Drivers \ helper'.waiting, id \in Limits \cup Registers :
            Always(e, id) => id \in DOMAIN helper'.merged
    BY <1>3, <1>7, <1>9
  <1>12. helper'.fresh => \A id \in Limits \cap DOMAIN helper'.merged :
                             helper'.merged[id].current = Numeric(machine'[id])
    BY <1>1, <1>3, <1>8, <1>9
  <1>13. QED
    BY <1>3, <1>5, <1>9, <1>10, <1>11, <1>12 DEF HelperOK

LEMMA FirmwareSets ==
    ASSUME NEW h, NEW n, HelperShape(h), n = [h EXCEPT !.fresh = FALSE]
    PROVE  HelperShape(n) /\ n.waiting = h.waiting /\ n.merged = h.merged /\ n.fresh = FALSE
  BY DEF HelperShape

LEMMA FirmwareHelper == ASSUME NEW m, Inv, Firmware(m) PROVE HelperOK'
  <1>1. HelperOK /\ HelperShape(helper) /\ helper' = [helper EXCEPT !.fresh = FALSE]
    BY DEF Inv, HelperOK, Firmware
  <1>2. /\ HelperShape(helper') /\ helper'.waiting = helper.waiting /\ helper'.merged = helper.merged
        /\ helper'.fresh = FALSE
    BY <1>1, FirmwareSets, Zenon
  <1>3. QED
    BY <1>1, <1>2 DEF HelperOK

LEMMA HelperUnchanged ==
    ASSUME HelperOK, helper' = helper, machine' = machine PROVE HelperOK'
  BY DEF HelperOK

\* A helper that has heard of all drivers has made a set of its own, with both
\* limits.
LEMMA ProbedIsMade ==
    ASSUME HelperOK, Probed
    PROVE  HelperMade(HelperSet) /\ Limits \subseteq DOMAIN helper.merged
  <1>1. HelperSet = immutableSet(helper.merged) /\ HelperSet.caps = helper.merged
    BY DEF HelperSet, immutableSet
  <1>2. \A d \in Drivers, id \in Limits \cup Registers : Always(d, id) => id \in DOMAIN helper.merged
    BY DEF HelperOK, Probed
  <1>3. PICK d \in Drivers, id \in Registers : Always(d, id)
    BY ReviewAssumption
  <1>4. id \in DOMAIN helper.merged
    BY <1>2, <1>3
  <1>5. Limits \subseteq DOMAIN helper.merged
    BY <1>2, LimitsAssumption
  <1>6. QED
    BY <1>1, <1>4, <1>5 DEF HelperOK, HelperMade

-----------------------------------------------------------------------------
(* The service.                                                            *)

SetByCall(v, w, stage, sent, shown) == w = [v EXCEPT !.stage = stage, !.sent = sent, !.shown = shown]
SetByAnswer(v, w, set, stage) == w = [v EXCEPT !.set = set, !.stage = stage]
SetByEnd(v, w, stage) == w = [v EXCEPT !.stage = stage]

LEMMA CallSets ==
    ASSUME NEW v, NEW w, NEW stage, NEW sent, NEW shown, ServiceShape(v), SetByCall(v, w, stage, sent, shown)
    PROVE  ServiceShape(w) /\ w.set = v.set /\ w.stage = stage /\ w.sent = sent /\ w.shown = shown
  BY DEF ServiceShape, SetByCall

LEMMA AnswerSets ==
    ASSUME NEW v, NEW w, NEW set, NEW stage, ServiceShape(v), SetByAnswer(v, w, set, stage)
    PROVE  ServiceShape(w) /\ w.set = set /\ w.stage = stage /\ w.sent = v.sent /\ w.shown = v.shown
  BY DEF ServiceShape, SetByAnswer

LEMMA EndSets ==
    ASSUME NEW v, NEW w, NEW stage, ServiceShape(v), SetByEnd(v, w, stage)
    PROVE  ServiceShape(w) /\ w.set = v.set /\ w.stage = stage /\ w.sent = v.sent /\ w.shown = v.shown
  BY DEF ServiceShape, SetByEnd

LEMMA ServiceUnchanged == ASSUME ServiceOK, service' = service, scope' = scope PROVE ServiceOK'
  BY DEF ServiceOK, ShownOK

\* A set is nothing but what it was made of.
LEMMA MadeOfCaps ==
    ASSUME NEW set, set = immutableSet(set.caps)
    PROVE  set.generation = set.caps /\ immutableSet(set.generation) = set
  <1>1. PICK caps : caps = set.caps
    OBVIOUS
  <1>2. immutableSet(caps) = [generation |-> caps, caps |-> caps]
    BY DEF immutableSet, generationFor
  <1>3. set.generation = caps
    BY <1>1, <1>2
  <1>4. QED
    BY <1>1, <1>3

LEMMA ApplyService == ASSUME Inv, Apply PROVE ServiceOK' /\ service'.set = service.set
  <1>1. ServiceOK /\ ServiceShape(service) /\ VmOK /\ scope' = scope
    BY DEF Inv, ServiceOK, Apply
  <1>2. CASE service' = service
    BY <1>1, <1>2, ServiceUnchanged
  <1>3. CASE service' # service
    <2>1. vm.phase = "reviewing" /\ vm.valid /\ ~vm.session /\ service.stage = "none"
      BY <1>3 DEF Apply
    <2>2. PICK stage, sent, rows :
             /\ stage = IF service.set = None THEN "dial" ELSE "begin"
             /\ sent = [generation |-> vm.set.generation, changes |-> vm.pending]
             /\ rows = vm.rows
      OBVIOUS
    <2>3. SetByCall(service, service', stage, sent, rows)
      BY <1>1, <2>1, <2>2, Zenon DEF Apply, SetByCall
    <2>4. /\ ServiceShape(service') /\ service'.set = service.set /\ service'.stage = stage
          /\ service'.sent = sent /\ service'.shown = rows
      BY <1>1, <2>3, CallSets
    <2>5. AppMade(vm.set) \/ HelperMade(vm.set)
      <3>1. vm.set # EmptySet
        BY <1>1, <2>1, EmptyIsRefused DEF VmOK
      <3>2. QED
        BY <1>1, <3>1 DEF VmOK
    <2>6. vm.set.generation = vm.set.caps /\ immutableSet(vm.set.generation) = vm.set
      BY <2>5, MadeOfCaps DEF AppMade, HelperMade
    <2>7. From("app", sent.generation)
          \/ rows = ValidateChangeSet(immutableSet(sent.generation), sent).changes
      <3>1. sent.generation = vm.set.generation
        BY <2>2
      <3>2. CASE AppMade(vm.set)
        BY <2>6, <3>1, <3>2 DEF AppMade
      <3>3. CASE vm.rows = Rows(vm.set, vm.pending)
        BY <2>2, <2>6, <3>1, <3>3, Zenon DEF Rows
      <3>4. QED
        BY <1>1, <2>1, <3>2, <3>3 DEF VmOK
    <2>8. sent.changes \in Seq(scope'.requests)
      BY <1>1, <2>2 DEF VmOK
    <2>9. stage \in {"dial", "begin"}
      BY <2>2
    <2>10. /\ service'.stage # "changed"
           /\ service'.stage \in {"none", "dial", "begin", "changed", "applied", "failed"}
      BY <2>4, <2>9
    <2>11. service'.sent.changes \in Seq(scope'.requests) /\ ShownOK'
      BY <2>4, <2>7, <2>8, Zenon DEF ShownOK
    <2>12. service'.set = None \/ HelperMade(service'.set)
      BY <1>1, <2>4 DEF ServiceOK
    <2>13. QED
      BY <2>4, <2>10, <2>11, <2>12, Zenon DEF ServiceOK
  <1>4. QED
    BY <1>2, <1>3

LEMMA DialledService ==
    ASSUME Inv, Dialled PROVE ServiceOK' /\ service'.set # None
  <1>1. ServiceOK /\ ServiceShape(service) /\ HelperOK /\ Probed /\ scope' = scope /\ service.stage = "dial"
    BY DEF Inv, ServiceOK, Dialled
  <1>2. PICK set, stage : /\ set = HelperSet
                          /\ stage = IF HelperSet.generation = service.sent.generation
                                     THEN "begin" ELSE "changed"
    OBVIOUS
  <1>3. SetByAnswer(service, service', set, stage)
    BY <1>2, Zenon DEF Dialled, SetByAnswer
  <1>4. /\ ServiceShape(service') /\ service'.set = set /\ service'.stage = stage
        /\ service'.sent = service.sent /\ service'.shown = service.shown
    BY <1>1, <1>3, AnswerSets
  <1>5. HelperMade(set) /\ set # None
    BY <1>1, <1>2, ProbedIsMade, MadeIsSomething
  <1>6. stage \in {"begin", "changed"}
    BY <1>2
  <1>7. service.sent.changes \in Seq(scope'.requests) /\ ShownOK
    BY <1>1 DEF ServiceOK
  <1>8. ShownOK'
    BY <1>4, <1>7, Zenon DEF ShownOK
  <1>9. service'.stage \in {"none", "dial", "begin", "changed", "applied", "failed"}
    BY <1>4, <1>6
  <1>10. QED
    BY <1>4, <1>5, <1>7, <1>8, <1>9, Zenon DEF ServiceOK

LEMMA BegunService ==
    ASSUME Inv, BeginTransaction
    PROVE  ServiceOK' /\ (service'.set = service.set \/ service'.set # None)
  <1>1. ServiceOK /\ ServiceShape(service) /\ HelperOK /\ Probed /\ scope' = scope
    BY DEF Inv, ServiceOK, BeginTransaction
  <1>2. CASE service' = [service EXCEPT !.set = HelperSet, !.stage = "changed"]
    <2>1. PICK set, stage : set = HelperSet /\ stage = "changed"
      OBVIOUS
    <2>2. SetByAnswer(service, service', set, stage)
      BY <1>2, <2>1, Zenon DEF SetByAnswer
    <2>3. ServiceShape(service') /\ service'.set = set /\ service'.stage = stage
      BY <1>1, <2>2, AnswerSets
    <2>4. HelperMade(set) /\ set # None
      BY <1>1, <2>1, ProbedIsMade, MadeIsSomething
    <2>5. QED
      BY <2>1, <2>3, <2>4 DEF ServiceOK
  <1>3. CASE service' # [service EXCEPT !.set = HelperSet, !.stage = "changed"]
    <2> DEFINE review == ValidateChangeSet(HelperSet, service.sent)
    <2>1. PICK stage : stage = IF review.ok THEN "applied" ELSE "failed"
      OBVIOUS
    <2>2. SetByEnd(service, service', stage)
      BY <1>3, <2>1, Zenon DEF BeginTransaction, SetByEnd
    <2>3. ServiceShape(service') /\ service'.set = service.set /\ service'.stage = stage
      BY <1>1, <2>2, EndSets
    <2>4. stage \in {"applied", "failed"}
      BY <2>1
    <2>5. QED
      BY <1>1, <2>3, <2>4 DEF ServiceOK
  <1>4. QED
    BY <1>2, <1>3

LEMMA AnswerService == ASSUME Inv, Answer PROVE ServiceOK' /\ service'.set = service.set
  <1>1. ServiceOK /\ ServiceShape(service) /\ scope' = scope
    BY DEF Inv, ServiceOK, Answer
  <1>2. PICK stage, sent, shown : stage = "none" /\ sent = None /\ shown = None
    OBVIOUS
  <1>3. SetByCall(service, service', stage, sent, shown)
    BY <1>2, Zenon DEF Answer, SetByCall
  <1>4. ServiceShape(service') /\ service'.set = service.set /\ service'.stage = stage
    BY <1>1, <1>3, CallSets
  <1>5. QED
    BY <1>1, <1>2, <1>4 DEF ServiceOK

-----------------------------------------------------------------------------
(* What is written.                                                        *)

\* Only what has been made of a complete set can end the service's wait for
\* the helper's own set.
LEMMA StreamsStay ==
    ASSUME StreamsOK, streams' = streams, service'.set = service.set \/ service'.set # None
    PROVE  StreamsOK'
  BY DEF StreamsOK

\* The change i is the only one of the control, and a number.
OnlyNumber(changes, id, i) ==
    /\ DOMAIN changes \subseteq Int /\ i \in DOMAIN changes
    /\ changes[i].id = id /\ changes[i].requested.kind = "numeric"
    /\ \A j \in DOMAIN changes : changes[j].id = id => j = i

\* The control that is asked for once will hold what is asked for.
LEMMA AskedIsEffective ==
    ASSUME NEW id, NEW caps, NEW changes, NEW i, OnlyNumber(changes, id, i)
    PROVE  Effective(id, caps, changes) = changes[i].requested.of
  <1> DEFINE asked == {j \in DOMAIN changes : changes[j].id = id /\ changes[j].requested.kind = "numeric"}
  <1>1. i \in Int /\ asked = {i}
    BY DEF OnlyNumber
  <1> HIDE DEF asked
  <1>2. (CHOOSE k \in asked : \A j \in asked : k <= j) = i
    BY <1>1
  <1>3. asked # {}
    BY <1>1
  <1>4. Effective(id, caps, changes) = changes[CHOOSE k \in asked : \A j \in asked : k <= j].requested.of
    BY <1>3, Zenon DEF Effective, asked
  <1>5. QED
    BY <1>2, <1>4

\* The control that is not asked for keeps what it holds.
LEMMA UnaskedIsEffective ==
    ASSUME NEW id, NEW caps, NEW changes, NEW x, id \in DOMAIN caps, caps[id].current = Numeric(x),
           \A j \in DOMAIN changes : changes[j].id # id
    PROVE  Effective(id, caps, changes) = x
  <1>1. {j \in DOMAIN changes : changes[j].id = id /\ changes[j].requested.kind = "numeric"} = {}
    OBVIOUS
  <1>2. caps[id].current.kind = "numeric" /\ caps[id].current.of = x
    BY DEF Numeric
  <1>3. QED
    BY <1>1, <1>2, Zenon DEF Effective

\* A limit is only ever normalized to a number.
LEMMA LimitIsNumeric ==
    ASSUME NEW c, NEW v, c.unit = "W", c.choices = {}, Normalized(c, v) # None
    PROVE  Normalized(c, v).kind = "numeric"
  <1> DEFINE r == c.range
             onStep == r.min + Round(Clamp(r, v.of) - r.min, r.step) * r.step
  <1>1. PICK x : x = Clamp(r, onStep)
    OBVIOUS
  <1>2. c.unit # "ratio" /\ c.unit # "choice"
    OBVIOUS
  <1>3. Normalized(c, v) \in {None, Numeric(x)}
    BY <1>1, <1>2, Zenon DEF Normalized
  <1>4. QED
    BY <1>3 DEF Numeric

\* What the helper writes: one value for a control, what the control makes of
\* what is asked for, a level of the hardware.
LEMMA WrittenValues ==
    ASSUME Inv, service.stage = "begin", ValidateChangeSet(HelperSet, service.sent).ok
    PROVE  LET written == ValidateChangeSet(HelperSet, service.sent).changes
               caps == helper.merged
           IN /\ DOMAIN written \subseteq Int
              /\ \A i, j \in DOMAIN written : written[i].id = written[j].id => i = j
              /\ \A i \in DOMAIN written :
                    /\ written[i].id \in DOMAIN caps
                    /\ \E v : written[i].requested = Normalized(caps[written[i].id], v)
                    /\ written[i].requested # None
                    /\ written[i].requested.of \in Levels
              /\ PowerRelationship(caps, written)
  <1> DEFINE set == HelperSet
             written == ValidateChangeSet(set, service.sent).changes
             caps == helper.merged
             changes == service.sent.changes
             value(i) == Normalized(caps[changes[i].id], changes[i].requested)
  <1>1. set.caps = caps
    BY DEF HelperSet, immutableSet
  <1>2. /\ \A i, j \in DOMAIN changes : changes[i].id = changes[j].id => i = j
        /\ \A i \in DOMAIN changes : changes[i].id \in DOMAIN caps /\ value(i) # None
        /\ written = [i \in DOMAIN changes |-> [id |-> changes[i].id, requested |-> value(i)]]
        /\ PowerRelationship(caps, written)
    <2> HIDE DEF set
    <2>1. ValidateChangeSet(set, service.sent).ok
      BY DEF set
    <2> DEFINE asked(i) == Normalized(set.caps[changes[i].id], changes[i].requested)
    <2>2. /\ \A i, j \in DOMAIN changes : changes[i].id = changes[j].id => i = j
          /\ \A i \in DOMAIN changes : changes[i].id \in DOMAIN set.caps /\ asked(i) # None
          /\ written = [i \in DOMAIN changes |-> [id |-> changes[i].id, requested |-> asked(i)]]
          /\ PowerRelationship(set.caps, written)
      BY <2>1, ReviewIs, Zenon
    <2>3. QED
      BY <1>1, <2>2, Zenon
  <1>3. /\ changes \in Seq(scope.requests) /\ scope \in Scopes
        /\ \A id \in DOMAIN caps : caps[id] \in Capabilities /\ caps[id].id = id
    <2>1. "helper" \in Processes
      BY DEF Processes
    <2>2. changes \in Seq(scope.requests) /\ scope \in Scopes /\ From("helper", caps)
      BY DEF Inv, ServiceOK, WorldOK, HelperOK
    <2>3. QED
      BY <2>1, <2>2, ReportFacts DEF From
  <1>4. DOMAIN changes \subseteq Int /\ \A i \in DOMAIN changes : changes[i] \in scope.requests
    BY <1>3
  <1>5. ASSUME NEW i \in DOMAIN changes
        PROVE  value(i).of \in Levels
    <2>1. caps[changes[i].id] \in Capabilities /\ caps[changes[i].id].id = changes[i].id
      BY <1>2, <1>3
    <2>2. changes[i] \in scope.requests
      BY <1>4
    <2>3. \A r \in scope.requests, c \in Capabilities :
             r.id = c.id => Normalized(c, r.requested) = None \/ Normalized(c, r.requested).of \in Levels
      BY <1>3, ReviewAssumption, Zenon
    <2>4. QED
      BY <1>2, <2>1, <2>2, <2>3, Zenon
  <1> HIDE DEF written, value, caps, set
  <1>6. /\ DOMAIN written = DOMAIN changes
        /\ \A i \in DOMAIN written : written[i].id = changes[i].id /\ written[i].requested = value(i)
    BY <1>2
  <1>7. \A i \in DOMAIN written : \E v : written[i].requested = Normalized(caps[written[i].id], v)
    BY <1>6, Zenon DEF value
  <1>8. QED
    <2>1. /\ DOMAIN written \subseteq Int
          /\ \A i, j \in DOMAIN written : written[i].id = written[j].id => i = j
          /\ \A i \in DOMAIN written :
                /\ written[i].id \in DOMAIN caps
                /\ \E v : written[i].requested = Normalized(caps[written[i].id], v)
                /\ written[i].requested # None
                /\ written[i].requested.of \in Levels
          /\ PowerRelationship(caps, written)
      BY <1>2, <1>4, <1>5, <1>6, <1>7
    <2>2. QED
      BY <2>1, SMTT(30) DEF written, caps, set

\* A step that writes is one of a review that accepts, for the generation sent.
LEMMA BegunWrites ==
    ASSUME Inv, BeginTransaction, machine' # machine \/ outcome' # outcome
    PROVE  /\ service.stage = "begin" /\ Probed
           /\ HelperSet.generation = service.sent.generation
           /\ ValidateChangeSet(HelperSet, service.sent).ok
           /\ machine' = Written(ValidateChangeSet(HelperSet, service.sent).changes)
           /\ outcome' = [shown |-> service.shown,
                          written |-> ValidateChangeSet(HelperSet, service.sent).changes,
                          fresh |-> helper.fresh]
  <1>1. PICK review : review = ValidateChangeSet(HelperSet, service.sent)
    OBVIOUS
  <1>2. /\ service.stage = "begin" /\ Probed
        /\ \/ UNCHANGED <<machine, outcome>>
           \/ /\ HelperSet.generation = service.sent.generation
              /\ machine' = IF review.ok THEN Written(review.changes) ELSE machine
              /\ outcome' = IF review.ok
                            THEN [shown |-> service.shown, written |-> review.changes, fresh |-> helper.fresh]
                            ELSE outcome
    BY <1>1, Zenon DEF BeginTransaction
  <1>3. /\ HelperSet.generation = service.sent.generation /\ review.ok
        /\ machine' = Written(review.changes)
        /\ outcome' = [shown |-> service.shown, written |-> review.changes, fresh |-> helper.fresh]
    BY <1>2
  <1>4. QED
    BY <1>1, <1>2, <1>3

LEMMA BegunWorld == ASSUME Inv, BeginTransaction PROVE WorldOK'
  <1>1. WorldOK /\ scope' = scope
    BY DEF Inv, BeginTransaction
  <1>2. CASE machine' = machine
    BY <1>1, <1>2 DEF WorldOK
  <1>3. CASE machine' # machine
    <2> DEFINE written == ValidateChangeSet(HelperSet, service.sent).changes
    <2>1. /\ service.stage = "begin" /\ ValidateChangeSet(HelperSet, service.sent).ok
          /\ machine' = Written(written)
      BY <1>3, BegunWrites
    <2>2. \A i \in DOMAIN written : written[i].requested.of \in Levels
      BY <2>1, WrittenValues
    <2> HIDE DEF written
    <2>3. machine \in [Fields -> Levels]
      BY <1>1 DEF WorldOK, Hardware
    <2>4. ASSUME NEW id \in Fields, NEW i \in DOMAIN written, written[i].id = id
          PROVE  (CHOOSE j \in DOMAIN written : written[j].id = id) \in DOMAIN written
      BY <2>4
    <2>5. Written(written) \in [Fields -> Levels]
      BY <2>2, <2>3, <2>4 DEF Written
    <2>6. QED
      BY <1>1, <2>1, <2>5 DEF WorldOK, Hardware
  <1>4. QED
    BY <1>2, <1>3

\* A limit holds what the review expects of it.
LEMMA LimitIsWritten ==
    ASSUME Inv, NEW id \in Limits, helper.fresh, Probed, service.stage = "begin",
           ValidateChangeSet(HelperSet, service.sent).ok
    PROVE  LET written == ValidateChangeSet(HelperSet, service.sent).changes
           IN Effective(id, helper.merged, written) = Written(written)[id] /\ Written(written)[id] # None
  <1> DEFINE written == ValidateChangeSet(HelperSet, service.sent).changes
             caps == helper.merged
  <1>1. /\ DOMAIN written \subseteq Int
        /\ \A i, j \in DOMAIN written : written[i].id = written[j].id => i = j
        /\ \A i \in DOMAIN written :
              /\ written[i].id \in DOMAIN caps
              /\ \E v : written[i].requested = Normalized(caps[written[i].id], v)
              /\ written[i].requested # None
              /\ written[i].requested.of \in Levels
    BY WrittenValues
  <1>2. /\ id \in DOMAIN caps /\ caps[id].current = Numeric(machine[id])
        /\ machine \in [Fields -> Levels] /\ id \in Fields
    BY ProbedIsMade, LimitsAssumption DEF Inv, HelperOK, WorldOK, Hardware
  <1>3. caps[id].unit = "W" /\ caps[id].choices = {}
    <2>1. caps[id] \in ReportsOf("helper") /\ caps[id].id = id
      BY <1>2 DEF Inv, HelperOK, From
    <2>2. PICK d \in Drivers, m \in Hardware : caps[id] \in Reports("helper", d, m)
      BY <2>1 DEF ReportsOf
    <2>3. QED
      BY <2>1, <2>2, LimitsAssumption
  <1> HIDE DEF written, caps
  <1>4. CASE \E i \in DOMAIN written : written[i].id = id
    <2>1. PICK i \in DOMAIN written : written[i].id = id
      BY <1>4
    <2>2. PICK v : written[i].requested = Normalized(caps[id], v)
      BY <1>1, <2>1
    <2>3. written[i].requested.kind = "numeric"
      BY <1>1, <1>3, <2>1, <2>2, LimitIsNumeric
    <2>4. \A j \in DOMAIN written : written[j].id = id => j = i
      BY <1>1, <2>1
    <2>5. Effective(id, caps, written) = written[i].requested.of
      <3>1. OnlyNumber(written, id, i)
        BY <1>1, <2>1, <2>3, <2>4, Zenon DEF OnlyNumber
      <3>2. QED
        BY <3>1, AskedIsEffective
    <2>6. (CHOOSE j \in DOMAIN written : written[j].id = id) = i
      BY <2>1, <2>4
    <2>7. Written(written)[id] = written[i].requested.of
      BY <1>2, <2>1, <2>6 DEF Written
    <2>8. written[i].requested.of \in Levels
      BY <1>1
    <2>9. QED
      BY <2>5, <2>7, <2>8, LimitsAssumption DEF written, caps
  <1>5. CASE ~\E i \in DOMAIN written : written[i].id = id
    <2>1. Effective(id, caps, written) = machine[id]
      BY <1>2, <1>5, UnaskedIsEffective
    <2>2. Written(written)[id] = machine[id]
      BY <1>2, <1>5 DEF Written
    <2>3. machine[id] \in Levels
      BY <1>2
    <2>4. QED
      BY <2>1, <2>2, <2>3, LimitsAssumption DEF written, caps
  <1>6. QED
    BY <1>4, <1>5

LEMMA BegunOutcome == ASSUME Inv, BeginTransaction PROVE OutcomeOK'
  <1>1. CASE machine' = machine /\ outcome' = outcome
    BY <1>1 DEF Inv, OutcomeOK, WrittenAsShown, LimitsStayOrdered
  <1>2. CASE machine' # machine \/ outcome' # outcome
    <2> DEFINE written == ValidateChangeSet(HelperSet, service.sent).changes
               final == Written(written)
    <2>1. /\ service.stage = "begin" /\ Probed
          /\ HelperSet.generation = service.sent.generation
          /\ ValidateChangeSet(HelperSet, service.sent).ok
          /\ machine' = final
          /\ outcome' = [shown |-> service.shown, written |-> written, fresh |-> helper.fresh]
      BY <1>2, BegunWrites
    <2>2. ShownOK /\ HelperMade(HelperSet)
      BY <2>1, ProbedIsMade DEF Inv, ServiceOK
    <2>3. ~From("app", service.sent.generation) /\ immutableSet(service.sent.generation) = HelperSet
      <3>1. HelperSet = immutableSet(HelperSet.caps)
        BY <2>2 DEF HelperMade
      <3>2. HelperSet.generation = HelperSet.caps /\ immutableSet(HelperSet.generation) = HelperSet
        BY <3>1, MadeOfCaps
      <3>3. ~From("app", HelperSet.caps)
        BY <2>2, <3>1, OriginsDiffer DEF AppMade
      <3>4. QED
        BY <2>1, <3>2, <3>3
    <2>4. service.shown = written
      BY <2>2, <2>3, Zenon DEF ShownOK
    <2>5. helper.fresh => final.pl1 <= final.pl2
      <3>1. SUFFICES ASSUME helper.fresh PROVE final.pl1 <= final.pl2
        OBVIOUS
      <3>2. /\ Effective("pl1", helper.merged, written) = final["pl1"] /\ final["pl1"] # None
            /\ Effective("pl2", helper.merged, written) = final["pl2"] /\ final["pl2"] # None
        BY <2>1, <3>1, LimitIsWritten DEF Limits
      <3>3. PowerRelationship(helper.merged, written)
        BY <2>1, WrittenValues
      <3> HIDE DEF final, written
      <3>4. QED
        BY <3>2, <3>3 DEF PowerRelationship
    <2> HIDE DEF final, written
    <2>6. outcome'.shown = service.shown /\ outcome'.written = written /\ outcome'.fresh = helper.fresh
      BY <2>1
    <2>7. WrittenAsShown'
      BY <2>4, <2>6 DEF WrittenAsShown
    <2>8. LimitsStayOrdered'
      BY <2>1, <2>5, <2>6 DEF LimitsStayOrdered
    <2>9. QED
      BY <2>7, <2>8 DEF OutcomeOK
  <1>3. QED
    BY <1>1, <1>2

-----------------------------------------------------------------------------
(* The invariant is inductive.                                             *)

LEMMA WorldUnchanged == ASSUME WorldOK, machine' = machine, scope' = scope PROVE WorldOK'
  BY DEF WorldOK

LEMMA OutcomeUnchanged == ASSUME OutcomeOK, machine' = machine, outcome' = outcome PROVE OutcomeOK'
  BY DEF OutcomeOK, WrittenAsShown, LimitsStayOrdered

\* A step of a discovery, one of the page, and one of the service, each with
\* what it leaves alone.
LEMMA StreamsOnly ==
    ASSUME Inv, StreamsOK', UNCHANGED <<machine, vm, service, helper, outcome, scope>>
    PROVE  Inv'
  BY WorldUnchanged, OutcomeUnchanged, HelperUnchanged, ServiceUnchanged, ViewUnchanged DEF Inv

LEMMA PageOnly ==
    ASSUME Inv, StreamsOK', VmOK', UNCHANGED <<machine, service, helper, outcome, scope>>
    PROVE  Inv'
  BY WorldUnchanged, OutcomeUnchanged, HelperUnchanged, ServiceUnchanged DEF Inv

LEMMA ViewOnly ==
    ASSUME Inv, VmOK', UNCHANGED <<machine, streams, service, helper, outcome, scope>>
    PROVE  Inv'
  BY PageOnly, StreamsUnchanged DEF Inv

LEMMA ServiceStep ==
    ASSUME Inv, VmOK', ServiceOK', service'.set = service.set,
           UNCHANGED <<machine, streams, helper, outcome, scope>>
    PROVE  Inv'
  BY WorldUnchanged, OutcomeUnchanged, HelperUnchanged, StreamsUnchanged DEF Inv

LEMMA HelperStep ==
    ASSUME Inv, HelperOK', UNCHANGED <<machine, streams, vm, service, outcome, scope>>
    PROVE  Inv'
  BY WorldUnchanged, OutcomeUnchanged, StreamsUnchanged, ServiceUnchanged, ViewUnchanged DEF Inv

LEMMA InvInit == ASSUME Init PROVE Inv
  <1>1. WorldOK
    BY ReviewAssumption DEF Init, WorldOK
  <1>2. StreamsOK
    BY EmptySeq, Zenon DEF Init, StreamsOK
  <1>3. HelperOK
    <2>1. helper = [waiting |-> Drivers, merged |-> <<>>, fresh |-> TRUE]
      BY DEF Init, IdleHelper
    <2>2. helper.waiting = Drivers /\ helper.merged = <<>> /\ HelperShape(helper)
      BY <2>1 DEF HelperShape
    <2>3. DOMAIN helper.merged = {} /\ From("helper", helper.merged)
      BY <2>2, EmptySeq DEF From
    <2>4. QED
      BY <2>2, <2>3 DEF HelperOK
  <1>4. ServiceOK
    BY DEF Init, ServiceOK, ServiceShape
  <1>5. VmOK
    <2>1. PICK set : set = EmptySet
      OBVIOUS
    <2>2. vm = [active |-> FALSE, phase |-> "idle", session |-> FALSE, set |-> set,
                pending |-> <<>>, valid |-> FALSE, rows |-> None, dialog |-> FALSE, confirmed |-> FALSE]
      BY <2>1, Zenon DEF Init
    <2>3. /\ ViewShape(vm) /\ vm.set = set /\ vm.pending = <<>> /\ vm.valid = FALSE /\ vm.phase = "idle"
      BY <2>2 DEF ViewShape
    <2>4. QED
      BY <2>1, <2>3 DEF VmOK
  <1>6. OutcomeOK
    BY DEF Init, OutcomeOK, WrittenAsShown, LimitsStayOrdered
  <1>7. QED
    BY <1>1, <1>2, <1>3, <1>4, <1>5, <1>6 DEF Inv

\* One round of a run, of a driver's goroutine, or of the reader.
LEMMA DiscoveryStepKeeps == ASSUME NEW t \in DOMAIN streams, Inv, DiscoveryStep(t) PROVE Inv'
  <1>1. CASE Begin(t)
    <2>1. UNCHANGED <<machine, vm, service, helper, outcome, scope>>
      BY <1>1 DEF Begin
    <2>2. QED
      BY <1>1, <2>1, BeginStreams, StreamsOnly
  <1>2. CASE Receive(t)
    <2>1. UNCHANGED <<machine, vm, service, helper, outcome, scope>>
      BY <1>2 DEF Receive
    <2>2. QED
      BY <1>2, <2>1, ReceiveStreams, StreamsOnly
  <1>3. CASE Publish(t)
    <2>1. UNCHANGED <<machine, vm, service, helper, outcome, scope>>
      BY <1>3 DEF Publish
    <2>2. QED
      BY <1>3, <2>1, PublishStreams, StreamsOnly
  <1>4. CASE StopRun(t)
    <2>1. UNCHANGED <<machine, vm, service, helper, outcome, scope>>
      BY <1>4 DEF StopRun
    <2>2. QED
      BY <1>4, <2>1, StopRunStreams, StreamsOnly
  <1>5. CASE StopReading(t)
    <2>1. UNCHANGED <<machine, vm, service, helper, outcome, scope>>
      BY <1>5 DEF StopReading
    <2>2. QED
      BY <1>5, <2>1, StopReadingStreams, StreamsOnly
  <1>6. CASE consumeDiscovery(t)
    <2>1. UNCHANGED <<machine, service, helper, outcome, scope>>
      BY <1>6 DEF consumeDiscovery
    <2>2. StreamsOK' /\ VmOK'
      BY <1>6, ReadStreams, ConsumeView
    <2>3. QED
      BY <2>1, <2>2, PageOnly
  <1>7. CASE \E d \in Drivers : Probe(t, d)
    <2>1. PICK d \in Drivers : Probe(t, d)
      BY <1>7
    <2>2. UNCHANGED <<machine, vm, service, helper, outcome, scope>>
      BY <2>1 DEF Probe
    <2>3. QED
      BY <2>1, <2>2, ProbeStreams, StreamsOnly
  <1>8. QED
    BY <1>1, <1>2, <1>3, <1>4, <1>5, <1>6, <1>7 DEF DiscoveryStep

\* The user's steps on the page.
LEMMA PageKeeps ==
    ASSUME Inv, \/ Activate \/ Deactivate \/ Review \/ CancelReview \/ Confirm \/ Apply
                \/ \E change \in scope.requests : Stage(change)
    PROVE  Inv'
  <1>1. CASE Activate
    <2>1. UNCHANGED <<machine, service, helper, outcome, scope>>
      BY <1>1 DEF Activate
    <2>2. StreamsOK' /\ VmOK'
      BY <1>1, <2>1, ActivateStreams, PageView
    <2>3. QED
      BY <2>1, <2>2, PageOnly
  <1>2. CASE Deactivate
    <2>1. UNCHANGED <<machine, service, helper, outcome, scope>>
      BY <1>2 DEF Deactivate
    <2>2. StreamsOK' /\ VmOK'
      BY <1>2, <2>1, DeactivateStreams, PageView
    <2>3. QED
      BY <2>1, <2>2, PageOnly
  <1>3. CASE Review
    <2>1. UNCHANGED <<machine, streams, service, helper, outcome, scope>>
      BY <1>3 DEF Review
    <2>2. QED
      BY <1>3, <2>1, ReviewView, ViewOnly
  <1>4. CASE CancelReview
    <2>1. UNCHANGED <<machine, streams, service, helper, outcome, scope>>
      BY <1>4 DEF CancelReview
    <2>2. QED
      BY <1>4, <2>1, CancelView, ViewOnly
  <1>5. CASE Confirm
    <2>1. UNCHANGED <<machine, streams, service, helper, outcome, scope>>
      BY <1>5 DEF Confirm
    <2>2. VmOK'
      BY <1>5, <2>1, PageView
    <2>3. QED
      BY <2>1, <2>2, ViewOnly
  <1>6. CASE Apply
    <2>1. UNCHANGED <<machine, streams, helper, outcome, scope>>
      BY <1>6 DEF Apply
    <2>2. VmOK' /\ ServiceOK' /\ service'.set = service.set
      BY <1>6, <2>1, PageView, ApplyService
    <2>3. QED
      BY <2>1, <2>2, ServiceStep
  <1>7. CASE \E change \in scope.requests : Stage(change)
    <2>1. PICK change \in scope.requests : Stage(change)
      BY <1>7
    <2>2. UNCHANGED <<machine, streams, service, helper, outcome, scope>>
      BY <2>1, Zenon DEF Stage
    <2>3. QED
      BY <2>1, <2>2, StageView, ViewOnly
  <1>8. QED
    BY <1>1, <1>2, <1>3, <1>4, <1>5, <1>6, <1>7

\* The helper's steps, the answer, and the firmware.
LEMMA HelperKeeps ==
    ASSUME Inv, \/ \E d \in Drivers : HelperReads(d)
                \/ Dialled \/ BeginTransaction \/ Answer
                \/ \E m \in Machines : Firmware(m)
    PROVE  Inv'
  <1>1. CASE \E d \in Drivers : HelperReads(d)
    <2>1. PICK d \in Drivers : HelperReads(d)
      BY <1>1
    <2>2. UNCHANGED <<machine, streams, vm, service, outcome, scope>>
      BY <2>1 DEF HelperReads
    <2>3. QED
      BY <2>1, <2>2, HelperReadsOK, HelperStep
  <1>2. CASE Dialled
    <2>1. helper' = IdleHelper /\ UNCHANGED <<machine, streams, vm, outcome, scope>>
      BY <1>2 DEF Dialled
    <2>2. ServiceOK' /\ service'.set # None /\ HelperOK'
      BY <1>2, <2>1, DialledService, IdleHelperOK
    <2>3. StreamsOK'
      BY <2>1, <2>2, StreamsStay DEF Inv
    <2>4. QED
      BY <2>1, <2>2, <2>3, WorldUnchanged, OutcomeUnchanged, ViewUnchanged DEF Inv
  <1>3. CASE BeginTransaction
    <2>1. helper' = IdleHelper /\ UNCHANGED <<streams, vm, scope>>
      BY <1>3 DEF BeginTransaction
    <2>2. ServiceOK' /\ (service'.set = service.set \/ service'.set # None) /\ HelperOK'
      BY <1>3, <2>1, BegunService, IdleHelperOK
    <2>3. StreamsOK'
      BY <2>1, <2>2, StreamsStay DEF Inv
    <2>4. WorldOK' /\ OutcomeOK'
      BY <1>3, BegunWorld, BegunOutcome
    <2>5. QED
      BY <2>1, <2>2, <2>3, <2>4, ViewUnchanged DEF Inv
  <1>4. CASE Answer
    <2>1. UNCHANGED <<machine, streams, helper, outcome, scope>>
      BY <1>4 DEF Answer
    <2>2. QED
      BY <1>4, <2>1, AnswerView, AnswerService, ServiceStep
  <1>5. CASE \E m \in Machines : Firmware(m)
    <2>1. PICK m \in Machines : Firmware(m)
      BY <1>5
    <2>2. /\ outcome = None /\ machine' = m
          /\ UNCHANGED <<streams, vm, service, outcome, scope>>
      BY <2>1 DEF Firmware
    <2>3. WorldOK'
      BY <2>2, ReviewAssumption DEF Inv, WorldOK
    <2>4. OutcomeOK'
      BY <2>2 DEF OutcomeOK, WrittenAsShown, LimitsStayOrdered
    <2>5. HelperOK'
      BY <2>1, FirmwareHelper
    <2>6. QED
      BY <2>2, <2>3, <2>4, <2>5, StreamsUnchanged, ServiceUnchanged, ViewUnchanged DEF Inv
  <1>6. QED
    BY <1>1, <1>2, <1>3, <1>4, <1>5

LEMMA InvStep == ASSUME Inv, [Next]_vars PROVE Inv'
  <1>1. CASE \E t \in DOMAIN streams : DiscoveryStep(t)
    BY <1>1, DiscoveryStepKeeps
  <1>2. CASE \/ Activate \/ Deactivate \/ Review \/ CancelReview \/ Confirm \/ Apply
             \/ \E change \in scope.requests : Stage(change)
    BY <1>2, PageKeeps
  <1>3. CASE \/ \E d \in Drivers : HelperReads(d)
             \/ Dialled \/ BeginTransaction \/ Answer
             \/ \E m \in Machines : Firmware(m)
    BY <1>3, HelperKeeps
  <1>4. CASE UNCHANGED vars
    <2>1. UNCHANGED <<machine, streams, vm, service, helper, outcome, scope>>
      BY <1>4 DEF vars
    <2>2. QED
      BY <2>1, StreamsOnly, StreamsUnchanged DEF Inv
  <1>5. QED
    BY <1>1, <1>2, <1>3, <1>4 DEF Next

\* What is known of the discoveries, the page, the service and the helper in
\* every reachable state.
THEOREM InvAlways == Spec => []Inv
<1>1. Init => Inv
  BY InvInit
<1>2. Inv /\ [Next]_vars => Inv'
  BY InvStep
<1>3. QED
  BY <1>1, <1>2, PTL DEF Spec

-----------------------------------------------------------------------------
(* The properties.                                                         *)

\* What a run has merged is the reference, and so is every other best merge
\* of its answers.
LEMMA MadeOfTheBest ==
    ASSUME NEW s, StreamOK(s)
    PROVE  /\ s.merged = Best(Taken(s))
           /\ \A m : IsBest(m, Answers(s)) => m = Best(Answers(s))
  <1>1. RunOK(s) /\ DOMAIN s.done = 1..Len(s.done) /\ Len(s.done) \in Nat /\ "app" \in Processes
    BY DEF StreamOK, IsSeq, Processes
  <1>2. \A c \in Answers(s) : c.driver \in Drivers
    BY <1>1, ReportFacts DEF RunOK
  <1>3. Taken(s) \subseteq Answers(s)
    <2>1. 1..s.taken \subseteq DOMAIN s.done
      BY <1>1 DEF RunOK
    <2>2. QED
      BY <2>1 DEF Taken, Answers
  <1>4. OneRun(Taken(s)) /\ \A c \in Taken(s) : c.driver \in Drivers
    BY <1>1, <1>2, <1>3 DEF RunOK, OneRun
  <1>5. s.merged = Best(Taken(s))
    <2>1. IsBest(s.merged, Taken(s))
      BY <1>1 DEF RunOK
    <2>2. QED
      BY <1>4, <2>1, BestIsReference
  <1>6. ASSUME NEW m, IsBest(m, Answers(s)) PROVE m = Best(Answers(s))
    <2>1. OneRun(Answers(s))
      BY <1>1 DEF RunOK
    <2>2. QED
      BY <1>2, <1>6, <2>1, BestIsReference
  <1>7. QED
    BY <1>5, <1>6

\* Whatever the order in which the drivers' goroutines answer (discovery.go,
\* Discover), what a run has merged is the best of the answers taken so far,
\* and what it publishes as complete the best of all of them.
THEOREM MergeAlwaysOrderFree == Spec => []MergeIsOrderFree
<1>1. Inv => MergeIsOrderFree
  <2> SUFFICES ASSUME Inv, NEW t \in DOMAIN streams
               PROVE  /\ streams[t].merged = Best(UNION {streams[t].done[k] : k \in 1..streams[t].taken})
                      /\ \A k \in DOMAIN streams[t].out :
                            streams[t].out[k].complete /\ service.set = None =>
                               streams[t].out[k].set.caps =
                                  Best(UNION {streams[t].done[i] : i \in DOMAIN streams[t].done})
    BY DEF MergeIsOrderFree
  <2>1. StreamOK(streams[t]) /\ (service.set = None => CompleteOK(streams[t]))
    BY DEF Inv, StreamsOK
  <2>2. /\ streams[t].merged = Best(Taken(streams[t]))
        /\ \A m : IsBest(m, Answers(streams[t])) => m = Best(Answers(streams[t]))
    BY <2>1, MadeOfTheBest
  <2>3. ASSUME NEW k \in DOMAIN streams[t].out, streams[t].out[k].complete, service.set = None
        PROVE  streams[t].out[k].set.caps = Best(Answers(streams[t]))
    BY <2>1, <2>2, <2>3 DEF CompleteOK
  <2>4. QED
    BY <2>2, <2>3 DEF Taken, Answers
<1>2. QED
  BY <1>1, InvAlways, PTL

-----------------------------------------------------------------------------
(* The visit that is going on.                                             *)

\* What a run publishes before any helper answered is the best of its first
\* answers, of one at least.
Part(s, n) == UNION {s.done[k] : k \in 1..n}
IsPart(s, set) == \E n \in 1..Len(s.done) : set.caps = Best(Part(s, n))
PartOK(s) ==
    /\ s.stage = "publish" => s.taken \in 1..Len(s.done)
    /\ \A k \in DOMAIN s.out : IsPart(s, s.out[k].set)

VisitsOK == service.set = None => \A t \in DOMAIN streams : PartOK(streams[t])

\* The same answers have the same parts.
LEMMA SameParts ==
    ASSUME NEW s, NEW n, n.done = s.done
    PROVE  \A set : IsPart(s, set) => IsPart(n, set)
  <1>1. ASSUME NEW m PROVE Part(n, m) = Part(s, m)
    BY Zenon DEF Part
  <1>2. ASSUME NEW set, NEW m \in 1..Len(s.done), set.caps = Best(Part(s, m))
        PROVE  IsPart(n, set)
    <2>1. m \in 1..Len(n.done) /\ set.caps = Best(Part(n, m))
      BY <1>1, <1>2
    <2>2. QED
      BY <2>1, Zenon DEF IsPart
  <1>3. QED
    BY <1>2, Zenon DEF IsPart

\* A stream that only advances, or whose reader has taken some of it.
LEMMA PartStays ==
    ASSUME NEW s, NEW n, PartOK(s), n.done = s.done, n.taken = s.taken,
           n.stage = "publish" => s.stage = "publish",
           \A k \in DOMAIN n.out : \E i \in DOMAIN s.out : n.out[k] = s.out[i]
    PROVE  PartOK(n)
  <1>1. \A set : IsPart(s, set) => IsPart(n, set)
    BY SameParts, Zenon
  <1>2. n.stage = "publish" => n.taken \in 1..Len(n.done)
    BY Zenon DEF PartOK
  <1>3. ASSUME NEW k \in DOMAIN n.out PROVE IsPart(n, n.out[k].set)
    <2>1. PICK i \in DOMAIN s.out : n.out[k] = s.out[i]
      BY <1>3, Zenon
    <2>2. IsPart(s, s.out[i].set)
      BY <2>1, Zenon DEF PartOK
    <2>3. QED
      BY <1>1, <2>1, <2>2, Zenon
  <1>4. QED
    BY <1>2, <1>3, Zenon DEF PartOK

\* One more answer leaves the first ones what they were.
LEMMA PartAnswers ==
    ASSUME NEW s, NEW n, NEW x, PartOK(s), IsSeq(s.done), n.done = Append(s.done, x),
           n.taken = s.taken, n.stage = s.stage, n.out = s.out
    PROVE  PartOK(n)
  <1>1. /\ Len(s.done) \in Nat /\ Len(n.done) = Len(s.done) + 1
        /\ \A k \in 1..Len(s.done) : n.done[k] = s.done[k]
    BY AppendSeq DEF IsSeq
  <1>2. 1..Len(s.done) \subseteq 1..Len(n.done)
    BY <1>1
  <1>3. ASSUME NEW m \in 1..Len(s.done) PROVE Part(n, m) = Part(s, m)
    <2>1. \A k \in 1..m : k \in 1..Len(s.done)
      BY <1>1
    <2>2. \A k \in 1..m : n.done[k] = s.done[k]
      BY <1>1, <2>1, Zenon
    <2>3. {n.done[k] : k \in 1..m} = {s.done[k] : k \in 1..m}
      BY <2>2
    <2>4. QED
      BY <2>3, Zenon DEF Part
  <1>4. ASSUME NEW set, IsPart(s, set) PROVE IsPart(n, set)
    <2>1. PICK m \in 1..Len(s.done) : set.caps = Best(Part(s, m))
      BY <1>4 DEF IsPart
    <2>2. QED
      BY <1>2, <1>3, <2>1, Zenon DEF IsPart
  <1>5. QED
    BY <1>2, <1>4, Zenon DEF PartOK

\* What is published is what was merged.
LEMMA PartPublished ==
    ASSUME NEW s, NEW n, NEW item, PartOK(s), StreamOK(s), s.stage = "publish",
           n.done = s.done, n.stage # "publish", n.out = Append(s.out, item),
           item.set = immutableSet(s.merged)
    PROVE  PartOK(n)
  <1>1. IsPart(s, item.set)
    <2>1. item.set.caps = s.merged /\ s.merged = Best(Taken(s))
      BY MadeOfTheBest DEF immutableSet
    <2>2. QED
      BY <2>1 DEF IsPart, Part, PartOK, Taken
  <1>2. /\ DOMAIN n.out = DOMAIN s.out \cup {Len(s.out) + 1} /\ n.out[Len(s.out) + 1] = item
        /\ \A k \in DOMAIN s.out : n.out[k] = s.out[k]
    <2>1. IsSeq(s.out) /\ Len(s.out) \in Nat
      BY DEF StreamOK, IsSeq
    <2>2. 1..(Len(s.out) + 1) = (1..Len(s.out)) \cup {Len(s.out) + 1}
      BY <2>1
    <2>3. QED
      BY <2>1, <2>2, AppendSeq
  <1>3. \A set : IsPart(s, set) => IsPart(n, set)
    BY SameParts, Zenon
  <1>4. ASSUME NEW k \in DOMAIN n.out PROVE IsPart(n, n.out[k].set)
    <2>1. CASE k \in DOMAIN s.out
      <3>1. n.out[k].set = s.out[k].set /\ IsPart(s, s.out[k].set)
        BY <1>2, <2>1, Zenon DEF PartOK
      <3>2. QED
        BY <1>3, <3>1, Zenon
    <2>2. CASE k \notin DOMAIN s.out
      <3>1. n.out[k] = item
        BY <1>2, <1>4, <2>2
      <3>2. QED
        BY <1>1, <1>3, <3>1, Zenon
    <2>3. QED
      BY <2>1, <2>2, Zenon
  <1>5. QED
    BY <1>4, Zenon DEF PartOK

\* A change of one stream, and a new one.
LEMMA OneVisitChanges ==
    ASSUME NEW t \in DOMAIN streams, NEW n, StreamsOK, VisitsOK,
           streams' = [streams EXCEPT ![t] = n], service'.set = service.set,
           service.set = None /\ PartOK(streams[t]) => PartOK(n)
    PROVE  VisitsOK'
  <1>1. /\ DOMAIN streams' = DOMAIN streams /\ streams'[t] = n
        /\ \A u \in DOMAIN streams : u # t => streams'[u] = streams[u]
    BY SetSeq DEF StreamsOK
  <1>2. QED
    BY <1>1 DEF VisitsOK

LEMMA VisitsUnchanged ==
    ASSUME VisitsOK, streams' = streams, service'.set = service.set \/ service'.set # None
    PROVE  VisitsOK'
  BY DEF VisitsOK

LEMMA DiscoveryVisits ==
    ASSUME Inv, VisitsOK, NEW t \in DOMAIN streams, DiscoveryStep(t) PROVE VisitsOK'
  <1>1. StreamsOK /\ StreamOK(streams[t]) /\ StreamShape(streams[t]) /\ IsSeq(streams)
    BY DEF Inv, StreamsOK, StreamOK
  <1>2. PICK s : s = streams[t]
    OBVIOUS
  <1>3. ASSUME NEW stage, NEW n, n = [s EXCEPT !.stage = stage], stage \in {"closed", "receive"},
               PartOK(s)
        PROVE  PartOK(n)
    <2>1. n.done = s.done /\ n.taken = s.taken /\ n.out = s.out /\ n.stage = stage
      BY <1>1, <1>2, <1>3 DEF StreamShape
    <2>2. QED
      BY <1>3, <2>1, PartStays
  <1>4. CASE Begin(t)
    <2>1. PICK stage : stage = IF s.cancelled \/ latest # t THEN "closed" ELSE "receive"
      OBVIOUS
    <2>2. PICK n : n = [s EXCEPT !.stage = stage]
      OBVIOUS
    <2>3. streams' = [streams EXCEPT ![t] = n] /\ service' = service
      BY <1>2, <1>4, <2>1, <2>2, Zenon DEF Begin
    <2>4. PartOK(s) => PartOK(n)
      BY <1>3, <2>1, <2>2
    <2>5. QED
      BY <1>1, <1>2, <2>3, <2>4, OneVisitChanges
  <1>5. CASE StopRun(t)
    <2>1. PICK n : n = [s EXCEPT !.stage = "closed"]
      OBVIOUS
    <2>2. streams' = [streams EXCEPT ![t] = n] /\ service' = service
      BY <1>2, <1>5, <2>1, SetSeq, <1>1 DEF StopRun
    <2>3. PartOK(s) => PartOK(n)
      BY <1>3, <2>1
    <2>4. QED
      BY <1>1, <1>2, <2>2, <2>3, OneVisitChanges
  <1>6. CASE StopReading(t)
    <2>1. PICK n : n = [EndedStream EXCEPT !.cancelled = s.cancelled]
      OBVIOUS
    <2>2. streams' = [streams EXCEPT ![t] = n] /\ service' = service
      BY <1>2, <1>6, <2>1, Zenon DEF StopReading
    <2>3. n.stage = "closed" /\ n.out = <<>>
      BY <2>1, StreamsAre
    <2>4. PartOK(n)
      BY <2>3 DEF PartOK
    <2>5. QED
      BY <1>1, <2>2, <2>4, OneVisitChanges
  <1>7. CASE \E d \in Drivers : Probe(t, d)
    <2>1. PICK d \in Drivers : Probe(t, d)
      BY <1>7
    <2>2. PICK reports, done :
             /\ done = Append(s.done, reports)
             /\ streams' = [streams EXCEPT ![t].waiting = s.waiting \ {d}, ![t].done = done]
             /\ service' = service
      BY <1>2, <2>1, Zenon DEF Probe
    <2>3. PICK n : n = [s EXCEPT !.waiting = s.waiting \ {d}, !.done = done]
      OBVIOUS
    <2>4. streams' = [streams EXCEPT ![t] = n]
      BY <1>1, <1>2, <2>2, <2>3, AnswerInStreams, Zenon
    <2>5. n.done = done /\ n.taken = s.taken /\ n.stage = s.stage /\ n.out = s.out
      BY <1>1, <1>2, <2>3 DEF StreamShape
    <2>6. IsSeq(s.done)
      BY <1>1, <1>2 DEF StreamOK
    <2>7. PartOK(s) => PartOK(n)
      BY <2>2, <2>5, <2>6, PartAnswers
    <2>8. QED
      BY <1>1, <1>2, <2>2, <2>4, <2>7, OneVisitChanges
  <1>8. CASE Receive(t)
    <2>1. service' = service /\ s.taken < Len(s.done)
      BY <1>2, <1>8 DEF Receive
    <2>2. CASE latest # t
      <3>1. PICK n : n = [s EXCEPT !.stage = "closed"]
        OBVIOUS
      <3>2. streams' = [streams EXCEPT ![t] = n]
        BY <1>2, <1>8, <2>2, <3>1 DEF Receive
      <3>3. PartOK(s) => PartOK(n)
        BY <1>3, <3>1
      <3>4. QED
        BY <1>1, <1>2, <2>1, <3>2, <3>3, OneVisitChanges
    <2>3. CASE latest = t
      <3>1. PICK k, m : k = s.taken + 1 /\ m = Merge(s.merged, s.done[s.taken + 1])
        OBVIOUS
      <3>2. PICK n : n = [s EXCEPT !.stage = "publish", !.taken = k, !.merged = m]
        OBVIOUS
      <3>3. streams' = [streams EXCEPT ![t] = n]
        <4>1. n = [s EXCEPT !.stage = "publish", !.taken = s.taken + 1,
                            !.merged = Merge(s.merged, s.done[s.taken + 1])]
          BY <3>1, <3>2, Zenon
        <4>2. n = IF latest # t THEN [s EXCEPT !.stage = "closed"]
                  ELSE [s EXCEPT !.stage = "publish", !.taken = s.taken + 1,
                                 !.merged = Merge(s.merged, s.done[s.taken + 1])]
          BY <2>3, <4>1, Zenon
        <4>3. QED
          BY <1>2, <1>8, <4>2, Zenon DEF Receive
      <3>4. n.done = s.done /\ n.out = s.out /\ n.taken = k
        BY <1>1, <1>2, <3>2 DEF StreamShape
      <3>5. k \in 1..Len(n.done)
        BY <1>1, <1>2, <2>1, <3>1, <3>4 DEF StreamOK, RunOK, IsSeq
      <3>6. PartOK(s) => PartOK(n)
        <4>1. \A set : IsPart(s, set) => IsPart(n, set)
          BY <3>4, SameParts, Zenon
        <4>2. QED
          BY <3>4, <3>5, <4>1, Zenon DEF PartOK
      <3>7. QED
        BY <1>1, <1>2, <2>1, <3>3, <3>6, OneVisitChanges
    <2>4. QED
      BY <2>2, <2>3
  <1>9. CASE Publish(t)
    <2>1. s.stage = "publish" /\ service' = service
      BY <1>2, <1>9 DEF Publish
    <2>2. PICK item, stage :
             /\ item = [set |-> immutableSet(s.merged), complete |-> s.taken = Cardinality(Drivers)]
             /\ stage = IF s.taken = Cardinality(Drivers) THEN "closed" ELSE "receive"
      OBVIOUS
    <2>3. PICK out : out = Append(s.out, item)
      OBVIOUS
    <2>4. PICK n : n = [s EXCEPT !.out = out, !.stage = stage]
      OBVIOUS
    <2>5. streams' = [streams EXCEPT ![t] = n]
      <3>1. streams' = [streams EXCEPT ![t].out = out, ![t].stage = stage]
        BY <1>2, <1>9, <2>2, <2>3, Zenon DEF Publish
      <3>2. QED
        BY <1>1, <1>2, <2>4, <3>1, ItemInStreams, Zenon
    <2>6. n.done = s.done /\ n.out = out /\ n.stage = stage
      BY <1>1, <1>2, <2>4 DEF StreamShape
    <2>7. item.set = immutableSet(s.merged) /\ stage # "publish"
      BY <2>2
    <2>8. PartOK(s) => PartOK(n)
      BY <1>1, <1>2, <2>1, <2>3, <2>6, <2>7, PartPublished
    <2>9. QED
      BY <1>1, <1>2, <2>1, <2>5, <2>8, OneVisitChanges
  <1>10. CASE consumeDiscovery(t)
    <2>1. PICK rest : rest = Tail(s.out)
      OBVIOUS
    <2>2. PICK n : n = [s EXCEPT !.out = rest]
      OBVIOUS
    <2>3. streams' = [streams EXCEPT ![t] = n] /\ service' = service /\ s.out # <<>>
      BY <1>1, <1>2, <1>10, <2>1, <2>2 DEF consumeDiscovery
    <2>4. n.done = s.done /\ n.taken = s.taken /\ n.out = rest /\ n.stage = s.stage
      BY <1>1, <1>2, <2>2 DEF StreamShape
    <2>5. \A k \in DOMAIN rest : \E i \in DOMAIN s.out : rest[k] = s.out[i]
      BY <1>1, <1>2, <2>1, <2>3, TailSeq DEF StreamOK
    <2>6. PartOK(s) => PartOK(n)
      BY <2>4, <2>5, PartStays
    <2>7. QED
      BY <1>1, <1>2, <2>3, <2>6, OneVisitChanges
  <1>11. QED
    BY <1>4, <1>5, <1>6, <1>7, <1>8, <1>9, <1>10 DEF DiscoveryStep

LEMMA PageVisits ==
    ASSUME Inv, VisitsOK, Activate \/ Deactivate PROVE VisitsOK'
  <1>1. StreamsOK /\ service' = service
    BY DEF Inv, Activate, Deactivate
  <1>2. CASE Activate
    <2>1. CASE service.set = None
      <3>1. streams' = Append(streams, NewStream)
        BY <1>2, <2>1 DEF Activate
      <3>2. PartOK(NewStream)
        BY DEF PartOK, NewStream
      <3>3. \A u \in DOMAIN streams' : \/ u \in DOMAIN streams /\ streams'[u] = streams[u]
                                       \/ streams'[u] = NewStream
        <4>1. IsSeq(streams) /\ Len(streams) \in Nat
          BY <1>1 DEF StreamsOK, IsSeq
        <4>2. 1..(Len(streams) + 1) = (1..Len(streams)) \cup {Len(streams) + 1}
          BY <4>1
        <4>3. QED
          BY <3>1, <4>1, <4>2, AppendSeq
      <3>4. QED
        BY <1>1, <3>2, <3>3 DEF VisitsOK
    <2>2. CASE service.set # None
      BY <1>1, <2>2 DEF VisitsOK
    <2>3. QED
      BY <2>1, <2>2
  <1>3. CASE Deactivate
    <2>1. PICK n : n = [streams[Current] EXCEPT !.cancelled = streams[Current].reading]
      OBVIOUS
    <2>2. streams' = [streams EXCEPT ![Current] = n]
      BY <1>3, <2>1 DEF Deactivate
    <2>3. CASE Current \in DOMAIN streams
      <3>1. StreamShape(streams[Current])
        BY <1>1, <2>3 DEF StreamsOK, StreamOK
      <3>2. /\ n.done = streams[Current].done /\ n.taken = streams[Current].taken
            /\ n.out = streams[Current].out /\ n.stage = streams[Current].stage
        BY <2>1, <3>1 DEF StreamShape
      <3>3. PartOK(streams[Current]) => PartOK(n)
        BY <3>2, PartStays
      <3>4. QED
        BY <1>1, <2>2, <2>3, <3>3, OneVisitChanges
    <2>4. CASE Current \notin DOMAIN streams
      <3>1. streams' = streams
        BY <1>1, <2>2, <2>4 DEF StreamsOK, IsSeq
      <3>2. QED
        BY <1>1, <3>1, VisitsUnchanged
    <2>5. QED
      BY <2>3, <2>4
  <1>4. QED
    BY <1>2, <1>3

LEMMA VisitsStep == ASSUME Inv, VisitsOK, [Next]_vars PROVE VisitsOK'
  <1>1. CASE \E t \in DOMAIN streams : DiscoveryStep(t)
    BY <1>1, DiscoveryVisits
  <1>2. CASE Activate \/ Deactivate
    BY <1>2, PageVisits
  <1>3. CASE Review \/ CancelReview \/ Confirm \/ \E change \in scope.requests : Stage(change)
    <2>1. streams' = streams /\ service' = service
      BY <1>3 DEF Review, CancelReview, Confirm, Stage
    <2>2. QED
      BY <2>1, VisitsUnchanged
  <1>4. CASE (\E d \in Drivers : HelperReads(d)) \/ (\E m \in Machines : Firmware(m)) \/ UNCHANGED vars
    <2>1. streams' = streams /\ service' = service
      BY <1>4 DEF HelperReads, Firmware, vars
    <2>2. QED
      BY <2>1, VisitsUnchanged
  <1>5. CASE Apply
    <2>1. streams' = streams /\ service'.set = service.set
      BY <1>5, ApplyService DEF Apply
    <2>2. QED
      BY <2>1, VisitsUnchanged
  <1>6. CASE Dialled
    <2>1. streams' = streams
      BY <1>6 DEF Dialled
    <2>2. service'.set # None
      BY <1>6, DialledService
    <2>3. QED
      BY <2>1, <2>2, VisitsUnchanged
  <1>7. CASE BeginTransaction
    <2>1. streams' = streams
      BY <1>7 DEF BeginTransaction
    <2>2. service'.set = service.set \/ service'.set # None
      BY <1>7, BegunService
    <2>3. QED
      BY <2>1, <2>2, VisitsUnchanged
  <1>8. CASE Answer
    <2>1. streams' = streams
      BY <1>8 DEF Answer
    <2>2. service'.set = service.set
      BY <1>8, AnswerService
    <2>3. QED
      BY <2>1, <2>2, VisitsUnchanged
  <1>9. QED
    BY <1>1, <1>2, <1>3, <1>4, <1>5, <1>6, <1>7, <1>8 DEF Next

\* The page's set changes when it takes what the present visit has published,
\* or when the helper answers.
LEMMA SetIsOfVisit ==
    ASSUME Inv, VisitsOK, [Next]_vars, vm'.set # vm.set, service.set = None
    PROVE  /\ vm.active /\ streams # <<>>
           /\ LET done == streams[Current].done
              IN \E n \in 1..Len(done) : vm'.set.caps = Best(UNION {done[k] : k \in 1..n})
  <1>1. VmOK /\ ViewShape(vm) /\ StreamsOK /\ ServiceOK
    BY DEF Inv, VmOK
  <1>2. ASSUME NEW t \in DOMAIN streams, consumeDiscovery(t)
        PROVE  /\ vm.active /\ streams # <<>>
               /\ IsPart(streams[Current], vm'.set)
    <2>1. StreamOK(streams[t]) /\ PartOK(streams[t]) /\ streams[t].out # <<>>
      BY <1>1, <1>2 DEF StreamsOK, VisitsOK, consumeDiscovery
    <2>2. PICK r : r = Head(streams[t].out)
      OBVIOUS
    <2>3. PICK valid, phase :
             /\ valid = IF vm.pending = <<>> THEN vm.valid ELSE validatePending(r.set, vm.pending)
             /\ phase = IF r.complete /\ ~vm.session
                        THEN IF vm.pending = <<>> THEN "idle" ELSE "staged"
                        ELSE vm.phase
      OBVIOUS
    <2>4. /\ t = Current /\ vm.active
          /\ vm' = [vm EXCEPT !.set = r.set, !.valid = valid, !.phase = phase]
      BY <1>2, <2>2, <2>3, Zenon DEF consumeDiscovery
    <2>5. vm'.set = r.set
      BY <1>1, <2>4 DEF ViewShape
    <2>6. 1 \in DOMAIN streams[t].out /\ r = streams[t].out[1]
      BY <2>1, <2>2, TailSeq DEF StreamOK
    <2>7. IsPart(streams[t], r.set)
      BY <2>1, <2>6, Zenon DEF PartOK
    <2>8. streams # <<>>
      BY EmptySeq
    <2>9. QED
      BY <2>4, <2>5, <2>7, <2>8
  <1>3. ASSUME NEW t \in DOMAIN streams, DiscoveryStep(t), ~consumeDiscovery(t) PROVE FALSE
    <2>1. vm' = vm
      BY <1>3 DEF DiscoveryStep, Begin, Receive, Publish, StopRun, StopReading, Probe
    <2>2. QED
      BY <2>1
  <1>4. ASSUME Answer PROVE FALSE
    <2>1. service.stage # "changed"
      BY <1>1 DEF ServiceOK
    <2>2. vm'.set = vm.set
      BY <1>1, <1>4, <2>1 DEF Answer, ViewShape
    <2>3. QED
      BY <2>2
  <1>5. CASE \/ Activate \/ Deactivate \/ Review \/ CancelReview \/ Confirm \/ Apply
             \/ \E change \in scope.requests : Stage(change)
    <2>1. vm'.set = vm.set
      BY <1>1, <1>5 DEF ViewShape, Activate, Deactivate, Review, CancelReview, Confirm, Apply, Stage
    <2>2. QED
      BY <2>1
  <1>6. CASE \/ (\E d \in Drivers : HelperReads(d)) \/ (\E m \in Machines : Firmware(m)) \/ UNCHANGED vars
             \/ Dialled \/ BeginTransaction
    <2>1. vm' = vm
      BY <1>6 DEF HelperReads, Firmware, vars, Dialled, BeginTransaction
    <2>2. QED
      BY <2>1
  <1>7. QED
    BY <1>2, <1>3, <1>4, <1>5, <1>6 DEF Next, IsPart, Part

\* A run of an earlier visit (viewmodel/tune.go, consumeDiscovery) never replaces
\* what the visit that is going on has read.
THEOREM PageAlwaysShowsItsVisit == Spec => PageShowsItsVisit
<1>1. Init => VisitsOK
  BY EmptySeq DEF Init, VisitsOK
<1>2. Inv /\ VisitsOK /\ [Next]_vars => VisitsOK'
  BY VisitsStep
<1>3. Inv /\ VisitsOK /\ [Next]_vars =>
        (vm'.set # vm.set /\ service.set = None =>
          /\ vm.active /\ streams # <<>>
          /\ LET done == streams[Current].done
             IN \E n \in 1..Len(done) : vm'.set.caps = Best(UNION {done[k] : k \in 1..n}))
  BY SetIsOfVisit
<1>4. QED
  BY <1>1, <1>2, <1>3, InvAlways, PTL DEF Spec, PageShowsItsVisit

-----------------------------------------------------------------------------
(* What is written.                                                        *)

\* The helper probes and reviews for itself (cmd/helper, engine Apply), and
\* what it writes is what the page showed: with the generation that was sent,
\* its set is the one that was reviewed.
THEOREM WrittenAlwaysAsShown == Spec => []WrittenAsShown
<1>1. Inv => WrittenAsShown
  BY DEF Inv, OutcomeOK
<1>2. QED
  BY <1>1, InvAlways, PTL

\* After a review that only one of the two limits was part of, too, PL1 does not
\* exceed PL2 (validate.go, validatePowerRelationship), unless the firmware
\* interfered since the helper's probe began.
THEOREM LimitsAlwaysOrdered == Spec => []LimitsStayOrdered
<1>1. Inv => LimitsStayOrdered
  BY DEF Inv, OutcomeOK
<1>2. QED
  BY <1>1, InvAlways, PTL

=============================================================================
