--------------------------- MODULE MetricHistory ---------------------------
(***************************************************************************)
(* internal/telemetry/history: the ring that keeps the newest samples of a  *)
(* metric, and the reduction of a history to the extremes of each column of *)
(* a chart.  A sample is a record with the fields at (its time) and value.  *)
(***************************************************************************)
EXTENDS Integers, SequencesExt

\* An empty ring of the given capacity; blank stands for Go's zero sample.
NewRing(capacity, blank) ==
  [samples |-> [slot \in 0 .. capacity - 1 |-> blank], next |-> 0, size |-> 0]

Capacity(ring) == Cardinality(DOMAIN ring.samples)

Appended(ring, sample) ==
  [samples |-> [ring.samples EXCEPT ![ring.next] = sample],
   next |-> (ring.next + 1) % Capacity(ring),
   size |-> IF ring.size < Capacity(ring) THEN ring.size + 1 ELSE ring.size]

Oldest(ring) == (ring.next - ring.size + Capacity(ring)) % Capacity(ring)

Snapshot(ring) ==
  [i \in 1 .. ring.size |->
     ring.samples[(Oldest(ring) + i - 1) % Capacity(ring)]]

\* The positions of the lowest and the highest sample of one column, the first of
\* each if there are several.
Extremes(samples, first, last) ==
  LET Lowest == CHOOSE i \in first .. last :
        /\ \A j \in first .. last : samples[i].value <= samples[j].value
        /\ \A j \in first .. i - 1 : samples[i].value < samples[j].value
      Highest == CHOOSE i \in first .. last :
        /\ \A j \in first .. last : samples[i].value >= samples[j].value
        /\ \A j \in first .. i - 1 : samples[i].value > samples[j].value
  IN  {Lowest, Highest}

\* Faulty variant: rounded down, so that there are too many buckets.
BucketSize_RoundedDown(length, columns) == length \div columns

BucketSize(length, columns) == (length + columns - 1) \div columns

Buckets(length, size) == (length + size - 1) \div size

\* The positions DownsampleMinMax keeps, of each column in turn.
KeptPositions(samples, columns) ==
  LET size == BucketSize(Len(samples), columns)
      EndOf(b) == IF b * size > Len(samples) THEN Len(samples) ELSE b * size
  IN  UNION {Extremes(samples, (b - 1) * size + 1, EndOf(b)) :
               b \in 1 .. Buckets(Len(samples), size)}

\* A set of positions, in their order.
InOrder(positions) ==
  [k \in 1 .. Cardinality(positions) |->
     CHOOSE i \in positions : Cardinality({j \in positions : j < i}) = k - 1]

DownsampleMinMax(samples, columns) ==
  IF Len(samples) <= 2 * columns
  THEN samples
  ELSE LET kept == InOrder(KeptPositions(samples, columns))
       IN  [k \in DOMAIN kept |-> samples[kept[k]]]
=============================================================================
