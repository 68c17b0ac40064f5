-------------------------- MODULE HeapMonitorProofs --------------------------
(* Proofs about HeapMonitor for every limit, percentage and heap size. *)
EXTENDS HeapMonitor, TLAPS

(* Division drops less than one byte of the threshold.                     *)
LEMMA ThresholdExact ==
  ASSUME NoOverflow, NEW l \in Limit, NEW p \in 1..99
  PROVE  /\ Threshold(l, p) \in 0..(Word - 1)
         /\ Threshold(l, p) * 100 <= l * p
         /\ l * p < Threshold(l, p) * 100 + 100
<1> DEFINE product == l * p
<1>1. l \in Nat /\ p \in Nat /\ Word \in Nat \ {0} /\ p <= 99
  BY WordAssumption
<1>2. product \in Nat
  BY <1>1
<1>3. product <= l * 99
  BY <1>1
<1>4. product < Word
  BY <1>1, <1>2, <1>3 DEF NoOverflow
<1> HIDE DEF product
<1>5. product % Word = product
  BY <1>1, <1>2, <1>4
<1>6. Threshold(l, p) = product \div 100
  BY <1>5 DEF Threshold, product
<1> QED
  BY <1>1, <1>2, <1>4, <1>6 DEF product

(* The tier is the number of the highest threshold that is reached.        *)
LEMMA TierOfRange ==
  ASSUME NEW b \in Nat, thresholds \in [1..3 -> Nat]
  PROVE  /\ TierOf(b) \in 0..3
         /\ TierOf(b) = 3 => b >= thresholds[3]
         /\ TierOf(b) = 2 => b >= thresholds[2] /\ b < thresholds[3]
         /\ TierOf(b) = 1 => b >= thresholds[1] /\ b < thresholds[2] /\ b < thresholds[3]
         /\ TierOf(b) = 0 => b < thresholds[1] /\ b < thresholds[2] /\ b < thresholds[3]
BY DEF TierOf

LEMMA ThresholdInNat ==
  ASSUME NEW l \in Nat, NEW p \in Int
  PROVE  Threshold(l, p) \in Nat
<1> DEFINE product == l * p
<1>1. product \in Int /\ Word \in Nat \ {0}
  BY WordAssumption
<1> HIDE DEF product
<1>2. product % Word \in Nat
  BY <1>1
<1> QED
  BY <1>2 DEF Threshold, product

(* What NewHeapMonitor computed never changes, and the tier is that of the *)
(* metrics that were read with it.                                         *)
Consistent ==
  /\ \/ limit \in Limit /\ pct \in Percentages
     \/ limit = 0 /\ pct = [i \in 1..3 |-> 0]
  /\ thresholds = [i \in 1..3 |-> Threshold(limit, pct[i])]
  /\ inuse \in Nat
  /\ IF known = TRUE THEN tier = TierOf(inuse) ELSE tier = 0

LEMMA ConsistentInit == MonitorInit => Consistent
<1> SUFFICES ASSUME MonitorInit PROVE Consistent
  OBVIOUS
<1>1. Threshold(0, 0) = 0
  <2>1. 0 * 0 = 0 /\ 0 % Word = 0
    BY WordAssumption
  <2> QED
    BY <2>1 DEF Threshold
<1> QED
  BY <1>1 DEF MonitorInit, Consistent

LEMMA ConsistentStep == Consistent /\ [MonitorNext]_hvars => Consistent'
<1> SUFFICES ASSUME Consistent, [MonitorNext]_hvars PROVE Consistent'
  OBVIOUS
<1>1. CASE Read
  <2>1. PICK objects, unused \in Bytes : inuse' = (objects + unused) % Word
    BY <1>1 DEF Read
  <2>2. objects + unused \in Nat /\ Word \in Nat \ {0}
    BY WordAssumption
  <2>3. inuse' \in Nat
    BY <2>1, <2>2
  <2>4. TierOf(inuse') = TierOf(inuse)'
    BY <1>1 DEF Read, TierOf
  <2> QED
    BY <1>1, <2>3, <2>4 DEF Read, Consistent
<1>2. CASE ReadBad
  BY <1>2 DEF ReadBad, Consistent
<1>3. CASE UNCHANGED hvars
  BY <1>3 DEF hvars, Consistent, TierOf
<1>4. ASSUME NEW l \in Limit, NEW p \in Percentages, NewHeapMonitor(l, p)
      PROVE  Consistent'
  BY <1>4 DEF NewHeapMonitor, Consistent
<1> QED
  BY <1>1, <1>2, <1>3, <1>4 DEF MonitorNext

(* The thresholds and the tier agree in every state Read leaves behind.    *)
LEMMA AlwaysConsistent == MonitorSpec => []Consistent
BY ConsistentInit, ConsistentStep, PTL DEF MonitorSpec

(* The percentages of a state, and the limit, are as the lemmas need them. *)
LEMMA ThresholdsOfState ==
  ASSUME Consistent
  PROVE  /\ limit \in Nat
         /\ pct \in [1..3 -> Int]
         /\ \A i \in 1..3 : pct[i] < 100
         /\ \A i, j \in 1..3 : pct[i] > 0 /\ i < j => pct[i] < pct[j]
         /\ thresholds \in [1..3 -> Nat]
<1>1. /\ limit \in Nat /\ pct \in [1..3 -> Int]
      /\ \A i \in 1..3 : pct[i] < 100
      /\ \A i, j \in 1..3 : pct[i] > 0 /\ i < j => pct[i] < pct[j]
  <2>1. CASE limit \in Limit /\ pct \in Percentages
    <3>1. limit \in Nat
      BY <2>1, WordAssumption
    <3>2. pct \in [1..3 -> Int] /\ pct[1] < pct[2] /\ pct[2] < pct[3] /\ pct[3] < 100
      BY <2>1 DEF Percentages
    <3> QED
      BY <3>1, <3>2
  <2>2. CASE limit = 0 /\ pct = [i \in 1..3 |-> 0]
    BY <2>2
  <2> QED
    BY <2>1, <2>2 DEF Consistent
<1>2. ASSUME NEW i \in 1..3 PROVE Threshold(limit, pct[i]) \in Nat
  <2>1. pct[i] \in Int
    BY <1>1
  <2> QED
    BY <1>1, <2>1, ThresholdInNat
<1>3. thresholds = [i \in 1..3 |-> Threshold(limit, pct[i])]
  BY DEF Consistent
<1> QED
  BY <1>1, <1>2, <1>3

LEMMA ThresholdOfPositive ==
  ASSUME Consistent, NoOverflow, NEW i \in 1..3, pct[i] > 0
  PROVE  /\ pct[i] \in Nat /\ limit * pct[i] \in Nat
         /\ thresholds[i] * 100 <= limit * pct[i]
         /\ limit * pct[i] < thresholds[i] * 100 + 100
<1>1. pct[i] \in 1..99 /\ limit \in Nat
  BY ThresholdsOfState
<1>2. limit \in Limit
  BY DEF Consistent
<1>3. thresholds[i] = Threshold(limit, pct[i])
  BY DEF Consistent
<1>4. /\ Threshold(limit, pct[i]) * 100 <= limit * pct[i]
      /\ limit * pct[i] < Threshold(limit, pct[i]) * 100 + 100
  BY <1>1, <1>2, ThresholdExact
<1>5. limit * pct[i] \in Nat
  BY <1>1
<1> QED
  BY <1>1, <1>3, <1>4, <1>5

(* A larger percentage has a threshold at least as large.                  *)
LEMMA ThresholdsOrdered ==
  ASSUME Consistent, NoOverflow, NEW i \in 1..3, NEW j \in 1..3, i < j, pct[i] > 0
  PROVE  thresholds[i] <= thresholds[j]
<1> DEFINE low == limit * pct[i]
           high == limit * pct[j]
<1>1. /\ limit \in Nat /\ pct[i] \in Nat /\ pct[j] \in Int /\ pct[i] < pct[j]
      /\ thresholds[i] \in Nat /\ thresholds[j] \in Nat
  <2>1. /\ limit \in Nat /\ pct \in [1..3 -> Int] /\ thresholds \in [1..3 -> Nat]
        /\ pct[i] < pct[j]
    BY ThresholdsOfState
  <2> QED
    BY <2>1
<1>2. low <= high /\ low \in Nat /\ high \in Nat
  BY <1>1
<1>3. thresholds[i] * 100 <= low
  BY ThresholdOfPositive
<1>4. high < thresholds[j] * 100 + 100
  BY <1>1, ThresholdOfPositive
<1> HIDE DEF low, high
<1> QED
  BY <1>1, <1>2, <1>3, <1>4

(* HeapMonitor.Read never misses a tier: a heap at or above a percentage   *)
(* of the limit is reported at that tier at least.                         *)
THEOREM TiersNeverLate ==
  ASSUME NoOverflow
  PROVE  MonitorSpec => []NeverLate
<1>1. Consistent => NeverLate
  <2> SUFFICES ASSUME Consistent, known = TRUE, NEW i \in 1..3,
                      pct[i] > 0, inuse * 100 >= limit * pct[i]
               PROVE  tier >= i
    BY DEF NeverLate
  <2> DEFINE part == limit * pct[i]
  <2>1. /\ thresholds \in [1..3 -> Nat] /\ inuse \in Nat
        /\ thresholds[i] * 100 <= part /\ part \in Nat
    BY ThresholdsOfState, ThresholdOfPositive DEF Consistent
  <2>2. inuse * 100 >= part
    OBVIOUS
  <2>3. inuse >= thresholds[i]
    <3> HIDE DEF part
    <3> QED
      BY <2>1, <2>2
  <2>4. tier = TierOf(inuse)
    BY DEF Consistent
  <2>5. /\ tier \in 0..3
        /\ tier = 2 => inuse < thresholds[3]
        /\ tier = 1 => inuse < thresholds[2] /\ inuse < thresholds[3]
        /\ tier = 0 => inuse < thresholds[1] /\ inuse < thresholds[2] /\ inuse < thresholds[3]
    BY <2>1, <2>4, TierOfRange
  <2> QED
    BY <2>1, <2>3, <2>5
<1> QED
  BY <1>1, AlwaysConsistent, PTL

(* Nor does it report one before the heap is within a byte of it.          *)
THEOREM TiersNeverEarly ==
  ASSUME NoOverflow
  PROVE  MonitorSpec => []NeverEarly
<1>1. Consistent => NeverEarly
  <2> SUFFICES ASSUME Consistent, NEW i \in 1..3, tier >= i
               PROVE  (inuse + 1) * 100 > limit * pct[i]
    BY DEF NeverEarly
  <2> DEFINE part == limit * pct[i]
  <2>1. /\ thresholds \in [1..3 -> Nat] /\ inuse \in Nat /\ limit \in Nat
        /\ pct \in [1..3 -> Int]
    BY ThresholdsOfState DEF Consistent
  <2>2. CASE pct[i] <= 0
    <3>1. part <= 0 /\ part \in Int
      BY <2>1, <2>2
    <3> HIDE DEF part
    <3>2. (inuse + 1) * 100 > part
      BY <2>1, <3>1
    <3> QED
      BY <3>2 DEF part
  <2>3. CASE pct[i] > 0
    <3>1. tier = TierOf(inuse)
      BY DEF Consistent
    <3>2. /\ tier \in 0..3
          /\ tier = 3 => inuse >= thresholds[3]
          /\ tier = 2 => inuse >= thresholds[2]
          /\ tier = 1 => inuse >= thresholds[1]
      BY <2>1, <3>1, TierOfRange
    <3>3. \A j \in 1..3 : i < j => thresholds[i] <= thresholds[j]
      BY <2>3, ThresholdsOrdered
    <3>4. inuse >= thresholds[i]
      BY <2>1, <3>2, <3>3
    <3>5. part < thresholds[i] * 100 + 100 /\ part \in Nat
      BY <2>3, ThresholdOfPositive
    <3> HIDE DEF part
    <3>6. (inuse + 1) * 100 > part
      BY <2>1, <3>4, <3>5
    <3> QED
      BY <3>6 DEF part
  <2> QED
    BY <2>1, <2>2, <2>3
<1> QED
  BY <1>1, AlwaysConsistent, PTL
=============================================================================
