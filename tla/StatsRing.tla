----------------------------- MODULE StatsRing -----------------------------
(***************************************************************************)
(* Build of internal/stats: the GC pauses that runtime_stats.json reports, *)
(* taken from the ring buffer PauseNs of runtime.MemStats.  The ring and   *)
(* the counter NumGC belong to the Go runtime, which fills them as its     *)
(* documentation says; Build only indexes them.                            *)
(***************************************************************************)
EXTENDS Integers, TLAPS

Ring == 256
Wrap == 4294967296  \* NumGC is a uint32

VARIABLES
  ring,    \* MemStats.PauseNs
  count,   \* collections since the start of the process; NumGC counts them modulo Wrap
  pauses,  \* history: every pause, by the number of its collection
  recent,  \* GCPauseRecentNs of the last Build, by position, 0 the newest
  last     \* GCPauseLastNs of the last Build

vars == <<ring, count, pauses, recent, last>>

NumGC == count % Wrap

Init ==
  /\ ring = [i \in 0..(Ring - 1) |-> 0]
  /\ count = 0
  /\ pauses = [k \in {} |-> 0]
  /\ recent = [i \in {} |-> 0]
  /\ last = 0

\* The runtime: the latest pause is at (NumGC + 255) % 256.  Its clock can
\* measure 0.
Collect ==
  \E ns \in Nat :
    /\ ring' = [ring EXCEPT ![NumGC % Ring] = ns]
    /\ count' = count + 1
    /\ pauses' = [k \in 1..count' |-> IF k = count' THEN ns ELSE pauses[k]]
    /\ UNCHANGED <<recent, last>>

\* In int, so that nothing wraps for a NumGC near 2^32.
Index(i) == (NumGC + 255 - i) % Ring

\* The loop leaves a pause of 0 out.
Reported == {i \in 0..9 : i < NumGC /\ ring[Index(i)] > 0}

Build ==
  /\ recent' = [i \in Reported |-> ring[Index(i)]]
  /\ last' = ring[Index(0)]
  /\ UNCHANGED <<ring, count, pauses>>

Next == Collect \/ Build

Spec == Init /\ [][Next]_vars

-----------------------------------------------------------------------------
\* The newest pauses there were, at most ten and without those of 0.
Newest == {i \in 0..9 : i < count /\ pauses[count - i] > 0}

\* stats.go: wherever the ring stands and however few collections there were,
\* what is reported are the pauses of the last collections from the new to the
\* old; all of them, unless NumGC has just wrapped around.
ReportsTheLatest ==
  [][Build => /\ \A i \in DOMAIN recent' : i \in Newest /\ recent'[i] = pauses[count - i]
              /\ NumGC >= 10 \/ count < Wrap => DOMAIN recent' = Newest
              /\ last' = IF count = 0 THEN 0 ELSE pauses[count]]_vars

-----------------------------------------------------------------------------
(* The ring holds the last 256 pauses, each at its place.                  *)
RingInv ==
  /\ count \in Nat
  /\ ring \in [0..(Ring - 1) -> Nat]
  /\ \A k \in 1..count : k > count - Ring => ring[(k - 1) % Ring] = pauses[k]
  /\ \A j \in 0..(Ring - 1) : j >= count => ring[j] = 0

LEMMA ModWrap ==
  ASSUME NEW n \in Nat
  PROVE  /\ n % Wrap \in Nat
         /\ (n % Wrap) % Ring = n % Ring
         /\ n % Wrap <= n
         /\ n < Wrap => n % Wrap = n
BY DEF Wrap, Ring

LEMMA ModIndex ==
  ASSUME NEW n \in Nat, NEW i \in 0..9, i < n
  PROVE  ((n % Wrap) + 255 - i) % Ring = (n - i - 1) % Ring
BY DEF Wrap, Ring

LEMMA ModRing ==
  ASSUME NEW n \in Nat
  PROVE  /\ n % Ring \in 0..(Ring - 1)
         /\ n % Ring <= n
         /\ \A k \in Nat : k < n /\ n < k + Ring => k % Ring # n % Ring
BY DEF Ring

LEMMA RingInvInit == Init => RingInv
BY DEF Init, RingInv, Ring

LEMMA RingTyped == RingInv => count \in Nat /\ ring \in [0..(Ring - 1) -> Nat]
BY DEF RingInv

LEMMA RingInvStep == RingInv /\ [Next]_vars => RingInv'
<1> SUFFICES ASSUME RingInv, [Next]_vars PROVE RingInv'
  OBVIOUS
<1>1. CASE Collect
  <2>1. PICK ns \in Nat :
          /\ ring' = [ring EXCEPT ![NumGC % Ring] = ns]
          /\ count' = count + 1
          /\ pauses' = [k \in 1..count' |-> IF k = count' THEN ns ELSE pauses[k]]
    BY <1>1 DEF Collect
  <2>0. count' = count + 1
    BY <2>1
  <2>2. NumGC % Ring = count % Ring
    BY ModWrap DEF RingInv, NumGC
  <2>3. count' \in Nat /\ ring' \in [0..(Ring - 1) -> Nat]
    <3>1. ring' = [ring EXCEPT ![NumGC % Ring] = ns]
      BY <2>1
    <3>2. ring' \in [0..(Ring - 1) -> Nat]
      BY <3>1, RingTyped
    <3>3. count' \in Nat
      BY <2>0, RingTyped
    <3> QED
      BY <3>2, <3>3
  <2>4. ASSUME NEW k \in 1..count', k > count' - Ring
        PROVE  ring'[(k - 1) % Ring] = pauses'[k]
    <3>1. CASE k = count'
      BY <3>1, <2>1, <2>2 DEF RingInv, Ring
    <3>2. CASE k # count'
      <4>1. k \in 1..count /\ k > count + 1 - Ring /\ k > count - Ring
        BY <3>2, <2>1, <2>4 DEF RingInv, Ring
      <4>2. (k - 1) % Ring # count % Ring /\ (k - 1) % Ring \in 0..(Ring - 1)
        <5>1. k - 1 \in Nat /\ count \in Nat /\ k - 1 < count /\ count < k - 1 + Ring
          BY <4>1, RingTyped DEF Ring
        <5> QED
          BY <5>1, ModRing
      <4> QED
        BY <4>1, <4>2, <3>2, <2>1, <2>2 DEF RingInv
    <3> QED
      BY <3>1, <3>2
  <2>5. ASSUME NEW j \in 0..(Ring - 1), j >= count'
        PROVE  ring'[j] = 0
    <3>1. j # count % Ring /\ j >= count
      <4>1. j > count
        BY <2>0, <2>5, RingTyped DEF Ring
      <4>2. count % Ring <= count /\ count % Ring \in 0..(Ring - 1)
        BY ModRing, RingTyped
      <4> QED
        BY <4>1, <4>2, RingTyped DEF Ring
    <3> QED
      BY <2>1, <2>2, <3>1 DEF RingInv
  <2> QED
    BY <2>3, <2>4, <2>5 DEF RingInv
<1>2. CASE Build
  BY <1>2 DEF Build, RingInv
<1>3. CASE UNCHANGED vars
  BY <1>3 DEF vars, RingInv
<1> QED
  BY <1>1, <1>2, <1>3 DEF Next

LEMMA EntriesRight ==
  ASSUME RingInv, NEW i \in 0..9, i < count
  PROVE  ring[Index(i)] = pauses[count - i]
<1>1. Index(i) = (count - i - 1) % Ring
  <2>0. count \in Nat
    BY RingTyped
  <2>1. ((count % Wrap) + 255 - i) % Ring = (count - i - 1) % Ring
    BY <2>0, ModIndex
  <2> QED
    BY <2>1 DEF Index, NumGC
<1>2. count - i \in 1..count /\ count - i > count - Ring
  BY DEF RingInv, Ring
<1> QED
  BY <1>1, <1>2 DEF RingInv

(* stats.go 131-147: the indices into the ring of pauses are right for      *)
(* every number of collections.                                             *)
THEOREM RecentPausesRight == Spec => ReportsTheLatest
<1>1. RingInv /\ [Next]_vars =>
        [Build => /\ \A i \in DOMAIN recent' : i \in Newest /\ recent'[i] = pauses[count - i]
                  /\ NumGC >= 10 \/ count < Wrap => DOMAIN recent' = Newest
                  /\ last' = IF count = 0 THEN 0 ELSE pauses[count]]_vars
  <2> SUFFICES ASSUME RingInv, Build
               PROVE  /\ \A i \in DOMAIN recent' : i \in Newest /\ recent'[i] = pauses[count - i]
                      /\ NumGC >= 10 \/ count < Wrap => DOMAIN recent' = Newest
                      /\ last' = IF count = 0 THEN 0 ELSE pauses[count]
    OBVIOUS
  <2>1. NumGC \in Nat /\ NumGC <= count /\ (count < Wrap => NumGC = count) /\ count \in Nat
    BY ModWrap DEF RingInv, NumGC
  <2>2. DOMAIN recent' = Reported /\ \A i \in Reported : recent'[i] = ring[Index(i)]
    BY DEF Build
  <2>3. \A i \in Reported : i \in Newest /\ recent'[i] = pauses[count - i]
    BY <2>1, <2>2, EntriesRight DEF Reported, Newest
  <2>4. NumGC >= 10 \/ count < Wrap => Newest \subseteq Reported
    BY <2>1, EntriesRight DEF Reported, Newest
  <2>5. CASE count = 0
    <3>1. Index(0) = 255
      BY <2>5 DEF Index, NumGC, Wrap, Ring
    <3> QED
      BY <2>2, <2>3, <2>4, <2>5, <3>1 DEF Build, RingInv, Ring
  <2>6. CASE count # 0
    BY <2>1, <2>2, <2>3, <2>4, <2>6, EntriesRight DEF Build
  <2> QED
    BY <2>5, <2>6
<1> QED
  BY <1>1, RingInvInit, RingInvStep, PTL DEF Spec, ReportsTheLatest
=============================================================================
