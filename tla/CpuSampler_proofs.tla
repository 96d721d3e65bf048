------------------------- MODULE CpuSampler_proofs -------------------------
(***************************************************************************)
(* Proofs about CpuSampler, for every step size and bound.                 *)
(*                                                                         *)
(* That a stored usage is in range is not inductive: it needs to know that *)
(* the counters have only grown since the last reading, the idle counter   *)
(* alone and the others, but for iowait, together.  Ordered says so.       *)
(***************************************************************************)
EXTENDS CpuSampler, TLAPS

Ordered ==
    /\ last_stat.idle <= idle
    /\ last_stat.total - last_stat.idle <= busy + waited

StoredInRange ==
    /\ last_usage.sound => last_usage.idle <= last_usage.total
    /\ shown.sound => shown.idle <= shown.total

Adds ==
    /\ sampled => /\ first.total + counted.total = last_stat.total
                  /\ first.idle + counted.idle = last_stat.idle
    /\ ~sampled => last_stat = Zero /\ counted = Zero

IInv == TypeOK /\ Ordered /\ StoredInRange /\ Adds

(* The delta from an earlier reading has the type of a reading.            *)
LEMMA DeltaType ==
    ASSUME TypeOK
    PROVE  /\ CpuStat \in Stat /\ DeltaFrom(last_stat) \in Stat
           /\ UsageOf(DeltaFrom(last_stat)) \in Usage
<1>1. /\ busy \in Nat /\ idle \in Nat /\ iowait \in Nat /\ waited \in Nat
      /\ last_stat.total \in Nat /\ last_stat.idle \in Nat
  BY DEF TypeOK, Stat
<1>2. CpuStat \in Stat
  BY <1>1 DEF CpuStat, Stat
<1>3. CpuStat.total \in Nat /\ CpuStat.idle \in Nat
  BY <1>2 DEF Stat
<1>4. \A m, n \in Nat : saturating_sub(m, n) \in Nat
  BY DEF saturating_sub
<1>5. DeltaFrom(last_stat) \in Stat
  BY <1>1, <1>3, <1>4 DEF DeltaFrom, Stat
<1>6. Sound \in BOOLEAN
  BY <1>1 DEF Sound
<1> QED
  BY <1>2, <1>5, <1>6 DEF UsageOf, Usage, Stat

(* When iowait did not fall, the idle part of the delta is at most its     *)
(* total, and the delta is exactly what has to be added to the reading.    *)
LEMMA DeltaFacts ==
    ASSUME TypeOK, Ordered, Sound
    PROVE  /\ DeltaFrom(last_stat).idle <= DeltaFrom(last_stat).total
           /\ last_stat.total + DeltaFrom(last_stat).total = CpuStat.total
           /\ last_stat.idle + DeltaFrom(last_stat).idle = CpuStat.idle
<1>1. /\ busy \in Nat /\ idle \in Nat /\ iowait \in Nat /\ waited \in Nat
      /\ last_stat.total \in Nat /\ last_stat.idle \in Nat
      /\ iowait >= waited
  BY DEF TypeOK, Stat, Sound
<1>2. CpuStat.total = busy + idle + iowait /\ CpuStat.idle = idle
  BY DEF CpuStat
<1>3. CpuStat.total >= last_stat.total /\ CpuStat.idle >= last_stat.idle
  BY <1>1, <1>2 DEF Ordered
<1>4. /\ DeltaFrom(last_stat).total = CpuStat.total - last_stat.total
      /\ DeltaFrom(last_stat).idle = CpuStat.idle - last_stat.idle
  BY <1>3 DEF DeltaFrom, saturating_sub
<1> QED
  BY <1>1, <1>2, <1>4 DEF Ordered

(* The invariant holds at the start.                                       *)
LEMMA InitIInv == Init => IInv
<1> SUFFICES ASSUME Init PROVE IInv
  OBVIOUS
<1>1. /\ Zero \in Stat /\ Zero.total = 0 /\ Zero.idle = 0
      /\ NoUsage \in Usage /\ NoUsage.total = 0 /\ NoUsage.idle = 0
  BY DEF Zero, Stat, NoUsage, Usage
<1>2. busy \in Nat /\ idle \in Nat /\ iowait \in Nat
  BY BoundAssumption DEF Init
<1>3. /\ sampled = FALSE /\ waited = 0
      /\ last_stat = Zero /\ last_usage = NoUsage /\ shown = NoUsage /\ first = Zero /\ counted = Zero
  BY DEF Init
<1>4. TypeOK
  BY <1>1, <1>2, <1>3 DEF TypeOK
<1>5. Ordered
  BY <1>1, <1>2, <1>3 DEF Ordered
<1> QED
  BY <1>1, <1>3, <1>4, <1>5 DEF IInv, StoredInRange, Adds

(* Time passing keeps the invariant: what Ordered compares only grows.     *)
LEMMA TickIInv ==
    ASSUME IInv, NEW b \in Step, NEW i \in Step, NEW w \in Step, Tick(b, i, w)
    PROVE  IInv'
<1>1. b \in Nat /\ i \in Nat /\ w \in Nat
  BY StepAssumption
<1>2. /\ busy' = busy + b /\ idle' = idle + i
      /\ iowait' = iowait + w \/ (w <= iowait /\ iowait' = iowait - w)
      /\ UNCHANGED <<sampled, last_stat, last_usage, shown, waited, first, counted>>
  BY DEF Tick
<1>3. TypeOK'
  <2>1. busy' \in Nat /\ idle' \in Nat /\ iowait' \in Nat
    BY <1>1, <1>2 DEF IInv, TypeOK
  <2> QED
    BY <1>2, <2>1 DEF IInv, TypeOK
<1>4. Ordered'
  <2>1. last_stat.total \in Nat /\ last_stat.idle \in Nat
    BY DEF IInv, TypeOK, Stat
  <2> QED
    BY <1>1, <1>2, <2>1 DEF IInv, TypeOK, Ordered
<1> QED
  BY <1>2, <1>3, <1>4 DEF IInv, StoredInRange, Adds

(* A round of the sampling thread keeps it.                                *)
LEMMA SampleIInv ==
    ASSUME IInv, NEW ok \in BOOLEAN, Sample(ok)
    PROVE  IInv'
<1> DEFINE D == DeltaFrom(last_stat)
<1>0. UNCHANGED <<counters, shown>>
  BY DEF Sample
<1>1. CASE ~ok
  BY <1>0, <1>1 DEF Sample, IInv, TypeOK, Ordered, StoredInRange, Adds, counters
<1>2. CASE ok
  <2>1. CpuStat \in Stat /\ D \in Stat /\ UsageOf(D) \in Usage /\ Zero \in Stat
    BY DeltaType DEF IInv, Zero, Stat
  <2>2. sampled' = TRUE /\ last_stat' = CpuStat /\ waited' = iowait
    BY <1>2 DEF Sample
  <2>3. Ordered'
    <3>1. CpuStat.total = busy + idle + iowait /\ CpuStat.idle = idle
      BY DEF CpuStat
    <3>2. busy \in Nat /\ idle \in Nat /\ iowait \in Nat
      BY DEF IInv, TypeOK
    <3> QED
      BY <1>0, <2>2, <3>1, <3>2 DEF Ordered, counters
  <2>4. last_usage' \in Usage /\ StoredInRange'
    <3>1. CASE sampled
      <4>1. last_usage' = UsageOf(D)
        BY <1>2, <3>1 DEF Sample
      <4>2. UsageOf(D).sound = Sound /\ UsageOf(D).idle = D.idle /\ UsageOf(D).total = D.total
        BY DEF UsageOf
      <4>3. Sound => D.idle <= D.total
        BY DeltaFacts DEF IInv
      <4> QED
        BY <1>0, <2>1, <4>1, <4>2, <4>3 DEF IInv, StoredInRange
    <3>2. CASE ~sampled
      <4>1. last_usage' = last_usage
        BY <1>2, <3>2 DEF Sample
      <4> QED
        BY <1>0, <4>1 DEF IInv, TypeOK, StoredInRange
    <3> QED
      BY <3>1, <3>2 DEF IInv, TypeOK
  <2>5. first' \in Stat /\ counted' \in Stat /\ Adds'
    <3>1. CASE sampled /\ Sound
      <4>1. counted' = Plus(counted, D) /\ first' = first
        BY <1>2, <3>1 DEF Sample
      <4>2. /\ first.total \in Nat /\ first.idle \in Nat /\ counted.total \in Nat
            /\ counted.idle \in Nat /\ D.total \in Nat /\ D.idle \in Nat
            /\ last_stat.total \in Nat /\ last_stat.idle \in Nat
        BY <2>1 DEF IInv, TypeOK, Stat
      <4>3. /\ Plus(counted, D) \in Stat
            /\ Plus(counted, D).total = counted.total + D.total
            /\ Plus(counted, D).idle = counted.idle + D.idle
        BY <4>2 DEF Plus, Stat
      <4>4. /\ last_stat.total + D.total = CpuStat.total
            /\ last_stat.idle + D.idle = CpuStat.idle
        BY <3>1, DeltaFacts DEF IInv
      <4>5. /\ first.total + counted.total = last_stat.total
            /\ first.idle + counted.idle = last_stat.idle
        BY <3>1 DEF IInv, Adds
      <4>6. /\ first'.total + counted'.total = last_stat'.total
            /\ first'.idle + counted'.idle = last_stat'.idle
        BY <2>2, <4>1, <4>2, <4>3, <4>4, <4>5
      <4> QED
        BY <2>2, <4>1, <4>3, <4>6 DEF Adds, IInv, TypeOK
    <3>2. CASE ~(sampled /\ Sound)
      <4>1. first' = CpuStat /\ counted' = Zero
        BY <1>2, <3>2 DEF Sample
      <4>2. CpuStat.total \in Nat /\ CpuStat.idle \in Nat /\ Zero.total = 0 /\ Zero.idle = 0
        BY <2>1 DEF Stat, Zero
      <4> QED
        BY <2>1, <2>2, <4>1, <4>2 DEF Adds
    <3> QED
      BY <3>1, <3>2
  <2>6. TypeOK'
    BY <1>0, <2>1, <2>2, <2>4, <2>5 DEF IInv, TypeOK, counters
  <2> QED
    BY <2>3, <2>4, <2>5, <2>6 DEF IInv
<1> QED
  BY <1>1, <1>2

(* The invariant holds in every state, whatever iowait does.               *)
THEOREM Invariant == Spec => []IInv
<1>1. Init => IInv
  BY InitIInv
<1>2. IInv /\ [Next]_vars => IInv'
  <2> SUFFICES ASSUME IInv, [Next]_vars PROVE IInv'
    OBVIOUS
  <2>1. CASE \E b, i, w \in Step : Tick(b, i, w)
    BY <2>1, TickIInv
  <2>2. CASE \E ok \in BOOLEAN : Sample(ok)
    BY <2>2, SampleIInv
  <2>3. CASE collect
    BY <2>3 DEF collect, IInv, TypeOK, Ordered, StoredInRange, Adds, counters
  <2>4. CASE UNCHANGED vars
    BY <2>4 DEF vars, IInv, TypeOK, Ordered, StoredInRange, Adds, counters
  <2> QED
    BY <2>1, <2>2, <2>3, <2>4 DEF Next
<1> QED
  BY <1>1, <1>2, PTL DEF Spec

(* Every variable keeps its type: no delta is ever negative.               *)
THEOREM TypeCorrect == Spec => []TypeOK
<1>1. IInv => TypeOK
  BY DEF IInv
<1> QED
  BY <1>1, Invariant, PTL

(* collect() returns a usage within 0..100 in every reachable state, but   *)
(* for one taken over a fall of iowait.                                    *)
THEOREM UsageStaysInRange == Spec => []UsageInRange
<1>1. IInv => UsageInRange
  BY DEF IInv, StoredInRange, UsageInRange, InRange
<1> QED
  BY <1>1, Invariant, PTL

(* The deltas stored add up to the time between first and last reading.    *)
THEOREM TimeIsConserved == Spec => []NoTimeLost
<1>1. IInv => NoTimeLost
  <2> SUFFICES ASSUME IInv, sampled PROVE Plus(first, counted) = last_stat
    BY DEF NoTimeLost
  <2>1. last_stat = [total |-> last_stat.total, idle |-> last_stat.idle]
    BY DEF IInv, TypeOK, Stat
  <2>2. /\ first.total + counted.total = last_stat.total
        /\ first.idle + counted.idle = last_stat.idle
    BY DEF IInv, Adds
  <2> QED
    BY <2>1, <2>2 DEF Plus
<1> QED
  BY <1>1, Invariant, PTL
=============================================================================
