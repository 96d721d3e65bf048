--------------------------- MODULE Readings_proofs ---------------------------
(***************************************************************************)
(* What is put together from several readings of things that change in     *)
(* between: the answers of Collect, for all readings and any number of     *)
(* changes, and the listings and contents of Streams, for all entries,     *)
(* sizes, pages and any number of changes.                                 *)
(***************************************************************************)
EXTENDS Collect, Streams, FiniteSetTheorems, SequenceTheorems, TLAPS

-----------------------------------------------------------------------------
(* The rank of an element of a finite set of integers.                     *)
Upto(A, n) == {m \in A : m <= n}
Rank(A, n) == Cardinality(Upto(A, n))

LEMMA UptoIsFinite ==
    ASSUME NEW A, IsFiniteSet(A), NEW n
    PROVE  IsFiniteSet(Upto(A, n)) /\ Rank(A, n) \in Nat /\ Rank(A, n) <= Cardinality(A)
<1>1. Upto(A, n) \subseteq A
  BY DEF Upto
<1> QED BY <1>1, FS_Subset, FS_CardinalityType DEF Rank

(* Ranks are ordered like the elements, and start at 1.                    *)
LEMMA RankGrows ==
    ASSUME NEW A \in SUBSET Int, IsFiniteSet(A), NEW m \in A, NEW n \in A, m < n
    PROVE  Rank(A, m) < Rank(A, n)
<1>1. Upto(A, m) \subseteq Upto(A, n) /\ n \in Upto(A, n) /\ n \notin Upto(A, m)
  <2>1. m \in Int /\ n \in Int /\ \A x \in A : x \in Int
    OBVIOUS
  <2>2. n <= n /\ ~(n <= m) /\ \A x \in A : x <= m => x <= n
    BY <2>1
  <2> QED BY <2>2 DEF Upto
<1>2. IsFiniteSet(Upto(A, n)) /\ IsFiniteSet(Upto(A, m))
  BY UptoIsFinite
<1>3. Cardinality(Upto(A, m)) <= Cardinality(Upto(A, n))
      /\ Cardinality(Upto(A, m)) # Cardinality(Upto(A, n))
  BY <1>1, <1>2, FS_Subset
<1> QED BY <1>3, UptoIsFinite DEF Rank

LEMMA RankRange ==
    ASSUME NEW A \in SUBSET Int, IsFiniteSet(A), NEW n \in A
    PROVE  Rank(A, n) \in 1 .. Cardinality(A)
<1>1. Upto(A, n) # {}
  BY DEF Upto
<1>2. Rank(A, n) # 0
  BY <1>1, UptoIsFinite, FS_EmptySet DEF Rank
<1> QED BY <1>2, UptoIsFinite, FS_CardinalityType

LEMMA RankIsOneToOne ==
    ASSUME NEW A \in SUBSET Int, IsFiniteSet(A), NEW m \in A, NEW n \in A, Rank(A, m) = Rank(A, n)
    PROVE  m = n
<1>1. m < n \/ n < m \/ m = n
  OBVIOUS
<1>2. Rank(A, m) \in Nat /\ Rank(A, n) \in Nat
  BY UptoIsFinite
<1> QED BY <1>1, <1>2, RankGrows

(* Every number up to the cardinality is the rank of an element.           *)
LEMMA RankIsOnto ==
    ASSUME NEW A \in SUBSET Int, IsFiniteSet(A), NEW k \in 1 .. Cardinality(A)
    PROVE  \E n \in A : Rank(A, n) = k
<1> DEFINE c == Cardinality(A)
           f == [n \in A |-> Rank(A, n)]
<1>1. c \in Nat
  BY FS_CardinalityType
<1>2. f \in Injection(A, 1 .. c)
  <2>1. f \in [A -> 1 .. c]
    BY RankRange
  <2>2. \A m, n \in A : f[m] = f[n] => m = n
    BY RankIsOneToOne
  <2> QED BY <2>1, <2>2 DEF Injection, IsInjective
<1>3. IsFiniteSet(1 .. c) /\ Cardinality(1 .. c) = c
  BY <1>1, FS_Interval
<1>4. f \in Surjection(A, 1 .. c)
  BY <1>2, <1>3, FS_Injection
<1> QED BY <1>4 DEF Surjection

(* As many elements have a rank in an interval as there are numbers in it. *)
Page(A, low, high) == {n \in A : low < Rank(A, n) /\ Rank(A, n) <= high}

LEMMA RankInterval ==
    ASSUME NEW A \in SUBSET Int, IsFiniteSet(A), NEW low \in Nat, NEW high \in Nat,
           low <= high, high <= Cardinality(A)
    PROVE  Cardinality(Page(A, low, high)) = high - low
<1> DEFINE B == {n \in A : low < Rank(A, n) /\ Rank(A, n) <= high}
           f == [n \in B |-> Rank(A, n)]
<1>1. Cardinality(A) \in Nat /\ IsFiniteSet(B)
  BY FS_CardinalityType, FS_Subset
<1>2. \A n \in A : Rank(A, n) \in 1 .. Cardinality(A)
  BY RankRange
<1>3. f \in [B -> low + 1 .. high]
  <2> SUFFICES ASSUME NEW n \in B PROVE Rank(A, n) \in low + 1 .. high
    OBVIOUS
  <2>1. Rank(A, n) \in Int /\ low < Rank(A, n) /\ Rank(A, n) <= high
    BY <1>1, <1>2
  <2> QED BY <2>1
<1>4. \A m, n \in B : f[m] = f[n] => m = n
  BY RankIsOneToOne
<1>5. \A k \in low + 1 .. high : \E n \in B : f[n] = k
  <2> SUFFICES ASSUME NEW k \in low + 1 .. high PROVE \E n \in B : f[n] = k
    OBVIOUS
  <2>1. k \in 1 .. Cardinality(A) /\ low < k /\ k <= high
    BY <1>1
  <2>2. PICK n \in A : Rank(A, n) = k
    BY <2>1, RankIsOnto
  <2> QED BY <2>1, <2>2
<1>6. f \in Bijection(B, low + 1 .. high)
  BY <1>3, <1>4, <1>5 DEF Bijection, Injection, IsInjective, Surjection
<1>7. Cardinality(low + 1 .. high) = Cardinality(B)
  BY <1>1, <1>6, FS_Bijection DEF ExistsBijection
<1>8. Cardinality(low + 1 .. high) = high - low
  <2>1. Cardinality(low + 1 .. high) = IF low + 1 > high THEN 0 ELSE high - (low + 1) + 1
    BY FS_Interval
  <2> QED BY <2>1
<1> QED BY <1>7, <1>8 DEF Page

-----------------------------------------------------------------------------
(* Collect.  The source a reading was taken of, by its place.              *)
Origin(k) ==
    CASE provider = "health" -> <<"cpu", "memory", "swap", "disk">>[k]
      [] provider = "sensors" -> <<"temp1", "crit1", "temp2", "crit2", "zone", "fan">>[k]
      [] provider = "connections" -> <<"tcp", "tcp6", "udp", "udp6">>[k]
      [] provider = "services" -> <<"systemctl", "systemctl", "systemctl">>[k]
      [] provider = "users" -> <<"who", "passwd", "who", "passwd", "passwd">>[k]
Most ==
    CASE provider \in {"health", "connections"} -> 4
      [] provider = "sensors" -> 6
      [] provider = "services" -> 3
      [] provider = "users" -> 5

Kind == DOMAIN Reading[provider]
Value == UNION {Reading[provider][c] : c \in Kind}
CollectTypes ==
    /\ provider \in Providers
    /\ source \in [Kind -> Value] /\ had \in [Kind -> SUBSET Value]
    /\ readings \in Seq(Value)

(* What a source is has been noted, and nothing was noted that it cannot   *)
(* be.                                                                     *)
Noted == \A c \in Kind : source[c] \in had[c] /\ had[c] \subseteq Reading[provider][c]

(* Each reading is what its source was meanwhile, and there are no more    *)
(* than the ones before it call for.                                       *)
Sourced ==
    /\ Len(readings) <= Most
    /\ \A k \in 1 .. Len(readings) : Origin(k) \in Kind /\ readings[k] \in had[Origin(k)]
Called ==
    /\ provider = "services" /\ Len(readings) >= 3 => S!exists(readings[2])
    /\ provider = "users" =>
           /\ Len(readings) >= 3 => U!exists(readings[2])
           /\ Len(readings) >= 5 => readings[3] = "out" /\ readings[4] # "none"

CollectInv == CollectTypes /\ Noted /\ Sourced /\ Called

(* The next reading is of a source there is, and the plan calls for it.    *)
NextReading ==
    /\ Len(readings) + 1 <= Most /\ Wanted = Origin(Len(readings) + 1) /\ Wanted \in Kind
    /\ provider = "services" /\ Len(readings) = 2 => S!exists(readings[2])
    /\ provider = "users" =>
           /\ Len(readings) = 2 => U!exists(readings[2])
           /\ Len(readings) = 4 => readings[3] = "out" /\ readings[4] # "none"

LEMMA OneMore ==
    ASSUME NEW n \in Nat
    PROVE  /\ n <= 2 => n + 1 \in 1 .. 3
           /\ n <= 4 => n + 1 \in 1 .. 5
           /\ n + 1 >= 3 => n = 2 \/ n >= 3
           /\ n + 1 >= 5 => n = 4 \/ n >= 5
           /\ (n + 1 >= 3 => n >= 2) /\ (n + 1 >= 5 => n >= 4)
  OBVIOUS

LEMMA WantedInOrder ==
    ASSUME CollectInv, provider \in {"health", "sensors", "connections"}, Wanted # "done"
    PROVE  NextReading
<1> USE DEF NextReading, Origin, Most, Wanted, InOrder, Kind, Sources
<1>0. Len(readings) \in Nat
  BY DEF CollectInv, CollectTypes
<1>1. CASE provider = "health"
  <2>1. H!Check = <<"cpu", "memory", "swap", "disk">> /\ Len(readings) < Len(H!Check)
    BY <1>1 DEF H!Check
  <2>2. Len(H!Check) = 4 /\ Len(readings) + 1 \in DOMAIN H!Check
    BY <1>0, <2>1
  <2> HIDE DEF Sources
  <2>3. Wanted = H!Check[Len(readings) + 1] /\ Wanted \in Kind
    BY <1>1, <2>1, <2>2, SourcesAssumption DEF Sources
  <2> QED BY <1>0, <1>1, <2>1, <2>2, <2>3
<1>2. CASE provider = "sensors"
  <2>1. T!Files = <<"temp1", "crit1", "temp2", "crit2", "zone", "fan">> /\ Len(readings) < Len(T!Files)
    BY <1>2 DEF T!Files
  <2>2. Len(T!Files) = 6 /\ Len(readings) + 1 \in DOMAIN T!Files
    BY <1>0, <2>1
  <2>3. Wanted = T!Files[Len(readings) + 1] /\ Wanted \in Kind
    BY <1>2, <2>1, <2>2, SourcesAssumption
  <2> QED BY <1>0, <1>2, <2>1, <2>2, <2>3
<1>3. CASE provider = "connections"
  <2>1. N!Files = <<"tcp", "tcp6", "udp", "udp6">> /\ Len(readings) < Len(N!Files)
    BY <1>3 DEF N!Files
  <2>2. Len(N!Files) = 4 /\ Len(readings) + 1 \in DOMAIN N!Files
    BY <1>0, <2>1
  <2>3. Wanted = N!Files[Len(readings) + 1] /\ Wanted \in Kind
    BY <1>3, <2>1, <2>2, SourcesAssumption
  <2> QED BY <1>0, <1>3, <2>1, <2>2, <2>3
<1> QED BY <1>1, <1>2, <1>3

LEMMA WantedByPlan ==
    ASSUME CollectInv, provider \in {"services", "users"}, Wanted # "done"
    PROVE  NextReading
<1> DEFINE n == Len(readings)
<1>0. n \in Nat
  BY DEF CollectInv, CollectTypes
<1>1. CASE provider = "services"
  <2>1. n <= 2 /\ Wanted = "systemctl" /\ (n = 2 => S!exists(readings[2]))
    BY <1>0, <1>1 DEF Wanted, S!Plan
  <2>2. n + 1 \in 1 .. 3
    BY <1>0, <2>1, OneMore
  <2>3. Wanted \in Kind
    BY <1>1, <2>1, SourcesAssumption DEF Kind
  <2> HIDE DEF n
  <2>4. <<"systemctl", "systemctl", "systemctl">>[n + 1] = "systemctl" /\ n + 1 <= 3
    BY <2>2
  <2> QED BY <1>1, <2>1, <2>3, <2>4 DEF NextReading, Origin, Most, n
<1>2. CASE provider = "users"
  <2> DEFINE plan == <<"who", "passwd", "who", "passwd", "passwd">>
  <2>1. Wanted = U!Plan(readings)
    BY <1>2 DEF Wanted
  <2>2. n \in {0, 1, 2, 3, 4}
    BY <1>0, <1>2, <2>1 DEF U!Plan
  <2>3. /\ Wanted = plan[n + 1] /\ Wanted \in {"who", "passwd"}
        /\ n = 2 => U!exists(readings[2])
        /\ n = 4 => readings[3] = "out" /\ readings[4] # "none"
    <3>1. CASE n = 0
      BY <1>2, <2>1, <3>1 DEF U!Plan
    <3>2. CASE n = 1
      BY <1>2, <2>1, <3>2 DEF U!Plan
    <3>3. CASE n = 2
      BY <1>2, <2>1, <3>3 DEF U!Plan
    <3>4. CASE n = 3
      BY <1>2, <2>1, <3>4 DEF U!Plan
    <3>5. CASE n = 4
      BY <1>2, <2>1, <3>5 DEF U!Plan
    <3> QED BY <2>2, <3>1, <3>2, <3>3, <3>4, <3>5
  <2>4. n + 1 <= 5
    <3> HIDE DEF n
    <3> QED BY <2>2
  <2>5. Wanted \in Kind
    BY <1>2, <2>3, SourcesAssumption DEF Kind
  <2> QED BY <1>2, <2>3, <2>4, <2>5 DEF NextReading, Origin, Most
<1> QED BY <1>1, <1>2

-----------------------------------------------------------------------------
LEMMA CollectInitInv == Init => CollectInv
<1> SUFFICES ASSUME Init PROVE CollectInv
  OBVIOUS
<1>1. /\ provider \in Providers /\ source \in [Kind -> Value]
      /\ \A c \in Kind : source[c] \in Reading[provider][c]
      /\ readings = <<>> /\ had = [c \in Kind |-> {source[c]}]
  BY DEF Init, Only, Kind, Value
<1>2. CollectTypes /\ Noted
  BY <1>1 DEF CollectTypes, Noted
<1>3. Sourced /\ Called
  BY <1>1 DEF Sourced, Called, Most, Providers
<1> QED BY <1>2, <1>3 DEF CollectInv

LEMMA CollectRead == ASSUME CollectInv, Read PROVE CollectInv'
<1> DEFINE n == Len(readings)
           new == source[Wanted]
<1>1. CollectTypes /\ Noted /\ Sourced /\ Called /\ provider' = provider /\ had' = had
      /\ source' = source /\ readings' = Append(readings, new)
  BY DEF CollectInv, Read, world
<1>2. NextReading
  BY WantedInOrder, WantedByPlan DEF Read, CollectInv, CollectTypes, Providers
<1>3. Wanted \in Kind /\ new \in Value /\ new \in had[Wanted]
  BY <1>1, <1>2 DEF CollectTypes, Noted, NextReading
<1>4. /\ n \in Nat /\ readings' \in Seq(Value) /\ Len(readings') = n + 1
      /\ readings'[n + 1] = new /\ \A k \in 1 .. n : readings'[k] = readings[k]
  BY <1>1, <1>3 DEF CollectTypes
<1>5. Kind' = Kind /\ Value' = Value /\ Most' = Most /\ \A k \in 1 .. n + 1 : Origin(k)' = Origin(k)
  BY <1>1 DEF Kind, Value, Most, Origin
<1>6. CollectTypes' /\ Noted'
  BY <1>1, <1>4, <1>5 DEF CollectTypes, Noted
<1>7. Sourced'
  <2>1. ASSUME NEW k \in 1 .. n + 1
        PROVE  Origin(k) \in Kind /\ readings'[k] \in had[Origin(k)]
    <3>1. k \in 1 .. n \/ k = n + 1
      BY <1>4
    <3> QED BY <1>1, <1>2, <1>3, <1>4, <3>1 DEF Sourced, NextReading
  <2> QED BY <1>1, <1>2, <1>4, <1>5, <2>1 DEF Sourced, NextReading
<1>8. Called'
  <2>1. n >= 2 => readings'[2] = readings[2]
    BY <1>4
  <2>2. n >= 4 => readings'[3] = readings[3] /\ readings'[4] = readings[4]
    BY <1>4
  <2>3. n + 1 >= 3 => n = 2 \/ n >= 3
    BY <1>4, OneMore
  <2>4. n + 1 >= 5 => n = 4 \/ n >= 5
    BY <1>4, OneMore
  <2>5. (n + 1 >= 3 => n >= 2) /\ (n + 1 >= 5 => n >= 4)
    BY <1>4, OneMore
  <2>6. provider = "services" /\ n + 1 >= 3 => S!exists(readings'[2])
    BY <1>1, <1>2, <2>1, <2>3, <2>5 DEF Called, NextReading
  <2>7. provider = "users" /\ n + 1 >= 3 => U!exists(readings'[2])
    BY <1>1, <1>2, <2>1, <2>3, <2>5 DEF Called, NextReading
  <2>8. provider = "users" /\ n + 1 >= 5 => readings'[3] = "out" /\ readings'[4] # "none"
    BY <1>1, <1>2, <2>2, <2>4, <2>5 DEF Called, NextReading
  <2> QED BY <1>1, <1>4, <2>6, <2>7, <2>8 DEF Called
<1> QED BY <1>6, <1>7, <1>8 DEF CollectInv

LEMMA CollectReply == ASSUME CollectInv, Reply PROVE CollectInv'
<1>1. /\ CollectTypes /\ Noted /\ provider' = provider /\ source' = source
      /\ readings' = <<>> /\ had' = [c \in Kind |-> {source[c]}]
  BY DEF CollectInv, CollectTypes, Reply, Only
<1>2. Kind' = Kind /\ Value' = Value
  BY <1>1 DEF Kind, Value
<1>3. CollectTypes' /\ Noted'
  BY <1>1, <1>2 DEF CollectTypes, Noted
<1>4. Sourced' /\ Called'
  BY <1>1 DEF Sourced, Called, Most, CollectTypes, Providers
<1> QED BY <1>3, <1>4 DEF CollectInv

LEMMA CollectChange ==
    ASSUME CollectInv, NEW c \in DOMAIN source, NEW r \in Reading[provider][c], Change(c, r)
    PROVE  CollectInv'
<1>1. /\ CollectTypes /\ Noted /\ Sourced /\ Called /\ provider' = provider /\ readings' = readings
      /\ source' = [source EXCEPT ![c] = r] /\ had' = [had EXCEPT ![c] = @ \cup {r}] /\ c \in Kind
  BY DEF CollectInv, CollectTypes, Change
<1>2. Kind' = Kind /\ Value' = Value /\ Most' = Most /\ r \in Value
  BY <1>1 DEF Kind, Value, Most
<1>3. CollectTypes' /\ Noted' /\ \A d \in Kind : had[d] \subseteq had'[d]
  BY <1>1, <1>2 DEF CollectTypes, Noted
<1>4. \A k \in 1 .. Len(readings) : Origin(k)' = Origin(k)
  BY <1>1 DEF Origin
<1>5. Sourced'
  BY <1>1, <1>2, <1>3, <1>4 DEF Sourced
<1>6. Called'
  BY <1>1 DEF Called
<1> QED BY <1>3, <1>5, <1>6 DEF CollectInv

LEMMA CollectNextInv == CollectInv /\ [Next]_vars => CollectInv'
<1> SUFFICES ASSUME CollectInv, [Next]_vars PROVE CollectInv'
  OBVIOUS
<1>1. CASE UNCHANGED vars
  <2>1. UNCHANGED <<provider, source, readings, had>>
    BY <1>1 DEF vars, world
  <2>2. CollectTypes' /\ Noted'
    BY <2>1 DEF CollectInv, CollectTypes, Noted, Kind, Value
  <2>3. Sourced' /\ Called'
    BY <2>1 DEF CollectInv, Sourced, Called, Kind, Most, Origin
  <2> QED BY <2>2, <2>3 DEF CollectInv
<1>2. CASE Read
  BY <1>2, CollectRead
<1>3. CASE Reply
  BY <1>3, CollectReply
<1>4. ASSUME NEW c \in DOMAIN source, NEW r \in Reading[provider][c], Change(c, r) PROVE CollectInv'
  BY <1>4, CollectChange
<1> QED BY <1>1, <1>2, <1>3, <1>4 DEF Next

(* When nothing more is wanted, all the files have been read.              *)
LEMMA AllRead ==
    ASSUME NEW n \in Nat, NEW files, Len(files) = n, \A k \in 1 .. n : files[k] # "done",
           readings \in Seq(Value), Len(readings) <= n, InOrder(files) = "done"
    PROVE  Len(readings) = n
<1> DEFINE m == Len(readings)
<1>1. m \in Nat /\ m <= n /\ (m < n => files[m + 1] = "done")
  BY DEF InOrder
<1> HIDE DEF m
<1>2. m < n => m + 1 \in 1 .. n
  BY <1>1
<1>3. m = n
  BY <1>1, <1>2
<1> QED BY <1>3 DEF m

-----------------------------------------------------------------------------
(* Health.                                                                 *)
LEMMA HealthReadings ==
    ASSUME CollectInv, Answers("health")
    PROVE  /\ H!Check = <<"cpu", "memory", "swap", "disk">>
           /\ DOMAIN had = {"cpu", "memory", "swap", "disk"}
           /\ DOMAIN readings = 1 .. 4
           /\ \A k \in 1 .. 4 : readings[k] \in had[H!Check[k]]
           /\ \A c \in DOMAIN had : \E k \in 1 .. 4 : H!Check[k] = c
<1>1. H!Check = <<"cpu", "memory", "swap", "disk">>
  BY DEF H!Check
<1>2. provider = "health" /\ DOMAIN had = Kind /\ readings \in Seq(Value)
  BY DEF CollectInv, CollectTypes, Answers
<1>3. Kind = {"cpu", "memory", "swap", "disk"}
  BY <1>1, <1>2, SourcesAssumption DEF Kind, Sources
<1>4. Len(readings) = 4
  <2>1. InOrder(H!Check) = "done" /\ Len(readings) <= 4
    BY <1>2 DEF Answers, Wanted, CollectInv, Sourced, Most
  <2>2. Len(H!Check) = 4 /\ \A k \in 1 .. 4 : H!Check[k] # "done"
    BY <1>1
  <2> QED BY <1>2, <2>1, <2>2, AllRead
<1>5. \A k \in 1 .. 4 : Origin(k) = H!Check[k]
  BY <1>1, <1>2 DEF Origin
<1> QED BY <1>1, <1>2, <1>3, <1>4, <1>5 DEF CollectInv, Sourced

LEMMA StatusOfCheck == \A c, r : H!Status(c, r) \in {H!Ok, H!Warn, H!Critical}
  BY DEF H!Status

LEMMA WorstIs ==
    ASSUME NEW A \in SUBSET {H!Ok, H!Warn, H!Critical}, A # {}
    PROVE  H!Worst(A) \in A /\ \A s \in A : s <= H!Worst(A)
<1>1. \E s \in A : \A t \in A : t <= s
  <2>1. A \subseteq {0, 1, 2}
    BY DEF H!Ok, H!Warn, H!Critical
  <2>2. CASE 2 \in A
    BY <2>1, <2>2
  <2>3. CASE 2 \notin A /\ 1 \in A
    BY <2>1, <2>3
  <2>4. CASE 2 \notin A /\ 1 \notin A
    <3>1. A = {0}
      BY <2>1, <2>4
    <3> QED BY <3>1
  <2> QED BY <2>2, <2>3, <2>4
<1> QED BY <1>1 DEF H!Worst

LEMMA HealthReport ==
    ASSUME CollectInv, Answers("health"), NEW st, st = H!Report(readings).status
    PROVE  /\ \A k \in 1 .. 4 : H!Status(H!Check[k], readings[k]) <= st
           /\ \E k \in 1 .. 4 : H!Status(H!Check[k], readings[k]) = st
           /\ H!Report(readings).issues =
                  {H!Check[k] : k \in {j \in 1 .. 4 : H!Status(H!Check[j], readings[j]) # H!Ok}}
<1> DEFINE res == H!Statuses(readings)
           A == {res[k] : k \in DOMAIN res}
<1>1. res = [k \in 1 .. 4 |-> H!Status(H!Check[k], readings[k])]
  BY HealthReadings DEF H!Statuses
<1>2. st = H!Worst(A) /\ H!Report(readings).issues = H!Bad(res)
  BY DEF H!Report
<1>3. A \in SUBSET {H!Ok, H!Warn, H!Critical} /\ res[1] \in A
  BY <1>1, StatusOfCheck
<1>4. st \in A /\ \A s \in A : s <= st
  BY <1>2, <1>3, WorstIs
<1>5. H!Bad(res) = {H!Check[k] : k \in {j \in 1 .. 4 : H!Status(H!Check[j], readings[j]) # H!Ok}}
  BY <1>1 DEF H!Bad
<1> QED BY <1>1, <1>2, <1>4, <1>5

(* The status is of some check meanwhile, and no better than any was.      *)
THEOREM StatusIsWorst == Spec => []WorstMeanwhile
<1>1. CollectInv => WorstMeanwhile
  <2> SUFFICES ASSUME CollectInv, Answers("health"), NEW st, st = H!Report(readings).status
               PROVE  /\ \A c \in DOMAIN had : \E r \in had[c] : H!Status(c, r) <= st
                      /\ \E c \in DOMAIN had : \E r \in had[c] : H!Status(c, r) = st
    BY DEF WorstMeanwhile
  <2> QED BY HealthReadings, HealthReport
<1> QED BY <1>1, CollectInitInv, CollectNextInv, PTL DEF Spec

(* Issues are given if and only if the status is not Ok, and are true.     *)
THEOREM IssuesAreTrue == Spec => []IssuesExplain
<1>1. CollectInv => IssuesExplain
  <2> SUFFICES ASSUME CollectInv, Answers("health"),
                      NEW st, st = H!Report(readings).status,
                      NEW issues, issues = H!Report(readings).issues
               PROVE  /\ issues # {} <=> st # H!Ok
                      /\ \A c \in DOMAIN had :
                             /\ c \in issues => \E r \in had[c] : H!Status(c, r) # H!Ok
                             /\ (\A r \in had[c] : H!Status(c, r) # H!Ok) => c \in issues
    BY DEF IssuesExplain
  <2> DEFINE At(k) == H!Status(H!Check[k], readings[k])
  <2>1. /\ \A k \in 1 .. 4 : At(k) <= st
        /\ \E k \in 1 .. 4 : At(k) = st
        /\ issues = {H!Check[k] : k \in {j \in 1 .. 4 : At(j) # H!Ok}}
    BY HealthReport
  <2>2. issues # {} <=> \E k \in 1 .. 4 : At(k) # H!Ok
    BY <2>1
  <2>3. \A k \in 1 .. 4 : At(k) \in {H!Ok, H!Warn, H!Critical}
    BY StatusOfCheck
  <2> HIDE DEF At
  <2>4. issues # {} <=> st # H!Ok
    BY <2>1, <2>2, <2>3 DEF H!Ok, H!Warn, H!Critical
  <2>5. ASSUME NEW c \in DOMAIN had
        PROVE  /\ c \in issues => \E r \in had[c] : H!Status(c, r) # H!Ok
               /\ (\A r \in had[c] : H!Status(c, r) # H!Ok) => c \in issues
    BY <2>1, HealthReadings DEF At
  <2> QED BY <2>4, <2>5
<1> QED BY <1>1, CollectInitInv, CollectNextInv, PTL DEF Spec

-----------------------------------------------------------------------------
(* Sensors.                                                                *)
LEMMA SensorReadings ==
    ASSUME CollectInv, Answers("sensors")
    PROVE  /\ readings[1] \in had["temp1"] /\ readings[2] \in had["crit1"]
           /\ readings[3] \in had["temp2"] /\ readings[4] \in had["crit2"]
           /\ readings[5] \in had["zone"] /\ readings[6] \in had["fan"]
<1>1. T!Files = <<"temp1", "crit1", "temp2", "crit2", "zone", "fan">>
  BY DEF T!Files
<1>2. provider = "sensors" /\ DOMAIN had = Kind /\ readings \in Seq(Value)
  BY DEF CollectInv, CollectTypes, Answers
<1>3. Len(readings) = 6
  <2>1. InOrder(T!Files) = "done" /\ Len(readings) <= 6
    BY <1>2 DEF Answers, Wanted, CollectInv, Sourced, Most
  <2>2. Len(T!Files) = 6 /\ \A k \in 1 .. 6 : T!Files[k] # "done"
    BY <1>1
  <2> QED BY <1>2, <2>1, <2>2, AllRead
<1>4. \A k \in 1 .. 6 : readings[k] \in had[T!Files[k]]
  BY <1>1, <1>2, <1>3 DEF CollectInv, Sourced, Origin
<1> QED BY <1>1, <1>4

(* Some temperature that could be read is at this level.                   *)
AtLevel(l) ==
    \/ readings[1] # Unreadable /\ T!Level(readings[1], readings[2]) = l
    \/ readings[3] # Unreadable /\ T!Level(readings[3], readings[4]) = l

LEMMA SensorReport ==
    T!Report(readings) =
        IF readings[1] = Unreadable /\ readings[3] = Unreadable /\ readings[5] = Unreadable
        THEN [status |-> T!Silent, fan |-> FALSE]
        ELSE [status |-> IF AtLevel(T!Critical) THEN T!Critical
                         ELSE IF AtLevel(T!Warn) THEN T!Warn ELSE T!Ok,
              fan |-> readings[6] # Unreadable]
<1> DEFINE At(f) == readings[CHOOSE k \in DOMAIN T!Files : T!Files[k] = f]
           temps == {t \in DOMAIN T!Temperature : At(t) # Unreadable}
           levels == {T!Level(At(t), At(T!Temperature[t])) : t \in temps}
<1>1. T!Files = <<"temp1", "crit1", "temp2", "crit2", "zone", "fan">>
  BY DEF T!Files
<1>2. T!Temperature = [temp1 |-> "crit1", temp2 |-> "crit2"]
  BY DEF T!Temperature
<1>3. /\ At("temp1") = readings[1] /\ At("crit1") = readings[2]
      /\ At("temp2") = readings[3] /\ At("crit2") = readings[4]
      /\ At("zone") = readings[5] /\ At("fan") = readings[6]
  BY <1>1
<1> HIDE DEF At
<1>4. temps = {t \in {"temp1", "temp2"} : At(t) # Unreadable}
  BY <1>2
<1>5. temps = {} <=> readings[1] = Unreadable /\ readings[3] = Unreadable
  BY <1>3, <1>4
<1>6. \A l : l \in levels <=> AtLevel(l)
  BY <1>2, <1>3, <1>4 DEF AtLevel
<1>7. T!Report(readings) =
          IF temps = {} /\ At("zone") = Unreadable
          THEN [status |-> T!Silent, fan |-> FALSE]
          ELSE [status |-> IF T!Critical \in levels THEN T!Critical
                           ELSE IF T!Warn \in levels THEN T!Warn ELSE T!Ok,
                fan |-> At("fan") # Unreadable]
  BY DEF T!Report, At
<1> HIDE DEF temps, levels
<1> QED BY <1>3, <1>5, <1>6, <1>7

(* A sensor alarm was the case at some time, and one that was the case all *)
(* the time is raised.                                                     *)
THEOREM SensorAlarms == Spec => []AlarmsAreTrue
<1>1. CollectInv => AlarmsAreTrue
  <2> SUFFICES ASSUME CollectInv, Answers("sensors") PROVE AlarmsAreTrue
    BY DEF AlarmsAreTrue
  <2> DEFINE silent == readings[1] = Unreadable /\ readings[3] = Unreadable /\ readings[5] = Unreadable
             report == T!Report(readings)
             Over(v, c) == v >= c
             Near(v, c) == 10 * v >= 9 * c
             Temps == DOMAIN T!Temperature
             AlwaysOver(t) ==
                 \A v \in had[t], c \in had[T!Temperature[t]] :
                     v # Unreadable /\ c # Unreadable /\ Over(v, c)
             AlwaysNear(t) ==
                 \A v \in had[t], c \in had[T!Temperature[t]] :
                     v # Unreadable /\ c # Unreadable /\ Near(v, c)
             OnceOver(t) ==
                 \E v \in had[t], c \in had[T!Temperature[t]] :
                     v # Unreadable /\ c # Unreadable /\ Over(v, c)
             OnceNear(t) ==
                 \E v \in had[t], c \in had[T!Temperature[t]] :
                     v # Unreadable /\ c # Unreadable /\ Near(v, c)
  <2>1. Temps = {"temp1", "temp2"}
        /\ T!Temperature["temp1"] = "crit1" /\ T!Temperature["temp2"] = "crit2"
    BY DEF T!Temperature
  <2>2. CASE silent
    <3>1. report.status = T!Silent
      BY <2>2, SensorReport
    <3>2. T!Silent \notin {T!Ok, T!Warn, T!Critical}
      BY DEF T!Silent, T!Ok, T!Warn, T!Critical
    <3>3. \A t \in Temps \cup {"zone"} : Unreadable \in had[t]
      BY <2>1, <2>2, SensorReadings
    <3>4. \A t \in Temps : ~AlwaysOver(t)
      BY <2>1, <3>3, SensorReadings
    <3> QED BY <3>1, <3>2, <3>3, <3>4 DEF AlarmsAreTrue
  <2>3. CASE ~silent
    <3> DEFINE level == IF AtLevel(T!Critical) THEN T!Critical
                        ELSE IF AtLevel(T!Warn) THEN T!Warn ELSE T!Ok
    <3>1. report.status = level /\ (report.fan <=> readings[6] # Unreadable)
      <4>1. report = [status |-> level, fan |-> readings[6] # Unreadable]
        BY <2>3, SensorReport
      <4> HIDE DEF level, report
      <4> QED BY <4>1
    <3>2. report.status # T!Silent
      BY <3>1 DEF T!Silent, T!Ok, T!Warn, T!Critical
    <3>3. Unreadable \notin had["fan"] => report.fan
      BY <3>1, SensorReadings
    <3>4. (\E t \in Temps : AlwaysOver(t)) => report.status = T!Critical
      <4>1. (\E t \in Temps : AlwaysOver(t)) => AtLevel(T!Critical)
        BY <2>1, SensorReadings DEF AtLevel, T!Level
      <4> QED BY <3>1, <4>1
    <3>5. (\E t \in Temps : AlwaysNear(t)) => report.status # T!Ok
      <4>1. (\E t \in Temps : AlwaysNear(t)) => AtLevel(T!Critical) \/ AtLevel(T!Warn)
        BY <2>1, SensorReadings DEF AtLevel, T!Level
      <4> QED BY <3>1, <4>1 DEF T!Ok, T!Warn, T!Critical
    <3>6. report.status = T!Critical => \E t \in Temps : OnceOver(t)
      <4>1. AtLevel(T!Critical) => \E t \in Temps : OnceOver(t)
        BY <2>1, SensorReadings DEF AtLevel, T!Level, T!Ok, T!Warn, T!Critical
      <4> QED BY <3>1, <4>1 DEF T!Ok, T!Warn, T!Critical
    <3>7. report.status = T!Warn => \E t \in Temps : OnceNear(t)
      <4>1. AtLevel(T!Warn) => \E t \in Temps : OnceNear(t)
        BY <2>1, SensorReadings DEF AtLevel, T!Level, T!Ok, T!Warn, T!Critical
      <4> QED BY <3>1, <4>1 DEF T!Ok, T!Warn, T!Critical
    <3> QED BY <3>2, <3>3, <3>4, <3>5, <3>6, <3>7 DEF AlarmsAreTrue
  <2> QED BY <2>2, <2>3
<1> QED BY <1>1, CollectInitInv, CollectNextInv, PTL DEF Spec

-----------------------------------------------------------------------------
(* Connections.                                                            *)
LEMMA TableReadings ==
    ASSUME CollectInv, Answers("connections")
    PROVE  /\ readings[1] \in had["tcp"] /\ readings[2] \in had["tcp6"]
           /\ readings[3] \in had["udp"] /\ readings[4] \in had["udp6"]
           /\ \A f \in {"tcp", "tcp6", "udp", "udp6"} : \A x \in had[f] :
                  IsFiniteSet(N!Rows(x)) /\ \A row \in N!Rows(x) : row.port \in Nat
<1>1. N!Files = <<"tcp", "tcp6", "udp", "udp6">>
  BY DEF N!Files
<1>2. provider = "connections" /\ DOMAIN had = Kind /\ readings \in Seq(Value)
  BY DEF CollectInv, CollectTypes, Answers
<1>3. Len(readings) = 4
  <2>1. InOrder(N!Files) = "done" /\ Len(readings) <= 4
    BY <1>2 DEF Answers, Wanted, CollectInv, Sourced, Most
  <2>2. Len(N!Files) = 4 /\ \A k \in 1 .. 4 : N!Files[k] # "done"
    BY <1>1
  <2> QED BY <1>2, <2>1, <2>2, AllRead
<1>4. \A k \in 1 .. 4 : readings[k] \in had[N!Files[k]]
  BY <1>1, <1>2, <1>3 DEF CollectInv, Sourced, Origin
<1>5. Sources(N!Files) = {"tcp", "tcp6", "udp", "udp6"} /\ Kind = Sources(N!Files)
  BY <1>1, <1>2, SourcesAssumption DEF Sources, Kind
<1>6. \A f \in Kind : had[f] \subseteq Reading["connections"][f]
  BY <1>2 DEF CollectInv, Noted
<1> QED BY <1>1, <1>4, <1>5, <1>6, TableAssumption

LEMMA PortsOfPair ==
    ASSUME NEW a, NEW b, NEW state
    PROVE  N!Ports(N!ReadPair(a, b), state)
               = {row.port : row \in {r \in N!Rows(a) \cup N!Rows(b) : r.state = state}}
<1> DEFINE pairs == {<<1, row>> : row \in N!Rows(a)} \cup {<<2, row>> : row \in N!Rows(b)}
<1>1. N!Ports(N!ReadPair(a, b), state) = {x[2].port : x \in {y \in pairs : y[2].state = state}}
  BY DEF N!Ports, N!ReadPair, N!InState
<1>2. \A y \in pairs : y[2] \in N!Rows(a) \cup N!Rows(b)
  OBVIOUS
<1>3. ASSUME NEW row \in N!Rows(a) \cup N!Rows(b) PROVE \E y \in pairs : y[2] = row
  <2>1. <<1, row>> \in pairs \/ <<2, row>> \in pairs
    OBVIOUS
  <2>2. <<1, row>>[2] = row /\ <<2, row>>[2] = row
    OBVIOUS
  <2> HIDE DEF pairs
  <2> QED BY <2>1, <2>2
<1> HIDE DEF pairs
<1> QED BY <1>1, <1>2, <1>3

(* The connections of both tables, of which none is counted twice.         *)
LEMMA OpenOfPair ==
    ASSUME NEW a, NEW b, IsFiniteSet(N!Rows(a)), IsFiniteSet(N!Rows(b)), NEW state
    PROVE  Cardinality(N!InState(N!ReadPair(a, b), state))
               = Cardinality({r \in N!Rows(a) : r.state = state})
                     + Cardinality({r \in N!Rows(b) : r.state = state})
<1> DEFINE A == {r \in N!Rows(a) : r.state = state}
           B == {r \in N!Rows(b) : r.state = state}
           A1 == {<<1, r>> : r \in A}
           B2 == {<<2, r>> : r \in B}
           f == [r \in A |-> <<1, r>>]
           g == [r \in B |-> <<2, r>>]
<1>1. IsFiniteSet(A) /\ IsFiniteSet(B)
  BY FS_Subset
<1>2. N!InState(N!ReadPair(a, b), state) = A1 \cup B2
  <2> DEFINE pairs == {<<1, row>> : row \in N!Rows(a)} \cup {<<2, row>> : row \in N!Rows(b)}
  <2>1. N!InState(N!ReadPair(a, b), state) = {y \in pairs : y[2].state = state}
    BY DEF N!ReadPair, N!InState
  <2> QED BY <2>1
<1>3. f \in Bijection(A, A1) /\ g \in Bijection(B, B2)
  BY DEF Bijection, Injection, IsInjective, Surjection
<1>4. IsFiniteSet(A1) /\ Cardinality(A1) = Cardinality(A)
  BY <1>1, <1>3, FS_Bijection DEF ExistsBijection
<1>5. IsFiniteSet(B2) /\ Cardinality(B2) = Cardinality(B)
  BY <1>1, <1>3, FS_Bijection DEF ExistsBijection
<1>6. A1 \cap B2 = {}
  OBVIOUS
<1>7. Cardinality(A1 \cup B2) = Cardinality(A1) + Cardinality(B2) - Cardinality({})
  BY <1>4, <1>5, <1>6, FS_Union
<1>8. Cardinality(A) \in Nat /\ Cardinality(B) \in Nat /\ Cardinality({}) = 0
  BY <1>1, FS_CardinalityType, FS_EmptySet
<1> HIDE DEF A1, B2, A, B
<1> QED BY <1>2, <1>4, <1>5, <1>7, <1>8 DEF A, B

(* The ports shown are the first Top, and the others are counted.          *)
LEMMA ShownAndMore ==
    ASSUME NEW ports \in SUBSET Nat, IsFiniteSet(ports)
    PROVE  Cardinality({p \in ports : Cardinality({q \in ports : q < p}) < Top})
               + (IF Cardinality(ports) > Top THEN Cardinality(ports) - Top ELSE 0)
               = Cardinality(ports)
<1> DEFINE c == Cardinality(ports)
           most == IF c > Top THEN Top ELSE c
           Below(p) == {q \in ports : q < p}
           shown == {p \in ports : Cardinality(Below(p)) < Top}
<1>1. c \in Nat /\ Top \in Nat /\ ports \in SUBSET Int
  BY FS_CardinalityType, TopAssumption
<1>2. ASSUME NEW p \in ports
      PROVE  Cardinality(Below(p)) = Rank(ports, p) - 1
  <2>1. Upto(ports, p) = Below(p) \cup {p} /\ p \notin Below(p) /\ Below(p) \subseteq ports
    <3>1. \A q \in ports : q \in Nat /\ (q <= p <=> q < p \/ q = p) /\ ~(p < p)
      OBVIOUS
    <3> QED BY <3>1 DEF Upto
  <2>2. IsFiniteSet(Below(p)) /\ Cardinality(Below(p)) \in Nat
    BY <2>1, FS_Subset, FS_CardinalityType
  <2>3. Cardinality(Below(p) \cup {p}) = Cardinality(Below(p)) + 1
    BY <2>1, <2>2, FS_AddElement
  <2> HIDE DEF Below
  <2> QED BY <2>1, <2>2, <2>3 DEF Rank
<1>3. \A p \in ports : Rank(ports, p) \in 1 .. c
  BY <1>1, RankRange
<1>4. shown = {p \in ports : 0 < Rank(ports, p) /\ Rank(ports, p) <= most}
  <2> SUFFICES ASSUME NEW p \in ports
               PROVE  Cardinality(Below(p)) < Top <=> 0 < Rank(ports, p) /\ Rank(ports, p) <= most
    OBVIOUS
  <2> DEFINE r == Rank(ports, p)
  <2>1. r \in 1 .. c /\ Cardinality(Below(p)) = r - 1
    BY <1>2, <1>3
  <2> HIDE DEF r, c, Below
  <2> QED BY <1>1, <2>1 DEF r
<1>5. most \in Nat /\ most <= c
  <2> HIDE DEF c
  <2> QED BY <1>1
<1>6. Cardinality(shown) = most
  <2>1. Cardinality({p \in ports : 0 < Rank(ports, p) /\ Rank(ports, p) <= most}) = most - 0
    BY <1>1, <1>5, RankInterval DEF Page
  <2> HIDE DEF most, shown
  <2>2. Cardinality(shown) = most - 0
    BY <1>4, <2>1
  <2> QED BY <1>5, <2>2
<1> HIDE DEF shown, c
<1> QED BY <1>1, <1>6 DEF shown, c

(* A port is in the answer when a table has it, and then it was in that    *)
(* table meanwhile.                                                        *)
InTable(table, state) == {row.port : row \in {r \in N!Rows(table) : r.state = state}}

LEMMA PortsAreOfTables ==
    ASSUME NEW a, NEW b, NEW state
    PROVE  N!Ports(N!ReadPair(a, b), state) = InTable(a, state) \cup InTable(b, state)
  BY PortsOfPair DEF InTable

LEMMA SameCardinality == \A A : N!Cardinality(A) = Cardinality(A)
  BY DEF N!Cardinality, Cardinality

(* Ports and connections are what the tables had, each at some time.       *)
THEOREM PortsAreTrue == Spec => []PortsAreReal
<1>1. CollectInv => PortsAreReal
  <2> SUFFICES ASSUME CollectInv, Answers("connections") PROVE PortsAreReal
    BY DEF PortsAreReal
  <2> DEFINE report == N!Report(readings)
             Real(ports, state, one, other) ==
                 /\ \A p \in ports : \E f \in {one, other} : \E x \in had[f] : p \in InTable(x, state)
                 /\ \A f \in {one, other} : \A x \in had[f] : \A p \in InTable(x, state) :
                        p > 0 /\ (\A y \in had[f] : p \in InTable(y, state)) => p \in ports
             Open(f) ==
                 {Cardinality({r \in N!Rows(x) : r.state = "ESTABLISHED"}) : x \in had[f]}
             tcp == N!ReadPair(readings[1], readings[2])
             listeners == N!Ports(tcp, "LISTEN")
             shown == {p \in listeners : Cardinality({q \in listeners : q < p}) < Top}
  <2>1. /\ report.listening = InTable(readings[1], "LISTEN") \cup InTable(readings[2], "LISTEN")
        /\ report.udp_ports = (InTable(readings[3], "UDP") \cup InTable(readings[4], "UDP")) \ {0}
        /\ report.established = Cardinality(N!InState(tcp, "ESTABLISHED"))
        /\ report.listening = listeners /\ report.shown = shown
        /\ report.more = IF Cardinality(listeners) > Top THEN Cardinality(listeners) - Top ELSE 0
    <3> DEFINE udp == N!ReadPair(readings[3], readings[4])
               more == IF Cardinality(listeners) > Top THEN Cardinality(listeners) - Top ELSE 0
    <3> DEFINE Card(A) == N!Cardinality(A)
               first == {p \in listeners : Card({q \in listeners : q < p}) < Top}
               rest == IF Card(listeners) > Top THEN Card(listeners) - Top ELSE 0
    <3>1. report = [listening |-> listeners,
                    udp_ports |-> N!Ports(udp, "UDP") \ {0},
                    established |-> Card(N!InState(tcp, "ESTABLISHED")),
                    shown |-> first,
                    more |-> rest]
      BY DEF N!Report
    <3>2. first = shown /\ rest = more
      <4> HIDE DEF listeners
      <4> QED BY SameCardinality
    <3>3. /\ listeners = InTable(readings[1], "LISTEN") \cup InTable(readings[2], "LISTEN")
          /\ N!Ports(udp, "UDP") = InTable(readings[3], "UDP") \cup InTable(readings[4], "UDP")
      BY PortsAreOfTables
    <3>4. Card(N!InState(tcp, "ESTABLISHED")) = Cardinality(N!InState(tcp, "ESTABLISHED"))
      BY SameCardinality
    <3> HIDE DEF report, listeners, tcp, udp, shown, more, first, rest, Card
    <3>5. /\ report.listening = listeners /\ report.udp_ports = N!Ports(udp, "UDP") \ {0}
          /\ report.established = Card(N!InState(tcp, "ESTABLISHED"))
          /\ report.shown = first /\ report.more = rest
      BY <3>1
    <3> QED BY <3>2, <3>3, <3>4, <3>5 DEF more
  <2>2. Real(report.listening, "LISTEN", "tcp", "tcp6")
    BY <2>1, TableReadings
  <2>3. Real(report.udp_ports, "UDP", "udp", "udp6")
    <3>1. ~(0 > 0)
      OBVIOUS
    <3> QED BY <2>1, <3>1, TableReadings
  <2>4. \E m \in Open("tcp"), n \in Open("tcp6") : report.established = m + n
    <3>1. report.established = Cardinality({r \in N!Rows(readings[1]) : r.state = "ESTABLISHED"})
                                   + Cardinality({r \in N!Rows(readings[2]) : r.state = "ESTABLISHED"})
      BY <2>1, TableReadings, OpenOfPair
    <3> QED BY <3>1, TableReadings
  <2>5. Cardinality(report.shown) + report.more = Cardinality(report.listening)
    <3>1. IsFiniteSet(N!Rows(readings[1]) \cup N!Rows(readings[2]))
      BY TableReadings, FS_Union
    <3> DEFINE open == {r \in N!Rows(readings[1]) \cup N!Rows(readings[2]) : r.state = "LISTEN"}
               f == [r \in open |-> r.port]
    <3>2. IsFiniteSet(open)
      BY <3>1, FS_Subset
    <3>3. listeners = {r.port : r \in open}
      BY PortsOfPair
    <3>4. f \in Surjection(open, listeners)
      BY <3>3 DEF Surjection
    <3>5. IsFiniteSet(listeners)
      BY <3>2, <3>4, FS_Surjection
    <3>6. listeners \in SUBSET Nat
      BY <3>3, TableReadings
    <3> HIDE DEF listeners
    <3> QED BY <2>1, <3>5, <3>6, ShownAndMore
  <2> HIDE DEF report
  <2> QED BY <2>2, <2>3, <2>4, <2>5 DEF PortsAreReal, InTable, report
<1> QED BY <1>1, CollectInitInv, CollectNextInv, PTL DEF Spec

-----------------------------------------------------------------------------
(* Services and users.                                                     *)
LEMMA UnitReadings ==
    ASSUME CollectInv, Answers("services")
    PROVE  /\ Len(readings) = IF S!exists(readings[2]) THEN 3 ELSE 2
           /\ \A k \in 1 .. Len(readings) : readings[k] \in had["systemctl"]
           /\ had["systemctl"] \subseteq S!State
<1>1. provider = "services" /\ Len(readings) \in Nat
  BY DEF Answers, CollectInv, CollectTypes
<1>2. S!Plan(readings) = "done" /\ Len(readings) <= 3
  BY <1>1 DEF Answers, Wanted, CollectInv, Sourced, Most
<1>3. Len(readings) \in {2, 3} /\ (Len(readings) = 2 => ~S!exists(readings[2]))
  <2> DEFINE n == Len(readings)
  <2>1. ~(n < 2) /\ (n = 2 => ~S!exists(readings[2])) /\ n \in Nat /\ n <= 3
    BY <1>1, <1>2 DEF S!Plan
  <2> HIDE DEF n
  <2>2. n \in {2, 3}
    BY <2>1
  <2> QED BY <2>1, <2>2 DEF n
<1>4. Len(readings) = 3 => S!exists(readings[2])
  BY <1>1, <1>3 DEF CollectInv, Called
<1>5. \A k \in 1 .. 3 : Origin(k) = "systemctl"
  BY <1>1 DEF Origin
<1>6. Kind = {"systemctl"} /\ had["systemctl"] \subseteq Reading["services"]["systemctl"]
  BY <1>1, SourcesAssumption DEF CollectInv, Noted, Kind
<1> QED BY <1>3, <1>4, <1>5, <1>6, UnitAssumption DEF CollectInv, Sourced

(* Listing, lookup and read agree on a unit that does not change.          *)
THEOREM ServicesAgreeAlways == Spec => []ServicesAgree
<1>1. CollectInv => ServicesAgree
  <2> SUFFICES ASSUME CollectInv, Answers("services") PROVE ServicesAgree
    BY DEF ServicesAgree
  <2> DEFINE report == S!Report(readings)
  <2>1. /\ Len(readings) = IF S!exists(readings[2]) THEN 3 ELSE 2
        /\ readings[1] \in had["systemctl"] /\ readings[2] \in had["systemctl"]
        /\ Len(readings) = 3 => readings[3] \in had["systemctl"]
        /\ had["systemctl"] \subseteq S!State
    BY UnitReadings
  <2>2. /\ report.listed <=> readings[1] = "loaded"
        /\ report.found <=> readings[2] \in {"loaded", "marked", "failing"}
        /\ report.answer <=> Len(readings) = 3 /\ readings[3] \in {"loaded", "marked", "unknown"}
    BY DEF S!Report, S!listed, S!exists, S!answers
  <2>3. Len(readings) = 3 <=> report.found
    BY <2>1, <2>2 DEF S!exists
  <2> HIDE DEF report
  <2> QED BY <2>1, <2>2, <2>3 DEF ServicesAgree, S!State, report
<1> QED BY <1>1, CollectInitInv, CollectNextInv, PTL DEF Spec

LEMMA UserReadings ==
    ASSUME CollectInv, Answers("users")
    PROVE  /\ Len(readings) \in {2, 4, 5}
           /\ Len(readings) = 2 <=> readings[2] # "line"
           /\ Len(readings) = 5 <=> Len(readings) # 2 /\ readings[3] = "out" /\ readings[4] # "none"
           /\ readings[1] \in had["who"] /\ readings[2] \in had["passwd"]
           /\ Len(readings) # 2 => readings[3] \in had["who"] /\ readings[4] \in had["passwd"]
           /\ Len(readings) = 5 => readings[5] \in had["passwd"]
           /\ had["who"] \subseteq {"in", "out"}
           /\ had["passwd"] \subseteq {"line", "none", Unreadable}
<1> DEFINE n == Len(readings)
<1>1. provider = "users" /\ n \in Nat
  BY DEF Answers, CollectInv, CollectTypes
<1>2. U!Plan(readings) = "done" /\ n <= 5
  BY <1>1 DEF Answers, Wanted, CollectInv, Sourced, Most
<1>3. n \in {0, 1, 2, 3, 4, 5}
  <2> HIDE DEF n
  <2> QED BY <1>1, <1>2
<1>4. n # 0 /\ n # 1 /\ n # 3
  BY <1>2 DEF U!Plan
<1>5. n = 2 => ~U!exists(readings[2])
  BY <1>2 DEF U!Plan
<1>6. n = 4 => ~(readings[3] = "out" /\ readings[4] # "none")
  BY <1>2 DEF U!Plan
<1>7. /\ n \in {4, 5} => U!exists(readings[2])
      /\ n = 5 => readings[3] = "out" /\ readings[4] # "none"
  <2>1. /\ n >= 3 => U!exists(readings[2])
        /\ n >= 5 => readings[3] = "out" /\ readings[4] # "none"
    BY <1>1 DEF CollectInv, Called
  <2> HIDE DEF n
  <2> QED BY <2>1
<1>8. /\ Origin(1) = "who" /\ Origin(2) = "passwd" /\ Origin(3) = "who"
      /\ Origin(4) = "passwd" /\ Origin(5) = "passwd"
  BY <1>1 DEF Origin
<1>9. /\ readings[1] \in had["who"] /\ readings[2] \in had["passwd"]
      /\ n \in {4, 5} => readings[3] \in had["who"] /\ readings[4] \in had["passwd"]
      /\ n = 5 => readings[5] \in had["passwd"]
  BY <1>3, <1>4, <1>8 DEF CollectInv, Sourced
<1>10. had["who"] \subseteq {"in", "out"} /\ had["passwd"] \subseteq {"line", "none", Unreadable}
  <2>1. Kind = {"who", "passwd"} /\ \A c \in Kind : had[c] \subseteq Reading["users"][c]
    BY <1>1, SourcesAssumption DEF CollectInv, Noted, Kind
  <2> QED BY <2>1, UserAssumption
<1> HIDE DEF n
<1>11. n \in {2, 4, 5}
  BY <1>3, <1>4
<1>12. (n = 2 <=> readings[2] # "line")
       /\ (n = 5 <=> n # 2 /\ readings[3] = "out" /\ readings[4] # "none")
  BY <1>5, <1>6, <1>7, <1>11 DEF U!exists
<1> QED BY <1>9, <1>10, <1>11, <1>12 DEF n

(* What is said of a name was so of its session and its line meanwhile.    *)
THEOREM UsersAgreeAlways == Spec => []UsersAgree
<1>1. CollectInv => UsersAgree
  <2> SUFFICES ASSUME CollectInv, Answers("users") PROVE UsersAgree
    BY DEF UsersAgree
  <2> DEFINE report == U!Report(readings)
             n == Len(readings)
             none == n = 2 \/ (readings[3] = "out" /\ readings[4] = "none")
  <2>1. n \in {2, 4, 5}
    BY UserReadings
  <2>2. /\ report.listed <=> readings[1] = "in"
        /\ report.found <=> readings[2] = "line"
        /\ report.answer = IF ~(n > 2) \/ (readings[3] = "out" /\ readings[4] = "none")
                           THEN "none" ELSE readings[3]
        /\ report.account <=> n > 2 /\ readings[n] = "line"
    BY DEF U!Report, U!exists
  <2>3. (n > 2 <=> n # 2) /\ (n = 4 \/ n = 5 <=> n # 2) /\ ~(n = 4 /\ n = 5)
    <3> HIDE DEF n
    <3> QED BY <2>1
  <2> HIDE DEF report
  <2>4. CASE n = 2
    BY <2>2, <2>3, <2>4, UserReadings DEF UsersAgree, report
  <2>5. CASE n = 4
    BY <2>2, <2>3, <2>5, UserReadings DEF UsersAgree, report
  <2>6. CASE n = 5
    BY <2>2, <2>3, <2>6, UserReadings DEF UsersAgree, report
  <2> QED BY <2>1, <2>4, <2>5, <2>6
<1> QED BY <1>1, CollectInitInv, CollectNextInv, PTL DEF Spec

-----------------------------------------------------------------------------
(* Streams.  How the ranks change when an element comes or goes.           *)
LEMMA RankAfterGain ==
    ASSUME NEW A \in SUBSET Int, IsFiniteSet(A), NEW n \in Int, n \notin A, NEW m \in Int
    PROVE  Rank(A \cup {n}, m) = Rank(A, m) + (IF n <= m THEN 1 ELSE 0)
<1>1. IsFiniteSet(Upto(A, m)) /\ Cardinality(Upto(A, m)) \in Nat
  BY UptoIsFinite DEF Rank
<1>2. CASE n <= m
  <2>1. Upto(A \cup {n}, m) = Upto(A, m) \cup {n} /\ n \notin Upto(A, m)
    BY <1>2 DEF Upto
  <2>2. Cardinality(Upto(A, m) \cup {n}) = Cardinality(Upto(A, m)) + 1
    BY <1>1, <2>1, FS_AddElement
  <2> QED BY <1>2, <2>1, <2>2 DEF Rank
<1>3. CASE ~(n <= m)
  <2>1. Upto(A \cup {n}, m) = Upto(A, m)
    BY <1>3 DEF Upto
  <2> QED BY <1>1, <1>3, <2>1 DEF Rank
<1> QED BY <1>2, <1>3

LEMMA OneMoreAtMost ==
    ASSUME NEW A, IsFiniteSet(A), NEW B, \A x, y \in B : x \notin A /\ y \notin A => x = y
    PROVE  Cardinality(B) \in Nat /\ Cardinality(B) <= Cardinality(A) + 1
<1>1. Cardinality(A) \in Nat
  BY FS_CardinalityType
<1>2. CASE B \subseteq A
  <2>1. IsFiniteSet(B) /\ Cardinality(B) <= Cardinality(A)
    BY <1>2, FS_Subset
  <2>2. Cardinality(B) \in Nat
    BY <2>1, FS_CardinalityType
  <2> QED BY <1>1, <2>1, <2>2
<1>3. CASE ~(B \subseteq A)
  <2> PICK x \in B : x \notin A
    BY <1>3
  <2>1. B \subseteq A \cup {x}
    OBVIOUS
  <2>2. IsFiniteSet(A \cup {x}) /\ Cardinality(A \cup {x}) = Cardinality(A) + 1
    BY FS_AddElement
  <2>3. IsFiniteSet(B) /\ Cardinality(B) <= Cardinality(A \cup {x})
    BY <2>1, <2>2, FS_Subset
  <2>4. Cardinality(B) \in Nat
    BY <2>3, FS_CardinalityType
  <2> QED BY <2>2, <2>3, <2>4
<1> QED BY <1>2, <1>3

(* Those of a set up to a rank, and those beyond it.                       *)
Behind(A, C, o) == {m \in C : Rank(A, m) <= o}
Beyond(A, C, o) == {m \in C \cap A : Rank(A, m) > o}

LEMMA BehindAfterGain ==
    ASSUME NEW A \in SUBSET Int, IsFiniteSet(A), NEW n \in Int, n \notin A,
           NEW C \in SUBSET A, NEW o \in Nat
    PROVE  Behind(A \cup {n}, C, o) \subseteq Behind(A, C, o)
<1> SUFFICES ASSUME NEW m \in C, Rank(A \cup {n}, m) <= o PROVE Rank(A, m) <= o
  BY DEF Behind
<1>1. Rank(A, m) \in Nat
  BY UptoIsFinite
<1> QED BY <1>1, RankAfterGain

LEMMA BeyondAfterGain ==
    ASSUME NEW A \in SUBSET Int, IsFiniteSet(A), NEW n \in Int, n \notin A, NEW C, NEW o \in Nat
    PROVE  /\ Cardinality(Beyond(A \cup {n}, C, o)) \in Nat
           /\ Cardinality(Beyond(A \cup {n}, C, o)) <= Cardinality(Beyond(A, C, o)) + 1
<1> DEFINE B == A \cup {n}
<1>1. B \in SUBSET Int /\ IsFiniteSet(B)
  BY FS_AddElement
<1>2. \A m \in Int : /\ Rank(A, m) \in Nat
                     /\ Rank(B, m) = Rank(A, m) + (IF n <= m THEN 1 ELSE 0)
  BY RankAfterGain, UptoIsFinite
<1> DEFINE New == Beyond(B, C, o) \ Beyond(A, C, o)
<1>3. ASSUME NEW z \in New
      PROVE  /\ z \in B /\ z \in Int /\ Rank(B, z) \in Nat /\ Rank(B, z) > o
             /\ z # n => n < z /\ Rank(B, z) = o + 1
  <2>1. z \in C \cap B /\ Rank(B, z) > o /\ ~(z \in C \cap A /\ Rank(A, z) > o)
    BY DEF Beyond
  <2>2. z \in Int /\ Rank(A, z) \in Nat /\ Rank(B, z) = Rank(A, z) + (IF n <= z THEN 1 ELSE 0)
    BY <1>1, <1>2, <2>1
  <2>3. z # n => Rank(A, z) <= o
    BY <2>1, <2>2
  <2> QED BY <2>1, <2>2, <2>3
<1>4. ASSUME NEW x \in New, NEW y \in New PROVE x = y
  <2> HIDE DEF B, New
  <2>1. ASSUME NEW z \in New, z # n, n \in New PROVE FALSE
    <3>1. n \in B /\ z \in B /\ n < z /\ Rank(B, z) = o + 1
      BY <1>3, <2>1
    <3>2. Rank(B, n) < Rank(B, z)
      BY <1>1, <3>1, RankGrows
    <3>3. Rank(B, n) > o /\ Rank(B, n) \in Nat
      BY <1>3, <2>1
    <3> QED BY <3>1, <3>2, <3>3
  <2>2. CASE x # n /\ y # n
    <3>1. Rank(B, x) = Rank(B, y) /\ x \in B /\ y \in B
      BY <1>3, <2>2
    <3> QED BY <1>1, <3>1, RankIsOneToOne
  <2> QED BY <2>1, <2>2
<1>5. IsFiniteSet(Beyond(A, C, o))
  BY FS_Subset DEF Beyond
<1>6. \A x, y \in Beyond(B, C, o) : x \notin Beyond(A, C, o) /\ y \notin Beyond(A, C, o) => x = y
  BY <1>4
<1> QED BY <1>5, <1>6, OneMoreAtMost

LEMMA BeyondAfterLoss ==
    ASSUME NEW A \in SUBSET Int, IsFiniteSet(A), NEW n \in A, NEW C, NEW o \in Nat
    PROVE  Beyond(A \ {n}, C, o) \subseteq Beyond(A, C, o)
<1> DEFINE B == A \ {n}
<1>1. IsFiniteSet(B) /\ B \in SUBSET Int /\ B \cup {n} = A
  BY FS_Subset
<1> SUFFICES ASSUME NEW m \in C \cap B, Rank(B, m) > o PROVE Rank(A, m) > o
  BY DEF Beyond
<1>2. n \notin B /\ n \in Int /\ m \in Int
  OBVIOUS
<1> HIDE DEF B
<1>3. Rank(B, m) \in Nat /\ Rank(B \cup {n}, m) = Rank(B, m) + (IF n <= m THEN 1 ELSE 0)
  BY <1>1, <1>2, UptoIsFinite, RankAfterGain
<1>4. Rank(A, m) = Rank(B, m) + (IF n <= m THEN 1 ELSE 0)
  BY <1>1, <1>3
<1> QED BY <1>2, <1>3, <1>4 DEF B

LEMMA BehindAfterLoss ==
    ASSUME NEW A \in SUBSET Int, IsFiniteSet(A), NEW n \in A, NEW C \in SUBSET A, NEW o \in Nat
    PROVE  /\ Cardinality(Behind(A \ {n}, C \ {n}, o)) \in Nat
           /\ Cardinality(Behind(A \ {n}, C \ {n}, o)) <= Cardinality(Behind(A, C, o)) + 1
<1> DEFINE B == A \ {n}
<1>1. IsFiniteSet(B) /\ B \in SUBSET Int /\ B \cup {n} = A
  BY FS_Subset
<1>2. \A m \in Int : /\ Rank(B, m) \in Nat
                     /\ Rank(A, m) = Rank(B, m) + (IF n <= m THEN 1 ELSE 0)
  BY <1>1, UptoIsFinite, RankAfterGain
<1>3. ASSUME NEW x \in Behind(B, C \ {n}, o), NEW y \in Behind(B, C \ {n}, o),
             x \notin Behind(A, C, o), y \notin Behind(A, C, o)
      PROVE  x = y
  <2>1. /\ x \in A /\ x \in Int /\ Rank(B, x) <= o /\ ~(Rank(A, x) <= o)
        /\ y \in A /\ y \in Int /\ Rank(B, y) <= o /\ ~(Rank(A, y) <= o)
    BY <1>3 DEF Behind
  <2> HIDE DEF B
  <2>2. ASSUME NEW z \in Int, Rank(B, z) <= o, ~(Rank(A, z) <= o) PROVE Rank(A, z) = o + 1
    <3>1. Rank(B, z) \in Nat /\ Rank(A, z) = Rank(B, z) + (IF n <= z THEN 1 ELSE 0)
      BY <1>2
    <3> QED BY <2>2, <3>1
  <2>3. Rank(A, x) = Rank(A, y)
    BY <2>1, <2>2
  <2> QED BY <2>1, <2>3, RankIsOneToOne
<1>4. IsFiniteSet(Behind(A, C, o))
  BY FS_Subset DEF Behind
<1> QED BY <1>3, <1>4, OneMoreAtMost

(* A page of the elements with the next ranks: those of them that had been *)
(* taken were beyond, and are not any more.                                *)
LEMMA BeyondAfterPage ==
    ASSUME NEW A \in SUBSET Int, IsFiniteSet(A), NEW C, IsFiniteSet(C), NEW o \in Nat, NEW q \in Nat,
           o <= q, q <= Cardinality(A)
    PROVE  /\ IsFiniteSet(C \cup Page(A, o, q))
           /\ Cardinality(C \cup Page(A, o, q)) - Cardinality(Beyond(A, C \cup Page(A, o, q), q))
                  = Cardinality(C) - Cardinality(Beyond(A, C, o)) + (q - o)
<1> DEFINE P == Page(A, o, q)
<1>1. IsFiniteSet(P) /\ Cardinality(P) = q - o
  BY RankInterval, FS_Subset DEF Page
<1>2. \A n \in A : Rank(A, n) \in Nat
  BY RankRange, FS_CardinalityType, UptoIsFinite
<1>3. Beyond(A, C \cup P, q) = Beyond(A, C, o) \ P
  <2> SUFFICES ASSUME NEW n \in A
               PROVE  n \in C \cup P /\ Rank(A, n) > q <=> n \in C /\ Rank(A, n) > o /\ n \notin P
    BY DEF Beyond
  <2>1. n \in P <=> o < Rank(A, n) /\ Rank(A, n) <= q
    BY DEF Page
  <2>2. Rank(A, n) \in Nat
    BY <1>2
  <2> DEFINE r == Rank(A, n)
  <2> HIDE DEF r
  <2>3. (r > q => r > o) /\ (r > q <=> ~(r <= q)) /\ (o < r <=> r > o)
    BY <2>2 DEF r
  <2> QED BY <2>1, <2>3 DEF r
<1>4. Beyond(A, C, o) \cap P = C \cap P
  BY <1>2 DEF Beyond, Page
<1>5. IsFiniteSet(Beyond(A, C, o)) /\ IsFiniteSet(C \cap P)
  BY <1>1, FS_Subset DEF Beyond
<1>6. Cardinality(Beyond(A, C, o) \ P) = Cardinality(Beyond(A, C, o)) - Cardinality(Beyond(A, C, o) \cap P)
  BY <1>5, FS_Difference
<1>7. IsFiniteSet(C \cup P) /\ Cardinality(C \cup P) = Cardinality(C) + Cardinality(P) - Cardinality(C \cap P)
  BY <1>1, FS_Union
<1>8. /\ Cardinality(C) \in Nat /\ Cardinality(P) \in Nat /\ Cardinality(C \cap P) \in Nat
      /\ Cardinality(Beyond(A, C, o)) \in Nat
  BY <1>1, <1>5, FS_CardinalityType
<1> DEFINE a == Cardinality(C)
           b == Cardinality(Beyond(A, C, o))
           d == Cardinality(C \cap P)
<1>9. /\ Cardinality(C \cup P) = a + (q - o) - d /\ Cardinality(Beyond(A, C \cup P, q)) = b - d
      /\ a \in Nat /\ b \in Nat /\ d \in Nat
  BY <1>1, <1>3, <1>4, <1>6, <1>7, <1>8
<1> HIDE DEF a, b, d, P
<1>10. Cardinality(C \cup P) - Cardinality(Beyond(A, C \cup P, q)) = a - b + (q - o)
  BY <1>9
<1> QED BY <1>7, <1>10 DEF a, b, P

-----------------------------------------------------------------------------
(* What a page is: the next elements of the whole, none at its end.        *)
LEMMA SliceIs ==
    ASSUME NEW V, whole \in Seq(V), offset \in Nat, NEW room \in Nat \ {0}
    PROVE  /\ Slice(room) \in Seq(V)
           /\ Len(Slice(room)) = 0 <=> offset >= Len(whole)
           /\ Len(Slice(room)) > 0 => offset + Len(Slice(room)) <= Len(whole)
           /\ \A k \in 1 .. Len(Slice(room)) :
                  offset + k \in 1 .. Len(whole) /\ Slice(room)[k] = whole[offset + k]
<1> DEFINE n == Len(whole)
           w == whole
           a == offset + 1
           b == IF offset + room <= n THEN offset + room ELSE n
           page == SubSeq(w, a, b)
<1>1. n \in Nat /\ a \in Int /\ b \in Int /\ Slice(room) = page
  BY DEF Slice
<1>2. \A k \in a .. b : k \in 1 .. n
  <2> HIDE DEF n
  <2> QED BY <1>1
<1>3. \A k \in a .. b : w[k] \in V
  BY <1>2
<1> HIDE DEF w
<1>4. /\ page \in Seq(V) /\ Len(page) = IF a <= b THEN b - a + 1 ELSE 0
      /\ \A k \in 1 .. b - a + 1 : page[k] = w[a + k - 1]
  <2> HIDE DEF a, b
  <2> QED BY <1>1, <1>3, SubSeqProperties
<1> HIDE DEF n, page
<1> DEFINE l == Len(page)
<1>5. l = IF a <= b THEN b - a + 1 ELSE 0
  BY <1>4
<1> HIDE DEF l
<1>6. /\ l = 0 <=> offset >= n
      /\ l > 0 => offset + l <= n
      /\ \A k \in 1 .. l : offset + k \in 1 .. n /\ k \in 1 .. b - a + 1 /\ a + k - 1 = offset + k
  BY <1>1, <1>5
<1> QED BY <1>1, <1>4, <1>6 DEF l, n, w

(* The elements of two sequences, one behind the other.                    *)
Elements(p) == {p[k] : k \in DOMAIN p}

LEMMA WiderSequence ==
    ASSUME NEW V, NEW W, V \subseteq W, NEW p \in Seq(V) PROVE p \in Seq(W)
<1>1. Len(p) \in Nat /\ p \in [1 .. Len(p) -> W]
  OBVIOUS
<1> QED BY <1>1

LEMMA ElementsOfBoth ==
    ASSUME NEW V, NEW p \in Seq(V), NEW q \in Seq(V)
    PROVE  Elements(p \o q) = Elements(p) \cup Elements(q)
<1> DEFINE m == Len(p)
           n == Len(q)
           r == p \o q
<1>1. /\ r \in Seq(V) /\ Len(r) = m + n /\ m \in Nat /\ n \in Nat
      /\ \A k \in 1 .. m + n : r[k] = IF k <= m THEN p[k] ELSE q[k - m]
      /\ DOMAIN p = 1 .. m /\ DOMAIN q = 1 .. n /\ DOMAIN r = 1 .. m + n
  BY ConcatProperties
<1> HIDE DEF m, n, r
<1>2. ASSUME NEW k \in 1 .. m + n
      PROVE  r[k] \in {p[j] : j \in 1 .. m} \cup {q[j] : j \in 1 .. n}
  <2>1. CASE k <= m
    <3>1. k \in 1 .. m
      BY <1>1, <2>1
    <3> QED BY <1>1, <2>1, <3>1
  <2>2. CASE ~(k <= m)
    <3>1. k - m \in 1 .. n
      BY <1>1, <2>2
    <3> QED BY <1>1, <2>2, <3>1
  <2> QED BY <2>1, <2>2
<1>3. ASSUME NEW j \in 1 .. m PROVE p[j] \in {r[k] : k \in 1 .. m + n}
  <2>1. j \in 1 .. m + n /\ j <= m
    BY <1>1
  <2> QED BY <1>1, <2>1
<1>4. ASSUME NEW j \in 1 .. n PROVE q[j] \in {r[k] : k \in 1 .. m + n}
  <2>1. m + j \in 1 .. m + n /\ ~(m + j <= m) /\ (m + j) - m = j
    BY <1>1
  <2> QED BY <1>1, <2>1
<1> QED BY <1>1, <1>2, <1>3, <1>4 DEF r, Elements

LEMMA ElementsAreFinite ==
    ASSUME NEW V, NEW p \in Seq(V) PROVE IsFiniteSet(Elements(p))
<1> DEFINE E == Elements(p)
<1>1. DOMAIN p = 1 .. Len(p) /\ Len(p) \in Nat
  OBVIOUS
<1>2. p \in Surjection(1 .. Len(p), E)
  BY <1>1 DEF Surjection, Elements
<1>3. IsFiniteSet(1 .. Len(p))
  BY <1>1, FS_Interval
<1> QED BY <1>2, <1>3, FS_Surjection

-----------------------------------------------------------------------------
Byte == [at : Nat, of : Nat]
StreamTypes ==
    /\ target \in {"dir", "file"} /\ offset \in Nat /\ came \in Nat /\ went \in Nat
    /\ alive \subseteq Entry /\ IsFiniteSet(alive) /\ stayed \subseteq alive
    /\ sizes \in Seq(Nat) /\ Len(sizes) >= 1
    /\ target = "dir" => got \in Seq(Dots \cup Entry)
    /\ target = "file" => got \in Seq(Byte)

(* A listing so far: what it missed among the entries it is past, and what *)
(* it will meet again, is bounded by what went and came.                   *)
ListingKept ==
    target = "dir" =>
        /\ Cardinality(Behind(Listed, (Dots \cup stayed) \ Taken, offset)) <= went
        /\ Len(got) + Cardinality(Beyond(Listed, Taken, offset)) <= Cardinality(Taken) + came
        /\ outcome = "end" => offset >= Cardinality(Listed)

(* A reading so far: the bytes from the first on, each of a content that   *)
(* had it and none of an older one than the one before.                    *)
ReadingKept ==
    target = "file" =>
        /\ offset = Len(got)
        /\ \A k \in 1 .. Len(got) : /\ got[k].at = k /\ got[k].of \in 1 .. Len(sizes)
                                    /\ k <= sizes[got[k].of]
                                    /\ \A j \in 1 .. k : got[j].of <= got[k].of
        /\ outcome = "end" => sizes[Len(sizes)] # 0 /\ offset >= sizes[Len(sizes)]

StreamInv == StreamTypes /\ ListingKept /\ ReadingKept

LEMMA ListedIs ==
    ASSUME StreamTypes
    PROVE  /\ Listed \in SUBSET Int /\ IsFiniteSet(Listed) /\ Cardinality(Listed) \in Nat
           /\ \A n : Position(n) = Rank(Listed, n)
<1>1. IsFiniteSet({-1, 0})
  <2>1. IsFiniteSet({} \cup {-1})
    BY FS_EmptySet, FS_AddElement
  <2>2. IsFiniteSet(({} \cup {-1}) \cup {0})
    BY <2>1, FS_AddElement
  <2>3. ({} \cup {-1}) \cup {0} = {-1, 0}
    OBVIOUS
  <2> QED BY <2>2, <2>3
<1>2. IsFiniteSet(Listed)
  BY <1>1, FS_Union DEF StreamTypes, Listed, Dots
<1>3. Listed \in SUBSET Int
  BY EntryAssumption DEF StreamTypes, Listed, Dots
<1> QED BY <1>2, <1>3, FS_CardinalityType DEF Position, Rank, Upto

(* The entries are those listed, each at its rank.                         *)
LEMMA EntriesAre ==
    ASSUME StreamTypes
    PROVE  /\ entries \in Seq(Listed) /\ Len(entries) = Cardinality(Listed)
           /\ \A k \in 1 .. Cardinality(Listed) : Rank(Listed, entries[k]) = k
           /\ \A n \in Listed : /\ Rank(Listed, n) \in 1 .. Cardinality(Listed)
                                /\ entries[Rank(Listed, n)] = n
<1> DEFINE c == Cardinality(Listed)
<1>1. Listed \in SUBSET Int /\ IsFiniteSet(Listed) /\ c \in Nat
  BY ListedIs
<1>2. entries = [k \in 1 .. c |-> CHOOSE n \in Listed : Rank(Listed, n) = k]
  BY ListedIs DEF entries
<1>3. \A k \in 1 .. c : \E n \in Listed : Rank(Listed, n) = k
  BY <1>1, RankIsOnto
<1>4. \A k \in 1 .. c : entries[k] \in Listed /\ Rank(Listed, entries[k]) = k
  BY <1>2, <1>3
<1>5. entries \in Seq(Listed) /\ Len(entries) = c
  <2> HIDE DEF c
  <2>1. entries \in [1 .. c -> Listed]
    BY <1>2, <1>4
  <2> QED BY <1>1, <2>1
<1>6. ASSUME NEW n \in Listed
      PROVE  Rank(Listed, n) \in 1 .. c /\ entries[Rank(Listed, n)] = n
  <2>1. Rank(Listed, n) \in 1 .. c
    BY <1>1, RankRange
  <2>2. entries[Rank(Listed, n)] \in Listed /\ Rank(Listed, entries[Rank(Listed, n)]) = Rank(Listed, n)
    BY <1>4, <2>1
  <2>3. entries[Rank(Listed, n)] = n
    <3> DEFINE m == entries[Rank(Listed, n)]
    <3> HIDE DEF m
    <3>1. m \in Listed /\ Rank(Listed, m) = Rank(Listed, n)
      BY <2>2 DEF m
    <3>2. m = n
      BY <1>1, <3>1, RankIsOneToOne
    <3> QED BY <3>2 DEF m
  <2> QED BY <2>1, <2>3
<1> QED BY <1>4, <1>5, <1>6

LEMMA StreamInitInv == StreamInit => StreamInv
<1> SUFFICES ASSUME StreamInit PROVE StreamInv
  OBVIOUS
<1>1. target \in {"dir", "file"} /\ got = <<>> /\ Taken = {} /\ offset = 0 /\ came = 0 /\ went = 0
      /\ outcome = "reading" /\ stayed = alive
  BY DEF StreamInit, Taken
<1>2. StreamTypes
  <2>1. IsFiniteSet(alive) /\ alive \subseteq Entry
    BY FS_EmptySet DEF StreamInit
  <2>2. sizes \in Seq(Nat) /\ Len(sizes) = 1
    <3>1. PICK n \in Nat : sizes = <<n>>
      BY SizeAssumption DEF StreamInit
    <3> QED BY <3>1
  <2> QED BY <1>1, <2>1, <2>2 DEF StreamTypes
<1>3. ListingKept
  <2>1. ASSUME NEW n \in Dots \cup stayed PROVE ~(Rank(Listed, n) <= 0)
    <3>1. n \in Listed /\ Cardinality(Listed) \in Nat
      BY <1>1, <1>2, ListedIs DEF Listed
    <3>2. Rank(Listed, n) \in 1 .. Cardinality(Listed)
      BY <1>2, <3>1, ListedIs, RankRange
    <3> QED BY <3>1, <3>2
  <2>2. Behind(Listed, (Dots \cup stayed) \ Taken, offset) = {}
    BY <1>1, <2>1 DEF Behind
  <2>3. Beyond(Listed, Taken, offset) = {}
    BY <1>1 DEF Beyond
  <2>4. Cardinality({}) = 0 /\ Len(got) = 0
    BY <1>1, FS_EmptySet
  <2>5. Cardinality(Taken) = 0 /\ outcome # "end"
    BY <1>1, <2>4
  <2>6. Cardinality(Behind(Listed, (Dots \cup stayed) \ Taken, offset)) = 0
    BY <2>2, <2>4
  <2>7. Cardinality(Beyond(Listed, Taken, offset)) = 0
    BY <2>3, <2>4
  <2>8. went = 0 /\ came = 0
    BY <1>1
  <2> QED BY <2>4, <2>5, <2>6, <2>7, <2>8 DEF ListingKept
<1>4. ReadingKept
  BY <1>1 DEF ReadingKept
<1> QED BY <1>2, <1>3, <1>4 DEF StreamInv

(* A page of a listing: the entries of the next ranks.                     *)
LEMMA PageOfListing ==
    ASSUME StreamTypes, target = "dir", NEW room \in Nat \ {0}, NEW n, n = Len(Slice(room))
    PROVE  /\ n \in Nat /\ Slice(room) \in Seq(Listed)
           /\ n = 0 <=> offset >= Cardinality(Listed)
           /\ n > 0 => offset + n <= Cardinality(Listed)
           /\ {Slice(room)[k] : k \in 1 .. n} = Page(Listed, offset, offset + n)
<1> DEFINE p == Slice(room)
           c == Cardinality(Listed)
           New == {e \in Listed : offset < Rank(Listed, e) /\ Rank(Listed, e) <= offset + n}
<1>1. /\ entries \in Seq(Listed) /\ Len(entries) = c /\ c \in Nat
      /\ \A k \in 1 .. c : entries[k] \in Listed /\ Rank(Listed, entries[k]) = k
      /\ \A e \in Listed : Rank(Listed, e) \in 1 .. c /\ entries[Rank(Listed, e)] = e
  <2>1. \A k \in 1 .. Len(entries) : entries[k] \in Listed
    BY EntriesAre
  <2> QED BY <2>1, EntriesAre, ListedIs
<1>2. whole = entries /\ offset \in Nat
  BY DEF whole, StreamTypes
<1>3. /\ p \in Seq(Listed) /\ Len(p) = n
      /\ n = 0 <=> offset >= c
      /\ n > 0 => offset + n <= c
      /\ \A k \in 1 .. n : offset + k \in 1 .. c /\ p[k] = entries[offset + k]
  BY <1>1, <1>2, SliceIs
<1>4. n \in Nat
  BY <1>3
<1> HIDE DEF p, c
<1>5. ASSUME NEW k \in 1 .. n PROVE p[k] \in New
  <2>1. offset + k \in 1 .. c /\ p[k] = entries[offset + k]
    BY <1>3
  <2>2. p[k] \in Listed /\ Rank(Listed, p[k]) = offset + k
    BY <1>1, <2>1
  <2>3. offset < offset + k /\ offset + k <= offset + n
    BY <1>2, <1>4
  <2> QED BY <2>2, <2>3
<1>6. ASSUME NEW e \in New PROVE e \in {p[k] : k \in 1 .. n}
  <2> DEFINE r == Rank(Listed, e)
             k == r - offset
  <2>1. e \in Listed /\ offset < r /\ r <= offset + n
    OBVIOUS
  <2>2. r \in 1 .. c /\ entries[r] = e
    BY <1>1, <2>1
  <2> HIDE DEF r
  <2>3. k \in 1 .. n /\ offset + k = r
    BY <1>1, <1>2, <1>4, <2>1, <2>2
  <2> HIDE DEF k
  <2>4. p[k] = e
    BY <1>3, <2>2, <2>3
  <2> QED BY <2>3, <2>4
<1>7. {p[k] : k \in 1 .. n} = New
  BY <1>5, <1>6
<1> QED BY <1>3, <1>4, <1>7 DEF p, c, Page

LEMMA CallListing ==
    ASSUME StreamInv, target = "dir", NEW room \in 1 .. Room, Call(room)
    PROVE  StreamInv'
<1> DEFINE p == Slice(room)
           n == Len(p)
           New == Page(Listed, offset, offset + n)
<1>0. StreamTypes /\ ListingKept /\ room \in Nat \ {0}
  BY RoomAssumption DEF StreamInv
<1>1. /\ got' = got \o p /\ offset' = offset + n /\ outcome' = IF p = <<>> THEN "end" ELSE "reading"
      /\ target' = target /\ alive' = alive /\ sizes' = sizes /\ stayed' = stayed
      /\ came' = came /\ went' = went /\ Listed' = Listed
  BY DEF Call, history, Listed
<1>2. /\ n \in Nat /\ p \in Seq(Listed)
      /\ n = 0 <=> offset >= Cardinality(Listed)
      /\ n > 0 => offset + n <= Cardinality(Listed)
      /\ {p[k] : k \in 1 .. n} = New
  BY <1>0, PageOfListing
<1>3. Listed \in SUBSET Int /\ IsFiniteSet(Listed) /\ Cardinality(Listed) \in Nat
      /\ Listed \subseteq Dots \cup Entry /\ Dots \cup stayed \subseteq Listed
  BY <1>0, ListedIs DEF StreamTypes, Listed
<1>4. /\ got \in Seq(Dots \cup Entry) /\ p \in Seq(Dots \cup Entry) /\ got' \in Seq(Dots \cup Entry)
      /\ Len(got') = Len(got) + n /\ Len(got) \in Nat /\ offset \in Nat /\ came \in Nat /\ went \in Nat
      /\ DOMAIN p = 1 .. n
  <2>1. got \in Seq(Dots \cup Entry) /\ offset \in Nat /\ came \in Nat /\ went \in Nat
    BY <1>0 DEF StreamTypes
  <2> HIDE DEF p
  <2>2. p \in Seq(Listed) /\ Listed \subseteq Dots \cup Entry
    BY <1>2, <1>3
  <2>3. p \in Seq(Dots \cup Entry)
    BY <2>2, WiderSequence
  <2>4. DOMAIN p = 1 .. n
    BY <2>3
  <2>5. got \o p \in Seq(Dots \cup Entry) /\ Len(got \o p) = Len(got) + Len(p) /\ Len(got) \in Nat
    BY <2>1, <2>3
  <2> QED BY <1>1, <2>1, <2>3, <2>4, <2>5
<1>5. Taken' = Taken \cup New
  <2>1. Taken = Elements(got) /\ Taken' = Elements(got \o p) /\ New = Elements(p)
    BY <1>1, <1>2, <1>4 DEF Taken, Elements
  <2> HIDE DEF p, New
  <2> QED BY <1>4, <2>1, ElementsOfBoth
<1>6. IsFiniteSet(Taken)
  <2>1. Taken = Elements(got)
    BY DEF Taken, Elements
  <2> QED BY <1>4, <2>1, ElementsAreFinite
<1>7. p = <<>> <=> n = 0
  BY <1>2
<1> HIDE DEF p, n, New
<1>8. StreamTypes'
  BY <1>0, <1>1, <1>2, <1>4 DEF StreamTypes
<1>9. Behind(Listed, (Dots \cup stayed) \ Taken', offset') \subseteq Behind(Listed, (Dots \cup stayed) \ Taken, offset)
  <2> SUFFICES ASSUME NEW e \in Dots \cup stayed, e \notin Taken \cup New, Rank(Listed, e) <= offset + n
               PROVE  Rank(Listed, e) <= offset
    BY <1>1, <1>5 DEF Behind
  <2>1. e \in Listed /\ Rank(Listed, e) \in Nat
    BY <1>3, UptoIsFinite
  <2>2. ~(offset < Rank(Listed, e))
    BY <2>1 DEF New, Page
  <2> QED BY <1>4, <2>1, <2>2
<1>10. Cardinality(Behind(Listed, (Dots \cup stayed) \ Taken', offset')) <= went
  <2> DEFINE old == Behind(Listed, (Dots \cup stayed) \ Taken, offset)
             new == Behind(Listed, (Dots \cup stayed) \ Taken', offset')
  <2>1. IsFiniteSet(old) /\ Cardinality(old) <= went
    BY <1>0, <1>3, FS_Subset DEF Behind, ListingKept
  <2>2. new \subseteq old
    BY <1>9
  <2> HIDE DEF old, new
  <2>3. IsFiniteSet(new) /\ Cardinality(new) <= Cardinality(old)
    BY <2>1, <2>2, FS_Subset
  <2>4. Cardinality(new) \in Nat /\ Cardinality(old) \in Nat
    BY <2>1, <2>3, FS_CardinalityType
  <2>5. Cardinality(new) <= went
    BY <1>4, <2>1, <2>3, <2>4
  <2> QED BY <2>5 DEF new
<1>11. Len(got') + Cardinality(Beyond(Listed, Taken', offset')) <= Cardinality(Taken') + came'
  <2>1. Len(got) + Cardinality(Beyond(Listed, Taken, offset)) <= Cardinality(Taken) + came
    BY <1>0 DEF ListingKept
  <2>2. CASE n = 0
    <3>1. New = {}
      <4>1. \A e \in Listed : Rank(Listed, e) \in Nat
        BY <1>3, UptoIsFinite
      <4>2. \A e \in Listed : ~(offset < Rank(Listed, e) /\ Rank(Listed, e) <= offset + n)
        BY <1>4, <2>2, <4>1
      <4> QED BY <4>2 DEF New, Page
    <3>2. Taken' = Taken /\ offset' = offset /\ Len(got') = Len(got)
      BY <1>1, <1>4, <1>5, <2>2, <3>1
    <3> QED BY <1>1, <2>1, <3>2
  <2>3. CASE n > 0
    <3>1. offset + n \in Nat /\ offset <= offset + n /\ offset + n <= Cardinality(Listed)
      BY <1>2, <1>4, <2>3
    <3>2. /\ IsFiniteSet(Taken \cup New)
          /\ Cardinality(Taken \cup New) - Cardinality(Beyond(Listed, Taken \cup New, offset + n))
                 = Cardinality(Taken) - Cardinality(Beyond(Listed, Taken, offset)) + ((offset + n) - offset)
      <4>1. /\ Listed \in SUBSET Int /\ IsFiniteSet(Listed) /\ IsFiniteSet(Taken)
            /\ offset \in Nat /\ offset + n \in Nat
        BY <1>3, <1>4, <1>6, <3>1
      <4> QED BY <3>1, <4>1, BeyondAfterPage DEF New
    <3>3. IsFiniteSet(Beyond(Listed, Taken \cup New, offset + n)) /\ IsFiniteSet(Beyond(Listed, Taken, offset))
      BY <1>3, FS_Subset DEF Beyond
    <3> DEFINE a == Cardinality(Taken \cup New)
               b == Cardinality(Beyond(Listed, Taken \cup New, offset + n))
               d == Cardinality(Taken)
               e == Cardinality(Beyond(Listed, Taken, offset))
               g == Len(got)
    <3>4. a \in Nat /\ b \in Nat /\ d \in Nat /\ e \in Nat /\ g \in Nat
      BY <1>4, <1>6, <3>2, <3>3, FS_CardinalityType
    <3>5. g + e <= d + came /\ a - b = d - e + ((offset + n) - offset)
      BY <2>1, <3>2
    <3> HIDE DEF a, b, d, e, g
    <3>6. g + n + b <= a + came
      <4>1. offset \in Nat /\ n \in Nat /\ came \in Nat
        BY <1>2, <1>4
      <4> QED BY <3>4, <3>5, <4>1
    <3>7. Len(got') = g + n /\ Taken' = Taken \cup New /\ offset' = offset + n /\ came' = came
      BY <1>1, <1>4, <1>5 DEF g
    <3> QED BY <3>6, <3>7 DEF a, b
  <2> QED BY <1>2, <2>2, <2>3
<1>12. outcome' = "end" => offset' >= Cardinality(Listed)
  <2> SUFFICES ASSUME n = 0 PROVE offset' >= Cardinality(Listed)
    BY <1>1, <1>7
  <2> QED BY <1>1, <1>2, <1>4
<1>13. ListingKept' /\ ReadingKept'
  BY <1>1, <1>10, <1>11, <1>12 DEF ListingKept, ReadingKept
<1> QED BY <1>8, <1>13 DEF StreamInv

LEMMA ContentIs ==
    ASSUME StreamTypes
    PROVE  /\ Last(sizes) = sizes[Len(sizes)] /\ Last(sizes) \in Nat /\ Len(sizes) \in Nat
           /\ content \in Seq(Byte) /\ Len(content) = Last(sizes)
           /\ \A k \in 1 .. Last(sizes) : content[k] = [at |-> k, of |-> Len(sizes)]
<1>1. Last(sizes) = sizes[Len(sizes)] /\ Len(sizes) \in Nat /\ sizes[Len(sizes)] \in Nat
  BY DEF StreamTypes, Last
<1> DEFINE n == Last(sizes)
           l == Len(sizes)
<1>2. n \in Nat /\ l \in Nat /\ content = [k \in 1 .. n |-> [at |-> k, of |-> l]]
  BY <1>1 DEF content
<1> HIDE DEF n, l
<1>3. content \in [1 .. n -> Byte]
  BY <1>2 DEF Byte
<1>4. content \in Seq(Byte) /\ Len(content) = n
  BY <1>2, <1>3
<1> QED BY <1>1, <1>2, <1>4 DEF n, l

(* The bytes of a page are of the present content, the last there is.      *)
LEMMA CallReading ==
    ASSUME StreamInv, target = "file", NEW room \in 1 .. Room, Call(room)
    PROVE  StreamInv'
<1> DEFINE p == Slice(room)
           n == Len(p)
           m == Len(got)
           l == Len(sizes)
           c == Last(sizes)
<1>0. StreamTypes /\ ReadingKept /\ room \in Nat \ {0}
  BY RoomAssumption DEF StreamInv
<1>1. /\ got' = got \o p /\ offset' = offset + n /\ outcome' = IF p = <<>> THEN "end" ELSE "reading"
      /\ target' = target /\ alive' = alive /\ sizes' = sizes /\ stayed' = stayed
      /\ came' = came /\ went' = went /\ c # 0
  BY DEF Call, history
<1>2. /\ c = sizes[l] /\ c \in Nat /\ l \in Nat /\ l >= 1
      /\ content \in Seq(Byte) /\ Len(content) = c /\ whole = content
      /\ \A k \in 1 .. c : content[k] = [at |-> k, of |-> l]
  BY <1>0, ContentIs DEF whole, StreamTypes
<1>3. /\ got \in Seq(Byte) /\ m \in Nat /\ offset = m
      /\ \A k \in 1 .. m : /\ got[k].at = k /\ got[k].of \in 1 .. l /\ k <= sizes[got[k].of]
                           /\ \A j \in 1 .. k : got[j].of <= got[k].of
  BY <1>0 DEF StreamTypes, ReadingKept
<1>4. /\ p \in Seq(Byte) /\ n \in Nat /\ (n = 0 <=> offset >= c)
      /\ \A k \in 1 .. n : m + k \in 1 .. c /\ p[k] = [at |-> m + k, of |-> l]
  <2>1. /\ p \in Seq(Byte) /\ (n = 0 <=> offset >= Len(whole))
        /\ \A k \in 1 .. n : offset + k \in 1 .. Len(whole) /\ p[k] = whole[offset + k]
    BY <1>0, <1>2, <1>3, SliceIs
  <2>2. n \in Nat
    BY <2>1
  <2> HIDE DEF p, n, m, l, c
  <2> QED BY <1>2, <1>3, <2>1, <2>2
<1>5. p = <<>> <=> n = 0
  BY <1>4
<1> HIDE DEF p
<1>6. got' \in Seq(Byte) /\ Len(got') = m + n
      /\ \A k \in 1 .. m + n : got'[k] = IF k <= m THEN got[k] ELSE p[k - m]
  BY <1>1, <1>3, <1>4, ConcatProperties
<1> HIDE DEF n, m, l, c
<1>7. ASSUME NEW k \in 1 .. m + n, k <= m PROVE k \in 1 .. m /\ got'[k] = got[k]
  BY <1>3, <1>6, <1>7
<1>8. ASSUME NEW k \in 1 .. m + n, ~(k <= m)
      PROVE  k \in 1 .. c /\ got'[k].at = k /\ got'[k].of = l
  <2>1. k - m \in 1 .. n /\ m + (k - m) = k
    BY <1>3, <1>4, <1>8
  <2>2. got'[k] = p[k - m] /\ p[k - m] = [at |-> m + (k - m), of |-> l] /\ m + (k - m) \in 1 .. c
    BY <1>4, <1>6, <1>8, <2>1
  <2>3. got'[k] = [at |-> k, of |-> l]
    BY <2>1, <2>2
  <2> QED BY <2>1, <2>2, <2>3
<1>9. ASSUME NEW k \in 1 .. m + n
      PROVE  /\ got'[k].at = k /\ got'[k].of \in 1 .. l /\ k <= sizes[got'[k].of]
             /\ \A j \in 1 .. k : got'[j].of <= got'[k].of
  <2>1. CASE k <= m
    <3>1. k \in 1 .. m /\ got'[k] = got[k]
      BY <1>7, <2>1
    <3>2. \A j \in 1 .. k : j \in 1 .. m + n /\ j <= m
      BY <1>3, <1>4, <2>1
    <3>3. \A j \in 1 .. k : got'[j] = got[j]
      BY <1>7, <3>2
    <3> QED BY <1>3, <3>1, <3>3
  <2>2. CASE ~(k <= m)
    <3>1. k \in 1 .. c /\ got'[k].at = k /\ got'[k].of = l
      BY <1>8, <2>2
    <3>2. ASSUME NEW j \in 1 .. k PROVE got'[j].of <= l
      <4>1. j \in 1 .. m + n
        BY <1>3, <1>4
      <4>2. CASE j <= m
        <5>1. got'[j] = got[j] /\ got[j].of \in 1 .. l
          BY <1>3, <1>7, <4>1, <4>2
        <5> QED BY <1>2, <5>1
      <4>3. CASE ~(j <= m)
        <5>1. got'[j].of = l
          BY <1>8, <4>1, <4>3
        <5> QED BY <1>2, <5>1
      <4> QED BY <4>2, <4>3
    <3>3. l \in 1 .. l /\ k <= sizes[l]
      BY <1>2, <3>1
    <3> QED BY <3>1, <3>2, <3>3
  <2> QED BY <2>1, <2>2
<1>10. offset' = Len(got') /\ offset' \in Nat
  BY <1>1, <1>3, <1>4, <1>6
<1>11. outcome' = "end" => sizes[l] # 0 /\ offset' >= sizes[l]
  BY <1>1, <1>2, <1>3, <1>4, <1>5
<1>12. StreamTypes'
  BY <1>0, <1>1, <1>6, <1>10 DEF StreamTypes
<1>13. ReadingKept'
  <2>1. Len(sizes') = l /\ Len(got') = m + n
    BY <1>1, <1>6 DEF l
  <2>2. outcome' = "end" => sizes'[Len(sizes')] # 0 /\ offset' >= sizes'[Len(sizes')]
    BY <1>1, <1>11, <2>1
  <2>3. \A k \in 1 .. Len(got') :
            /\ got'[k].at = k /\ got'[k].of \in 1 .. Len(sizes') /\ k <= sizes'[got'[k].of]
            /\ \A j \in 1 .. k : got'[j].of <= got'[k].of
    BY <1>1, <1>9, <2>1
  <2> QED BY <1>10, <2>2, <2>3 DEF ReadingKept
<1>14. ListingKept'
  BY <1>1 DEF ListingKept
<1> QED BY <1>12, <1>13, <1>14 DEF StreamInv

LEMMA CallFailsInv == ASSUME StreamInv, CallFails PROVE StreamInv'
<1>1. /\ target = "file" /\ outcome' = "error"
      /\ UNCHANGED <<target, alive, sizes, offset, got, stayed, came, went>>
  BY DEF CallFails, history
<1>2. StreamTypes' /\ ReadingKept' /\ ListingKept'
  BY <1>1 DEF StreamInv, StreamTypes, ReadingKept, ListingKept
<1> QED BY <1>2 DEF StreamInv

LEMMA AppearInv == ASSUME StreamInv, NEW n \in Entry, Appear(n) PROVE StreamInv'
<1>0. StreamTypes /\ ListingKept
  BY DEF StreamInv
<1>1. /\ target = "dir" /\ outcome = "reading" /\ n \notin alive /\ alive' = alive \cup {n}
      /\ came' = came + 1
      /\ UNCHANGED <<target, sizes, offset, got, outcome, stayed, went>>
  BY DEF Appear
<1>2. Listed' = Listed \cup {n} /\ n \notin Listed /\ n \in Int /\ Taken' = Taken
  BY <1>1, EntryAssumption DEF Listed, Dots, Taken
<1>3. Listed \in SUBSET Int /\ IsFiniteSet(Listed) /\ offset \in Nat /\ came \in Nat /\ went \in Nat
      /\ (Dots \cup stayed) \ Taken \in SUBSET Listed
  BY <1>0, ListedIs DEF StreamTypes, Listed
<1>4. StreamTypes'
  BY <1>0, <1>1, FS_AddElement DEF StreamTypes
<1>5. Cardinality(Behind(Listed', (Dots \cup stayed) \ Taken, offset)) <= went
  <2> DEFINE old == Behind(Listed, (Dots \cup stayed) \ Taken, offset)
             new == Behind(Listed \cup {n}, (Dots \cup stayed) \ Taken, offset)
  <2>1. new \subseteq old
    BY <1>2, <1>3, BehindAfterGain
  <2>2. IsFiniteSet(old) /\ Cardinality(old) <= went
    BY <1>0, <1>1, <1>3, FS_Subset DEF Behind, ListingKept
  <2> HIDE DEF old, new
  <2>3. IsFiniteSet(new) /\ Cardinality(new) <= Cardinality(old)
    BY <2>1, <2>2, FS_Subset
  <2>4. Cardinality(new) \in Nat /\ Cardinality(old) \in Nat
    BY <2>2, <2>3, FS_CardinalityType
  <2>5. Cardinality(new) <= went
    BY <1>3, <2>2, <2>3, <2>4
  <2> QED BY <1>2, <2>5 DEF new
<1>6. Len(got) + Cardinality(Beyond(Listed', Taken, offset)) <= Cardinality(Taken) + came'
  <2> DEFINE old == Beyond(Listed, Taken, offset)
             new == Beyond(Listed \cup {n}, Taken, offset)
             g == Len(got)
             d == Cardinality(Taken)
  <2>1. Cardinality(new) \in Nat /\ Cardinality(new) <= Cardinality(old) + 1
    BY <1>2, <1>3, BeyondAfterGain
  <2>2. g + Cardinality(old) <= d + came
    BY <1>0, <1>1 DEF ListingKept
  <2>3. IsFiniteSet(old)
    BY <1>3, FS_Subset DEF Beyond
  <2>4. g \in Nat /\ IsFiniteSet(Taken)
    <3>1. got \in Seq(Dots \cup Entry) /\ Taken = Elements(got)
      BY <1>0, <1>1 DEF StreamTypes, Taken, Elements
    <3> QED BY <3>1, ElementsAreFinite
  <2>5. d \in Nat /\ Cardinality(old) \in Nat
    BY <2>3, <2>4, FS_CardinalityType
  <2> HIDE DEF old, new, g, d
  <2>6. g + Cardinality(new) <= d + (came + 1)
    BY <1>3, <2>1, <2>2, <2>4, <2>5
  <2> QED BY <1>1, <1>2, <2>6 DEF new, g, d
<1>7. ListingKept' /\ ReadingKept'
  BY <1>1, <1>2, <1>5, <1>6 DEF ListingKept, ReadingKept
<1> QED BY <1>4, <1>7 DEF StreamInv

LEMMA VanishInv == ASSUME StreamInv, NEW n \in Entry, Vanish(n) PROVE StreamInv'
<1>0. StreamTypes /\ ListingKept
  BY DEF StreamInv
<1>1. /\ target = "dir" /\ outcome = "reading" /\ n \in alive /\ alive' = alive \ {n}
      /\ stayed' = stayed \ {n} /\ went' = went + 1
      /\ UNCHANGED <<target, sizes, offset, got, outcome, came>>
  BY DEF Vanish
<1>2. /\ Listed' = Listed \ {n} /\ n \in Listed /\ Taken' = Taken
      /\ (Dots \cup stayed') \ Taken = ((Dots \cup stayed) \ Taken) \ {n}
  BY <1>1, EntryAssumption DEF Listed, Dots, Taken
<1>3. Listed \in SUBSET Int /\ IsFiniteSet(Listed) /\ offset \in Nat /\ came \in Nat /\ went \in Nat
      /\ (Dots \cup stayed) \ Taken \in SUBSET Listed
  BY <1>0, ListedIs DEF StreamTypes, Listed
<1>4. StreamTypes'
  <2>1. IsFiniteSet(alive \ {n})
    BY <1>0, FS_Subset DEF StreamTypes
  <2> QED BY <1>0, <1>1, <2>1 DEF StreamTypes
<1>5. Cardinality(Behind(Listed', (Dots \cup stayed') \ Taken, offset)) <= went'
  <2> DEFINE stays == (Dots \cup stayed) \ Taken
             old == Behind(Listed, stays, offset)
             new == Behind(Listed \ {n}, stays \ {n}, offset)
  <2>1. Cardinality(new) \in Nat /\ Cardinality(new) <= Cardinality(old) + 1
    BY <1>2, <1>3, BehindAfterLoss
  <2>2. IsFiniteSet(old) /\ Cardinality(old) <= went
    BY <1>0, <1>1, <1>3, FS_Subset DEF Behind, ListingKept
  <2>3. Cardinality(old) \in Nat
    BY <2>2, FS_CardinalityType
  <2> HIDE DEF old, new
  <2>4. Cardinality(new) <= went + 1
    BY <1>3, <2>1, <2>2, <2>3
  <2> QED BY <1>1, <1>2, <2>4 DEF new
<1>6. Len(got) + Cardinality(Beyond(Listed', Taken, offset)) <= Cardinality(Taken) + came
  <2> DEFINE old == Beyond(Listed, Taken, offset)
             new == Beyond(Listed \ {n}, Taken, offset)
             g == Len(got)
             d == Cardinality(Taken)
  <2>1. new \subseteq old
    BY <1>2, <1>3, BeyondAfterLoss
  <2>2. g + Cardinality(old) <= d + came
    BY <1>0, <1>1 DEF ListingKept
  <2>3. IsFiniteSet(old)
    BY <1>3, FS_Subset DEF Beyond
  <2>4. g \in Nat /\ IsFiniteSet(Taken)
    <3>1. got \in Seq(Dots \cup Entry) /\ Taken = Elements(got)
      BY <1>0, <1>1 DEF StreamTypes, Taken, Elements
    <3> QED BY <3>1, ElementsAreFinite
  <2> HIDE DEF old, new
  <2>5. IsFiniteSet(new) /\ Cardinality(new) <= Cardinality(old)
    BY <2>1, <2>3, FS_Subset
  <2>6. d \in Nat /\ Cardinality(old) \in Nat /\ Cardinality(new) \in Nat
    BY <2>3, <2>4, <2>5, FS_CardinalityType
  <2> HIDE DEF g, d
  <2>7. g + Cardinality(new) <= d + came
    BY <1>3, <2>2, <2>4, <2>5, <2>6
  <2> QED BY <1>2, <2>7 DEF new, g, d
<1>7. ListingKept' /\ ReadingKept'
  BY <1>1, <1>2, <1>5, <1>6 DEF ListingKept, ReadingKept
<1> QED BY <1>4, <1>7 DEF StreamInv

LEMMA NewContentInv == ASSUME StreamInv, NEW n \in Size \cup {0}, NewContent(n) PROVE StreamInv'
<1>0. StreamTypes /\ ReadingKept /\ n \in Nat
  BY SizeAssumption DEF StreamInv
<1>1. /\ target = "file" /\ outcome = "reading" /\ sizes' = Append(sizes, n)
      /\ UNCHANGED <<target, alive, offset, got, outcome, stayed, came, went>>
  BY DEF NewContent, history
<1> DEFINE l == Len(sizes)
<1>2. /\ sizes' \in Seq(Nat) /\ Len(sizes') = l + 1 /\ l \in Nat /\ l >= 1
      /\ \A k \in 1 .. l : sizes'[k] = sizes[k]
  BY <1>0, <1>1 DEF StreamTypes
<1> HIDE DEF l
<1>3. l + 1 >= 1 /\ \A k \in 1 .. l : k \in 1 .. l + 1
  BY <1>2
<1>4. StreamTypes'
  BY <1>0, <1>1, <1>2, <1>3 DEF StreamTypes
<1>5. ReadingKept'
  BY <1>0, <1>1, <1>2, <1>3 DEF ReadingKept, l
<1>6. ListingKept'
  BY <1>1 DEF ListingKept
<1> QED BY <1>4, <1>5, <1>6 DEF StreamInv

LEMMA StreamNextInv == StreamInv /\ [StreamNext]_streamVars => StreamInv'
<1> SUFFICES ASSUME StreamInv, [StreamNext]_streamVars PROVE StreamInv'
  OBVIOUS
<1>1. CASE UNCHANGED streamVars
  <2>1. UNCHANGED <<target, alive, sizes, offset, got, outcome, stayed, came, went>>
    BY <1>1 DEF streamVars, history
  <2>2. Listed' = Listed /\ Taken' = Taken
    BY <2>1 DEF Listed, Taken
  <2>3. StreamTypes' /\ ListingKept' /\ ReadingKept'
    BY <2>1, <2>2 DEF StreamInv, StreamTypes, ListingKept, ReadingKept
  <2> QED BY <2>3 DEF StreamInv
<1>2. ASSUME NEW room \in 1 .. Room, Call(room) PROVE StreamInv'
  <2>1. target = "dir" \/ target = "file"
    BY DEF StreamInv, StreamTypes
  <2> QED BY <1>2, <2>1, CallListing, CallReading
<1>3. CASE CallFails
  BY <1>3, CallFailsInv
<1>4. ASSUME NEW n \in Entry, Appear(n) PROVE StreamInv'
  BY <1>4, AppearInv
<1>5. ASSUME NEW n \in Entry, Vanish(n) PROVE StreamInv'
  BY <1>5, VanishInv
<1>6. ASSUME NEW n \in Size \cup {0}, NewContent(n) PROVE StreamInv'
  BY <1>6, NewContentInv
<1> QED BY <1>1, <1>2, <1>3, <1>4, <1>5, <1>6 DEF StreamNext

-----------------------------------------------------------------------------
(* An ended listing missed no more of what stayed than went meanwhile.     *)
THEOREM ListingMissesFew == StreamSpec => []MissesAtMostTheGone
<1>1. StreamInv => MissesAtMostTheGone
  <2> SUFFICES ASSUME StreamInv, target = "dir", outcome = "end"
               PROVE  Cardinality((Dots \cup stayed) \ Taken) <= went
    BY DEF MissesAtMostTheGone
  <2>1. StreamTypes /\ offset >= Cardinality(Listed) /\ offset \in Nat
        /\ Cardinality(Behind(Listed, (Dots \cup stayed) \ Taken, offset)) <= went
    BY DEF StreamInv, StreamTypes, ListingKept
  <2>2. ASSUME NEW n \in (Dots \cup stayed) \ Taken PROVE Rank(Listed, n) <= offset
    <3>1. Cardinality(Listed) \in Nat /\ Rank(Listed, n) \in Nat /\ Rank(Listed, n) <= Cardinality(Listed)
      BY <2>1, ListedIs, UptoIsFinite
    <3> QED BY <2>1, <3>1
  <2>3. Behind(Listed, (Dots \cup stayed) \ Taken, offset) = (Dots \cup stayed) \ Taken
    BY <2>2 DEF Behind
  <2> QED BY <2>1, <2>3
<1>2. StreamInit => StreamInv
  BY StreamInitInv
<1>3. StreamInv /\ [StreamNext]_streamVars => StreamInv'
  BY StreamNextInv
<1> QED BY <1>1, <1>2, <1>3, PTL DEF StreamSpec

(* The names shown are those of the unmarked rows, and the mark if any row *)
(* is marked.                                                              *)
LEMMA NamesOfRows ==
    ASSUME Taken \subseteq Dots \cup Entry, IsFiniteSet(Taken)
    PROVE  Cardinality(Names) = Cardinality(Taken) - MoreMarks /\ MoreMarks \in Nat
<1> DEFINE marks == Taken \cap Marked
           plain == Taken \ Marked
<1>1. /\ IsFiniteSet(plain) /\ Cardinality(plain) = Cardinality(Taken) - Cardinality(marks)
      /\ IsFiniteSet(marks) /\ Cardinality(marks) \in Nat /\ Cardinality(Taken) \in Nat
  <2>1. marks \in SUBSET Taken
    OBVIOUS
  <2> QED BY <2>1, FS_Difference, FS_Subset, FS_CardinalityType
<1>2. Mark \notin plain
  BY MarkAssumption DEF Dots
<1>3. CASE marks = {}
  <2>1. Names = Taken /\ MoreMarks = 0
    BY <1>3 DEF Names, Name, MoreMarks
  <2> QED BY <1>1, <2>1
<1>4. CASE marks # {}
  <2>1. Names = plain \cup {Mark} /\ MoreMarks = Cardinality(marks) - 1
    BY <1>4 DEF Names, Name, MoreMarks
  <2>2. Cardinality(Names) = Cardinality(plain) + 1
    BY <1>1, <1>2, <2>1, FS_AddElement
  <2>3. Cardinality(marks) # 0
    BY <1>1, <1>4, FS_EmptySet
  <2> QED BY <1>1, <2>1, <2>2, <2>3
<1> QED BY <1>3, <1>4

(* A listing shows no more names again than entries came meanwhile, but    *)
(* for the mark, of which it has one for each failed unit.                 *)
THEOREM ListingRepeatsFew == StreamSpec => []RepeatsAtMostTheNew
<1>1. StreamInv => RepeatsAtMostTheNew
  <2> SUFFICES ASSUME StreamInv, target = "dir"
               PROVE  Len(got) - Cardinality(Names) <= came + MoreMarks
    BY DEF RepeatsAtMostTheNew
  <2> DEFINE b == Cardinality(Beyond(Listed, Taken, offset))
             d == Cardinality(Taken)
             e == Cardinality(Names)
             g == Len(got)
  <2>1. g + b <= d + came /\ came \in Nat /\ StreamTypes
    BY DEF StreamInv, StreamTypes, ListingKept
  <2>2. b \in Nat
    BY <2>1, ListedIs, FS_Subset, FS_CardinalityType DEF Beyond
  <2>3. g \in Nat /\ d \in Nat /\ Taken \subseteq Dots \cup Entry /\ IsFiniteSet(Taken)
    <3>1. got \in Seq(Dots \cup Entry) /\ Taken = Elements(got)
      BY <2>1 DEF StreamTypes, Taken, Elements
    <3>2. IsFiniteSet(Taken)
      BY <3>1, ElementsAreFinite
    <3>3. g \in Nat
      BY <3>1
    <3>4. Taken \subseteq Dots \cup Entry
      <4>1. \A k \in DOMAIN got : got[k] \in Dots \cup Entry
        BY <3>1
      <4> QED BY <4>1 DEF Taken
    <3> QED BY <3>2, <3>3, <3>4, FS_CardinalityType
  <2>4. e = d - MoreMarks /\ MoreMarks \in Nat
    BY <2>3, NamesOfRows
  <2> HIDE DEF b, d, e, g
  <2>5. g - e <= came + MoreMarks
    BY <2>1, <2>2, <2>3, <2>4
  <2> QED BY <2>5 DEF g, e
<1>2. StreamInit => StreamInv
  BY StreamInitInv
<1>3. StreamInv /\ [StreamNext]_streamVars => StreamInv'
  BY StreamNextInv
<1> QED BY <1>1, <1>2, <1>3, PTL DEF StreamSpec

(* Every byte stands where it stood in its content, none before an older.  *)
THEOREM BytesStandInPlace == StreamSpec => []BytesInPlace
<1>1. StreamInv => BytesInPlace
  <2> SUFFICES ASSUME StreamInv, target = "file" PROVE BytesInPlace
    BY DEF BytesInPlace
  <2>1. DOMAIN got = 1 .. Len(got)
    BY DEF StreamInv, StreamTypes
  <2> QED BY <2>1 DEF StreamInv, ReadingKept, BytesInPlace
<1>2. StreamInit => StreamInv
  BY StreamInitInv
<1>3. StreamInv /\ [StreamNext]_streamVars => StreamInv'
  BY StreamNextInv
<1> QED BY <1>1, <1>2, <1>3, PTL DEF StreamSpec

(* A reading that ended is no shorter than the content at its end, and is  *)
(* that content itself if there was no other.                              *)
THEOREM ReadingsAreWhole == StreamSpec => []NotCutShort
<1>1. StreamInv => NotCutShort
  <2> SUFFICES ASSUME StreamInv, target = "file", outcome = "end"
               PROVE  /\ Last(sizes) # 0 /\ Len(got) >= Last(sizes)
                      /\ Len(sizes) = 1 => got = content
    BY DEF NotCutShort
  <2>1. /\ offset = Len(got) /\ got \in Seq(Byte) /\ StreamTypes
        /\ sizes[Len(sizes)] # 0 /\ offset >= sizes[Len(sizes)]
        /\ \A k \in 1 .. Len(got) : /\ got[k].at = k /\ got[k].of \in 1 .. Len(sizes)
                                    /\ k <= sizes[got[k].of]
    BY DEF StreamInv, StreamTypes, ReadingKept
  <2>2. /\ Last(sizes) = sizes[Len(sizes)] /\ Last(sizes) \in Nat
        /\ content \in Seq(Byte) /\ Len(content) = Last(sizes)
        /\ \A k \in 1 .. Last(sizes) : content[k] = [at |-> k, of |-> Len(sizes)]
    BY <2>1, ContentIs
  <2>3. ASSUME Len(sizes) = 1 PROVE got = content
    <3> DEFINE m == Len(got)
               c == Last(sizes)
    <3>1. m \in Nat /\ c \in Nat /\ m >= c /\ c = sizes[1]
          /\ \A k \in 1 .. m : got[k].at = k /\ got[k].of = 1 /\ k <= c
      BY <2>1, <2>2, <2>3
    <3>2. \A k \in 1 .. c : content[k] = [at |-> k, of |-> 1]
      BY <2>2, <2>3
    <3>3. \A k \in 1 .. m : got[k] \in Byte
      BY <2>1
    <3> HIDE DEF m, c
    <3>4. m = c
      <4>1. m > c => m \in 1 .. m
        BY <3>1
      <4> QED BY <3>1, <4>1
    <3>5. \A k \in 1 .. m : got[k] = [at |-> k, of |-> 1]
      BY <3>1, <3>3 DEF Byte
    <3>6. /\ got \in Seq(Byte) /\ content \in Seq(Byte) /\ Len(got) = c /\ Len(content) = c
          /\ \A k \in 1 .. c : got[k] = content[k]
      BY <2>1, <2>2, <3>2, <3>4, <3>5 DEF m, c
    <3> QED BY <3>6
  <2> QED BY <2>1, <2>2, <2>3
<1>2. StreamInit => StreamInv
  BY StreamInitInv
<1>3. StreamInv /\ [StreamNext]_streamVars => StreamInv'
  BY StreamNextInv
<1> QED BY <1>1, <1>2, <1>3, PTL DEF StreamSpec
===============================================================================
