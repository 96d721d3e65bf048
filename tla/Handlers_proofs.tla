--------------------------- MODULE Handlers_proofs ---------------------------
(***************************************************************************)
(* The handlers that describe one entry by several requests: Docker, for   *)
(* every set of containers and names, every limit of the list and any      *)
(* number of changes in between, and ProcInfo, for every set of numbers,   *)
(* list of files and number of processes.                                  *)
(***************************************************************************)
EXTENDS Docker, ProcInfo, SequenceTheorems, TLAPS

-----------------------------------------------------------------------------
(* Docker.                                                                 *)
Container == [id : Id, name : ContainerName]
ById == Id \cup LooksLikeId

Types ==
    /\ containers \in Seq(Container) /\ up \in BOOLEAN
    /\ pc \in {"idle", "direct", "list", "inspect", "stats"}
    /\ \A k \in DOMAIN containers : containers[k].id \in used

(* No two containers have an ID or a name in common.                       *)
Unique ==
    \A j, k \in DOMAIN containers :
        containers[j].id = containers[k].id \/ containers[j].name = containers[k].name => j = k

(* What is known between the requests of a call: the histories, and what   *)
(* the resolved ID has to do with the argument.                            *)
Kept ==
    pc # "idle" =>
        /\ answer = NoAnswer /\ call.arg \in Identifier
        /\ Denoted(containers, call.arg) \subseteq bore
        /\ steady \subseteq Findable(containers, call.arg, up)
Resolving ==
    /\ pc = "direct" => call.arg \in ById
    /\ pc = "list" /\ call.arg \in ById => steady = {}
    /\ pc \in {"inspect", "stats"} =>
           \/ resolved = call.arg /\ call.arg \in LooksLikeId
           \/ resolved \in Id /\ (resolved = call.arg \/ resolved \in bore) /\ steady \subseteq {resolved}
    /\ pc = "stats" => info \in bore /\ info \in Id /\ (resolved \in Id => info = resolved)

IInv ==
    /\ Types /\ Unique /\ Kept /\ Resolving
    /\ OneContainer /\ RightContainer /\ NoFalseAbsence

-----------------------------------------------------------------------------
LEMMA AllTyped == ASSUME Types PROVE All \subseteq Container
  BY DEF Types, All

(* The daemon finds by an ID the container that has it, and by a name one  *)
(* that has that.                                                          *)
LEMMA DaemonOfId ==
    ASSUME Types, NEW i \in Id
    PROVE  /\ Daemon(i) \in {None, i}
           /\ Daemon(i) # None <=> up /\ \E c \in All : c.id = i
<1>1. \A c \in All : c.id \in Id /\ c.name \in ContainerName
  BY AllTyped DEF Container
<1>2. \A c \in All : c.name # i /\ (i \in {c.id, FullId(c.id)} <=> c.id = i)
  BY <1>1, NameAssumption DEF FullId
<1>3. CASE up /\ \E c \in All : c.id = i
  <2>1. (CHOOSE c \in All : i \in {c.id, FullId(c.id)}).id = i
    BY <1>2, <1>3
  <2> QED BY <1>2, <1>3, <2>1, NameAssumption DEF Daemon
<1>4. CASE ~(up /\ \E c \in All : c.id = i)
  BY <1>2, <1>4 DEF Daemon
<1> QED BY <1>3, <1>4

LEMMA DaemonOfName ==
    ASSUME Types, NEW n \in ContainerName
    PROVE  /\ Daemon(n) # None <=> up /\ \E c \in All : c.name = n
           /\ Daemon(n) # None => \E c \in All : c.name = n /\ Daemon(n) = c.id
<1>1. \A c \in All : c.id \in Id /\ c.name \in ContainerName
  BY AllTyped DEF Container
<1>2. \A c \in All : n \notin {c.id, FullId(c.id)}
  BY <1>1, NameAssumption DEF FullId
<1>3. CASE up /\ \E c \in All : c.name = n
  <2> DEFINE d == CHOOSE c \in All : c.name = n
  <2>1. d \in All /\ d.name = n
    BY <1>3
  <2>2. Daemon(n) = d.id
    BY <1>3 DEF Daemon
  <2> QED BY <1>1, <1>3, <2>1, <2>2, NameAssumption
<1>4. CASE ~(up /\ \E c \in All : c.name = n)
  BY <1>2, <1>4 DEF Daemon
<1> QED BY <1>3, <1>4

(* What an identifier denotes is one container at most.                    *)
LEMMA DenotedIs ==
    ASSUME Types, NEW x
    PROVE  /\ Denoted(containers, x) = {c.id : c \in {b \in All : b.id = x \/ b.name = x}}
           /\ x \in Id => Denoted(containers, x) \subseteq {x}
<1>1. \A c \in All : c.id \in Id /\ c.name \in ContainerName
  BY AllTyped DEF Container
<1>2. Denoted(containers, x) = {c.id : c \in {b \in All : b.id = x \/ b.name = x}}
  BY DEF Denoted, All
<1> QED BY <1>1, <1>2, NameAssumption

LEMMA FindableIs ==
    ASSUME Types, NEW x
    PROVE  Findable(containers, x, up) # {} => up /\ \E c \in All : c.id = x \/ c.name = x
  BY DenotedIs DEF Findable

(* The list is the beginning of the containers.                            *)
LEMMA ListIs ==
    ASSUME Types
    PROVE  \A k \in DOMAIN list_containers(containers) :
               k \in DOMAIN containers /\ list_containers(containers)[k] = containers[k]
  BY LimitAssumption DEF Types, list_containers

(* A search finds what is in the list, and then the only container the     *)
(* identifier denotes.                                                     *)
LEMMA SearchIs ==
    ASSUME Types, Unique, NEW x
    PROVE  /\ x \in list_entries(containers) => Search(x) # None
           /\ Search(x) # None => Search(x) \in Id /\ Denoted(containers, x) = {Search(x)}
<1> DEFINE list == list_containers(containers)
           Match(k) == list[k].id = x \/ list[k].name = x
           First(k) == Match(k) /\ \A j \in 1 .. k - 1 : ~Match(j)
<1>1. \A k \in DOMAIN containers : containers[k].id \in Id /\ containers[k].name \in ContainerName
  <2>1. \A k \in DOMAIN containers : containers[k] \in Container
    BY DEF Types
  <2> QED BY <2>1 DEF Container
<1>2. \A j, k \in DOMAIN containers :
          /\ containers[j].id = x \/ containers[j].name = x
          /\ containers[k].id = x \/ containers[k].name = x
          => j = k
  BY <1>1, NameAssumption DEF Unique
<1>3. list \in Seq(Container) /\ DOMAIN list = 1 .. Len(list) /\ Len(list) \in Nat
  BY LimitAssumption DEF Types, list_containers
<1>4. x \in list_entries(containers) => \E k \in DOMAIN list : Match(k)
  BY DEF list_entries
<1>5. CASE \E k \in DOMAIN list : Match(k)
  <2> PICK k \in DOMAIN list : Match(k)
    BY <1>5
  <2>1. \A j \in DOMAIN list : Match(j) => j = k
    BY <1>2, ListIs
  <2>2. First(k)
    BY <1>3, <2>1
  <2>3. (CHOOSE j \in DOMAIN list : First(j)) = k
    BY <2>1, <2>2
  <2>4. Search(x) = list[k].id
    BY <1>5, <2>3 DEF Search
  <2>5. list[k] = containers[k] /\ k \in DOMAIN containers
    BY ListIs
  <2>6. Denoted(containers, x) = {containers[k].id}
    BY <1>2, <2>5 DEF Denoted
  <2> QED BY <1>1, <2>4, <2>5, <2>6, NameAssumption
<1>6. CASE ~\E k \in DOMAIN list : Match(k)
  <2>1. Search(x) = None
    BY <1>6 DEF Search
  <2> QED BY <1>4, <1>6, <2>1
<1> QED BY <1>5, <1>6

-----------------------------------------------------------------------------
(* A request that ends the call, without or with an answer.                *)
LEMMA Ends ==
    ASSUME IInv, NEW a, pc' = "idle", answer' = a, UNCHANGED <<world, call, bore, steady>>,
           a.stats # None => a.info = a.stats \/ call.arg \in LooksLikeId,
           a.info # None => a.info \in bore,
           steady # {} => a.found
    PROVE  IInv'
<1> USE DEF IInv, world
<1>1. Types' /\ Unique' /\ Kept' /\ Resolving'
  BY DEF Types, Unique, Kept, Resolving, All
<1>2. OneContainer' /\ RightContainer' /\ NoFalseAbsence'
  BY DEF OneContainer, RightContainer, NoFalseAbsence
<1> QED BY <1>1, <1>2

(* A request after which there is another.                                 *)
LEMMA GoesOn ==
    ASSUME IInv, pc # "idle", pc' \in {"list", "inspect", "stats"},
           UNCHANGED <<world, call, answer, bore, steady>>, Resolving'
    PROVE  IInv'
<1> USE DEF IInv, world
<1>1. Types' /\ Unique' /\ Kept'
  BY DEF Types, Unique, Kept, Denoted, Findable, list_entries
<1>2. OneContainer' /\ RightContainer' /\ NoFalseAbsence'
  BY DEF OneContainer, RightContainer, NoFalseAbsence, Kept, NoAnswer
<1> QED BY <1>1, <1>2

LEMMA CallIInv ==
    ASSUME IInv, NEW op \in {"exists", "read"}, NEW x \in Identifier, Call(op, x) PROVE IInv'
<1> USE DEF IInv, Call, world
<1>1. call'.arg = x
  OBVIOUS
<1>2. Types' /\ Unique'
  BY DEF Types, Unique, Container
<1>3. Kept'
  BY <1>1 DEF Kept, Denoted, Findable, list_entries
<1>4. Resolving'
  BY <1>1 DEF Resolving, ById
<1>5. OneContainer' /\ RightContainer' /\ NoFalseAbsence'
  BY DEF OneContainer, RightContainer, NoFalseAbsence, NoAnswer
<1> QED BY <1>2, <1>3, <1>4, <1>5

(* resolve_container_id() has an ID that satisfies the invariant.          *)
LEMMA ResolvedIInv ==
    ASSUME IInv, pc \in {"direct", "list"}, NEW x, Resolved(x),
           UNCHANGED <<world, call, info, bore, steady>>,
           \/ x = call.arg /\ call.arg \in LooksLikeId
           \/ x \in Id /\ (x = call.arg \/ x \in bore) /\ steady \subseteq {x}
    PROVE  IInv'
<1>1. CASE call.op = "exists"
  BY <1>1, Ends DEF Resolved, Return, NoAnswer
<1>2. CASE call.op # "exists"
  <2>1. pc' = "inspect" /\ resolved' = x /\ UNCHANGED answer
    BY <1>2 DEF Resolved
  <2>2. Resolving'
    BY <2>1 DEF Resolving
  <2> QED BY <2>1, <2>2, GoesOn
<1> QED BY <1>1, <1>2

LEMMA DirectIInv == ASSUME IInv, Direct PROVE IInv'
<1> DEFINE arg == call.arg
<1>1. pc = "direct" /\ arg \in ById /\ UNCHANGED <<world, call, info, bore, steady>>
      /\ Types /\ Unique
  BY DEF Direct, IInv, Resolving, seen
<1>2. steady \subseteq Findable(containers, arg, up)
  BY <1>1 DEF IInv, Kept
<1>3. CASE Daemon(arg) # None
  <2>1. Resolved(arg)
    BY <1>3 DEF Direct
  <2>2. arg \in Id => steady \subseteq {arg}
    BY <1>1, <1>2, DenotedIs DEF Findable
  <2> QED BY <1>1, <2>1, <2>2, ResolvedIInv DEF ById
<1>4. CASE Daemon(arg) = None
  <2>1. pc' = "list" /\ UNCHANGED <<resolved, answer>>
    BY <1>4 DEF Direct
  <2>2. ~(up /\ \E c \in All : c.id = arg \/ c.name = arg)
    <3>1. \A c \in All : c.id \in Id /\ c.name \in ContainerName
      BY <1>1, AllTyped DEF Container
    <3>2. CASE arg \in Id
      BY <1>1, <1>4, <3>1, <3>2, DaemonOfId, NameAssumption
    <3>3. CASE arg \in LooksLikeId
      BY <1>1, <1>4, <3>1, <3>3, DaemonOfName, NameAssumption
    <3> QED BY <1>1, <3>2, <3>3 DEF ById
  <2>3. steady = {}
    BY <1>1, <1>2, <2>2, FindableIs
  <2>4. Resolving'
    BY <1>1, <2>1, <2>3 DEF Resolving
  <2> QED BY <1>1, <2>1, <2>4, GoesOn
<1> QED BY <1>3, <1>4

LEMMA ListIInv == ASSUME IInv, List PROVE IInv'
<1> DEFINE arg == call.arg
<1>1. pc = "list" /\ UNCHANGED <<world, call, info, bore, steady>> /\ Types /\ Unique
  BY DEF List, IInv, seen
<1>2. Denoted(containers, arg) \subseteq bore /\ steady \subseteq Findable(containers, arg, up)
      /\ (arg \in ById => steady = {})
  BY <1>1 DEF IInv, Kept, Resolving
<1>3. CASE up /\ Search(arg) # None
  <2>1. Resolved(Search(arg))
    BY <1>3 DEF List
  <2>2. Search(arg) \in Id /\ Denoted(containers, arg) = {Search(arg)}
    BY <1>1, <1>3, SearchIs
  <2>3. Findable(containers, arg, up) \subseteq {Search(arg)}
    BY <2>2 DEF Findable
  <2> QED BY <1>1, <1>2, <2>1, <2>2, <2>3, ResolvedIInv
<1>4. CASE ~(up /\ Search(arg) # None)
  <2>1. Return(NoAnswer)
    BY <1>4 DEF List
  <2>2. arg \in list_entries(containers) => ~up
    BY <1>1, <1>4, SearchIs
  <2>3. steady = {}
    BY <1>2, <2>2 DEF Findable, ById
  <2> QED BY <1>1, <2>1, <2>3, Ends DEF Return, NoAnswer
<1> QED BY <1>3, <1>4

LEMMA InspectIInv == ASSUME IInv, Inspect PROVE IInv'
<1> DEFINE arg == call.arg
<1>1. pc = "inspect" /\ UNCHANGED <<world, call, resolved, bore, steady>> /\ Types /\ Unique
  BY DEF Inspect, IInv, seen
<1>2. Denoted(containers, arg) \subseteq bore /\ steady \subseteq Findable(containers, arg, up)
  BY <1>1 DEF IInv, Kept
<1>3. \/ resolved = arg /\ arg \in LooksLikeId
      \/ resolved \in Id /\ (resolved = arg \/ resolved \in bore) /\ steady \subseteq {resolved}
  BY <1>1 DEF IInv, Resolving
<1>4. \A c \in All : c.id \in Id /\ c.name \in ContainerName
  BY <1>1, AllTyped DEF Container
<1>5. Denoted(containers, arg) = {c.id : c \in {b \in All : b.id = arg \/ b.name = arg}}
  BY <1>1, DenotedIs
<1>6. CASE Daemon(resolved) # None
  <2>1. info' = Daemon(resolved) /\ pc' = "stats" /\ UNCHANGED answer
    BY <1>6 DEF Inspect
  <2>2. CASE resolved = arg /\ arg \in LooksLikeId
    <3>1. \E c \in All : c.name = arg /\ Daemon(resolved) = c.id
      BY <1>1, <1>6, <2>2, DaemonOfName, NameAssumption
    <3>2. info' \in bore /\ info' \in Id
      BY <1>2, <1>4, <1>5, <2>1, <3>1
    <3>3. resolved \notin Id
      BY <2>2, NameAssumption
    <3>4. Resolving'
      BY <1>1, <2>1, <2>2, <3>2, <3>3 DEF Resolving
    <3> QED BY <1>1, <2>1, <3>4, GoesOn
  <2>3. CASE resolved \in Id /\ (resolved = arg \/ resolved \in bore) /\ steady \subseteq {resolved}
    <3>1. Daemon(resolved) = resolved /\ \E c \in All : c.id = resolved
      BY <1>1, <1>6, <2>3, DaemonOfId
    <3>2. resolved \in bore
      BY <1>2, <1>5, <2>3, <3>1
    <3>3. Resolving'
      BY <1>1, <2>1, <2>3, <3>1, <3>2 DEF Resolving
    <3> QED BY <1>1, <2>1, <3>3, GoesOn
  <2> QED BY <1>3, <2>2, <2>3
<1>7. CASE Daemon(resolved) = None
  <2>1. Return(NoAnswer)
    BY <1>7 DEF Inspect
  <2>2. steady = {}
    <3> SUFFICES ASSUME steady # {} PROVE FALSE
      OBVIOUS
    <3>1. up /\ \E c \in All : c.id \in steady /\ (c.id = arg \/ c.name = arg)
      BY <1>2, <1>5 DEF Findable
    <3>2. CASE resolved = arg /\ arg \in LooksLikeId
      BY <1>1, <1>4, <1>7, <3>1, <3>2, DaemonOfName, NameAssumption
    <3>3. CASE resolved \in Id /\ steady \subseteq {resolved}
      BY <1>1, <1>7, <3>1, <3>3, DaemonOfId
    <3> QED BY <1>3, <3>2, <3>3
  <2> QED BY <1>1, <2>1, <2>2, Ends DEF Return, NoAnswer
<1> QED BY <1>6, <1>7

LEMMA StatsIInv == ASSUME IInv, Stats PROVE IInv'
<1> DEFINE a == [found |-> TRUE, info |-> info, stats |-> Daemon(resolved)]
<1>1. /\ pc = "stats" /\ pc' = "idle" /\ answer' = a
      /\ UNCHANGED <<world, call, bore, steady>> /\ Types
  BY DEF Stats, Return, IInv, seen
<1>2. info \in bore /\ info \in Id /\ (resolved \in Id => info = resolved)
      /\ (resolved \in Id \/ call.arg \in LooksLikeId)
  BY <1>1 DEF IInv, Resolving
<1>3. resolved \in Id => Daemon(resolved) \in {None, resolved}
  BY <1>1, DaemonOfId
<1>4. a.found /\ a.info = info /\ a.stats = Daemon(resolved)
  OBVIOUS
<1> HIDE DEF a
<1> QED BY <1>1, <1>2, <1>3, <1>4, Ends

-----------------------------------------------------------------------------
(* What happens outside keeps the types and the uniqueness, and then the   *)
(* histories take care of the rest.                                        *)
LEMMA OutsideIInv ==
    ASSUME IInv, Types', Unique', Remember, UNCHANGED Handler PROVE IInv'
<1> USE DEF IInv, Handler, Remember
<1>1. Kept'
  BY DEF Kept, Denoted, Findable
<1>2. bore \subseteq bore' /\ steady' \subseteq steady
  OBVIOUS
<1>3. Resolving'
  BY <1>2 DEF Resolving
<1>4. OneContainer' /\ RightContainer' /\ NoFalseAbsence'
  BY <1>2 DEF OneContainer, RightContainer, NoFalseAbsence
<1> QED BY <1>1, <1>3, <1>4

LEMMA StartIInv == ASSUME IInv, NEW i \in Id, NEW n \in ContainerName, Start(i, n) PROVE IInv'
<1> DEFINE new == [id |-> i, name |-> n]
<1>1. /\ i \notin used /\ (\A c \in All : c.name # n) /\ UNCHANGED <<up, Handler>> /\ Remember
      /\ containers' = <<new>> \o containers /\ used' = used \cup {i}
  BY DEF Start
<1>2. new \in Container /\ new.id = i /\ new.name = n
  BY DEF Container
<1> HIDE DEF new
<1>3. containers \in Seq(Container) /\ <<new>> \in Seq(Container) /\ Len(<<new>>) = 1
  BY <1>2 DEF IInv, Types
<1>4. /\ containers' \in Seq(Container) /\ DOMAIN containers' = 1 .. Len(containers) + 1
      /\ containers'[1] = new
      /\ \A k \in 2 .. Len(containers) + 1 :
             k - 1 \in DOMAIN containers /\ containers'[k] = containers[k - 1]
  BY <1>1, <1>3
<1>5. \A k \in DOMAIN containers' :
          \/ k = 1 /\ containers'[k] = new
          \/ k - 1 \in DOMAIN containers /\ containers'[k] = containers[k - 1]
  BY <1>3, <1>4
<1>6. \A k \in DOMAIN containers : containers[k].id # i /\ containers[k].name # n
  BY <1>1 DEF IInv, Types, All
<1>7. Types'
  BY <1>1, <1>2, <1>4, <1>5 DEF IInv, Types, Handler
<1>8. Unique'
  <2> SUFFICES ASSUME NEW j \in DOMAIN containers', NEW k \in DOMAIN containers',
                      \/ containers'[j].id = containers'[k].id
                      \/ containers'[j].name = containers'[k].name
               PROVE  j = k
    BY DEF Unique
  <2>0. j \in Int /\ k \in Int
    BY <1>4
  <2>1. CASE j = 1 \/ k = 1
    <3>1. \A m \in DOMAIN containers' \ {1} : containers'[m].id # i /\ containers'[m].name # n
      BY <1>5, <1>6
    <3> QED BY <1>2, <1>4, <2>1, <3>1
  <2>2. CASE j # 1 /\ k # 1
    <3>1. j - 1 = k - 1
      BY <1>5, <2>2 DEF IInv, Unique
    <3> QED BY <2>0, <3>1
  <2> QED BY <2>1, <2>2
<1> QED BY <1>1, <1>7, <1>8, OutsideIInv

LEMMA RemoveIInv == ASSUME IInv, NEW i \in DOMAIN containers, Remove(i) PROVE IInv'
<1> DEFINE a == SubSeq(containers, 1, i - 1)
           b == SubSeq(containers, i + 1, Len(containers))
<1>1. containers' = a \o b /\ UNCHANGED <<used, up, Handler>> /\ Remember
  BY DEF Remove
<1>2. /\ containers \in Seq(Container) /\ Len(containers) \in Nat
      /\ DOMAIN containers = 1 .. Len(containers) /\ i \in 1 .. Len(containers)
  BY DEF IInv, Types
<1>3. a \in Seq(Container) /\ Len(a) = i - 1 /\ \A k \in 1 .. Len(a) : a[k] = containers[k]
  BY <1>2, SubSeqProperties
<1>4. b \in Seq(Container) /\ Len(b) = Len(containers) - i
      /\ \A k \in 1 .. Len(b) : b[k] = containers[k + i]
  <2> DEFINE first == i + 1
             last == Len(containers)
  <2>1. first \in Int /\ last \in Int /\ \A k \in first .. last : containers[k] \in Container
    BY <1>2
  <2>2. b = SubSeq(containers, first, last)
    OBVIOUS
  <2> HIDE DEF b, first, last
  <2>3. LET t == SubSeq(containers, first, last)
        IN  /\ t \in Seq(Container)
            /\ Len(t) = IF first <= last THEN last - first + 1 ELSE 0
            /\ \A k \in 1 .. last - first + 1 : t[k] = containers[first + k - 1]
    BY <2>1, SubSeqProperties
  <2>4. /\ b \in Seq(Container)
        /\ Len(b) = IF i + 1 <= Len(containers) THEN Len(containers) - (i + 1) + 1 ELSE 0
        /\ \A k \in 1 .. Len(containers) - (i + 1) + 1 : b[k] = containers[(i + 1) + k - 1]
    BY <2>2, <2>3 DEF first, last
  <2> HIDE DEF b
  <2>5. Len(b) = Len(containers) - i
    BY <1>2, <2>4
  <2>6. ASSUME NEW k \in 1 .. Len(b) PROVE b[k] = containers[k + i]
    <3>1. i \in Int /\ Len(containers) \in Int /\ k \in Int /\ 1 <= k /\ k <= Len(containers) - i
      BY <1>2, <2>5
    <3>2. (i + 1) + k - 1 = k + i /\ k \in 1 .. Len(containers) - (i + 1) + 1
      BY <3>1
    <3> QED BY <2>4, <3>2
  <2> QED BY <2>4, <2>5, <2>6
<1> HIDE DEF a, b
<1>5. a \o b \in Seq(Container) /\ Len(a \o b) = Len(a) + Len(b)
      /\ \A k \in 1 .. Len(a) + Len(b) : (a \o b)[k] = IF k <= Len(a) THEN a[k] ELSE b[k - Len(a)]
  BY <1>3, <1>4, ConcatProperties
<1> DEFINE At(k) == IF k < i THEN k ELSE k + 1
<1>6. ASSUME NEW k \in DOMAIN containers'
      PROVE  k \in Int /\ At(k) \in DOMAIN containers /\ containers'[k] = containers[At(k)]
  <2>1. k \in 1 .. Len(containers) - 1 /\ k \in 1 .. Len(a) + Len(b)
    BY <1>1, <1>2, <1>3, <1>4, <1>5
  <2>2. CASE k < i
    <3>1. k <= Len(a) /\ k \in 1 .. Len(a)
      BY <1>2, <1>3, <2>1, <2>2
    <3> QED BY <1>1, <1>2, <1>3, <1>5, <2>1, <2>2, <3>1
  <2>3. CASE k >= i
    <3>1. ~(k <= Len(a)) /\ k - Len(a) \in 1 .. Len(b) /\ k - Len(a) + i = k + 1 /\ ~(k < i)
      <4> DEFINE l == Len(containers)
                 m == Len(a)
                 n == Len(b)
      <4>1. l \in Nat /\ i \in 1 .. l /\ k \in 1 .. l - 1 /\ k >= i /\ m = i - 1 /\ n = l - i
        BY <1>2, <1>3, <1>4, <2>1, <2>3
      <4> HIDE DEF l, m, n
      <4>2. ~(k <= m) /\ k - m \in 1 .. n /\ k - m + i = k + 1 /\ ~(k < i)
        BY <4>1
      <4> QED BY <4>2 DEF m, n
    <3>2. (a \o b)[k] = containers[k + 1]
      BY <1>4, <1>5, <2>1, <3>1
    <3>3. k + 1 \in DOMAIN containers /\ k \in Int
      BY <1>2, <2>1
    <3> QED BY <1>1, <3>1, <3>2, <3>3
  <2> QED BY <1>2, <2>1, <2>2, <2>3
<1>7. Types'
  <2>1. \A k \in DOMAIN containers' : containers'[k].id \in used
    BY <1>6 DEF IInv, Types
  <2> QED BY <1>1, <1>5, <2>1 DEF IInv, Types, Handler
<1>8. Unique'
  <2> SUFFICES ASSUME NEW j \in DOMAIN containers', NEW k \in DOMAIN containers',
                      \/ containers'[j].id = containers'[k].id
                      \/ containers'[j].name = containers'[k].name
               PROVE  j = k
    BY DEF Unique
  <2>1. At(j) = At(k) /\ j \in Int /\ k \in Int
    BY <1>6 DEF IInv, Unique
  <2> QED BY <1>2, <2>1
<1> QED BY <1>1, <1>7, <1>8, OutsideIInv

LEMMA RenameIInv ==
    ASSUME IInv, NEW i \in DOMAIN containers, NEW n \in ContainerName, Rename(i, n) PROVE IInv'
<1> DEFINE c == containers[i]
<1>1. /\ (\A d \in All : d.name # n) /\ UNCHANGED <<used, up, Handler>> /\ Remember
      /\ containers' = [containers EXCEPT ![i].name = n]
  BY DEF Rename
<1>2. containers \in Seq(Container) /\ c \in Container
  BY DEF IInv, Types
<1>3. [c EXCEPT !.name = n] \in Container /\ [c EXCEPT !.name = n].name = n
      /\ [c EXCEPT !.name = n].id = c.id
  BY <1>2 DEF Container
<1>4. containers' = [containers EXCEPT ![i] = [c EXCEPT !.name = n]]
  BY <1>1
<1>5. containers' \in Seq(Container) /\ DOMAIN containers' = DOMAIN containers
  BY <1>2, <1>3, <1>4, ExceptSeq
<1>6. \A k \in DOMAIN containers :
          /\ containers'[k].id = containers[k].id
          /\ containers'[k].name = IF k = i THEN n ELSE containers[k].name
  BY <1>3, <1>4
<1>7. Types'
  BY <1>1, <1>5, <1>6 DEF IInv, Types, Handler
<1>8. Unique'
  BY <1>1, <1>5, <1>6 DEF IInv, Unique, All
<1> QED BY <1>1, <1>7, <1>8, OutsideIInv

LEMMA UpDownIInv == ASSUME IInv, UpDown PROVE IInv'
<1>1. Types' /\ Unique'
  BY DEF UpDown, IInv, Types, Unique, Handler
<1> QED BY <1>1, OutsideIInv DEF UpDown

LEMMA InitIInv == Init => IInv
  BY DEF Init, IInv, Types, Unique, Kept, Resolving, OneContainer, RightContainer, NoFalseAbsence,
         NoAnswer

LEMMA NextIInv == IInv /\ [Next]_vars => IInv'
<1> SUFFICES ASSUME IInv, [Next]_vars PROVE IInv'
  OBVIOUS
<1>1. CASE UNCHANGED vars
  <2>1. Types' /\ Unique' /\ Kept' /\ Resolving'
    BY <1>1 DEF vars, seen, IInv, Types, Unique, Kept, Resolving, Denoted, Findable, list_entries
  <2>2. OneContainer' /\ RightContainer' /\ NoFalseAbsence'
    BY <1>1 DEF vars, seen, IInv, OneContainer, RightContainer, NoFalseAbsence
  <2> QED BY <2>1, <2>2 DEF IInv
<1> QED BY <1>1, CallIInv, DirectIInv, ListIInv, InspectIInv, StatsIInv, StartIInv, RemoveIInv,
           RenameIInv, UpDownIInv DEF Next

THEOREM Invariant == Spec => []IInv
  BY InitIInv, NextIInv, PTL DEF Spec

(* Data and stats are of one container, or the name looks like an ID.      *)
THEOREM AnswersOfOneContainer == Spec => []OneContainer
<1>1. IInv => OneContainer
  BY DEF IInv
<1> QED BY <1>1, Invariant, PTL

(* The container described is one that was asked for.                      *)
THEOREM AnswersOfTheRightOne == Spec => []RightContainer
<1>1. IInv => RightContainer
  BY DEF IInv
<1> QED BY <1>1, Invariant, PTL

(* A container that was there and could be found all the time is found.    *)
THEOREM NothingIsHidden == Spec => []NoFalseAbsence
<1>1. IInv => NoFalseAbsence
  BY DEF IInv
<1> QED BY <1>1, Invariant, PTL

-----------------------------------------------------------------------------
(* ProcInfo.                                                               *)
ProcTypes ==
    /\ born \in Nat /\ process \in [Pid -> 0 .. born]
    /\ pid \in Pid \cup {NoPid}
    /\ fields \in Seq(Nat) /\ description \in Seq(Nat)
    /\ had \in SUBSET (1 .. born)

(* Whoever has the number now has been noted.                              *)
OwnerNoted == ~idle => process[pid] \in had \cup {0}

(* What one process has been read as: an unguarded file before one that    *)
(* was read is of the same process; and all of them are while it lives.    *)
Contiguous(seq) ==
    \A j, k \in DOMAIN seq :
        j < k /\ seq[k] # 0 /\ Source[j] \notin Guarded => seq[j] = seq[k]
OneLife ==
    had \in {{n} : n \in 1 .. born} =>
        /\ Contiguous(fields) /\ Contiguous(description)
        /\ ~idle /\ process[pid] # 0 =>
               \A j \in DOMAIN fields : Source[j] \notin Guarded => fields[j] = process[pid]

ProcInv == ProcTypes /\ OnlyOfThisNumber /\ OwnerNoted /\ OneLife

LEMMA ProcInitInv == ProcInit => ProcInv
  BY PidAssumption DEF ProcInit, ProcInv, ProcTypes, OnlyOfThisNumber, OwnerNoted, OneLife,
         Contiguous, Processes, idle

(* A call starts with the process that has the number.                     *)
LEMMA ProcRead == ASSUME ProcInv, NEW p \in Pid, Read(p) PROVE ProcInv'
<1> USE PidAssumption DEF ProcInv, Read, exists, idle
<1>0. born \in Nat /\ process[p] \in 0 .. born /\ process[p] \in Nat
  BY DEF ProcTypes
<1>1. CASE process[p] # 0
  <2>1. pid' = p /\ fields' = <<>> /\ had' = {process[p]} /\ description' = <<>> /\ UNCHANGED <<process, born>>
    BY <1>1
  <2>2. process[p] \in 1 .. born
    BY <1>0, <1>1
  <2>3. ProcTypes'
    BY <2>1, <2>2 DEF ProcTypes
  <2>4. OnlyOfThisNumber' /\ OwnerNoted' /\ OneLife'
    BY <2>1 DEF OnlyOfThisNumber, Processes, OwnerNoted, OneLife, Contiguous
  <2> QED BY <2>3, <2>4
<1>2. CASE process[p] = 0
  <2>1. description' = <<>> /\ UNCHANGED <<process, born, pid, fields, had>>
    BY <1>2
  <2>2. ProcTypes' /\ OwnerNoted'
    BY <2>1 DEF ProcTypes, OwnerNoted
  <2>3. OnlyOfThisNumber'
    BY <2>1 DEF OnlyOfThisNumber, Processes
  <2>4. OneLife'
    BY <2>1 DEF OneLife, Contiguous
  <2> QED BY <2>2, <2>3, <2>4
<1> QED BY <1>1, <1>2

(* The next file is read from who has the number, or not at all.           *)
LEMMA ProcReadSource == ASSUME ProcInv, ReadSource PROVE ProcInv'
<1> USE PidAssumption DEF ProcInv, ReadSource, idle
<1> DEFINE v == fields'[Len(fields) + 1]
<1>1. pid \in Pid /\ process[pid] \in Nat
  BY DEF ProcTypes
<1>2. /\ fields' \in Seq(Nat) /\ Len(fields') = Len(fields) + 1
      /\ v = process[pid] \/ (v = 0 /\ Source[Len(fields) + 1] \in Guarded)
      /\ \A j \in DOMAIN fields : j \in DOMAIN fields' /\ fields'[j] = fields[j]
      /\ \A j \in DOMAIN fields' : j \in DOMAIN fields \/ j = Len(fields) + 1
  <2>1. PICK x \in Nat : /\ fields' = Append(fields, x)
                         /\ x = process[pid] \/ (x = 0 /\ Source[Len(fields) + 1] \in Guarded)
    BY <1>1
  <2>2. fields \in Seq(Nat)
    BY DEF ProcTypes
  <2> QED BY <2>1, <2>2
<1>3. ProcTypes'
  BY <1>2 DEF ProcTypes
<1>4. OnlyOfThisNumber'
  <2>1. v \in had \cup {0}
    BY <1>2 DEF OwnerNoted
  <2> QED BY <1>2, <2>1 DEF OnlyOfThisNumber, Processes
<1>5. OwnerNoted'
  BY DEF OwnerNoted
<1>6. OneLife'
  <2> SUFFICES ASSUME NEW n \in 1 .. born, had = {n}
               PROVE  /\ Contiguous(fields') /\ Contiguous(description)
                      /\ process[pid] # 0 =>
                             \A j \in DOMAIN fields' : Source[j] \notin Guarded => fields'[j] = process[pid]
    BY DEF OneLife, Contiguous
  <2>1. /\ Contiguous(fields) /\ Contiguous(description)
        /\ process[pid] # 0 =>
               \A j \in DOMAIN fields : Source[j] \notin Guarded => fields[j] = process[pid]
    BY DEF OneLife
  <2>2. DOMAIN fields = 1 .. Len(fields) /\ Len(fields) \in Nat
    BY DEF ProcTypes
  <2>3. ASSUME NEW j \in DOMAIN fields', NEW k \in DOMAIN fields', j < k, fields'[k] # 0,
               Source[j] \notin Guarded
        PROVE  fields'[j] = fields'[k]
    <3>1. j \in DOMAIN fields
      BY <1>2, <2>2, <2>3
    <3>2. CASE k \in DOMAIN fields
      BY <1>2, <2>1, <2>3, <3>1, <3>2 DEF Contiguous
    <3>3. CASE k = Len(fields) + 1
      BY <1>2, <2>1, <2>3, <3>1, <3>3
    <3> QED BY <1>2, <3>2, <3>3
  <2>4. process[pid] # 0 =>
            \A j \in DOMAIN fields' : Source[j] \notin Guarded => fields'[j] = process[pid]
    BY <1>2, <2>1
  <2> QED BY <2>1, <2>3, <2>4 DEF Contiguous
<1> QED BY <1>3, <1>4, <1>5, <1>6

LEMMA ProcReply == ASSUME ProcInv, Reply PROVE ProcInv'
<1> USE PidAssumption DEF ProcInv, Reply, idle
<1>1. ProcTypes' /\ OnlyOfThisNumber' /\ OwnerNoted'
  BY DEF ProcTypes, OnlyOfThisNumber, OwnerNoted, Processes
<1>2. OneLife'
  BY DEF OneLife, Contiguous
<1> QED BY <1>1, <1>2

(* The number of the call changes hands: two processes have had it.        *)
LEMMA ProcStart == ASSUME ProcInv, NEW p \in Pid, StartProcess(p) PROVE ProcInv'
<1> USE PidAssumption DEF ProcInv, StartProcess, idle
<1>1. process' \in [Pid -> 0 .. born'] /\ born' \in Nat /\ born' = born + 1
  BY DEF ProcTypes
<1>2. had \subseteq 1 .. born /\ born \in Nat
  BY DEF ProcTypes
<1>3. ProcTypes'
  BY <1>1, <1>2 DEF ProcTypes
<1>4. OnlyOfThisNumber' /\ OwnerNoted'
  BY DEF ProcTypes, OnlyOfThisNumber, OwnerNoted, Processes
<1>5. CASE p = pid
  <2>1. had # {} /\ born + 1 \notin had /\ had' = had \cup {born + 1}
    BY <1>2, <1>5 DEF OnlyOfThisNumber
  <2>2. \A n : had' # {n}
    BY <2>1
  <2>3. OneLife'
    BY <2>2 DEF OneLife
  <2> QED BY <1>3, <1>4, <2>3
<1>6. CASE p # pid
  <2>1. had' = had /\ (pid \in Pid => process'[pid] = process[pid])
    BY <1>6 DEF ProcTypes
  <2>2. had' \in {{n} : n \in 1 .. born'} => had \in {{n} : n \in 1 .. born}
    BY <1>1, <1>2, <2>1
  <2>3. OneLife'
    BY <2>1, <2>2 DEF OneLife, Contiguous, ProcTypes
  <2> QED BY <1>3, <1>4, <2>3
<1> QED BY <1>5, <1>6

LEMMA ProcExit == ASSUME ProcInv, NEW p \in Pid, Exit(p) PROVE ProcInv'
<1> USE PidAssumption DEF ProcInv, Exit, idle
<1>1. process' \in [Pid -> 0 .. born] /\ \A q \in Pid : process'[q] \in {0, process[q]}
  BY DEF ProcTypes
<1>2. ProcTypes' /\ OnlyOfThisNumber' /\ OwnerNoted'
  BY <1>1 DEF ProcTypes, OnlyOfThisNumber, OwnerNoted, Processes
<1>3. OneLife'
  BY <1>1 DEF OneLife, Contiguous, ProcTypes
<1> QED BY <1>2, <1>3

LEMMA ProcNextInv == ProcInv /\ [ProcNext]_procVars => ProcInv'
<1> SUFFICES ASSUME ProcInv, [ProcNext]_procVars PROVE ProcInv'
  OBVIOUS
<1>1. CASE UNCHANGED procVars
  <2>1. UNCHANGED <<process, born, pid, fields, description, had>>
    BY <1>1 DEF procVars
  <2>2. ProcTypes' /\ OwnerNoted'
    BY <2>1 DEF ProcInv, ProcTypes, OwnerNoted, idle
  <2>3. OnlyOfThisNumber'
    BY <2>1 DEF ProcInv, OnlyOfThisNumber, Processes, idle
  <2>4. OneLife'
    BY <2>1 DEF ProcInv, OneLife, Contiguous, idle
  <2> QED BY <2>2, <2>3, <2>4 DEF ProcInv
<1>2. ASSUME NEW p \in Pid, Read(p) PROVE ProcInv'
  BY <1>2, ProcRead
<1>3. CASE ReadSource
  BY <1>3, ProcReadSource
<1>4. CASE Reply
  BY <1>4, ProcReply
<1>5. ASSUME NEW p \in Pid, StartProcess(p) PROVE ProcInv'
  BY <1>5, ProcStart
<1>6. ASSUME NEW p \in Pid, Exit(p) PROVE ProcInv'
  BY <1>6, ProcExit
<1> QED BY <1>1, <1>2, <1>3, <1>4, <1>5, <1>6 DEF ProcNext

(* Whatever is answered is of processes that had the number meanwhile.     *)
THEOREM AnswersOfThisNumber ==
    ProcSpec => []OnlyOfThisNumber
<1>1. ProcInv => OnlyOfThisNumber
  BY DEF ProcInv
<1>2. ProcInit => ProcInv
  BY ProcInitInv
<1>3. ProcInv /\ [ProcNext]_procVars => ProcInv'
  BY ProcNextInv
<1> QED BY <1>1, <1>2, <1>3, PTL DEF ProcSpec

(* Without a change of hands no unguarded field is missing or of another.  *)
THEOREM NoHoles ==
    ProcSpec => []NoHolesInOneLife
<1>1. ProcInv => NoHolesInOneLife
  <2> SUFFICES ASSUME ProcInv, NEW n \in 1 .. MaxBorn, had = {n} PROVE Contiguous(description)
    BY DEF NoHolesInOneLife, Contiguous
  <2>1. n \in 1 .. born
    BY DEF ProcInv, ProcTypes
  <2> QED BY <2>1 DEF ProcInv, OneLife
<1>2. ProcInit => ProcInv
  BY ProcInitInv
<1>3. ProcInv /\ [ProcNext]_procVars => ProcInv'
  BY ProcNextInv
<1> QED BY <1>1, <1>2, <1>3, PTL DEF ProcSpec
===============================================================================
