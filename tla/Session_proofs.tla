---------------------------- MODULE Session_proofs ----------------------------
(* No session threads wait for each other in a circle, for every set of    *)
(* processes and mount points, as long as nothing is mounted on twice.     *)
EXTENDS Session, SequenceTheorems, TLAPS

(* `s` can come to wait for `t`.                                           *)
Edge(s, t) == \E p \in known[s] : \E k \in DOMAIN stack[p] : stack[p][k] = t

Types ==
    /\ phase \in [Server -> {"new", "registered", "serving", "unmounted", "stopping"}]
    /\ known \in [Server -> SUBSET Point]
    /\ stack \in [Point -> Seq(Server \cup {None})]
    /\ queue \in [Server -> Seq(Request)]
    /\ current \in [Server -> Request \cup {None}]
    /\ asks \in [Party -> Server \cup {"docker", None}]
    /\ mounted \in [Point -> Nat]

(* Only what was mounted is known or has mounts.                           *)
WasMounted ==
    /\ \A s \in Server : \A p \in known[s] : mounted[p] # 0
    /\ \A p \in Point : mounted[p] = 0 => stack[p] = <<>>

(* A process that has not mounted is in no stack, one that has not         *)
(* registered knows of nothing.                                            *)
Fresh ==
    \A s \in Server :
        /\ phase[s] \in {"new", "registered"} =>
               \A p \in Point : \A k \in DOMAIN stack[p] : stack[p][k] # s
        /\ phase[s] = "new" => known[s] = {}

(* A server has one mount at most.                                         *)
OneMount ==
    \A p, q \in Point : \A j \in DOMAIN stack[p], k \in DOMAIN stack[q] :
        stack[p][j] = stack[q][k] /\ stack[p][j] \in Server => p = q /\ j = k

(* Only the metrics of known mount points are asked for, and so a server   *)
(* waits only for one on a mount point it knows.                           *)
PointsKnown ==
    \A s \in Server : \A k \in DOMAIN queue[s] :
        queue[s][k].op \in Point => queue[s][k].op \in known[s]
AskEdge == \A s, t \in Server : asks[s] = t => Edge(s, t)

OnceEach == \A p \in Point : mounted[p] <= 1
Acyclic == \A S \in SUBSET Server : S # {} => \E s \in S : \A t \in S : ~Edge(s, t)

IInv ==
    /\ Types /\ WasMounted /\ Fresh /\ OneMount /\ PointsKnown /\ AskEdge
    /\ OnceEach => Acyclic

(* Nothing is mounted, known or asked at first.                            *)
LEMMA InitIInv == Init => IInv
<1> SUFFICES ASSUME Init PROVE IInv
  OBVIOUS
<1> USE PartiesAssumption DEF Init
<1>1. Types
  BY DEF Types, Party
<1>2. WasMounted /\ Fresh /\ OneMount /\ PointsKnown
  BY DEF WasMounted, Fresh, OneMount, PointsKnown
<1>3. AskEdge
  BY DEF AskEdge, Party
<1>4. Acyclic
  BY DEF Acyclic, Edge
<1> QED BY <1>1, <1>2, <1>3, <1>4 DEF IInv

(* With fewer edges than before there is no circle if there was none.      *)
LEMMA FewerEdges ==
    ASSUME Acyclic, \A s, t \in Server : Edge(s, t)' => Edge(s, t) PROVE Acyclic'
  BY DEF Acyclic

(* A process that registers is in no stack: nobody can wait for it.        *)
LEMMA RegisterIInv == ASSUME IInv, NEW s \in Server, Register(s) PROVE IInv'
<1> USE DEF IInv, Register
<1>1. Types'
  BY DEF Types, Discovered
<1>2. WasMounted'
  BY DEF Types, WasMounted, Discovered
<1>3. Fresh' /\ OneMount'
  BY DEF Types, Fresh, OneMount
<1>4. known[s] = {}
  BY DEF Fresh
<1>5. PointsKnown'
  BY <1>4 DEF Types, PointsKnown
<1>6. AskEdge'
  <2> SUFFICES ASSUME NEW a \in Server, NEW t \in Server, asks[a] = t PROVE Edge(a, t)'
    BY DEF AskEdge
  <2>1. Edge(a, t)
    BY DEF AskEdge
  <2>2. a # s
    BY <1>4, <2>1 DEF Edge
  <2> QED BY <2>1, <2>2 DEF Edge, Types
<1>7. ASSUME OnceEach' PROVE Acyclic'
  <2>1. Acyclic
    BY <1>7 DEF OnceEach
  <2> SUFFICES ASSUME NEW S \in SUBSET Server, S # {}
               PROVE  \E a \in S : \A t \in S : ~Edge(a, t)'
    BY DEF Acyclic
  <2>2. \A a \in Server : ~Edge(a, s)'
    BY DEF Edge, Fresh, Types, Discovered
  <2>3. \A a, t \in Server : a # s => (Edge(a, t)' <=> Edge(a, t))
    BY DEF Edge, Types
  <2>4. CASE S \subseteq {s}
    BY <2>2, <2>4
  <2>5. CASE ~(S \subseteq {s})
    <3>1. PICK a \in S \ {s} : \A t \in S \ {s} : ~Edge(a, t)
      BY <2>1, <2>5 DEF Acyclic
    <3> QED BY <2>2, <2>3, <3>1
  <2> QED BY <2>4, <2>5
<1> QED BY <1>1, <1>2, <1>3, <1>5, <1>6, <1>7

(* A point that is mounted on for the first time is known to nobody.       *)
LEMMA MountIInv ==
    ASSUME IInv, NEW s \in Server, NEW p \in Point, Mount(s, p) PROVE IInv'
<1> USE DEF IInv, Mount
<1>1. Types'
  BY DEF Types
<1>2. WasMounted'
  BY DEF Types, WasMounted
<1>3. Fresh'
  <2> SUFFICES ASSUME NEW t \in Server
               PROVE  /\ phase'[t] \in {"new", "registered"} =>
                             \A q \in Point : \A k \in DOMAIN stack'[q] : stack'[q][k] # t
                      /\ phase'[t] = "new" => known'[t] = {}
    BY DEF Fresh
  <2>1. \A k \in DOMAIN Append(stack[p], s) :
            Append(stack[p], s)[k] = s \/ \E j \in DOMAIN stack[p] : stack[p][j] = Append(stack[p], s)[k]
    BY DEF Types
  <2> QED BY <2>1 DEF Fresh, Types
<1>8. OneMount'
  <2>1. \A q \in Point : \A k \in DOMAIN stack'[q] :
            \/ k \in DOMAIN stack[q] /\ stack'[q][k] = stack[q][k]
            \/ q = p /\ k = Len(stack[p]) + 1 /\ stack'[q][k] = s
    BY DEF Types
  <2> QED BY <2>1 DEF OneMount, Fresh
<1>4. PointsKnown'
  BY DEF PointsKnown
<1>5. \A a, t \in Server : Edge(a, t) => Edge(a, t)'
  <2>1. \A k \in DOMAIN stack[p] : k \in DOMAIN stack'[p] /\ stack'[p][k] = stack[p][k]
    BY DEF Types
  <2> QED BY <2>1 DEF Edge, Types
<1>6. AskEdge'
  BY <1>5 DEF AskEdge
<1>7. ASSUME OnceEach' PROVE Acyclic'
  <2>1. mounted[p] = 0 /\ OnceEach
    <3>1. \A q \in Point : mounted[q] \in Nat /\ mounted'[q] = IF q = p THEN mounted[q] + 1 ELSE mounted[q]
      BY DEF Types
    <3> QED BY <1>7, <3>1 DEF OnceEach
  <2>2. \A a \in Server : p \notin known[a]
    BY <2>1 DEF WasMounted
  <2>3. \A a, t \in Server : Edge(a, t)' => Edge(a, t)
    BY <2>2 DEF Edge, Types
  <2> QED BY <2>1, <2>3, FewerEdges
<1> QED BY <1>1, <1>2, <1>3, <1>4, <1>6, <1>7, <1>8

(* What is uppermost is a server or dead.                                  *)
LEMMA TopIs ==
    ASSUME Types, NEW p \in Point, Top(p) # None
    PROVE  /\ Top(p) \in Server
           /\ \E k \in DOMAIN stack[p] : stack[p][k] = Top(p)
  BY DEF Types, Top, Last

(* What keeps the mounts and the acyclic graph keeps both.                 *)
LEMMA SameMounts ==
    ASSUME IInv, UNCHANGED mounts PROVE WasMounted' /\ Fresh' /\ OneMount' /\ (OnceEach' => Acyclic')
<1> USE DEF IInv, mounts
<1>1. WasMounted' /\ Fresh' /\ OneMount'
  BY DEF WasMounted, Fresh, OneMount
<1>2. \A s, t \in Server : Edge(s, t)' <=> Edge(s, t)
  BY DEF Edge
<1>3. OnceEach' => OnceEach
  BY DEF OnceEach
<1> QED BY <1>1, <1>2, <1>3, FewerEdges

(* A client asks for what the server knows; it is no server itself.        *)
LEMMA CallIInv ==
    ASSUME IInv, NEW c \in Client, NEW p \in Point, NEW op \in Op, Call(c, p, op) PROVE IInv'
<1> USE PartiesAssumption DEF IInv, Call, Ask
<1>1. Top(p) \in Server
  BY TopIs
<1>2. [from |-> c, op |-> op] \in Request /\ c \in Party
  BY DEF Request, Party
<1>3. Types'
  BY <1>1, <1>2 DEF Types, mounts
<1>4. PointsKnown'
  <2> SUFFICES ASSUME NEW s \in Server, NEW k \in DOMAIN queue'[s], queue'[s][k].op \in Point
               PROVE  queue'[s][k].op \in known'[s]
    BY DEF PointsKnown
  <2>1. CASE s = Top(p) /\ k = Len(queue[s]) + 1
    BY <1>1, <1>2, <2>1 DEF Types, mounts
  <2>2. CASE ~(s = Top(p) /\ k = Len(queue[s]) + 1)
    <3>1. k \in DOMAIN queue[s] /\ queue'[s][k] = queue[s][k]
      BY <1>1, <1>2, <2>2 DEF Types
    <3> QED BY <3>1 DEF PointsKnown, mounts
  <2> QED BY <2>1, <2>2
<1>5. AskEdge'
  <2>1. \A s \in Server : asks'[s] = asks[s]
    BY <1>2 DEF Types
  <2> QED BY <2>1 DEF AskEdge, Edge, mounts
<1> QED BY <1>3, <1>4, <1>5, SameMounts

(* A server waits for one on the mount point it was asked about, which it  *)
(* knows.                                                                  *)
LEMMA TakeIInv == ASSUME IInv, NEW s \in Server, Take(s) PROVE IInv'
<1> DEFINE req == Head(queue[s])
           t == Top(req.op)
           Asks == req.op \in Point /\ t # None
           rest == [queue EXCEPT ![s] = Tail(@)]
<1> USE PartiesAssumption DEF IInv
<1>0. UNCHANGED mounts /\ queue[s] # <<>> /\ current' = [current EXCEPT ![s] = req]
  BY DEF Take
<1>1. s \in Party /\ req \in Request /\ rest \in [Server -> Seq(Request)]
  BY <1>0 DEF Types, Party
<1>2. req.op \in Point => req.op \in known[s]
  BY <1>0 DEF PointsKnown, Types
<1>3. Asks => t \in Server /\ \E k \in DOMAIN stack[req.op] : stack[req.op][k] = t
  BY TopIs
<1>4. CASE Asks
  <2> DEFINE new == [from |-> s, op |-> "statfs"]
  <2>0. new \in Request /\ new.op \notin Point
    BY <1>1 DEF Request, Op
  <2>1. queue' = [rest EXCEPT ![t] = Append(@, new)] /\ asks' = [asks EXCEPT ![s] = t]
    BY <1>4 DEF Take
  <2>2. Types'
    <3>1. queue' \in [Server -> Seq(Request)]
      <4>1. Append(rest[t], new) \in Seq(Request)
        BY <1>1, <1>3, <1>4, <2>0
      <4> HIDE DEF rest, new
      <4> QED BY <1>1, <1>3, <1>4, <2>1, <4>1
    <3>2. asks' \in [Party -> Server \cup {"docker", None}]
      BY <1>1, <1>3, <1>4, <2>1 DEF Types
    <3>3. current' \in [Server -> Request \cup {None}]
      BY <1>0, <1>1 DEF Types
    <3> QED BY <1>0, <3>1, <3>2, <3>3 DEF Types, mounts
  <2>3. PointsKnown'
    <3> SUFFICES ASSUME NEW a \in Server, NEW k \in DOMAIN queue'[a], queue'[a][k].op \in Point
                 PROVE  queue'[a][k].op \in known'[a]
      BY DEF PointsKnown
    <3>1. \/ queue'[a][k] = new
          \/ k \in DOMAIN rest[a] /\ queue'[a][k] = rest[a][k]
      <4>1. queue'[a] = IF a = t THEN Append(rest[a], new) ELSE rest[a]
        BY <1>1, <1>3, <1>4, <2>1
      <4>2. rest[a] \in Seq(Request)
        BY <1>1
      <4> HIDE DEF rest, new
      <4> QED BY <4>1, <4>2
    <3>2. k \in DOMAIN rest[a] => \E j \in DOMAIN queue[a] : rest[a][k] = queue[a][j]
      BY <1>0 DEF Types
    <3> QED BY <1>0, <2>0, <3>1, <3>2 DEF PointsKnown, mounts
  <2>4. AskEdge'
    <3>1. Edge(s, t)
      BY <1>2, <1>3, <1>4 DEF Edge
    <3>2. asks'[s] = t /\ \A a \in Server \ {s} : asks'[a] = asks[a]
      BY <1>1, <2>1 DEF Types
    <3> QED BY <1>0, <3>1, <3>2 DEF AskEdge, Edge, mounts
  <2> QED BY <1>0, <2>2, <2>3, <2>4, SameMounts
<1>5. CASE ~Asks
  <2>1. queue' = rest /\ asks' = [asks EXCEPT ![s] = IF req.op = "docker" THEN "docker" ELSE None]
    BY <1>5 DEF Take
  <2>2. Types'
    BY <1>0, <1>1, <2>1 DEF Types, mounts
  <2>3. PointsKnown'
    <3>1. \A a \in Server : \A k \in DOMAIN rest[a] : \E j \in DOMAIN queue[a] : rest[a][k] = queue[a][j]
      BY <1>0 DEF Types
    <3> QED BY <1>0, <2>1, <3>1 DEF PointsKnown, mounts
  <2>4. AskEdge'
    <3>1. asks'[s] \notin Server /\ \A a \in Server \ {s} : asks'[a] = asks[a]
      BY <1>1, <2>1 DEF Types
    <3> QED BY <1>0, <3>1 DEF AskEdge, Edge, mounts
  <2> QED BY <1>0, <2>2, <2>3, <2>4, SameMounts
<1> QED BY <1>4, <1>5

(* Who gets an answer waits for nothing more.                              *)
LEMMA FreedIInv ==
    ASSUME IInv, UNCHANGED <<mounts, queue>>, current' \in [Server -> Request \cup {None}],
           asks' \in [Party -> Server \cup {"docker", None}],
           \A r \in Party : asks'[r] \in {None, asks[r]}
    PROVE  IInv'
<1> USE PartiesAssumption DEF IInv, mounts
<1>1. Types'
  BY DEF Types
<1>2. PointsKnown'
  BY DEF PointsKnown
<1>3. AskEdge'
  <2>1. \A a, t \in Server : asks'[a] = t => asks[a] = t
    BY DEF Party
  <2> QED BY <2>1 DEF AskEdge, Edge
<1> QED BY <1>1, <1>2, <1>3, SameMounts

LEMMA ReplyIInv == ASSUME IInv, NEW s \in Server, Reply(s) PROVE IInv'
<1>1. current[s] \in Request /\ current[s].from \in Party
  BY DEF IInv, Types, Reply, Request
<1> QED BY <1>1, FreedIInv DEF IInv, Types, Reply

LEMMA DockerIInv ==
    ASSUME IInv, DockerHangs \/ DockerRestarts \/ \E s \in Server : DockerAnswers(s) PROVE IInv'
<1>1. Server \subseteq Party
  BY DEF Party
<1> QED BY <1>1, FreedIInv DEF IInv, Types, DockerHangs, DockerRestarts, DockerAnswers

(* What becomes of the mounts and of what is known when some of it goes.   *)
Shrinks ==
    /\ \A s \in Server : known'[s] \in SUBSET Point /\ known'[s] \subseteq known[s]
    /\ \A p \in Point : \A k \in DOMAIN stack'[p] :
           stack'[p][k] \in Server => k \in DOMAIN stack[p] /\ stack'[p][k] = stack[p][k]
    /\ \A p \in Point : stack[p] = <<>> => stack'[p] = <<>>

(* Then no edge is new and everything about the mounts stays true.         *)
LEMMA ShrinkIInv ==
    ASSUME IInv, Shrinks, UNCHANGED mounted
    PROVE  WasMounted' /\ OneMount' /\ (OnceEach' => Acyclic')
<1> USE DEF IInv, Shrinks
<1>1. WasMounted'
  BY DEF WasMounted
<1>2. OneMount'
  BY DEF OneMount
<1>3. \A s, t \in Server : Edge(s, t)' => Edge(s, t)
  BY DEF Edge, Types
<1>4. OnceEach' => OnceEach
  BY DEF OnceEach
<1> QED BY <1>1, <1>2, <1>3, <1>4, FewerEdges

(* Without its last mount a stack holds the others in their places.        *)
LEMMA FrontIs ==
    ASSUME Types, NEW p \in Point, stack[p] # <<>>
    PROVE  /\ Front(stack[p]) \in Seq(Server \cup {None})
           /\ \A k \in DOMAIN Front(stack[p]) :
                  k \in DOMAIN stack[p] /\ Front(stack[p])[k] = stack[p][k]
           /\ \A k \in DOMAIN stack[p] :
                  stack[p][k] # Top(p) => k \in DOMAIN Front(stack[p])
           /\ \A k \in DOMAIN stack[p] : k \notin DOMAIN Front(stack[p]) => k = Len(stack[p])
<1> DEFINE q == stack[p]
           n == Len(q) - 1
<1>1. q \in Seq(Server \cup {None}) /\ q # <<>> /\ Top(p) = q[Len(q)] /\ Front(q) = SubSeq(q, 1, n)
  BY DEF Types, Top, Last, Front
<1> HIDE DEF q
<1>2. DOMAIN q = 1 .. Len(q) /\ Len(q) \in Nat /\ Len(q) # 0
  BY <1>1
<1>3. \A k \in 1 .. Len(q) : q[k] \in Server \cup {None}
  BY <1>1, ElementOfSeq
<1> DEFINE m == Len(q)
<1>4. m \in Nat /\ n \in Nat /\ n = m - 1
  BY <1>2
<1> HIDE DEF n, m
<1>5. \A k \in 1 .. n : k \in 1 .. m /\ k # m
  BY <1>4
<1>6. \A k \in 1 .. m : k \in 1 .. n \/ k = m
  BY <1>4
<1>7. /\ SubSeq(q, 1, n) \in Seq(Server \cup {None})
      /\ DOMAIN SubSeq(q, 1, n) = 1 .. n
      /\ \A k \in 1 .. n : SubSeq(q, 1, n)[k] = q[k]
  <2>1. \A k \in 1 .. n : q[k] \in Server \cup {None}
    BY <1>3, <1>5 DEF m
  <2>2. /\ SubSeq(q, 1, n) \in Seq(Server \cup {None})
        /\ Len(SubSeq(q, 1, n)) = IF 1 <= n THEN n - 1 + 1 ELSE 0
        /\ \A k \in 1 .. n - 1 + 1 : SubSeq(q, 1, n)[k] = q[1 + k - 1]
    BY <1>4, <2>1, SubSeqProperties
  <2>3. n - 1 + 1 = n /\ (IF 1 <= n THEN n - 1 + 1 ELSE 0) = n /\ \A k \in 1 .. n : 1 + k - 1 = k
    BY <1>4
  <2> QED BY <2>2, <2>3
<1> QED BY <1>1, <1>2, <1>5, <1>6, <1>7 DEF q, m

LEMMA UnmountIInv == ASSUME IInv, NEW p \in Point, Unmount(p) PROVE IInv'
<1> USE PartiesAssumption DEF IInv, Unmount
<1> DEFINE s == Top(p)
<1>1. stack' = [stack EXCEPT ![p] = Front(@)] /\ stack[p] # <<>>
  OBVIOUS
<1>2. Types'
  <2>1. stack' \in [Point -> Seq(Server \cup {None})]
    BY <1>1, FrontIs DEF Types
  <2>2. phase' \in [Server -> {"new", "registered", "serving", "unmounted", "stopping"}]
    BY DEF Types
  <2> QED BY <2>1, <2>2 DEF Types
<1>3. Shrinks
  BY <1>1, FrontIs DEF Shrinks, Types
<1>4. Fresh'
  <2>1. \A t \in Server : phase'[t] \in {"new", "registered"} => phase'[t] = phase[t]
    BY DEF Types
  <2> QED BY <1>3, <2>1 DEF Fresh, Shrinks
<1>5. PointsKnown'
  BY DEF PointsKnown
<1>6. AskEdge'
  <2> SUFFICES ASSUME NEW a \in Server, NEW t \in Server, asks[a] = t PROVE Edge(a, t)'
    BY DEF AskEdge
  <2>1. PICK q \in known[a] : \E k \in DOMAIN stack[q] : stack[q][k] = t
    BY DEF AskEdge, Edge
  <2>2. PICK k \in DOMAIN stack[q] : stack[q][k] = t
    BY <2>1
  <2>3. t # s
    BY DEF InUse, Party
  <2>4. k \in DOMAIN stack'[q] /\ stack'[q][k] = t
    BY <1>1, <2>2, <2>3, FrontIs DEF Types
  <2> QED BY <2>1, <2>4 DEF Edge
<1> QED BY <1>2, <1>3, <1>4, <1>5, <1>6, ShrinkIInv

LEMMA SignalIInv == ASSUME IInv, NEW s \in Server, Signal(s) PROVE IInv'
<1> USE DEF IInv, Signal
<1>1. Types' /\ Fresh'
  BY DEF Types, Fresh
<1>2. Shrinks
  BY DEF Shrinks, Types
<1>3. PointsKnown' /\ AskEdge'
  BY DEF PointsKnown, AskEdge, Edge
<1> QED BY <1>1, <1>2, <1>3, ShrinkIInv

(* What is left of a stack when the process of `s` ends.                   *)
LEMMA ReleasedIs ==
    ASSUME IInv, NEW s \in Server, NEW p \in Point
    PROVE  /\ Released(s, p) \in Seq(Server \cup {None})
           /\ \A k \in DOMAIN Released(s, p) :
                  /\ k \in DOMAIN stack[p]
                  /\ Released(s, p)[k] # s
                  /\ Released(s, p)[k] \in {None, stack[p][k]}
           /\ \A k \in DOMAIN stack[p] :
                  stack[p][k] # s => k \in DOMAIN Released(s, p) /\ Released(s, p)[k] = stack[p][k]
<1> USE PartiesAssumption DEF IInv
<1>1. CASE Top(p) = s /\ ~InUse(s)
  <2>1. stack[p] # <<>> /\ Released(s, p) = Front(stack[p])
    BY <1>1 DEF Released, Top
  <2>2. stack[p][Len(stack[p])] = s /\ Len(stack[p]) \in DOMAIN stack[p]
        /\ Len(stack[p]) \notin DOMAIN Front(stack[p])
    BY <1>1, <2>1 DEF Types, Top, Last, Front
  <2>3. \A k \in DOMAIN stack[p] : stack[p][k] = s => k = Len(stack[p])
    BY <2>2 DEF OneMount
  <2> QED BY <1>1, <2>1, <2>2, <2>3, FrontIs
<1>2. CASE ~(Top(p) = s /\ ~InUse(s))
  <2> DEFINE f == [k \in DOMAIN stack[p] |-> IF stack[p][k] = s THEN None ELSE stack[p][k]]
  <2>1. Released(s, p) = f
    BY <1>2 DEF Released
  <2>2. DOMAIN stack[p] = 1 .. Len(stack[p]) /\ Len(stack[p]) \in Nat
        /\ \A k \in DOMAIN stack[p] : stack[p][k] \in Server \cup {None}
    BY DEF Types
  <2>3. f \in [1 .. Len(stack[p]) -> Server \cup {None}]
    BY <2>2
  <2>4. f \in Seq(Server \cup {None})
    BY <2>2, <2>3, SeqDef
  <2> QED BY <2>1, <2>4
<1> QED BY <1>1, <1>2

(* What is left of a queue.                                                *)
LEMMA WithoutIs ==
    ASSUME Types, NEW s \in Server, NEW t \in Server
    PROVE  /\ Without(queue[t], s) \in Seq(Request)
           /\ \A k \in DOMAIN Without(queue[t], s) :
                  \E j \in DOMAIN queue[t] : Without(queue[t], s)[k] = queue[t][j]
<1> DEFINE q == queue[t]
<1>0. q \in Seq(Request)
  BY DEF Types
<1>1. CASE \E k \in DOMAIN q : q[k].from = s
  <2> DEFINE i == CHOOSE k \in DOMAIN q : q[k].from = s
  <2>1. i \in DOMAIN q
    BY <1>1
  <2>2. Without(q, s) = SubSeq(q, 1, i - 1) \o SubSeq(q, i + 1, Len(q))
    BY <1>1 DEF Without, RemoveAt
  <2>3. i \in 1 .. Len(q) /\ Len(q) \in Nat /\ DOMAIN q = 1 .. Len(q)
    BY <1>0, <2>1
  <2> HIDE DEF i, q
  <2> DEFINE a == SubSeq(q, 1, i - 1)
             b == SubSeq(q, i + 1, Len(q))
  <2>4. a \in Seq(Request) /\ Len(a) = i - 1 /\ \A k \in 1 .. Len(a) : a[k] = q[k]
    BY <1>0, <2>3, SubSeqProperties
  <2>5. b \in Seq(Request) /\ Len(b) = Len(q) - i /\ \A k \in 1 .. Len(b) : b[k] = q[k + i]
    <3>1. i + 1 \in Int /\ Len(q) \in Int /\ \A k \in i + 1 .. Len(q) : q[k] \in Request
      BY <1>0, <2>3
    <3>2. /\ b \in Seq(Request)
          /\ Len(b) = IF i + 1 <= Len(q) THEN Len(q) - (i + 1) + 1 ELSE 0
          /\ \A k \in 1 .. Len(q) - (i + 1) + 1 : b[k] = q[(i + 1) + k - 1]
      BY <3>1, SubSeqProperties
    <3> HIDE DEF b
    <3>3. Len(b) = Len(q) - i
      <4> DEFINE l == Len(q)
                 m == Len(b)
      <4>1. i \in 1 .. l /\ l \in Nat /\ m = IF i + 1 <= l THEN l - (i + 1) + 1 ELSE 0
        BY <2>3, <3>2
      <4> HIDE DEF l, m
      <4>2. m = l - i
        BY <4>1
      <4> QED BY <4>2 DEF l, m
    <3>4. ASSUME NEW k \in 1 .. Len(b) PROVE b[k] = q[k + i]
      <4>0. i \in Int /\ Len(q) \in Int /\ k \in Int /\ 1 <= k /\ k <= Len(q) - i
        BY <2>3, <3>3
      <4>1. (i + 1) + k - 1 = k + i /\ k \in 1 .. Len(q) - (i + 1) + 1
        BY <4>0
      <4> QED BY <3>2, <4>1
    <3> QED BY <3>2, <3>3, <3>4
  <2> HIDE DEF a, b
  <2>6. a \o b \in Seq(Request) /\ DOMAIN (a \o b) = 1 .. (Len(a) + Len(b))
        /\ \A k \in 1 .. (Len(a) + Len(b)) : (a \o b)[k] = IF k <= Len(a) THEN a[k] ELSE b[k - Len(a)]
    BY <2>4, <2>5
  <2>7. \A k \in DOMAIN (a \o b) : \E j \in DOMAIN q : (a \o b)[k] = q[j]
    <3> SUFFICES ASSUME NEW k \in 1 .. (Len(a) + Len(b)) PROVE \E j \in DOMAIN q : (a \o b)[k] = q[j]
      BY <2>6
    <3>1. CASE k <= Len(a)
      <4>1. k \in 1 .. Len(a) /\ k \in DOMAIN q
        BY <2>3, <2>4, <2>5, <3>1
      <4> QED BY <2>4, <2>6, <3>1, <4>1
    <3>2. CASE k > Len(a)
      <4>1. k - Len(a) \in 1 .. Len(b) /\ (a \o b)[k] = b[k - Len(a)]
        BY <2>4, <2>5, <2>3, <2>6, <3>2
      <4>2. k - Len(a) + i \in DOMAIN q /\ b[k - Len(a)] = q[k - Len(a) + i]
        BY <2>3, <2>4, <2>5, <4>1
      <4> QED BY <4>1, <4>2
    <3> QED BY <2>3, <2>4, <2>5, <3>1, <3>2
  <2> QED BY <2>2, <2>6, <2>7 DEF q, a, b
<1>2. CASE ~\E k \in DOMAIN q : q[k].from = s
  BY <1>0, <1>2 DEF Without
<1> QED BY <1>1, <1>2

LEMMA ExitIInv == ASSUME IInv, NEW s \in Server, Exit(s) PROVE IInv'
<1> USE PartiesAssumption DEF IInv
<1>1. /\ phase' = [phase EXCEPT ![s] = "new"] /\ known' = [known EXCEPT ![s] = {}]
      /\ stack' = [p \in Point |-> Released(s, p)] /\ UNCHANGED mounted
      /\ asks' = [r \in Party |-> IF asks[r] = s \/ r = s THEN None ELSE asks[r]]
      /\ queue' = [t \in Server |-> IF t = s THEN <<>> ELSE Without(queue[t], s)]
      /\ current' = [t \in Server |-> IF t = s \/ Serves(t, s) THEN None ELSE current[t]]
  BY DEF Exit
<1>2. Types'
  <2>1. stack' \in [Point -> Seq(Server \cup {None})]
    BY <1>1, ReleasedIs
  <2>2. queue' \in [Server -> Seq(Request)]
    BY <1>1, WithoutIs
  <2>3. asks' \in [Party -> Server \cup {"docker", None}] /\ current' \in [Server -> Request \cup {None}]
    BY <1>1 DEF Types
  <2> QED BY <1>1, <2>1, <2>2, <2>3 DEF Types
<1>3. Shrinks
  <2>1. \A p \in Point : \A k \in DOMAIN stack'[p] : stack'[p][k] \in Server =>
            k \in DOMAIN stack[p] /\ stack'[p][k] = stack[p][k]
    BY <1>1, ReleasedIs
  <2>2. \A p \in Point : stack[p] = <<>> => stack'[p] = <<>>
    <3> SUFFICES ASSUME NEW p \in Point, stack[p] = <<>> PROVE Released(s, p) = <<>>
      BY <1>1
    <3>1. DOMAIN Released(s, p) = {} /\ Released(s, p) \in Seq(Server \cup {None})
      BY ReleasedIs
    <3> QED BY <3>1
  <2> QED BY <1>1, <2>1, <2>2 DEF Shrinks, Types
<1>4. Fresh'
  <2>1. \A t \in Server \ {s} : phase'[t] = phase[t] /\ known'[t] = known[t]
    BY <1>1 DEF Types
  <2>2. phase'[s] = "new" /\ known'[s] = {}
    BY <1>1 DEF Types
  <2>3. \A p \in Point : \A k \in DOMAIN stack'[p] : stack'[p][k] # s
    BY <1>1, ReleasedIs
  <2> QED BY <1>3, <2>1, <2>2, <2>3 DEF Fresh, Shrinks
<1>5. PointsKnown'
  <2> SUFFICES ASSUME NEW t \in Server, NEW k \in DOMAIN queue'[t], queue'[t][k].op \in Point
               PROVE  queue'[t][k].op \in known'[t]
    BY DEF PointsKnown
  <2>1. t # s
    BY <1>1
  <2>3. queue'[t] = Without(queue[t], s)
    BY <1>1, <2>1
  <2>2. PICK j \in DOMAIN queue[t] : queue'[t][k] = queue[t][j]
    <3>1. \A h \in DOMAIN Without(queue[t], s) :
              \E j \in DOMAIN queue[t] : Without(queue[t], s)[h] = queue[t][j]
      BY WithoutIs
    <3>2. k \in DOMAIN Without(queue[t], s)
      BY <2>3
    <3> QED BY <2>3, <3>1, <3>2
  <2> QED BY <1>1, <2>1, <2>2 DEF PointsKnown, Types
<1>6. AskEdge'
  <2> SUFFICES ASSUME NEW a \in Server, NEW t \in Server, asks'[a] = t PROVE Edge(a, t)'
    BY DEF AskEdge
  <2>1. asks[a] = t /\ a # s /\ t # s
    BY <1>1 DEF Party
  <2>2. PICK p \in known[a] : \E k \in DOMAIN stack[p] : stack[p][k] = t
    BY <2>1 DEF AskEdge, Edge
  <2>3. p \in Point /\ p \in known'[a]
    BY <1>1, <2>1 DEF Types
  <2>4. \E k \in DOMAIN stack'[p] : stack'[p][k] = t
    BY <1>1, <2>1, <2>2, <2>3, ReleasedIs
  <2> QED BY <2>3, <2>4 DEF Edge
<1> QED BY <1>1, <1>2, <1>3, <1>4, <1>5, <1>6, ShrinkIInv

(* Every step keeps the invariant.                                         *)
LEMMA NextIInv == IInv /\ [Next]_vars => IInv'
<1> SUFFICES ASSUME IInv, [Next]_vars PROVE IInv'
  OBVIOUS
<1>1. CASE Next
  BY <1>1, RegisterIInv, MountIInv, CallIInv, TakeIInv, ReplyIInv, DockerIInv, UnmountIInv,
     SignalIInv, ExitIInv DEF Next
<1>2. CASE UNCHANGED vars
  BY <1>2, FreedIInv DEF vars, mounts, IInv, Types
<1> QED BY <1>1, <1>2

(* As long as nothing is mounted on a second time, no session threads wait *)
(* for each other in a circle.                                             *)
THEOREM NoDeadlockOfServers == Spec => []NoCircularWait
<1>1. IInv => NoCircularWait
  <2> SUFFICES ASSUME IInv, OnceEach, NEW S \in SUBSET Server, Circle(S) PROVE FALSE
    BY DEF NoCircularWait, OnceEach
  <2>1. PICK s \in S : \A t \in S : ~Edge(s, t)
    BY DEF IInv, Acyclic, Circle
  <2> QED BY <2>1 DEF IInv, AskEdge, Circle
<1> QED BY <1>1, InitIInv, NextIInv, PTL DEF Spec
===============================================================================
