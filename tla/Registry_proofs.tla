--------------------------- MODULE Registry_proofs ---------------------------
(* Theorems about Registry for every set of paths and nodes.               *)
EXTENDS Registry, SequenceTheorems, TLAPS

(* The part of the invariant that is about the walk.  A parent created in  *)
(* the walk is on the path, and once one was created the walk stands on a  *)
(* created parent: it cannot meet a file any more.                         *)
Closed(t) == \A p \in DOMAIN t : \A k \in 0 .. Len(p) - 1 : Prefix(p, k) \in DOMAIN t

WalkInv ==
    /\ Closed(before)
    /\ pc = "walk" =>
          /\ Exists(current)
          /\ \A q \in DOMAIN before : Exists(q) /\ tree[q] = before[q]
          /\ \A q \in DOMAIN tree \ DOMAIN before :
                /\ tree[q] = Dir
                /\ \E k \in 0 .. depth : q = Prefix(path, k)
          /\ DOMAIN tree # DOMAIN before => current \notin DOMAIN before
          /\ result.status = "none"

IInv == TypeOK /\ WellFormed /\ WalkInv /\ FailedInsertChangesNothing /\ ComputesInsertInto

-----------------------------------------------------------------------------
(* Prefixes.                                                               *)

(* A prefix of a path is a path, of that length and those components.      *)
LEMMA PrefixFacts ==
    ASSUME NEW p \in Seq(Component), NEW k \in 0 .. Len(p)
    PROVE  /\ Prefix(p, k) \in Seq(Component)
           /\ Len(Prefix(p, k)) = k
           /\ \A i \in 1 .. k : Prefix(p, k)[i] = p[i]
<1>1. \A i \in 1 .. k : p[i] \in Component
  BY ElementOfSeq
<1> QED BY <1>1, SubSeqProperties DEF Prefix

(* Paths of the same components are equal.                                 *)
LEMMA PrefixEqual ==
    ASSUME NEW p \in Seq(Component), NEW q \in Seq(Component), Len(p) = Len(q),
           \A i \in 1 .. Len(p) : p[i] = q[i]
    PROVE  p = q
  BY LenProperties

(* The prefix of a prefix is a prefix.                                     *)
LEMMA PrefixOfPrefix ==
    ASSUME NEW p \in Seq(Component), NEW k \in 0 .. Len(p), NEW j \in 0 .. k
    PROVE  Prefix(Prefix(p, k), j) = Prefix(p, j)
<1>1. j \in 0 .. Len(p) /\ j \in 0 .. Len(Prefix(p, k))
  BY PrefixFacts
<1>2. /\ Prefix(p, k) \in Seq(Component)
      /\ Prefix(p, j) \in Seq(Component) /\ Len(Prefix(p, j)) = j
      /\ \A i \in 1 .. j : Prefix(p, j)[i] = p[i] /\ Prefix(p, k)[i] = p[i]
  BY <1>1, PrefixFacts
<1>3. /\ Prefix(Prefix(p, k), j) \in Seq(Component) /\ Len(Prefix(Prefix(p, k), j)) = j
      /\ \A i \in 1 .. j : Prefix(Prefix(p, k), j)[i] = Prefix(p, k)[i]
  BY <1>1, <1>2, PrefixFacts
<1> QED BY <1>2, <1>3, PrefixEqual

(* A path is its own longest prefix.                                       *)
LEMMA PrefixWhole ==
    ASSUME NEW p \in Seq(Component) PROVE Prefix(p, Len(p)) = p
  BY SubSeqFull DEF Prefix

(* The root is the shortest prefix of every path.                          *)
LEMMA PrefixNone ==
    ASSUME NEW p \in Seq(Component) PROVE Prefix(p, 0) = <<>>
  BY SubSeqEmpty DEF Prefix

(* What is above a path outside a subtree is outside it too.               *)
LEMMA AboveIsOutside ==
    ASSUME NEW p \in Seq(Component), NEW q \in Seq(Component), NEW k \in 0 .. Len(q),
           ~Below(p, q)
    PROVE  ~Below(p, Prefix(q, k))
<1> SUFFICES ASSUME Below(p, Prefix(q, k)) PROVE FALSE
  OBVIOUS
<1>1. Len(p) \in 0 .. k
  BY PrefixFacts, LenProperties DEF Below
<1>2. Prefix(q, Len(p)) = p
  BY <1>1, PrefixOfPrefix DEF Below
<1> QED BY <1>1, <1>2, LenProperties DEF Below

-----------------------------------------------------------------------------
(* Nothing returned yet has the type of a result.                          *)
LEMMA NoResult == [status |-> "none", at |-> <<>>] \in Result
<1>1. <<>> \in Seq(Component)
  BY EmptySeq
<1> QED BY <1>1 DEF Result

(* A success has the type of a result.                                     *)
LEMMA OkResult == Ok \in Result
<1>1. <<>> \in Seq(Component)
  BY EmptySeq
<1> QED BY <1>1 DEF Result, Ok

(* So has every error.                                                     *)
LEMMA ErrResult ==
    ASSUME NEW p \in Seq(Component)
    PROVE  /\ Err("root", p) \in Result /\ Err("path conflict", p) \in Result
           /\ Err("parent is not a directory", p) \in Result
  BY DEF Result, Err

(* The empty registry satisfies the invariant.                             *)
LEMMA InitIInv == Init => IInv
<1> SUFFICES ASSUME Init PROVE IInv
  OBVIOUS
<1>1. <<>> \in Seq(Component) /\ Len(<<>>) = 0
  BY EmptySeq
<1> QED BY <1>1, NoResult DEF Init, EmptyTree, IInv, TypeOK, Node, WellFormed, IsDirectory, Exists, WalkInv, Closed,
                    FailedInsertChangesNothing, ComputesInsertInto, Failed

(* A well-formed tree is closed under prefixes.                            *)
LEMMA WellFormedClosed == WellFormed => Closed(tree)
  BY DEF WellFormed, Closed, IsDirectory, Exists

(* A call of insert() keeps the invariant: the walk starts at the root.    *)
LEMMA InsertIInv == ASSUME IInv, NEW p \in Path, NEW n \in Node, Insert(p, n) PROVE IInv'
<1> USE DEF IInv, Insert
<1>0. p \in Seq(Component) /\ Len(p) \in Nat /\ (p # <<>> => Len(p) > 0)
  BY PathAssumption, EmptySeq, LenProperties
<1>1. TypeOK'
  <2>1. CASE p = <<>>
    BY <1>0, <2>1, ErrResult DEF TypeOK
  <2>2. CASE p # <<>>
    BY <1>0, <2>2, NoResult DEF TypeOK
  <2> QED BY <2>1, <2>2
<1>2. WellFormed'
  BY DEF WellFormed, IsDirectory, Exists
<1>3. WalkInv'
  <2>1. p # <<>> => current' = <<>>
    BY <1>0, PrefixNone DEF current
  <2>2. Closed(before')
    BY WellFormedClosed
  <2>3. <<>> \in DOMAIN tree
    BY DEF WellFormed, IsDirectory, Exists
  <2> QED BY <2>1, <2>2, <2>3 DEF WalkInv, Exists, Failed, Closed
<1>4. FailedInsertChangesNothing'
  BY DEF FailedInsertChangesNothing
<1>5. ComputesInsertInto'
  BY DEF ComputesInsertInto, Failed, CanInsert, Err
<1> QED BY <1>1, <1>2, <1>3, <1>4, <1>5

(* A round of the loop keeps it: it adds at most the next parent, empty.   *)
LEMMA DescendIInv == ASSUME IInv, Descend PROVE IInv'
<1> USE DEF IInv
<1>0. /\ path \in Seq(Component) /\ Len(path) \in Nat /\ depth \in Nat
      /\ depth < Len(path) - 1 /\ pc = "walk" /\ pc' = "walk"
      /\ depth' = depth + 1 /\ path' = path /\ before' = before /\ result' = result
  BY LenProperties DEF Descend, TypeOK
<1>a. /\ next \in Seq(Component) /\ Len(next) = depth + 1 /\ current' = next
      /\ Prefix(next, depth) = current
      /\ \A k \in 0 .. depth : Prefix(next, k) = Prefix(current, k) /\ Prefix(next, k) = Prefix(path, k)
  BY <1>0, PrefixFacts, PrefixOfPrefix DEF next, current
<1>b. current \in Seq(Component) /\ Len(current) = depth /\ Prefix(current, depth) = current
  BY <1>0, <1>a, PrefixFacts, PrefixWhole DEF current
<1>c. Exists(current) /\ tree[current] = Dir
  BY <1>0 DEF WalkInv, Descend
<1>d. \A k \in 0 .. depth : IsDirectory(Prefix(next, k))
  <2> TAKE k \in 0 .. depth
  <2>1. CASE k = depth
    BY <1>a, <1>c, <2>1 DEF IsDirectory
  <2>2. CASE k # depth
    BY <1>0, <1>a, <1>b, <1>c, <2>2 DEF WellFormed, Exists
  <2> QED BY <2>1, <2>2
<1>e. ComputesInsertInto'
  <2>1. result.status = "none"
    BY <1>0 DEF WalkInv
  <2> QED BY <1>0, <2>1 DEF ComputesInsertInto, Failed
<1>1. CASE Exists(next)
  <2>0. tree' = tree /\ UNCHANGED node
    BY <1>1 DEF Descend
  <2>1. TypeOK'
    BY <1>0, <2>0 DEF TypeOK
  <2>2. WellFormed'
    BY <2>0 DEF WellFormed, IsDirectory, Exists
  <2>3. DOMAIN tree # DOMAIN before => next \notin DOMAIN before
    BY <1>0, <1>a DEF WalkInv, Closed
  <2>4. WalkInv'
    <3>1. Closed(before)'
      BY <1>0 DEF WalkInv, Closed
    <3>2. /\ \A q \in DOMAIN before : Exists(q)' /\ tree'[q] = before[q]
          /\ \A q \in DOMAIN tree \ DOMAIN before :
                tree[q] = Dir /\ \E k \in 0 .. depth + 1 : q = Prefix(path, k)
      BY <1>0, <2>0 DEF WalkInv, Exists
    <3> QED BY <1>0, <1>1, <1>a, <2>0, <2>3, <3>1, <3>2 DEF WalkInv, Exists
  <2>5. FailedInsertChangesNothing'
    BY <1>0, <2>0 DEF FailedInsertChangesNothing, Failed
  <2> QED BY <1>e, <2>1, <2>2, <2>4, <2>5
<1>2. CASE ~Exists(next)
  <2>0. /\ DOMAIN tree' = DOMAIN tree \cup {next} /\ tree'[next] = Dir
        /\ \A q \in DOMAIN tree : tree'[q] = tree[q]
        /\ tree' \in [DOMAIN tree \cup {next} -> Node]
        /\ UNCHANGED node
    BY <1>2 DEF Descend, WithNode, Exists, TypeOK, Node
  <2>1. TypeOK'
    BY <1>0, <1>a, <2>0 DEF TypeOK
  <2>2. WellFormed'
    <3>1. IsDirectory(<<>>)'
      BY <2>0 DEF WellFormed, IsDirectory, Exists
    <3>2. ASSUME NEW p \in DOMAIN tree', NEW k \in 0 .. Len(p) - 1
          PROVE  IsDirectory(Prefix(p, k))'
      <4>1. CASE p = next
        <5>1. k \in 0 .. depth
          BY <1>0, <1>a, <4>1
        <5> QED BY <1>d, <4>1, <5>1, <2>0 DEF IsDirectory, Exists
      <4>2. CASE p # next
        BY <4>2, <2>0 DEF WellFormed, IsDirectory, Exists
      <4> QED BY <4>1, <4>2
    <3> QED BY <3>1, <3>2 DEF WellFormed
  <2>3. WalkInv'
    <3>1. next \notin DOMAIN before
      BY <1>0, <1>2 DEF WalkInv
    <3>2. Closed(before)'
      BY <1>0 DEF WalkInv, Closed
    <3>3. \A q \in DOMAIN before : Exists(q)' /\ tree'[q] = before[q]
      BY <1>0, <2>0 DEF WalkInv, Exists
    <3>4. \A q \in DOMAIN tree' \ DOMAIN before :
             tree'[q] = Dir /\ \E k \in 0 .. depth + 1 : q = Prefix(path, k)
      BY <1>0, <2>0 DEF WalkInv, next
    <3> QED BY <1>0, <1>a, <2>0, <3>1, <3>2, <3>3, <3>4 DEF WalkInv, Exists, Failed
  <2>4. FailedInsertChangesNothing'
    BY <1>0 DEF FailedInsertChangesNothing, Failed, WalkInv
  <2> QED BY <1>e, <2>1, <2>2, <2>3, <2>4
<1> QED BY <1>1, <1>2

(* A walk that meets a file has created nothing.                           *)
LEMMA FileMeansUnchanged == ASSUME IInv, pc = "walk", tree[current] # Dir PROVE tree = before
<1> USE DEF IInv
<1>1. current \in DOMAIN before
  BY DEF WalkInv, Exists
<1>2. DOMAIN tree = DOMAIN before
  BY <1>1 DEF WalkInv
<1>3. /\ tree \in [DOMAIN tree -> Node] /\ before \in [DOMAIN before -> Node]
      /\ \A q \in DOMAIN before : tree[q] = before[q]
  BY DEF WalkInv, TypeOK
<1> QED BY <1>2, <1>3

(* Both errors keep it: they are raised before anything was created.       *)
LEMMA ConflictIInv == ASSUME IInv, Conflict \/ ParentIsFile PROVE IInv'
<1> USE DEF IInv
<1>0. /\ pc = "walk" /\ tree[current] # Dir /\ pc' = "idle"
      /\ UNCHANGED <<tree, path, node, depth, before>>
  BY DEF Conflict, ParentIsFile
<1>1. tree = before
  BY <1>0, FileMeansUnchanged
<1>2. path \in Seq(Component) /\ Len(path) \in Nat /\ depth \in Nat
  BY LenProperties DEF TypeOK
<1>3. TypeOK'
  <2>1. CASE Conflict
    <3>a. depth < Len(path) - 1 /\ result' = Err("path conflict", next)
      BY <2>1 DEF Conflict
    <3>b. Len(path) \in Nat /\ depth \in Nat /\ depth < Len(path) - 1
      BY <1>2, <3>a
    <3>0. depth + 1 \in 0 .. Len(path)
      BY <3>b
    <3>1. next \in Seq(Component)
      BY <1>2, <3>0, PrefixFacts DEF next
    <3>2. result' \in Result
      BY <3>1, <3>a, ErrResult
    <3> QED BY <1>0, <3>2 DEF TypeOK
  <2>2. CASE ParentIsFile
    BY <1>0, <1>2, <2>2, ErrResult DEF TypeOK, ParentIsFile
  <2> QED BY <2>1, <2>2
<1>4. WellFormed' /\ WalkInv'
  BY <1>0 DEF WellFormed, IsDirectory, Exists, WalkInv, Closed
<1>5. FailedInsertChangesNothing'
  BY <1>0, <1>1 DEF FailedInsertChangesNothing
<1>6. ComputesInsertInto'
  <2>a. depth < Len(path)
    BY <1>0 DEF TypeOK
  <2>1. depth \in 0 .. Len(path) - 1
    BY <1>2, <2>a
  <2>2. current \in Parents(path)
    BY <2>1 DEF Parents, current
  <2>3. current \in DOMAIN before /\ before[current] # Dir
    BY <1>0, <1>1 DEF WalkInv, Exists
  <2>4. ~CanInsert(before, path)
    BY <2>2, <2>3 DEF CanInsert
  <2>5. result'.status # "ok"
    <3>1. CASE Conflict
      BY <3>1 DEF Conflict, Err
    <3>2. CASE ParentIsFile
      BY <3>2 DEF ParentIsFile, Err
    <3> QED BY <3>1, <3>2
  <2> QED BY <1>0, <2>4, <2>5 DEF ComputesInsertInto
<1> QED BY <1>3, <1>4, <1>5, <1>6

(* Taking a subtree out leaves a well-formed tree.                         *)
LEMMA PrunedWellFormed ==
    ASSUME IInv, NEW p \in Seq(Component), p # <<>>, NEW t, t = WithoutSubtree(tree, p)
    PROVE  /\ DOMAIN t \subseteq DOMAIN tree /\ <<>> \in DOMAIN t
           /\ t \in [DOMAIN t -> Node]
           /\ \A q \in DOMAIN t : ~Below(p, q) /\ t[q] = tree[q]
           /\ \A q \in DOMAIN tree : ~Below(p, q) => q \in DOMAIN t
           /\ \A q \in DOMAIN t : \A k \in 0 .. Len(q) - 1 :
                 Prefix(q, k) \in DOMAIN t /\ t[Prefix(q, k)] = Dir
<1> USE DEF IInv
<1>1. ~Below(p, <<>>)
  BY EmptySeq, LenProperties DEF Below
<1>2. \A q \in DOMAIN tree : q \in Seq(Component) /\ Len(q) \in Nat
  BY LenProperties DEF TypeOK
<1>3. ASSUME NEW q \in DOMAIN tree, ~Below(p, q), NEW k \in 0 .. Len(q) - 1
      PROVE  Prefix(q, k) \in DOMAIN tree /\ tree[Prefix(q, k)] = Dir /\ ~Below(p, Prefix(q, k))
  BY <1>2, <1>3, AboveIsOutside DEF WellFormed, IsDirectory, Exists
<1> QED BY <1>1, <1>3 DEF WithoutSubtree, WellFormed, IsDirectory, Exists, TypeOK

(* Placing the node keeps it, and makes the tree the one of InsertInto.    *)
LEMMA PlaceIInv == ASSUME IInv, Place PROVE IInv'
<1> USE DEF IInv
<1>0. /\ path \in Seq(Component) /\ Len(path) \in Nat /\ depth = Len(path) - 1 /\ depth \in Nat
      /\ pc = "walk" /\ pc' = "idle" /\ result' = Ok /\ tree[current] = Dir
      /\ UNCHANGED <<path, node, depth, before>>
  BY LenProperties DEF Place, TypeOK
<1>1. path # <<>>
  BY <1>0, EmptySeq
<1> DEFINE t == WithoutSubtree(tree, path)
<1>2. tree' = WithNode(t, path, node)
  BY DEF Place
<1>3. /\ DOMAIN t \subseteq DOMAIN tree /\ <<>> \in DOMAIN t
      /\ t \in [DOMAIN t -> Node]
      /\ \A q \in DOMAIN t : ~Below(path, q) /\ t[q] = tree[q]
      /\ \A q \in DOMAIN tree : ~Below(path, q) => q \in DOMAIN t
      /\ \A q \in DOMAIN t : \A k \in 0 .. Len(q) - 1 :
            Prefix(q, k) \in DOMAIN t /\ t[Prefix(q, k)] = Dir
  BY <1>0, <1>1, PrunedWellFormed
<1> HIDE DEF t
<1>4. Below(path, path)
  BY <1>0, PrefixWhole DEF Below
<1>5. /\ DOMAIN tree' = DOMAIN t \cup {path} /\ tree'[path] = node
      /\ \A q \in DOMAIN t : tree'[q] = t[q]
      /\ tree' \in [DOMAIN tree' -> Node]
  <2>1. path \notin DOMAIN t /\ node \in Node
    BY <1>3, <1>4 DEF TypeOK
  <2> QED BY <1>2, <1>3, <2>1 DEF WithNode
<1>6. ASSUME NEW k \in 0 .. Len(path) - 1
      PROVE  Prefix(path, k) \in DOMAIN t /\ t[Prefix(path, k)] = Dir
  <2>1. /\ Prefix(path, k) \in Seq(Component) /\ Len(Prefix(path, k)) = k
        /\ ~Below(path, Prefix(path, k))
    BY <1>0, PrefixFacts DEF Below
  <2>2. Prefix(path, k) \in DOMAIN tree /\ tree[Prefix(path, k)] = Dir
    <3>0. depth \in 0 .. Len(path)
      BY <1>0
    <3>1. current \in DOMAIN tree /\ current \in Seq(Component) /\ Len(current) = depth
      BY <1>0, <3>0, PrefixFacts DEF WalkInv, Exists, current
    <3>2. CASE k = depth
      BY <1>0, <3>1, <3>2 DEF current
    <3>3. CASE k # depth
      <4>1. k \in 0 .. Len(current) - 1 /\ Prefix(current, k) = Prefix(path, k)
        BY <1>0, <3>1, <3>3, PrefixOfPrefix DEF current
      <4> QED BY <3>1, <4>1 DEF WellFormed, IsDirectory, Exists
    <3> QED BY <3>2, <3>3
  <2> QED BY <1>3, <2>1, <2>2
<1>7. TypeOK'
  <2>1. DOMAIN tree' \subseteq Seq(Component)
    BY <1>0, <1>3, <1>5 DEF TypeOK
  <2> QED BY <1>0, <1>5, <2>1, OkResult DEF TypeOK
<1>8. WellFormed'
  <2>1. <<>> \in DOMAIN tree' /\ tree'[<<>>] = Dir
    BY <1>3, <1>5 DEF WellFormed, IsDirectory, Exists
  <2>2. ASSUME NEW q \in DOMAIN tree', NEW k \in 0 .. Len(q) - 1
        PROVE  Prefix(q, k) \in DOMAIN tree' /\ tree'[Prefix(q, k)] = Dir
    <3>1. CASE q = path
      BY <1>5, <1>6, <3>1
    <3>2. CASE q # path
      BY <1>3, <1>5, <3>2
    <3> QED BY <3>1, <3>2
  <2> QED BY <2>1, <2>2 DEF WellFormed, IsDirectory, Exists
<1>9. WalkInv' /\ FailedInsertChangesNothing'
  BY <1>0 DEF WalkInv, Closed, FailedInsertChangesNothing, Failed, Ok
<1>10. /\ \A q \in Parents(path) : q \in DOMAIN t /\ t[q] = Dir
       /\ \A k \in 0 .. depth : Prefix(path, k) \in Parents(path)
  BY <1>0, <1>6 DEF Parents
<1>11. CanInsert(before, path)
  BY <1>0, <1>1, <1>3, <1>10 DEF CanInsert, WalkInv
<1>12. tree' = InsertInto(before, path, node)
  <2>1. DOMAIN tree' = {r \in DOMAIN before : ~Below(path, r)} \cup Parents(path) \cup {path}
    <3>1. \A q \in DOMAIN t : q \in DOMAIN before \/ q \in Parents(path)
      BY <1>0, <1>3, <1>10 DEF WalkInv
    <3>2. \A q \in DOMAIN before : ~Below(path, q) => q \in DOMAIN t
      BY <1>0, <1>3 DEF WalkInv, Exists
    <3> QED BY <1>3, <1>5, <1>10, <3>1, <3>2
  <2>2. \A q \in DOMAIN tree' : tree'[q] = IF q = path THEN node
                                           ELSE IF q \in Parents(path) THEN Dir ELSE before[q]
    BY <1>0, <1>3, <1>5, <1>10, <2>1 DEF WalkInv
  <2> QED BY <1>5, <2>1, <2>2 DEF InsertInto
<1>13. ComputesInsertInto'
  BY <1>0, <1>11, <1>12 DEF ComputesInsertInto, Failed, Ok
<1> QED BY <1>7, <1>8, <1>9, <1>13

(* remove() keeps it: a whole subtree goes.                                *)
LEMMA RemoveIInv == ASSUME IInv, NEW p \in Path, Remove(p) PROVE IInv'
<1> USE DEF IInv
<1>0. /\ p \in Seq(Component) /\ p # <<>> /\ pc = "idle" /\ before' = tree'
      /\ result' = [status |-> "none", at |-> <<>>]
      /\ UNCHANGED <<pc, path, node, depth>>
  BY PathAssumption DEF Remove
<1>1. /\ DOMAIN tree' \subseteq DOMAIN tree /\ <<>> \in DOMAIN tree'
      /\ tree' \in [DOMAIN tree' -> Node]
      /\ \A q \in DOMAIN tree' : tree'[q] = tree[q]
      /\ \A q \in DOMAIN tree' : \A k \in 0 .. Len(q) - 1 :
            Prefix(q, k) \in DOMAIN tree' /\ tree'[Prefix(q, k)] = Dir
  BY <1>0, PrunedWellFormed DEF Remove
<1>2. TypeOK'
  BY <1>0, <1>1, NoResult DEF TypeOK
<1>3. WellFormed'
  BY <1>1 DEF WellFormed, IsDirectory, Exists
<1>4. WalkInv' /\ FailedInsertChangesNothing'
  BY <1>0, <1>1 DEF WalkInv, Closed, FailedInsertChangesNothing
<1>5. ComputesInsertInto'
  BY <1>0 DEF ComputesInsertInto, Failed
<1> QED BY <1>2, <1>3, <1>4, <1>5

(* Every step of the registry keeps the invariant.                         *)
LEMMA NextIInv == IInv /\ [Next]_vars => IInv'
<1> SUFFICES ASSUME IInv, [Next]_vars PROVE IInv'
  OBVIOUS
<1>1. CASE UNCHANGED vars
  BY <1>1 DEF vars, IInv, TypeOK, WellFormed, IsDirectory, Exists, WalkInv, Closed, current,
              FailedInsertChangesNothing, ComputesInsertInto, Failed
<1> QED BY <1>1, InsertIInv, DescendIInv, ConflictIInv, PlaceIInv, RemoveIInv DEF Next

(* The invariant holds in every state of every run of the registry.        *)
THEOREM Invariant == Spec => []IInv
  BY InitIInv, NextIInv, PTL DEF Spec

(* Every variable of the registry keeps its type.                          *)
THEOREM TypeCorrect == Spec => []TypeOK
<1>1. IInv => TypeOK
  BY DEF IInv
<1> QED BY <1>1, Invariant, PTL

(* Every node hangs from directories up to the root.                       *)
THEOREM TreeStaysWellFormed == Spec => []WellFormed
<1>1. IInv => WellFormed
  BY DEF IInv
<1> QED BY <1>1, Invariant, PTL

(* An insert() that fails leaves the tree as it was, with no rollback.     *)
THEOREM FailureIsAtomic == Spec => []FailedInsertChangesNothing
<1>1. IInv => FailedInsertChangesNothing
  BY DEF IInv
<1> QED BY <1>1, Invariant, PTL

(* The loop of insert() computes InsertInto, and fails only if it must.    *)
THEOREM InsertIsCorrect == Spec => []ComputesInsertInto
<1>1. IInv => ComputesInsertInto
  BY DEF IInv
<1> QED BY <1>1, Invariant, PTL

(* Between two calls, nothing returned yet means nothing changed.          *)
Settled == pc = "idle" /\ result.status = "none" => tree = before

(* Every step keeps Settled: a call that returns leaves a result, and      *)
(* remove() starts the history anew.                                       *)
LEMMA NextSettled == Settled /\ [Next]_vars => Settled'
<1> SUFFICES ASSUME Settled, [Next]_vars PROVE Settled'
  OBVIOUS
<1>1. ASSUME NEW p \in Path, NEW n \in Node, Insert(p, n) PROVE Settled'
  BY <1>1 DEF Settled, Insert, Err
<1>2. CASE Descend
  BY <1>2 DEF Settled, Descend
<1>3. CASE Conflict \/ ParentIsFile
  <2>1. \E p : result' = Err("path conflict", p) \/ result' = Err("parent is not a directory", p)
    BY <1>3 DEF Conflict, ParentIsFile
  <2>2. \A p : Err("path conflict", p).status # "none" /\ Err("parent is not a directory", p).status # "none"
    BY DEF Err
  <2> QED BY <2>1, <2>2 DEF Settled
<1>4. CASE Place
  BY <1>4 DEF Settled, Place, Ok
<1>5. ASSUME NEW p \in Path, Remove(p) PROVE Settled'
  BY <1>5 DEF Settled, Remove
<1>6. CASE UNCHANGED vars
  BY <1>6 DEF Settled, vars
<1> QED BY <1>1, <1>2, <1>3, <1>4, <1>5, <1>6 DEF Next

(* What a success leaves of the tree before: all that is not at or below   *)
(* the path, and the parents are the directories they were.                *)
LEMMA InsertIntoKeeps ==
    ASSUME path \in Seq(Component), CanInsert(before, path), NEW q \in DOMAIN before, ~Below(path, q)
    PROVE  /\ q \in DOMAIN InsertInto(before, path, node)
           /\ InsertInto(before, path, node)[q] = before[q]
<1>1. Below(path, path)
  BY PrefixWhole, LenProperties DEF Below
<1>2. q # path /\ q \in {r \in DOMAIN before : ~Below(path, r)}
  BY <1>1
<1>3. q \in Parents(path) => before[q] = Dir
  BY DEF CanInsert
<1> QED BY <1>2, <1>3 DEF InsertInto

(* An insert() touches no node outside its path, at any time of the walk.  *)
THEOREM SiblingsAreSafe == Spec => []OthersUntouched
<1>1. Init => Settled
  BY DEF Init, Settled
<1>2. IInv /\ Settled => OthersUntouched
  <2> SUFFICES ASSUME IInv, Settled, NEW q \in DOMAIN before, ~Below(path, q) \/ pc = "walk"
               PROVE  Exists(q) /\ tree[q] = before[q]
    BY DEF OthersUntouched
  <2>1. CASE pc = "walk"
    BY <2>1 DEF IInv, WalkInv
  <2>2. CASE pc # "walk" /\ result.status = "ok"
    BY <2>2, InsertIntoKeeps DEF IInv, TypeOK, ComputesInsertInto, Exists
  <2>3. CASE pc # "walk" /\ result.status = "none"
    BY <2>3 DEF Settled, IInv, TypeOK, Exists
  <2>4. CASE Failed
    BY <2>4 DEF IInv, FailedInsertChangesNothing, Exists
  <2> QED BY <2>1, <2>2, <2>3, <2>4 DEF Failed
<1> QED BY <1>1, <1>2, NextSettled, Invariant, PTL DEF Spec
=============================================================================
