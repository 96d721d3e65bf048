------------------------- MODULE InodeTable_proofs -------------------------
(* Theorems about InodeTable for every set of paths, clock and bound.      *)
EXTENDS InodeTable, TLAPS

(* The inductive invariant: the maps are inverse and agree with history.   *)
(* History is needed because a removed number leaves both maps, and only   *)
(* `issued` still says which path it named.                                *)
IInv == TypeOK /\ MapsAreInverse /\ NumbersKeepTheirPath

(* The table starts with the root alone, and satisfies the invariant.      *)
LEMMA InitIInv == Init => IInv
  BY RootAssumption, BoundAssumption, TimeAssumption
  DEF Init, IInv, TypeOK, MapsAreInverse, NumbersKeepTheirPath, ROOT_INODE, FIRST_ALLOCATABLE_INODE

(* allocate() keeps the maps inverse: the number it draws is above all.    *)
LEMMA DrawIInv == ASSUME IInv, NEW p \in Path, p \notin DOMAIN path_to_inode, Draw(p) PROVE IInv'
<1> USE BoundAssumption DEF IInv, Draw
<1>1. next_inode \notin DOMAIN inode_to_path /\ next_inode \notin DOMAIN issued
  BY DEF TypeOK, NumbersKeepTheirPath
<1>a. issued' = Insert(issued, next_inode, p)
  BY <1>1 DEF InsertOnce
<1> USE DEF Insert
<1>2. TypeOK'
  BY <1>a DEF TypeOK
<1>3. MapsAreInverse'
  BY <1>1 DEF TypeOK, MapsAreInverse
<1>4. NumbersKeepTheirPath'
  BY <1>1, <1>a DEF TypeOK, NumbersKeepTheirPath
<1> QED BY <1>2, <1>3, <1>4

(* remove() takes the pair out of both maps.                               *)
LEMMA RemoveIInv == ASSUME IInv, NEW p \in Path, Remove(p) PROVE IInv'
<1> USE DEF IInv, Remove, Without
<1>1. TypeOK'
  BY DEF TypeOK
<1>2. MapsAreInverse'
  BY DEF TypeOK, MapsAreInverse
<1>3. NumbersKeepTheirPath'
  BY DEF TypeOK, NumbersKeepTheirPath
<1> QED BY <1>1, <1>2, <1>3

(* mark_stale() touches neither map.                                       *)
LEMMA MarkStaleIInv == ASSUME IInv, NEW i \in DOMAIN issued, MarkStale(i) PROVE IInv'
  BY DEF IInv, MarkStale, Insert, TypeOK, MapsAreInverse, NumbersKeepTheirPath

(* sweep_stale() takes the same pairs out of both maps.                    *)
LEMMA SweepStaleIInv == ASSUME IInv, NEW a \in Age, SweepStale(a) PROVE IInv'
<1> USE DEF IInv, SweepStale, Without
<1>0. Expired(a) \subseteq DOMAIN stale
  BY DEF Expired
<1>1. TypeOK'
  BY <1>0 DEF TypeOK
<1>2. MapsAreInverse'
  BY <1>0 DEF TypeOK, MapsAreInverse
<1>3. NumbersKeepTheirPath'
  BY <1>0 DEF TypeOK, NumbersKeepTheirPath
<1> QED BY <1>1, <1>2, <1>3

(* Every step of the table keeps the invariant.                            *)
LEMMA NextIInv == IInv /\ [Next]_vars => IInv'
<1> SUFFICES ASSUME IInv, [Next]_vars PROVE IInv'
  OBVIOUS
<1>1. CASE \E p \in Path : GetOrAllocate(p)
  <2> PICK p \in Path : GetOrAllocate(p)
    BY <1>1
  <2>1. CASE p \in DOMAIN path_to_inode
    BY <2>1 DEF GetOrAllocate, vars, IInv, TypeOK, MapsAreInverse, NumbersKeepTheirPath
  <2>2. CASE p \notin DOMAIN path_to_inode
    BY <2>2, DrawIInv DEF GetOrAllocate
  <2> QED BY <2>1, <2>2
<1>2. CASE \E p \in Removable : Remove(p)
  BY <1>2, RemoveIInv, RemovableAssumption
<1>3. CASE \E i \in DOMAIN issued : MarkStale(i)
  BY <1>3, MarkStaleIInv
<1>4. CASE \E a \in Age : SweepStale(a)
  BY <1>4, SweepStaleIInv
<1>5. CASE ClockStep
  BY <1>5 DEF ClockStep, IInv, TypeOK, MapsAreInverse, NumbersKeepTheirPath
<1>6. CASE UNCHANGED vars
  BY <1>6 DEF vars, IInv, TypeOK, MapsAreInverse, NumbersKeepTheirPath
<1> QED BY <1>1, <1>2, <1>3, <1>4, <1>5, <1>6 DEF Next

(* The invariant holds in every state of every run of the table.           *)
THEOREM Invariant == Spec => []IInv
  BY InitIInv, NextIInv, PTL DEF Spec

(* Types: every map keeps keys and values of its type.                     *)
THEOREM TypeCorrect == Spec => []TypeOK
<1>1. IInv => TypeOK
  BY DEF IInv
<1> QED BY <1>1, Invariant, PTL

(* The two hash maps of the table are inverses of each other, always.      *)
THEOREM Bidirectional == Spec => []MapsAreInverse
<1>1. IInv => MapsAreInverse
  BY DEF IInv
<1> QED BY <1>1, Invariant, PTL

(* A number is never reused for another path.                              *)
THEOREM NoReuse == Spec => []NumbersKeepTheirPath
<1>1. IInv => NumbersKeepTheirPath
  BY DEF IInv
<1> QED BY <1>1, Invariant, PTL

(* In a step every number is denied that was, and the others are denied    *)
(* only if they were marked, removed or swept in it.                       *)
LEMMA DenialStep == ASSUME IInv, [Next]_vars, NEW i \in DOMAIN issued,
                           resolve_path(i) = None
                    PROVE  resolve_path(i)' = None
<1> USE DEF resolve_path, is_stale, IInv
<1>0. i \notin DOMAIN inode_to_path \/ i \in DOMAIN stale
  BY NoneAssumption DEF TypeOK
<1>1. CASE \E p \in Path : GetOrAllocate(p)
  <2>1. next_inode # i
    BY DEF TypeOK
  <2> QED BY <1>0, <1>1, <2>1 DEF GetOrAllocate, Draw, Insert, InsertOnce, vars
<1>2. CASE \E p \in Removable : Remove(p)
  BY <1>0, <1>2 DEF Remove, Without
<1>3. CASE \E k \in DOMAIN issued : MarkStale(k)
  BY <1>0, <1>3 DEF MarkStale, Insert
<1>4. CASE \E a \in Age : SweepStale(a)
  BY <1>0, <1>4 DEF SweepStale, Without
<1>5. CASE ClockStep
  BY <1>0, <1>5 DEF ClockStep
<1>6. CASE UNCHANGED vars
  BY <1>0, <1>6 DEF vars
<1> QED BY <1>1, <1>2, <1>3, <1>4, <1>5, <1>6 DEF Next

(* A number that resolves to nothing resolves to nothing for ever.         *)
THEOREM DenialIsFinal == Spec => DeniedForEver
<1>1. IInv /\ [Next]_vars =>
        [\A i \in DOMAIN issued : resolve_path(i) = None => resolve_path(i)' = None]_vars
  BY DenialStep
<1> QED BY <1>1, Invariant, PTL DEF Spec, DeniedForEver

-----------------------------------------------------------------------------
(* The table implements PathHandles.                                       *)

(* The pairs of the path map, the abstract binding.                        *)
Pairs == {<<p, path_to_inode[p]>> : p \in DOMAIN path_to_inode}

(* The table that holds the root alone is the abstract initial state.      *)
LEMMA InitPromise == Init => Promise!Init
<1> SUFFICES ASSUME Init PROVE Promise!Init
  OBVIOUS
<1>1. Pairs = {<<Root, ROOT_INODE>>}
  BY DEF Pairs, Init
<1>2. DOMAIN issued = {ROOT_INODE}
  BY DEF Init
<1>3. Denied = {}
  BY NoneAssumption, RootAssumption DEF Denied, resolve_path, is_stale, Init
<1> QED BY <1>1, <1>2, <1>3 DEF Promise!Init, Pairs

(* A drawn number is a handle nobody has seen, bound to the path.          *)
LEMMA DrawPromise == ASSUME IInv, NEW p \in Path, p \notin DOMAIN path_to_inode, Draw(p),
                            NEW h, h = next_inode
                     PROVE  Promise!Bind(p, h)
<1> USE DEF IInv, Draw, Insert, InsertOnce
<1>1. p \notin Promise!Names
  BY DEF Promise!Names
<1>2. h \notin DOMAIN issued /\ (DOMAIN issued)' = DOMAIN issued \cup {h}
  BY DEF TypeOK
<1>3. Pairs' = Pairs \cup {<<p, h>>}
  BY DEF Pairs
<1>4. Denied' = Denied
  <2>1. h \notin DOMAIN stale /\ h \notin DOMAIN inode_to_path
    BY <1>2 DEF TypeOK, NumbersKeepTheirPath
  <2>2. resolve_path(h)' = p /\ p # None
    BY <2>1, NoneAssumption DEF resolve_path, is_stale
  <2>3. \A i \in DOMAIN issued : resolve_path(i)' = resolve_path(i)
    BY <1>2, <2>1 DEF resolve_path, is_stale
  <2> QED BY <1>2, <2>2, <2>3 DEF Denied
<1> QED BY <1>1, <1>2, <1>3, <1>4 DEF Promise!Bind, Pairs

(* remove() releases the path and its number.                              *)
LEMMA RemovePromise == ASSUME IInv, NEW p \in Path, Remove(p), NEW h, h = path_to_inode[p]
                       PROVE  Promise!Release(p, h)
<1> USE DEF IInv, Remove, Without
<1>0. /\ h \in DOMAIN issued
      /\ \A i \in DOMAIN inode_to_path : inode_to_path[i] \in Path /\ inode_to_path[i] # None
  BY NoneAssumption DEF TypeOK, MapsAreInverse, NumbersKeepTheirPath
<1>1. Pairs' = Pairs \ {<<p, h>>}
  BY DEF Pairs
<1>2. Denied' = Denied \cup {h}
  BY <1>0 DEF Denied, resolve_path, is_stale
<1> QED BY <1>1, <1>2 DEF Promise!Release, Pairs

(* mark_stale() denies the number.                                         *)
LEMMA MarkStalePromise == ASSUME IInv, NEW i \in DOMAIN issued, MarkStale(i)
                          PROVE  Promise!Deny(i)
<1> USE DEF IInv, MarkStale, Insert
<1>1. \A k \in DOMAIN inode_to_path : inode_to_path[k] # None
  BY NoneAssumption DEF TypeOK
<1>2. Denied' = Denied \cup {i}
  BY <1>1 DEF Denied, resolve_path, is_stale
<1> QED BY <1>2 DEF Promise!Deny, Pairs

(* sweep_stale() reclaims bindings whose numbers were denied.              *)
LEMMA SweepStalePromise == ASSUME IInv, NEW a \in Age, SweepStale(a)
                           PROVE  Promise!Next
<1> DEFINE E == Expired(a)
           B == {b \in Pairs : b[2] \in E}
<1> USE DEF IInv, SweepStale, Without
<1>0. E \subseteq DOMAIN stale
  BY DEF Expired
<1>1. \A k \in DOMAIN inode_to_path : inode_to_path[k] # None
  BY NoneAssumption DEF TypeOK
<1>2. E \subseteq Denied
  BY <1>0 DEF Denied, resolve_path, is_stale, TypeOK
<1>3. Denied' = Denied
  BY <1>0, <1>1, <1>2 DEF Denied, resolve_path, is_stale, TypeOK
<1>4. \A p \in DOMAIN path_to_inode :
         p \in {inode_to_path[i] : i \in E \cap DOMAIN inode_to_path} <=> path_to_inode[p] \in E
  BY DEF MapsAreInverse
<1>5. Pairs' = Pairs \ B
  <2>1. (DOMAIN path_to_inode)' = {p \in DOMAIN path_to_inode : path_to_inode[p] \notin E}
    BY <1>4
  <2>2. \A p \in (DOMAIN path_to_inode)' : path_to_inode'[p] = path_to_inode[p]
    BY <1>4
  <2> HIDE DEF E
  <2> QED BY <2>1, <2>2 DEF Pairs
<1>6. Promise!HandlesOf(B) \subseteq Denied
  BY <1>2 DEF Promise!HandlesOf
<1> QED BY <1>3, <1>5, <1>6 DEF Promise!Next, Promise!Reclaim, Pairs

(* Every step of the table is a step of PathHandles, or changes nothing it *)
(* speaks of.                                                              *)
LEMMA NextPromise == ASSUME IInv, [Next]_vars PROVE [Promise!Next]_(Promise!vars)
<1>1. CASE \E p \in Path : GetOrAllocate(p)
  <2> PICK p \in Path : GetOrAllocate(p)
    BY <1>1
  <2>1. CASE p \in DOMAIN path_to_inode
    BY <2>1 DEF GetOrAllocate, vars, Promise!vars, Denied, resolve_path, is_stale
  <2>2. CASE p \notin DOMAIN path_to_inode
    <3>1. Draw(p)
      BY <2>2 DEF GetOrAllocate
    <3>2. PICK h \in 1 .. MaxInode : h = next_inode
      BY <3>1, BoundAssumption DEF Draw, IInv, TypeOK
    <3> QED BY <2>2, <3>1, <3>2, DrawPromise DEF Promise!Next
  <2> QED BY <2>1, <2>2
<1>2. CASE \E p \in Removable : Remove(p)
  <2> PICK p \in Path : Remove(p)
    BY <1>2, RemovableAssumption
  <2>1. PICK h \in 1 .. MaxInode : h = path_to_inode[p]
    BY BoundAssumption DEF Remove, IInv, TypeOK, MapsAreInverse, NumbersKeepTheirPath
  <2> QED BY <2>1, RemovePromise DEF Promise!Next
<1>3. CASE \E i \in DOMAIN issued : MarkStale(i)
  <2> PICK i \in DOMAIN issued : MarkStale(i)
    BY <1>3
  <2>1. i \in 1 .. MaxInode
    BY BoundAssumption DEF IInv, TypeOK
  <2> QED BY <2>1, MarkStalePromise DEF Promise!Next
<1>4. CASE \E a \in Age : SweepStale(a)
  BY <1>4, SweepStalePromise
<1>5. CASE ClockStep
  BY <1>5 DEF ClockStep, Promise!vars, Denied, resolve_path, is_stale
<1>6. CASE UNCHANGED vars
  BY <1>6 DEF vars, Promise!vars, Denied, resolve_path, is_stale
<1> QED BY <1>1, <1>2, <1>3, <1>4, <1>5, <1>6 DEF Next

(* The inode table keeps the promises of PathHandles.                      *)
THEOREM Implements == Spec => ImplementsPathHandles
  BY InitPromise, NextPromise, Invariant, PTL DEF Spec, Promise!Spec, ImplementsPathHandles

-----------------------------------------------------------------------------
(* Number 1 was drawn for the root, and stays what it was drawn for.       *)
RootIssued == issued[ROOT_INODE] = Root

(* No step gives number 1 to another path.                                 *)
LEMMA NextRootIssued == IInv /\ RootIssued /\ [Next]_vars => RootIssued'
<1> SUFFICES ASSUME IInv, RootIssued, [Next]_vars PROVE RootIssued'
  OBVIOUS
<1>1. CASE \E p \in Path : GetOrAllocate(p)
  <2>1. ROOT_INODE \in DOMAIN issued
    BY BoundAssumption DEF IInv, TypeOK, ROOT_INODE
  <2> QED BY <1>1, <2>1 DEF GetOrAllocate, Draw, Insert, InsertOnce, vars, RootIssued
<1>2. CASE \E p \in Removable : Remove(p)
  BY <1>2 DEF Remove, RootIssued
<1>3. CASE \E i \in DOMAIN issued : MarkStale(i)
  BY <1>3 DEF MarkStale, RootIssued
<1>4. CASE \E a \in Age : SweepStale(a)
  BY <1>4 DEF SweepStale, RootIssued
<1>5. CASE ClockStep \/ UNCHANGED vars
  BY <1>5 DEF ClockStep, vars, RootIssued
<1> QED BY <1>1, <1>2, <1>3, <1>4, <1>5 DEF Next

(* Number 1 is never marked, so no sweep takes it, and the one remove()    *)
(* that takes it is that of the root's path.                               *)
LEMMA RootStep ==
    ASSUME IInv, IInv', RootIssued, [Next]_vars,
           resolve_path(ROOT_INODE)' # resolve_path(ROOT_INODE)
    PROVE  Remove(Root)
<1> USE DEF ROOT_INODE
<1>1. /\ ROOT_INODE \notin DOMAIN stale /\ ROOT_INODE \notin DOMAIN stale'
      /\ ROOT_INODE # next_inode
  BY BoundAssumption DEF IInv, TypeOK
<1>2. /\ ROOT_INODE \in DOMAIN inode_to_path \/ ROOT_INODE \in DOMAIN inode_to_path'
      /\ ~(/\ ROOT_INODE \in DOMAIN inode_to_path
           /\ ROOT_INODE \in DOMAIN inode_to_path'
           /\ inode_to_path'[ROOT_INODE] = inode_to_path[ROOT_INODE])
  BY <1>1 DEF resolve_path, is_stale
<1>3. CASE \E p \in Path : GetOrAllocate(p)
  BY <1>1, <1>2, <1>3 DEF GetOrAllocate, Draw, Insert, vars
<1>4. CASE \E p \in Removable : Remove(p)
  <2> PICK p \in Removable : Remove(p)
    BY <1>4
  <2>1. path_to_inode[p] = ROOT_INODE
    <3> SUFFICES ASSUME path_to_inode[p] # ROOT_INODE PROVE FALSE
      OBVIOUS
    <3>1. inode_to_path' = [i \in DOMAIN inode_to_path \ {path_to_inode[p]} |-> inode_to_path[i]]
      BY DEF Remove, Without
    <3> QED BY <1>2, <3>1
  <2>2. p = Root
    BY <2>1 DEF Remove, IInv, MapsAreInverse, NumbersKeepTheirPath, RootIssued
  <2> QED BY <2>2
<1>5. CASE \E i \in DOMAIN issued : MarkStale(i)
  BY <1>2, <1>5 DEF MarkStale
<1>6. CASE \E a \in Age : SweepStale(a)
  <2> PICK a \in Age : SweepStale(a)
    BY <1>6
  <2>1. inode_to_path' = [i \in DOMAIN inode_to_path \ Expired(a) |-> inode_to_path[i]]
    BY DEF SweepStale, Without
  <2>2. ROOT_INODE \notin Expired(a)
    BY <1>1 DEF Expired
  <2> QED BY <1>2, <2>1, <2>2
<1>7. CASE ClockStep \/ UNCHANGED vars
  BY <1>2, <1>7 DEF ClockStep, vars
<1> QED BY <1>3, <1>4, <1>5, <1>6, <1>7 DEF Next

(* The root resolves until a caller removes its path.                      *)
THEOREM RootStays == Spec => RootResolves
<1>1. Init => RootIssued
  BY DEF Init, RootIssued
<1>2. IInv /\ IInv' /\ RootIssued /\ [Next]_vars =>
          [resolve_path(ROOT_INODE)' # resolve_path(ROOT_INODE) => Remove(Root)]_vars
  BY RootStep
<1> QED BY <1>1, <1>2, NextRootIssued, Invariant, PTL DEF Spec, RootResolves
=============================================================================
