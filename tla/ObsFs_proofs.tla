----------------------------- MODULE ObsFs_proofs -----------------------------
(* The handlers of the file system, for every registry and every set of    *)
(* dynamic paths that satisfy the assumptions of ObsFs.                    *)
EXTENDS ObsFs, SequenceTheorems, TLAPS

(* The kind a path has whenever it is there, and the paths a listing can   *)
(* show.                                                                   *)
KindOf(p) ==
    IF p \in DOMAIN Static THEN Static[p] ELSE IF p \in Prefix THEN "dir" ELSE "file"
Known == DOMAIN Static \cup Prefix \cup seen

TableInv ==
    /\ path_to_inode \in [DOMAIN path_to_inode -> Nat]
    /\ next_inode \in 2 .. MaxInode + 1
    /\ DOMAIN inode_to_path = 1 .. next_inode - 1
    /\ inode_to_path \in [DOMAIN inode_to_path -> Path]
    /\ Inodes!MapsAreInverse
WorldInv ==
    /\ alive \subseteq seen /\ seen \subseteq Dynamic \ DOMAIN Alias
    /\ failing \subseteq Credulous
EntryInv ==
    \A i \in DOMAIN entry :
        /\ i \in DOMAIN inode_to_path /\ inode_to_path[i] = entry[i].path
        /\ entry[i].kind = KindOf(entry[i].path)
DirInv ==
    ~idle =>
        /\ dir.at \in Path
        /\ \A e \in dir.left : e.path \in Known /\ e.kind = KindOf(e.path)
ReplyInv ==
    \A e \in reply :
        /\ e.path \in DOMAIN path_to_inode /\ path_to_inode[e.path] = e.ino
        /\ e.kind = KindOf(e.path)

IInv == TableInv /\ WorldInv /\ EntryInv /\ DirInv /\ ReplyInv

-----------------------------------------------------------------------------
LEMMA PrefixParent == ASSUME NEW q \in Prefix PROVE Parent(q) = Root
<1>1. Len(q) - 1 = 0
  BY DynamicAssumption
<1>2. SubSeq(q, 1, 0) = <<>>
  BY SubSeqEmpty
<1> QED BY <1>1, <1>2 DEF Parent, Root

(* The root and the parent of a directory are paths, a prefix is no root,  *)
(* and what there is, is known.                                            *)
LEMMA Paths ==
    /\ Root \in DOMAIN Static /\ Root \in Path /\ Root \notin Prefix
    /\ \A p \in Prefix \cup DOMAIN Static : Parent(p) \in DOMAIN Static
    /\ \A p \in DOMAIN Static : Static[p] \in {"dir", "file"}
<1>1. \A q \in Prefix : Parent(q) = Root
  BY PrefixParent
<1>2. Root \notin Prefix
  BY DynamicAssumption DEF Root
<1> QED BY <1>1, <1>2, StaticAssumption DEF Path

(* No path changes its kind.                                               *)
LEMMA AttrIsKind ==
    ASSUME NEW p, Attr(p) # "ENOENT"
    PROVE  Attr(p) = KindOf(p)
  BY DEF Attr, KindOf

LEMMA ListingIsKind ==
    ASSUME WorldInv, NEW p, NEW e \in Listing(p)
    PROVE  e.path \in Known /\ e.kind = KindOf(e.path)
<1>1. CASE p \in Prefix
  <2>1. PICK q \in Children(alive, p) : e = [path |-> q, kind |-> "file"]
    BY <1>1 DEF Listing, list_entries, Children
  <2>2. q \in seen /\ q \in Dynamic /\ Parent(q) \in Prefix
    BY <1>1, <2>1 DEF Children, WorldInv
  <2>3. q \notin Prefix
    <3>1. Parent(q) # Root
      BY <2>2, Paths
    <3> QED BY <3>1, PrefixParent
  <2> QED BY <2>1, <2>2, <2>3, DynamicAssumption DEF KindOf, Known
<1>2. CASE p \notin Prefix
  BY <1>2 DEF Listing, Children, KindOf, Known
<1> QED BY <1>1, <1>2

LEMMA KnownIsPath == ASSUME WorldInv PROVE Known \subseteq Path
  BY DEF WorldInv, Known, Path

LEMMA Resolves ==
    ASSUME NEW i
    PROVE  resolve(i) = IF i \in DOMAIN inode_to_path THEN inode_to_path[i] ELSE None
  BY DEF resolve, Inodes!resolve_path, Inodes!is_stale

(* What a call of ensure_inode() does to the table, and what it leaves.    *)
LEMMA EnsureInode ==
    ASSUME TableInv, NEW p \in Path, ensure_inode(p)
    PROVE  /\ TableInv'
           /\ DOMAIN path_to_inode' = DOMAIN path_to_inode \cup {p}
           /\ \A q \in DOMAIN path_to_inode : path_to_inode'[q] = path_to_inode[q]
           /\ \A i \in DOMAIN inode_to_path :
                  i \in DOMAIN inode_to_path' /\ inode_to_path'[i] = inode_to_path[i]
           /\ path_to_inode'[p] \in DOMAIN inode_to_path'
           /\ inode_to_path'[path_to_inode'[p]] = p
<1> USE BoundAssumption DEF TableInv
<1>1. CASE p \in DOMAIN path_to_inode
  <2>1. UNCHANGED table
    BY <1>1 DEF ensure_inode, Inodes!GetOrAllocate, Inodes!vars, table
  <2> QED BY <1>1, <2>1 DEF table, Inodes!MapsAreInverse
<1>2. CASE p \notin DOMAIN path_to_inode
  <2>1. /\ next_inode <= MaxInode /\ next_inode' = next_inode + 1
        /\ path_to_inode' = [q \in DOMAIN path_to_inode \cup {p} |->
                                IF q = p THEN next_inode ELSE path_to_inode[q]]
        /\ inode_to_path' = [i \in DOMAIN inode_to_path \cup {next_inode} |->
                                IF i = next_inode THEN p ELSE inode_to_path[i]]
    BY <1>2 DEF ensure_inode, Inodes!GetOrAllocate, Inodes!Draw, Inodes!Insert
  <2>2. next_inode \notin DOMAIN inode_to_path /\ next_inode \in Nat
    OBVIOUS
  <2>3. /\ path_to_inode' \in [DOMAIN path_to_inode' -> Nat]
        /\ inode_to_path' \in [DOMAIN inode_to_path' -> Path]
    BY <2>1, <2>2
  <2>4. next_inode' \in 2 .. MaxInode + 1 /\ DOMAIN inode_to_path' = 1 .. next_inode' - 1
    BY <2>1
  <2>5. Inodes!MapsAreInverse'
    BY <1>2, <2>1, <2>2 DEF Inodes!MapsAreInverse
  <2>6. TableInv'
    BY <2>3, <2>4, <2>5
  <2>7. /\ DOMAIN path_to_inode' = DOMAIN path_to_inode \cup {p}
        /\ \A q \in DOMAIN path_to_inode : path_to_inode'[q] = path_to_inode[q]
    BY <1>2, <2>1
  <2>8. \A i \in DOMAIN inode_to_path :
            i \in DOMAIN inode_to_path' /\ inode_to_path'[i] = inode_to_path[i]
    BY <2>1, <2>2
  <2>9. path_to_inode'[p] \in DOMAIN inode_to_path' /\ inode_to_path'[path_to_inode'[p]] = p
    BY <2>1
  <2> QED BY <2>6, <2>7, <2>8, <2>9
<1> QED BY <1>1, <1>2

(* Allocating for a path keeps the part of the invariant about what  *)
(* does not change with it.                                                *)
LEMMA EnsureKeeps ==
    ASSUME IInv, NEW p \in Path, ensure_inode(p), UNCHANGED <<alive, failing, seen>>
    PROVE  /\ TableInv' /\ WorldInv'
           /\ UNCHANGED entry => EntryInv'
           /\ UNCHANGED reply => ReplyInv'
<1>1. TableInv' /\ WorldInv'
  BY EnsureInode DEF IInv, WorldInv
<1>2. UNCHANGED entry => EntryInv'
  BY EnsureInode DEF IInv, EntryInv
<1>3. UNCHANGED reply => ReplyInv'
  BY EnsureInode DEF IInv, ReplyInv
<1> QED BY <1>1, <1>2, <1>3

LEMMA Unchanged == ASSUME IInv, UNCHANGED vars PROVE IInv'
<1> USE DEF vars, IInv
<1>1. TableInv' /\ WorldInv' /\ EntryInv'
  BY DEF TableInv, WorldInv, EntryInv, KindOf, Inodes!MapsAreInverse
<1>2. DirInv' /\ ReplyInv'
  BY DEF DirInv, ReplyInv, Known, KindOf, idle
<1> QED BY <1>1, <1>2

(* A step leaves the table alone or asks it for the number of one path.    *)
LEMMA StepOfTable ==
    ASSUME IInv, Next PROVE UNCHANGED table \/ \E p \in Path : ensure_inode(p)
<1>1. CASE \E i \in DOMAIN entry, p \in Path : Lookup(i, p)
  BY <1>1 DEF Lookup, table
<1>2. CASE \E i \in DOMAIN entry : ReadDir(i)
  <2>1. PICK i \in DOMAIN entry : ReadDir(i)
    BY <1>2
  <2>2. Parent(resolve(i)) \in Path
    BY <2>1, Paths DEF ReadDir, Path
  <2> QED BY <2>1, <2>2 DEF ReadDir
<1>3. CASE \E p \in Path, k \in {"dir", "file"} : AddEntry([path |-> p, kind |-> k])
  BY <1>3 DEF AddEntry
<1> QED BY <1>1, <1>2, <1>3 DEF Next, GetAttr, ReadDirOk, Appear, Vanish, Fail, Recover, table

LEMMA LookupIInv ==
    ASSUME IInv, NEW i \in DOMAIN entry, NEW p \in Path, Lookup(i, p) PROVE IInv'
<1>1. CASE Attr(p) = "ENOENT"
  BY <1>1, Unchanged DEF Lookup, vars, table
<1>2. CASE Attr(p) # "ENOENT"
  <2>1. /\ ensure_inode(p) /\ Learn(path_to_inode'[p], p, Attr(p))
        /\ UNCHANGED <<alive, failing, dir, reply, seen>> /\ idle
    BY <1>2 DEF Lookup
  <2>2. Attr(p) = KindOf(p)
    BY <1>2, AttrIsKind
  <2>3. TableInv' /\ WorldInv' /\ ReplyInv'
    BY <2>1, EnsureKeeps
  <2>4. EntryInv'
    <3> DEFINE n == path_to_inode'[p]
    <3>1. /\ n \in DOMAIN inode_to_path' /\ inode_to_path'[n] = p
          /\ \A j \in DOMAIN inode_to_path :
                 j \in DOMAIN inode_to_path' /\ inode_to_path'[j] = inode_to_path[j]
      BY <2>1, EnsureInode DEF IInv
    <3>2. entry' = [j \in DOMAIN entry \cup {n} |->
                       IF j = n THEN [path |-> p, kind |-> KindOf(p)] ELSE entry[j]]
      BY <2>1, <2>2 DEF Learn
    <3>3. \A j \in DOMAIN entry' :
              /\ j \in DOMAIN inode_to_path' /\ inode_to_path'[j] = entry'[j].path
              /\ entry'[j].kind = KindOf(entry'[j].path)
      BY <3>1, <3>2 DEF IInv, EntryInv
    <3> QED BY <3>3 DEF EntryInv, KindOf
  <2>5. DirInv'
    BY <2>1 DEF DirInv, idle
  <2> QED BY <2>3, <2>4, <2>5 DEF IInv
<1> QED BY <1>1, <1>2

LEMMA GetAttrIInv == ASSUME IInv, NEW i \in DOMAIN entry, GetAttr(i) PROVE IInv'
<1>1. /\ resolve(i) = entry[i].path /\ Attr(resolve(i)) # "ENOENT"
      /\ Learn(i, entry[i].path, Attr(resolve(i)))
      /\ UNCHANGED <<table, alive, failing, dir, reply, seen>>
  BY Resolves DEF IInv, EntryInv, GetAttr
<1>2. Attr(resolve(i)) = KindOf(entry[i].path)
  BY <1>1, AttrIsKind
<1>3. EntryInv'
  BY <1>1, <1>2 DEF IInv, EntryInv, Learn, table, KindOf
<1> QED BY <1>1, <1>3 DEF IInv, TableInv, WorldInv, DirInv, ReplyInv, table,
                          Known, KindOf, idle, Inodes!MapsAreInverse

LEMMA ReadDirIInv == ASSUME IInv, NEW i \in DOMAIN entry, ReadDir(i) PROVE IInv'
<1> DEFINE p == resolve(i)
<1>1. /\ p \in Prefix \cup DOMAIN Static /\ ensure_inode(Parent(p))
      /\ dir' = [at |-> p, left |-> Listing(p)]
      /\ UNCHANGED <<alive, failing, entry, reply, seen>>
  BY DEF ReadDir
<1>2. Parent(p) \in Path
  BY <1>1, Paths DEF Path
<1>3. TableInv' /\ WorldInv' /\ EntryInv' /\ ReplyInv'
  BY <1>1, <1>2, EnsureKeeps
<1>4. dir'.at \in Path /\ \A e \in dir'.left : e.path \in Known' /\ e.kind = KindOf(e.path)
  BY <1>1, ListingIsKind DEF IInv, Path, Known
<1> QED BY <1>3, <1>4 DEF IInv, DirInv, KindOf

LEMMA AddEntryIInv == ASSUME IInv, NEW e, AddEntry(e) PROVE IInv'
<1>1. /\ ~idle /\ e \in dir.left /\ ensure_inode(e.path)
      /\ reply' = reply \cup {[ino |-> path_to_inode'[e.path], path |-> e.path, kind |-> e.kind]}
      /\ dir' = [dir EXCEPT !.left = @ \ {e}]
      /\ UNCHANGED <<alive, failing, entry, seen>>
  BY DEF AddEntry
<1>2. e.path \in Known /\ e.kind = KindOf(e.path) /\ e.path \in Path
  BY <1>1, KnownIsPath DEF IInv, DirInv
<1>3. TableInv' /\ WorldInv' /\ EntryInv'
  BY <1>1, <1>2, EnsureKeeps
<1>4. ReplyInv'
  <2>1. /\ DOMAIN path_to_inode' = DOMAIN path_to_inode \cup {e.path}
        /\ \A q \in DOMAIN path_to_inode : path_to_inode'[q] = path_to_inode[q]
    BY <1>1, <1>2, EnsureInode DEF IInv
  <2>2. \A d \in reply' :
            /\ d.path \in DOMAIN path_to_inode' /\ path_to_inode'[d.path] = d.ino
            /\ d.kind = KindOf(d.path)
    BY <1>1, <1>2, <2>1 DEF IInv, ReplyInv
  <2> QED BY <2>2 DEF ReplyInv, KindOf
<1>5. DirInv'
  <2>1. dir.at \in Path /\ \A d \in dir.left : d.path \in Known /\ d.kind = KindOf(d.path)
    BY <1>1 DEF IInv, DirInv
  <2>2. dir'.at = dir.at /\ dir'.left \subseteq dir.left
    BY <1>1, <2>1
  <2> QED BY <1>1, <2>1, <2>2 DEF DirInv, Known, KindOf
<1> QED BY <1>3, <1>4, <1>5 DEF IInv

(* The end of readdir(), and what comes and goes outside.                  *)
LEMMA OthersIInv ==
    ASSUME IInv, UNCHANGED <<table, entry>>, WorldInv', seen \subseteq seen',
           reply' \subseteq reply, dir' \in {None, dir}
    PROVE  IInv'
<1> USE DEF IInv, table
<1>1. TableInv' /\ EntryInv'
  BY DEF TableInv, EntryInv, KindOf, Inodes!MapsAreInverse
<1>2. DirInv' /\ ReplyInv'
  BY DEF DirInv, ReplyInv, Known, KindOf, idle
<1> QED BY <1>1, <1>2

LEMMA InitIInv == Init => IInv
<1> SUFFICES ASSUME Init PROVE IInv
  OBVIOUS
<1> USE BoundAssumption, Paths DEF Init, Inodes!Init, Inodes!ROOT_INODE, Inodes!FIRST_ALLOCATABLE_INODE
<1>1. TableInv
  BY DEF TableInv, Inodes!MapsAreInverse
<1>2. WorldInv /\ DirInv /\ ReplyInv
  BY AliasAssumption, CredulousAssumption DEF WorldInv, DirInv, ReplyInv, idle
<1>3. EntryInv
  BY StaticAssumption DEF EntryInv, KindOf
<1> QED BY <1>1, <1>2, <1>3 DEF IInv

LEMMA NextIInv == IInv /\ [Next]_vars => IInv'
<1> SUFFICES ASSUME IInv, [Next]_vars PROVE IInv'
  OBVIOUS
<1>1. CASE ReadDirOk
  BY <1>1, OthersIInv DEF ReadDirOk, IInv, WorldInv
<1>2. CASE \E p \in Dynamic : Appear(p) \/ Vanish(p)
  BY <1>2, OthersIInv DEF Appear, Vanish, IInv, WorldInv
<1>3. CASE \E q \in Credulous : Fail(q) \/ Recover(q)
  BY <1>3, OthersIInv, CredulousAssumption DEF Fail, Recover, IInv, WorldInv
<1>4. CASE UNCHANGED vars
  BY <1>4, Unchanged
<1> QED BY <1>1, <1>2, <1>3, <1>4, LookupIInv, GetAttrIInv, ReadDirIInv, AddEntryIInv DEF Next

THEOREM Invariant == Spec => []IInv
  BY InitIInv, NextIInv, PTL DEF Spec

-----------------------------------------------------------------------------
(* A number the kernel holds resolves to the path it was looked up by.     *)
THEOREM HandlesAreGood == Spec => []HandlesStayGood
<1>1. IInv => HandlesStayGood
  BY Resolves DEF IInv, EntryInv, HandlesStayGood
<1> QED BY <1>1, Invariant, PTL

(* The table keeps the types InodeTable gives it, and everything else its  *)
(* own: no path outside the mount is ever named.                           *)
THEOREM TypeCorrect == Spec => []TypeOK
<1>1. IInv => TypeOK
  <2> SUFFICES ASSUME IInv PROVE TypeOK
    OBVIOUS
  <2>1. \A p \in Path : KindOf(p) \in {"dir", "file"}
    BY Paths DEF Path, KindOf
  <2>2. DOMAIN path_to_inode \subseteq Path
    BY DEF IInv, TableInv, Inodes!MapsAreInverse
  <2>3. \A p \in DOMAIN path_to_inode : path_to_inode[p] \in DOMAIN inode_to_path
    BY DEF IInv, TableInv, Inodes!MapsAreInverse
  <2>4. DOMAIN inode_to_path = 1 .. next_inode - 1 /\ next_inode \in Nat
    BY BoundAssumption DEF IInv, TableInv
  <2>5. path_to_inode \in [DOMAIN path_to_inode -> Nat \ {0}]
    BY <2>3, <2>4 DEF IInv, TableInv
  <2>6. Inodes!TypeOK
    BY <2>1, <2>2, <2>4, <2>5 DEF Inodes!TypeOK, IInv, TableInv
  <2>7. ASSUME NEW i \in DOMAIN entry PROVE entry[i].path \in Path /\ entry[i].kind \in {"dir", "file"}
    BY <2>1, <2>2 DEF IInv, EntryInv, TableInv, Inodes!MapsAreInverse
  <2>8. idle \/ (dir.at \in Path /\ \A e \in dir.left : e.path \in Path)
    BY KnownIsPath DEF IInv, DirInv
  <2> QED BY <2>6, <2>7, <2>8 DEF TypeOK, IInv, WorldInv
<1> QED BY <1>1, Invariant, PTL

(* A number is drawn for what there is, what a listing took the name of,   *)
(* or a name a failing source lets pass; for no other name ever.           *)
THEOREM TableHasCause == Spec => DrawnForCause
<1>1. IInv /\ [Next]_vars =>
        [\A p \in DOMAIN path_to_inode' \ DOMAIN path_to_inode :
            \/ p \in DOMAIN Static \cup Prefix
            \/ Named(p) \in alive
            \/ ~idle /\ p \in seen
            \/ Parent(p) \in failing]_vars
  <2> SUFFICES ASSUME IInv, Next, NEW p \in DOMAIN path_to_inode' \ DOMAIN path_to_inode
               PROVE  \/ p \in DOMAIN Static \cup Prefix
                      \/ Named(p) \in alive
                      \/ ~idle /\ p \in seen
                      \/ Parent(p) \in failing
    OBVIOUS
  <2>0. ASSUME NEW q \in Path, ensure_inode(q) PROVE p = q
    <3>1. DOMAIN path_to_inode' = DOMAIN path_to_inode \cup {q}
      BY <2>0, EnsureInode DEF IInv
    <3> QED BY <3>1
  <2>1. CASE \E i \in DOMAIN entry, q \in Path : Lookup(i, q)
    <3>1. PICK i \in DOMAIN entry, q \in Path : Lookup(i, q)
      BY <2>1
    <3>2. Attr(q) # "ENOENT" /\ ensure_inode(q)
      BY <3>1 DEF Lookup, table
    <3>3. p = q
      BY <2>0, <3>2
    <3> QED BY <3>2, <3>3 DEF Attr, exists
  <2>2. CASE \E i \in DOMAIN entry : ReadDir(i)
    <3>1. PICK i \in DOMAIN entry : ReadDir(i)
      BY <2>2
    <3>2. Parent(resolve(i)) \in DOMAIN Static /\ ensure_inode(Parent(resolve(i)))
      BY <3>1, Paths DEF ReadDir
    <3> QED BY <2>0, <3>2 DEF Path
  <2>3. CASE \E q \in Path, k \in {"dir", "file"} : AddEntry([path |-> q, kind |-> k])
    <3>1. PICK q \in Path, k \in {"dir", "file"} : AddEntry([path |-> q, kind |-> k])
      BY <2>3
    <3>2. ~idle /\ q \in Known /\ ensure_inode(q)
      BY <3>1 DEF AddEntry, IInv, DirInv
    <3> QED BY <2>0, <3>2 DEF Known
  <2>4. CASE UNCHANGED table
    BY <2>4 DEF table
  <2> QED BY <2>1, <2>2, <2>3, <2>4 DEF Next, GetAttr, ReadDirOk, Appear, Vanish, Fail, Recover, table
<1> QED BY <1>1, Invariant, PTL DEF Spec, DrawnForCause

(* What a listing shows can be looked up with the number and kind shown.   *)
THEOREM ListingsAreFound == Spec => []ListedIsFound
<1>1. IInv => ListedIsFound
  <2> SUFFICES ASSUME IInv, NEW e \in reply
               PROVE  /\ path_to_inode[e.path] = e.ino
                      /\ Attr(e.path) = e.kind \/ e.path \in (Dynamic \ alive) \cup ListedOnly
    BY DEF ListedIsFound
  <2>1. path_to_inode[e.path] = e.ino /\ e.kind = KindOf(e.path) /\ e.path \in Path
    BY DEF IInv, ReplyInv, TableInv, Inodes!MapsAreInverse
  <2>2. CASE e.path \in DOMAIN Static \cup Prefix
    BY <2>1, <2>2 DEF Attr, KindOf
  <2>3. CASE e.path \notin DOMAIN Static \cup Prefix
    <3>1. e.path \in Dynamic /\ Parent(e.path) \in Prefix /\ e.path # Root
      BY <2>1, <2>3, DynamicAssumption, Paths DEF Path
    <3>2. Named(e.path) = e.path \/ e.path \notin alive
      BY DEF IInv, WorldInv, Named
    <3> QED BY <2>1, <2>3, <3>1, <3>2 DEF Attr, KindOf, exists
  <2> QED BY <2>1, <2>2, <2>3
<1> QED BY <1>1, Invariant, PTL

(* A file the kernel was told of can be read, unless it vanished or its    *)
(* handler cannot read it.                                                 *)
THEOREM FilesCanBeRead == Spec => []FilesAreReadable
<1>1. IInv => FilesAreReadable
  <2> SUFFICES ASSUME IInv, NEW i \in DOMAIN entry, entry[i].kind = "file"
               PROVE  \/ Source(resolve(i)) \in {"handler", "provider"}
                      \/ /\ Source(resolve(i)) = "ENOENT"
                         /\ resolve(i) \notin DOMAIN Static
                         /\ \/ Named(resolve(i)) \notin alive \/ Named(resolve(i)) \in Unreadable
                            \/ Parent(resolve(i)) \in failing
    BY DEF FilesAreReadable
  <2> DEFINE p == entry[i].path
  <2>1. resolve(i) = p /\ KindOf(p) = "file"
    BY Resolves DEF IInv, EntryInv
  <2>2. p \in Path
    BY DEF IInv, EntryInv, TableInv
  <2>3. CASE p \in DOMAIN Static
    BY <2>1, <2>3 DEF Source, KindOf
  <2>4. CASE p \notin DOMAIN Static
    <3>1. p \in Dynamic /\ Parent(p) \in Prefix /\ p # Root
      BY <2>1, <2>2, <2>4, DynamicAssumption, Paths DEF Path, KindOf
    <3> QED BY <2>1, <2>4, <3>1 DEF Source, readable
  <2> QED BY <2>3, <2>4
<1> QED BY <1>1, Invariant, PTL

(* No path the kernel holds ever changes its kind.                         *)
THEOREM KindIsFixed == Spec => KindNeverChanges
<1>1. IInv /\ IInv' /\ [Next]_vars =>
        [\A i \in DOMAIN entry : i \in DOMAIN entry' /\ entry'[i].kind = entry[i].kind]_vars
  <2> SUFFICES ASSUME IInv, IInv', Next, NEW i \in DOMAIN entry
               PROVE  i \in DOMAIN entry' /\ entry'[i].kind = entry[i].kind
    OBVIOUS
  <2>1. i \in DOMAIN entry'
    BY DEF Next, Lookup, GetAttr, ReadDir, AddEntry, ReadDirOk, Appear, Vanish, Fail, Recover, Learn
  <2>2. inode_to_path'[i] = inode_to_path[i]
    <3>1. CASE UNCHANGED table
      BY <3>1 DEF table
    <3>2. CASE \E p \in Path : ensure_inode(p)
      BY <3>2, EnsureInode DEF IInv, EntryInv
    <3> QED BY <3>1, <3>2, StepOfTable
  <2> QED BY <2>1, <2>2 DEF IInv, EntryInv, KindOf
<1> QED BY <1>1, Invariant, PTL DEF Spec, KindNeverChanges

(* The table inside the file system is one of InodeTable.                  *)
THEOREM TableIsInodeTable == Spec => UsesInodeTable
<1>1. Init => Inodes!Init
  BY DEF Init
<1>2. IInv /\ [Next]_vars => [Inodes!Next]_(Inodes!vars)
  <2> SUFFICES ASSUME IInv, [Next]_vars PROVE Inodes!Next \/ UNCHANGED Inodes!vars
    OBVIOUS
  <2>1. CASE UNCHANGED table
    BY <2>1 DEF table, Inodes!vars
  <2>2. CASE \E p \in Path : ensure_inode(p)
    BY <2>2 DEF ensure_inode, Inodes!Next
  <2> QED BY <2>1, <2>2, StepOfTable DEF vars, table
<1> QED BY <1>1, <1>2, Invariant, PTL DEF Spec, UsesInodeTable, Inodes!Spec
===============================================================================
