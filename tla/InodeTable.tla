----------------------------- MODULE InodeTable -----------------------------
(***************************************************************************)
(* The inode table of crates/obsfs-fuse/src/inode.rs: two hash maps that   *)
(* translate paths to inode numbers and back, the counter the numbers are  *)
(* drawn from, and the numbers marked stale with the time of the mark.     *)
(*                                                                         *)
(* Every operation runs under `&mut self`, so an operation is one step.    *)
(* SystemTime::now() is a wall clock: it may also go back.                 *)
(***************************************************************************)
EXTENDS Naturals

CONSTANTS
    Path,       \* the paths callers ask about
    Root,       \* the path "" of the mount point
    Removable,  \* the paths callers pass to remove()
    Time,       \* readings of the system clock
    Age,        \* the max_age values passed to sweep_stale()
    MaxInode,   \* bound: numbers drawn from the counter stop here
    None        \* Option::None

ASSUME RootAssumption == Root \in Path
ASSUME RemovableAssumption == Removable \subseteq Path
ASSUME TimeAssumption == Time \subseteq Nat /\ Time # {} /\ Age \subseteq Nat
ASSUME BoundAssumption == MaxInode \in Nat \ {0}
ASSUME NoneAssumption == None \notin Path \cup Nat

VARIABLES
    path_to_inode,  \* HashMap<String, u64>, a function from the mapped paths
    inode_to_path,  \* HashMap<u64, String>
    next_inode,     \* AtomicU64
    stale,          \* HashMap<u64, SystemTime>
    now,            \* the system clock
    issued          \* history: every number ever given out, with its path

vars == <<path_to_inode, inode_to_path, next_inode, stale, now, issued>>

ROOT_INODE == 1
FIRST_ALLOCATABLE_INODE == 2

-----------------------------------------------------------------------------
(* HashMap::insert and HashMap::remove (of every key in a set).            *)

Insert(f, k, v) == [x \in DOMAIN f \cup {k} |-> IF x = k THEN v ELSE f[x]]
InsertOnce(f, k, v) == IF k \in DOMAIN f THEN f ELSE Insert(f, k, v)
Without(f, K) == [x \in DOMAIN f \ K |-> f[x]]

-----------------------------------------------------------------------------
(* Queries.                                                                *)

is_stale(i) == i \in DOMAIN stale

resolve_path(i) ==
    IF i \in DOMAIN inode_to_path /\ ~is_stale(i) THEN inode_to_path[i] ELSE None

resolve_inode(p) ==
    IF p \in DOMAIN path_to_inode THEN path_to_inode[p] ELSE None

(* The stale numbers sweep_stale(a) collects: duration_since() is an Err,  *)
(* and the number is kept, when the clock reads less than the mark.        *)
Expired(a) == {i \in DOMAIN stale : now >= stale[i] /\ now - stale[i] >= a}

-----------------------------------------------------------------------------
(* Variants of the operations below with a bug each, none part of Spec:    *)
(* PROJECT.json says which property catches which.                         *)

(* get_or_allocate() that does not look the path up.                       *)
GetOrAllocate_Blind(p) ==
    /\ next_inode <= MaxInode
    /\ path_to_inode' = Insert(path_to_inode, p, next_inode)
    /\ inode_to_path' = Insert(inode_to_path, next_inode, p)
    /\ issued' = InsertOnce(issued, next_inode, p)
    /\ next_inode' = next_inode + 1
    /\ UNCHANGED <<stale, now>>

(* remove() that gives the last number drawn back to the counter.          *)
Remove_Reuses(p) ==
    /\ p \in DOMAIN path_to_inode
    /\ path_to_inode' = Without(path_to_inode, {p})
    /\ inode_to_path' = Without(inode_to_path, {path_to_inode[p]})
    /\ next_inode' = IF path_to_inode[p] = next_inode - 1 THEN next_inode - 1 ELSE next_inode
    /\ UNCHANGED <<stale, now, issued>>

(* mark_stale() without the test for the root.                             *)
MarkStale_Root(i) ==
    /\ stale' = Insert(stale, i, now)
    /\ UNCHANGED <<path_to_inode, inode_to_path, next_inode, now, issued>>

(* sweep_stale() that forgets one of the two maps.                         *)
SweepStale_KeepsPath(a) ==
    /\ Expired(a) # {}
    /\ stale' = Without(stale, Expired(a))
    /\ inode_to_path' = Without(inode_to_path, Expired(a))
    /\ UNCHANGED <<path_to_inode, next_inode, now, issued>>

SweepStale_KeepsNumber(a) ==
    LET mapped == Expired(a) \cap DOMAIN inode_to_path
    IN  /\ Expired(a) # {}
        /\ stale' = Without(stale, Expired(a))
        /\ path_to_inode' = Without(path_to_inode, {inode_to_path[i] : i \in mapped})
        /\ UNCHANGED <<inode_to_path, next_inode, now, issued>>

-----------------------------------------------------------------------------
Init ==
    /\ path_to_inode = [p \in {Root} |-> ROOT_INODE]
    /\ inode_to_path = [i \in {ROOT_INODE} |-> Root]
    /\ next_inode = FIRST_ALLOCATABLE_INODE
    /\ stale = [i \in {} |-> 0]
    /\ now \in Time
    /\ issued = [i \in {ROOT_INODE} |-> Root]

(* allocate() of a path that has no number.                                *)
Draw(p) ==
    /\ next_inode <= MaxInode
    /\ path_to_inode' = Insert(path_to_inode, p, next_inode)
    /\ inode_to_path' = Insert(inode_to_path, next_inode, p)
    /\ issued' = InsertOnce(issued, next_inode, p)
    /\ next_inode' = next_inode + 1
    /\ UNCHANGED <<stale, now>>

(* get_or_allocate(), and allocate(), which looks the path up the same way. *)
GetOrAllocate(p) ==
    IF p \in DOMAIN path_to_inode THEN UNCHANGED vars ELSE Draw(p)

(* remove(): the stale entry of the number, if any, stays.                 *)
Remove(p) ==
    /\ p \in DOMAIN path_to_inode
    /\ path_to_inode' = Without(path_to_inode, {p})
    /\ inode_to_path' = Without(inode_to_path, {path_to_inode[p]})
    /\ UNCHANGED <<next_inode, stale, now, issued>>

(* mark_stale(): marks any number but the root's, mapped or not; marking   *)
(* again refreshes the time.                                               *)
MarkStale(i) ==
    /\ i # ROOT_INODE
    /\ stale' = Insert(stale, i, now)
    /\ UNCHANGED <<path_to_inode, inode_to_path, next_inode, now, issued>>

SweepStale(a) ==
    LET mapped == Expired(a) \cap DOMAIN inode_to_path
    IN  /\ Expired(a) # {}
        /\ stale' = Without(stale, Expired(a))
        /\ inode_to_path' = Without(inode_to_path, Expired(a))
        /\ path_to_inode' = Without(path_to_inode, {inode_to_path[i] : i \in mapped})
        /\ UNCHANGED <<next_inode, now, issued>>

(* The system clock is read anew, later or (set back) earlier.             *)
ClockStep ==
    /\ now' \in Time
    /\ UNCHANGED <<path_to_inode, inode_to_path, next_inode, stale, issued>>

(* Callers mark only numbers the table gave them.                          *)
Next ==
    \/ \E p \in Path : GetOrAllocate(p)
    \/ \E p \in Removable : Remove(p)
    \/ \E i \in DOMAIN issued : MarkStale(i)
    \/ \E a \in Age : SweepStale(a)
    \/ ClockStep

Spec == Init /\ [][Next]_vars

-----------------------------------------------------------------------------
(* Every map has keys and values of its type.                              *)
TypeOK ==
    /\ DOMAIN path_to_inode \subseteq Path
    /\ path_to_inode \in [DOMAIN path_to_inode -> Nat \ {0}]
    /\ DOMAIN inode_to_path \subseteq Nat \ {0}
    /\ inode_to_path \in [DOMAIN inode_to_path -> Path]
    /\ next_inode \in 2 .. MaxInode + 1
    /\ DOMAIN stale \subseteq DOMAIN issued \ {ROOT_INODE}
    /\ stale \in [DOMAIN stale -> Time]
    /\ now \in Time
    /\ DOMAIN issued = 1 .. next_inode - 1
    /\ issued \in [DOMAIN issued -> Path]

(* The two maps are inverses of each other, so no operation leaves half of *)
(* a pair behind (inode.rs:14-15, "bidirectional").                        *)
MapsAreInverse ==
    /\ \A p \in DOMAIN path_to_inode :
          /\ path_to_inode[p] \in DOMAIN inode_to_path
          /\ inode_to_path[path_to_inode[p]] = p
    /\ \A i \in DOMAIN inode_to_path :
          /\ inode_to_path[i] \in DOMAIN path_to_inode
          /\ path_to_inode[inode_to_path[i]] = i

(* A number names, for ever, the one path it was drawn for: whatever is    *)
(* removed, swept and allocated again in between, a caller that kept a     *)
(* number never reaches another path with it (inode.rs:87, "The inode      *)
(* number is not reused").                                                 *)
NumbersKeepTheirPath ==
    \A i \in DOMAIN inode_to_path : i \in DOMAIN issued /\ issued[i] = inode_to_path[i]

(* A number that once resolved to nothing, because it was marked stale,    *)
(* removed or swept, resolves to nothing for ever (inode.rs:60 and 103).   *)
(* Sweeping must therefore drop the mapping together with the mark.        *)
DeniedForEver ==
    [][\A i \in DOMAIN issued : resolve_path(i) = None => resolve_path(i)' = None]_vars

(* The mount point stays reachable under its number until a caller removes *)
(* its path: neither a mark nor a sweep loses it (inode.rs:109), nor does  *)
(* anything done to other paths.                                           *)
RootResolves ==
    [][resolve_path(ROOT_INODE)' # resolve_path(ROOT_INODE) => Remove(Root)]_vars

(* The table keeps the promises of PathHandles (in that module): names are *)
(* bound to fresh handles, denial is for ever, and a binding is dropped by *)
(* remove() or after its handle was denied, never otherwise.               *)
Denied == {i \in DOMAIN issued : resolve_path(i) = None}

Promise == INSTANCE PathHandles WITH
    Name <- Path,
    Handle <- 1 .. MaxInode,
    RootName <- Root,
    RootHandle <- ROOT_INODE,
    bound <- {<<p, path_to_inode[p]>> : p \in DOMAIN path_to_inode},
    used <- DOMAIN issued,
    denied <- Denied

ImplementsPathHandles == Promise!Spec
=============================================================================
