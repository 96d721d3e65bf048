------------------------------ MODULE Registry ------------------------------
(***************************************************************************)
(* The registry of crates/obsfs-core/src/registry.rs, over the trees of    *)
(* module Tree; the path <<>> stands for "" and for "///".                 *)
(*                                                                         *)
(* insert() creates the parents of a path while it walks down to it.  The  *)
(* walk is modelled component by component, so that what a failing call    *)
(* leaves behind is a property of the loop and not of its summary.         *)
(***************************************************************************)
EXTENDS Tree

CONSTANTS
    Component,  \* names of directory entries
    Path,       \* the paths callers insert and remove
    Leaf        \* FsNode::Metric and FsNode::Config values

ASSUME PathAssumption == Path \subseteq Seq(Component)
ASSUME LeafAssumption == Dir \notin Leaf

VARIABLES
    tree,    \* the nodes, by path; the root is at <<>>
    pc,      \* "idle", or "walk" inside insert()
    path,    \* the path of the current or last insert()
    node,    \* its node
    depth,   \* components of `path` that `current` is below the root
    before,  \* history: the tree when that insert() began
    result   \* what it returned: "ok", or an error with the path it names

vars == <<tree, pc, path, node, depth, before, result>>

Node == Leaf \cup {Dir}
Ok == [status |-> "ok", at |-> <<>>]
Err(what, p) == [status |-> what, at |-> p]
Result == [status : {"none", "ok", "root", "path conflict", "parent is not a directory"},
           at : Seq(Component)]
Failed == result.status \notin {"ok", "none"}

-----------------------------------------------------------------------------
(* get(), get_mut(), exists(): in a well-formed tree the walk arrives      *)
(* exactly at the paths present.                                           *)
Exists(p) == p \in DOMAIN tree
IsDirectory(p) == Exists(p) /\ tree[p] = Dir

-----------------------------------------------------------------------------
Init ==
    /\ tree = EmptyTree
    /\ pc = "idle" /\ path = <<>> /\ node = Dir /\ depth = 0
    /\ before = tree
    /\ result = [status |-> "none", at |-> <<>>]

(* insert() is called; the root cannot be replaced.                        *)
Insert(p, n) ==
    /\ pc = "idle"
    /\ path' = p /\ node' = n /\ depth' = 0 /\ before' = tree
    /\ IF p = <<>>
       THEN pc' = "idle" /\ result' = Err("root", p)
       ELSE pc' = "walk" /\ result' = [status |-> "none", at |-> <<>>]
    /\ UNCHANGED tree

current == Prefix(path, depth)
next == Prefix(path, depth + 1)

(* Variants with a bug each, none part of Spec: the loop always creating,  *)
(* or creating the node itself; the error raised after the child was made; *)
(* the parent not tested.                                                  *)
Descend_Overwrites ==
    /\ pc = "walk" /\ depth < Len(path) - 1
    /\ tree[current] = Dir
    /\ tree' = WithNode(WithoutSubtree(tree, next), next, Dir)
    /\ depth' = depth + 1
    /\ UNCHANGED <<pc, path, node, before, result>>

Descend_NoCreate ==
    /\ pc = "walk" /\ depth < Len(path) - 1
    /\ tree[current] = Dir
    /\ tree' = IF Exists(next) THEN tree ELSE WithNode(tree, next, node)
    /\ depth' = depth + 1
    /\ UNCHANGED <<pc, path, node, before, result>>

Conflict_Late ==
    /\ pc = "walk" /\ depth < Len(path) - 1
    /\ tree[current] # Dir
    /\ tree' = WithNode(tree, next, Dir)
    /\ result' = Err("path conflict", next)
    /\ pc' = "idle"
    /\ UNCHANGED <<path, node, depth, before>>

Place_Anywhere ==
    /\ pc = "walk" /\ depth = Len(path) - 1
    /\ tree' = WithNode(WithoutSubtree(tree, path), path, node)
    /\ result' = Ok
    /\ pc' = "idle"
    /\ UNCHANGED <<path, node, depth, before>>

(* One round of the loop over the parents: descend, creating the directory *)
(* that is missing.                                                        *)
Descend ==
    /\ pc = "walk" /\ depth < Len(path) - 1
    /\ tree[current] = Dir
    /\ tree' = IF Exists(next) THEN tree ELSE WithNode(tree, next, Dir)
    /\ depth' = depth + 1
    /\ UNCHANGED <<pc, path, node, before, result>>

(* The loop stands on a file.  The error names components[..=i], which is  *)
(* the child the loop was about to enter.                                  *)
Conflict ==
    /\ pc = "walk" /\ depth < Len(path) - 1
    /\ tree[current] # Dir
    /\ result' = Err("path conflict", next)
    /\ pc' = "idle"
    /\ UNCHANGED <<tree, path, node, depth, before>>

(* HashMap::insert in the parent: a node already there is replaced, and if *)
(* it was a directory everything below it goes with it.                    *)
Place ==
    /\ pc = "walk" /\ depth = Len(path) - 1
    /\ tree[current] = Dir
    /\ tree' = WithNode(WithoutSubtree(tree, path), path, node)
    /\ result' = Ok
    /\ pc' = "idle"
    /\ UNCHANGED <<path, node, depth, before>>

ParentIsFile ==
    /\ pc = "walk" /\ depth = Len(path) - 1
    /\ tree[current] # Dir
    /\ result' = Err("parent is not a directory", path)
    /\ pc' = "idle"
    /\ UNCHANGED <<tree, path, node, depth, before>>

(* remove(): the node and what is below it; nothing for the root or for a  *)
(* path that is absent.                                                    *)
Remove(p) ==
    /\ pc = "idle" /\ p # <<>> /\ Exists(p)
    /\ tree' = WithoutSubtree(tree, p)
    /\ before' = tree' /\ result' = [status |-> "none", at |-> <<>>]
    /\ UNCHANGED <<pc, path, node, depth>>

Next ==
    \/ \E p \in Path, n \in Node : Insert(p, n)
    \/ Descend
    \/ Conflict
    \/ Place
    \/ ParentIsFile
    \/ \E p \in Path : Remove(p)

Spec == Init /\ [][Next]_vars

-----------------------------------------------------------------------------
TypeOK ==
    /\ DOMAIN tree \subseteq Seq(Component)
    /\ tree \in [DOMAIN tree -> Node]
    /\ pc \in {"idle", "walk"}
    /\ path \in Seq(Component) /\ node \in Node
    /\ depth \in Nat /\ (pc = "walk" => depth < Len(path))
    /\ DOMAIN before \subseteq Seq(Component)
    /\ before \in [DOMAIN before -> Node]
    /\ result \in Result

(* Every node hangs from directories up to the root: an insert() or a      *)
(* remove() leaves no node under a file and none without its parents, so a *)
(* path listed by readdir can be looked up component by component.         *)
WellFormed ==
    /\ IsDirectory(<<>>)
    /\ \A p \in DOMAIN tree : \A k \in 0 .. Len(p) - 1 : IsDirectory(Prefix(p, k))

(* An insert() that returns an error has not changed the tree: the parents *)
(* it creates on its way never survive a failure, although nothing rolls   *)
(* them back.                                                              *)
FailedInsertChangesNothing == Failed => tree = before

(* An insert() changes only what is at or below its path, and the missing  *)
(* parents: it never touches a sibling, however far the walk has come.     *)
OthersUntouched ==
    \A q \in DOMAIN before :
        ~Below(path, q) \/ (pc = "walk") => Exists(q) /\ tree[q] = before[q]

(* The loop computes InsertInto: it succeeds exactly when no file stands   *)
(* in the way, and then the tree is the old one with the parents and the   *)
(* node, whatever was there before.                                        *)
ComputesInsertInto ==
    /\ result.status = "ok" => CanInsert(before, path) /\ tree = InsertInto(before, path, node)
    /\ Failed => ~CanInsert(before, path)
==============================================================================
