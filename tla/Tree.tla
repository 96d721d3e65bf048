-------------------------------- MODULE Tree --------------------------------
(***************************************************************************)
(* The nested maps of FsNode::Directory (crates/obsfs-core/src/types.rs    *)
(* and registry.rs) as one function from the paths present to their nodes; *)
(* a path is the sequence of its components, which is what split('/') and  *)
(* the filter of empty components make of a string.                        *)
(***************************************************************************)
EXTENDS Naturals, Sequences

CONSTANT Dir   \* the value FsNode::Directory

Prefix(p, k) == SubSeq(p, 1, k)
Below(p, q) == Len(p) <= Len(q) /\ Prefix(q, Len(p)) = p   \* q is p or under it

EmptyTree == [p \in {<<>>} |-> Dir]
WithNode(t, p, n) == [q \in DOMAIN t \cup {p} |-> IF q = p THEN n ELSE t[q]]
WithoutSubtree(t, p) == [q \in {r \in DOMAIN t : ~Below(p, r)} |-> t[q]]

(* What Registry::insert() comes to: it is refused when a file stands where *)
(* a parent is needed; otherwise the parents are added, and whatever is at *)
(* or below the path is replaced.                                          *)
Parents(p) == {Prefix(p, k) : k \in 0 .. Len(p) - 1}
CanInsert(t, p) == p # <<>> /\ \A q \in Parents(p) : q \in DOMAIN t => t[q] = Dir
InsertInto(t, p, n) ==
    [q \in {r \in DOMAIN t : ~Below(p, r)} \cup Parents(p) \cup {p} |->
        IF q = p THEN n ELSE IF q \in Parents(p) THEN Dir ELSE t[q]]
=============================================================================
