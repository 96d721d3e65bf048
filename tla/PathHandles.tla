---------------------------- MODULE PathHandles ----------------------------
(***************************************************************************)
(* What a file system promises about the handles (inode numbers) it gives  *)
(* out for names (paths), whatever structure it keeps them in:             *)
(*   - a name is bound to a handle that was never used before;             *)
(*   - a handle may be denied, and is then denied for ever;                *)
(*   - a binding is dropped on request, or because its handle was denied.  *)
(* A kernel that kept a handle relies on the first two: it may be told     *)
(* that the handle is gone, it is never sent to another file.              *)
(***************************************************************************)
CONSTANTS Name, Handle, RootName, RootHandle

VARIABLES
    bound,   \* the pairs <<name, handle>> in force
    used,    \* the handles ever given out
    denied   \* the handles that answer "no such file"

vars == <<bound, used, denied>>

Init ==
    /\ bound = {<<RootName, RootHandle>>}
    /\ used = {RootHandle}
    /\ denied = {}

Names == {b[1] : b \in bound}
HandlesOf(B) == {b[2] : b \in B}

(* The name gets a handle nobody has seen.                                 *)
Bind(n, h) ==
    /\ n \notin Names
    /\ h \notin used
    /\ bound' = bound \cup {<<n, h>>}
    /\ used' = used \cup {h}
    /\ UNCHANGED denied

(* The handle stops answering; its name stays bound to it.                 *)
Deny(h) ==
    /\ h \in used \ {RootHandle}
    /\ denied' = denied \cup {h}
    /\ UNCHANGED <<bound, used>>

(* The name is given up, and its handle with it.                           *)
Release(n, h) ==
    /\ <<n, h>> \in bound
    /\ bound' = bound \ {<<n, h>>}
    /\ denied' = denied \cup {h}
    /\ UNCHANGED used

(* Names whose handles were denied are given up together.                  *)
Reclaim(B) ==
    /\ HandlesOf(B) \subseteq denied
    /\ bound' = bound \ B
    /\ UNCHANGED <<used, denied>>

Next ==
    \/ \E n \in Name, h \in Handle : Bind(n, h)
    \/ \E h \in Handle : Deny(h)
    \/ \E n \in Name, h \in Handle : Release(n, h)
    \/ \E B \in SUBSET bound : Reclaim(B)

Spec == Init /\ [][Next]_vars
=============================================================================
