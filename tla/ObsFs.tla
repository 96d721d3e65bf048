-------------------------------- MODULE ObsFs --------------------------------
(***************************************************************************)
(* The FUSE file system of crates/obsfs-fuse/src/fs.rs: the handlers       *)
(* lookup, getattr, readdir and read over the inode table, the registry    *)
(* (fixed once mounted) and the dynamic handlers, whose entries come and   *)
(* go with processes, users, services and containers.                      *)
(*                                                                         *)
(* fuser calls one handler at a time (`&mut self`), so a handler that asks *)
(* the outside world once is one step.  readdir() takes a snapshot of the  *)
(* names and then allocates a number for each in turn: the world moves on  *)
(* between, so the allocations are steps of their own.                     *)
(***************************************************************************)
EXTENDS Naturals, Sequences

CONSTANTS
    Static,      \* the registry: a function from its paths to "dir" or "file"
    Prefix,      \* prefixes of the dynamic handlers
    Dynamic,     \* paths below a prefix that can come and go
    Unlisted,    \* those list_entries() leaves out although they exist
    ListedOnly,  \* those list_entries() names although exists() denies them
    Unreadable,  \* those read() answers None for
    Alias,       \* further names of dynamic paths: a function to the path meant
    Credulous,   \* prefixes whose exists() takes a source that fails for a yes
    MaxInode,    \* bound on the inode numbers drawn
    None

Root == <<>>
Path == DOMAIN Static \cup Prefix \cup Dynamic

Named(p) == IF p \in DOMAIN Alias THEN Alias[p] ELSE p
Parent(p) == IF p = Root THEN Root ELSE SubSeq(p, 1, Len(p) - 1)
Children(S, p) == {q \in S : q # Root /\ Parent(q) = p}

(* Every prefix is one component and no dynamic path is a static           *)
(* directory, as in the plugins main.rs loads.                             *)
ASSUME StaticAssumption ==
    /\ Root \in DOMAIN Static /\ Static[Root] = "dir"
    /\ \A p \in DOMAIN Static :
          Static[p] \in {"dir", "file"} /\ Parent(p) \in DOMAIN Static /\ Static[Parent(p)] = "dir"
ASSUME DynamicAssumption ==
    /\ \A q \in Prefix : Len(q) = 1 /\ (q \in DOMAIN Static => Static[q] = "dir")
    /\ \A p \in Dynamic : Parent(p) \in Prefix /\ (p \in DOMAIN Static => Static[p] = "file")
    /\ \A p \in DOMAIN Static \ {Root} : Parent(p) \in Prefix => p \in Dynamic
    /\ Unlisted \cup ListedOnly \cup Unreadable \subseteq Dynamic
(* Two spellings of a number are parsed as one (proc/7, proc/007), a user  *)
(* is found by the start of a line of /etc/passwd (root, root:x), a unit   *)
(* and a container have several names.  No handler lists an alias.         *)
ASSUME AliasAssumption ==
    /\ DOMAIN Alias \subseteq Dynamic \ DOMAIN Static
    /\ \A p \in DOMAIN Alias : Alias[p] \in Dynamic \ DOMAIN Alias /\ Parent(Alias[p]) = Parent(p)
ASSUME CredulousAssumption == Credulous \subseteq Prefix
ASSUME BoundAssumption == MaxInode \in Nat \ {0}
ASSUME NoneAssumption == None \notin Path

VARIABLES
    path_to_inode, inode_to_path, next_inode,   \* ObsFs.inodes
    alive,    \* the dynamic paths there are now, under the names that are listed
    failing,  \* the credulous prefixes whose source runs and fails now
    entry,    \* what the kernel holds: number -> the path and kind it was told
    dir,      \* the readdir() in progress: its directory and what is left to add
    reply,    \* the entries that readdir() has added to its reply
    seen      \* history: the dynamic paths there were at any time

table == <<path_to_inode, inode_to_path, next_inode>>
vars == <<path_to_inode, inode_to_path, next_inode, alive, failing, entry, dir, reply, seen>>

(* Nothing in ObsFs calls remove(), mark_stale() or sweep_stale().         *)
Inodes == INSTANCE InodeTable WITH
    Removable <- {}, Time <- {0}, Age <- {0},
    stale <- [i \in {} |-> 0], now <- 0, issued <- inode_to_path

-----------------------------------------------------------------------------
(* The dynamic handlers, and the queries of the FUSE handlers.  A source   *)
(* that runs and fails lists and describes nothing, but for a credulous    *)
(* handler every name exists: services (services/mod.rs:172) only looks    *)
(* for "not-found" in what systemctl says.  A source that does not run at  *)
(* all makes every handler answer no, as if all its entries had vanished.  *)
(* The first component of `x/anything`, which some handlers answer for, is *)
(* never asked: the kernel looks names up in directories only.             *)

list_entries(q) == IF q \in failing THEN {} ELSE Children(alive \ Unlisted, q)
exists(p) == Parent(p) \in failing \/ Named(p) \in alive \ ListedOnly
readable(p) == Parent(p) \notin failing /\ Named(p) \in alive \ Unreadable

(* What lookup() and getattr() report of a path: the registry goes first,  *)
(* then the prefixes, then the handler the path belongs to.                *)
Attr(p) ==
    IF p \in DOMAIN Static THEN Static[p]
    ELSE IF p \in Prefix THEN "dir"
    ELSE IF p # Root /\ Parent(p) \in Prefix /\ exists(p) THEN "file"
    ELSE "ENOENT"

(* Variants of three operators below with a bug each, none part of Spec:   *)
(* read() that does not fall through to the registry, a listing with the   *)
(* prefixes as files, and a number drawn for every mention of a path.      *)
Source_HandlerOnly(p) ==
    IF p # Root /\ Parent(p) \in Prefix
    THEN IF readable(p) THEN "handler" ELSE "ENOENT"
    ELSE IF p \notin DOMAIN Static THEN "ENOENT"
    ELSE IF Static[p] = "dir" THEN "EIO"
    ELSE "provider"

Listing_PrefixesAsFiles(p) ==
    IF p \in Prefix
    THEN {[path |-> q, kind |-> "file"] : q \in list_entries(p)}
    ELSE {[path |-> q, kind |-> Static[q]] : q \in Children(DOMAIN Static, p)}
         \cup IF p = Root
              THEN {[path |-> q, kind |-> "file"] : q \in Prefix \ DOMAIN Static}
              ELSE {}

ensure_inode_Blind(p) == Inodes!Draw(p)

(* Where read() takes its data from: the handler goes first, and the       *)
(* registry is asked when the handler has none.                            *)
Source(p) ==
    IF p # Root /\ Parent(p) \in Prefix /\ readable(p) THEN "handler"
    ELSE IF p \notin DOMAIN Static THEN "ENOENT"
    ELSE IF Static[p] = "dir" THEN "EIO"
    ELSE "provider"

(* What readdir() lists: a handler lists its whole directory; the root     *)
(* lists the prefixes besides the static children.                         *)
Listing(p) ==
    IF p \in Prefix
    THEN {[path |-> q, kind |-> "file"] : q \in list_entries(p)}
    ELSE {[path |-> q, kind |-> Static[q]] : q \in Children(DOMAIN Static, p)}
         \cup IF p = Root
              THEN {[path |-> q, kind |-> "dir"] : q \in Prefix \ DOMAIN Static}
              ELSE {}

ensure_inode(p) == Inodes!GetOrAllocate(p)
resolve(i) == Inodes!resolve_path(i)
idle == dir = None

-----------------------------------------------------------------------------
Init ==
    /\ Inodes!Init
    /\ alive \in {S \in SUBSET (Dynamic \ DOMAIN Alias) : Dynamic \cap DOMAIN Static \subseteq S}
    /\ failing \in SUBSET Credulous
    /\ entry = [i \in {Inodes!ROOT_INODE} |-> [path |-> Root, kind |-> "dir"]]
    /\ dir = None
    /\ reply = {}
    /\ seen = alive

Learn(i, p, k) ==
    entry' = [j \in DOMAIN entry \cup {i} |->
                 IF j = i THEN [path |-> p, kind |-> k] ELSE entry[j]]

(* Variants of the handlers below with a bug each, none part of Spec:      *)
(* lookup() with the number drawn before the test, with the number of the *)
(* bare name; getattr() that answers "file" to all.                        *)
Lookup_AllocatesFirst(i, p) ==
    /\ idle
    /\ entry[i].kind = "dir" /\ p # Root /\ Parent(p) = resolve(i)
    /\ ensure_inode(p)
    /\ IF Attr(p) = "ENOENT" THEN UNCHANGED entry ELSE Learn(path_to_inode'[p], p, Attr(p))
    /\ UNCHANGED <<alive, failing, dir, reply, seen>>

Lookup_BareName(i, p) ==
    LET name == <<p[Len(p)]>>
    IN  /\ idle
        /\ entry[i].kind = "dir" /\ p # Root /\ Parent(p) = resolve(i)
        /\ IF Attr(p) = "ENOENT"
           THEN UNCHANGED <<table, entry>>
           ELSE ensure_inode(name) /\ Learn(path_to_inode'[name], p, Attr(p))
        /\ UNCHANGED <<alive, failing, dir, reply, seen>>

GetAttr_AlwaysFile(i) ==
    /\ idle
    /\ resolve(i) # None /\ Attr(resolve(i)) # "ENOENT"
    /\ Learn(i, entry[i].path, "file")
    /\ UNCHANGED <<table, alive, failing, dir, reply, seen>>

(* lookup() of a name in a directory the kernel holds.                     *)
Lookup(i, p) ==
    /\ idle
    /\ entry[i].kind = "dir" /\ p # Root /\ Parent(p) = resolve(i)
    /\ IF Attr(p) = "ENOENT"
       THEN UNCHANGED <<table, entry>>
       ELSE ensure_inode(p) /\ Learn(path_to_inode'[p], p, Attr(p))
    /\ UNCHANGED <<alive, failing, dir, reply, seen>>

(* getattr() of a number the kernel holds.                                 *)
GetAttr(i) ==
    /\ idle
    /\ resolve(i) # None /\ Attr(resolve(i)) # "ENOENT"
    /\ Learn(i, entry[i].path, Attr(resolve(i)))
    /\ UNCHANGED <<table, alive, failing, dir, reply, seen>>

(* readdir(): the path, the number of "..", and the names.                 *)
ReadDir(i) ==
    /\ idle
    /\ entry[i].kind = "dir" /\ resolve(i) # None
    /\ resolve(i) \in Prefix \cup {p \in DOMAIN Static : Static[p] = "dir"}
    /\ ensure_inode(Parent(resolve(i)))
    /\ dir' = [at |-> resolve(i), left |-> Listing(resolve(i))]
    /\ UNCHANGED <<alive, failing, entry, reply, seen>>

(* The loop of readdir(): a number for the next name, in the order of the  *)
(* listing or of the hash map.                                             *)
AddEntry(e) ==
    /\ ~idle /\ e \in dir.left
    /\ ensure_inode(e.path)
    /\ reply' = reply \cup {[ino |-> path_to_inode'[e.path], path |-> e.path, kind |-> e.kind]}
    /\ dir' = [dir EXCEPT !.left = @ \ {e}]
    /\ UNCHANGED <<alive, failing, entry, seen>>

ReadDirOk ==
    /\ ~idle /\ dir.left = {}
    /\ dir' = None /\ reply' = {}
    /\ UNCHANGED <<table, alive, failing, entry, seen>>

(* The outside world: a process starts or ends, a user logs in or out.  A  *)
(* name that is in the registry too (users/active) is always listed.       *)
Appear(p) ==
    /\ p \notin alive \cup DOMAIN Alias
    /\ alive' = alive \cup {p} /\ seen' = seen \cup {p}
    /\ UNCHANGED <<table, failing, entry, dir, reply>>

Vanish(p) ==
    /\ p \in alive \ DOMAIN Static
    /\ alive' = alive \ {p}
    /\ UNCHANGED <<table, failing, entry, dir, reply, seen>>

(* systemctl loses its connection to the bus, and has it again.            *)
Fail(q) ==
    /\ failing' = failing \cup {q}
    /\ UNCHANGED <<table, alive, entry, dir, reply, seen>>

Recover(q) ==
    /\ failing' = failing \ {q}
    /\ UNCHANGED <<table, alive, entry, dir, reply, seen>>

Next ==
    \/ \E i \in DOMAIN entry, p \in Path : Lookup(i, p)
    \/ \E i \in DOMAIN entry : GetAttr(i)
    \/ \E i \in DOMAIN entry : ReadDir(i)
    \/ \E p \in Path, k \in {"dir", "file"} : AddEntry([path |-> p, kind |-> k])
    \/ ReadDirOk
    \/ \E p \in Dynamic : Appear(p)
    \/ \E p \in Dynamic : Vanish(p)
    \/ \E q \in Credulous : Fail(q) \/ Recover(q)

Spec == Init /\ [][Next]_vars

(* A handler that was called returns.                                      *)
ReadDirStep ==
    \/ \E p \in Path, k \in {"dir", "file"} : AddEntry([path |-> p, kind |-> k])
    \/ ReadDirOk
FairSpec == Spec /\ WF_vars(ReadDirStep)

-----------------------------------------------------------------------------
TypeOK ==
    /\ Inodes!TypeOK
    /\ alive \subseteq seen /\ seen \subseteq Dynamic \ DOMAIN Alias
    /\ failing \subseteq Credulous
    /\ \A i \in DOMAIN entry : entry[i].path \in Path /\ entry[i].kind \in {"dir", "file"}
    /\ idle \/ (dir.at \in Path /\ \A e \in dir.left : e.path \in Path)

(* ObsFs uses the inode table as InodeTable specifies it, one allocation   *)
(* at a time, and so inherits what is proved about it.                     *)
UsesInodeTable == Inodes!Spec

(* A number the kernel holds always resolves to the path it was looked up  *)
(* by: no reply of any handler gives it the number of another file.        *)
HandlesStayGood == \A i \in DOMAIN entry : resolve(i) = entry[i].path

(* The kernel is never told that a directory became a file or a file a     *)
(* directory: registry and handlers, asked in different orders by          *)
(* different handlers, agree on the kind of a path for ever.               *)
KindNeverChanges ==
    [][\A i \in DOMAIN entry : i \in DOMAIN entry' /\ entry'[i].kind = entry[i].kind]_vars

(* A number is drawn only for a path of the registry, a prefix, or a name  *)
(* of something that is there; within a listing it may be gone again, as   *)
(* the names were taken before.  Other names cost a number only while the  *)
(* source of a credulous handler fails (services/mod.rs:172), and then     *)
(* every one does.                                                         *)
DrawnForCause ==
    [][\A p \in DOMAIN path_to_inode' \ DOMAIN path_to_inode :
          \/ p \in DOMAIN Static \cup Prefix
          \/ Named(p) \in alive
          \/ ~idle /\ p \in seen
          \/ Parent(p) \in failing]_vars

(* What a listing shows can be looked up: with the number and kind shown,  *)
(* or else the entry vanished after the snapshot was taken.  The one       *)
(* exception are names whose handler lists them and denies them, as the    *)
(* users handler does with a user who is logged in but has no line in      *)
(* /etc/passwd (users/mod.rs:374).                                         *)
ListedIsFound ==
    \A e \in reply :
        /\ path_to_inode[e.path] = e.ino
        /\ Attr(e.path) = e.kind \/ e.path \in (Dynamic \ alive) \cup ListedOnly

(* A file the kernel was told of never answers read() with the error of a  *)
(* directory, and its data is missing only when the entry is not there (any *)
(* more), or its handler cannot read it or its source.                     *)
FilesAreReadable ==
    \A i \in DOMAIN entry : entry[i].kind = "file" =>
        \/ Source(resolve(i)) \in {"handler", "provider"}
        \/ /\ Source(resolve(i)) = "ENOENT"
           /\ resolve(i) \notin DOMAIN Static
           /\ \/ Named(resolve(i)) \notin alive \/ Named(resolve(i)) \in Unreadable
              \/ Parent(resolve(i)) \in failing

(* The table is said to "handle dynamic paths without memory leaks"        *)
(* (inode.rs:17-19): a path that is gone for good loses its number.        *)
GonePathsAreForgotten ==
    \A p \in Dynamic \ DOMAIN Static :
        <>[](p \in seen \ alive) => []<>(p \notin DOMAIN path_to_inode)
=============================================================================
