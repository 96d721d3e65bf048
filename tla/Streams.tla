------------------------------- MODULE Streams -------------------------------
(***************************************************************************)
(* One listing of a dynamic directory, or one reading of a file, as the    *)
(* process that makes it sees it: the kernel calls readdir() or read() of  *)
(* crates/obsfs-fuse/src/fs.rs with an offset, until a reply is empty.     *)
(* Neither keeps anything between the calls, and open() forbids the kernel *)
(* to cache: each call makes the list, or collects the content, anew, and  *)
(* replies with a slice of what there is now.                              *)
(*                                                                         *)
(* Entries are numbers in the order a handler lists them, after "." and    *)
(* "..", each a row of the list; most have a name of their own.  The first *)
(* word of the row of a failed unit is a mark (services/mod.rs:57), and    *)
(* nothing removes duplicates: a unit that fails is a row that goes and a  *)
(* marked one that comes, and all marked rows bear one name.               *)
(*                                                                         *)
(* The bytes of a file are told apart by their position and by the content *)
(* they are of.                                                            *)
(***************************************************************************)
EXTENDS Integers, Sequences, SequencesExt, FiniteSets

CONSTANTS
    Entry,      \* the entries that may be there, in the order of listing
    Marked,     \* those that are shown by the mark instead of a name
    Mark,
    Size,       \* the sizes a content may have
    Room,       \* bound: the most that fits one reply
    MaxEvents   \* bound on the entries that come, and go, and on new contents

ASSUME EntryAssumption == Entry \subseteq Nat \ {0}
ASSUME MarkAssumption == Marked \subseteq Entry /\ Mark \notin {-1, 0} \cup Entry
ASSUME SizeAssumption == Size \subseteq Nat \ {0}    \* a content ends in "\n"
ASSUME RoomAssumption == Room \in Nat \ {0}

VARIABLES
    target,     \* what is read, "dir" or "file"
    alive,      \* the entries of the directory
    sizes,      \* of the contents of the file so far, the present one last; 0: none
    offset,     \* where the kernel goes on
    got,        \* what it took
    outcome,    \* "reading", "end" by an empty reply, or "error"
    stayed,     \* history: the entries that were there all the time
    came, went  \* history: how many entries came and went before the end

history == <<stayed, came, went>>
streamVars == <<target, alive, sizes, offset, got, outcome, history>>

Dots == {-1, 0}
Name(n) == IF n \in Marked THEN Mark ELSE n
Listed == Dots \cup alive
Position(n) == Cardinality({m \in Listed : m <= n})
entries == [k \in 1 .. Cardinality(Listed) |-> CHOOSE n \in Listed : Position(n) = k]
content == [k \in 1 .. Last(sizes) |-> [at |-> k, of |-> Len(sizes)]]
whole == IF target = "dir" THEN entries ELSE content

StreamInit ==
    /\ \/ target = "dir" /\ alive \in SUBSET Entry /\ IsFiniteSet(alive) /\ sizes = <<0>>
       \/ target = "file" /\ alive = {} /\ \E n \in Size : sizes = <<n>>
    /\ offset = 0 /\ got = <<>> /\ outcome = "reading"
    /\ stayed = alive /\ came = 0 /\ went = 0

(* Variants of the slice with a bug each, none part of StreamSpec: one     *)
(* that forgets the last element, one that starts one too late.            *)
Slice_ForgetsLast(room) ==
    SubSeq(whole, offset + 1,
           IF offset + room < Len(whole) THEN offset + room ELSE Len(whole) - 1)
Slice_SkipsOne(room) ==
    SubSeq(whole, offset + 2, IF offset + room < Len(whole) THEN offset + room + 1 ELSE Len(whole))

(* entries.iter().enumerate().skip(offset), as many as fit, and            *)
(* content[offset .. min(offset + size, len)].                             *)
Slice(room) ==
    SubSeq(whole, offset + 1,
           IF offset + room <= Len(whole) THEN offset + room ELSE Len(whole))

(* Variants of the call below with a bug each, none part of StreamSpec: an *)
(* entry is given its own position as offset (with a bound on what is      *)
(* taken, as this reader goes on for ever); the entry that did not fit is  *)
(* counted as taken.                                                       *)
Call_OwnOffset(room) ==
    /\ outcome = "reading" /\ Len(got) <= Cardinality(Dots \cup Entry) + MaxEvents
    /\ got' = got \o Slice(room)
    /\ offset' = IF Slice(room) = <<>> THEN offset ELSE offset + Len(Slice(room)) - 1
    /\ outcome' = IF Slice(room) = <<>> THEN "end" ELSE "reading"
    /\ UNCHANGED <<target, alive, sizes, history>>

Call_CountsUnfit(room) ==
    /\ outcome = "reading"
    /\ got' = got \o Slice(room)
    /\ offset' = offset + Len(Slice(room)) + 1
    /\ outcome' = IF Slice(room) = <<>> THEN "end" ELSE "reading"
    /\ UNCHANGED <<target, alive, sizes, history>>

(* One readdir() or read().  The kernel goes on behind what it took: entry *)
(* i of a listing carries the offset i + 1.                                *)
Call(room) ==
    /\ outcome = "reading" /\ (target = "file" => Last(sizes) # 0)
    /\ got' = got \o Slice(room)
    /\ offset' = offset + Len(Slice(room))
    /\ outcome' = IF Slice(room) = <<>> THEN "end" ELSE "reading"
    /\ UNCHANGED <<target, alive, sizes, history>>

(* read() of what the handler has no answer for any more.                  *)
CallFails ==
    /\ outcome = "reading" /\ target = "file" /\ Last(sizes) = 0
    /\ outcome' = "error"
    /\ UNCHANGED <<target, alive, sizes, offset, got, history>>

Appear(n) ==
    /\ target = "dir" /\ outcome = "reading" /\ came < MaxEvents
    /\ n \notin alive /\ alive' = alive \cup {n}
    /\ came' = came + 1
    /\ UNCHANGED <<target, sizes, offset, got, outcome, stayed, went>>

Vanish(n) ==
    /\ target = "dir" /\ outcome = "reading" /\ went < MaxEvents
    /\ n \in alive /\ alive' = alive \ {n} /\ stayed' = stayed \ {n}
    /\ went' = went + 1
    /\ UNCHANGED <<target, sizes, offset, got, outcome, came>>

(* The process, container or metric changes; 0: it is gone.                *)
NewContent(n) ==
    /\ target = "file" /\ outcome = "reading" /\ Len(sizes) <= MaxEvents
    /\ sizes' = Append(sizes, n)
    /\ UNCHANGED <<target, alive, offset, got, outcome, history>>

StreamNext ==
    \/ \E room \in 1 .. Room : Call(room)
    \/ CallFails
    \/ \E n \in Entry : Appear(n)
    \/ \E n \in Entry : Vanish(n)
    \/ \E n \in Size \cup {0} : NewContent(n)

(* The reader goes on asking, and a call returns.                          *)
StreamSpec ==
    /\ StreamInit /\ [][StreamNext]_streamVars
    /\ WF_streamVars(CallFails \/ \E room \in 1 .. Room : Call(room))

-----------------------------------------------------------------------------
Taken == {got[k] : k \in DOMAIN got}
Names == {Name(n) : n \in Taken}
MoreMarks == IF Taken \cap Marked = {} THEN 0 ELSE Cardinality(Taken \cap Marked) - 1

(* A listing that ended misses at most as many of the entries that were    *)
(* there all the time as entries went meanwhile, none when none went.      *)
MissesAtMostTheGone ==
    target = "dir" /\ outcome = "end" => Cardinality((Dots \cup stayed) \ Taken) <= went

(* A listing shows at most as many names again as entries came meanwhile,  *)
(* and besides the mark once for each further failed unit it shows.        *)
RepeatsAtMostTheNew ==
    target = "dir" => Len(got) - Cardinality(Names) <= came + MoreMarks

(* Every byte that was read stands where it stood in the content it is of, *)
(* and no byte is of an older content than the one before it: contents may *)
(* be mixed where they change, but nothing is shifted, doubled or left out.*)
BytesInPlace ==
    target = "file" => \A k \in DOMAIN got :
        /\ got[k].at = k /\ k <= sizes[got[k].of]
        /\ \A j \in 1 .. k : got[j].of <= got[k].of

(* A reading that ended is nowhere cut short: it is no shorter than the    *)
(* content at its end, and that content itself when there was no other.    *)
(* A file that was gone at a call is not taken for one that ended.         *)
NotCutShort ==
    target = "file" /\ outcome = "end" =>
        /\ Last(sizes) # 0 /\ Len(got) >= Last(sizes)
        /\ Len(sizes) = 1 => got = content

(* The listing or reading ends, although every call looks at something     *)
(* new.                                                                    *)
StreamEnds == <>(outcome # "reading")
==============================================================================
