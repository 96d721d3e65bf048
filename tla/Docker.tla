------------------------------- MODULE Docker -------------------------------
(***************************************************************************)
(* /obs/docker/<container> (crates/obsfs-plugins/src/docker/mod.rs).  The  *)
(* handler asks the Docker daemon several times for one answer: to resolve *)
(* the identifier, then to inspect the container, then for its stats.  In  *)
(* between, containers are started, removed and renamed, and the daemon    *)
(* may stop answering.                                                     *)
(*                                                                         *)
(* A short ID of 12 hexadecimal digits is the identity of a container.     *)
(***************************************************************************)
EXTENDS Naturals, Sequences

CONSTANTS
    Id,        \* short IDs, each used once
    ContainerName,
    LooksLikeId,   \* the names made of 12 hexadecimal digits
    Limit,     \* limit=100 in the request for the list
    None

ASSUME LimitAssumption == Limit \in Nat
ASSUME NameAssumption ==
    /\ LooksLikeId \subseteq ContainerName /\ Id \cap ContainerName = {}
    /\ \A i \in Id : <<i>> \notin Id \cup ContainerName
    /\ None \notin Id \cup ContainerName

VARIABLES
    containers, \* there are: [id, name], the newest first as the daemon lists them
    used,       \* the IDs given so far
    up,         \* the daemon answers
    pc,         \* "idle", or the next request: "direct", "list", "inspect", "stats"
    call,       \* the call: [op |-> "exists" or "read", arg |-> identifier]
    resolved,   \* the resolved_id
    info,       \* the container the inspected data is of
    answer,     \* of the last call: found, and the containers of info and stats
    bore,       \* history: the containers the argument denoted since the call
    steady      \* history: those that could be found by it all the time

seen == <<bore, steady>>
vars == <<containers, used, up, pc, call, resolved, info, answer, seen>>
world == <<containers, used, up>>

FullId(i) == <<i>>    \* the 64 digits of which `i` is the first 12
Identifier == Id \cup ContainerName \cup {FullId(i) : i \in Id}
All == {containers[k] : k \in DOMAIN containers}
NoAnswer == [found |-> FALSE, info |-> None, stats |-> None]

(* How the daemon finds a container: by name, else by ID, short or full.   *)
Daemon(x) ==
    IF ~up THEN None
    ELSE IF \E c \in All : c.name = x THEN (CHOOSE c \in All : c.name = x).id
    ELSE IF \E c \in All : x \in {c.id, FullId(c.id)}
         THEN (CHOOSE c \in All : x \in {c.id, FullId(c.id)}).id
    ELSE None

(* Newest first and cut at the limit.                                      *)
list_containers(C) == SubSeq(C, 1, IF Len(C) <= Limit THEN Len(C) ELSE Limit)

list_entries(C) ==
    {list_containers(C)[k].id : k \in DOMAIN list_containers(C)}
        \cup {list_containers(C)[k].name : k \in DOMAIN list_containers(C)}

(* Searches with a bug each, none part of Spec: one that falls back on the *)
(* newest container, one that compares with the IDs only.                  *)
Search_OrNewest(x) ==
    LET list == list_containers(containers)
        Match(k) == list[k].id = x \/ list[k].name = x
    IN  IF list = <<>> THEN None
        ELSE IF \E k \in DOMAIN list : Match(k)
        THEN list[CHOOSE k \in DOMAIN list : Match(k)].id
        ELSE list[1].id

Search_ByIdOnly(x) ==
    LET list == list_containers(containers)
    IN  IF \E k \in DOMAIN list : list[k].id = x THEN x ELSE None

(* The search in the list: the first container whose ID is x, which stays  *)
(* x, or that bears the name x, which becomes its ID.                      *)
Search(x) ==
    LET list == list_containers(containers)
        Match(k) == list[k].id = x \/ list[k].name = x
        First(k) == Match(k) /\ \A j \in 1 .. k - 1 : ~Match(j)
    IN  IF \E k \in DOMAIN list : Match(k)
        THEN list[CHOOSE k \in DOMAIN list : First(k)].id
        ELSE None

(* For the history: what x denotes among the containers C, and what of it  *)
(* a call can find, directly or in the list.                                *)
Denoted(C, x) == {C[k].id : k \in {j \in DOMAIN C : C[j].id = x \/ C[j].name = x}}
Findable(C, x, isUp) ==
    IF ~isUp THEN {} ELSE IF x \in Id \cup LooksLikeId \cup list_entries(C) THEN Denoted(C, x) ELSE {}

-----------------------------------------------------------------------------
Init ==
    /\ containers = <<>> /\ used = {} /\ up \in BOOLEAN
    /\ pc = "idle" /\ call = [op |-> "exists", arg |-> None]
    /\ resolved = None /\ info = None /\ answer = NoAnswer /\ bore = {} /\ steady = {}

(* exists() or read() of a name the kernel asks about.                     *)
Call(op, x) ==
    /\ pc = "idle"
    /\ call' = [op |-> op, arg |-> x]
    /\ pc' = IF x \in Id \cup LooksLikeId THEN "direct" ELSE "list"
    /\ resolved' = None /\ info' = None /\ answer' = NoAnswer
    /\ bore' = Denoted(containers, x) /\ steady' = Findable(containers, x, up)
    /\ UNCHANGED world

Return(a) == pc' = "idle" /\ answer' = a

(* resolve_container_id() has the ID.                                      *)
Resolved(x) ==
    /\ resolved' = x
    /\ IF call.op = "exists"
       THEN Return([NoAnswer EXCEPT !.found = TRUE])
       ELSE pc' = "inspect" /\ UNCHANGED answer

Direct ==
    /\ pc = "direct"
    /\ IF Daemon(call.arg) # None
       THEN Resolved(call.arg)
       ELSE pc' = "list" /\ UNCHANGED <<resolved, answer>>
    /\ UNCHANGED <<world, call, info, seen>>

List ==
    /\ pc = "list"
    /\ IF up /\ Search(call.arg) # None
       THEN Resolved(Search(call.arg))
       ELSE Return(NoAnswer) /\ UNCHANGED resolved
    /\ UNCHANGED <<world, call, info, seen>>

(* A variant of get_full_info() with a bug, not part of Spec: the stats    *)
(* are asked for by the identifier, not by the ID.                         *)
Stats_ByArgument ==
    /\ pc = "stats"
    /\ Return([found |-> TRUE, info |-> info, stats |-> Daemon(call.arg)])
    /\ UNCHANGED <<world, call, resolved, info, seen>>

Inspect ==
    /\ pc = "inspect"
    /\ IF Daemon(resolved) # None
       THEN info' = Daemon(resolved) /\ pc' = "stats" /\ UNCHANGED answer
       ELSE Return(NoAnswer) /\ UNCHANGED info
    /\ UNCHANGED <<world, call, resolved, seen>>

(* Stats that cannot be had are left out of the answer.                    *)
Stats ==
    /\ pc = "stats"
    /\ Return([found |-> TRUE, info |-> info, stats |-> Daemon(resolved)])
    /\ UNCHANGED <<world, call, resolved, info, seen>>

-----------------------------------------------------------------------------
Handler == <<pc, call, resolved, info, answer>>
Remember ==
    /\ bore' = IF pc = "idle" THEN bore ELSE bore \cup Denoted(containers', call.arg)
    /\ steady' = IF pc = "idle" THEN steady ELSE steady \cap Findable(containers', call.arg, up')

Start(i, n) ==
    /\ i \notin used /\ \A c \in All : c.name # n
    /\ containers' = <<[id |-> i, name |-> n]>> \o containers /\ used' = used \cup {i}
    /\ UNCHANGED <<up, Handler>> /\ Remember

Remove(k) ==
    /\ containers' = SubSeq(containers, 1, k - 1) \o SubSeq(containers, k + 1, Len(containers))
    /\ UNCHANGED <<used, up, Handler>> /\ Remember

Rename(k, n) ==
    /\ \A c \in All : c.name # n
    /\ containers' = [containers EXCEPT ![k].name = n]
    /\ UNCHANGED <<used, up, Handler>> /\ Remember

UpDown ==
    /\ up' = ~up
    /\ UNCHANGED <<containers, used, Handler>> /\ Remember

Next ==
    \/ \E op \in {"exists", "read"}, x \in Identifier : Call(op, x)
    \/ Direct \/ List \/ Inspect \/ Stats
    \/ \E i \in Id, n \in ContainerName : Start(i, n)
    \/ \E k \in DOMAIN containers : Remove(k)
    \/ \E k \in DOMAIN containers, n \in ContainerName : Rename(k, n)
    \/ UpDown

Spec == Init /\ [][Next]_vars

-----------------------------------------------------------------------------
(* The answer never joins the data of one container with the stats of      *)
(* another, although each request is resolved by the daemon anew and names *)
(* pass from one container to another in between.  A name that is made of  *)
(* 12 hexadecimal digits is the exception: it is taken for an ID, stays    *)
(* the `resolved_id` (docker/mod.rs:200), and so is resolved anew.         *)
OneContainer ==
    answer.stats # None => answer.info = answer.stats \/ call.arg \in LooksLikeId

(* The container described had the name, or the ID, that was asked for at  *)
(* some time during the call.                                              *)
RightContainer == answer.info # None => answer.info \in bore

(* A container that had the name or ID during the whole call, and was in   *)
(* the list if it is asked for by name, is found, unless the daemon failed *)
(* to answer: nothing of what happens to other containers hides it.        *)
NoFalseAbsence == pc = "idle" /\ steady # {} => answer.found
================================================================================
