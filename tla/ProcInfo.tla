------------------------------ MODULE ProcInfo ------------------------------
(***************************************************************************)
(* /obs/proc/<pid> (crates/obsfs-plugins/src/proc_info/mod.rs): one read() *)
(* tests the directory of the process and then opens its files one after   *)
(* the other, while processes start and exit and the kernel may give the   *)
(* number of one that is gone to another.  A file that cannot be read      *)
(* leaves its fields at their defaults, and the answer is given all the    *)
(* same.                                                                   *)
(***************************************************************************)
EXTENDS Naturals, Sequences

CONSTANTS
    Pid,       \* process numbers
    Source,    \* the files of a process, a sequence in the order of reading
    Guarded,   \* those the kernel may refuse to a reader, by their name
    MaxBorn,   \* bound on the processes that ever start
    NoPid

ASSUME PidAssumption == NoPid \notin Pid
ASSUME SourceAssumption == Source \in Seq(STRING) /\ Guarded \subseteq STRING

VARIABLES
    process,   \* the process that has the number: 1, 2, ...; 0 for none
    born,      \* how many processes have started
    pid,       \* the number read() is working on, or NoPid
    fields,    \* per file read so far, the process it came from; 0: not read
    description, \* the fields of the last answer; <<>> for None, or none yet
    had        \* history: the processes that had `pid` since read() was called

procVars == <<process, born, pid, fields, description, had>>
idle == pid = NoPid

ProcInit ==
    /\ process = [p \in Pid |-> 0] /\ born = 0
    /\ pid = NoPid /\ fields = <<>> /\ description = <<>> /\ had = {}

exists(p) == process[p] # 0

(* Variants with a bug each, none part of ProcSpec: collect_for_pid()      *)
(* without the test at its start; fields of an earlier call not reset.     *)
Read_Untested(p) ==
    /\ idle
    /\ pid' = p /\ fields' = <<>> /\ had' = {process[p]} \ {0} /\ description' = <<>>
    /\ UNCHANGED <<process, born>>

Read_KeepsInfo(p) ==
    /\ idle
    /\ description' = <<>>
    /\ IF exists(p)
       THEN /\ pid' = p /\ had' = {process[p]}
            /\ fields' = IF description = <<>> THEN <<>> ELSE <<description[1]>>
       ELSE UNCHANGED <<pid, fields, had>>
    /\ UNCHANGED <<process, born>>

(* read() of a number: None when there is no such process.                 *)
Read(p) ==
    /\ idle
    /\ description' = <<>>
    /\ IF exists(p)
       THEN pid' = p /\ fields' = <<>> /\ had' = {process[p]}
       ELSE UNCHANGED <<pid, fields, had>>
    /\ UNCHANGED <<process, born>>

(* The next file: of the process that has the number now, if any.          *)
ReadSource ==
    /\ ~idle /\ Len(fields) < Len(Source)
    /\ \/ fields' = Append(fields, process[pid])
       \/ Source[Len(fields) + 1] \in Guarded /\ fields' = Append(fields, 0)
    /\ UNCHANGED <<process, born, pid, description, had>>

Reply ==
    /\ ~idle /\ Len(fields) = Len(Source)
    /\ description' = fields /\ pid' = NoPid /\ fields' = <<>>
    /\ UNCHANGED <<process, born, had>>

StartProcess(p) ==
    /\ process[p] = 0 /\ born < MaxBorn
    /\ born' = born + 1
    /\ process' = [process EXCEPT ![p] = born + 1]
    /\ had' = IF p = pid THEN had \cup {born + 1} ELSE had
    /\ UNCHANGED <<pid, fields, description>>

Exit(p) ==
    /\ process[p] # 0
    /\ process' = [process EXCEPT ![p] = 0]
    /\ UNCHANGED <<born, pid, fields, description, had>>

ProcNext ==
    \/ \E p \in Pid : Read(p)
    \/ ReadSource
    \/ Reply
    \/ \E p \in Pid : StartProcess(p)
    \/ \E p \in Pid : Exit(p)

ProcSpec == ProcInit /\ [][ProcNext]_procVars

-----------------------------------------------------------------------------
Processes(seq) == {seq[k] : k \in DOMAIN seq} \ {0}

(* Whatever is answered was read from processes that had the number during *)
(* the call, and there was at least one: a number nobody had all the while *)
(* is never described.                                                     *)
OnlyOfThisNumber ==
    /\ Processes(fields) \cup Processes(description) \subseteq had
    /\ description # <<>> \/ ~idle => had # {}

(* Fields of two processes are mixed, or an unguarded field is missing and *)
(* a later one present, only when the number changed hands during the call. *)
NoHolesInOneLife ==
    had \in {{n} : n \in 1 .. MaxBorn} =>
        \A j, k \in DOMAIN description :
            j < k /\ description[k] # 0 /\ Source[j] \notin Guarded =>
                description[j] = description[k]
=============================================================================
