------------------------------- MODULE Session -------------------------------
(***************************************************************************)
(* The session threads of the obsfs processes of a machine, and who waits  *)
(* for whom.  fuser takes the requests of a mount one at a time from its   *)
(* queue (`&mut self` in crates/obsfs-fuse/src/fs.rs), and a handler may   *)
(* itself have to wait: for the Docker daemon, which is asked without a    *)
(* timeout (docker/mod.rs:51), or for statvfs() of a file system found at  *)
(* registration (procsys/fs.rs:97), which may by then be the mount of an   *)
(* obsfs process, the same or another.                                     *)
(***************************************************************************)
EXTENDS Naturals, Sequences, SequencesExt

CONSTANTS
    Server,     \* the obsfs processes
    Client,     \* the processes that use the mounts
    Point,      \* the mount points
    Hidden,     \* those is_real_filesystem() excludes by their path
    MaxMounts,  \* bound on the mounts made on each mount point
    None

ASSUME PartiesAssumption ==
    /\ Server \cap Client = {}
    /\ {"docker", "file", "statfs"} \cap (Server \cup Client \cup Point) = {}
    /\ None \notin Server \cup Client \cup Point \cup {"docker"}
ASSUME HiddenAssumption == Hidden \subseteq Point

VARIABLES
    phase,      \* "new", "registered", "serving", "unmounted", "stopping"
    known,      \* the mount points discover_filesystems() found
    stack,      \* the mounts on each point, the uppermost last; None is dead
    queue,      \* the requests a session thread has not taken
    current,    \* the request it has taken, or None
    asks,       \* whom a client or server waits for: a server or "docker"
    silent,     \* the Docker daemon accepts requests and does not answer
    mounted     \* history: how often each point was mounted on

vars == <<phase, known, stack, queue, current, asks, silent, mounted>>
mounts == <<phase, known, stack, mounted>>

(* What is asked of a server: a file whose content takes no waiting, a     *)
(* container, the metrics of a mount point, or, by the kernel, statfs.     *)
Op == {"file", "docker", "statfs"} \cup Point
Party == Client \cup Server
Request == [from : Party, op : Op]
Top(p) == IF stack[p] = <<>> THEN None ELSE Last(stack[p])
Serves(t, r) == current[t] # None /\ current[t].from = r
InUse(s) == \E r \in Party : asks[r] = s

(* What is left of the mounts on `p`, and of a queue, when `s` has ended.  *)
Released(s, p) ==
    IF Top(p) = s /\ ~InUse(s) THEN Front(stack[p])
    ELSE [k \in DOMAIN stack[p] |-> IF stack[p][k] = s THEN None ELSE stack[p][k]]
Without(q, s) ==
    IF \E k \in DOMAIN q : q[k].from = s
    THEN RemoveAt(q, CHOOSE k \in DOMAIN q : q[k].from = s)
    ELSE q

-----------------------------------------------------------------------------
Init ==
    /\ phase = [s \in Server |-> "new"] /\ known = [s \in Server |-> {}]
    /\ stack = [p \in Point |-> <<>>] /\ mounted = [p \in Point |-> 0]
    /\ queue = [s \in Server |-> <<>>] /\ current = [s \in Server |-> None]
    /\ asks = [r \in Party |-> None]
    /\ silent = FALSE

(* register() of the procsys plugin, once and for all.                     *)
Discovered == {p \in Point \ Hidden : stack[p] # <<>>}
Register(s) ==
    /\ phase[s] = "new"
    /\ phase' = [phase EXCEPT ![s] = "registered"]
    /\ known' = [known EXCEPT ![s] = Discovered]
    /\ UNCHANGED <<stack, queue, current, asks, silent, mounted>>

(* A server that looks for file systems when it has mounted its own (a     *)
(* bug, not part of Spec).                                                 *)
Mount_Discovers(s, p) ==
    /\ phase[s] = "registered" /\ mounted[p] < MaxMounts[p]
    /\ phase' = [phase EXCEPT ![s] = "serving"]
    /\ known' = [known EXCEPT ![s] = Discovered \cup {p}]
    /\ stack' = [stack EXCEPT ![p] = Append(@, s)]
    /\ mounted' = [mounted EXCEPT ![p] = @ + 1]
    /\ UNCHANGED <<queue, current, asks, silent>>

(* spawn_mount2(): on top of whatever is mounted there.                    *)
Mount(s, p) ==
    /\ phase[s] = "registered" /\ mounted[p] < MaxMounts[p]
    /\ phase' = [phase EXCEPT ![s] = "serving"]
    /\ stack' = [stack EXCEPT ![p] = Append(@, s)]
    /\ mounted' = [mounted EXCEPT ![p] = @ + 1]
    /\ UNCHANGED <<known, queue, current, asks, silent>>

(* `r` asks the server `s` and waits.                                      *)
Ask(r, s, op) ==
    /\ queue' = [queue EXCEPT ![s] = Append(@, [from |-> r, op |-> op])]
    /\ asks' = [asks EXCEPT ![r] = s]

Call(c, p, op) ==
    /\ asks[c] = None /\ Top(p) # None
    /\ op \in {"file", "docker"} \cup known[Top(p)]
    /\ Ask(c, Top(p), op)
    /\ UNCHANGED <<mounts, current, silent>>

(* Variants of the steps below with a bug each, neither part of Spec: the  *)
(* newest request first; a stop that joins the session thread.             *)
Take_Newest(s) ==
    /\ current[s] = None /\ queue[s] # <<>>
    /\ LET req == Last(queue[s])
       IN  /\ current' = [current EXCEPT ![s] = req]
           /\ IF req.op \in Point /\ Top(req.op) # None
              THEN LET t == Top(req.op) IN
                   /\ queue' = [[queue EXCEPT ![s] = Front(@)] EXCEPT
                                    ![t] = Append(@, [from |-> s, op |-> "statfs"])]
                   /\ asks' = [asks EXCEPT ![s] = t]
              ELSE /\ queue' = [queue EXCEPT ![s] = Front(@)]
                   /\ asks' = [asks EXCEPT ![s] = IF req.op = "docker" THEN "docker" ELSE None]
    /\ UNCHANGED <<mounts, silent>>

Exit_Joins(s) ==
    /\ phase[s] = "stopping" /\ current[s] = None
    /\ phase' = [phase EXCEPT ![s] = "new"] /\ known' = [known EXCEPT ![s] = {}]
    /\ stack' = [p \in Point |-> Released(s, p)]
    /\ asks' = [r \in Party |-> IF asks[r] = s \/ r = s THEN None ELSE asks[r]]
    /\ queue' = [t \in Server |-> IF t = s THEN <<>> ELSE Without(queue[t], s)]
    /\ current' = [t \in Server |-> IF t = s \/ Serves(t, s) THEN None ELSE current[t]]
    /\ UNCHANGED <<silent, mounted>>

(* The session thread takes the oldest request.  It waits for the answer   *)
(* to it in a read() of the socket, or in a statvfs() that the kernel      *)
(* turns into a request to the uppermost mount; on a point with no mount   *)
(* of ours, or a dead one, statvfs() returns at once.                      *)
Take(s) ==
    /\ current[s] = None /\ queue[s] # <<>>
    /\ LET req == Head(queue[s])
       IN  /\ current' = [current EXCEPT ![s] = req]
           /\ IF req.op \in Point /\ Top(req.op) # None
              THEN LET t == Top(req.op) IN
                   /\ queue' = [[queue EXCEPT ![s] = Tail(@)] EXCEPT
                                    ![t] = Append(@, [from |-> s, op |-> "statfs"])]
                   /\ asks' = [asks EXCEPT ![s] = t]
              ELSE /\ queue' = [queue EXCEPT ![s] = Tail(@)]
                   /\ asks' = [asks EXCEPT ![s] = IF req.op = "docker" THEN "docker" ELSE None]
    /\ UNCHANGED <<mounts, silent>>

Reply(s) ==
    /\ current[s] # None /\ asks[s] = None
    /\ asks' = [asks EXCEPT ![current[s].from] = None]
    /\ current' = [current EXCEPT ![s] = None]
    /\ UNCHANGED <<mounts, queue, silent>>

-----------------------------------------------------------------------------
(* The Docker daemon answers, falls silent, or is restarted, which closes  *)
(* its connections and so ends the read().                                 *)
DockerAnswers(s) ==
    /\ asks[s] = "docker" /\ ~silent
    /\ asks' = [asks EXCEPT ![s] = None]
    /\ UNCHANGED <<mounts, queue, current, silent>>

DockerHangs ==
    /\ ~silent /\ silent' = TRUE
    /\ UNCHANGED <<mounts, queue, current, asks>>

DockerRestarts ==
    /\ silent /\ silent' = FALSE
    /\ asks' = [r \in Party |-> IF asks[r] = "docker" THEN None ELSE asks[r]]
    /\ UNCHANGED <<mounts, queue, current>>

(* `obsfs unmount` of another process takes the uppermost mount away,      *)
(* unless it is in use.  The session thread ends; the process stays, as    *)
(* its main loop watches only the flag (main.rs:482).                      *)
Unmount(p) ==
    /\ stack[p] # <<>>
    /\ LET s == Top(p)
       IN  IF s = None THEN UNCHANGED phase
           ELSE /\ ~InUse(s)
                /\ phase' = [phase EXCEPT ![s] = IF @ = "serving" THEN "unmounted" ELSE @]
    /\ stack' = [stack EXCEPT ![p] = Front(@)]
    /\ UNCHANGED <<known, queue, current, asks, silent, mounted>>

(* A handled signal clears the flag.                                       *)
Signal(s) ==
    /\ phase[s] \in {"serving", "unmounted"}
    /\ phase' = [phase EXCEPT ![s] = "stopping"]
    /\ UNCHANGED <<known, stack, queue, current, asks, silent, mounted>>

(* drop(session) and the end of the process: its mount is taken away, or   *)
(* stays dead when it is in use or another is above it; who waits for it   *)
(* gets an error; what it had asked for itself is withdrawn or, when it    *)
(* was taken, answered, as a statfs always is.  The session thread is not  *)
(* joined.  The process may be started again.                              *)
Exit(s) ==
    /\ phase[s] = "stopping"
    /\ phase' = [phase EXCEPT ![s] = "new"] /\ known' = [known EXCEPT ![s] = {}]
    /\ stack' = [p \in Point |-> Released(s, p)]
    /\ asks' = [r \in Party |-> IF asks[r] = s \/ r = s THEN None ELSE asks[r]]
    /\ queue' = [t \in Server |-> IF t = s THEN <<>> ELSE Without(queue[t], s)]
    /\ current' = [t \in Server |-> IF t = s \/ Serves(t, s) THEN None ELSE current[t]]
    /\ UNCHANGED <<silent, mounted>>

Next ==
    \/ \E s \in Server : Register(s)
    \/ \E s \in Server, p \in Point : Mount(s, p)
    \/ \E c \in Client, p \in Point, op \in Op : Call(c, p, op)
    \/ \E s \in Server : Take(s)
    \/ \E s \in Server : Reply(s)
    \/ \E s \in Server : DockerAnswers(s)
    \/ DockerHangs
    \/ DockerRestarts
    \/ \E p \in Point : Unmount(p)
    \/ \E s \in Server : Signal(s)
    \/ \E s \in Server : Exit(s)

(* Session threads and main threads run, and a daemon that is not silent   *)
(* answers.  Nothing else is assumed.                                      *)
Serve(s) == Take(s) \/ Reply(s) \/ DockerAnswers(s)
Spec ==
    /\ Init /\ [][Next]_vars
    /\ \A s \in Server : WF_vars(Serve(s)) /\ WF_vars(Exit(s))

-----------------------------------------------------------------------------
(* As long as no mount point is mounted on a second time, no session       *)
(* threads wait for each other in a circle, nor one for itself: each knows *)
(* only what was mounted before it registered.                             *)
Circle(S) == S # {} /\ \A s \in S : asks[s] \in S
NoCircularWait ==
    (\A p \in Point : mounted[p] <= 1) => \A S \in SUBSET Server : ~Circle(S)

(* A client waits for ever only for a server that is, over others or not,  *)
(* stuck in a circle or with a Docker daemon that does not answer: no      *)
(* request is overtaken for ever, forgotten, or left behind by a server    *)
(* that is unmounted or stopped.                                           *)
Stuck(r) ==
    \E S \in SUBSET Server :
        /\ asks[r] \in S \cup (IF silent THEN {"docker"} ELSE {})
        /\ \A s \in S : asks[s] \in S \cup (IF silent THEN {"docker"} ELSE {})
OnlyTheStuckWait == \A c \in Client : []<>(asks[c] = None \/ Stuck(c))

(* A stuck server can always be stopped, and that frees who waits for it:  *)
(* the main thread, which handles the signals, is not the session thread.  *)
StopFrees ==
    \A s \in Server : (phase[s] = "stopping") ~> (\A c \in Client : asks[c] # s)
==============================================================================
