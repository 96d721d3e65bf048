-------------------------------- MODULE Mount --------------------------------
(***************************************************************************)
(* `obsfs mount` (cmd_mount in crates/obsfs-cli/src/main.rs): from the     *)
(* command line to the mounted file system and out again, against signals  *)
(* and against an `obsfs unmount` by another process.                      *)
(*                                                                         *)
(* The main thread is `pc`.  A fork() keeps the thread that calls it and   *)
(* no other; daemon() also makes "/" the current directory.                *)
(***************************************************************************)
EXTENDS Tree

CONSTANTS
    Component,  \* names of directory entries
    Plugins,    \* the plugins in their order: [name, metrics, prefixes]
    Sampled,    \* the metric whose provider starts the sampling thread
    MetaPath,   \* _meta/plugins
    Here,       \* the mount point, as the current directory has it at start
    InRoot,     \* what a relative mount point means once "/" is current
    None

VARIABLES
    pc,         \* where the main thread is, or how the process ended
    args,       \* --daemon, a log file configured, a relative mount point
    self,       \* the process the main thread belongs to: 1, 2 after the fork
    slash,      \* "/" is the current directory
    dirs,       \* the directories there are
    plugin,     \* the plugin being registered, by position
    metric,     \* its metric to insert next
    tree,       \* the registry
    status,     \* plugin_statuses
    handlers,   \* dynamic_handlers: prefix -> the plugin whose handler serves it
    threads,    \* helper threads of this process
    pidfile,    \* what /var/run/obsfs.pid says
    mount,      \* where the file system is mounted
    session,    \* a session thread serves the mount
    busy,       \* some process has a file open or its current directory there
    installed,  \* the signals with a handler
    running,    \* the flag the handlers clear
    asked,      \* history: a handler ran
    checked     \* history: the directory the mount point was checked to be

start == <<args, self, slash, dirs, checked>>
plugs == <<plugin, metric, tree, status, handlers>>
served == <<mount, session, busy>>
signals == <<installed, running, asked>>
vars == <<pc, start, plugs, threads, pidfile, served, signals>>

ended == pc \in {"done", "failed", "killed"}
Place(atSlash) == IF args.relative /\ atSlash THEN InRoot ELSE Here
Name(k) == Plugins[k].name
Metrics(k) == Plugins[k].metrics

(* What the plugins of the repository keep to: no path is registered at or *)
(* above the path of an earlier metric, except the same path by the same   *)
(* plugin; a provider is not a directory.                                  *)
MetricPath == Seq(Component) \ {<<>>}
ASSUME PluginsAssumption ==
    /\ Len(Plugins) \in Nat /\ DOMAIN Plugins = 1 .. Len(Plugins)
    /\ \A k \in DOMAIN Plugins : Metrics(k) \in Seq(MetricPath) /\ Name(k) # Dir
ASSUME MetaAssumption == MetaPath \in MetricPath /\ MetaPath # Sampled /\ "status" # Dir
ASSUME OrderAssumption ==
    \A j \in DOMAIN Plugins : \A m \in DOMAIN Metrics(j) :
        /\ ~Below(MetaPath, Metrics(j)[m])
        /\ \A n \in DOMAIN Metrics(j) :
              m < n /\ Below(Metrics(j)[n], Metrics(j)[m]) => Metrics(j)[n] = Metrics(j)[m]
        /\ \A k \in DOMAIN Plugins : \A n \in DOMAIN Metrics(k) :
              j < k => ~Below(Metrics(k)[n], Metrics(j)[m])

Prefixes == UNION {Plugins[k].prefixes : k \in DOMAIN Plugins}
Owner(q) == CHOOSE k \in DOMAIN Plugins :    \* the last to insert the prefix
    /\ q \in Plugins[k].prefixes
    /\ \A j \in DOMAIN Plugins : q \in Plugins[j].prefixes => j <= k

-----------------------------------------------------------------------------
(* Variants of the steps below with a bug each, none part of Spec: a       *)
(* register() that ignores errors; a daemon without --daemon; a session    *)
(* that is never dropped; a SIGTERM handler that does nothing.             *)
InsertMetric_Ignores ==
    /\ pc = "register" /\ plugin \in DOMAIN Plugins /\ metric \in DOMAIN Metrics(plugin)
    /\ LET p == Metrics(plugin)[metric]
       IN  /\ threads' = IF p = Sampled THEN threads \cup {"sampler"} ELSE threads
           /\ tree' = IF CanInsert(tree, p) THEN InsertInto(tree, p, Name(plugin)) ELSE tree
           /\ metric' = metric + 1
    /\ UNCHANGED <<pc, start, plugin, status, handlers, pidfile, served, signals>>

RegisterHandlers_AlwaysDaemon ==
    /\ pc = "register" /\ plugin = Len(Plugins) + 1
    /\ tree' = IF CanInsert(tree, MetaPath) THEN InsertInto(tree, MetaPath, "status") ELSE tree
    /\ handlers' = [q \in Prefixes |-> Owner(q)]
    /\ pc' = "pidfile"
    /\ UNCHANGED <<start, plugin, metric, status, threads, pidfile, served, signals>>

Stop_Forgets ==
    /\ pc = "serve" /\ ~running
    /\ pc' = "done"
    /\ UNCHANGED <<start, plugs, threads, pidfile, served, signals>>

Signal_TermLost(sig) ==
    /\ ~ended
    /\ IF sig \in installed
       THEN /\ running' = (running /\ sig # "INT") /\ asked' = TRUE
            /\ UNCHANGED <<pc, threads, session>>
       ELSE /\ pc' = "killed" /\ threads' = {} /\ session' = FALSE
            /\ UNCHANGED <<running, asked>>
    /\ UNCHANGED <<start, plugs, pidfile, mount, busy, installed>>

-----------------------------------------------------------------------------
Init ==
    /\ pc = "config"
    /\ args \in [daemon : BOOLEAN, log_file : BOOLEAN, relative : BOOLEAN]
    /\ self = 1 /\ slash = FALSE
    /\ dirs \in SUBSET {Here, InRoot}
    /\ plugin = 1 /\ metric = 1
    /\ tree = EmptyTree
    /\ status = [k \in DOMAIN Plugins |-> "none"]
    /\ handlers = [q \in {} |-> 0]
    /\ threads = IF args.log_file THEN {"logger"} ELSE {}
    /\ pidfile = None
    /\ mount = None /\ session = FALSE /\ busy = FALSE
    /\ installed = {} /\ running = TRUE /\ asked = FALSE
    /\ checked = None

(* The configuration does not load or validate; the user declines to       *)
(* create the mount point; it is not a directory; fork() or the mount fails. *)
Bail ==
    /\ pc \in {"config", "path", "daemonize", "spawn_mount2"}
    /\ pc' = "failed"
    /\ UNCHANGED <<start, plugs, threads, pidfile, served, signals>>

LoadConfig ==
    /\ pc = "config" /\ pc' = "path"
    /\ UNCHANGED <<start, plugs, threads, pidfile, served, signals>>

(* The mount point exists, or is created when the user agrees.             *)
CheckPath ==
    /\ pc = "path" /\ pc' = "register"
    /\ dirs' = dirs \cup {Place(slash)}
    /\ checked' = Place(slash)
    /\ UNCHANGED <<args, self, slash, plugs, threads, pidfile, served, signals>>

(* register() of the current plugin, one insert_provider() at a time; the  *)
(* provider is constructed, and its thread started, before it is inserted. *)
InsertMetric ==
    /\ pc = "register" /\ plugin \in DOMAIN Plugins /\ metric \in DOMAIN Metrics(plugin)
    /\ LET p == Metrics(plugin)[metric]
       IN  /\ threads' = IF p = Sampled THEN threads \cup {"sampler"} ELSE threads
           /\ IF CanInsert(tree, p)
              THEN /\ tree' = InsertInto(tree, p, Name(plugin))
                   /\ metric' = metric + 1
                   /\ UNCHANGED <<plugin, status>>
              ELSE /\ status' = [status EXCEPT ![plugin] = "failed"]
                   /\ plugin' = plugin + 1 /\ metric' = 1
                   /\ UNCHANGED tree
    /\ UNCHANGED <<pc, start, handlers, pidfile, served, signals>>

Registered ==
    /\ pc = "register" /\ plugin \in DOMAIN Plugins /\ metric = Len(Metrics(plugin)) + 1
    /\ status' = [status EXCEPT ![plugin] = "ok"]
    /\ plugin' = plugin + 1 /\ metric' = 1
    /\ UNCHANGED <<pc, start, tree, handlers, threads, pidfile, served, signals>>

(* The status provider, whose failure is only logged, and the handlers of  *)
(* all plugins.                                                            *)
RegisterHandlers ==
    /\ pc = "register" /\ plugin = Len(Plugins) + 1
    /\ tree' = IF CanInsert(tree, MetaPath) THEN InsertInto(tree, MetaPath, "status") ELSE tree
    /\ handlers' = [q \in Prefixes |-> Owner(q)]
    /\ pc' = IF args.daemon THEN "pidfile" ELSE "spawn_mount2"
    /\ UNCHANGED <<start, plugin, metric, status, threads, pidfile, served, signals>>

WritePidFile ==
    /\ pc = "pidfile" /\ pc' = "daemonize"
    /\ pidfile' \in {self, pidfile}    \* a failure to write is only a warning
    /\ UNCHANGED <<start, plugs, threads, served, signals>>

Daemonize ==
    /\ pc = "daemonize" /\ pc' = "spawn_mount2"
    /\ self' = 2 /\ slash' = TRUE
    /\ threads' = {}
    /\ UNCHANGED <<args, dirs, checked, plugs, pidfile, served, signals>>

SpawnMount ==
    /\ pc = "spawn_mount2" /\ pc' = "sigint"
    /\ Place(slash) \in dirs
    /\ mount' = Place(slash) /\ session' = TRUE
    /\ UNCHANGED <<busy, start, plugs, threads, pidfile, signals>>

(* The drop of fuser's BackgroundSession unmounts.  That fails on a mount  *)
(* in use, and nobody is told: the mount stays, and nothing serves it.     *)
DropSession ==
    /\ session' = FALSE
    /\ \/ mount' = None /\ busy' = FALSE
       \/ busy /\ UNCHANGED <<mount, busy>>

(* signal_hook::low_level::register(); on an error `?` drops the session.  *)
Install(at, sig, then) ==
    /\ pc = at
    /\ \/ /\ installed' = installed \cup {sig} /\ pc' = then
          /\ UNCHANGED served
       \/ /\ pc' = "failed" /\ DropSession
          /\ UNCHANGED installed
    /\ UNCHANGED <<start, plugs, threads, pidfile, running, asked>>

InstallInt == Install("sigint", "INT", "sigterm")
InstallTerm == Install("sigterm", "TERM", "serve")

(* The loop ends on the flag alone; then comes drop(session).              *)
Stop ==
    /\ pc = "serve" /\ ~running
    /\ pc' = "done" /\ DropSession
    /\ UNCHANGED <<start, plugs, threads, pidfile, signals>>

Main ==
    \/ Bail \/ LoadConfig \/ CheckPath \/ InsertMetric \/ Registered \/ RegisterHandlers
    \/ WritePidFile \/ Daemonize \/ SpawnMount \/ InstallInt \/ InstallTerm \/ Stop

(* A signal reaches the process: its handler clears the flag; without one  *)
(* the process dies where it is, and the kernel keeps the mount.           *)
Signal(sig) ==
    /\ ~ended
    /\ IF sig \in installed
       THEN /\ running' = FALSE /\ asked' = TRUE
            /\ UNCHANGED <<pc, threads, session>>
       ELSE /\ pc' = "killed" /\ threads' = {} /\ session' = FALSE
            /\ UNCHANGED <<running, asked>>
    /\ UNCHANGED <<start, plugs, pidfile, mount, busy, installed>>

(* cmd_unmount() of another process: fusermount, else umount, takes the    *)
(* mount away unless it is in use, and the session thread ends.            *)
Unmount ==
    /\ mount # None /\ ~busy
    /\ mount' = None /\ session' = FALSE
    /\ UNCHANGED <<pc, busy, start, plugs, threads, pidfile, signals>>

(* A process makes a directory of the mount its current one or opens a     *)
(* file, which only a mount that is served allows; it leaves or ends.      *)
Enter ==
    /\ mount # None /\ session /\ ~busy
    /\ busy' = TRUE
    /\ UNCHANGED <<pc, start, plugs, threads, pidfile, mount, session, signals>>

Leave ==
    /\ busy
    /\ busy' = FALSE
    /\ UNCHANGED <<pc, start, plugs, threads, pidfile, mount, session, signals>>

Next ==
    \/ Main
    \/ \E sig \in {"INT", "TERM"} : Signal(sig)
    \/ Unmount
    \/ Enter
    \/ Leave

(* The main thread runs, and sleeps at most 100ms in its loop.             *)
Spec == Init /\ [][Next]_vars /\ WF_vars(Main)

-----------------------------------------------------------------------------
(* What a mounted file system serves agrees with what _meta/plugins says   *)
(* of it: every plugin was tried whatever became of those before it, one   *)
(* that is "ok" has all its metrics in the registry, also after the later  *)
(* ones, and one that is "failed" lacks one.                               *)
StatusIsTruthful ==
    mount # None => \A k \in DOMAIN Plugins :
        status[k] = IF \A m \in DOMAIN Metrics(k) :
                            Metrics(k)[m] \in DOMAIN tree /\ tree[Metrics(k)[m]] = Name(k)
                    THEN "ok" ELSE "failed"

(* A command that ends, in whatever way, leaves a mount in two cases only: *)
(* another process uses the mount, and the unmount fails unnoticed; or a   *)
(* signal kills the command between the mount and the registration of the  *)
(* second handler (main.rs:454-480).                                       *)
NoMountLeft ==
    [][~ended /\ ended' =>
          \/ mount' = None
          \/ busy'
          \/ pc \in {"sigint", "sigterm"} /\ pc' = "killed"]_vars

(* Either signal, handled, ends in an orderly exit, which unmounts but for *)
(* a mount in use.                                                         *)
SignalStops ==
    (pc = "serve" /\ asked) ~> (pc = "done" /\ (mount = None \/ busy))

samples == Sampled \in DOMAIN tree /\ tree[Sampled] # Dir

(* What the command set up before it serves still serves: in the           *)
(* foreground its helper threads run and no PID file is written, and the   *)
(* mount is where the mount point was checked.  With --daemon three things *)
(* differ, since fork() keeps one thread and daemon() changes to "/": the  *)
(* log worker (main.rs:262) and the sampler are gone, the PID file names   *)
(* the parent (main.rs:433), and a relative mount point is another         *)
(* directory, which only has to exist.                                     *)
ServesWhatItSetUp ==
    pc = "serve" =>
        /\ mount \in {None, checked} \/ (args.daemon /\ args.relative)
        /\ ~args.daemon =>
              /\ pidfile = None
              /\ args.log_file => "logger" \in threads
              /\ samples => "sampler" \in threads

(* "CPU usage now reflects actual recent activity" (CHANGELOG.md:34): the  *)
(* thread that samples it runs while the metric is served.                 *)
SamplerRuns == pc = "serve" /\ samples => "sampler" \in threads
==============================================================================
