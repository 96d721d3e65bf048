---------------------------- MODULE Mount_proofs ----------------------------
(* The mount command, for all plugins that keep to the assumptions of      *)
(* Mount, whatever fails and whenever a signal or an unmount comes.        *)
EXTENDS Mount, SequenceTheorems, TLAPS

(* Every node hangs from directories, and hence nothing is below a file.   *)
Hangs(t) ==
    \A p \in DOMAIN t :
        /\ p \in Seq(Component)
        /\ \A k \in 0 .. Len(p) - 1 : Prefix(p, k) \in DOMAIN t /\ t[Prefix(p, k)] = Dir

IsFile(t, q) == q \in DOMAIN t /\ t[q] # Dir
Blocked(t, p) == \E k \in 0 .. Len(p) - 1 : IsFile(t, Prefix(p, k))
Serves(t, k, m) == Metrics(k)[m] \in DOMAIN t /\ t[Metrics(k)[m]] = Name(k)

(* What is registered so far.  A plugin that is done serves all its        *)
(* metrics, or one of them is below a file, and stays so: this is what     *)
(* makes its status true once and for all.                                 *)
PluginInv ==
    /\ Hangs(tree)
    /\ plugin \in Nat \ {0} /\ metric \in Nat \ {0}
    /\ DOMAIN status = DOMAIN Plugins
    /\ plugin \in DOMAIN Plugins => \A m \in DOMAIN Metrics(plugin) : m < metric => Serves(tree, plugin, m)
    /\ \A k \in DOMAIN Plugins : k < plugin =>
          \/ status[k] = "ok" /\ \A m \in DOMAIN Metrics(k) : Serves(tree, k, m)
          \/ status[k] = "failed" /\ \E m \in DOMAIN Metrics(k) : Blocked(tree, Metrics(k)[m])

(* What the place in the command tells about the rest.                     *)
After == {"pidfile", "daemonize", "spawn_mount2", "sigint", "sigterm", "serve"}
PlaceInv ==
    /\ pc \in After => plugin = Len(Plugins) + 1
    /\ mount # None => pc \in {"sigint", "sigterm", "serve"} \/ ended
    /\ mount # None => plugin = Len(Plugins) + 1
    /\ pc = "serve" => {"INT", "TERM"} \subseteq installed
    /\ pc = "sigterm" => "INT" \in installed
    /\ slash => args.daemon
    /\ pc \in {"pidfile", "daemonize"} => args.daemon
    /\ pc \in {"config", "path"} => ~slash
    /\ pc \in After \cup {"register"} => checked = Here
    /\ mount # None => mount = Here \/ (args.daemon /\ args.relative)

(* In the foreground the helper threads live as long as the process.       *)
ThreadInv ==
    ~args.daemon /\ pc # "killed" =>
        /\ pidfile = None
        /\ args.log_file => "logger" \in threads
        /\ samples => "sampler" \in threads

IInv == PluginInv /\ PlaceInv /\ ThreadInv

-----------------------------------------------------------------------------
(* A prefix of a path is a path, of that length and those components.      *)
LEMMA PrefixFacts ==
    ASSUME NEW p \in Seq(Component), NEW k \in 0 .. Len(p)
    PROVE  /\ Prefix(p, k) \in Seq(Component)
           /\ Len(Prefix(p, k)) = k
           /\ \A i \in 1 .. k : Prefix(p, k)[i] = p[i]
<1>1. \A i \in 1 .. k : p[i] \in Component
  BY ElementOfSeq
<1> QED BY <1>1, SubSeqProperties DEF Prefix

(* The prefix of a prefix is a prefix.                                     *)
LEMMA PrefixOfPrefix ==
    ASSUME NEW p \in Seq(Component), NEW k \in 0 .. Len(p), NEW j \in 0 .. k
    PROVE  Prefix(Prefix(p, k), j) = Prefix(p, j)
<1>0. Prefix(p, k) \in Seq(Component) /\ Len(Prefix(p, k)) = k
  BY PrefixFacts
<1>1. j \in 0 .. Len(p) /\ j \in 0 .. Len(Prefix(p, k))
  BY <1>0
<1>a. \A i \in 1 .. k : Prefix(p, k)[i] = p[i]
  BY PrefixFacts
<1>b. /\ Prefix(p, j) \in Seq(Component) /\ Len(Prefix(p, j)) = j
      /\ \A i \in 1 .. j : Prefix(p, j)[i] = p[i]
  BY <1>1, PrefixFacts
<1>2. /\ Prefix(p, k) \in Seq(Component)
      /\ Prefix(p, j) \in Seq(Component) /\ Len(Prefix(p, j)) = j
      /\ \A i \in 1 .. j : Prefix(p, j)[i] = p[i] /\ Prefix(p, k)[i] = p[i]
  BY <1>0, <1>a, <1>b
<1>3. /\ Prefix(Prefix(p, k), j) \in Seq(Component) /\ Len(Prefix(Prefix(p, k), j)) = j
      /\ \A i \in 1 .. j : Prefix(Prefix(p, k), j)[i] = Prefix(p, k)[i]
  BY <1>1, <1>2, PrefixFacts
<1> QED BY <1>2, <1>3, LenProperties

(* What is above a path outside a subtree is outside it too.               *)
LEMMA AboveIsOutside ==
    ASSUME NEW p \in Seq(Component), NEW q \in Seq(Component), NEW k \in 0 .. Len(q),
           ~Below(p, q)
    PROVE  ~Below(p, Prefix(q, k))
<1> SUFFICES ASSUME Below(p, Prefix(q, k)) PROVE FALSE
  OBVIOUS
<1>1. Len(p) \in 0 .. k
  BY PrefixFacts, LenProperties DEF Below
<1>2. Prefix(q, Len(p)) = p
  BY <1>1, PrefixOfPrefix DEF Below
<1> QED BY <1>1, <1>2, LenProperties DEF Below

(* A path is at or below itself.                                           *)
LEMMA BelowItself == ASSUME NEW p \in Seq(Component) PROVE Below(p, p)
  BY SubSeqFull, LenProperties DEF Below, Prefix

(* Nothing below a file is in a tree.                                      *)
LEMMA BlockedIsAbsent ==
    ASSUME NEW t, Hangs(t), NEW p, Blocked(t, p)
    PROVE  p \notin DOMAIN t
  BY DEF Hangs, Blocked, IsFile

(* A path a provider cannot be inserted at is below a file.                *)
LEMMA RefusedIsBlocked ==
    ASSUME NEW t, NEW p \in MetricPath, ~CanInsert(t, p)
    PROVE  Blocked(t, p)
  BY DEF CanInsert, Parents, Blocked, IsFile, MetricPath

(* What is there after an insertion.                                       *)
Effect(t, p, n, u) ==
    /\ p \in DOMAIN u /\ u[p] = n
    /\ \A q \in DOMAIN u : q = p \/ (q \in Parents(p) /\ q # p /\ u[q] = Dir)
                                 \/ (q \in DOMAIN t /\ ~Below(p, q) /\ u[q] = t[q])
    /\ \A q \in Parents(p) : q \in DOMAIN u /\ (q # p => u[q] = Dir)
    /\ \A q \in DOMAIN t :
          ~Below(p, q) /\ q \notin Parents(p) /\ q # p => q \in DOMAIN u /\ u[q] = t[q]

LEMMA Inserted ==
    ASSUME NEW t, NEW p, NEW n, NEW u, u = InsertInto(t, p, n)
    PROVE  Effect(t, p, n, u)
  BY DEF InsertInto, Effect

(* A parent is not the path itself.                                        *)
LEMMA ParentIsShorter ==
    ASSUME NEW p \in Seq(Component), NEW q \in Parents(p)
    PROVE  q # p /\ q \in Seq(Component) /\ Parents(q) \subseteq Parents(p) /\ Len(q) < Len(p)
<1>0. Len(p) \in Nat
  BY LenProperties
<1>1. PICK k \in 0 .. Len(p) - 1 : q = Prefix(p, k)
  BY DEF Parents
<1>2. k \in 0 .. Len(p)
  BY <1>0
<1>3. q \in Seq(Component) /\ Len(q) = k /\ k < Len(p)
  BY <1>0, <1>1, <1>2, PrefixFacts
<1>4. ASSUME NEW j \in 0 .. Len(q) - 1 PROVE Prefix(q, j) \in Parents(p)
  <2>1. Prefix(q, j) = Prefix(p, j)
    BY <1>1, <1>2, <1>3, PrefixOfPrefix
  <2>2. j \in 0 .. Len(p) - 1
    BY <1>0, <1>3
  <2> QED BY <2>1, <2>2 DEF Parents
<1> QED BY <1>3, <1>4 DEF Parents

(* A provider that is inserted leaves a tree that hangs together.          *)
LEMMA InsertHangs ==
    ASSUME NEW t, Hangs(t), NEW p \in MetricPath, NEW n, NEW u, u = InsertInto(t, p, n)
    PROVE  Hangs(u)
<1>0. p \in Seq(Component)
  BY DEF MetricPath
<1>1. Effect(t, p, n, u)
  BY Inserted
<1>2. ASSUME NEW r \in Parents(p) PROVE r \in DOMAIN u /\ u[r] = Dir
  <2>1. r # p
    BY <1>0, ParentIsShorter
  <2> QED BY <1>1, <2>1 DEF Effect
<1> SUFFICES ASSUME NEW q \in DOMAIN u
             PROVE  /\ q \in Seq(Component)
                    /\ \A k \in 0 .. Len(q) - 1 : Prefix(q, k) \in DOMAIN u /\ u[Prefix(q, k)] = Dir
  BY DEF Hangs
<1>3. CASE q = p
  BY <1>0, <1>2, <1>3 DEF Parents
<1>4. CASE q \in Parents(p)
  <2>1. q \in Seq(Component) /\ Parents(q) \subseteq Parents(p)
    BY <1>0, <1>4, ParentIsShorter
  <2>2. \A k \in 0 .. Len(q) - 1 : Prefix(q, k) \in Parents(q)
    BY DEF Parents
  <2> QED BY <1>2, <2>1, <2>2
<1>5. CASE q \in DOMAIN t /\ ~Below(p, q)
  <2>1. q \in Seq(Component) /\ Len(q) \in Nat
    BY <1>5, LenProperties DEF Hangs
  <2>2. ASSUME NEW k \in 0 .. Len(q) - 1 PROVE Prefix(q, k) \in DOMAIN u /\ u[Prefix(q, k)] = Dir
    <3>1. k \in 0 .. Len(q) /\ Prefix(q, k) \in DOMAIN t /\ t[Prefix(q, k)] = Dir
      BY <1>5, <2>1 DEF Hangs
    <3>2. ~Below(p, Prefix(q, k))
      BY <1>0, <1>5, <2>1, <3>1, AboveIsOutside
    <3>3. Prefix(q, k) # p
      BY <3>1, <3>2, <1>0, BelowItself
    <3> QED BY <1>1, <1>2, <3>1, <3>2, <3>3 DEF Effect
  <2> QED BY <2>1, <2>2
<1> QED BY <1>1, <1>3, <1>4, <1>5 DEF Effect

(* What is below a file stays below one: the file can be replaced by one   *)
(* only, or by a file further up.                                          *)
LEMMA BlockedStays ==
    ASSUME NEW t, NEW p \in MetricPath, NEW n, n # Dir, CanInsert(t, p),
           NEW u, u = InsertInto(t, p, n), NEW q \in Seq(Component), Blocked(t, q)
    PROVE  Blocked(u, q)
<1>0. p \in Seq(Component) /\ Len(p) \in Nat /\ Len(q) \in Nat
  BY LenProperties DEF MetricPath
<1>1. PICK k \in 0 .. Len(q) - 1 : IsFile(t, Prefix(q, k))
  BY DEF Blocked
<1>2. k \in 0 .. Len(q) /\ Prefix(q, k) \in Seq(Component) /\ Len(Prefix(q, k)) = k
  BY <1>0, PrefixFacts
<1>e. Effect(t, p, n, u)
  BY Inserted
<1>3. Prefix(q, k) \notin Parents(p)
  BY <1>1 DEF CanInsert, IsFile
<1>4. CASE Prefix(q, k) = p
  <2>1. IsFile(u, Prefix(q, k))
    BY <1>e, <1>4 DEF IsFile, Effect
  <2> QED BY <2>1 DEF Blocked
<1>5. CASE Prefix(q, k) # p /\ ~Below(p, Prefix(q, k))
  <2>1. IsFile(u, Prefix(q, k))
    BY <1>e, <1>1, <1>3, <1>5 DEF IsFile, Effect
  <2> QED BY <2>1 DEF Blocked
<1>6. CASE Below(p, Prefix(q, k))
  <2>1. Len(p) \in 0 .. k /\ Prefix(Prefix(q, k), Len(p)) = p
    BY <1>0, <1>2, <1>6 DEF Below
  <2>a. Prefix(Prefix(q, k), Len(p)) = Prefix(q, Len(p))
    BY <1>2, <2>1, PrefixOfPrefix
  <2>b. Prefix(q, Len(p)) = p
    BY <2>1, <2>a
  <2>c. ASSUME NEW x \in Nat, NEW y \in Nat, y \in 0 .. k, x = Len(q) PROVE y \in 0 .. x - 1
    BY <2>c
  <2>2. Prefix(q, Len(p)) = p /\ Len(p) \in 0 .. Len(q) - 1
    BY <1>0, <2>1, <2>b, <2>c
  <2>3. IsFile(u, p)
    BY <1>e DEF IsFile, Effect
  <2> QED BY <2>2, <2>3 DEF Blocked
<1> QED BY <1>4, <1>5, <1>6

(* What a plugin serves, it still serves after an insertion that is not at *)
(* or above it, and after its own of the same path.                        *)
LEMMA ServesStays ==
    ASSUME NEW t, NEW p \in MetricPath, NEW n, CanInsert(t, p),
           NEW u, u = InsertInto(t, p, n), NEW k \in DOMAIN Plugins, NEW m \in DOMAIN Metrics(k),
           Serves(t, k, m),
           ~Below(p, Metrics(k)[m]) \/ (Metrics(k)[m] = p /\ n = Name(k))
    PROVE  Serves(u, k, m)
<1>0. p \in Seq(Component) /\ Name(k) # Dir
  BY PluginsAssumption DEF MetricPath
<1>e. Effect(t, p, n, u)
  BY Inserted
<1> DEFINE r == Metrics(k)[m]
<1>1. CASE r = p /\ n = Name(k)
  <2>1. p \in DOMAIN u /\ u[p] = n
    BY <1>e DEF Effect
  <2> QED BY <1>1, <2>1 DEF Serves
<1>2. CASE ~Below(p, r)
  <2>1. r \in DOMAIN t /\ t[r] = Name(k)
    BY DEF Serves
  <2>2. r \notin Parents(p)
    BY <1>0, <2>1 DEF CanInsert
  <2>3. r # p
    BY <1>0, <1>2, BelowItself
  <2>4. r \in DOMAIN u /\ u[r] = t[r]
    BY <1>e, <1>2, <2>1, <2>2, <2>3 DEF Effect
  <2> QED BY <2>1, <2>4 DEF Serves
<1> QED BY <1>1, <1>2

(* An insertion makes no file but its own.                                 *)
LEMMA OnlyNewFile ==
    ASSUME NEW t, NEW p \in MetricPath, NEW n, NEW u, u = InsertInto(t, p, n),
           NEW q, IsFile(u, q)
    PROVE  q = p \/ IsFile(t, q)
<1>1. Effect(t, p, n, u)
  BY Inserted
<1>2. \A r \in DOMAIN u : r = p \/ u[r] = Dir \/ (r \in DOMAIN t /\ u[r] = t[r])
  BY <1>1 DEF Effect
<1> QED BY <1>2 DEF IsFile

-----------------------------------------------------------------------------
(* The plugins and their metrics.                                          *)
LEMMA PluginFacts ==
    ASSUME NEW k \in DOMAIN Plugins
    PROVE  /\ k \in Nat /\ k <= Len(Plugins) /\ Len(Plugins) \in Nat
           /\ Len(Metrics(k)) \in Nat /\ DOMAIN Metrics(k) = 1 .. Len(Metrics(k))
           /\ \A m \in DOMAIN Metrics(k) : m \in Nat /\ Metrics(k)[m] \in MetricPath
           /\ Name(k) # Dir
<1>1. Metrics(k) \in Seq(MetricPath) /\ Name(k) # Dir
  BY PluginsAssumption
<1>2. Len(Metrics(k)) \in Nat /\ DOMAIN Metrics(k) = 1 .. Len(Metrics(k))
  BY <1>1, LenProperties
<1>3. \A m \in 1 .. Len(Metrics(k)) : Metrics(k)[m] \in MetricPath
  BY <1>1, ElementOfSeq
<1>4. k \in Nat /\ k <= Len(Plugins) /\ Len(Plugins) \in Nat
  BY PluginsAssumption
<1> QED BY <1>1, <1>2, <1>3, <1>4

(* The invariant holds at the start.                                       *)
LEMMA InitIInv == Init => IInv
<1> SUFFICES ASSUME Init PROVE IInv
  OBVIOUS
<1>1. Hangs(tree)
  <2>1. <<>> \in Seq(Component) /\ Len(<<>>) = 0
    BY EmptySeq
  <2> QED BY <2>1 DEF Init, EmptyTree, Hangs
<1>2. PluginInv
  <2>1. \A k \in DOMAIN Plugins : k \in Nat /\ k >= 1
    BY PluginsAssumption
  <2>2. \A m \in DOMAIN Metrics(1) : 1 \in DOMAIN Plugins => m >= 1
    BY PluginFacts
  <2> QED BY <1>1, <2>1, <2>2 DEF Init, PluginInv
<1>3. PlaceInv
  BY DEF Init, PlaceInv, After, ended
<1>4. ~samples
  BY DEF Init, samples, EmptyTree
<1>5. ThreadInv
  BY <1>4 DEF Init, ThreadInv
<1> QED BY <1>2, <1>3, <1>5 DEF IInv

(* A metric that is inserted keeps the invariant of the plugins.           *)
LEMMA InsertMetricKeeps == ASSUME IInv, InsertMetric PROVE IInv'
<1> DEFINE p == Metrics(plugin)[metric]
<1>0. /\ pc = "register" /\ plugin \in DOMAIN Plugins /\ metric \in DOMAIN Metrics(plugin)
      /\ pc' = pc /\ UNCHANGED <<args, self, slash, dirs, checked, handlers, pidfile, mount, installed>>
      /\ p \in MetricPath
  BY PluginFacts DEF InsertMetric, start, served, signals
<1>1. PlaceInv'
  BY <1>0, PluginFacts DEF IInv, PlaceInv, After, ended
<1>2. threads' = IF p = Sampled THEN threads \cup {"sampler"} ELSE threads
  BY DEF InsertMetric
<1>3. CASE CanInsert(tree, p)
  <2>0. /\ tree' = InsertInto(tree, p, Name(plugin)) /\ metric' = metric + 1
        /\ plugin' = plugin /\ status' = status
    BY <1>3 DEF InsertMetric
  <2>1. PluginInv'
    <3>1. Hangs(tree')
      BY <1>0, <2>0, InsertHangs DEF IInv, PluginInv
    <3>2. ASSUME NEW m \in DOMAIN Metrics(plugin), m < metric + 1 PROVE Serves(tree', plugin, m)
      <4>1. CASE m = metric
        <5>1. Effect(tree, p, Name(plugin), tree')
          BY <2>0, Inserted
        <5> QED BY <4>1, <5>1 DEF Serves, Effect
      <4>2. CASE m # metric
        <5>1. m < metric
          <6>1. m \in Nat /\ metric \in Nat
            BY <1>0, PluginFacts
          <6> QED BY <3>2, <4>2, <6>1
        <5>2. Serves(tree, plugin, m)
          BY <1>0, <5>1 DEF IInv, PluginInv
        <5>3. Below(p, Metrics(plugin)[m]) => Metrics(plugin)[m] = p
          BY <1>0, <5>1, OrderAssumption
        <5> QED BY <1>0, <1>3, <2>0, <5>2, <5>3, ServesStays
      <4> QED BY <4>1, <4>2
    <3>3. ASSUME NEW k \in DOMAIN Plugins, k < plugin
          PROVE  \/ status[k] = "ok" /\ \A m \in DOMAIN Metrics(k) : Serves(tree', k, m)
                 \/ status[k] = "failed" /\ \E m \in DOMAIN Metrics(k) : Blocked(tree', Metrics(k)[m])
      <4>1. CASE status[k] = "ok" /\ \A m \in DOMAIN Metrics(k) : Serves(tree, k, m)
        <5>1. \A m \in DOMAIN Metrics(k) : ~Below(p, Metrics(k)[m])
          BY <1>0, <3>3, OrderAssumption
        <5> QED BY <1>0, <1>3, <2>0, <4>1, <5>1, ServesStays
      <4>2. CASE status[k] = "failed" /\ \E m \in DOMAIN Metrics(k) : Blocked(tree, Metrics(k)[m])
        <5>1. PICK m \in DOMAIN Metrics(k) : Blocked(tree, Metrics(k)[m])
          BY <4>2
        <5>2. Metrics(k)[m] \in Seq(Component) /\ Name(plugin) # Dir
          BY <1>0, PluginFacts DEF MetricPath
        <5>3. Blocked(tree', Metrics(k)[m])
          BY <1>0, <1>3, <2>0, <5>1, <5>2, BlockedStays
        <5> QED BY <4>2, <5>3
      <4> QED BY <3>3, <4>1, <4>2 DEF IInv, PluginInv
    <3> QED BY <2>0, <3>1, <3>2, <3>3 DEF IInv, PluginInv
  <2>2. samples' => p = Sampled \/ samples
    BY <1>0, <2>0, OnlyNewFile DEF samples, IsFile
  <2>3. ThreadInv'
    BY <1>0, <1>2, <2>2 DEF IInv, ThreadInv
  <2> QED BY <1>1, <2>1, <2>3 DEF IInv
<1>4. CASE ~CanInsert(tree, p)
  <2>0. /\ tree' = tree /\ metric' = 1 /\ plugin' = plugin + 1
        /\ status' = [status EXCEPT ![plugin] = "failed"]
    BY <1>4 DEF InsertMetric
  <2>1. Blocked(tree, p)
    BY <1>0, <1>4, RefusedIsBlocked
  <2>2. PluginInv'
    <3>1. ASSUME NEW k \in DOMAIN Plugins, k < plugin + 1
          PROVE  \/ status'[k] = "ok" /\ \A m \in DOMAIN Metrics(k) : Serves(tree, k, m)
                 \/ status'[k] = "failed" /\ \E m \in DOMAIN Metrics(k) : Blocked(tree, Metrics(k)[m])
      <4>1. CASE k = plugin
        BY <1>0, <2>0, <2>1, <4>1 DEF IInv, PluginInv
      <4>2. CASE k # plugin
        <5>1. k < plugin /\ status'[k] = status[k]
          BY <1>0, <2>0, <3>1, <4>2, PluginFacts DEF IInv, PluginInv
        <5> QED BY <5>1 DEF IInv, PluginInv
      <4> QED BY <4>1, <4>2
    <3>2. plugin + 1 \in DOMAIN Plugins => \A m \in DOMAIN Metrics(plugin + 1) : ~(m < 1)
      BY PluginFacts
    <3> QED BY <1>0, <2>0, <3>1, <3>2 DEF IInv, PluginInv
  <2>3. ThreadInv'
    BY <1>0, <1>2, <2>0 DEF IInv, ThreadInv, samples
  <2> QED BY <1>1, <2>2, <2>3 DEF IInv
<1> QED BY <1>3, <1>4

(* A plugin whose register() succeeded serves all it has.                  *)
LEMMA RegisteredKeeps == ASSUME IInv, Registered PROVE IInv'
<1>0. /\ pc = "register" /\ plugin \in DOMAIN Plugins /\ metric = Len(Metrics(plugin)) + 1
      /\ status' = [status EXCEPT ![plugin] = "ok"] /\ plugin' = plugin + 1 /\ metric' = 1
      /\ UNCHANGED <<pc, args, slash, checked, tree, threads, pidfile, mount, installed>>
  BY DEF Registered, start, served, signals
<1>1. ASSUME NEW m \in DOMAIN Metrics(plugin) PROVE Serves(tree, plugin, m)
  <2>1. m < metric
    <3>1. m \in 1 .. Len(Metrics(plugin)) /\ Len(Metrics(plugin)) \in Nat
      BY <1>0, PluginFacts
    <3> QED BY <1>0, <3>1
  <2> QED BY <1>0, <2>1 DEF IInv, PluginInv
<1>2. PluginInv'
  <2>1. ASSUME NEW k \in DOMAIN Plugins, k < plugin + 1
        PROVE  \/ status'[k] = "ok" /\ \A m \in DOMAIN Metrics(k) : Serves(tree, k, m)
               \/ status'[k] = "failed" /\ \E m \in DOMAIN Metrics(k) : Blocked(tree, Metrics(k)[m])
    <3>1. CASE k = plugin
      BY <1>0, <1>1, <3>1 DEF IInv, PluginInv
    <3>2. CASE k # plugin
      <4>1. k < plugin /\ status'[k] = status[k]
        BY <1>0, <2>1, <3>2, PluginFacts DEF IInv, PluginInv
      <4> QED BY <4>1 DEF IInv, PluginInv
    <3> QED BY <3>1, <3>2
  <2>2. plugin + 1 \in DOMAIN Plugins => \A m \in DOMAIN Metrics(plugin + 1) : ~(m < 1)
    BY PluginFacts
  <2> QED BY <1>0, <2>1, <2>2 DEF IInv, PluginInv
<1>3. PlaceInv'
  BY <1>0, PluginFacts DEF IInv, PlaceInv, After, ended
<1>4. ThreadInv'
  BY <1>0 DEF IInv, ThreadInv, samples
<1> QED BY <1>2, <1>3, <1>4 DEF IInv

(* The status provider takes nothing away.                                 *)
LEMMA RegisterHandlersKeeps == ASSUME IInv, RegisterHandlers PROVE IInv'
<1>0. /\ pc = "register" /\ plugin = Len(Plugins) + 1
      /\ pc' = IF args.daemon THEN "pidfile" ELSE "spawn_mount2"
      /\ UNCHANGED <<args, slash, checked, plugin, metric, status, threads, pidfile, mount, installed>>
  BY DEF RegisterHandlers, start, served, signals
<1>1. PlaceInv'
  BY <1>0 DEF IInv, PlaceInv, After, ended
<1>2. CASE tree' = tree
  <2>1. PluginInv'
    BY <1>0, <1>2 DEF IInv, PluginInv
  <2>2. ThreadInv'
    BY <1>0, <1>2 DEF IInv, ThreadInv, samples
  <2> QED BY <1>1, <2>1, <2>2 DEF IInv
<1>3. CASE CanInsert(tree, MetaPath) /\ tree' = InsertInto(tree, MetaPath, "status")
  <2>0. MetaPath \in MetricPath /\ MetaPath # Sampled /\ "status" # Dir
    BY MetaAssumption
  <2>1. Hangs(tree')
    BY <1>3, <2>0, InsertHangs DEF IInv, PluginInv
  <2>2. ASSUME NEW k \in DOMAIN Plugins, k < plugin
        PROVE  \/ status[k] = "ok" /\ \A m \in DOMAIN Metrics(k) : Serves(tree', k, m)
               \/ status[k] = "failed" /\ \E m \in DOMAIN Metrics(k) : Blocked(tree', Metrics(k)[m])
    <3>1. CASE status[k] = "ok" /\ \A m \in DOMAIN Metrics(k) : Serves(tree, k, m)
      <4>1. \A m \in DOMAIN Metrics(k) : ~Below(MetaPath, Metrics(k)[m])
        BY OrderAssumption
      <4> QED BY <1>3, <2>0, <3>1, <4>1, ServesStays
    <3>2. CASE status[k] = "failed" /\ \E m \in DOMAIN Metrics(k) : Blocked(tree, Metrics(k)[m])
      <4>1. PICK m \in DOMAIN Metrics(k) : Blocked(tree, Metrics(k)[m])
        BY <3>2
      <4>2. Metrics(k)[m] \in Seq(Component)
        BY PluginFacts DEF MetricPath
      <4>3. Blocked(tree', Metrics(k)[m])
        BY <1>3, <2>0, <4>1, <4>2, BlockedStays
      <4> QED BY <3>2, <4>3
    <3> QED BY <2>2, <3>1, <3>2 DEF IInv, PluginInv
  <2>3. plugin \notin DOMAIN Plugins
    BY <1>0, PluginsAssumption
  <2>4. PluginInv'
    BY <1>0, <2>1, <2>2, <2>3 DEF IInv, PluginInv
  <2>5. samples' => samples
    BY <1>3, <2>0, OnlyNewFile DEF samples, IsFile
  <2>6. ThreadInv'
    BY <1>0, <2>5 DEF IInv, ThreadInv
  <2> QED BY <1>1, <2>4, <2>6 DEF IInv
<1> QED BY <1>2, <1>3 DEF RegisterHandlers

(* The plugins are left alone by every other step.                         *)
LEMMA OtherPlugins == ASSUME PluginInv, UNCHANGED plugs PROVE PluginInv'
  BY DEF PluginInv, plugs

(* The rest of the main thread's steps keep the invariant.                 *)
LEMMA MainKeeps == ASSUME IInv, Main PROVE IInv'
<1> USE DEF IInv
<1>1. CASE Bail \/ LoadConfig
  <2>1. PlaceInv'
    BY <1>1 DEF Bail, LoadConfig, start, plugs, served, signals, PlaceInv, After, ended
  <2>2. ThreadInv'
    BY <1>1 DEF Bail, LoadConfig, start, plugs, ThreadInv, samples
  <2> QED BY <1>1, <2>1, <2>2, OtherPlugins DEF Bail, LoadConfig
<1>2. CASE CheckPath
  <2>1. PlaceInv'
    BY <1>2 DEF CheckPath, Place, plugs, served, signals, PlaceInv, After, ended
  <2>2. ThreadInv'
    BY <1>2 DEF CheckPath, plugs, ThreadInv, samples
  <2> QED BY <1>2, <2>1, <2>2, OtherPlugins DEF CheckPath
<1>3. CASE WritePidFile
  <2>1. PlaceInv'
    BY <1>3 DEF WritePidFile, start, plugs, served, signals, PlaceInv, After, ended
  <2>2. ThreadInv'
    BY <1>3 DEF WritePidFile, start, ThreadInv, PlaceInv
  <2> QED BY <1>3, <2>1, <2>2, OtherPlugins DEF WritePidFile
<1>4. CASE Daemonize
  <2>1. PlaceInv'
    BY <1>4 DEF Daemonize, plugs, served, signals, PlaceInv, After, ended
  <2>2. ThreadInv'
    BY <1>4 DEF Daemonize, ThreadInv, PlaceInv
  <2> QED BY <1>4, <2>1, <2>2, OtherPlugins DEF Daemonize
<1>5. CASE SpawnMount
  <2>1. PlaceInv'
    BY <1>5 DEF SpawnMount, Place, start, plugs, signals, PlaceInv, After, ended
  <2>2. ThreadInv'
    BY <1>5 DEF SpawnMount, start, plugs, ThreadInv, samples
  <2> QED BY <1>5, <2>1, <2>2, OtherPlugins DEF SpawnMount
<1>6. CASE InstallInt \/ InstallTerm
  <2>1. PlaceInv'
    BY <1>6 DEF InstallInt, InstallTerm, Install, DropSession, start, plugs, served, signals, PlaceInv, After, ended
  <2>2. ThreadInv'
    BY <1>6 DEF InstallInt, InstallTerm, Install, start, plugs, ThreadInv, samples
  <2> QED BY <1>6, <2>1, <2>2, OtherPlugins DEF InstallInt, InstallTerm, Install
<1>7. CASE Stop
  <2>1. PlaceInv'
    BY <1>7 DEF Stop, DropSession, start, plugs, signals, PlaceInv, After, ended
  <2>2. ThreadInv'
    BY <1>7 DEF Stop, start, plugs, ThreadInv, samples
  <2> QED BY <1>7, <2>1, <2>2, OtherPlugins DEF Stop
<1> QED BY <1>1, <1>2, <1>3, <1>4, <1>5, <1>6, <1>7, InsertMetricKeeps, RegisteredKeeps,
           RegisterHandlersKeeps DEF Main

(* So do signals, and the unmount of another process.                      *)
LEMMA NextIInv == IInv /\ [Next]_vars => IInv'
<1> SUFFICES ASSUME IInv, [Next]_vars PROVE IInv'
  OBVIOUS
<1> USE DEF IInv
<1>1. ASSUME NEW sig \in {"INT", "TERM"}, Signal(sig) PROVE IInv'
  <2>1. PlaceInv'
    BY <1>1 DEF Signal, start, plugs, signals, PlaceInv, After, ended
  <2>2. ThreadInv'
    BY <1>1 DEF Signal, start, plugs, ThreadInv, samples
  <2> QED BY <1>1, <2>1, <2>2, OtherPlugins DEF Signal
<1>2. CASE Unmount
  <2>1. PlaceInv'
    BY <1>2 DEF Unmount, start, plugs, signals, PlaceInv, After, ended
  <2>2. ThreadInv'
    BY <1>2 DEF Unmount, start, plugs, ThreadInv, samples
  <2> QED BY <1>2, <2>1, <2>2, OtherPlugins DEF Unmount
<1>3. CASE Enter \/ Leave
  <2>1. PlaceInv'
    BY <1>3 DEF Enter, Leave, start, plugs, signals, PlaceInv, After, ended
  <2>2. ThreadInv'
    BY <1>3 DEF Enter, Leave, start, plugs, ThreadInv, samples
  <2> QED BY <1>3, <2>1, <2>2, OtherPlugins DEF Enter, Leave
<1>4. CASE UNCHANGED vars
  <2>1. PlaceInv'
    BY <1>4 DEF vars, start, plugs, served, signals, PlaceInv, After, ended
  <2>2. ThreadInv'
    BY <1>4 DEF vars, start, plugs, ThreadInv, samples
  <2> QED BY <1>4, <2>1, <2>2, OtherPlugins DEF vars
<1> QED BY <1>1, <1>2, <1>3, <1>4, MainKeeps DEF Next

-----------------------------------------------------------------------------
(* The invariant holds in every state of every run of the command.         *)
THEOREM Invariant == Spec => []IInv
  BY InitIInv, NextIInv, PTL DEF Spec

(* The status of a mounted file system is true: a plugin that is "ok"      *)
(* serves all its metrics, one that is "failed" lacks one.                 *)
THEOREM StatusIsTrue == Spec => []StatusIsTruthful
<1>1. IInv => StatusIsTruthful
  <2> SUFFICES ASSUME IInv, mount # None, NEW k \in DOMAIN Plugins
               PROVE  status[k] = IF \A m \in DOMAIN Metrics(k) : Serves(tree, k, m)
                                  THEN "ok" ELSE "failed"
    BY DEF StatusIsTruthful, Serves
  <2>1. k < plugin
    BY PluginFacts DEF IInv, PlaceInv
  <2>2. CASE status[k] = "ok" /\ \A m \in DOMAIN Metrics(k) : Serves(tree, k, m)
    BY <2>2
  <2>3. CASE status[k] = "failed" /\ \E m \in DOMAIN Metrics(k) : Blocked(tree, Metrics(k)[m])
    <3>1. PICK m \in DOMAIN Metrics(k) : Blocked(tree, Metrics(k)[m])
      BY <2>3
    <3>2. ~Serves(tree, k, m)
      BY <3>1, BlockedIsAbsent DEF Serves, IInv, PluginInv
    <3> QED BY <2>3, <3>2
  <2> QED BY <2>1, <2>2, <2>3 DEF IInv, PluginInv
<1> QED BY <1>1, Invariant, PTL

(* A command that ends leaves a mount only when the mount is in use, or    *)
(* when a signal killed it before both handlers were registered: before    *)
(* the mount there is none, and once it serves, no signal kills it.        *)
THEOREM EndsUnmounted == Spec => NoMountLeft
<1>1. IInv /\ [Next]_vars =>
        [~ended /\ ended' =>
            \/ mount' = None
            \/ busy'
            \/ pc \in {"sigint", "sigterm"} /\ pc' = "killed"]_vars
  <2> SUFFICES ASSUME IInv, Next, ~ended, ended'
               PROVE  \/ mount' = None
                      \/ busy'
                      \/ pc \in {"sigint", "sigterm"} /\ pc' = "killed"
    OBVIOUS
  <2> USE DEF ended
  <2>1. mount # None => pc \in {"sigint", "sigterm", "serve"}
    BY DEF IInv, PlaceInv
  <2>2. CASE Bail
    BY <2>1, <2>2 DEF Bail, served
  <2>3. CASE InstallInt \/ InstallTerm
    BY <2>3 DEF InstallInt, InstallTerm, Install, DropSession
  <2>4. CASE Stop
    BY <2>4 DEF Stop, DropSession
  <2>5. ASSUME NEW sig \in {"INT", "TERM"}, Signal(sig)
        PROVE  mount' = None \/ (pc \in {"sigint", "sigterm"} /\ pc' = "killed")
    <3>1. sig \notin installed /\ pc' = "killed" /\ mount' = mount
      BY <2>5 DEF Signal
    <3>2. pc # "serve"
      BY <3>1 DEF IInv, PlaceInv
    <3> QED BY <2>1, <3>1, <3>2
  <2>6. CASE LoadConfig \/ CheckPath \/ InsertMetric \/ Registered \/ RegisterHandlers
             \/ WritePidFile \/ Daemonize \/ SpawnMount \/ Unmount \/ Enter \/ Leave
    BY <2>6 DEF LoadConfig, CheckPath, InsertMetric, Registered, RegisterHandlers,
                WritePidFile, Daemonize, SpawnMount, Unmount, Enter, Leave
  <2> QED BY <2>2, <2>3, <2>4, <2>5, <2>6 DEF Next, Main
<1> QED BY <1>1, Invariant, PTL DEF Spec, NoMountLeft

(* What serves is what was set up, but for what a daemon loses.            *)
THEOREM SetUpServes == Spec => []ServesWhatItSetUp
<1>1. IInv => ServesWhatItSetUp
  BY DEF IInv, PlaceInv, ThreadInv, After, ServesWhatItSetUp
<1> QED BY <1>1, Invariant, PTL
=============================================================================
