------------------------------- MODULE Collect -------------------------------
(***************************************************************************)
(* One collection by a provider that takes several readings for one        *)
(* answer: of /obs/health, /obs/sensors, /obs/connections, and, with the   *)
(* listing and the lookup that come before the read, of /obs/services and  *)
(* /obs/users.  Each reading is taken at its own time, of a source that    *)
(* changes and fails in between.  What the provider makes of the readings  *)
(* is in the modules Health, Sensors, Connections, Services and Users.     *)
(*                                                                         *)
(* A property relates the answer to what each source was meanwhile, which  *)
(* is all that it can be about: the sources need not have been at any one  *)
(* time what they were read as.                                            *)
(***************************************************************************)
EXTENDS Integers, Sequences, FiniteSets

CONSTANTS
    Reading,     \* per provider and source, what it can be read as
    MaxChanges,  \* per provider, the changes of the sources in one collection
    Unreadable,  \* the reading that failed
    Top          \* the listeners shown by connections/summary

Providers == {"health", "sensors", "connections", "services", "users"}

ASSUME ReadingAssumption == DOMAIN Reading = Providers
ASSUME ChangesAssumption == MaxChanges \in [Providers -> Nat]
ASSUME TopAssumption == Top \in Nat

VARIABLES
    provider,
    source,      \* what each source is now
    readings,    \* those taken, in their order
    changes,     \* of the sources since the collection began
    had          \* history: what each source was since then

world == <<provider, source, changes, had>>
vars == <<world, readings>>

H == INSTANCE Health
T == INSTANCE Sensors
N == INSTANCE Connections
S == INSTANCE Services
U == INSTANCE Users

(* What there is to read, and what the properties need to know of it: the  *)
(* rows of a table are as many as the file has lines, and a port is 16     *)
(* bits.                                                                   *)
Sources(files) == {files[k] : k \in DOMAIN files}
ASSUME SourcesAssumption ==
    /\ DOMAIN Reading["health"] = Sources(H!Check)
    /\ DOMAIN Reading["sensors"] = Sources(T!Files)
    /\ DOMAIN Reading["connections"] = Sources(N!Files)
    /\ DOMAIN Reading["services"] = {"systemctl"}
    /\ DOMAIN Reading["users"] = {"who", "passwd"}
ASSUME TableAssumption ==
    \A f \in Sources(N!Files) : \A table \in Reading["connections"][f] :
        IsFiniteSet(N!Rows(table)) /\ \A row \in N!Rows(table) : row.port \in Nat
ASSUME UnitAssumption == Reading["services"]["systemctl"] \subseteq S!State
ASSUME UserAssumption ==
    /\ Reading["users"]["who"] \subseteq {"in", "out"}
    /\ Reading["users"]["passwd"] \subseteq {"line", "none", Unreadable}

(* The next source to read; it can depend on the readings before.          *)
InOrder(files) == IF Len(readings) < Len(files) THEN files[Len(readings) + 1] ELSE "done"
Wanted ==
    CASE provider = "health" -> InOrder(H!Check)
      [] provider = "sensors" -> InOrder(T!Files)
      [] provider = "connections" -> InOrder(N!Files)
      [] provider = "services" -> S!Plan(readings)
      [] provider = "users" -> U!Plan(readings)

Only(f) == [c \in DOMAIN f |-> {f[c]}]

Init ==
    /\ provider \in Providers
    /\ source \in {f \in [DOMAIN Reading[provider] -> UNION {Reading[provider][c] :
                              c \in DOMAIN Reading[provider]}] :
                       \A c \in DOMAIN f : f[c] \in Reading[provider][c]}
    /\ readings = <<>> /\ changes = 0 /\ had = Only(source)

Read ==
    /\ Wanted # "done"
    /\ readings' = Append(readings, source[Wanted])
    /\ UNCHANGED world

(* The answer is given, and the next collection begins.                    *)
Reply ==
    /\ Wanted = "done"
    /\ readings' = <<>> /\ changes' = 0 /\ had' = Only(source)
    /\ UNCHANGED <<provider, source>>

Change(c, r) ==
    /\ changes < MaxChanges[provider] /\ r # source[c]
    /\ source' = [source EXCEPT ![c] = r]
    /\ had' = [had EXCEPT ![c] = @ \cup {r}]
    /\ changes' = changes + 1
    /\ UNCHANGED <<provider, readings>>

Next ==
    \/ Read
    \/ Reply
    \/ \E c \in DOMAIN source : \E r \in Reading[provider][c] : Change(c, r)

Spec == Init /\ [][Next]_vars

-----------------------------------------------------------------------------
Answers(p) == provider = p /\ Wanted = "done"

(* health: the status is that of some check meanwhile, and is no better    *)
(* than the best that any check was meanwhile: a check that was critical   *)
(* all the time cannot be missed, and no alarm is raised that no check     *)
(* gave.                                                                   *)
WorstMeanwhile ==
    Answers("health") =>
        LET status == H!Report(readings).status
        IN  /\ \A c \in DOMAIN had : \E r \in had[c] : H!Status(c, r) <= status
            /\ \E c \in DOMAIN had : \E r \in had[c] : H!Status(c, r) = status

(* health: there is an issue if and only if the status is not Ok, every    *)
(* issue was one meanwhile, and what was one all the time is among them.   *)
IssuesExplain ==
    Answers("health") =>
        LET report == H!Report(readings)
        IN  /\ report.issues # {} <=> report.status # H!Ok
            /\ \A c \in DOMAIN had :
                   /\ c \in report.issues => \E r \in had[c] : H!Status(c, r) # H!Ok
                   /\ (\A r \in had[c] : H!Status(c, r) # H!Ok) => c \in report.issues

(* sensors: no status and no fans are given only when every temperature    *)
(* was unreadable at some time; a fan readable all the time is otherwise   *)
(* shown.  A temperature at or above its critical value all the time is    *)
(* reported as critical, one never below 90% of it is not reported as Ok,  *)
(* and no alarm is raised unless some temperature came that close to a     *)
(* critical value it had.                                                  *)
AlarmsAreTrue ==
    Answers("sensors") =>
        LET report == T!Report(readings)
            Always(t, Close(_, _)) ==
                \A v \in had[t], c \in had[T!Temperature[t]] :
                    v # Unreadable /\ c # Unreadable /\ Close(v, c)
            Once(t, Close(_, _)) ==
                \E v \in had[t], c \in had[T!Temperature[t]] :
                    v # Unreadable /\ c # Unreadable /\ Close(v, c)
            Over(v, c) == v >= c
            Near(v, c) == 10 * v >= 9 * c
            Temps == DOMAIN T!Temperature
        IN  /\ report.status = T!Silent =>
                   \A t \in Temps \cup {"zone"} : Unreadable \in had[t]
            /\ report.status # T!Silent /\ Unreadable \notin had["fan"] => report.fan
            /\ (\E t \in Temps : Always(t, Over)) => report.status = T!Critical
            /\ (\E t \in Temps : Always(t, Near)) => report.status # T!Ok
            /\ report.status = T!Critical => \E t \in Temps : Once(t, Over)
            /\ report.status = T!Warn => \E t \in Temps : Once(t, Near)

(* connections: a port is shown only if a socket had it in one of the two  *)
(* tables meanwhile, and one that a socket of one table had all the time   *)
(* is shown, whether or not the other table could be read; connections are *)
(* counted as often as they were in the two tables, each at some time; and *)
(* no listener is neither shown by the summary nor counted as more.        *)
PortsAreReal ==
    Answers("connections") =>
        LET report == N!Report(readings)
            In(table, state) == {row.port : row \in {r \in N!Rows(table) : r.state = state}}
            Real(ports, state, one, other) ==
                /\ \A p \in ports : \E f \in {one, other} : \E x \in had[f] : p \in In(x, state)
                /\ \A f \in {one, other} : \A x \in had[f] : \A p \in In(x, state) :
                       p > 0 /\ (\A y \in had[f] : p \in In(y, state)) => p \in ports
            Open(f) ==
                {Cardinality({r \in N!Rows(x) : r.state = "ESTABLISHED"}) : x \in had[f]}
        IN  /\ Real(report.listening, "LISTEN", "tcp", "tcp6")
            /\ Real(report.udp_ports, "UDP", "udp", "udp6")
            /\ \E m \in Open("tcp"), n \in Open("tcp6") : report.established = m + n
            /\ Cardinality(report.shown) + report.more = Cardinality(report.listening)

(* services: listing, lookup and read agree on a unit that does not change *)
(* meanwhile: one that is loaded is listed, found and described, one that  *)
(* failed is found and described although it is not listed, one that does  *)
(* not exist is not found.  One that is found and then not described means *)
(* that systemctl failed.                                                  *)
ServicesAgree ==
    Answers("services") =>
        LET report == S!Report(readings)
            states == had["systemctl"]
        IN  /\ states = {"loaded"} => report.listed
            /\ states \subseteq {"loaded", "marked"} => report.found /\ report.answer
            /\ states \subseteq {"unknown", "missing"} => ~report.listed /\ ~report.found
            /\ report.found /\ ~report.answer => states \cap {"failing", "missing"} # {}

(* users: a name is answered for only if it had a line in /etc/passwd      *)
(* meanwhile, its sessions and account are told if it had them all the     *)
(* time and its sessions only if it had some.  One that is listed and not  *)
(* found has a session without a line, and one that is found and then not  *)
(* described lost its line and had no session.                             *)
UsersAgree ==
    Answers("users") =>
        LET report == U!Report(readings)
            who == had["who"]
            passwd == had["passwd"]
        IN  /\ report.found \/ report.answer # "none" => "line" \in passwd
            /\ passwd = {"line"} => report.found /\ report.answer # "none" /\ report.account
            /\ passwd = {"line"} /\ who = {"in"} => report.listed /\ report.answer = "in"
            /\ report.answer = "in" => "in" \in who
            /\ report.listed /\ ~report.found => "in" \in who /\ passwd # {"line"}
            /\ report.found /\ report.answer = "none" => "none" \in passwd /\ "out" \in who
            /\ report.account => "line" \in passwd
==============================================================================
