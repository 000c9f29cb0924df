----------------------------- MODULE PluginHost -----------------------------
(***************************************************************************)
(* The plugin host, internal/plugin/host, with the provider registry,      *)
(* pkg/provider/registry.go: plugin processes that are launched, swapped   *)
(* in the registry, drained and killed by concurrent reload requests while *)
(* callers look providers up and make calls on them.                       *)
(*                                                                         *)
(* A plugin is the binary at one path in the plugin directory, which       *)
(* always declares the same plugin id; the file can be replaced or removed *)
(* at any time. Manager.mu is held across several steps by Start and by    *)
(* Close; the other operations under it are one step. The registry has its *)
(* own mutex, so lookups see every step of the manager.                    *)
(***************************************************************************)
EXTENDS Naturals, FiniteSets

CONSTANTS
    Plugins,        \* plugin ids
    Providers,      \* provider ids
    Offers,         \* the sets of providers a binary may declare
    NoOffer,        \* no binary at the path
    Reloaders,      \* requests POST /plugins/reload, and the start-up
    Callers,        \* goroutines that call providers
    None,           \* no plugin, no process, nobody
    MaxProcesses,   \* bound: processes launched
    MaxInstalls,    \* bound: changes in the plugin directory
    MaxFailures,    \* bound: plugin crashes, and updates a plugin refuses
    MaxUpdates      \* bound: configuration updates

Processes == 1..MaxProcesses

ASSUME PluginAssumption ==
    /\ IsFiniteSet(Callers)
    /\ \A o \in Offers : o \subseteq Providers
    /\ NoOffer \notin Offers
    /\ None \notin Plugins /\ None \notin Processes
    /\ None \notin Reloaders /\ "close" \notin Reloaders /\ None # "close"
    /\ MaxProcesses \in Nat /\ MaxInstalls \in Nat /\ MaxFailures \in Nat
    /\ MaxUpdates \in Nat

VARIABLES
    binary,     \* the plugin directory: what the binary of each plugin declares
    proc,       \* the processes: state, plugin, offer and the configuration of Init
    launched,   \* number of processes launched so far
    drain,      \* what the goroutines that drain a process are doing
    instances,  \* PluginManager.instances
    paths,      \* plugins with an entry in PluginManager.binaryPathMap
    config,     \* PluginManager.opts.GlobalConfig and ProviderConfigs, as a version
    mu,         \* who holds PluginManager.mu across steps
    route,      \* Registry.candidates: the process of each plugin's adapter
    reloader,   \* where each ReloadAll stands
    caller,     \* where each caller stands
    host,       \* "running", "closing", "closed"
    closeWait,  \* the process Close is draining
    spent,      \* installs, failures and updates so far
    cause       \* history: how the host came to kill a process

manager  == <<instances, paths, config, mu>>
vars     == <<binary, proc, launched, drain, instances, paths, config, mu, route,
              reloader, caller, host, closeWait, spent, cause>>

NoProc  == [state |-> "unborn", plugin |-> None, offer |-> NoOffer, config |-> 0]
Resting == [pc |-> "idle", found |-> {}, ids |-> {}, plugin |-> None, old |-> None, new |-> None]
Quiet   == [pc |-> "idle", proc |-> None, late |-> FALSE]

Init ==
    /\ binary \in [Plugins -> Offers \cup {NoOffer}]
    /\ proc = [i \in Processes |-> NoProc]
    /\ launched = 0
    /\ drain = [i \in Processes |-> "no"]
    /\ instances = [p \in Plugins |-> None]
    /\ paths = {}
    /\ config = 0
    /\ mu = None
    /\ route = [b \in Providers |-> [p \in Plugins |-> None]]
    /\ reloader = [r \in Reloaders |-> Resting]
    /\ caller = [c \in Callers |-> Quiet]
    /\ host = "running"
    /\ closeWait = None
    /\ spent = [installs |-> 0, failures |-> 0, updates |-> 0]
    /\ cause = [i \in Processes |-> "none"]

Spend(what, bound) ==
    /\ spent[what] < bound
    /\ spent' = [spent EXCEPT ![what] = @ + 1]

\* Names ending in Mutant are slips a programmer could make in the definition
\* below them; no action uses them.
----------------------------------------------------------------------------
(***************************************************************************)
(* The registry                                                            *)
(***************************************************************************)
RegisteredMutant(p, i) ==
    [b \in Providers |-> IF b \in proc[i].offer /\ route[b][p] = None
                         THEN [route[b] EXCEPT ![p] = i] ELSE route[b]]

\* Register for every adapter of process i: a candidate of the same plugin is
\* replaced in place, candidates for other providers are left alone.
Registered(p, i) ==
    [b \in Providers |-> IF b \in proc[i].offer
                         THEN [route[b] EXCEPT ![p] = i] ELSE route[b]]

UnregisteredMutant(p) == route

\* UnregisterPlugin.
Unregistered(p) == [b \in Providers |-> [route[b] EXCEPT ![p] = None]]

----------------------------------------------------------------------------
(***************************************************************************)
(* Processes                                                               *)
(***************************************************************************)
\* adapter.activeCalls counts the calls between startCall and done.
ActiveCalls(i) == {c \in Callers : caller[c].pc = "calling" /\ caller[c].proc = i}

\* Client.Kill: calls on the process fail; one that has ended stays as it is.
Kill(i, why) ==
    /\ proc' = [proc EXCEPT ![i].state = "killed"]
    /\ caller' = [c \in Callers |-> IF c \in ActiveCalls(i)
                                    THEN [caller[c] EXCEPT !.pc = "failed"] ELSE caller[c]]
    /\ cause' = IF proc[i].state = "live" THEN [cause EXCEPT ![i] = why] ELSE cause

\* startInstance: the process is started and describes itself ...
Launch(r) ==
    LET p == reloader[r].plugin
        i == launched + 1
    IN  /\ reloader[r].pc = "launch"
        /\ i \in Processes
        /\ binary[p] # NoOffer
        /\ proc' = [proc EXCEPT ![i] = [NoProc EXCEPT !.state = "live", !.plugin = p,
                                                      !.offer = binary[p]]]
        /\ launched' = i
        /\ reloader' = [reloader EXCEPT ![r].pc = "init", ![r].new = i]
        /\ UNCHANGED <<binary, drain, manager, route, caller, host, closeWait, spent, cause>>

\* ... and is given the configuration, read without holding mu.
InitPlugin(r) ==
    /\ reloader[r].pc = "init"
    /\ proc' = [proc EXCEPT ![reloader[r].new].config = config]
    /\ reloader' = [reloader EXCEPT ![r].pc = IF reloader[r].old = None THEN "start" ELSE "swap"]
    /\ UNCHANGED <<binary, launched, drain, manager, route, caller, host, closeWait, spent, cause>>

\* ReloadAll logs an error and goes on with the next plugin.
NextPlugin(r) ==
    LET p == reloader[r].plugin
    IN  [reloader EXCEPT ![r].pc = IF reloader[r].old = None THEN "scan" ELSE "reload",
                         ![r].ids = @ \ {p},
                         ![r].found = IF reloader[r].old = None THEN @ \ {p} ELSE @,
                         ![r].plugin = None, ![r].old = None, ![r].new = None]

\* There is no binary, or the handshake, Describe or the SDK version check
\* fails; or Init does. A process that was started is killed.
LaunchFails(r) ==
    /\ reloader[r].pc = "launch"
    /\ reloader' = NextPlugin(r)
    /\ UNCHANGED <<binary, proc, launched, drain, manager, route, caller, host,
                   closeWait, spent, cause>>

InitFails(r) ==
    /\ reloader[r].pc = "init"
    /\ Kill(reloader[r].new, "broken")
    /\ reloader' = NextPlugin(r)
    /\ UNCHANGED <<binary, launched, drain, manager, route, host, closeWait, spent>>

\* A plugin process ends by itself; nothing in the host reacts to it.
Crash(i) ==
    /\ proc[i].state = "live"
    /\ Spend("failures", MaxFailures)
    /\ proc' = [proc EXCEPT ![i].state = "crashed"]
    /\ caller' = [c \in Callers |-> IF c \in ActiveCalls(i) THEN Quiet ELSE caller[c]]
    /\ UNCHANGED <<binary, launched, drain, manager, route, reloader, host, closeWait, cause>>

----------------------------------------------------------------------------
(***************************************************************************)
(* ReloadAll: Reload for what runs, Start for what is new                  *)
(***************************************************************************)
DiscoverPlugins(r) ==
    /\ host = "running"
    /\ reloader[r].pc = "idle"
    /\ reloader' = [reloader EXCEPT ![r].pc = "discovered",
                                    ![r].found = {p \in Plugins : binary[p] # NoOffer}]
    /\ UNCHANGED <<binary, proc, launched, drain, manager, route, caller, host,
                   closeWait, spent, cause>>

ListRunning(r) ==
    /\ reloader[r].pc = "discovered"
    /\ mu = None
    /\ reloader' = [reloader EXCEPT ![r].pc = "reload",
                                    ![r].ids = {p \in Plugins : instances[p] # None}]
    /\ UNCHANGED <<binary, proc, launched, drain, manager, route, caller, host,
                   closeWait, spent, cause>>

\* Reload, first part: the old instance is read, the lock released.
ReadOld(r, p) ==
    /\ reloader[r].pc = "reload"
    /\ p \in reloader[r].ids
    /\ mu = None
    /\ reloader' = IF instances[p] = None
                   THEN [reloader EXCEPT ![r].ids = @ \ {p}]
                   ELSE [reloader EXCEPT ![r].pc = "launch", ![r].plugin = p,
                                         ![r].old = instances[p]]
    /\ UNCHANGED <<binary, proc, launched, drain, manager, route, caller, host,
                   closeWait, spent, cause>>

\* Reload, second part: the registry and the map are switched to the new
\* process, and a goroutine drains the old one that was read before.
Swap(r) ==
    LET p == reloader[r].plugin
        i == reloader[r].new
    IN  /\ reloader[r].pc = "swap"
        /\ mu = None
        /\ instances' = [instances EXCEPT ![p] = i]
        /\ paths' = paths \cup {p}
        /\ route' = Registered(p, i)
        /\ drain' = [drain EXCEPT ![reloader[r].old] = IF @ = "no" THEN "draining" ELSE @]
        /\ reloader' = NextPlugin(r)
        /\ UNCHANGED <<binary, proc, launched, config, mu, caller, host,
                       closeWait, spent, cause>>

\* After the running ones: a discovered binary whose path is not known yet.
StartNew(r, p) ==
    /\ \/ reloader[r].pc = "scan"
       \/ reloader[r].pc = "reload" /\ reloader[r].ids = {}
    /\ p \in reloader[r].found
    /\ mu = None
    /\ reloader' = IF p \in paths
                   THEN [reloader EXCEPT ![r].pc = "scan", ![r].found = @ \ {p}]
                   ELSE [reloader EXCEPT ![r].pc = "launch", ![r].plugin = p]
    /\ UNCHANGED <<binary, proc, launched, drain, manager, route, caller, host,
                   closeWait, spent, cause>>

\* Start takes the lock; an instance that another Start put there meanwhile
\* is unregistered and closed at once, without draining.
StartReplace(r) ==
    LET old == instances[reloader[r].plugin]
    IN  /\ reloader[r].pc = "start"
        /\ mu = None
        /\ mu' = r
        /\ IF old = None
           THEN UNCHANGED <<proc, route, caller, cause>>
           ELSE /\ route' = Unregistered(reloader[r].plugin)
                /\ Kill(old, "replaced")
        /\ UNCHANGED <<binary, launched, drain, instances, paths, config, reloader,
                       host, closeWait, spent>>

StartRegisterMutant(r) ==
    LET p == reloader[r].plugin
        i == reloader[r].new
    IN  /\ mu = r
        /\ instances' = [instances EXCEPT ![p] = i]
        /\ paths' = paths \cup {p}
        /\ route' = Registered(p, i)
        /\ reloader' = NextPlugin(r)
        /\ UNCHANGED <<binary, proc, launched, drain, config, mu, caller, host,
                       closeWait, spent, cause>>

StartRegister(r) ==
    LET p == reloader[r].plugin
        i == reloader[r].new
    IN  /\ mu = r
        /\ mu' = None
        /\ instances' = [instances EXCEPT ![p] = i]
        /\ paths' = paths \cup {p}
        /\ route' = Registered(p, i)
        /\ reloader' = NextPlugin(r)
        /\ UNCHANGED <<binary, proc, launched, drain, config, caller, host,
                       closeWait, spent, cause>>

ReloadAllReturns(r) ==
    /\ \/ reloader[r].pc = "scan"
       \/ reloader[r].pc = "reload" /\ reloader[r].ids = {}
    /\ reloader[r].found = {}
    /\ reloader' = [reloader EXCEPT ![r] = Resting]
    /\ UNCHANGED <<binary, proc, launched, drain, manager, route, caller, host,
                   closeWait, spent, cause>>

----------------------------------------------------------------------------
(***************************************************************************)
(* Draining, closing, configuring                                          *)
(***************************************************************************)
DrainEndsMutant1(i) ==
    /\ drain[i] = "draining"
    /\ drain' = [drain EXCEPT ![i] = "drained"]
    /\ UNCHANGED <<binary, proc, launched, manager, route, reloader, caller, host,
                   closeWait, spent, cause>>

DrainEndsMutant2(i) ==
    /\ drain[i] = "draining"
    /\ ActiveCalls(i) = {}
    /\ drain' = [drain EXCEPT ![i] = "drained"]
    /\ UNCHANGED <<binary, proc, launched, manager, route, reloader, caller, host,
                   closeWait, spent, cause>>

\* Drain returns: it read zero active calls, or five seconds are over.
DrainEnds(i) ==
    /\ drain[i] = "draining"
    /\ drain' = [drain EXCEPT ![i] = IF ActiveCalls(i) = {} THEN "drained" ELSE "forced"]
    /\ UNCHANGED <<binary, proc, launched, manager, route, reloader, caller, host,
                   closeWait, spent, cause>>

CloseInstance(i) ==
    /\ drain[i] \in {"drained", "forced"}
    /\ Kill(i, drain[i])
    /\ drain' = [drain EXCEPT ![i] = "no"]
    /\ UNCHANGED <<binary, launched, manager, route, reloader, host, closeWait, spent>>

\* PluginManager.Close holds the lock from the first plugin to the last.
CloseBegins ==
    /\ host = "running"
    /\ mu = None
    /\ mu' = "close"
    /\ host' = "closing"
    /\ UNCHANGED <<binary, proc, launched, drain, instances, paths, config, route,
                   reloader, caller, closeWait, spent, cause>>

CloseIdle == closeWait # None => proc[closeWait].state = "killed"

CloseNext(p) ==
    /\ mu = "close"
    /\ CloseIdle
    /\ instances[p] # None
    /\ route' = Unregistered(p)
    /\ drain' = [drain EXCEPT ![instances[p]] = "draining"]
    /\ closeWait' = instances[p]
    /\ instances' = [instances EXCEPT ![p] = None]
    /\ UNCHANGED <<binary, proc, launched, paths, config, mu, reloader, caller,
                   host, spent, cause>>

CloseEnds ==
    /\ mu = "close"
    /\ CloseIdle
    /\ \A p \in Plugins : instances[p] = None
    /\ mu' = None
    /\ host' = "closed"
    /\ closeWait' = None
    /\ UNCHANGED <<binary, proc, launched, drain, instances, paths, config, route,
                   reloader, caller, spent, cause>>

\* UpdatePluginConfig merges into the manager's options and calls Init of
\* the current instance; when that fails the options stay merged.
UpdatePluginConfig(p, ok) ==
    LET i == instances[p]
    IN  /\ mu = None
        /\ i # None
        /\ spent.updates < MaxUpdates
        /\ ok \/ spent.failures < MaxFailures
        /\ ok => proc[i].state = "live"
        /\ spent' = [spent EXCEPT !.updates = @ + 1, !.failures = IF ok THEN @ ELSE @ + 1]
        /\ config' = config + 1
        /\ proc' = IF ok THEN [proc EXCEPT ![i].config = config + 1] ELSE proc
        /\ UNCHANGED <<binary, launched, drain, instances, paths, mu, route, reloader,
                       caller, host, closeWait, cause>>

\* The user puts another version of a binary in place, or removes it.
Install(p, o) ==
    /\ o # binary[p]
    /\ Spend("installs", MaxInstalls)
    /\ binary' = [binary EXCEPT ![p] = o]
    /\ UNCHANGED <<proc, launched, drain, manager, route, reloader, caller, host,
                   closeWait, cause>>

----------------------------------------------------------------------------
(***************************************************************************)
(* Callers: a lookup in the registry, then a call on what it returned      *)
(***************************************************************************)
\* Get, under the base id or the namespaced handle of a plugin's candidate.
Lookup(c, b, p) ==
    /\ caller[c].pc = "idle"
    /\ route[b][p] # None
    /\ caller' = [caller EXCEPT ![c] = [pc |-> "found", proc |-> route[b][p], late |-> FALSE]]
    /\ UNCHANGED <<binary, proc, launched, drain, manager, route, reloader, host,
                   closeWait, spent, cause>>

\* startCall, and the request is on its way; without a process it fails.
StartCall(c) ==
    LET i == caller[c].proc
    IN  /\ caller[c].pc = "found"
        /\ caller' = CASE proc[i].state = "live" ->
                            [caller EXCEPT ![c].pc = "calling", ![c].late = drain[i] = "drained"]
                       [] proc[i].state = "killed" ->
                            [caller EXCEPT ![c].pc = "failed", ![c].late = TRUE]
                       [] OTHER -> [caller EXCEPT ![c] = Quiet]
        /\ UNCHANGED <<binary, proc, launched, drain, manager, route, reloader, host,
                       closeWait, spent, cause>>

\* The call, or the stream it returned, is done.
CallReturns(c) ==
    /\ caller[c].pc \in {"calling", "failed"}
    /\ caller' = [caller EXCEPT ![c] = Quiet]
    /\ UNCHANGED <<binary, proc, launched, drain, manager, route, reloader, host,
                   closeWait, spent, cause>>

----------------------------------------------------------------------------
ReloadAll(r) ==
    \/ DiscoverPlugins(r) \/ ListRunning(r)
    \/ \E p \in Plugins : ReadOld(r, p) \/ StartNew(r, p)
    \/ Launch(r) \/ LaunchFails(r) \/ InitPlugin(r) \/ InitFails(r)
    \/ Swap(r) \/ StartReplace(r) \/ StartRegister(r)
    \/ ReloadAllReturns(r)

Close == CloseBegins \/ CloseEnds \/ \E p \in Plugins : CloseNext(p)

Calls ==
    \E c \in Callers :
       \/ \E b \in Providers, p \in Plugins : Lookup(c, b, p)
       \/ StartCall(c) \/ CallReturns(c)

Requests ==
    \E p \in Plugins : \/ \E ok \in BOOLEAN : UpdatePluginConfig(p, ok)
                       \/ \E o \in Offers \cup {NoOffer} : Install(p, o)

Next ==
    \/ \E r \in Reloaders : ReloadAll(r)
    \/ \E i \in Processes : DrainEnds(i) \/ CloseInstance(i) \/ Crash(i)
    \/ Close \/ Calls \/ Requests

Spec == Init /\ [][Next]_vars

\* What was begun is carried on: requests and goroutines are scheduled, and a
\* launch ends (go-plugin gives up after a minute). Callers may take for ever.
Fairness ==
    /\ \A r \in Reloaders : WF_vars(reloader[r].pc # "idle" /\ ReloadAll(r))
    /\ \A i \in Processes : WF_vars(DrainEnds(i)) /\ WF_vars(CloseInstance(i))
    /\ WF_vars(CloseEnds)
    /\ \A p \in Plugins : WF_vars(CloseNext(p))

FairSpec == Spec /\ Fairness

----------------------------------------------------------------------------
(***************************************************************************)
(* Properties                                                              *)
(***************************************************************************)
ProcTypes ==
    [state : {"unborn", "live", "crashed", "killed"}, plugin : Plugins \cup {None},
     offer : Offers \cup {NoOffer}, config : Nat]

ReloadTypes ==
    [pc : {"idle", "discovered", "reload", "scan", "launch", "init", "swap", "start"},
     found : SUBSET Plugins, ids : SUBSET Plugins, plugin : Plugins \cup {None},
     old : Processes \cup {None}, new : Processes \cup {None}]

CallTypes ==
    [pc : {"idle", "found", "calling", "failed"}, proc : Processes \cup {None}, late : BOOLEAN]

Causes == {"drained", "forced", "replaced", "broken"}

\* Types; the lock is held only by a Start in its last steps, or by Close.
TypeOK ==
    /\ binary \in [Plugins -> Offers \cup {NoOffer}]
    /\ proc \in [Processes -> ProcTypes]
    /\ launched \in 0..MaxProcesses
    /\ drain \in [Processes -> {"no", "draining", "drained", "forced"}]
    /\ instances \in [Plugins -> Processes \cup {None}]
    /\ paths \subseteq Plugins
    /\ config \in Nat
    /\ mu \in Reloaders \cup {None, "close"}
    /\ mu \in Reloaders => reloader[mu].pc = "start"
    /\ route \in [Providers -> [Plugins -> Processes \cup {None}]]
    /\ reloader \in [Reloaders -> ReloadTypes]
    /\ caller \in [Callers -> CallTypes]
    /\ host \in {"running", "closing", "closed"}
    /\ closeWait \in Processes \cup {None}
    /\ spent \in [installs : Nat, failures : Nat, updates : Nat]
    /\ cause \in [Processes -> Causes \cup {"none"}]

\* Whatever reloads, starts and installs overlap, the instance in the map was
\* not killed and nobody drains it, and the registry sends the providers it
\* declares to it. Only a Start that holds the lock is between the two.
CurrentIsRouted ==
    \A p \in Plugins :
       LET i == instances[p]
       IN  i # None /\ ~(mu \in Reloaders /\ reloader[mu].plugin = p) =>
              /\ proc[i].state \in {"live", "crashed"}
              /\ proc[i].plugin = p
              /\ drain[i] = "no"
              /\ \A b \in proc[i].offer : route[b][p] = i

\* A call that was counted before its process was found idle is never cut
\* off by a reload or by the shutdown, unless the drain timed out or a second
\* Start replaced the process.
DrainedCallsFinish ==
    \A c \in Callers :
       caller[c].pc = "failed" =>
          caller[c].late \/ cause[caller[c].proc] \in {"forced", "replaced"}

\* "Atomically swaps routing entries in the ProviderRegistry" (Reload): no
\* lookup returns an adapter of a process the host has killed. It holds while
\* no new version of a plugin drops a provider.
RoutedIsServed ==
    \A b \in Providers, p \in Plugins :
       route[b][p] # None => proc[route[b][p]].state # "killed"

\* "Terminates the old subprocess cleanly" (Reload): a process that is not in
\* the map is dead, or somebody still has it in hand. It holds while reload
\* requests do not overlap.
Orphan(i) ==
    /\ proc[i].state = "live"
    /\ drain[i] = "no"
    /\ \A p \in Plugins : instances[p] # i
    /\ \A r \in Reloaders : reloader[r].new # i
NoOrphanProcess == \A i \in Processes : ~Orphan(i)

\* Reload requests and the shutdown come to an end although callers may hang.
ManagerReturns ==
    /\ \A r \in Reloaders : (reloader[r].pc # "idle") ~> (reloader[r].pc = "idle")
    /\ (host = "closing") ~> (host = "closed")

\* "Zero Downtime" and "In-flight gRPC calls drain cleanly"
\* (docs/design/provider_plugin_architecture.md): no call fails on account of
\* a reload when no drain times out. A caller that has looked the adapter up
\* and not yet counted itself is missed by Drain.
ReloadIsSeamless ==
    \A c \in Callers : caller[c].pc = "failed" => cause[caller[c].proc] = "forced"

\* "merges the provided configuration and re-initializes the running plugin
\* instance" (UpdatePluginConfig): an instance that a reload is launching has
\* read the configuration before and replaces the re-initialized one.
ConfigIsApplied ==
    \A p \in Plugins :
       instances[p] # None /\ proc[instances[p]].state = "live" =>
          proc[instances[p]].config = config
=============================================================================
