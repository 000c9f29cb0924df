-------------------------- MODULE PluginHostProofs --------------------------
(***************************************************************************)
(* Proofs about the plugin host, for any number of plugins, providers,     *)
(* versions, reload requests and callers, and for every value of the       *)
(* bounds.                                                                 *)
(*                                                                         *)
(* The argument is about who has a process in hand. A process that was     *)
(* launched belongs to the one ReloadAll that launched it, and nobody else *)
(* knows of it; Swap and StartRegister publish it, once, into the map and  *)
(* the registry; from then on it can only be replaced, drained and killed. *)
(***************************************************************************)
EXTENDS PluginHost, TLAPS

Reloading == {"launch", "init", "swap", "start"}

\* What a ReloadAll holds at each of its steps.
HoldsOf(r) ==
    /\ reloader[r].pc \in Reloading <=> reloader[r].plugin # None
    /\ reloader[r].pc \in {"init", "swap", "start"} <=> reloader[r].new # None
    /\ reloader[r].old # None => reloader[r].pc \in {"launch", "init", "swap"}
    /\ reloader[r].pc = "swap" => reloader[r].old # None
Hands == \A r \in Reloaders : HoldsOf(r)

\* Processes are numbered in the order of their launch.
Numbered ==
    \A i \in Processes :
       /\ i <= launched <=> proc[i].state # "unborn"
       /\ i <= launched => proc[i].offer \in Offers /\ proc[i].plugin \in Plugins

\* Whatever refers to a process refers to one that was launched, and the map
\* and the reloads have it under its own plugin.
Known ==
    /\ \A p \in Plugins : instances[p] # None =>
          instances[p] <= launched /\ proc[instances[p]].plugin = p
    /\ \A r \in Reloaders : reloader[r].old # None =>
          reloader[r].old <= launched /\ proc[reloader[r].old].plugin = reloader[r].plugin
    /\ \A b \in Providers, p \in Plugins : route[b][p] # None => route[b][p] <= launched
    /\ \A c \in Callers : caller[c].pc # "idle" => caller[c].proc \in 1..launched
    /\ \A i \in Processes : drain[i] # "no" => i <= launched

\* The process that a ReloadAll is launching is known to nobody else.
Unshared ==
    \A r \in Reloaders :
       LET i == reloader[r].new
       IN  i # None =>
              /\ i <= launched
              /\ proc[i].state \in {"live", "crashed"}
              /\ proc[i].plugin = reloader[r].plugin
              /\ drain[i] = "no"
              /\ \A s \in Reloaders : (reloader[s].new = i => s = r) /\ reloader[s].old # i
              /\ \A p \in Plugins : instances[p] # i
              /\ \A b \in Providers, p \in Plugins : route[b][p] # i
              /\ \A c \in Callers : caller[c].pc # "idle" => caller[c].proc # i

\* A process that is drained was taken out of the map.
DrainedIsOut ==
    \A i \in Processes, p \in Plugins : drain[i] # "no" => instances[p] # i

Handover == TypeOK /\ Hands /\ Numbered /\ Known /\ Unshared /\ DrainedIsOut /\ CurrentIsRouted

\* Calls run on live processes, and one that runs on a process that was found
\* idle began after that.
CallsRunLive ==
    \A c \in Callers :
       LET i == caller[c].proc
       IN  /\ caller[c].pc = "calling" =>
                 proc[i].state = "live" /\ (drain[i] = "drained" => caller[c].late)
           /\ caller[c].pc = "failed" => proc[i].state = "killed"

\* What the registry has for a plugin is a process of that plugin that declares
\* the provider, and that nobody drains or has killed.
RoutedIsKept ==
    /\ \A r \in Reloaders :
          reloader[r].old # None /\ reloader[r].new # None => reloader[r].old < reloader[r].new
    /\ \A b \in Providers, p \in Plugins :
          LET i == route[b][p]
          IN  i # None =>
                 /\ b \in proc[i].offer /\ proc[i].plugin = p
                 /\ drain[i] = "no" /\ proc[i].state # "killed"

\* A Start that has the lock has closed the instance it replaces.
ReplacedIsKilled ==
    mu \in Reloaders =>
       LET i == instances[reloader[mu].plugin]
       IN  i # None => proc[i].state = "killed"

\* What a Reload read is what it replaces, unless Close took it first.
OldIsCurrent ==
    \A r \in Reloaders : reloader[r].old # None =>
       instances[reloader[r].plugin] \in {reloader[r].old, None}

\* No later process of a plugin declares less than an earlier one.
NoProviderDropped ==
    \A i, k \in 1..launched :
       i < k /\ proc[i].plugin = proc[k].plugin => proc[i].offer \subseteq proc[k].offer

\* One request at a time.
NoOverlap ==
    \A r, s \in Reloaders : reloader[r].pc # "idle" /\ reloader[s].pc # "idle" => r = s
----------------------------------------------------------------------------
(***************************************************************************)
(* Types                                                                   *)
(***************************************************************************)
LEMMA InitTypes == Init => TypeOK
<1> SUFFICES ASSUME Init PROVE TypeOK
  OBVIOUS
<1>1. reloader \in [Reloaders -> ReloadTypes] /\ caller \in [Callers -> CallTypes]
  BY DEF Init, ReloadTypes, CallTypes, Resting, Quiet
<1>2. proc \in [Processes -> ProcTypes]
  BY DEF Init, ProcTypes, NoProc
<1>3. launched \in 0..MaxProcesses
  BY PluginAssumption DEF Init
<1>4. spent \in [installs : Nat, failures : Nat, updates : Nat]
  BY DEF Init
<1>5. /\ drain \in [Processes -> {"no", "draining", "drained", "forced"}]
      /\ instances \in [Plugins -> Processes \cup {None}]
      /\ route \in [Providers -> [Plugins -> Processes \cup {None}]]
      /\ cause \in [Processes -> Causes \cup {"none"}]
  BY DEF Init
<1> QED BY <1>1, <1>2, <1>3, <1>4, <1>5, PluginAssumption
        DEF Init, TypeOK

\* What Kill leaves: only the one process and the calls on it change.
LEMMA KillEffect ==
    ASSUME TypeOK, NEW i \in Processes, NEW why \in Causes,
           Kill(i, why)
    PROVE  /\ proc' \in [Processes -> ProcTypes] /\ caller' \in [Callers -> CallTypes]
           /\ cause' \in [Processes -> Causes \cup {"none"}]
           /\ \A k \in Processes :
                 /\ proc'[k].plugin = proc[k].plugin /\ proc'[k].offer = proc[k].offer
                 /\ proc'[k].state = IF k = i THEN "killed" ELSE proc[k].state
                 /\ cause'[k] = IF k = i /\ proc[k].state = "live" THEN why ELSE cause[k]
           /\ \A c \in Callers :
                 /\ caller'[c].proc = caller[c].proc /\ caller'[c].late = caller[c].late
                 /\ caller'[c].pc = IF caller[c].pc = "calling" /\ caller[c].proc = i
                                    THEN "failed" ELSE caller[c].pc
<1>1. /\ proc' \in [Processes -> ProcTypes]
      /\ \A k \in Processes :
            /\ proc'[k].plugin = proc[k].plugin /\ proc'[k].offer = proc[k].offer
            /\ proc'[k].state = IF k = i THEN "killed" ELSE proc[k].state
  <2>1. \A k \in Processes : proc[k] \in ProcTypes
    BY DEF TypeOK
  <2> DEFINE t == [proc[i] EXCEPT !.state = "killed"]
  <2>2. /\ t \in ProcTypes /\ t.state = "killed"
        /\ t.plugin = proc[i].plugin /\ t.offer = proc[i].offer
    BY <2>1 DEF ProcTypes
  <2>3. proc' = [proc EXCEPT ![i] = t]
    BY DEF Kill, TypeOK
  <2> HIDE DEF t
  <2> QED BY <2>1, <2>2, <2>3 DEF TypeOK
<1>2. /\ caller' \in [Callers -> CallTypes]
      /\ \A c \in Callers :
            /\ caller'[c].proc = caller[c].proc /\ caller'[c].late = caller[c].late
            /\ caller'[c].pc = IF caller[c].pc = "calling" /\ caller[c].proc = i
                               THEN "failed" ELSE caller[c].pc
  <2>1. caller' = [c \in Callers |-> IF caller[c].pc = "calling" /\ caller[c].proc = i
                                     THEN [caller[c] EXCEPT !.pc = "failed"] ELSE caller[c]]
    BY DEF Kill, ActiveCalls
  <2>2. \A c \in Callers : caller[c] \in CallTypes
    BY DEF TypeOK
  <2>3. \A c \in Callers : [caller[c] EXCEPT !.pc = "failed"] \in CallTypes
    BY <2>2 DEF CallTypes
  <2> QED BY <2>1, <2>2, <2>3 DEF CallTypes
<1>3. /\ cause' \in [Processes -> Causes \cup {"none"}]
      /\ \A k \in Processes :
            cause'[k] = IF k = i /\ proc[k].state = "live" THEN why ELSE cause[k]
  BY DEF Kill, TypeOK
<1> QED BY <1>1, <1>2, <1>3

\* What a ReloadAll holds after it is done with a plugin.
LEMMA NextPluginEffect ==
    ASSUME TypeOK, NEW r \in Reloaders, reloader' = NextPlugin(r)
    PROVE  /\ reloader' \in [Reloaders -> ReloadTypes]
           /\ reloader'[r].pc \in {"scan", "reload"}
           /\ reloader'[r].plugin = None /\ reloader'[r].old = None /\ reloader'[r].new = None
           /\ \A s \in Reloaders \ {r} : reloader'[s] = reloader[s]
<1>1. \A s \in Reloaders : reloader[s] \in ReloadTypes
  BY DEF TypeOK
<1> DEFINE one == reloader[r].old = None
           t == [reloader[r] EXCEPT !.pc = IF one THEN "scan" ELSE "reload",
                                    !.ids = @ \ {reloader[r].plugin},
                                    !.found = IF one THEN @ \ {reloader[r].plugin} ELSE @,
                                    !.plugin = None, !.old = None, !.new = None]
<1>2. /\ t \in ReloadTypes /\ t.pc \in {"scan", "reload"}
      /\ t.plugin = None /\ t.old = None /\ t.new = None
  BY <1>1 DEF ReloadTypes
<1>3. reloader' = [reloader EXCEPT ![r] = t]
  BY DEF NextPlugin, TypeOK
<1> HIDE DEF t
<1> QED BY <1>1, <1>2, <1>3 DEF TypeOK

LEMMA RegisterTypes ==
    ASSUME TypeOK, NEW p \in Plugins, NEW i \in Processes
    PROVE  /\ Registered(p, i) \in [Providers -> [Plugins -> Processes \cup {None}]]
           /\ Unregistered(p) \in [Providers -> [Plugins -> Processes \cup {None}]]
           /\ \A b \in Providers, q \in Plugins :
                 /\ Registered(p, i)[b][q] = IF q = p /\ b \in proc[i].offer THEN i ELSE route[b][q]
                 /\ Unregistered(p)[b][q] = IF q = p THEN None ELSE route[b][q]
BY DEF Registered, Unregistered, TypeOK
----------------------------------------------------------------------------
\* A step in which one ReloadAll only notes something.
LEMMA Noted ==
    ASSUME Handover, NEW r \in Reloaders, NEW t \in ReloadTypes,
           reloader[r].pc # "start", reloader' = [reloader EXCEPT ![r] = t], HoldsOf(r)',
           t.new = None, t.old # None => t.old = instances[t.plugin],
           UNCHANGED <<binary, proc, launched, drain, manager, route, caller, host,
                       closeWait, spent, cause>>
    PROVE  Handover'
<1> USE PluginAssumption DEF manager
<1>1. mu # r /\ reloader'[r] = t /\ \A s \in Reloaders \ {r} : reloader'[s] = reloader[s]
  BY DEF Handover, TypeOK
<1>2. TypeOK'
  <2>1. reloader' \in [Reloaders -> ReloadTypes]
    BY DEF Handover, TypeOK
  <2>2. mu' \in Reloaders => reloader'[mu'].pc = "start"
    BY <1>1 DEF Handover, TypeOK
  <2> QED BY <2>1, <2>2 DEF Handover, TypeOK
<1>3. Hands'
  BY <1>1 DEF Handover, Hands, HoldsOf
<1>4. Numbered' /\ DrainedIsOut'
  BY DEF Handover, Numbered, DrainedIsOut
<1>5. Known'
  <2>1. t.old # None => t.plugin \in Plugins
    BY <1>1 DEF HoldsOf, Reloading, ReloadTypes
  <2> QED BY <1>1, <2>1 DEF Handover, Known
<1>6. Unshared'
  <2>1. t.old # None => t.plugin \in Plugins
    BY <1>1 DEF HoldsOf, Reloading, ReloadTypes
  <2> QED BY <1>1, <2>1 DEF Handover, Unshared
<1>7. CurrentIsRouted'
  BY <1>1 DEF Handover, CurrentIsRouted
<1> QED BY <1>2, <1>3, <1>4, <1>5, <1>6, <1>7 DEF Handover

Notes(r) ==
    \/ DiscoverPlugins(r) \/ ListRunning(r) \/ LaunchFails(r) \/ ReloadAllReturns(r)
    \/ \E p \in Plugins : ReadOld(r, p) \/ StartNew(r, p)

LEMMA NotesHandover ==
    ASSUME Handover, NEW r \in Reloaders, Notes(r)
    PROVE  Handover'
<1> USE PluginAssumption
<1>1. /\ reloader[r] \in ReloadTypes /\ HoldsOf(r)
      /\ reloader \in [Reloaders -> ReloadTypes]
  BY DEF Handover, TypeOK, Hands
<1>2. CASE DiscoverPlugins(r)
  <2> DEFINE t == [reloader[r] EXCEPT !.pc = "discovered",
                                      !.found = {p \in Plugins : binary[p] # NoOffer}]
  <2>1. t \in ReloadTypes /\ reloader' = [reloader EXCEPT ![r] = t] /\ reloader[r].pc = "idle"
    BY <1>1, <1>2 DEF DiscoverPlugins, ReloadTypes
  <2>2. HoldsOf(r)' /\ t.new = None /\ t.old = None
    BY <1>1, <2>1 DEF HoldsOf, Reloading, ReloadTypes
  <2> QED BY <1>2, <2>1, <2>2, Noted DEF DiscoverPlugins
<1>3. CASE ListRunning(r)
  <2> DEFINE t == [reloader[r] EXCEPT !.pc = "reload",
                                      !.ids = {p \in Plugins : instances[p] # None}]
  <2>1. t \in ReloadTypes /\ reloader' = [reloader EXCEPT ![r] = t]
        /\ reloader[r].pc = "discovered"
    BY <1>1, <1>3 DEF ListRunning, ReloadTypes
  <2>2. HoldsOf(r)' /\ t.new = None /\ t.old = None
    BY <1>1, <2>1 DEF HoldsOf, Reloading, ReloadTypes
  <2> QED BY <1>3, <2>1, <2>2, Noted DEF ListRunning
<1>4. CASE LaunchFails(r)
  <2> DEFINE t == reloader'[r]
  <2>1. /\ t \in ReloadTypes /\ t.new = None /\ t.old = None /\ t.plugin = None
        /\ t.pc \in {"scan", "reload"}
        /\ reloader' = [reloader EXCEPT ![r] = t]
    BY <1>1, <1>4, NextPluginEffect DEF LaunchFails, Handover
  <2>2. HoldsOf(r)'
    BY <2>1 DEF HoldsOf, Reloading
  <2> HIDE DEF t
  <2> QED BY <1>4, <2>1, <2>2, Noted DEF LaunchFails
<1>5. CASE ReloadAllReturns(r)
  <2>1. Resting \in ReloadTypes /\ Resting.new = None /\ Resting.old = None
    BY DEF Resting, ReloadTypes
  <2>2. HoldsOf(r)'
    BY <1>1, <1>5 DEF ReloadAllReturns, HoldsOf, Reloading, Resting
  <2> QED BY <1>5, <2>1, <2>2, Noted DEF ReloadAllReturns
<1>6. ASSUME NEW p \in Plugins, ReadOld(r, p)
      PROVE  Handover'
  <2> DEFINE t == IF instances[p] = None
                  THEN [reloader[r] EXCEPT !.ids = @ \ {p}]
                  ELSE [reloader[r] EXCEPT !.pc = "launch", !.plugin = p, !.old = instances[p]]
  <2>1. instances[p] \in Processes \cup {None}
    BY DEF Handover, TypeOK
  <2>2. t \in ReloadTypes /\ reloader' = [reloader EXCEPT ![r] = t] /\ reloader[r].pc = "reload"
    BY <1>1, <1>6, <2>1 DEF ReadOld, ReloadTypes
  <2>3. HoldsOf(r)' /\ t.new = None /\ (t.old # None => t.old = instances[t.plugin])
    BY <1>1, <2>1, <2>2 DEF HoldsOf, Reloading, ReloadTypes
  <2> QED BY <1>6, <2>2, <2>3, Noted DEF ReadOld
<1>7. ASSUME NEW p \in Plugins, StartNew(r, p)
      PROVE  Handover'
  <2> DEFINE t == IF p \in paths
                  THEN [reloader[r] EXCEPT !.pc = "scan", !.found = @ \ {p}]
                  ELSE [reloader[r] EXCEPT !.pc = "launch", !.plugin = p]
  <2>1. t \in ReloadTypes /\ reloader' = [reloader EXCEPT ![r] = t]
        /\ reloader[r].pc \in {"scan", "reload"}
    BY <1>1, <1>7 DEF StartNew, ReloadTypes
  <2>2. HoldsOf(r)' /\ t.new = None /\ t.old = None
    BY <1>1, <2>1 DEF HoldsOf, Reloading, ReloadTypes
  <2> QED BY <1>7, <2>1, <2>2, Noted DEF StartNew
<1> QED BY <1>2, <1>3, <1>4, <1>5, <1>6, <1>7 DEF Notes
----------------------------------------------------------------------------
\* A step that changes no binding of a process to a plugin, and in which a
\* process at most crashes: nothing that the invariant is about is disturbed.
LEMMA ProcessesRunOn ==
    ASSUME Handover, TypeOK', UNCHANGED <<launched, drain, instances, mu, route, reloader>>,
           \A i \in Processes :
              /\ proc'[i].plugin = proc[i].plugin /\ proc'[i].offer = proc[i].offer
              /\ \/ proc'[i].state = proc[i].state
                 \/ proc[i].state = "live" /\ proc'[i].state = "crashed",
           \A c \in Callers : caller'[c].pc # "idle" =>
              caller[c].pc # "idle" /\ caller'[c].proc = caller[c].proc
    PROVE  Handover'
<1> USE PluginAssumption
<1>1. Hands' /\ DrainedIsOut'
  BY DEF Handover, Hands, HoldsOf, DrainedIsOut
<1>2. Numbered'
  BY DEF Handover, Numbered
<1>3. Known' /\ Unshared'
  <2>1. /\ \A p \in Plugins : instances[p] \in Processes \cup {None}
        /\ \A r \in Reloaders : /\ reloader[r].new \in Processes \cup {None}
                               /\ reloader[r].old \in Processes \cup {None}
    BY DEF Handover, TypeOK, ReloadTypes
  <2>2. Known'
    BY <2>1 DEF Handover, Known
  <2>3. Unshared'
    BY <2>1 DEF Handover, Unshared
  <2> QED BY <2>2, <2>3
<1>4. CurrentIsRouted'
  BY DEF Handover, CurrentIsRouted, TypeOK
<1> QED BY <1>1, <1>2, <1>3, <1>4 DEF Handover

LEMMA CrashHandover ==
    ASSUME Handover, NEW i \in Processes, Crash(i)
    PROVE  Handover'
<1> USE PluginAssumption
<1>1. /\ proc' \in [Processes -> ProcTypes]
      /\ \A k \in Processes :
            /\ proc'[k].plugin = proc[k].plugin /\ proc'[k].offer = proc[k].offer
            /\ \/ proc'[k].state = proc[k].state
               \/ proc[k].state = "live" /\ proc'[k].state = "crashed"
  <2> DEFINE t == [proc[i] EXCEPT !.state = "crashed"]
  <2>1. proc[i] \in ProcTypes /\ proc \in [Processes -> ProcTypes]
    BY DEF Handover, TypeOK
  <2>2. /\ t \in ProcTypes /\ t.state = "crashed"
        /\ t.plugin = proc[i].plugin /\ t.offer = proc[i].offer
    BY <2>1 DEF ProcTypes
  <2>3. proc' = [proc EXCEPT ![i] = t] /\ proc[i].state = "live"
    BY <2>1 DEF Crash
  <2> HIDE DEF t
  <2> QED BY <2>1, <2>2, <2>3
<1>2. /\ caller' \in [Callers -> CallTypes]
      /\ \A c \in Callers : caller'[c].pc # "idle" => caller'[c] = caller[c]
  <2>1. Quiet \in CallTypes /\ Quiet.pc = "idle" /\ caller \in [Callers -> CallTypes]
    BY DEF Quiet, CallTypes, Handover, TypeOK
  <2>2. caller' = [c \in Callers |-> IF c \in ActiveCalls(i) THEN Quiet ELSE caller[c]]
    BY DEF Crash
  <2> QED BY <2>1, <2>2
<1>3. spent' \in [installs : Nat, failures : Nat, updates : Nat]
  BY DEF Crash, Spend, Handover, TypeOK
<1>4. TypeOK'
  BY <1>1, <1>2, <1>3 DEF Crash, manager, Handover, TypeOK
<1> QED BY <1>1, <1>2, <1>4, ProcessesRunOn DEF Crash, manager

LEMMA RequestsHandover ==
    ASSUME Handover, Requests
    PROVE  Handover'
<1> USE PluginAssumption
<1>1. spent \in [installs : Nat, failures : Nat, updates : Nat]
  BY DEF Handover, TypeOK
<1>2. ASSUME NEW p \in Plugins, NEW ok \in BOOLEAN, UpdatePluginConfig(p, ok)
      PROVE  Handover'
  <2>1. instances[p] \in Processes /\ proc \in [Processes -> ProcTypes] /\ config \in Nat
    BY <1>2 DEF UpdatePluginConfig, Handover, TypeOK
  <2> DEFINE t == [proc[instances[p]] EXCEPT !.config = config + 1]
  <2>2. t \in ProcTypes /\ \A f \in {"plugin", "offer", "state"} : t[f] = proc[instances[p]][f]
    BY <2>1 DEF ProcTypes
  <2>3. proc' = proc \/ proc' = [proc EXCEPT ![instances[p]] = t]
    BY <1>2, <2>1 DEF UpdatePluginConfig
  <2> HIDE DEF t
  <2>4. /\ proc' \in [Processes -> ProcTypes]
        /\ \A k \in Processes : /\ proc'[k].plugin = proc[k].plugin
                                /\ proc'[k].offer = proc[k].offer
                                /\ proc'[k].state = proc[k].state
    BY <2>1, <2>2, <2>3
  <2>5. spent' \in [installs : Nat, failures : Nat, updates : Nat] /\ config' \in Nat
    <3>1. config' = config + 1
      BY <1>2 DEF UpdatePluginConfig
    <3>2. PICK n \in Nat : spent' = [spent EXCEPT !.updates = @ + 1, !.failures = n]
      <4> DEFINE n == IF ok THEN spent.failures ELSE spent.failures + 1
      <4>1. n \in Nat
        BY <1>1
      <4>2. spent' = [spent EXCEPT !.updates = @ + 1, !.failures = n]
        BY <1>1, <1>2 DEF UpdatePluginConfig
      <4> HIDE DEF n
      <4> QED BY <4>1, <4>2
    <3>3. spent' \in [installs : Nat, failures : Nat, updates : Nat]
      <4> DEFINE u == [spent EXCEPT !.updates = @ + 1]
      <4>1. u \in [installs : Nat, failures : Nat, updates : Nat]
        BY <1>1
      <4>2. spent' = [u EXCEPT !.failures = n]
        BY <3>2
      <4> HIDE DEF u
      <4> QED BY <4>1, <4>2
    <3> QED BY <2>1, <3>1, <3>3
  <2>6. TypeOK'
    BY <1>2, <2>4, <2>5 DEF UpdatePluginConfig, Handover, TypeOK
  <2> QED BY <1>2, <2>4, <2>6, ProcessesRunOn DEF UpdatePluginConfig
<1>3. ASSUME NEW p \in Plugins, NEW o \in Offers \cup {NoOffer}, Install(p, o)
      PROVE  Handover'
  <2>1. spent' \in [installs : Nat, failures : Nat, updates : Nat]
    BY <1>1, <1>3 DEF Install, Spend
  <2>2. TypeOK'
    BY <1>3, <2>1 DEF Install, manager, Handover, TypeOK
  <2> QED BY <1>3, <2>2, ProcessesRunOn DEF Install, manager
<1> QED BY <1>2, <1>3 DEF Requests

LEMMA CallsHandover ==
    ASSUME Handover, Calls
    PROVE  Handover'
<1> USE PluginAssumption
<1> DEFINE Same == UNCHANGED <<binary, proc, launched, drain, manager, route, reloader, host,
                               closeWait, spent, cause>>
<1>1. ASSUME Same, caller' \in [Callers -> CallTypes]
      PROVE  TypeOK'
  BY <1>1 DEF manager, Handover, TypeOK
<1>2. caller \in [Callers -> CallTypes] /\ Quiet \in CallTypes /\ Quiet.pc = "idle"
  BY DEF Quiet, CallTypes, Handover, TypeOK
<1>3. ASSUME NEW c \in Callers, StartCall(c) \/ CallReturns(c)
      PROVE  Handover'
  <2>1. \A l \in BOOLEAN, q \in {"calling", "failed"} :
           /\ [caller[c] EXCEPT !.pc = q, !.late = l] \in CallTypes
           /\ [caller[c] EXCEPT !.pc = q, !.late = l].proc = caller[c].proc
    BY <1>2 DEF CallTypes
  <2>2. PICK t \in CallTypes : /\ caller' = [caller EXCEPT ![c] = t]
                               /\ t.pc # "idle" => t.proc = caller[c].proc
    <3>1. CASE StartCall(c)
      <4> DEFINE i == caller[c].proc
      <4>1. (drain[i] = "drained") \in BOOLEAN
        OBVIOUS
      <4>2. \/ caller' = [caller EXCEPT ![c] = Quiet]
            \/ caller' = [caller EXCEPT ![c] = [@ EXCEPT !.pc = "calling",
                                                        !.late = drain[i] = "drained"]]
            \/ caller' = [caller EXCEPT ![c] = [@ EXCEPT !.pc = "failed", !.late = TRUE]]
        BY <1>2, <3>1 DEF StartCall
      <4> QED BY <1>2, <2>1, <4>1, <4>2
    <3>2. CASE CallReturns(c)
      BY <1>2, <3>2 DEF CallReturns
    <3> QED BY <1>3, <3>1, <3>2
  <2>3. caller[c].pc # "idle" /\ Same
    BY <1>3 DEF StartCall, CallReturns
  <2>4. /\ caller' \in [Callers -> CallTypes]
        /\ \A k \in Callers : caller'[k].pc # "idle" =>
              caller[k].pc # "idle" /\ caller'[k].proc = caller[k].proc
    BY <1>2, <2>2, <2>3
  <2> QED BY <1>1, <2>3, <2>4, ProcessesRunOn DEF manager
<1>4. ASSUME NEW c \in Callers, NEW b \in Providers, NEW p \in Plugins, Lookup(c, b, p)
      PROVE  Handover'
  <2>1. route[b][p] \in Processes
    BY <1>4 DEF Lookup, Handover, TypeOK
  <2> DEFINE t == [pc |-> "found", proc |-> route[b][p], late |-> FALSE]
  <2>2. t \in CallTypes /\ t.proc = route[b][p]
    BY <2>1 DEF CallTypes
  <2>3. caller' = [caller EXCEPT ![c] = t] /\ Same
    BY <1>4 DEF Lookup
  <2> HIDE DEF t
  <2>4. TypeOK'
    BY <1>1, <1>2, <2>2, <2>3
  <2>5. Hands' /\ Numbered' /\ DrainedIsOut'
    BY <2>3 DEF manager, Handover, Hands, HoldsOf, Numbered, DrainedIsOut
  <2>6. CurrentIsRouted'
    BY <2>3 DEF manager, Handover, CurrentIsRouted
  <2>7. \A k \in Callers : caller'[k].pc # "idle" =>
           \/ caller[k].pc # "idle" /\ caller'[k].proc = caller[k].proc
           \/ caller'[k].proc = route[b][p]
    BY <1>2, <2>2, <2>3
  <2>8. Known'
    BY <2>1, <2>3, <2>7 DEF manager, Handover, Known, TypeOK, Processes
  <2>9. Unshared'
    BY <2>1, <2>3, <2>7 DEF manager, Handover, Unshared
  <2> QED BY <2>4, <2>5, <2>6, <2>8, <2>9 DEF Handover
<1> QED BY <1>3, <1>4 DEF Calls
----------------------------------------------------------------------------
(***************************************************************************)
(* A process is launched, initialised, and given up                        *)
(***************************************************************************)
LEMMA LaunchHandover ==
    ASSUME Handover, NEW r \in Reloaders, Launch(r)
    PROVE  Handover'
<1> USE PluginAssumption
<1> DEFINE p == reloader[r].plugin
           i == launched + 1
           t == [reloader[r] EXCEPT !.pc = "init", !.new = i]
           q == [NoProc EXCEPT !.state = "live", !.plugin = p, !.offer = binary[p]]
<1>1. /\ reloader \in [Reloaders -> ReloadTypes] /\ HoldsOf(r) /\ reloader[r].pc = "launch"
      /\ proc \in [Processes -> ProcTypes] /\ i \in Processes /\ launched \in Nat
      /\ mu # r /\ launched' = i
  BY DEF Launch, Handover, TypeOK, Hands, Processes
<1>2. p \in Plugins /\ binary[p] \in Offers
  BY <1>1 DEF Launch, HoldsOf, Reloading, ReloadTypes, Handover, TypeOK
<1>3. /\ t \in ReloadTypes /\ t.pc = "init" /\ t.new = i /\ t.plugin = p
      /\ t.old = reloader[r].old
  BY <1>1 DEF ReloadTypes
<1>4. q \in ProcTypes /\ q.state = "live" /\ q.plugin = p /\ q.offer = binary[p]
  BY <1>2 DEF ProcTypes, NoProc
<1>5. reloader' = [reloader EXCEPT ![r] = t]
  BY <1>1 DEF Launch
<1>6. proc' = [proc EXCEPT ![i] = q]
  BY DEF Launch
<1> HIDE DEF t, q
<1>7. /\ reloader'[r] = t /\ \A s \in Reloaders \ {r} : reloader'[s] = reloader[s]
      /\ proc'[i] = q /\ \A k \in Processes \ {i} : proc'[k] = proc[k]
  BY <1>1, <1>5, <1>6
<1>8. UNCHANGED <<binary, drain, instances, paths, config, mu, route, caller, host, closeWait,
                  spent, cause>>
  BY DEF Launch, manager
<1>9. TypeOK'
  <2>1. reloader' \in [Reloaders -> ReloadTypes] /\ proc' \in [Processes -> ProcTypes]
    BY <1>1, <1>3, <1>4, <1>5, <1>6
  <2>2. launched' \in 0..MaxProcesses
    BY <1>1 DEF Processes
  <2>3. mu' \in Reloaders => reloader'[mu'].pc = "start"
    BY <1>1, <1>7, <1>8 DEF Handover, TypeOK
  <2> QED BY <1>8, <2>1, <2>2, <2>3 DEF Handover, TypeOK
<1>10. Hands'
  BY <1>1, <1>2, <1>3, <1>7 DEF Handover, Hands, HoldsOf, Reloading, Processes
<1>11. Numbered'
  BY <1>1, <1>2, <1>4, <1>7 DEF Handover, Numbered, Processes
<1>12. \A k \in Processes \cup {None} : k # None /\ k <= launched => k \in Processes \ {i} /\ k <= i
  BY <1>1 DEF Processes
<1>13. /\ \A k \in Plugins : instances[k] \in Processes \cup {None}
       /\ \A s \in Reloaders : /\ reloader[s].new \in Processes \cup {None}
                               /\ reloader[s].old \in Processes \cup {None}
       /\ \A b \in Providers, k \in Plugins : route[b][k] \in Processes \cup {None}
       /\ \A c \in Callers : caller[c].proc \in Processes \cup {None}
  BY DEF Handover, TypeOK, ReloadTypes, CallTypes
<1>14. Known'
  <2>1. \A c \in Callers : caller[c].pc # "idle" => caller[c].proc \in 1..i
    BY <1>1, <1>12, <1>13 DEF Handover, Known, Processes
  <2>2. \A k \in Processes : drain[k] # "no" => k <= i
    BY <1>1 DEF Handover, Known, Processes
  <2>3. \A s \in Reloaders : reloader'[s].old = reloader[s].old
                          /\ reloader'[s].plugin = reloader[s].plugin
    BY <1>3, <1>7
  <2> QED BY <1>1, <1>7, <1>8, <1>12, <1>13, <2>1, <2>2, <2>3 DEF Handover, Known
<1>15. Unshared'
  <2>1. /\ drain[i] = "no"
        /\ \A k \in Plugins : instances[k] # i
        /\ \A b \in Providers, k \in Plugins : route[b][k] # i
        /\ \A c \in Callers : caller[c].pc # "idle" => caller[c].proc # i
        /\ \A s \in Reloaders : reloader[s].old # i
    BY <1>1, <1>12 DEF Handover, Known, Processes
  <2>2. \A s \in Reloaders : reloader[s].new # i
    BY <1>1, <1>12 DEF Handover, Unshared, Processes
  <2>3. \A s \in Reloaders : reloader'[s].old = reloader[s].old
                          /\ reloader'[s].plugin = reloader[s].plugin
    BY <1>3, <1>7
  <2>4. \A s \in Reloaders \ {r} : reloader'[s].new = reloader[s].new
    BY <1>7
  <2>5. reloader'[r].new = i /\ reloader[r].new = None
    BY <1>1, <1>3, <1>7 DEF HoldsOf
  <2>6. ASSUME NEW s \in Reloaders, reloader'[s].new # None
        PROVE  /\ reloader'[s].new <= i
               /\ proc'[reloader'[s].new].state \in {"live", "crashed"}
               /\ proc'[reloader'[s].new].plugin = reloader'[s].plugin
    BY <1>1, <1>4, <1>7, <1>12, <1>13, <2>3, <2>4, <2>5, <2>6 DEF Handover, Unshared, Processes
  <2>7. ASSUME NEW s \in Reloaders, reloader'[s].new # None
        PROVE  /\ drain[reloader'[s].new] = "no"
               /\ \A u \in Reloaders : (reloader'[u].new = reloader'[s].new => u = s)
                                    /\ reloader'[u].old # reloader'[s].new
               /\ \A k \in Plugins : instances[k] # reloader'[s].new
               /\ \A b \in Providers, k \in Plugins : route[b][k] # reloader'[s].new
               /\ \A c \in Callers : caller[c].pc # "idle" => caller[c].proc # reloader'[s].new
    <3>1. CASE s = r
      BY <2>1, <2>2, <2>3, <2>4, <2>5, <3>1
    <3>2. CASE s # r
      BY <2>2, <2>3, <2>4, <2>5, <2>7, <3>2 DEF Handover, Unshared
    <3> QED BY <3>1, <3>2
  <2> QED BY <1>1, <1>8, <2>6, <2>7 DEF Unshared
<1>16. DrainedIsOut'
  BY <1>8 DEF Handover, DrainedIsOut
<1>17. CurrentIsRouted'
  BY <1>1, <1>3, <1>7, <1>8, <1>12, <1>13 DEF Handover, CurrentIsRouted, Known
<1> QED BY <1>9, <1>10, <1>11, <1>14, <1>15, <1>16, <1>17 DEF Handover
----------------------------------------------------------------------------
\* The ranges of what refers to processes, for the steps below.
LEMMA Ranges ==
    ASSUME TypeOK
    PROVE  /\ \A p \in Plugins : instances[p] \in Processes \cup {None}
           /\ \A r \in Reloaders : /\ reloader[r].new \in Processes \cup {None}
                                   /\ reloader[r].old \in Processes \cup {None}
                                   /\ reloader[r].plugin \in Plugins \cup {None}
           /\ \A b \in Providers, p \in Plugins : route[b][p] \in Processes \cup {None}
           /\ \A c \in Callers : caller[c].proc \in Processes \cup {None}
           /\ \A i \in Processes : proc[i].offer \in Offers \cup {NoOffer}
BY DEF TypeOK, ReloadTypes, CallTypes, ProcTypes

LEMMA InitPluginHandover ==
    ASSUME Handover, NEW r \in Reloaders, InitPlugin(r)
    PROVE  Handover'
<1> USE PluginAssumption
<1> DEFINE i == reloader[r].new
           t == [reloader[r] EXCEPT !.pc = IF reloader[r].old = None THEN "start" ELSE "swap"]
           q == [proc[i] EXCEPT !.config = config]
<1>1. /\ reloader \in [Reloaders -> ReloadTypes] /\ HoldsOf(r) /\ reloader[r].pc = "init"
      /\ proc \in [Processes -> ProcTypes] /\ config \in Nat /\ mu # r
  BY DEF InitPlugin, Handover, TypeOK, Hands
<1>2. i \in Processes
  BY <1>1, Ranges DEF HoldsOf, Handover
<1>3. /\ t \in ReloadTypes /\ t.pc = IF reloader[r].old = None THEN "start" ELSE "swap"
      /\ t.new = i /\ t.plugin = reloader[r].plugin /\ t.old = reloader[r].old
  BY <1>1 DEF ReloadTypes
<1>4. /\ q \in ProcTypes /\ q.state = proc[i].state /\ q.plugin = proc[i].plugin
      /\ q.offer = proc[i].offer
  BY <1>1, <1>2 DEF ProcTypes
<1>5. reloader' = [reloader EXCEPT ![r] = t] /\ proc' = [proc EXCEPT ![i] = q]
  BY <1>1 DEF InitPlugin
<1> HIDE DEF t, q
<1>6. /\ \A s \in Reloaders : /\ reloader'[s].new = reloader[s].new
                              /\ reloader'[s].old = reloader[s].old
                              /\ reloader'[s].plugin = reloader[s].plugin
      /\ \A s \in Reloaders \ {r} : reloader'[s] = reloader[s]
      /\ \A k \in Processes : /\ proc'[k].state = proc[k].state
                              /\ proc'[k].plugin = proc[k].plugin
                              /\ proc'[k].offer = proc[k].offer
  BY <1>1, <1>3, <1>4, <1>5
<1>7. UNCHANGED <<binary, launched, drain, instances, paths, config, mu, route, caller, host,
                  closeWait, spent, cause>>
  BY DEF InitPlugin, manager
<1>8. TypeOK'
  <2>1. reloader' \in [Reloaders -> ReloadTypes] /\ proc' \in [Processes -> ProcTypes]
    BY <1>1, <1>3, <1>4, <1>5
  <2>2. mu' \in Reloaders => reloader'[mu'].pc = "start"
    BY <1>1, <1>6, <1>7 DEF Handover, TypeOK
  <2> QED BY <1>7, <2>1, <2>2 DEF Handover, TypeOK
<1>9. Hands'
  <2>1. HoldsOf(r)'
    BY <1>1, <1>3, <1>5 DEF HoldsOf, Reloading
  <2> QED BY <1>6, <2>1 DEF Handover, Hands, HoldsOf
<1>10. Numbered'
  BY <1>6, <1>7 DEF Handover, Numbered
<1>11. Known'
  BY <1>6, <1>7, Ranges DEF Handover, Known
<1>12. Unshared'
  BY <1>6, <1>7, Ranges DEF Handover, Unshared
<1>13. DrainedIsOut'
  BY <1>7 DEF Handover, DrainedIsOut
<1>14. CurrentIsRouted'
  BY <1>6, <1>7, Ranges DEF Handover, CurrentIsRouted
<1> QED BY <1>8, <1>9, <1>10, <1>11, <1>12, <1>13, <1>14 DEF Handover

LEMMA InitFailsHandover ==
    ASSUME Handover, NEW r \in Reloaders, InitFails(r)
    PROVE  Handover'
<1> USE PluginAssumption
<1> DEFINE i == reloader[r].new
<1>1. HoldsOf(r) /\ reloader[r].pc = "init" /\ mu # r
  BY DEF InitFails, Handover, TypeOK, Hands
<1>2. i \in Processes
  BY <1>1, Ranges DEF HoldsOf, Handover
<1>3. "broken" \in Causes
  BY DEF Causes
<1>4. /\ proc' \in [Processes -> ProcTypes] /\ caller' \in [Callers -> CallTypes]
      /\ cause' \in [Processes -> Causes \cup {"none"}]
      /\ \A k \in Processes :
            /\ proc'[k].plugin = proc[k].plugin /\ proc'[k].offer = proc[k].offer
            /\ proc'[k].state = IF k = i THEN "killed" ELSE proc[k].state
      /\ \A c \in Callers : caller'[c].proc = caller[c].proc
                         /\ (caller'[c].pc # "idle" => caller[c].pc # "idle")
  BY <1>2, <1>3, KillEffect DEF InitFails, Handover
<1>5. /\ reloader' \in [Reloaders -> ReloadTypes]
      /\ reloader'[r].pc \in {"scan", "reload"}
      /\ reloader'[r].plugin = None /\ reloader'[r].old = None /\ reloader'[r].new = None
      /\ \A s \in Reloaders \ {r} : reloader'[s] = reloader[s]
  BY NextPluginEffect DEF InitFails, Handover
<1>6. UNCHANGED <<binary, launched, drain, instances, paths, config, mu, route, host,
                  closeWait, spent>>
  BY DEF InitFails, manager
<1>7. /\ i <= launched
      /\ \A s \in Reloaders : (reloader[s].new = i => s = r) /\ reloader[s].old # i
      /\ \A p \in Plugins : instances[p] # i
      /\ proc[i].state # "unborn"
  BY <1>2 DEF Handover, Unshared
<1>8. TypeOK'
  <2>1. mu' \in Reloaders => reloader'[mu'].pc = "start"
    BY <1>1, <1>5, <1>6 DEF Handover, TypeOK
  <2> QED BY <1>4, <1>5, <1>6, <2>1 DEF Handover, TypeOK
<1>9. Hands'
  BY <1>5 DEF Handover, Hands, HoldsOf, Reloading
<1>10. Numbered'
  BY <1>4, <1>6, <1>7 DEF Handover, Numbered
<1>11. Known'
  BY <1>4, <1>5, <1>6, Ranges DEF Handover, Known
<1>12. Unshared'
  BY <1>4, <1>5, <1>6, <1>7, Ranges DEF Handover, Unshared
<1>13. DrainedIsOut'
  BY <1>6 DEF Handover, DrainedIsOut
<1>14. CurrentIsRouted'
  BY <1>1, <1>4, <1>5, <1>6, <1>7, Ranges DEF Handover, CurrentIsRouted
<1> QED BY <1>8, <1>9, <1>10, <1>11, <1>12, <1>13, <1>14 DEF Handover
----------------------------------------------------------------------------
(***************************************************************************)
(* A process is published                                                  *)
(***************************************************************************)
LEMMA Published ==
    ASSUME Handover, NEW r \in Reloaders, reloader[r].pc \in {"swap", "start"},
           mu \in {None, r}, mu' = None,
           instances' = [instances EXCEPT ![reloader[r].plugin] = reloader[r].new],
           paths' = paths \cup {reloader[r].plugin},
           route' = Registered(reloader[r].plugin, reloader[r].new),
           reloader' = NextPlugin(r),
           drain' \in [Processes -> {"no", "draining", "drained", "forced"}],
           \A k \in Processes : drain'[k] # drain[k] => k = reloader[r].old,
           UNCHANGED <<binary, proc, launched, config, caller, host, closeWait, spent, cause>>
    PROVE  Handover'
<1> USE PluginAssumption
<1> DEFINE i == reloader[r].new
           p == reloader[r].plugin
<1>1. /\ i \in Processes /\ p \in Plugins
      /\ i <= launched /\ proc[i].state \in {"live", "crashed"} /\ proc[i].plugin = p
      /\ drain[i] = "no" /\ reloader[r].old # i
      /\ \A s \in Reloaders : (reloader[s].new = i => s = r) /\ reloader[s].old # i
      /\ \A b \in Providers, k \in Plugins : route[b][k] # i
      /\ \A c \in Callers : caller[c].pc # "idle" => caller[c].proc # i
  <2>1. i # None /\ p # None
    BY DEF Handover, Hands, HoldsOf, Reloading
  <2> QED BY <2>1, Ranges DEF Handover, Unshared
<1>2. /\ reloader' \in [Reloaders -> ReloadTypes]
      /\ reloader'[r].pc \in {"scan", "reload"}
      /\ reloader'[r].plugin = None /\ reloader'[r].old = None /\ reloader'[r].new = None
      /\ \A s \in Reloaders \ {r} : reloader'[s] = reloader[s]
  BY NextPluginEffect DEF Handover
<1>3. /\ route' \in [Providers -> [Plugins -> Processes \cup {None}]]
      /\ \A b \in Providers, k \in Plugins :
            route'[b][k] = IF k = p /\ b \in proc[i].offer THEN i ELSE route[b][k]
  BY <1>1, RegisterTypes DEF Handover
<1>4. /\ instances' \in [Plugins -> Processes \cup {None}]
      /\ instances'[p] = i /\ \A k \in Plugins \ {p} : instances'[k] = instances[k]
  BY <1>1 DEF Handover, TypeOK
<1>5. TypeOK'
  BY <1>1, <1>2, <1>3, <1>4 DEF Handover, TypeOK
<1>6. Hands'
  BY <1>2 DEF Handover, Hands, HoldsOf, Reloading
<1>7. Numbered'
  BY DEF Handover, Numbered
<1>8. drain'[i] = "no"
  BY <1>1
<1>9. \A k \in Processes : drain'[k] # "no" => drain[k] # "no" \/ k = reloader[r].old
  OBVIOUS
<1>10. reloader[r].old # None => /\ reloader[r].old <= launched
                                 /\ proc[reloader[r].old].plugin = p
  BY DEF Handover, Known
<1>11. Known'
  <2>1. \A k \in Plugins : instances'[k] # None =>
           instances'[k] <= launched /\ proc[instances'[k]].plugin = k
    BY <1>1, <1>4 DEF Handover, Known
  <2>2. \A k \in Processes : drain'[k] # "no" => k <= launched
    BY <1>9, <1>10 DEF Handover, Known
  <2>3. \A b \in Providers, k \in Plugins : route'[b][k] # None => route'[b][k] <= launched
    BY <1>1, <1>3 DEF Handover, Known
  <2>4. \A s \in Reloaders : reloader'[s].old # None =>
           reloader'[s].old <= launched /\ proc[reloader'[s].old].plugin = reloader'[s].plugin
    BY <1>2 DEF Handover, Known
  <2> QED BY <2>1, <2>2, <2>3, <2>4 DEF Handover, Known
<1>12. Unshared'
  <2>1. ASSUME NEW s \in Reloaders, reloader'[s].new # None
        PROVE  /\ s # r /\ reloader'[s] = reloader[s] /\ reloader[s].new \in Processes
               /\ reloader[s].new # i /\ reloader[s].new # reloader[r].old
    BY <1>1, <1>2, <2>1, Ranges DEF Handover, Unshared
  <2>2. \A u \in Reloaders : /\ reloader'[u].new \in {reloader[u].new, None}
                            /\ reloader'[u].old \in {reloader[u].old, None}
    BY <1>2
  <2> QED BY <1>3, <1>4, <1>9, <2>1, <2>2 DEF Handover, Unshared
<1>13. DrainedIsOut'
  <2>1. \A k \in Plugins : reloader[r].old # None => instances'[k] # reloader[r].old
    BY <1>1, <1>4, <1>10 DEF Handover, Known
  <2> QED BY <1>4, <1>8, <1>9, <2>1 DEF Handover, DrainedIsOut
<1>14. CurrentIsRouted'
  <2>1. mu' \notin Reloaders
    OBVIOUS
  <2>2. proc[i].offer \subseteq Providers
    BY <1>1 DEF Handover, Numbered
  <2>3. ASSUME NEW k \in Plugins \ {p}, instances'[k] # None
        PROVE  /\ instances[k] = instances'[k] /\ proc[instances[k]].plugin = k
               /\ instances[k] # i /\ instances[k] # reloader[r].old
               /\ instances[k] \in Processes
               /\ ~(mu \in Reloaders /\ reloader[mu].plugin = k)
    BY <1>1, <1>4, <1>10, <2>3, Ranges DEF Handover, Known
  <2>4. ASSUME NEW k \in Plugins \ {p}, instances'[k] # None
        PROVE  /\ proc[instances[k]].state \in {"live", "crashed"}
               /\ drain[instances[k]] = "no"
               /\ \A b \in proc[instances[k]].offer : route[b][k] = instances[k]
    BY <2>3, <2>4 DEF Handover, CurrentIsRouted
  <2>5. \A k \in Plugins \ {p} : instances'[k] # None => proc[instances[k]].offer \subseteq Providers
    BY <2>3 DEF Handover, Numbered, Known
  <2> QED BY <1>1, <1>3, <1>4, <1>8, <2>1, <2>2, <2>3, <2>4, <2>5 DEF CurrentIsRouted
<1> QED BY <1>5, <1>6, <1>7, <1>11, <1>12, <1>13, <1>14 DEF Handover

LEMMA SwapHandover ==
    ASSUME Handover, NEW r \in Reloaders, Swap(r)
    PROVE  Handover'
<1> DEFINE old == reloader[r].old
<1>1. old \in Processes
  BY Ranges, PluginAssumption DEF Swap, Handover, Hands, HoldsOf
<1>2. drain \in [Processes -> {"no", "draining", "drained", "forced"}]
  BY DEF Handover, TypeOK
<1>3. /\ drain' \in [Processes -> {"no", "draining", "drained", "forced"}]
      /\ \A k \in Processes : drain'[k] # drain[k] => k = old
  <2>1. drain' = [drain EXCEPT ![old] = IF drain[old] = "no" THEN "draining" ELSE drain[old]]
    BY DEF Swap
  <2> QED BY <1>1, <1>2, <2>1
<1> QED BY <1>3, Published DEF Swap

LEMMA StartRegisterHandover ==
    ASSUME Handover, NEW r \in Reloaders, StartRegister(r)
    PROVE  Handover'
<1>1. drain' \in [Processes -> {"no", "draining", "drained", "forced"}]
  BY DEF StartRegister, Handover, TypeOK
<1>2. reloader[r].pc = "start"
  BY DEF StartRegister, Handover, TypeOK
<1>3. drain' = drain
  BY DEF StartRegister
<1> QED BY <1>1, <1>2, <1>3, Published DEF StartRegister

\* A Start that takes the lock: the plugin it is about is out of the registry
\* and its instance is closed until StartRegister.
LEMMA StartReplaceHandover ==
    ASSUME Handover, NEW r \in Reloaders, StartReplace(r)
    PROVE  Handover'
<1> USE PluginAssumption
<1> DEFINE p == reloader[r].plugin
           old == instances[p]
<1>1. /\ reloader[r].pc = "start" /\ mu = None /\ mu' = r
      /\ UNCHANGED <<binary, launched, drain, instances, paths, config, reloader, host,
                     closeWait, spent>>
  BY DEF StartReplace
<1>2. p \in Plugins
  BY <1>1, Ranges DEF Handover, Hands, HoldsOf, Reloading
<1>3. CASE old = None
  <2>1. UNCHANGED <<proc, route, caller, cause>>
    BY <1>3 DEF StartReplace
  <2>2. TypeOK'
    BY <1>1, <2>1 DEF Handover, TypeOK
  <2>3. Hands' /\ Numbered' /\ DrainedIsOut'
    BY <1>1, <2>1 DEF Handover, Hands, HoldsOf, Numbered, DrainedIsOut
  <2>4. Known' /\ Unshared'
    BY <1>1, <2>1 DEF Handover, Known, Unshared
  <2>5. CurrentIsRouted'
    BY <1>1, <2>1 DEF Handover, CurrentIsRouted
  <2> QED BY <2>2, <2>3, <2>4, <2>5 DEF Handover
<1>4. CASE old # None
  <2>1. old \in Processes /\ proc[old].plugin = p /\ old <= launched
    BY <1>2, <1>4, Ranges DEF Handover, Known
  <2>2. "replaced" \in Causes
    BY DEF Causes
  <2>3. /\ proc' \in [Processes -> ProcTypes] /\ caller' \in [Callers -> CallTypes]
        /\ cause' \in [Processes -> Causes \cup {"none"}]
        /\ \A k \in Processes :
              /\ proc'[k].plugin = proc[k].plugin /\ proc'[k].offer = proc[k].offer
              /\ proc'[k].state = IF k = old THEN "killed" ELSE proc[k].state
        /\ \A c \in Callers : caller'[c].proc = caller[c].proc
                           /\ (caller'[c].pc # "idle" => caller[c].pc # "idle")
    BY <1>4, <2>1, <2>2, KillEffect DEF StartReplace, Handover
  <2>4. /\ route' \in [Providers -> [Plugins -> Processes \cup {None}]]
        /\ \A b \in Providers, k \in Plugins :
              route'[b][k] = IF k = p THEN None ELSE route[b][k]
    BY <1>2, <1>4, <2>1, RegisterTypes DEF StartReplace, Handover
  <2>5. TypeOK'
    BY <1>1, <2>3, <2>4 DEF Handover, TypeOK
  <2>6. Hands' /\ DrainedIsOut'
    BY <1>1 DEF Handover, Hands, HoldsOf, DrainedIsOut
  <2>7. Numbered'
    BY <1>1, <2>1, <2>3 DEF Handover, Numbered
  <2>8. Known'
    BY <1>1, <2>3, <2>4, Ranges DEF Handover, Known
  <2>9. Unshared'
    <3>1. \A s \in Reloaders : reloader[s].new # None => reloader[s].new # old
      BY <1>2 DEF Handover, Unshared
    <3> QED BY <1>1, <2>3, <2>4, <3>1, Ranges DEF Handover, Unshared
  <2>10. CurrentIsRouted'
    <3>1. \A k \in Plugins \ {p} : instances[k] # None =>
             /\ instances[k] # old /\ instances[k] \in Processes
             /\ proc[instances[k]].offer \subseteq Providers
      BY <2>1, Ranges DEF Handover, Known, Numbered
    <3> QED BY <1>1, <2>3, <2>4, <3>1 DEF Handover, CurrentIsRouted
  <2> QED BY <2>5, <2>6, <2>7, <2>8, <2>9, <2>10 DEF Handover
<1> QED BY <1>3, <1>4

LEMMA DrainEndsHandover ==
    ASSUME Handover, NEW i \in Processes, DrainEnds(i)
    PROVE  Handover'
<1>1. /\ drain' \in [Processes -> {"no", "draining", "drained", "forced"}]
      /\ \A k \in Processes : drain'[k] = "no" <=> drain[k] = "no"
  BY DEF DrainEnds, Handover, TypeOK
<1>2. UNCHANGED <<binary, proc, launched, instances, paths, config, mu, route, reloader, caller,
                  host, closeWait, spent, cause>>
  BY DEF DrainEnds, manager
<1>3. TypeOK'
  BY <1>1, <1>2 DEF Handover, TypeOK
<1>4. Hands' /\ Numbered' /\ DrainedIsOut'
  BY <1>1, <1>2 DEF Handover, Hands, HoldsOf, Numbered, DrainedIsOut
<1>5. Known'
  BY <1>1, <1>2 DEF Handover, Known
<1>6. Unshared'
  BY <1>1, <1>2, Ranges DEF Handover, Unshared
<1>7. CurrentIsRouted'
  BY <1>1, <1>2, Ranges DEF Handover, CurrentIsRouted
<1> QED BY <1>3, <1>4, <1>5, <1>6, <1>7 DEF Handover

LEMMA CloseInstanceHandover ==
    ASSUME Handover, NEW i \in Processes, CloseInstance(i)
    PROVE  Handover'
<1> USE PluginAssumption
<1>1. /\ drain' \in [Processes -> {"no", "draining", "drained", "forced"}]
      /\ \A k \in Processes : drain'[k] # "no" => drain[k] # "no"
      /\ drain[i] # "no" /\ drain[i] \in Causes
  BY DEF CloseInstance, Handover, TypeOK, Causes
<1>2. /\ proc' \in [Processes -> ProcTypes] /\ caller' \in [Callers -> CallTypes]
      /\ cause' \in [Processes -> Causes \cup {"none"}]
      /\ \A k \in Processes :
            /\ proc'[k].plugin = proc[k].plugin /\ proc'[k].offer = proc[k].offer
            /\ proc'[k].state = IF k = i THEN "killed" ELSE proc[k].state
      /\ \A c \in Callers : caller'[c].proc = caller[c].proc
                         /\ (caller'[c].pc # "idle" => caller[c].pc # "idle")
  BY <1>1, KillEffect DEF CloseInstance, Handover
<1>3. UNCHANGED <<binary, launched, instances, paths, config, mu, route, reloader, host,
                  closeWait, spent>>
  BY DEF CloseInstance, manager
<1>4. /\ i <= launched
      /\ \A s \in Reloaders : reloader[s].new # i
      /\ \A p \in Plugins : instances[p] # i
  BY <1>1 DEF Handover, Unshared, DrainedIsOut, Known
<1>5. TypeOK'
  BY <1>1, <1>2, <1>3 DEF Handover, TypeOK
<1>6. Hands' /\ DrainedIsOut'
  BY <1>1, <1>3 DEF Handover, Hands, HoldsOf, DrainedIsOut
<1>7. Numbered'
  BY <1>2, <1>3, <1>4 DEF Handover, Numbered
<1>8. Known'
  BY <1>1, <1>2, <1>3, Ranges DEF Handover, Known
<1>9. Unshared'
  BY <1>1, <1>2, <1>3, <1>4, Ranges DEF Handover, Unshared
<1>10. CurrentIsRouted'
  BY <1>1, <1>2, <1>3, <1>4, Ranges DEF Handover, CurrentIsRouted
<1> QED BY <1>5, <1>6, <1>7, <1>8, <1>9, <1>10 DEF Handover

LEMMA CloseHandover ==
    ASSUME Handover, Close
    PROVE  Handover'
<1> USE PluginAssumption
<1>1. CASE CloseBegins \/ CloseEnds
  <2>1. /\ UNCHANGED <<binary, proc, launched, drain, instances, paths, config, route,
                       reloader, caller, spent, cause>>
        /\ mu \notin Reloaders /\ mu' \notin Reloaders /\ mu' \in {None, "close"}
        /\ host' \in {"running", "closing", "closed"} /\ closeWait' \in {closeWait, None}
    BY <1>1 DEF CloseBegins, CloseEnds
  <2>2. TypeOK'
    BY <2>1 DEF Handover, TypeOK
  <2>3. Hands' /\ Numbered' /\ DrainedIsOut'
    BY <2>1 DEF Handover, Hands, HoldsOf, Numbered, DrainedIsOut
  <2>4. Known' /\ Unshared'
    BY <2>1 DEF Handover, Known, Unshared
  <2>5. CurrentIsRouted'
    BY <2>1 DEF Handover, CurrentIsRouted
  <2> QED BY <2>2, <2>3, <2>4, <2>5 DEF Handover
<1>2. ASSUME NEW p \in Plugins, CloseNext(p)
      PROVE  Handover'
  <2> DEFINE i == instances[p]
  <2>1. /\ i \in Processes /\ i <= launched /\ proc[i].plugin = p
        /\ mu = "close" /\ mu' = mu /\ mu \notin Reloaders
    BY <1>2, Ranges DEF CloseNext, Handover, Known
  <2>2. UNCHANGED <<binary, proc, launched, paths, config, mu, reloader, caller, host, spent,
                    cause>>
    BY <1>2 DEF CloseNext
  <2>3. /\ drain' \in [Processes -> {"no", "draining", "drained", "forced"}]
        /\ \A k \in Processes : k # i => drain'[k] = drain[k]
        /\ instances' \in [Plugins -> Processes \cup {None}]
        /\ instances'[p] = None /\ \A k \in Plugins \ {p} : instances'[k] = instances[k]
        /\ closeWait' = i
    BY <1>2, <2>1 DEF CloseNext, Handover, TypeOK
  <2>4. /\ route' \in [Providers -> [Plugins -> Processes \cup {None}]]
        /\ \A b \in Providers, k \in Plugins :
              route'[b][k] = IF k = p THEN None ELSE route[b][k]
    BY <1>2, <2>1, RegisterTypes DEF CloseNext, Handover
  <2>5. TypeOK'
    BY <2>1, <2>2, <2>3, <2>4 DEF Handover, TypeOK
  <2>6. Hands' /\ Numbered'
    BY <2>2 DEF Handover, Hands, HoldsOf, Numbered
  <2>7. \A k \in Plugins : instances'[k] # None =>
           /\ k # p /\ instances'[k] = instances[k] /\ instances[k] # i
           /\ instances[k] \in Processes /\ proc[instances[k]].offer \subseteq Providers
    BY <2>1, <2>3, Ranges DEF Handover, Known, Numbered
  <2>8. Known'
    BY <2>1, <2>2, <2>3, <2>4, <2>7 DEF Handover, Known
  <2>9. Unshared'
    <3>1. \A s \in Reloaders : reloader[s].new # None => reloader[s].new # i
      BY DEF Handover, Unshared
    <3>2. \A k \in Plugins : instances'[k] \in {instances[k], None}
      BY <2>3
    <3> QED BY <2>2, <2>3, <2>4, <3>1, <3>2, Ranges DEF Handover, Unshared
  <2>10. DrainedIsOut'
    BY <2>3, <2>7 DEF Handover, DrainedIsOut
  <2>11. CurrentIsRouted'
    BY <2>1, <2>2, <2>3, <2>4, <2>7 DEF Handover, CurrentIsRouted
  <2> QED BY <2>5, <2>6, <2>8, <2>9, <2>10, <2>11 DEF Handover
<1> QED BY <1>1, <1>2 DEF Close

----------------------------------------------------------------------------
LEMMA InitHandover == Init => Handover
<1> SUFFICES ASSUME Init PROVE Handover
  OBVIOUS
<1> USE PluginAssumption
<1>1. TypeOK
  BY InitTypes
<1>2. /\ \A r \in Reloaders : /\ reloader[r].pc = "idle" /\ reloader[r].plugin = None
                              /\ reloader[r].old = None /\ reloader[r].new = None
      /\ \A i \in Processes : proc[i].state = "unborn" /\ drain[i] = "no"
      /\ \A p \in Plugins : instances[p] = None
      /\ \A b \in Providers, p \in Plugins : route[b][p] = None
      /\ \A c \in Callers : caller[c].pc = "idle"
      /\ launched = 0
  BY DEF Init, Resting, NoProc, Quiet
<1>3. Numbered
  BY <1>2 DEF Numbered, Processes
<1> QED BY <1>1, <1>2, <1>3
        DEF Handover, Hands, HoldsOf, Reloading, Known, Unshared, DrainedIsOut, CurrentIsRouted

LEMMA NextHandover ==
    ASSUME Handover, [Next]_vars
    PROVE  Handover'
<1>1. ASSUME NEW r \in Reloaders, ReloadAll(r)
      PROVE  Handover'
  <2>1. CASE Notes(r)
    BY <2>1, NotesHandover
  <2>2. CASE Launch(r) \/ InitPlugin(r) \/ InitFails(r)
    BY <2>2, LaunchHandover, InitPluginHandover, InitFailsHandover
  <2>3. CASE Swap(r) \/ StartReplace(r) \/ StartRegister(r)
    BY <2>3, SwapHandover, StartReplaceHandover, StartRegisterHandover
  <2> QED BY <1>1, <2>1, <2>2, <2>3 DEF ReloadAll, Notes
<1>2. ASSUME NEW i \in Processes, DrainEnds(i) \/ CloseInstance(i) \/ Crash(i)
      PROVE  Handover'
  BY <1>2, DrainEndsHandover, CloseInstanceHandover, CrashHandover
<1>3. CASE UNCHANGED vars
  <2> USE DEF vars, Handover
  <2>1. TypeOK' /\ Hands' /\ Numbered'
    BY <1>3 DEF TypeOK, Hands, HoldsOf, Numbered
  <2>2. Known' /\ DrainedIsOut'
    BY <1>3 DEF Known, DrainedIsOut
  <2>3. Unshared' /\ CurrentIsRouted'
    BY <1>3 DEF Unshared, CurrentIsRouted
  <2> QED BY <2>1, <2>2, <2>3
<1> QED BY <1>1, <1>2, <1>3, CloseHandover, CallsHandover, RequestsHandover DEF Next

\* Who has a process in hand, in every state of the host: the inductive
\* invariant behind the routes (manager.go: Reload, Start, Close).
THEOREM HandoverInvariant == Spec => []Handover
<1> QED BY InitHandover, NextHandover, PTL DEF Spec

\* The types are right, for every number of reloads, processes and callers, and
\* the manager's lock is held across steps by nobody but a Start and Close.
THEOREM TypeCorrect == Spec => []TypeOK
<1>1. Handover => TypeOK
  BY DEF Handover
<1> QED BY <1>1, HandoverInvariant, PTL

\* However many reload requests overlap with each other, with installs, crashes
\* and the shutdown, the instance in the map is not killed, nobody drains it and
\* the registry sends its providers to it (manager.go: Reload, Start, Close).
THEOREM CurrentStaysRouted == Spec => []CurrentIsRouted
<1>1. Handover => CurrentIsRouted
  BY DEF Handover
<1> QED BY <1>1, HandoverInvariant, PTL
----------------------------------------------------------------------------
(***************************************************************************)
(* Calls and drains                                                        *)
(***************************************************************************)
CallsSafe == CallsRunLive /\ DrainedCallsFinish

\* A step that touches no process anybody calls.
LEMMA CallsUndisturbed ==
    ASSUME Handover, CallsSafe, caller' = caller,
           \A i \in 1..launched :
              /\ proc'[i].state = proc[i].state /\ cause'[i] = cause[i]
              /\ drain'[i] = "drained" => drain[i] = "drained" \/ ActiveCalls(i) = {}
    PROVE  CallsSafe'
<1>1. \A c \in Callers : caller[c].pc # "idle" => caller[c].proc \in 1..launched
  BY DEF Handover, Known
<1>2. CallsRunLive'
  BY <1>1 DEF CallsSafe, CallsRunLive, ActiveCalls
<1>3. DrainedCallsFinish'
  BY <1>1 DEF CallsSafe, DrainedCallsFinish
<1> QED BY <1>2, <1>3 DEF CallsSafe

\* A kill fails the calls that run; they ran on a live process, so its cause is
\* the one recorded.
LEMMA CallsKilled ==
    ASSUME Handover, CallsSafe, NEW i \in Processes, NEW why \in Causes, Kill(i, why),
           \A k \in Processes : drain'[k] \in {drain[k], "no"},
           \/ why \in {"forced", "replaced"}
           \/ \A c \in Callers : caller[c].pc = "calling" /\ caller[c].proc = i => caller[c].late
    PROVE  CallsSafe'
<1>1. /\ \A k \in Processes :
            /\ proc'[k].state = IF k = i THEN "killed" ELSE proc[k].state
            /\ cause'[k] = IF k = i /\ proc[k].state = "live" THEN why ELSE cause[k]
      /\ \A c \in Callers :
            /\ caller'[c].proc = caller[c].proc /\ caller'[c].late = caller[c].late
            /\ caller'[c].pc = IF caller[c].pc = "calling" /\ caller[c].proc = i
                               THEN "failed" ELSE caller[c].pc
  BY KillEffect DEF Handover
<1>2. \A c \in Callers : caller[c].pc # "idle" => caller[c].proc \in Processes
  BY Ranges, PluginAssumption DEF Handover, Known, Processes, TypeOK
<1>3. CallsRunLive'
  BY <1>1, <1>2 DEF CallsSafe, CallsRunLive
<1>4. DrainedCallsFinish'
  BY <1>1, <1>2 DEF CallsSafe, CallsRunLive, DrainedCallsFinish
<1> QED BY <1>3, <1>4 DEF CallsSafe

LEMMA ReloadCalls ==
    ASSUME Handover, CallsSafe, NEW r \in Reloaders, ReloadAll(r)
    PROVE  CallsSafe'
<1> USE PluginAssumption
<1>1. 1..launched \subseteq Processes
  BY DEF Handover, TypeOK, Processes
<1>2. CASE Notes(r)
  <2>1. UNCHANGED <<proc, caller, drain, cause>>
    BY <1>2 DEF Notes, DiscoverPlugins, ListRunning, LaunchFails, ReloadAllReturns, ReadOld,
                StartNew
  <2> QED BY <2>1, CallsUndisturbed
<1>3. CASE Launch(r)
  <2>1. launched + 1 \in Processes /\ launched \in Nat
    BY <1>3 DEF Launch, Handover, TypeOK
  <2>2. \A k \in 1..launched : proc'[k] = proc[k]
    BY <1>1, <1>3, <2>1 DEF Launch, Handover, TypeOK
  <2>3. UNCHANGED <<caller, drain, cause>>
    BY <1>3 DEF Launch
  <2> QED BY <2>2, <2>3, CallsUndisturbed
<1>4. CASE InitPlugin(r)
  <2>1. reloader[r].new \in Processes
    BY <1>4, Ranges DEF InitPlugin, Handover, Hands, HoldsOf
  <2>2. \A k \in Processes : proc'[k].state = proc[k].state
    BY <1>4, <2>1 DEF InitPlugin, Handover, TypeOK, ProcTypes
  <2>3. UNCHANGED <<caller, drain, cause>>
    BY <1>4 DEF InitPlugin
  <2> QED BY <1>1, <2>2, <2>3, CallsUndisturbed
<1>5. CASE InitFails(r)
  <2>1. reloader[r].new \in Processes
    BY <1>5, Ranges DEF InitFails, Handover, Hands, HoldsOf
  <2>2. \A c \in Callers : ~(caller[c].pc = "calling" /\ caller[c].proc = reloader[r].new)
    BY <2>1 DEF Handover, Unshared
  <2>3. drain' = drain /\ Kill(reloader[r].new, "broken") /\ "broken" \in Causes
    BY <1>5 DEF InitFails, Causes
  <2> QED BY <2>1, <2>2, <2>3, CallsKilled
<1>6. CASE Swap(r)
  <2>1. reloader[r].old \in Processes
    BY <1>6, Ranges DEF Swap, Handover, Hands, HoldsOf
  <2>2. \A k \in Processes : drain'[k] = "drained" => drain[k] = "drained"
    BY <1>6, <2>1 DEF Swap, Handover, TypeOK
  <2>3. UNCHANGED <<proc, caller, cause>>
    BY <1>6 DEF Swap
  <2> QED BY <1>1, <2>2, <2>3, CallsUndisturbed
<1>7. CASE StartReplace(r)
  <2> DEFINE old == instances[reloader[r].plugin]
  <2>1. drain' = drain /\ "replaced" \in Causes
    BY <1>7 DEF StartReplace, Causes
  <2>2. CASE old = None
    <3>1. UNCHANGED <<proc, caller, cause>>
      BY <1>7, <2>2 DEF StartReplace
    <3> QED BY <2>1, <3>1, CallsUndisturbed
  <2>3. CASE old # None
    <3>1. reloader[r].plugin \in Plugins
      BY <1>7, Ranges DEF StartReplace, Handover, Hands, HoldsOf, Reloading
    <3>2. old \in Processes
      BY <2>3, <3>1, Ranges DEF Handover
    <3>3. Kill(old, "replaced")
      BY <1>7, <2>3 DEF StartReplace
    <3> QED BY <2>1, <3>2, <3>3, CallsKilled
  <2> QED BY <2>2, <2>3
<1>8. CASE StartRegister(r)
  <2>1. UNCHANGED <<proc, caller, drain, cause>>
    BY <1>8 DEF StartRegister
  <2> QED BY <2>1, CallsUndisturbed
<1> QED BY <1>2, <1>3, <1>4, <1>5, <1>6, <1>7, <1>8 DEF ReloadAll, Notes

LEMMA ProcessCalls ==
    ASSUME Handover, CallsSafe, NEW i \in Processes,
           DrainEnds(i) \/ CloseInstance(i) \/ Crash(i)
    PROVE  CallsSafe'
<1> USE PluginAssumption
<1>1. 1..launched \subseteq Processes
  BY DEF Handover, TypeOK, Processes
<1>2. CASE DrainEnds(i)
  <2>1. \A k \in Processes : drain'[k] = "drained" => drain[k] = "drained" \/ ActiveCalls(k) = {}
    BY <1>2 DEF DrainEnds, Handover, TypeOK
  <2>2. UNCHANGED <<proc, caller, cause>>
    BY <1>2 DEF DrainEnds
  <2> QED BY <1>1, <2>1, <2>2, CallsUndisturbed
<1>3. CASE CloseInstance(i)
  <2>1. /\ \A k \in Processes : drain'[k] \in {drain[k], "no"}
        /\ drain[i] \in Causes /\ Kill(i, drain[i]) /\ drain[i] \in {"drained", "forced"}
    BY <1>3 DEF CloseInstance, Handover, TypeOK, Causes
  <2>2. drain[i] = "drained" =>
           \A c \in Callers : caller[c].pc = "calling" /\ caller[c].proc = i => caller[c].late
    BY DEF CallsSafe, CallsRunLive
  <2> QED BY <2>1, <2>2, CallsKilled
<1>4. CASE Crash(i)
  <2>1. /\ \A k \in Processes : proc'[k].state = IF k = i THEN "crashed" ELSE proc[k].state
        /\ proc[i].state = "live"
    BY <1>4 DEF Crash, Handover, TypeOK, ProcTypes
  <2>2. \A c \in Callers : \/ caller'[c].pc = "idle"
                           \/ /\ caller'[c] = caller[c]
                              /\ ~(caller[c].pc = "calling" /\ caller[c].proc = i)
    BY <1>4 DEF Crash, ActiveCalls, Quiet
  <2>3. UNCHANGED <<drain, cause>>
    BY <1>4 DEF Crash
  <2>4. \A c \in Callers : caller[c].pc # "idle" => caller[c].proc \in Processes
    BY <1>1 DEF Handover, Known
  <2>5. CallsRunLive'
    BY <2>1, <2>2, <2>3, <2>4 DEF CallsSafe, CallsRunLive
  <2>6. DrainedCallsFinish'
    BY <2>2, <2>3 DEF CallsSafe, DrainedCallsFinish
  <2> QED BY <2>5, <2>6 DEF CallsSafe
<1> QED BY <1>2, <1>3, <1>4

LEMMA CallerCalls ==
    ASSUME Handover, CallsSafe, Calls
    PROVE  CallsSafe'
<1> USE PluginAssumption
<1>1. caller \in [Callers -> CallTypes] /\ UNCHANGED <<proc, drain, cause>>
  BY DEF Calls, Lookup, StartCall, CallReturns, Handover, TypeOK
<1>2. ASSUME NEW c \in Callers, NEW t, caller' = [caller EXCEPT ![c] = t],
             /\ t.pc = "calling" =>
                   proc[t.proc].state = "live" /\ (drain[t.proc] = "drained" => t.late)
             /\ t.pc = "failed" => proc[t.proc].state = "killed" /\ t.late
      PROVE  CallsSafe'
  <2>1. CallsRunLive'
    BY <1>1, <1>2 DEF CallsSafe, CallsRunLive
  <2>2. DrainedCallsFinish'
    BY <1>1, <1>2 DEF CallsSafe, DrainedCallsFinish
  <2> QED BY <2>1, <2>2 DEF CallsSafe
<1>3. ASSUME NEW c \in Callers, StartCall(c)
      PROVE  CallsSafe'
  <2> DEFINE i == caller[c].proc
             w == [caller[c] EXCEPT !.pc = "calling", !.late = drain[i] = "drained"]
             f == [caller[c] EXCEPT !.pc = "failed", !.late = TRUE]
  <2>1. /\ w.pc = "calling" /\ w.proc = i /\ (drain[i] = "drained" => w.late)
        /\ f.pc = "failed" /\ f.proc = i /\ f.late
    BY <1>1 DEF CallTypes
  <2>2. \/ caller' = [caller EXCEPT ![c] = w] /\ proc[i].state = "live"
        \/ caller' = [caller EXCEPT ![c] = f] /\ proc[i].state = "killed"
        \/ caller' = [caller EXCEPT ![c] = Quiet]
    BY <1>1, <1>3 DEF StartCall
  <2>3. Quiet.pc = "idle"
    BY DEF Quiet
  <2> HIDE DEF w, f
  <2> QED BY <1>2, <2>1, <2>2, <2>3
<1>4. ASSUME NEW c \in Callers, CallReturns(c)
      PROVE  CallsSafe'
  BY <1>2, <1>4 DEF CallReturns, Quiet
<1>5. ASSUME NEW c \in Callers, NEW b \in Providers, NEW p \in Plugins, Lookup(c, b, p)
      PROVE  CallsSafe'
  BY <1>2, <1>5 DEF Lookup
<1> QED BY <1>3, <1>4, <1>5 DEF Calls

LEMMA NextCalls ==
    ASSUME Handover, CallsSafe, [Next]_vars
    PROVE  CallsSafe'
<1> USE PluginAssumption
<1>1. 1..launched \subseteq Processes
  BY DEF Handover, TypeOK, Processes
<1>2. CASE CloseBegins \/ CloseEnds \/ UNCHANGED vars
  <2>1. UNCHANGED <<proc, caller, drain, cause>>
    BY <1>2 DEF CloseBegins, CloseEnds, vars
  <2> QED BY <2>1, CallsUndisturbed
<1>3. ASSUME NEW p \in Plugins, CloseNext(p)
      PROVE  CallsSafe'
  <2>1. \A k \in Processes : drain'[k] = "drained" => drain[k] = "drained"
    BY <1>3, Ranges DEF CloseNext, Handover, TypeOK
  <2>2. UNCHANGED <<proc, caller, cause>>
    BY <1>3 DEF CloseNext
  <2> QED BY <1>1, <2>1, <2>2, CallsUndisturbed
<1>4. CASE Requests
  <2>1. \A k \in Processes : proc'[k].state = proc[k].state
    <3>1. ASSUME NEW p \in Plugins, NEW ok \in BOOLEAN, UpdatePluginConfig(p, ok)
          PROVE  \A k \in Processes : proc'[k].state = proc[k].state
      <4>1. proc' = proc \/ proc' = [proc EXCEPT ![instances[p]].config = config + 1]
        BY <3>1 DEF UpdatePluginConfig
      <4> QED BY <4>1, Ranges DEF Handover, TypeOK, ProcTypes
    <3> QED BY <1>4, <3>1 DEF Requests, Install
  <2>2. UNCHANGED <<caller, drain, cause>>
    BY <1>4 DEF Requests, UpdatePluginConfig, Install
  <2> QED BY <1>1, <2>1, <2>2, CallsUndisturbed
<1> QED BY <1>2, <1>3, <1>4, ReloadCalls, ProcessCalls, CallerCalls DEF Next, Close

\* A call that was counted before Drain found its process idle is cut off only
\* when the drain timed out or a second Start replaced the process, whatever
\* reloads, shutdown, crashes and callers do meanwhile (adapter.go: startCall,
\* Drain; manager.go: Reload, Close).
THEOREM DrainedCallsAlwaysFinish == Spec => []DrainedCallsFinish
<1>1. Init => CallsSafe
  BY DEF Init, Quiet, CallsSafe, CallsRunLive, DrainedCallsFinish
<1>2. CallsSafe => DrainedCallsFinish
  BY DEF CallsSafe
<1> QED BY <1>1, <1>2, NextCalls, HandoverInvariant, PTL DEF Spec
----------------------------------------------------------------------------
(***************************************************************************)
(* Lookups                                                                 *)
(***************************************************************************)
\* A step that changes neither the registry nor what it refers to.
LEMMA RouteUndisturbed ==
    ASSUME Handover, RoutedIsKept, route' = route,
           \A r \in Reloaders : reloader'[r].old # None /\ reloader'[r].new # None =>
              reloader'[r].old = reloader[r].old /\ reloader'[r].new = reloader[r].new,
           \A i \in 1..launched :
              \/ \A b \in Providers, p \in Plugins : route[b][p] # i
              \/ /\ proc'[i].offer = proc[i].offer /\ proc'[i].plugin = proc[i].plugin
                 /\ drain'[i] = drain[i]
                 /\ proc'[i].state = "killed" => proc[i].state = "killed"
    PROVE  RoutedIsKept'
<1>1. \A b \in Providers, p \in Plugins : route[b][p] # None => route[b][p] \in 1..launched
  BY Ranges DEF Handover, Known, Processes, TypeOK
<1> QED BY <1>1 DEF RoutedIsKept

\* A plugin leaves the registry; its processes may be drained or killed.
LEMMA RouteCleared ==
    ASSUME Handover, RoutedIsKept, NEW q \in Plugins, reloader' = reloader,
           \A b \in Providers, p \in Plugins :
              route'[b][p] = IF p = q THEN None ELSE route[b][p],
           \A i \in Processes :
              /\ proc'[i].offer = proc[i].offer /\ proc'[i].plugin = proc[i].plugin
              /\ proc[i].plugin # q => drain'[i] = drain[i] /\ proc'[i].state = proc[i].state
    PROVE  RoutedIsKept'
BY Ranges, PluginAssumption DEF Handover, RoutedIsKept

LEMMA SwapRoute ==
    ASSUME Handover, Handover', RoutedIsKept, NoProviderDropped, NEW r \in Reloaders, Swap(r)
    PROVE  RoutedIsKept'
<1> USE PluginAssumption
<1> DEFINE p == reloader[r].plugin
           i == reloader[r].new
           old == reloader[r].old
<1>1. /\ i \in Processes /\ old \in Processes /\ p \in Plugins
      /\ proc[old].plugin = p /\ proc[i].plugin = p /\ old < i
      /\ old \in 1..launched /\ i \in 1..launched
      /\ drain[i] = "no" /\ proc[i].state # "killed"
  <2>1. reloader[r].pc = "swap" /\ HoldsOf(r)
    BY DEF Swap, Handover, Hands
  <2>2. i \in Processes /\ old \in Processes /\ p \in Plugins
    BY <2>1, Ranges DEF HoldsOf, Reloading, Handover
  <2>3. /\ i <= launched /\ old <= launched /\ proc[old].plugin = p /\ proc[i].plugin = p
        /\ drain[i] = "no" /\ proc[i].state # "killed"
    BY <2>2 DEF Handover, Known, Unshared
  <2>4. old < i
    BY <2>2 DEF RoutedIsKept
  <2> QED BY <2>2, <2>3, <2>4 DEF Processes, Handover, TypeOK
<1>2. proc[old].offer \subseteq proc[i].offer
  BY <1>1 DEF NoProviderDropped
<1>3. \A b \in Providers, k \in Plugins :
         route'[b][k] = IF k = p /\ b \in proc[i].offer THEN i ELSE route[b][k]
  BY <1>1, RegisterTypes DEF Swap, Handover
<1>4. /\ \A k \in Processes : k # old => drain'[k] = drain[k]
      /\ proc' = proc
  BY <1>1 DEF Swap, Handover, TypeOK
<1>5. \A s \in Reloaders : reloader'[s].old # None => reloader'[s] = reloader[s]
  BY NextPluginEffect DEF Swap, Handover
<1>6. \A b \in Providers, k \in Plugins : route'[b][k] # None =>
         /\ b \in proc[route'[b][k]].offer /\ proc[route'[b][k]].plugin = k
         /\ route'[b][k] \in Processes /\ route'[b][k] # old
         /\ drain[route'[b][k]] = "no" /\ proc[route'[b][k]].state # "killed"
  BY <1>1, <1>2, <1>3, Ranges DEF Handover, RoutedIsKept
<1> QED BY <1>4, <1>5, <1>6 DEF RoutedIsKept

LEMMA NextRoute ==
    ASSUME Handover, Handover', RoutedIsKept, NoProviderDropped, [Next]_vars
    PROVE  RoutedIsKept'
<1> USE PluginAssumption
<1>1. /\ 1..launched \subseteq Processes /\ launched \in Nat
      /\ \A r \in Reloaders : HoldsOf(r)
  BY DEF Handover, TypeOK, Processes, Hands
<1>2. ASSUME NEW r \in Reloaders, Notes(r)
      PROVE  RoutedIsKept'
  <2>1. UNCHANGED <<proc, drain, route>>
    BY <1>2 DEF Notes, DiscoverPlugins, ListRunning, LaunchFails, ReloadAllReturns, ReadOld,
                StartNew
  <2>2. \A s \in Reloaders \ {r} : reloader'[s] = reloader[s]
    <3>1. CASE LaunchFails(r)
      BY <3>1, NextPluginEffect DEF LaunchFails, Handover
    <3>2. CASE DiscoverPlugins(r) \/ ListRunning(r) \/ ReloadAllReturns(r)
      BY <3>2 DEF DiscoverPlugins, ListRunning, ReloadAllReturns, Handover, TypeOK
    <3>3. ASSUME NEW p \in Plugins, ReadOld(r, p) \/ StartNew(r, p)
          PROVE  \A s \in Reloaders \ {r} : reloader'[s] = reloader[s]
      BY <3>3 DEF ReadOld, StartNew, Handover, TypeOK
    <3> QED BY <1>2, <3>1, <3>2, <3>3 DEF Notes
  <2>3. reloader'[r].new = None
    <3>1. reloader[r].new = None /\ reloader[r] \in ReloadTypes
      BY <1>1, <1>2 DEF Notes, DiscoverPlugins, ListRunning, LaunchFails, ReloadAllReturns,
                        ReadOld, StartNew, HoldsOf, Handover, TypeOK
    <3>2. CASE LaunchFails(r)
      BY <3>2, NextPluginEffect DEF LaunchFails, Handover
    <3>3. CASE ReloadAllReturns(r)
      BY <3>3 DEF ReloadAllReturns, Resting, Handover, TypeOK
    <3>4. CASE DiscoverPlugins(r) \/ ListRunning(r)
      BY <3>1, <3>4 DEF DiscoverPlugins, ListRunning, Handover, TypeOK, ReloadTypes
    <3>5. ASSUME NEW p \in Plugins, ReadOld(r, p) \/ StartNew(r, p)
          PROVE  reloader'[r].new = None
      BY <3>1, <3>5 DEF ReadOld, StartNew, Handover, TypeOK, ReloadTypes
    <3> QED BY <1>2, <3>2, <3>3, <3>4, <3>5 DEF Notes
  <2> QED BY <2>1, <2>2, <2>3, RouteUndisturbed
<1>3. ASSUME NEW r \in Reloaders, Launch(r)
      PROVE  RoutedIsKept'
  <2>1. /\ launched + 1 \in Processes /\ drain' = drain /\ route' = route
        /\ \A k \in 1..launched : proc'[k] = proc[k]
    BY <1>1, <1>3 DEF Launch, Handover, TypeOK
  <2>2. /\ \A s \in Reloaders \ {r} : reloader'[s] = reloader[s]
        /\ reloader'[r].old = reloader[r].old /\ reloader'[r].new = launched + 1
    BY <1>3 DEF Launch, Handover, TypeOK, ReloadTypes
  <2>3. reloader[r].old # None => reloader[r].old < launched + 1
    BY <1>1, Ranges DEF Handover, Known, Processes
  <2>4. \A b \in Providers, p \in Plugins : route[b][p] # None => route[b][p] \in 1..launched
    BY Ranges DEF Handover, Known, Processes, TypeOK
  <2> QED BY <2>1, <2>2, <2>3, <2>4 DEF RoutedIsKept
<1>4. ASSUME NEW r \in Reloaders, InitPlugin(r)
      PROVE  RoutedIsKept'
  <2>1. reloader[r].new \in Processes /\ drain' = drain /\ route' = route
    BY <1>1, <1>4, Ranges DEF InitPlugin, HoldsOf, Handover
  <2>2. \A k \in Processes : \A f \in {"state", "plugin", "offer"} : proc'[k][f] = proc[k][f]
    BY <1>4, <2>1 DEF InitPlugin, Handover, TypeOK, ProcTypes
  <2>3. \A s \in Reloaders : reloader'[s].old = reloader[s].old
                          /\ reloader'[s].new = reloader[s].new
    BY <1>4 DEF InitPlugin, Handover, TypeOK, ReloadTypes
  <2> QED BY <1>1, <2>1, <2>2, <2>3, RouteUndisturbed
<1>5. ASSUME NEW r \in Reloaders, InitFails(r)
      PROVE  RoutedIsKept'
  <2> DEFINE i == reloader[r].new
  <2>1. i \in Processes /\ drain' = drain /\ route' = route
    BY <1>1, <1>5, Ranges DEF InitFails, HoldsOf, Handover
  <2>2. \A k \in Processes :
           /\ proc'[k].plugin = proc[k].plugin /\ proc'[k].offer = proc[k].offer
           /\ k # i => proc'[k].state = proc[k].state
    BY <1>5, <2>1, KillEffect DEF InitFails, Causes, Handover
  <2>3. \A b \in Providers, p \in Plugins : route[b][p] # i
    BY <2>1 DEF Handover, Unshared
  <2>4. \A s \in Reloaders : reloader'[s].old # None => reloader'[s] = reloader[s]
    BY <1>5, NextPluginEffect DEF InitFails, Handover
  <2> QED BY <1>1, <2>1, <2>2, <2>3, <2>4, RouteUndisturbed
<1>6. ASSUME NEW r \in Reloaders, StartReplace(r)
      PROVE  RoutedIsKept'
  <2> DEFINE old == instances[reloader[r].plugin]
  <2>1. drain' = drain /\ reloader' = reloader /\ reloader[r].plugin \in Plugins
    BY <1>1, <1>6, Ranges DEF StartReplace, HoldsOf, Reloading, Handover
  <2>2. CASE old = None
    BY <1>6, <2>1, <2>2, RouteUndisturbed DEF StartReplace
  <2>3. CASE old # None
    <3>1. old \in Processes /\ proc[old].plugin = reloader[r].plugin
      BY <2>1, <2>3, Ranges DEF Handover, Known
    <3>2. \A k \in Processes :
             /\ proc'[k].plugin = proc[k].plugin /\ proc'[k].offer = proc[k].offer
             /\ k # old => proc'[k].state = proc[k].state
      BY <1>6, <2>3, <3>1, KillEffect DEF StartReplace, Causes, Handover
    <3>3. \A b \in Providers, p \in Plugins :
             route'[b][p] = IF p = reloader[r].plugin THEN None ELSE route[b][p]
      BY <1>6, <2>1, <2>3, <3>1, RegisterTypes DEF StartReplace, Handover
    <3> QED BY <2>1, <3>1, <3>2, <3>3, RouteCleared
  <2> QED BY <2>2, <2>3
<1>7. ASSUME NEW r \in Reloaders, StartRegister(r)
      PROVE  RoutedIsKept'
  <2> DEFINE p == reloader[r].plugin
             i == reloader[r].new
  <2>1. reloader[r].pc = "start"
    BY <1>7 DEF StartRegister, Handover, TypeOK
  <2>2. /\ i \in Processes /\ p \in Plugins /\ proc[i].plugin = p
        /\ drain[i] = "no" /\ proc[i].state # "killed"
    BY <1>1, <2>1, Ranges DEF HoldsOf, Reloading, Handover, Unshared
  <2>3. \A b \in Providers, k \in Plugins :
           route'[b][k] = IF k = p /\ b \in proc[i].offer THEN i ELSE route[b][k]
    BY <1>7, <2>2, RegisterTypes DEF StartRegister, Handover
  <2>4. \A s \in Reloaders : reloader'[s].old # None => reloader'[s] = reloader[s]
    BY <1>7, NextPluginEffect DEF StartRegister, Handover
  <2>5. UNCHANGED <<proc, drain>>
    BY <1>7 DEF StartRegister
  <2> QED BY <2>2, <2>3, <2>4, <2>5 DEF RoutedIsKept
<1>8. ASSUME NEW i \in Processes, DrainEnds(i) \/ CloseInstance(i)
      PROVE  RoutedIsKept'
  <2>1. drain[i] # "no" /\ route' = route /\ reloader' = reloader
    BY <1>8 DEF DrainEnds, CloseInstance
  <2>2. \A k \in Processes \ {i} : drain'[k] = drain[k]
    BY <1>8 DEF DrainEnds, CloseInstance, Handover, TypeOK
  <2>3. \A k \in Processes \ {i} : proc'[k] = proc[k]
    BY <1>8 DEF DrainEnds, CloseInstance, Kill, Handover, TypeOK
  <2>4. \A b \in Providers, p \in Plugins : route[b][p] # i
    BY <2>1 DEF RoutedIsKept
  <2> QED BY <1>1, <2>1, <2>2, <2>3, <2>4, RouteUndisturbed
<1>9. ASSUME NEW i \in Processes, Crash(i)
      PROVE  RoutedIsKept'
  <2>1. UNCHANGED <<drain, route, reloader>>
    BY <1>9 DEF Crash
  <2>2. \A k \in Processes : /\ proc'[k].plugin = proc[k].plugin /\ proc'[k].offer = proc[k].offer
                             /\ proc'[k].state \in {proc[k].state, "crashed"}
    BY <1>9 DEF Crash, Handover, TypeOK, ProcTypes
  <2> QED BY <1>1, <2>1, <2>2, RouteUndisturbed
<1>10. ASSUME NEW p \in Plugins, CloseNext(p)
       PROVE  RoutedIsKept'
  <2>1. instances[p] \in Processes /\ proc[instances[p]].plugin = p
    BY <1>10, Ranges DEF CloseNext, Handover, Known
  <2>2. UNCHANGED <<proc, reloader>>
    BY <1>10 DEF CloseNext
  <2>3. \A k \in Processes : k # instances[p] => drain'[k] = drain[k]
    BY <1>10, <2>1 DEF CloseNext, Handover, TypeOK
  <2>4. \A b \in Providers, k \in Plugins : route'[b][k] = IF k = p THEN None ELSE route[b][k]
    BY <1>10, <2>1, RegisterTypes DEF CloseNext, Handover
  <2> QED BY <2>1, <2>2, <2>3, <2>4, RouteCleared
<1>11. CASE Requests
  <2>1. \A k \in Processes :
           /\ proc'[k].plugin = proc[k].plugin /\ proc'[k].offer = proc[k].offer
           /\ proc'[k].state = proc[k].state
    <3>1. ASSUME NEW p \in Plugins, NEW ok \in BOOLEAN, UpdatePluginConfig(p, ok)
          PROVE  \A k \in Processes :
                    /\ proc'[k].plugin = proc[k].plugin /\ proc'[k].offer = proc[k].offer
                    /\ proc'[k].state = proc[k].state
      <4>1. proc' = proc \/ proc' = [proc EXCEPT ![instances[p]].config = config + 1]
        BY <3>1 DEF UpdatePluginConfig
      <4>2. \A k \in Processes : proc[k] \in ProcTypes
        BY DEF Handover, TypeOK
      <4>3. DOMAIN proc = Processes
        BY DEF Handover, TypeOK
      <4>4. ASSUME NEW k \in Processes
            PROVE  proc'[k] = proc[k] \/ proc'[k] = [proc[k] EXCEPT !.config = config + 1]
        BY <4>1, <4>3
      <4> QED BY <4>2, <4>4 DEF ProcTypes
    <3> QED BY <1>11, <3>1 DEF Requests, Install
  <2>2. UNCHANGED <<drain, route, reloader>>
    BY <1>11 DEF Requests, UpdatePluginConfig, Install
  <2> QED BY <1>1, <2>1, <2>2, RouteUndisturbed
<1>12. CASE CloseBegins \/ CloseEnds \/ Calls \/ UNCHANGED vars
  <2>1. UNCHANGED <<proc, drain, route, reloader>>
    BY <1>12 DEF CloseBegins, CloseEnds, Calls, Lookup, StartCall, CallReturns, vars
  <2> QED BY <2>1, RouteUndisturbed
<1> QED BY <1>2, <1>3, <1>4, <1>5, <1>6, <1>7, <1>8, <1>9, <1>10, <1>11, <1>12, SwapRoute
        DEF Next, ReloadAll, Notes, Close

\* As long as no new version of a plugin drops a provider, no lookup returns an
\* adapter of a process the host has killed, however many reload requests
\* overlap (manager.go: Reload; registry.go: Register, UnregisterPlugin).
THEOREM RoutedStaysServed == Spec /\ []NoProviderDropped => []RoutedIsServed
<1>1. Init => RoutedIsKept
  BY DEF Init, Resting, RoutedIsKept
<1>2. RoutedIsKept => RoutedIsServed
  BY DEF RoutedIsKept, RoutedIsServed
<1> QED BY <1>1, <1>2, NextRoute, HandoverInvariant, PTL DEF Spec
----------------------------------------------------------------------------
(***************************************************************************)
(* Processes left behind                                                   *)
(***************************************************************************)
Accounted == OldIsCurrent /\ ReplacedIsKilled /\ NoOrphanProcess

\* A step that changes neither the map nor the lock, and in which whoever lets go
\* of a process has killed it.
LEMMA OrphanUndisturbed ==
    ASSUME Handover, Accounted, instances' = instances, mu' = mu,
           mu \in Reloaders => reloader'[mu] = reloader[mu],
           \A r \in Reloaders :
              /\ \/ reloader'[r].old = None
                 \/ reloader'[r].old = instances[reloader'[r].plugin]
                 \/ /\ reloader'[r].old = reloader[r].old
                    /\ reloader'[r].plugin = reloader[r].plugin
              /\ \/ reloader'[r].new = reloader[r].new
                 \/ reloader[r].new = None
                 \/ proc'[reloader[r].new].state = "killed",
           \A i \in Processes :
              /\ proc[i].state = "killed" => proc'[i].state = "killed"
              /\ proc'[i].state = "live" =>
                    \/ proc[i].state = "live" /\ (drain'[i] = "no" => drain[i] = "no")
                    \/ \E r \in Reloaders : reloader'[r].new = i
    PROVE  Accounted'
<1> USE PluginAssumption
<1>1. OldIsCurrent'
  BY DEF Accounted, OldIsCurrent
<1>2. ReplacedIsKilled'
  <2>1. mu \in Reloaders => reloader[mu].plugin \in Plugins
    BY Ranges DEF Handover, TypeOK, Hands, HoldsOf, Reloading
  <2> QED BY <2>1, Ranges DEF Handover, Accounted, ReplacedIsKilled
<1>3. NoOrphanProcess'
  BY DEF Accounted, NoOrphanProcess, Orphan
<1> QED BY <1>1, <1>2, <1>3 DEF Accounted

LEMMA PublishedAccounted ==
    ASSUME Handover, Accounted, NoOverlap, NEW r \in Reloaders, Swap(r) \/ StartRegister(r)
    PROVE  Accounted'
<1> USE PluginAssumption
<1> DEFINE i == reloader[r].new
           p == reloader[r].plugin
<1>1. reloader[r].pc \in {"swap", "start"} /\ HoldsOf(r) /\ mu' \notin Reloaders /\ proc' = proc
  BY DEF Swap, StartRegister, Handover, TypeOK, Hands
<1>2. i \in Processes /\ p \in Plugins
  BY <1>1, Ranges DEF HoldsOf, Reloading, Handover
<1>3. /\ instances'[p] = i /\ \A k \in Plugins \ {p} : instances'[k] = instances[k]
  BY <1>2 DEF Swap, StartRegister, Handover, TypeOK
<1>4. /\ reloader'[r].old = None /\ reloader'[r].new = None
      /\ \A s \in Reloaders \ {r} : reloader'[s] = reloader[s]
  BY NextPluginEffect DEF Swap, StartRegister, Handover
<1>5. OldIsCurrent'
  <2>1. \A s \in Reloaders \ {r} : reloader[s].pc = "idle"
    BY <1>1 DEF NoOverlap
  <2>2. \A s \in Reloaders : reloader'[s].old = None
    BY <1>4, <2>1 DEF Handover, Hands, HoldsOf
  <2> QED BY <2>2 DEF OldIsCurrent
<1>6. ReplacedIsKilled'
  BY <1>1 DEF ReplacedIsKilled
<1>7. \A k \in Processes : drain'[k] = "no" => drain[k] = "no"
  <2>1. CASE StartRegister(r)
    BY <2>1 DEF StartRegister
  <2>2. CASE Swap(r)
    <3>1. reloader[r].old \in Processes
      BY <2>2, Ranges DEF Swap, Handover, Hands, HoldsOf
    <3> QED BY <2>2, <3>1 DEF Swap, Handover, TypeOK
  <2> QED BY <2>1, <2>2
<1>8. \/ instances[p] = None
      \/ proc[instances[p]].state = "killed"
      \/ drain'[instances[p]] # "no"
  <2>1. CASE StartRegister(r)
    BY <1>2, <2>1 DEF StartRegister, Accounted, ReplacedIsKilled
  <2>2. CASE Swap(r)
    <3>1. reloader[r].old \in Processes
      BY <2>2, Ranges DEF Swap, Handover, Hands, HoldsOf
    <3>2. instances[p] \in {reloader[r].old, None}
      BY <3>1 DEF Accounted, OldIsCurrent
    <3>3. drain'[reloader[r].old] # "no"
      BY <2>2, <3>1 DEF Swap, Handover, TypeOK
    <3> QED BY <3>2, <3>3
  <2> QED BY <2>1, <2>2
<1>9. NoOrphanProcess'
  <2> SUFFICES ASSUME NEW k \in Processes, proc[k].state = "live", drain'[k] = "no"
               PROVE  \/ \E q \in Plugins : instances'[q] = k
                      \/ \E s \in Reloaders : reloader'[s].new = k
    BY <1>1 DEF NoOrphanProcess, Orphan
  <2>1. CASE \E q \in Plugins : instances[q] = k
    BY <1>3, <1>8, <2>1
  <2>2. CASE \E s \in Reloaders : reloader[s].new = k
    BY <1>2, <1>3, <1>4, <2>2
  <2> QED BY <1>7, <2>1, <2>2 DEF Accounted, NoOrphanProcess, Orphan
<1> QED BY <1>5, <1>6, <1>9 DEF Accounted

LEMMA ReloadAccounted ==
    ASSUME Handover, Accounted, NoOverlap, NEW r \in Reloaders, ReloadAll(r)
    PROVE  Accounted'
<1> USE PluginAssumption
<1>1. reloader \in [Reloaders -> ReloadTypes] /\ HoldsOf(r) /\ proc \in [Processes -> ProcTypes]
  BY DEF Handover, TypeOK, Hands
<1>2. CASE LaunchFails(r)
  <2>1. UNCHANGED <<proc, drain, instances, mu>> /\ reloader[r].new = None /\ mu # r
    BY <1>1, <1>2 DEF LaunchFails, manager, HoldsOf, Handover, TypeOK
  <2>2. /\ reloader'[r].old = None
        /\ \A s \in Reloaders \ {r} : reloader'[s] = reloader[s]
    BY <1>2, NextPluginEffect DEF LaunchFails, Handover
  <2> QED BY <2>1, <2>2, OrphanUndisturbed
<1>3. CASE DiscoverPlugins(r) \/ ListRunning(r) \/ ReloadAllReturns(r)
  <2>1. UNCHANGED <<proc, drain, instances, mu>> /\ mu # r
    BY <1>3 DEF DiscoverPlugins, ListRunning, ReloadAllReturns, manager, Handover, TypeOK
  <2>2. \A s \in Reloaders \ {r} : reloader'[s] = reloader[s]
    BY <1>1, <1>3 DEF DiscoverPlugins, ListRunning, ReloadAllReturns
  <2>3. reloader'[r].old = None /\ reloader[r].new = None
    BY <1>1, <1>3 DEF DiscoverPlugins, ListRunning, ReloadAllReturns, Resting, HoldsOf, ReloadTypes
  <2> QED BY <2>1, <2>2, <2>3, OrphanUndisturbed
<1>4. ASSUME NEW p \in Plugins, ReadOld(r, p) \/ StartNew(r, p)
      PROVE  Accounted'
  <2>1. UNCHANGED <<proc, drain, instances, mu>> /\ mu # r
    BY <1>4 DEF ReadOld, StartNew, manager, Handover, TypeOK
  <2>2. \A s \in Reloaders \ {r} : reloader'[s] = reloader[s]
    BY <1>1, <1>4 DEF ReadOld, StartNew
  <2>3. reloader[r].new = None /\ reloader[r].old = None
    BY <1>1, <1>4 DEF ReadOld, StartNew, HoldsOf
  <2>4. reloader'[r].old = None \/ reloader'[r].old = instances[reloader'[r].plugin]
    BY <1>1, <1>4, <2>3 DEF ReadOld, StartNew, ReloadTypes
  <2> QED BY <2>1, <2>2, <2>3, <2>4, OrphanUndisturbed
<1>5. CASE Launch(r)
  <2>1. /\ UNCHANGED <<drain, instances, mu>> /\ mu # r
        /\ launched + 1 \in Processes /\ launched \in Nat
    BY <1>5 DEF Launch, manager, Handover, TypeOK
  <2>2. /\ \A s \in Reloaders \ {r} : reloader'[s] = reloader[s]
        /\ reloader'[r].old = reloader[r].old /\ reloader'[r].plugin = reloader[r].plugin
        /\ reloader'[r].new = launched + 1 /\ reloader[r].new = None
    BY <1>1, <1>5 DEF Launch, HoldsOf, ReloadTypes
  <2>3. \A k \in Processes : k # launched + 1 => proc'[k] = proc[k]
    BY <1>1, <1>5, <2>1 DEF Launch
  <2>4. proc[launched + 1].state = "unborn"
    BY <2>1 DEF Handover, Numbered
  <2> QED BY <2>1, <2>2, <2>3, <2>4, OrphanUndisturbed
<1>6. CASE InitPlugin(r)
  <2>1. UNCHANGED <<drain, instances, mu>> /\ mu # r
    BY <1>6 DEF InitPlugin, manager, Handover, TypeOK
  <2>2. /\ \A s \in Reloaders \ {r} : reloader'[s] = reloader[s]
        /\ reloader'[r].old = reloader[r].old /\ reloader'[r].plugin = reloader[r].plugin
        /\ reloader'[r].new = reloader[r].new
    BY <1>1, <1>6 DEF InitPlugin, ReloadTypes
  <2>3. reloader[r].new \in Processes
    BY <1>1, <1>6, Ranges DEF InitPlugin, HoldsOf, Handover
  <2>4. \A k \in Processes : proc'[k].state = proc[k].state
    BY <1>1, <1>6, <2>3 DEF InitPlugin, ProcTypes
  <2> QED BY <2>1, <2>2, <2>4, OrphanUndisturbed
<1>7. CASE InitFails(r)
  <2>1. UNCHANGED <<drain, instances, mu>> /\ mu # r
    BY <1>7 DEF InitFails, manager, Handover, TypeOK
  <2>2. /\ \A s \in Reloaders \ {r} : reloader'[s] = reloader[s]
        /\ reloader'[r].old = None
    BY <1>7, NextPluginEffect DEF InitFails, Handover
  <2>3. reloader[r].new \in Processes
    BY <1>1, <1>7, Ranges DEF InitFails, HoldsOf, Handover
  <2>4. \A k \in Processes :
           proc'[k].state = IF k = reloader[r].new THEN "killed" ELSE proc[k].state
    BY <1>7, <2>3, KillEffect DEF InitFails, Causes, Handover
  <2> QED BY <2>1, <2>2, <2>3, <2>4, OrphanUndisturbed
<1>8. CASE StartReplace(r)
  <2> DEFINE p == reloader[r].plugin
             old == instances[p]
  <2>1. UNCHANGED <<drain, instances, reloader>> /\ mu' = r /\ p \in Plugins
    BY <1>1, <1>8, Ranges DEF StartReplace, HoldsOf, Reloading, Handover
  <2>2. /\ \A k \in Processes : proc'[k].state \in {proc[k].state, "killed"}
        /\ old # None => proc'[old].state = "killed"
    <3>1. CASE old = None
      BY <1>8, <3>1 DEF StartReplace
    <3>2. CASE old # None
      BY <1>8, <2>1, <3>2, KillEffect, Ranges DEF StartReplace, Causes, Handover
    <3> QED BY <3>1, <3>2
  <2>3. OldIsCurrent' /\ ReplacedIsKilled'
    BY <2>1, <2>2 DEF Accounted, OldIsCurrent, ReplacedIsKilled
  <2>4. NoOrphanProcess'
    BY <2>1, <2>2 DEF Accounted, NoOrphanProcess, Orphan
  <2> QED BY <2>3, <2>4 DEF Accounted
<1> QED BY <1>2, <1>3, <1>4, <1>5, <1>6, <1>7, <1>8, PublishedAccounted DEF ReloadAll

LEMMA NextAccounted ==
    ASSUME Handover, Accounted, NoOverlap, [Next]_vars
    PROVE  Accounted'
<1> USE PluginAssumption
<1>1. ASSUME NEW i \in Processes, DrainEnds(i) \/ CloseInstance(i) \/ Crash(i)
      PROVE  Accounted'
  <2>1. UNCHANGED <<instances, mu, reloader>>
    BY <1>1 DEF DrainEnds, CloseInstance, Crash, manager
  <2>2. CASE DrainEnds(i)
    <3>1. proc' = proc /\ \A k \in Processes : drain'[k] = "no" => drain[k] = "no"
      BY <2>2 DEF DrainEnds, Handover, TypeOK
    <3> QED BY <2>1, <3>1, OrphanUndisturbed
  <2>3. CASE CloseInstance(i)
    <3>1. \A k \in Processes : k # i => drain'[k] = drain[k]
      BY <2>3 DEF CloseInstance, Handover, TypeOK
    <3>2. \A k \in Processes : proc'[k].state = IF k = i THEN "killed" ELSE proc[k].state
      <4>1. Kill(i, drain[i]) /\ drain[i] \in Causes
        BY <2>3 DEF CloseInstance, Causes
      <4> QED BY <4>1, KillEffect DEF Handover
    <3> QED BY <2>1, <3>1, <3>2, OrphanUndisturbed
  <2>4. CASE Crash(i)
    <3>1. /\ \A k \in Processes : proc'[k].state = IF k = i THEN "crashed" ELSE proc[k].state
          /\ proc[i].state = "live" /\ drain' = drain
      BY <2>4 DEF Crash, Handover, TypeOK, ProcTypes
    <3> QED BY <2>1, <3>1, OrphanUndisturbed
  <2> QED BY <1>1, <2>2, <2>3, <2>4
<1>2. ASSUME NEW p \in Plugins, CloseNext(p)
      PROVE  Accounted'
  <2>1. /\ UNCHANGED <<proc, mu, reloader>> /\ mu \notin Reloaders
        /\ instances[p] \in Processes
    BY <1>2, Ranges DEF CloseNext, Handover
  <2>2. /\ instances'[p] = None /\ \A k \in Plugins \ {p} : instances'[k] = instances[k]
        /\ drain'[instances[p]] # "no"
        /\ \A k \in Processes : drain'[k] = "no" => drain[k] = "no"
    BY <1>2, <2>1 DEF CloseNext, Handover, TypeOK
  <2>3. OldIsCurrent'
    <3>1. \A s \in Reloaders : reloader[s].old # None => reloader[s].plugin \in Plugins
      BY Ranges DEF Handover, Hands, HoldsOf, Reloading
    <3> QED BY <2>1, <2>2, <3>1 DEF Accounted, OldIsCurrent
  <2>4. ReplacedIsKilled'
    BY <2>1 DEF ReplacedIsKilled
  <2>5. NoOrphanProcess'
    BY <2>1, <2>2 DEF Accounted, NoOrphanProcess, Orphan
  <2> QED BY <2>3, <2>4, <2>5 DEF Accounted
<1>3. CASE CloseBegins \/ CloseEnds
  <2>1. UNCHANGED <<proc, drain, instances, reloader>> /\ mu' \notin Reloaders
    BY <1>3 DEF CloseBegins, CloseEnds
  <2>2. OldIsCurrent' /\ ReplacedIsKilled'
    BY <2>1 DEF Accounted, OldIsCurrent, ReplacedIsKilled
  <2>3. NoOrphanProcess'
    BY <2>1 DEF Accounted, NoOrphanProcess, Orphan
  <2> QED BY <2>2, <2>3 DEF Accounted
<1>4. CASE Requests
  <2>1. \A k \in Processes : proc'[k].state = proc[k].state
    <3>1. ASSUME NEW p \in Plugins, NEW ok \in BOOLEAN, UpdatePluginConfig(p, ok)
          PROVE  \A k \in Processes : proc'[k].state = proc[k].state
      <4>1. proc' = proc \/ proc' = [proc EXCEPT ![instances[p]].config = config + 1]
        BY <3>1 DEF UpdatePluginConfig
      <4> QED BY <4>1, Ranges DEF Handover, TypeOK, ProcTypes
    <3> QED BY <1>4, <3>1 DEF Requests, Install
  <2>2. UNCHANGED <<drain, instances, mu, reloader>>
    BY <1>4 DEF Requests, UpdatePluginConfig, Install, manager
  <2> QED BY <2>1, <2>2, OrphanUndisturbed
<1>5. CASE Calls \/ UNCHANGED vars
  <2>1. UNCHANGED <<proc, drain, instances, mu, reloader>>
    BY <1>5 DEF Calls, Lookup, StartCall, CallReturns, manager, vars
  <2> QED BY <2>1, OrphanUndisturbed
<1> QED BY <1>1, <1>2, <1>3, <1>4, <1>5, ReloadAccounted DEF Next, Close

\* As long as reload requests do not overlap, no process is left behind: one that
\* is alive is in the map, is being launched, or is being drained, also across
\* failed launches, installs, crashes and the shutdown (manager.go: Reload).
THEOREM NoProcessLeftBehind == Spec /\ []NoOverlap => []NoOrphanProcess
<1>1. Init => Accounted
  <2>1. Init => OldIsCurrent /\ ReplacedIsKilled
    BY PluginAssumption DEF Init, Resting, OldIsCurrent, ReplacedIsKilled
  <2>2. Init => NoOrphanProcess
    BY DEF Init, NoProc, NoOrphanProcess, Orphan
  <2> QED BY <2>1, <2>2 DEF Accounted
<1>2. Accounted => NoOrphanProcess
  BY DEF Accounted
<1> QED BY <1>1, <1>2, NextAccounted, HandoverInvariant, PTL DEF Spec
=============================================================================
