---------------------------- MODULE SplitEngine ----------------------------
(***************************************************************************)
(* The split-tunnel daemon (splitd/src): the commands of its D-Bus         *)
(* interface, the policy maps and socket programs in the kernel, the       *)
(* bypass routes, the process tracker and the state file.                  *)
(*                                                                         *)
(* Engine.inner is behind one mutex: a command, an event or a              *)
(* reconciliation excludes the others, but the daemon can be killed        *)
(* between the steps of a command, each of which is one change outside     *)
(* its memory.  Programs and routes in the kernel outlive the daemon.      *)
(* Every process change, command, fault and kill is paid from one budget   *)
(* (a second fault, in an error path, is free), which bounds the           *)
(* environment and makes it quiet in the end.                              *)
(*                                                                         *)
(* Paths, addresses and identities are model values: a rule is an Image or *)
(* a Destination, a physical route a family and a link.                    *)
(***************************************************************************)
EXTENDS Naturals, Sequences, FiniteSets

CONSTANTS Uid,                     \* users, positive numbers; 0 is root
          Pid,                     \* process ids, reused after an exit
          Image,                   \* what /proc tells of an executable
          AgentImage,              \* the identity of the agent itself
          Destination,             \* destination ranges
          ConfigChoice,            \* the configurations the clients send
          OfferChoice,             \* the route lists the clients send
          Boot,                    \* the processes there are at the start
          MAX_CONFIGS,             \* 64 in the code
          MAX_STATE_BYTES,         \* 2 MiB in the code
          state_bytes(_),          \* how long a state is once it is serialized
          PROCESS_EVENT_CAPACITY,  \* 4096 in the code
          Budget                   \* bound on what the environment does

Mode == {"Exclude", "Include"}

\* A configuration after validate: duplicates and empty entries are gone.
Config   == [mode : Mode, app_paths : SUBSET Image, ip_ranges : SUBSET Destination]
NoConfig == [mode |-> "none", app_paths |-> {}, ip_ranges |-> {}]

Family == {"Ipv4", "Ipv6"}
Route  == [family : Family, link : Nat]

ASSUME SplitAssumption ==
    /\ Uid \subseteq Nat \ {0} /\ Pid \subseteq Nat \ {0}
    /\ AgentImage \in Image
    /\ ConfigChoice \subseteq Config
    /\ OfferChoice \subseteq SUBSET Route
    /\ MAX_CONFIGS \in Nat /\ PROCESS_EVENT_CAPACITY \in Nat /\ Budget \in Nat
    /\ MAX_STATE_BYTES \in Nat

NoConfigs  == [u \in Uid |-> NoConfig]
NoPolicies == [u \in Uid |-> {}]
Saved(c, d, b) == [configs |-> c, policies |-> d, bypass |-> b]
NoState == Saved(NoConfigs, NoPolicies, NoPolicies)

\* A state without entries is far below the limit.
ASSUME SizeAssumption == state_bytes(NoState) \in Nat /\ state_bytes(NoState) < MAX_STATE_BYTES

VARIABLES phase,       \* the daemon: "down", "starting" or "up"
          configs, policies, bypass,   \* Inner, the part the state file keeps
          attached,    \* Inner.marker is some
          synced,      \* the configurations and policies the marker has written
          tracked,     \* Inner.tracked
          disk,        \* the state file
          maps,        \* kernel: the maps of the attached programs
          routes,      \* kernel: the bypass routes and rules of each user
          process,     \* kernel: the process table
          queue,       \* process events on their way to the tracker
          dirty,       \* reconciliation_needed
          cmd,         \* the command that holds the lock, between two steps
          left,        \* what is left of the budget
          lost,        \* processes whose map entry the tracker lost in a failed step
          torn         \* a command was cut short, its rollback failed, or it found mixed maps

memory == <<configs, policies, bypass>>
marks  == <<attached, synced, tracked, maps, lost>>
events == <<process, queue, dirty>>
vars   == <<phase, memory, marks, disk, routes, events, cmd, left, torn>>

Idle == [op |-> "idle", pc |-> "idle", uid |-> 0, config |-> NoConfig,
         policy |-> {}, routes |-> {}, offer |-> {}]

NoProcess == [uid |-> 0, ppid |-> 0, image |-> AgentImage]
Live      == {p \in Pid : process[p].uid # 0}

Untracked == [uid |-> 0, matched |-> FALSE, excluded |-> FALSE]
NoTracking == [p \in Pid |-> Untracked]

\* The maps of freshly attached programs, and what is there without programs.
NoMaps    == [on |-> FALSE, mode |-> [u \in Uid |-> "none"], ranges |-> NoPolicies,
              bypass |-> NoPolicies, pids |-> {}]
EmptyMaps == [NoMaps EXCEPT !.on = TRUE]

Init ==
    /\ phase = "down"
    /\ configs = NoConfigs /\ policies = NoPolicies /\ bypass = NoPolicies
    /\ attached = FALSE /\ synced = <<NoConfigs, NoPolicies>> /\ tracked = NoTracking
    /\ disk = NoState
    /\ maps = NoMaps /\ lost = {}
    /\ routes = NoPolicies
    /\ process = [p \in Pid |-> IF p \in DOMAIN Boot THEN Boot[p] ELSE NoProcess]
    /\ queue = <<>> /\ dirty = FALSE
    /\ cmd = Idle
    /\ left = Budget
    /\ torn = FALSE

\* What the environment does, and every fault, is paid for.
Pay(n) == left >= n /\ left' = left - n

-----------------------------------------------------------------------------
(* model.rs *)

has_app_rules(c) == c.app_paths # {}

has_rules(c) == has_app_rules(c) \/ c.ip_ranges # {}

matches(c, image) ==
    \/ c.mode = "Include" /\ image = AgentImage
    \/ image \in c.app_paths

excludes(c, matched) == IF c.mode = "Exclude" THEN matched ELSE ~matched

needs_process_tracking(c) == has_app_rules(c) \/ (c.mode = "Include" /\ has_rules(c))

-----------------------------------------------------------------------------
(* routing.rs, on the routes r of all users *)

\* For each family the first of the unique routes that were offered.
preferred_routes(offer) ==
    {x \in offer : \A y \in offer : y.family = x.family => x.link <= y.link}

route_families(s) == {x.family : x \in s}

\* enable refuses an empty list, and a table or a rule that is in use already.
CanEnable(r, u, s) == s # {} /\ route_families(r[u]) \cap route_families(s) = {}

Enabled(r, u, s) == [r EXCEPT ![u] = @ \cup s]

Disabled(r, u, s) == [r EXCEPT ![u] = @ \ s]

-----------------------------------------------------------------------------
(* bpf.rs *)

\* replace_maps: the entries of the old policy are deleted, those of the new
\* one are written.
replace_maps(m, old, new) ==
    [m EXCEPT
        !.mode = [u \in Uid |-> IF has_rules(new[1][u]) THEN new[1][u].mode
                                ELSE IF old[1][u] # NoConfig THEN "none" ELSE m.mode[u]],
        !.ranges = [u \in Uid |-> (m.ranges[u] \ old[1][u].ip_ranges)
                                    \cup new[1][u].ip_ranges],
        !.bypass = [u \in Uid |-> (m.bypass[u] \ old[2][u]) \cup new[2][u]]]

\* What sync_configs may leave when replace_maps fails: the maps as they were, or, when
\* putting the old policy back fails too, each entry of the two policies or nothing.
PartlyReplaced(m, old, new) ==
    LET done == replace_maps(m, old, new)
    IN  {[m EXCEPT !.mode = mode, !.ranges = ranges, !.bypass = kept] :
            mode \in {f \in [Uid -> Mode \cup {"none"}] :
                        \A u \in Uid : f[u] \in {m.mode[u], "none", done.mode[u]}},
            ranges \in {f \in [Uid -> SUBSET Destination] :
                        \A u \in Uid : f[u] \subseteq m.ranges[u] \cup done.ranges[u]},
            kept \in {f \in [Uid -> SUBSET Destination] :
                        \A u \in Uid : f[u] \subseteq m.bypass[u] \cup done.bypass[u]}}

\* The maps do not hold the policy that sync_configs takes them to hold: the kernel
\* refused a policy and then its rollback.
Mixed ==
    attached /\ maps # replace_maps([EmptyMaps EXCEPT !.pids = maps.pids],
                                    <<NoConfigs, NoPolicies>>, synced)

\* socket_mark_program and destination_mark_program: the mark of a socket of
\* process p after it addressed d, from the mark it had before.
destination_mark_program(p, d, before) ==
    LET u == process[p].uid
        base == p \in maps.pids
        exclude ==
            \/ d \in maps.bypass[u]
            \/ IF maps.mode[u] # "none" /\ d \in maps.ranges[u]
                 THEN maps.mode[u] = "Exclude" ELSE base
    IN  IF ~maps.on THEN before
        ELSE IF exclude THEN "ours"
        ELSE IF before = "ours" THEN "none" ELSE before

-----------------------------------------------------------------------------
(* engine.rs: reconcile *)

\* What the tracker notes of process p when it matches or not.
Tracking(c, p, m) ==
    LET u == process[p].uid
    IN  [uid |-> u, matched |-> m, excluded |-> excludes(c[u], m)]

\* procfs::scan and build_tracking.  A process of a configured user matches by its
\* own identity or through its ancestors; the loop of the code is the closure.
build_tracking(c) ==
    LET mine == {p \in Live : c[process[p].uid] # NoConfig}
        hit[n \in 0 .. Cardinality(Pid)] ==
            IF n = 0 THEN {p \in mine : matches(c[process[p].uid], process[p].image)}
            ELSE hit[n - 1] \cup {p \in mine : process[p].ppid \in hit[n - 1]}
        all == hit[Cardinality(Pid)]
    IN  [p \in Pid |-> IF p \in mine THEN Tracking(c, p, p \in all) ELSE Untracked]

ExcludedIn(t) == {p \in Pid : t[p].excluded}

AnyRules(c, d) == \E u \in Uid : has_rules(c[u]) \/ d[u] # {}

\* The processes that reconcile is to track, without a scan when no rule asks for it.
NextTracking(c) ==
    IF \E u \in Uid : needs_process_tracking(c[u]) THEN build_tracking(c) ELSE NoTracking

\* Variant for a mutant: processes are added and never removed.
RetrackOnlyAdding(c, m) ==
    LET next == NextTracking(c)
    IN  tracked' = next /\ maps' = [m EXCEPT !.pids = @ \cup ExcludedIn(next)]

\* The last part of reconcile, on maps m that hold the policy already.
Retrack(c, m) ==
    LET next == NextTracking(c)
    IN  /\ tracked' = next
        /\ maps' = [m EXCEPT !.pids = (@ \ (ExcludedIn(tracked) \ ExcludedIn(next)))
                                            \cup ExcludedIn(next)]

Base == IF attached THEN maps ELSE EmptyMaps

reconcile(c, d) ==
    \/ /\ ~AnyRules(c, d)
       /\ attached' = FALSE /\ synced' = <<NoConfigs, NoPolicies>> /\ tracked' = NoTracking
       /\ maps' = (IF attached THEN NoMaps ELSE maps) /\ lost' = {}
    \/ /\ AnyRules(c, d)
       /\ attached' = TRUE /\ synced' = <<c, d>>
       /\ Retrack(c, replace_maps(Base, synced, <<c, d>>))
       /\ UNCHANGED lost

\* The places where it fails: attaching, which may cost the programs of the last life;
\* writing a policy that is not written yet; scanning /proc; and on the way through the
\* map of processes, where new entries are written before the tracker knows of them.
reconcileFails(c, d) ==
    LET next == ExcludedIn(NextTracking(c))
        gone == ExcludedIn(tracked) \ next
    IN  /\ AnyRules(c, d)
        /\ \/ /\ ~attached
              /\ maps' \in {maps, NoMaps}
              /\ UNCHANGED <<attached, synced, tracked, lost>>
           \/ /\ synced # <<c, d>>
              /\ attached' = TRUE
              /\ maps' \in PartlyReplaced(Base, synced, <<c, d>>)
              /\ UNCHANGED <<synced, tracked, lost>>
           \/ /\ attached' = TRUE /\ synced' = <<c, d>>
              /\ \E out \in SUBSET gone, in \in SUBSET next :
                    /\ out = gone \/ in = {}
                    /\ maps' = [replace_maps(Base, synced, <<c, d>>) EXCEPT
                                  !.pids = (@ \ out) \cup in]
                    /\ lost' = lost \cup (in \ ExcludedIn(tracked))
              /\ UNCHANGED tracked

-----------------------------------------------------------------------------
(* The commands.  The caller is root or the user the command is about.     *)

authorize(caller, u) == caller \in {0, u}

Ready(caller, u) == phase = "up" /\ cmd = Idle /\ authorize(caller, u)

Goto(pc) == cmd' = [cmd EXCEPT !.pc = pc]

configured_user_count == Cardinality({u \in Uid : configs[u] # NoConfig \/ policies[u] # {}})

Admitted(u) ==
    \/ configs[u] # NoConfig \/ policies[u] # {}
    \/ configured_user_count < MAX_CONFIGS

\* Variant for a mutant: the bypass of a policy without rules stays.
BypassToDropNever(u, c) == {}

\* A configuration without rules takes the bypass routes with it.
BypassToDrop(u, c) == IF has_rules(c) THEN {} ELSE bypass[u]

\* set_config, and clear_config for NoConfig: up to the change in memory.
set_config(caller, u, c) ==
    /\ Ready(caller, u)
    /\ c = NoConfig \/ Admitted(u)
    /\ LET drop == BypassToDrop(u, c)
       IN  \/ /\ Pay(1)
              /\ bypass' = Disabled(bypass, u, drop)
              /\ routes' = Disabled(routes, u, drop)
              /\ configs' = [configs EXCEPT ![u] = c]
              /\ cmd' = [Idle EXCEPT !.op = IF c = NoConfig THEN "clear" ELSE "set", !.pc = "reconcile", !.uid = u,
                                     !.config = configs[u], !.policy = policies[u],
                                     !.routes = drop]
           \/ /\ Pay(2)
              /\ \E gone \in SUBSET drop \ {drop} : routes' = Disabled(routes, u, gone)
              /\ UNCHANGED <<bypass, configs, cmd>>
    /\ torn' = (torn \/ Mixed)
    /\ UNCHANGED <<phase, policies, marks, disk, events>>

set_destination_policy(caller, u, ranges) ==
    /\ Ready(caller, u)
    /\ Admitted(u)
    /\ Pay(1)
    /\ policies' = [policies EXCEPT ![u] = ranges]
    /\ cmd' = [Idle EXCEPT !.op = "policy", !.pc = "reconcile", !.uid = u,
                           !.config = configs[u], !.policy = policies[u]]
    /\ torn' = (torn \/ Mixed)
    /\ UNCHANGED <<phase, configs, bypass, marks, disk, routes, events>>

\* set_kill_switch_bypass: the routes in use are taken down first.  An offer
\* that equals what is installed, or nothing to take down, ends the call.
set_kill_switch_bypass(caller, u, enabled, offer) ==
    /\ Ready(caller, u)
    /\ \/ enabled /\ has_rules(configs[u]) /\ offer # bypass[u]
       \/ ~enabled /\ bypass[u] # {}
    /\ \/ /\ Pay(1)
          /\ bypass' = [bypass EXCEPT ![u] = {}]
          /\ routes' = Disabled(routes, u, bypass[u])
          /\ cmd' = [Idle EXCEPT !.op = IF enabled THEN "enable" ELSE "disable",
                                 !.pc = IF enabled THEN "enable" ELSE "save",
                                 !.uid = u, !.routes = bypass[u], !.offer = offer]
       \/ /\ Pay(2)
          /\ \E gone \in SUBSET bypass[u] \ {bypass[u]} : routes' = Disabled(routes, u, gone)
          /\ UNCHANGED <<bypass, cmd>>
    /\ UNCHANGED <<phase, configs, policies, marks, disk, events, torn>>

\* The routes a command took down are put back, when that works.
Restore(r, u, s) ==
    \/ /\ CanEnable(r, u, s)
       /\ routes' = Enabled(r, u, s)
       /\ bypass' = [bypass EXCEPT ![u] = s]
       /\ UNCHANGED left
    \/ /\ routes' = r
       /\ bypass' = [bypass EXCEPT ![u] = {}]
       /\ IF CanEnable(r, u, s) THEN Pay(1) ELSE UNCHANGED left

EnableRoutes ==
    LET u == cmd.uid
        s == preferred_routes(cmd.offer)
    IN  /\ cmd.pc = "enable"
        /\ \/ /\ CanEnable(routes, u, s)
              /\ routes' = Enabled(routes, u, s)
              /\ bypass' = [bypass EXCEPT ![u] = s]
              /\ Goto("save")
              /\ UNCHANGED <<left, torn>>
           \/ /\ ~CanEnable(routes, u, s)
              /\ Goto("undo")
              /\ UNCHANGED <<routes, bypass, left, torn>>
           \/ /\ CanEnable(routes, u, s) /\ Pay(1)
              /\ \E rest \in SUBSET s : /\ routes' = Enabled(routes, u, rest)
                                       /\ torn' = (torn \/ rest # {})
              /\ Goto("undo")
              /\ UNCHANGED bypass
        /\ UNCHANGED <<phase, configs, policies, marks, disk, events>>

Reconcile ==
    /\ cmd.pc = "reconcile"
    /\ UNCHANGED <<phase, memory, disk, routes, events, torn>>
    /\ \/ Goto("save") /\ UNCHANGED left /\ reconcile(configs, policies)
       \/ Goto("undo") /\ Pay(1) /\ reconcileFails(configs, policies)

\* What save refuses to write.  It looks at the state before the newline is added.
TooLong(f) == state_bytes(f) > MAX_STATE_BYTES

\* save replaces the file by a rename; a failure after the rename is possible.
Save ==
    LET f == Saved(configs, policies, bypass)
    IN  /\ cmd.pc = "save"
        /\ \/ /\ ~TooLong(f)
              /\ disk' = f /\ cmd' = Idle
              /\ UNCHANGED <<left, torn>>
           \/ /\ TooLong(f)
              /\ Goto("undo")
              /\ UNCHANGED <<disk, left, torn>>
           \/ /\ ~TooLong(f) /\ Pay(1)
              /\ disk' \in {disk, f}
              /\ Goto("undo")
              /\ torn' = (torn \/ disk' # disk)
        /\ UNCHANGED <<phase, memory, marks, routes, events>>

\* The error path of set_config, clear_config and set_destination_policy.
UndoPolicy ==
    LET u == cmd.uid
    IN  /\ cmd.pc = "undo" /\ cmd.op \in {"set", "clear", "policy"}
        /\ cmd' = Idle
        /\ configs' = [configs EXCEPT ![u] = cmd.config]
        /\ policies' = [policies EXCEPT ![u] = cmd.policy]
        /\ IF cmd.op = "clear" /\ cmd.config = NoConfig
             THEN UNCHANGED marks
             ELSE \/ reconcile(configs', policies')
                  \/ left > 0 /\ reconcileFails(configs', policies')
        /\ torn' = (torn \/ Mixed)
        /\ \/ cmd.routes = {} /\ UNCHANGED <<bypass, routes, left>>
           \/ cmd.routes # {} /\ Restore(routes, u, cmd.routes)
        /\ UNCHANGED <<phase, disk, events>>

\* Variant for a mutant: the new routes are not taken down again.
UndoBypassOnlyRestoring ==
    /\ cmd.pc = "undo" /\ cmd.op \in {"enable", "disable"}
    /\ Restore(routes, cmd.uid, cmd.routes)
    /\ cmd' = Idle
    /\ UNCHANGED <<phase, configs, policies, marks, disk, events, torn>>

\* The error path of set_kill_switch_bypass.
UndoBypass ==
    LET u == cmd.uid
    IN  /\ cmd.pc = "undo" /\ cmd.op \in {"enable", "disable"}
        /\ \/ Restore(Disabled(routes, u, bypass[u]), u, cmd.routes) /\ UNCHANGED torn
           \/ /\ bypass[u] # {} /\ Pay(1)
              /\ bypass' = [bypass EXCEPT ![u] = {}]
              /\ torn' = TRUE
              /\ UNCHANGED routes
        /\ cmd' = Idle
        /\ UNCHANGED <<phase, configs, policies, marks, disk, events>>

-----------------------------------------------------------------------------
(* The process tracker *)

Mark(p, t) ==
    /\ tracked' = [tracked EXCEPT ![p] = t]
    /\ maps' = [maps EXCEPT !.pids = IF t.excluded THEN @ \cup {p} ELSE @ \ {p}]
    /\ UNCHANGED lost

\* Removing what is not in the map is no error, and changes nothing.
Unmark(p) ==
    /\ tracked' = [tracked EXCEPT ![p] = Untracked]
    /\ maps' = [maps EXCEPT !.pids = IF tracked[p].excluded THEN @ \ {p} ELSE @]
    /\ UNCHANGED lost

\* The tracker lets go of a process before the map does: when the map refuses, the
\* entry stays and nobody knows of it any more.
UnmarkFails(p) ==
    /\ tracked[p].excluded
    /\ tracked' = [tracked EXCEPT ![p] = Untracked]
    /\ lost' = lost \cup {p}
    /\ UNCHANGED maps

Ignore == UNCHANGED <<tracked, maps, lost>>

HandleExit(e) == Unmark(e.pid)

HandleFork(e) ==
    LET known == tracked[e.parent] # Untracked
        u == IF known THEN tracked[e.parent].uid ELSE process[e.pid].uid
        m == IF known THEN tracked[e.parent].matched
                      ELSE matches(configs[u], process[e.pid].image)
    IN  IF u = 0 \/ configs[u] = NoConfig
          THEN Ignore
          ELSE Mark(e.pid, [uid |-> u, matched |-> m, excluded |-> excludes(configs[u], m)])

HandleExec(e) ==
    LET u == process[e.pid].uid
    IN  IF u = 0 THEN Ignore
        ELSE IF configs[u] = NoConfig THEN Unmark(e.pid)
        ELSE Mark(e.pid, Tracking(configs, e.pid,
                            tracked[e.pid].matched \/ matches(configs[u], process[e.pid].image)))

\* The write to the map of processes fails: a process that is forgotten is forgotten
\* all the same, one that is to be noted is not.
HandleFails(e) ==
    LET u == process[e.pid].uid
    IN  IF e.kind = "Exit" \/ (e.kind = "Exec" /\ u # 0 /\ configs[u] = NoConfig)
          THEN UnmarkFails(e.pid)
          ELSE Ignore

\* The event task.  What it reads of /proc is there when the event is handled.
handle_event ==
    /\ phase = "up" /\ cmd = Idle /\ queue # <<>>
    /\ queue' = Tail(queue)
    /\ LET e == Head(queue)
       IN  \/ ~attached /\ Ignore /\ UNCHANGED <<dirty, left>>
           \/ /\ attached
              /\ \/ e.kind = "Exit" /\ HandleExit(e)
                 \/ e.kind = "Fork" /\ HandleFork(e)
                 \/ e.kind = "Exec" /\ HandleExec(e)
              /\ UNCHANGED <<dirty, left>>
           \/ attached /\ Pay(1) /\ HandleFails(e) /\ dirty' = TRUE
    /\ UNCHANGED <<phase, memory, attached, synced, disk, routes, process, cmd, torn>>

\* The reconcile task: at the next tick when events were lost, at every sixth
\* tick in any case.
Tick ==
    /\ phase = "up" /\ cmd = Idle
    /\ UNCHANGED <<phase, memory, disk, routes, process, queue, cmd, torn>>
    /\ \/ Pay(1) /\ dirty' = TRUE /\ reconcileFails(configs, policies)
       \/ UNCHANGED left /\ dirty' = FALSE /\ reconcile(configs, policies)

-----------------------------------------------------------------------------
(* Start and end of the daemon *)

\* load refuses a file that is too long, its newline included, that lists bypass routes
\* without rules, or that has too many users.
load_accepts(f) ==
    /\ ~(state_bytes(f) + 1 > MAX_STATE_BYTES)
    /\ \A u \in Uid : f.bypass[u] # {} =>
        /\ has_rules(f.configs[u])
        /\ Cardinality(f.bypass[u]) = Cardinality(route_families(f.bypass[u]))
    /\ Cardinality({u \in Uid : f.configs[u] # NoConfig}) <= MAX_CONFIGS
    /\ Cardinality({u \in Uid : f.policies[u] # {}}) <= MAX_CONFIGS

Cleaned(f) == [f EXCEPT !.bypass = NoPolicies]

\* with_store: the routes of the last life are taken down, the file is saved without
\* them, and the first scan is done.  Whatever fails ends the start, and the programs
\* that were attached until then, which have replaced those of the last life, go too.
with_store ==
    /\ phase = "down"
    /\ load_accepts(disk)
    /\ \/ /\ disk' = Cleaned(disk)
          /\ disk' = disk \/ ~TooLong(disk')
          /\ routes' = [u \in Uid |-> routes[u] \ disk.bypass[u]]
          /\ configs' = disk.configs /\ policies' = disk.policies /\ bypass' = NoPolicies
          /\ reconcile(disk.configs, disk.policies)
          /\ phase' = "starting"
          /\ UNCHANGED left
       \/ /\ Pay(1)
          /\ \E done \in SUBSET Uid :
                /\ routes' = [u \in Uid |-> IF u \in done THEN routes[u] \ disk.bypass[u]
                                           ELSE routes[u]]
                /\ disk' \in {disk} \cup {f \in {Cleaned(disk)} : done = Uid /\ ~TooLong(f)}
                /\ \/ UNCHANGED maps
                   \/ /\ disk' = Cleaned(disk) /\ AnyRules(disk.configs, disk.policies)
                      /\ maps' = NoMaps
          /\ UNCHANGED <<phase, memory, attached, synced, tracked, lost>>
    /\ UNCHANGED <<events, cmd, torn>>

\* ProcessConnector::spawn: only what happens from now on is reported.
Subscribe ==
    /\ phase = "starting"
    /\ phase' = "up"
    /\ queue' = <<>> /\ dirty' = FALSE
    /\ UNCHANGED <<memory, marks, disk, routes, process, cmd, left, torn>>

Forget ==
    /\ phase' = "down"
    /\ configs' = NoConfigs /\ policies' = NoPolicies /\ bypass' = NoPolicies
    /\ attached' = FALSE /\ synced' = <<NoConfigs, NoPolicies>> /\ tracked' = NoTracking
    /\ queue' = <<>> /\ dirty' = FALSE
    /\ cmd' = Idle /\ lost' = {}
    /\ UNCHANGED <<disk, process>>

Kill ==
    /\ phase # "down" /\ Pay(1)
    /\ Forget
    /\ torn' = (torn \/ cmd # Idle)
    /\ UNCHANGED <<maps, routes>>

\* Drop of Engine and SocketMarker, at the end or when the connector does not start: the
\* routes go, the programs are detached.
Stop ==
    /\ phase # "down" /\ cmd = Idle /\ Pay(1)
    /\ Forget
    /\ routes' = [u \in Uid |-> routes[u] \ bypass[u]]
    /\ maps' = IF attached THEN NoMaps ELSE maps
    /\ UNCHANGED torn

-----------------------------------------------------------------------------
(* The kernel's side of the process connector.  An event is queued, or it  *)
(* is lost to a full channel or socket and the tracker is told so.         *)

Report(e) ==
    \/ /\ phase = "up" /\ Len(queue) < PROCESS_EVENT_CAPACITY
       /\ queue' = Append(queue, e) /\ UNCHANGED dirty
    \/ /\ phase = "up" /\ dirty' = TRUE /\ UNCHANGED queue
    \/ /\ phase # "up" /\ UNCHANGED <<queue, dirty>>

Event(kind, p, parent) == [kind |-> kind, pid |-> p, parent |-> parent]

ForkProcess(p, child) ==
    /\ p \in Live /\ child \notin Live
    /\ process' = [process EXCEPT ![child] = [process[p] EXCEPT !.ppid = p]]
    /\ Report(Event("Fork", child, p))

ExecProcess(p, image) ==
    /\ p \in Live /\ process[p].image # image
    /\ process' = [process EXCEPT ![p].image = image]
    /\ Report(Event("Exec", p, p))

\* The children of a process that ends are adopted by init.
ExitProcess(p) ==
    /\ p \in Live
    /\ process' = [q \in Pid |->
                     IF q = p THEN NoProcess
                     ELSE IF process[q].ppid = p THEN [process[q] EXCEPT !.ppid = 0]
                     ELSE process[q]]
    /\ Report(Event("Exit", p, p))

\* The connector also reports threads: the process ids of the events are those of
\* the thread groups, and the parent of a new thread is the parent of its process.
StartThread(p) ==
    /\ p \in Live /\ process[p].ppid # 0
    /\ Report(Event("Fork", p, process[p].ppid))
    /\ UNCHANGED process

EndThread(p) ==
    /\ p \in Live
    /\ Report(Event("Exit", p, p))
    /\ UNCHANGED process

Environment ==
    /\ \E p \in Pid :
        \/ \E q \in Pid : ForkProcess(p, q)
        \/ \E image \in Image : ExecProcess(p, image)
        \/ ExitProcess(p) \/ StartThread(p) \/ EndThread(p)
    /\ Pay(1)
    /\ UNCHANGED <<phase, memory, marks, disk, routes, cmd, torn>>

-----------------------------------------------------------------------------

Command ==
    \E caller \in Uid \cup {0}, u \in Uid :
        \/ \E c \in ConfigChoice \cup {NoConfig} : set_config(caller, u, c)
        \/ \E ranges \in SUBSET Destination : set_destination_policy(caller, u, ranges)
        \/ \E offer \in OfferChoice : set_kill_switch_bypass(caller, u, TRUE, offer)
        \/ set_kill_switch_bypass(caller, u, FALSE, {})

CommandStep == EnableRoutes \/ Reconcile \/ Save \/ UndoPolicy \/ UndoBypass

Next ==
    \/ Command \/ CommandStep
    \/ handle_event \/ Tick
    \/ with_store \/ Subscribe \/ Kill \/ Stop
    \/ Environment

\* A command runs to its end, systemd restarts the daemon, and its two tasks get
\* the lock: nobody holds it while waiting for anything.
Fairness ==
    /\ WF_vars(CommandStep) /\ WF_vars(with_store) /\ WF_vars(Subscribe)
    /\ WF_vars(handle_event) /\ WF_vars(Tick)

Spec == Init /\ [][Next]_vars /\ Fairness

-----------------------------------------------------------------------------
(* Properties *)

TrackedProcess == [uid : Uid \cup {0}, matched : BOOLEAN, excluded : BOOLEAN]

\* Every variable has its type and the channel holds no more than its capacity.
TypeOK ==
    /\ phase \in {"down", "starting", "up"}
    /\ configs \in [Uid -> Config \cup {NoConfig}]
    /\ policies \in [Uid -> SUBSET Destination]
    /\ \A u \in Uid : bypass[u] \cup routes[u] \subseteq UNION OfferChoice
    /\ tracked \in [Pid -> TrackedProcess]
    /\ maps.pids \subseteq Pid /\ lost \subseteq Pid
    /\ Len(queue) <= PROCESS_EVENT_CAPACITY
    /\ left \in 0 .. Budget
    /\ {attached, dirty, torn} \subseteq BOOLEAN

\* What save writes and load refuses: a state of exactly MAX_STATE_BYTES, whose newline
\* makes the file one byte longer.
OneByteOver(f) == ~TooLong(f) /\ state_bytes(f) + 1 > MAX_STATE_BYTES

\* The daemon writes no state file that it would refuse to load, but for the one byte of
\* the newline: however commands succeed, fail half way and are undone, a file on disk
\* has rules for every user with bypass routes, one route per family, room for its
\* users, and is at most that one byte too long.
FileAlwaysLoads == load_accepts(disk) \/ OneByteOver(disk)

\* No bypass route is orphaned: while no command is under way, what is in the
\* kernel is known to the daemon, and when it is not running, to the file it will
\* start from, unless a command was cut short or its rollback failed.
RoutesAccountedFor ==
    ~torn /\ cmd = Idle =>
        \A u \in Uid : routes[u] \subseteq IF phase = "down" THEN disk.bypass[u] ELSE bypass[u]

\* What the configuration of its user says of process p and destination d, when a scan
\* finds the processes t.
ShouldBypass(t, p, d) ==
    LET u == process[p].uid
        c == configs[u]
    IN  \/ d \in policies[u]
        \/ /\ has_rules(c)
           /\ IF d \in c.ip_ranges THEN c.mode = "Exclude"
              ELSE excludes(c, t[p].matched)

\* Three exceptions: an Include configuration without rules (the agent refuses to send
\* one) excludes all processes of its user as soon as another user has rules; a socket
\* marked before the programs were detached keeps its mark; and a process id whose entry
\* was left behind by a failed write stays excluded, whoever gets that id next.
EmptyInclude(u) == configs[u].mode = "Include" /\ ~has_rules(configs[u])

LeftBehind(p) == p \in lost /\ p \in maps.pids /\ ~tracked[p].excluded

Enforced ==
    LET t == build_tracking(configs)
    IN  \A p \in Live, d \in Destination, before \in {"none", "ours", "other"} :
            \/ EmptyInclude(process[p].uid)
            \/ ~maps.on /\ before = "ours"
            \/ LeftBehind(p)
            \/ destination_mark_program(p, d, before) =
                    IF ShouldBypass(t, p, d) THEN "ours"
                    ELSE IF before = "ours" THEN "none" ELSE before

\* Once the environment is quiet, the kernel marks exactly the traffic that the
\* configurations exclude, for every process, destination and earlier mark of the
\* socket: lost, late and misleading process events, failed commands, failed
\* reconciliations, kills and restarts are all repaired.  Excused are a command that was
\* cut short, whose rollback failed or that found maps the kernel had refused to roll
\* back, and a daemon that is kept down by the one byte its file is too long.
EventuallyEnforced ==
    <>[](torn \/ (phase = "down" /\ OneByteOver(disk)) \/ (phase = "up" /\ Enforced))
=============================================================================
