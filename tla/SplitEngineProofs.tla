-------------------------- MODULE SplitEngineProofs -------------------------
(***************************************************************************)
(* SplitEngine for any users, processes, configurations, route lists and   *)
(* sizes: the state file loads but for the newline it may be too long, and *)
(* no bypass route is orphaned.                                            *)
(***************************************************************************)
EXTENDS SplitEngine, FiniteSetTheorems, TLAPS

-----------------------------------------------------------------------------
(* The inductive invariant, on what the commands and the file keep: the    *)
(* programs, their maps and the process tracker have no part in it.        *)

Configs  == [Uid -> Config \cup {NoConfig}]
Policies == [Uid -> SUBSET Destination]
Bypasses == [Uid -> SUBSET Route]

PolicyOps == {"set", "clear", "policy"}
BypassOps == {"enable", "disable"}

Commands ==
    [op : {"idle"} \cup PolicyOps \cup BypassOps,
     pc : {"idle", "reconcile", "enable", "save", "undo"}, uid : Uid \cup {0},
     config : Config \cup {NoConfig}, policy : SUBSET Destination, routes : SUBSET Route,
     offer : SUBSET Route]

StateType ==
    /\ phase \in {"down", "starting", "up"}
    /\ configs \in Configs /\ policies \in Policies /\ bypass \in Bypasses
    /\ routes \in Bypasses
    /\ disk \in [configs : Configs, policies : Policies, bypass : Bypasses]
    /\ cmd \in Commands
    /\ torn \in BOOLEAN

Busy == cmd.op # "idle"

\* A command runs while the daemon is up, and goes through its own steps.
CommandOK ==
    /\ ~Busy => cmd = Idle
    /\ Busy => /\ phase = "up" /\ cmd.uid \in Uid
               /\ \/ cmd.op \in PolicyOps /\ cmd.pc \in {"reconcile", "save", "undo"}
                  \/ cmd.op = "enable" /\ cmd.pc \in {"enable", "save", "undo"}
                  \/ cmd.op = "disable" /\ cmd.pc \in {"save", "undo"}

\* One route per family.
OneEach(s) == \A x, y \in s : x.family = y.family => x = y

BypassOK(b, c) == \A u \in Uid : OneEach(b[u]) /\ (b[u] # {} => has_rules(c[u]))

\* Bypass routes are those of a user with rules, in memory and in the file, and also
\* once a command is undone.
RulesOK ==
    /\ BypassOK(bypass, configs) /\ BypassOK(disk.bypass, disk.configs)
    /\ Busy => OneEach(cmd.routes)
    /\ cmd.op \in PolicyOps =>
          /\ bypass[cmd.uid] # {} \/ cmd.routes # {} => has_rules(cmd.config)
          /\ cmd.routes # {} => bypass[cmd.uid] = {}
    /\ cmd.op = "enable" \/ (cmd.op = "disable" /\ cmd.routes # {}) => has_rules(configs[cmd.uid])

Configured(c, d) == {u \in Uid : c[u] # NoConfig \/ d[u] # {}}

Fits(s) == IsFiniteSet(s) /\ Cardinality(s) <= MAX_CONFIGS

\* The users there were before the command, and the one it may have added.
Undone ==
    IF cmd.config # NoConfig \/ cmd.policy # {}
      THEN Configured(configs, policies) \cup {cmd.uid} ELSE Configured(configs, policies)

LimitOK ==
    /\ Fits(Configured(configs, policies)) /\ Fits(Configured(disk.configs, disk.policies))
    /\ cmd.op \in PolicyOps => Fits(Undone)

\* The kernel has no route that the memory does not know, nor the memory one that the
\* file does not know, but for those of the user a command is about: what that command
\* may put back is in the file.
RouteOK(u) ==
    /\ phase = "down" => routes[u] \subseteq disk.bypass[u]
    /\ phase # "down" =>
        /\ routes[u] \subseteq bypass[u]
        /\ u # cmd.uid \/ cmd.op \notin BypassOps => bypass[u] \subseteq disk.bypass[u]
        /\ u = cmd.uid => cmd.routes \subseteq disk.bypass[u]
        /\ u = cmd.uid /\ cmd.pc = "enable" => bypass[u] = {}

RoutesOK == ~torn => \A u \in Uid : RouteOK(u)

\* The file was short enough when it was written, before its newline.
SizeOK == ~TooLong(disk)

IInv == StateType /\ CommandOK /\ RulesOK /\ LimitOK /\ SizeOK /\ RoutesOK

-----------------------------------------------------------------------------
(* Operators. *)

LEMMA NoConfigFacts == NoConfig \notin Config /\ ~has_rules(NoConfig)
BY DEF NoConfig, Config, Mode, has_rules, has_app_rules

LEMMA ConfigsType == NoConfigs \in Configs /\ NoPolicies \in Policies /\ NoPolicies \in Bypasses
BY DEF NoConfigs, NoPolicies, Configs, Policies, Bypasses

LEMMA IdleType == Idle \in Commands /\ Idle.op = "idle" /\ Idle.pc = "idle" /\ Idle.routes = {}
                  /\ Idle.uid = 0
BY DEF Idle, Commands

\* What is offered is thinned out to one route per family.
LEMMA Preferred ==
    ASSUME NEW s \in SUBSET Route
    PROVE  preferred_routes(s) \in SUBSET Route /\ OneEach(preferred_routes(s))
<1>1. preferred_routes(s) \in SUBSET Route
  BY DEF preferred_routes
<1>2. ASSUME NEW x \in preferred_routes(s), NEW y \in preferred_routes(s), x.family = y.family
      PROVE  x = y
  <2>1. x.link <= y.link /\ y.link <= x.link /\ x \in Route /\ y \in Route
    BY <1>2 DEF preferred_routes
  <2>2. x.link = y.link
    BY <2>1 DEF Route
  <2> QED
    BY <1>2, <2>1, <2>2 DEF Route
<1> QED
  BY <1>1, <1>2 DEF OneEach

\* One route per family is what load counts.
LEMMA OneEachCounts ==
    ASSUME NEW s \in SUBSET Route, OneEach(s)
    PROVE  Cardinality(s) = Cardinality(route_families(s))
<1> DEFINE f == [x \in s |-> x.family]
<1>1. f \in Surjection(s, route_families(s))
  BY DEF Surjection, route_families
<1>2. f \in Injection(s, route_families(s))
  BY DEF Injection, IsInjective, route_families, OneEach
<1>3. IsFiniteSet(route_families(s))
  <2>1. IsFiniteSet({"Ipv4"})
    BY FS_Singleton
  <2>2. IsFiniteSet({"Ipv4"} \cup {"Ipv6"})
    BY <2>1, FS_AddElement
  <2>3. route_families(s) \subseteq {"Ipv4"} \cup {"Ipv6"}
    BY DEF route_families, Route, Family
  <2> QED
    BY <2>2, <2>3, FS_Subset
<1> HIDE DEF f
<1> QED
  BY <1>1, <1>2, <1>3, FS_Injection

LEMMA FitsSubset == ASSUME NEW s, NEW t, Fits(s), t \subseteq s PROVE Fits(t)
<1>1. IsFiniteSet(t) /\ Cardinality(t) <= Cardinality(s)
  BY FS_Subset DEF Fits
<1>2. Cardinality(t) \in Nat /\ Cardinality(s) \in Nat
  BY <1>1, FS_CardinalityType DEF Fits
<1> QED
  BY <1>1, <1>2, SplitAssumption DEF Fits

\* One more user below the limit.
LEMMA AdmittedFits ==
    ASSUME NEW u \in Uid, Fits(Configured(configs, policies)), Admitted(u)
    PROVE  Fits(Configured(configs, policies) \cup {u})
<1> DEFINE s == Configured(configs, policies)
<1>1. CASE u \in s
  <2>1. s \cup {u} = s
    BY <1>1
  <2> QED
    BY <2>1
<1>2. CASE u \notin s
  <2>1. Cardinality(s) < MAX_CONFIGS
    BY <1>2 DEF Admitted, configured_user_count, Configured
  <2>2. IsFiniteSet(s) /\ Cardinality(s) \in Nat
    BY FS_CardinalityType DEF Fits
  <2> HIDE DEF s
  <2>3. IsFiniteSet(s \cup {u}) /\ Cardinality(s \cup {u}) = Cardinality(s) + 1
    BY <1>2, <2>2, FS_AddElement
  <2> QED
    BY <2>1, <2>2, <2>3, SplitAssumption DEF Fits, s
<1> QED
  BY <1>1, <1>2

\* What the invariant says of the file is what load looks at, apart from the newline.
LEMMA FileLoads ==
    ASSUME StateType, RulesOK, LimitOK, SizeOK
    PROVE  load_accepts(disk) \/ OneByteOver(disk)
<1>1. ASSUME NEW u \in Uid, disk.bypass[u] # {}
      PROVE  /\ has_rules(disk.configs[u])
             /\ Cardinality(disk.bypass[u]) = Cardinality(route_families(disk.bypass[u]))
  <2>1. disk.bypass[u] \in SUBSET Route
    BY DEF StateType, Bypasses
  <2>2. OneEach(disk.bypass[u]) /\ has_rules(disk.configs[u])
    BY <1>1 DEF RulesOK, BypassOK
  <2> QED
    BY <2>1, <2>2, OneEachCounts
<1>2. Fits({u \in Uid : disk.configs[u] # NoConfig}) /\ Fits({u \in Uid : disk.policies[u] # {}})
  <2>1. Fits(Configured(disk.configs, disk.policies))
    BY DEF LimitOK
  <2>2. /\ {u \in Uid : disk.configs[u] # NoConfig} \subseteq Configured(disk.configs, disk.policies)
        /\ {u \in Uid : disk.policies[u] # {}} \subseteq Configured(disk.configs, disk.policies)
    BY DEF Configured
  <2> QED
    BY <2>1, <2>2, FitsSubset
<1> QED
  BY <1>1, <1>2 DEF load_accepts, OneByteOver, SizeOK, Fits

-----------------------------------------------------------------------------
(* Steps that leave the state of the commands alone. *)

Worse == torn' \in BOOLEAN /\ (torn => torn')

\* Nothing but marks, events and the budget changes, or the kernel loses routes.
QuietStep ==
    /\ UNCHANGED <<configs, policies, bypass, disk, cmd>>
    /\ phase' = phase \/ (phase = "starting" /\ phase' = "up")
    /\ routes' \in Bypasses /\ \A u \in Uid : routes'[u] \subseteq routes[u]
    /\ Worse

LEMMA QuietOK == IInv /\ QuietStep => IInv'
<1> SUFFICES ASSUME IInv, QuietStep PROVE IInv'
  OBVIOUS
<1>1. StateType'
  BY DEF IInv, StateType, QuietStep, Worse
<1>2. CommandOK'
  BY DEF IInv, CommandOK, QuietStep, Busy
<1>3. RulesOK' /\ LimitOK' /\ SizeOK'
  BY DEF IInv, RulesOK, LimitOK, SizeOK, Undone, QuietStep, Busy
<1>4. RoutesOK'
  <2> SUFFICES ASSUME ~torn', NEW u \in Uid PROVE RouteOK(u)'
    BY DEF RoutesOK
  <2>1. RouteOK(u)
    BY DEF IInv, RoutesOK, QuietStep, Worse
  <2>2. phase' = "down" <=> phase = "down"
    BY DEF IInv, StateType, QuietStep
  <2> QED
    BY <2>1, <2>2 DEF RouteOK, QuietStep
<1> QED
  BY <1>1, <1>2, <1>3, <1>4 DEF IInv

LEMMA SameRoutes ==
    ASSUME StateType, UNCHANGED routes
    PROVE  routes' \in Bypasses /\ \A u \in Uid : routes'[u] \subseteq routes[u]
BY DEF StateType

LEMMA DisabledRoutes ==
    ASSUME NEW r \in Bypasses, NEW u \in Uid, NEW s
    PROVE  /\ Disabled(r, u, s) \in Bypasses
           /\ Disabled(r, u, s)[u] = r[u] \ s
           /\ \A v \in Uid \ {u} : Disabled(r, u, s)[v] = r[v]
           /\ \A v \in Uid : Disabled(r, u, s)[v] \subseteq r[v]
BY DEF Disabled, Bypasses

LEMMA EnabledRoutes ==
    ASSUME NEW r \in Bypasses, NEW u \in Uid, NEW s \in SUBSET Route
    PROVE  /\ Enabled(r, u, s) \in Bypasses
           /\ Enabled(r, u, s)[u] = r[u] \cup s
           /\ \A v \in Uid \ {u} : Enabled(r, u, s)[v] = r[v]
BY DEF Enabled, Bypasses

\* A command goes on to its next step.
LEMMA GotoOK ==
    ASSUME NEW pc \in {"save", "undo"}
    PROVE  /\ IInv /\ cmd.pc \in {"reconcile", "enable", "save"}
           /\ Goto(pc) /\ UNCHANGED <<phase, memory, disk, routes>> /\ Worse
           => IInv'
<1> SUFFICES ASSUME IInv, cmd.pc \in {"reconcile", "enable", "save"},
                    Goto(pc), UNCHANGED <<phase, memory, disk, routes>>, Worse
             PROVE  IInv'
  OBVIOUS
<1>1. /\ cmd' \in Commands
      /\ cmd'.pc = pc /\ cmd'.op = cmd.op /\ cmd'.uid = cmd.uid /\ cmd'.config = cmd.config
      /\ cmd'.policy = cmd.policy /\ cmd'.routes = cmd.routes
  BY DEF IInv, StateType, Goto, Commands
<1>2. StateType'
  BY <1>1 DEF IInv, StateType, Worse, memory
<1>3. Busy
  BY IdleType DEF IInv, CommandOK
<1>4. CommandOK'
  BY <1>1, <1>3 DEF IInv, CommandOK, Busy
<1>5. RulesOK' /\ LimitOK' /\ SizeOK'
  BY <1>1 DEF IInv, RulesOK, LimitOK, SizeOK, Undone, Busy, memory
<1>6. RoutesOK'
  <2> SUFFICES ASSUME ~torn', NEW u \in Uid PROVE RouteOK(u)'
    BY DEF RoutesOK
  <2>1. RouteOK(u)
    BY DEF IInv, RoutesOK, Worse
  <2> QED
    BY <1>1, <2>1 DEF RouteOK, memory
<1> QED
  BY <1>2, <1>4, <1>5, <1>6 DEF IInv

-----------------------------------------------------------------------------
(* The commands begin. *)

LEMMA SetConfigOK ==
    ASSUME NEW caller, NEW u \in Uid, NEW c \in Config \cup {NoConfig}
    PROVE  IInv /\ set_config(caller, u, c) => IInv'
<1> SUFFICES ASSUME IInv, set_config(caller, u, c) PROVE IInv'
  OBVIOUS
<1> DEFINE drop == BypassToDrop(u, c)
<1>0. /\ phase = "up" /\ cmd = Idle
      /\ UNCHANGED <<phase, policies, disk>>
      /\ c = NoConfig \/ Admitted(u)
  BY DEF set_config, Ready
<1>a. StateType /\ RulesOK /\ LimitOK /\ SizeOK'
  BY <1>0 DEF IInv, SizeOK
<1>b. Worse
  BY <1>a DEF set_config, StateType, Worse
<1>1. CASE /\ \E gone \in SUBSET drop \ {drop} : routes' = Disabled(routes, u, gone)
           /\ UNCHANGED <<bypass, configs, cmd>>
  <2>1. routes' \in Bypasses /\ \A v \in Uid : routes'[v] \subseteq routes[v]
    BY <1>1, DisabledRoutes DEF IInv, StateType
  <2> QED
    BY <1>0, <1>1, <1>b, <2>1, QuietOK DEF QuietStep
<1>2. CASE /\ bypass' = Disabled(bypass, u, drop)
           /\ routes' = Disabled(routes, u, drop)
           /\ configs' = [configs EXCEPT ![u] = c]
           /\ cmd' = [Idle EXCEPT !.op = IF c = NoConfig THEN "clear" ELSE "set",
                                  !.pc = "reconcile", !.uid = u,
                                  !.config = configs[u], !.policy = policies[u],
                                  !.routes = drop]
  <2>1. /\ drop \subseteq bypass[u] /\ drop \in SUBSET Route
        /\ has_rules(c) => drop = {}
        /\ ~has_rules(c) => drop = bypass[u]
    BY <1>a DEF BypassToDrop, StateType, Bypasses
  <2>2. /\ bypass' \in Bypasses /\ routes' \in Bypasses
        /\ bypass'[u] = bypass[u] \ drop /\ routes'[u] = routes[u] \ drop
        /\ \A v \in Uid \ {u} : bypass'[v] = bypass[v] /\ routes'[v] = routes[v]
    BY <1>2, <1>a, DisabledRoutes DEF StateType
  <2> HIDE DEF drop
  <2>3. configs' \in Configs /\ configs'[u] = c
        /\ \A v \in Uid \ {u} : configs'[v] = configs[v]
    BY <1>2, <1>a DEF StateType, Configs
  <2>4. configs[u] \in Config \cup {NoConfig} /\ policies[u] \in SUBSET Destination
    BY <1>a DEF StateType, Configs, Policies
  <2>5. /\ cmd' \in Commands /\ cmd'.op \in {"clear", "set"} /\ cmd'.pc = "reconcile"
        /\ cmd'.uid = u /\ cmd'.config = configs[u] /\ cmd'.policy = policies[u]
        /\ cmd'.routes = drop
    BY <1>2, <2>1, <2>4 DEF Idle, Commands, PolicyOps
  <2>6. StateType'
    BY <1>0, <1>a, <1>b, <2>2, <2>3, <2>5 DEF StateType, Worse
  <2>7. CommandOK'
    BY <1>0, <2>5 DEF CommandOK, Busy, PolicyOps
  <2>8. RulesOK'
    <3>1. OneEach(bypass[u]) /\ (bypass[u] # {} => has_rules(configs[u]))
      BY <1>a DEF RulesOK, BypassOK
    <3>2. OneEach(bypass'[u]) /\ (bypass'[u] # {} => has_rules(configs'[u])) /\ OneEach(drop)
      BY <2>1, <2>2, <2>3, <3>1 DEF OneEach
    <3>3. BypassOK(bypass', configs')
      BY <1>a, <2>2, <2>3, <3>2 DEF RulesOK, BypassOK
    <3>4. BypassOK(disk.bypass, disk.configs)'
      BY <1>0, <1>a DEF RulesOK
    <3>5. /\ bypass'[u] # {} \/ drop # {} => has_rules(configs[u])
          /\ drop # {} => bypass'[u] = {}
      BY <2>1, <2>2, <3>1
    <3> QED
      BY <2>5, <3>2, <3>3, <3>4, <3>5 DEF RulesOK
  <2>9. LimitOK'
    <3> DEFINE s == Configured(configs, policies)
    <3>1. Fits(s) /\ Fits(Configured(disk.configs, disk.policies)')
      BY <1>0, <1>a DEF LimitOK
    <3>2. CASE c = NoConfig
      <4>1. Configured(configs', policies') \subseteq s
        BY <1>0, <2>3, <3>2 DEF Configured
      <4>2. Undone' \subseteq s
        BY <2>5, <4>1 DEF Undone, Configured
      <4> QED
        BY <3>1, <4>1, <4>2, FitsSubset DEF LimitOK
    <3>3. CASE Admitted(u)
      <4>1. Fits(s \cup {u})
        BY <3>1, <3>3, AdmittedFits
      <4>2. Configured(configs', policies') \subseteq s \cup {u}
        BY <1>0, <2>3 DEF Configured
      <4>3. Undone' \subseteq s \cup {u}
        BY <2>5, <4>2 DEF Undone
      <4> QED
        BY <3>1, <4>1, <4>2, <4>3, FitsSubset DEF LimitOK
    <3> QED
      BY <1>0, <3>2, <3>3
  <2>10. RoutesOK'
    <3> SUFFICES ASSUME ~torn', NEW v \in Uid PROVE RouteOK(v)'
      BY DEF RoutesOK
    <3>1. /\ routes[v] \subseteq bypass[v] /\ bypass[v] \subseteq disk.bypass[v]
      BY <1>0, <1>b, IdleType DEF IInv, RoutesOK, RouteOK, BypassOps, Worse
    <3>2. routes'[v] \subseteq bypass'[v] /\ bypass'[v] \subseteq disk.bypass[v]
      BY <2>2, <3>1
    <3> QED
      BY <1>0, <2>1, <2>5, <3>1, <3>2 DEF RouteOK
  <2> QED
    BY <1>a, <2>6, <2>7, <2>8, <2>9, <2>10 DEF IInv
<1> QED
  BY <1>1, <1>2 DEF set_config

LEMMA SetPolicyOK ==
    ASSUME NEW caller, NEW u \in Uid, NEW ranges \in SUBSET Destination
    PROVE  IInv /\ set_destination_policy(caller, u, ranges) => IInv'
<1> SUFFICES ASSUME IInv, set_destination_policy(caller, u, ranges) PROVE IInv'
  OBVIOUS
<1>1. /\ phase = "up" /\ cmd = Idle /\ Admitted(u)
      /\ UNCHANGED <<phase, configs, bypass, disk, routes>>
      /\ policies' = [policies EXCEPT ![u] = ranges]
      /\ cmd' = [Idle EXCEPT !.op = "policy", !.pc = "reconcile", !.uid = u,
                             !.config = configs[u], !.policy = policies[u]]
  BY DEF set_destination_policy, Ready
<1>2. StateType /\ RulesOK /\ LimitOK /\ SizeOK'
  BY <1>1 DEF IInv, SizeOK
<1>a. Worse
  BY <1>2 DEF set_destination_policy, StateType, Worse
<1>3. policies' \in Policies /\ \A v \in Uid \ {u} : policies'[v] = policies[v]
  BY <1>1, <1>2 DEF StateType, Policies
<1>4. configs[u] \in Config \cup {NoConfig} /\ policies[u] \in SUBSET Destination
  BY <1>2 DEF StateType, Configs, Policies
<1>5. /\ cmd' \in Commands /\ cmd'.op = "policy" /\ cmd'.pc = "reconcile"
      /\ cmd'.uid = u /\ cmd'.config = configs[u] /\ cmd'.policy = policies[u]
      /\ cmd'.routes = {}
  BY <1>1, <1>4 DEF Idle, Commands, PolicyOps
<1>6. StateType'
  BY <1>1, <1>2, <1>a, <1>3, <1>5 DEF StateType, Worse
<1>7. CommandOK'
  BY <1>1, <1>5 DEF CommandOK, Busy, PolicyOps
<1>8. RulesOK'
  BY <1>1, <1>2, <1>5 DEF RulesOK, BypassOK, OneEach, PolicyOps
<1>9. LimitOK'
  <2> DEFINE s == Configured(configs, policies)
  <2>1. Fits(s) /\ Fits(Configured(disk.configs, disk.policies)')
    BY <1>1, <1>2 DEF LimitOK
  <2>2. Fits(s \cup {u})
    BY <1>1, <2>1, AdmittedFits
  <2>3. Configured(configs', policies') \subseteq s \cup {u}
    BY <1>1, <1>3 DEF Configured
  <2>4. Undone' \subseteq s \cup {u}
    BY <1>5, <2>3 DEF Undone
  <2> QED
    BY <2>1, <2>2, <2>3, <2>4, FitsSubset DEF LimitOK
<1>10. RoutesOK'
  <2> SUFFICES ASSUME ~torn', NEW v \in Uid PROVE RouteOK(v)'
    BY DEF RoutesOK
  <2>1. /\ routes[v] \subseteq bypass[v] /\ bypass[v] \subseteq disk.bypass[v]
    BY <1>1, <1>a, IdleType DEF IInv, RoutesOK, RouteOK, BypassOps, Worse
  <2> QED
    BY <1>1, <1>5, <2>1 DEF RouteOK
<1> QED
  BY <1>2, <1>6, <1>7, <1>8, <1>9, <1>10 DEF IInv

LEMMA SetBypassOK ==
    ASSUME NEW caller, NEW u \in Uid, NEW enabled \in BOOLEAN, NEW offer \in SUBSET Route
    PROVE  IInv /\ set_kill_switch_bypass(caller, u, enabled, offer) => IInv'
<1> SUFFICES ASSUME IInv, set_kill_switch_bypass(caller, u, enabled, offer) PROVE IInv'
  OBVIOUS
<1>1. /\ phase = "up" /\ cmd = Idle
      /\ UNCHANGED <<phase, configs, policies, disk, torn>>
      /\ enabled => has_rules(configs[u])
  BY DEF set_kill_switch_bypass, Ready
<1>2. StateType /\ RulesOK /\ LimitOK /\ SizeOK'
  BY <1>1 DEF IInv, SizeOK
<1>3. CASE /\ \E gone \in SUBSET bypass[u] \ {bypass[u]} : routes' = Disabled(routes, u, gone)
           /\ UNCHANGED <<bypass, cmd>>
  <2>1. routes' \in Bypasses /\ \A v \in Uid : routes'[v] \subseteq routes[v]
    BY <1>2, <1>3, DisabledRoutes DEF StateType
  <2> QED
    BY <1>1, <1>2, <1>3, <2>1, QuietOK DEF QuietStep, Worse, StateType
<1>4. CASE /\ bypass' = [bypass EXCEPT ![u] = {}]
           /\ routes' = Disabled(routes, u, bypass[u])
           /\ cmd' = [Idle EXCEPT !.op = IF enabled THEN "enable" ELSE "disable",
                                  !.pc = IF enabled THEN "enable" ELSE "save",
                                  !.uid = u, !.routes = bypass[u], !.offer = offer]
  <2>1. bypass[u] \in SUBSET Route
    BY <1>2 DEF StateType, Bypasses
  <2>2. /\ bypass' \in Bypasses /\ bypass'[u] = {}
        /\ \A v \in Uid \ {u} : bypass'[v] = bypass[v]
    BY <1>2, <1>4 DEF StateType, Bypasses
  <2>3. /\ routes' \in Bypasses /\ routes'[u] = routes[u] \ bypass[u]
        /\ \A v \in Uid \ {u} : routes'[v] = routes[v]
    BY <1>2, <1>4, DisabledRoutes DEF StateType
  <2>4. /\ cmd' \in Commands
        /\ enabled => cmd'.op = "enable" /\ cmd'.pc = "enable"
        /\ ~enabled => cmd'.op = "disable" /\ cmd'.pc = "save"
        /\ cmd'.uid = u /\ cmd'.routes = bypass[u]
    BY <1>4, <2>1 DEF Idle, Commands, BypassOps
  <2>5. StateType'
    BY <1>1, <1>2, <2>2, <2>3, <2>4 DEF StateType
  <2>6. CommandOK'
    BY <1>1, <2>4 DEF CommandOK, Busy
  <2>7. RulesOK'
    <3>1. OneEach(bypass[u]) /\ (bypass[u] # {} => has_rules(configs[u]))
      BY <1>2 DEF RulesOK, BypassOK
    <3>2. BypassOK(bypass', configs')
      BY <1>1, <1>2, <2>2 DEF RulesOK, BypassOK, OneEach
    <3>3. BypassOK(disk.bypass, disk.configs)'
      BY <1>1, <1>2 DEF RulesOK
    <3> QED
      BY <1>1, <2>4, <3>1, <3>2, <3>3 DEF RulesOK, PolicyOps
  <2>8. LimitOK'
    BY <1>1, <1>2, <2>4 DEF LimitOK, PolicyOps
  <2>9. RoutesOK'
    <3> SUFFICES ASSUME ~torn', NEW v \in Uid PROVE RouteOK(v)'
      BY DEF RoutesOK
    <3>1. /\ routes[v] \subseteq bypass[v] /\ bypass[v] \subseteq disk.bypass[v]
      BY <1>1, IdleType DEF IInv, RoutesOK, RouteOK, BypassOps
    <3>2. routes'[v] \subseteq bypass'[v] /\ bypass'[v] \subseteq disk.bypass[v]
      BY <2>2, <2>3, <3>1
    <3> QED
      BY <1>1, <2>2, <2>4, <3>1, <3>2 DEF RouteOK
  <2> QED
    BY <1>2, <2>5, <2>6, <2>7, <2>8, <2>9 DEF IInv
<1> QED
  BY <1>3, <1>4 DEF set_kill_switch_bypass

-----------------------------------------------------------------------------
(* The steps of a command. *)

LEMMA EnableRoutesOK == IInv /\ EnableRoutes => IInv'
<1> SUFFICES ASSUME IInv, EnableRoutes PROVE IInv'
  OBVIOUS
<1> DEFINE u == cmd.uid
           s == preferred_routes(cmd.offer)
<1>1. /\ cmd.pc = "enable"
      /\ UNCHANGED <<phase, configs, policies, disk>>
  BY DEF EnableRoutes
<1>2. StateType /\ RulesOK /\ LimitOK /\ SizeOK'
  BY <1>1 DEF IInv, SizeOK
<1>3. u \in Uid /\ cmd.op = "enable" /\ phase = "up"
  BY <1>1, IdleType DEF IInv, CommandOK, Busy, PolicyOps
<1>4. s \in SUBSET Route /\ OneEach(s)
  BY <1>2, Preferred DEF StateType, Commands
<1>5. CASE /\ CanEnable(routes, u, s)
           /\ routes' = Enabled(routes, u, s)
           /\ bypass' = [bypass EXCEPT ![u] = s]
           /\ Goto("save")
           /\ UNCHANGED torn
  <2> HIDE DEF s
  <2>1. /\ cmd' \in Commands
        /\ cmd'.pc = "save" /\ cmd'.op = "enable" /\ cmd'.uid = u /\ cmd'.routes = cmd.routes
    BY <1>2, <1>3, <1>5 DEF StateType, Goto, Commands
  <2> HIDE DEF u
  <2>2. /\ bypass' \in Bypasses /\ bypass'[u] = s
        /\ \A v \in Uid \ {u} : bypass'[v] = bypass[v]
    BY <1>2, <1>3, <1>4, <1>5 DEF StateType, Bypasses
  <2>3. /\ routes' \in Bypasses /\ routes'[u] = routes[u] \cup s
        /\ \A v \in Uid \ {u} : routes'[v] = routes[v]
    BY <1>2, <1>3, <1>4, <1>5, EnabledRoutes DEF StateType
  <2>4. StateType'
    BY <1>1, <1>2, <1>5, <2>1, <2>2, <2>3 DEF StateType
  <2>5. CommandOK'
    BY <1>1, <1>3, <2>1 DEF CommandOK, Busy
  <2>6. RulesOK'
    <3>1. has_rules(configs[u]) /\ OneEach(cmd.routes)
      BY <1>2, <1>3 DEF RulesOK, Busy, u
    <3>2. BypassOK(bypass', configs')
      BY <1>1, <1>2, <1>4, <2>2, <3>1 DEF RulesOK, BypassOK
    <3>3. BypassOK(disk.bypass, disk.configs)'
      BY <1>1, <1>2 DEF RulesOK
    <3> QED
      BY <1>1, <2>1, <3>1, <3>2, <3>3 DEF RulesOK, PolicyOps
  <2>7. LimitOK'
    BY <1>1, <1>2, <2>1 DEF LimitOK, PolicyOps
  <2>8. RoutesOK'
    <3> SUFFICES ASSUME ~torn', NEW v \in Uid PROVE RouteOK(v)'
      BY DEF RoutesOK
    <3>1. RouteOK(v)
      BY <1>5 DEF IInv, RoutesOK
    <3>2. /\ routes[v] \subseteq bypass[v]
          /\ v # u => bypass[v] \subseteq disk.bypass[v]
          /\ v = u => cmd.routes \subseteq disk.bypass[v] /\ bypass[v] = {}
      BY <1>1, <1>3, <3>1 DEF RouteOK, u
    <3>3. routes'[v] \subseteq bypass'[v] /\ (v # u => bypass'[v] \subseteq disk.bypass[v])
      BY <2>2, <2>3, <3>2
    <3> QED
      BY <1>1, <1>3, <2>1, <3>2, <3>3 DEF RouteOK, BypassOps
  <2> QED
    BY <1>2, <2>4, <2>5, <2>6, <2>7, <2>8 DEF IInv
<1>6. CASE Goto("undo") /\ UNCHANGED <<routes, bypass, torn>>
  BY <1>1, <1>2, <1>6, GotoOK DEF Worse, StateType, memory
<1>7. CASE /\ \E rest \in SUBSET s : /\ routes' = Enabled(routes, u, rest)
                                     /\ torn' = (torn \/ rest # {})
           /\ Goto("undo")
           /\ UNCHANGED bypass
  <2>1. PICK rest \in SUBSET s : routes' = Enabled(routes, u, rest) /\ torn' = (torn \/ rest # {})
    BY <1>7
  <2>2. rest \in SUBSET Route
    BY <1>4, <2>1
  <2> HIDE DEF s
  <2>3. /\ cmd' \in Commands
        /\ cmd'.pc = "undo" /\ cmd'.op = "enable" /\ cmd'.uid = u /\ cmd'.routes = cmd.routes
    BY <1>2, <1>3, <1>7 DEF StateType, Goto, Commands
  <2> HIDE DEF u
  <2>4. /\ routes' \in Bypasses /\ routes'[u] = routes[u] \cup rest
        /\ \A v \in Uid \ {u} : routes'[v] = routes[v]
    BY <1>2, <1>3, <2>1, <2>2, EnabledRoutes DEF StateType
  <2>5. torn' \in BOOLEAN /\ (~torn' => ~torn /\ rest = {})
    BY <1>2, <2>1 DEF StateType
  <2>6. StateType'
    BY <1>1, <1>2, <1>7, <2>3, <2>4, <2>5 DEF StateType
  <2>7. CommandOK'
    BY <1>1, <1>3, <2>3 DEF CommandOK, Busy
  <2>8. RulesOK'
    BY <1>1, <1>2, <1>3, <1>7, <2>3 DEF RulesOK, PolicyOps, Busy, u
  <2>9. LimitOK'
    BY <1>1, <1>2, <2>3 DEF LimitOK, PolicyOps
  <2>10. RoutesOK'
    <3> SUFFICES ASSUME ~torn', NEW v \in Uid PROVE RouteOK(v)'
      BY DEF RoutesOK
    <3>1. RouteOK(v) /\ routes'[v] = routes[v]
      BY <2>4, <2>5 DEF IInv, RoutesOK
    <3> QED
      BY <1>1, <1>3, <1>7, <2>3, <3>1 DEF RouteOK, BypassOps, u
  <2> QED
    BY <1>2, <2>6, <2>7, <2>8, <2>9, <2>10 DEF IInv
<1> QED
  BY <1>5, <1>6, <1>7 DEF EnableRoutes

LEMMA SaveOK == IInv /\ Save => IInv'
<1> SUFFICES ASSUME IInv, Save PROVE IInv'
  OBVIOUS
<1> DEFINE f == Saved(configs, policies, bypass)
<1>1. cmd.pc = "save" /\ UNCHANGED <<phase, memory, routes>>
  BY DEF Save
<1>2. StateType /\ RulesOK /\ LimitOK
  BY DEF IInv
<1>3. Busy /\ phase = "up"
  BY <1>1, IdleType DEF IInv, CommandOK
<1>4. /\ f \in [configs : Configs, policies : Policies, bypass : Bypasses]
      /\ f.configs = configs /\ f.policies = policies /\ f.bypass = bypass
  BY <1>2 DEF StateType, Saved
<1> HIDE DEF f
<1>5. CASE disk' = f /\ ~TooLong(f) /\ cmd' = Idle /\ UNCHANGED torn
  <2>1. StateType'
    BY <1>1, <1>2, <1>4, <1>5, IdleType DEF StateType, memory
  <2>2. CommandOK'
    BY <1>5, IdleType DEF CommandOK, Busy
  <2>3. RulesOK'
    BY <1>1, <1>2, <1>4, <1>5, IdleType DEF RulesOK, PolicyOps, Busy, memory
  <2>4. LimitOK'
    BY <1>1, <1>2, <1>4, <1>5, IdleType DEF LimitOK, PolicyOps, memory
  <2>5. RoutesOK'
    <3> SUFFICES ASSUME ~torn', NEW v \in Uid PROVE RouteOK(v)'
      BY DEF RoutesOK
    <3>1. RouteOK(v)
      BY <1>5 DEF IInv, RoutesOK
    <3>2. v # 0
      BY SplitAssumption
    <3> QED
      BY <1>1, <1>3, <1>4, <1>5, <3>1, <3>2, IdleType DEF RouteOK, memory
  <2>6. SizeOK'
    BY <1>5 DEF SizeOK
  <2> QED
    BY <2>1, <2>2, <2>3, <2>4, <2>5, <2>6 DEF IInv
<1>6. CASE disk' = disk /\ Goto("undo") /\ torn' = torn
  BY <1>1, <1>2, <1>6, GotoOK DEF Worse, StateType, memory
<1>7. CASE disk' = f /\ disk # f /\ ~TooLong(f) /\ Goto("undo") /\ torn' = (torn \/ disk' # disk)
  <2>1. /\ cmd' \in Commands
        /\ cmd'.pc = "undo" /\ cmd'.op = cmd.op /\ cmd'.uid = cmd.uid
        /\ cmd'.config = cmd.config /\ cmd'.policy = cmd.policy /\ cmd'.routes = cmd.routes
    BY <1>2, <1>7 DEF StateType, Goto, Commands
  <2>2. torn' = TRUE
    BY <1>2, <1>7 DEF StateType
  <2>3. StateType'
    BY <1>1, <1>2, <1>4, <1>7, <2>1, <2>2 DEF StateType, memory
  <2>4. CommandOK'
    BY <1>1, <1>3, <2>1 DEF IInv, CommandOK, Busy
  <2>5. RulesOK'
    BY <1>1, <1>2, <1>4, <1>7, <2>1 DEF RulesOK, Busy, memory
  <2>6. LimitOK'
    BY <1>1, <1>2, <1>4, <1>7, <2>1 DEF LimitOK, Undone, memory
  <2>7. RoutesOK'
    BY <2>2 DEF RoutesOK
  <2>8. SizeOK'
    BY <1>7 DEF SizeOK
  <2> QED
    BY <2>3, <2>4, <2>5, <2>6, <2>7, <2>8 DEF IInv
<1>8. CASE disk' \in {disk, f} /\ ~TooLong(f) /\ Goto("undo") /\ torn' = (torn \/ disk' # disk)
  <2>1. disk' = disk => torn' = torn
    BY <1>2, <1>8 DEF StateType
  <2> QED
    BY <1>6, <1>7, <1>8, <2>1
<1> QED
  BY <1>5, <1>6, <1>8 DEF Save, f

\* What putting back the routes s of user u leaves.
LEMMA RestoreEffect ==
    ASSUME StateType, NEW r \in Bypasses, NEW u \in Uid, NEW s \in SUBSET Route, Restore(r, u, s)
    PROVE  /\ routes' \in Bypasses /\ bypass' \in Bypasses
           /\ \A v \in Uid \ {u} : routes'[v] = r[v] /\ bypass'[v] = bypass[v]
           /\ \/ routes'[u] = r[u] \cup s /\ bypass'[u] = s
              \/ routes'[u] = r[u] /\ bypass'[u] = {}
<1>1. CASE routes' = Enabled(r, u, s) /\ bypass' = [bypass EXCEPT ![u] = s]
  <2>1. /\ bypass' \in Bypasses /\ bypass'[u] = s
        /\ \A v \in Uid \ {u} : bypass'[v] = bypass[v]
    BY <1>1 DEF StateType, Bypasses
  <2>2. /\ routes' \in Bypasses /\ routes'[u] = r[u] \cup s
        /\ \A v \in Uid \ {u} : routes'[v] = r[v]
    BY <1>1, EnabledRoutes
  <2> QED
    BY <2>1, <2>2
<1>2. CASE routes' = r /\ bypass' = [bypass EXCEPT ![u] = {}]
  BY <1>2 DEF StateType, Bypasses
<1> QED
  BY <1>1, <1>2 DEF Restore

LEMMA UndoPolicyOK == IInv /\ UndoPolicy => IInv'
<1> SUFFICES ASSUME IInv, UndoPolicy PROVE IInv'
  OBVIOUS
<1> DEFINE u == cmd.uid
<1>1. /\ cmd.pc = "undo" /\ cmd.op \in PolicyOps
      /\ configs' = [configs EXCEPT ![u] = cmd.config]
      /\ policies' = [policies EXCEPT ![u] = cmd.policy]
      /\ cmd' = Idle /\ UNCHANGED <<phase, disk>>
  BY DEF UndoPolicy, PolicyOps
<1>2. StateType /\ RulesOK /\ LimitOK /\ SizeOK'
  BY <1>1 DEF IInv, SizeOK
<1>3. u \in Uid /\ phase = "up"
  BY <1>1 DEF IInv, CommandOK, Busy, PolicyOps
<1>4. Worse
  BY <1>2 DEF UndoPolicy, Worse, StateType
<1>5. /\ cmd.config \in Config \cup {NoConfig} /\ cmd.policy \in SUBSET Destination
      /\ cmd.routes \in SUBSET Route
  BY <1>2 DEF StateType, Commands
<1>6. /\ configs' \in Configs /\ configs'[u] = cmd.config
      /\ \A v \in Uid \ {u} : configs'[v] = configs[v]
  BY <1>1, <1>2, <1>3, <1>5 DEF StateType, Configs
<1>7. /\ policies' \in Policies /\ policies'[u] = cmd.policy
      /\ \A v \in Uid \ {u} : policies'[v] = policies[v]
  BY <1>1, <1>2, <1>3, <1>5 DEF StateType, Policies
<1>8. /\ routes' \in Bypasses /\ bypass' \in Bypasses
      /\ \A v \in Uid \ {u} : routes'[v] = routes[v] /\ bypass'[v] = bypass[v]
      /\ \/ cmd.routes = {} /\ routes'[u] = routes[u] /\ bypass'[u] = bypass[u]
         \/ cmd.routes # {} /\ routes'[u] = routes[u] \cup cmd.routes /\ bypass'[u] = cmd.routes
         \/ cmd.routes # {} /\ routes'[u] = routes[u] /\ bypass'[u] = {}
  <2>1. CASE cmd.routes = {} /\ UNCHANGED <<bypass, routes>>
    BY <1>2, <2>1 DEF StateType
  <2>2. CASE cmd.routes # {} /\ Restore(routes, u, cmd.routes)
    <3>1. routes \in Bypasses
      BY <1>2 DEF StateType
    <3> HIDE DEF u
    <3> QED
      BY <1>2, <1>3, <1>5, <2>2, <3>1, RestoreEffect
  <2> QED
    BY <2>1, <2>2 DEF UndoPolicy
<1>9. /\ OneEach(cmd.routes)
      /\ bypass[u] # {} \/ cmd.routes # {} => has_rules(cmd.config)
      /\ cmd.routes # {} => bypass[u] = {}
  BY <1>1, <1>2 DEF RulesOK, Busy, PolicyOps
<1>10. Fits(Undone)
  BY <1>1, <1>2 DEF LimitOK
<1>11. StateType'
  BY <1>1, <1>2, <1>4, <1>6, <1>7, <1>8, IdleType DEF StateType, Worse
<1>12. CommandOK'
  BY <1>1, IdleType DEF CommandOK, Busy
<1>13. RulesOK'
  <2>1. OneEach(bypass[u])
    BY <1>2, <1>3 DEF RulesOK, BypassOK
  <2>2. OneEach(bypass'[u]) /\ (bypass'[u] # {} => has_rules(configs'[u]))
    BY <1>6, <1>8, <1>9, <2>1 DEF OneEach
  <2> HIDE DEF u
  <2>3. BypassOK(bypass', configs')
    BY <1>2, <1>6, <1>8, <2>2 DEF RulesOK, BypassOK
  <2>4. BypassOK(disk.bypass, disk.configs)'
    BY <1>1, <1>2 DEF RulesOK
  <2> QED
    BY <1>1, <2>3, <2>4, IdleType DEF RulesOK, PolicyOps, Busy
<1>14. LimitOK'
  <2>1. Configured(configs', policies') \subseteq Undone
    BY <1>6, <1>7 DEF Undone, Configured
  <2>2. Fits(Configured(configs', policies'))
    BY <1>10, <2>1, FitsSubset
  <2> QED
    BY <1>1, <1>2, <2>2, IdleType DEF LimitOK, PolicyOps
<1>15. RoutesOK'
  <2> SUFFICES ASSUME ~torn', NEW v \in Uid PROVE RouteOK(v)'
    BY DEF RoutesOK
  <2>1. RouteOK(v)
    BY <1>4 DEF IInv, RoutesOK, Worse
  <2>2. /\ routes[v] \subseteq bypass[v] /\ bypass[v] \subseteq disk.bypass[v]
        /\ v = u => cmd.routes \subseteq disk.bypass[v]
    BY <1>1, <1>3, <2>1 DEF RouteOK, PolicyOps, BypassOps
  <2>3. routes'[v] \subseteq bypass'[v] /\ bypass'[v] \subseteq disk.bypass[v]
    <3>1. CASE v # u
      BY <1>8, <2>2, <3>1
    <3>2. CASE v = u
      BY <1>8, <1>9, <2>2, <3>2
    <3> QED
      BY <3>1, <3>2
  <2>4. v # 0
    BY SplitAssumption
  <2> QED
    BY <1>1, <1>3, <2>3, <2>4, IdleType DEF RouteOK
<1> QED
  BY <1>2, <1>11, <1>12, <1>13, <1>14, <1>15 DEF IInv

LEMMA UndoBypassOK == IInv /\ UndoBypass => IInv'
<1> SUFFICES ASSUME IInv, UndoBypass PROVE IInv'
  OBVIOUS
<1> DEFINE u == cmd.uid
<1>1. /\ cmd.pc = "undo" /\ cmd.op \in BypassOps
      /\ cmd' = Idle /\ UNCHANGED <<phase, configs, policies, disk>>
  BY DEF UndoBypass, BypassOps
<1>2. StateType /\ RulesOK /\ LimitOK /\ SizeOK'
  BY <1>1 DEF IInv, SizeOK
<1>3. u \in Uid /\ phase = "up"
  BY <1>1 DEF IInv, CommandOK, Busy, BypassOps
<1>4. cmd.routes \in SUBSET Route
  BY <1>2 DEF StateType, Commands
<1>5. /\ routes' \in Bypasses /\ bypass' \in Bypasses /\ torn' \in BOOLEAN
      /\ \A v \in Uid \ {u} : routes'[v] = routes[v] /\ bypass'[v] = bypass[v]
      /\ bypass'[u] \in {cmd.routes, {}}
      /\ torn' # TRUE => ~torn /\ routes'[u] \subseteq (routes[u] \ bypass[u]) \cup bypass'[u]
  <2>1. CASE Restore(Disabled(routes, u, bypass[u]), u, cmd.routes) /\ UNCHANGED torn
    <3> DEFINE r == Disabled(routes, u, bypass[u])
    <3>1. /\ r \in Bypasses /\ r[u] = routes[u] \ bypass[u]
          /\ \A v \in Uid \ {u} : r[v] = routes[v]
      BY <1>2, <1>3, DisabledRoutes DEF StateType
    <3>2. Restore(r, u, cmd.routes)
      BY <2>1
    <3> HIDE DEF r, u
    <3>3. /\ routes' \in Bypasses /\ bypass' \in Bypasses
          /\ \A v \in Uid \ {u} : routes'[v] = r[v] /\ bypass'[v] = bypass[v]
          /\ \/ routes'[u] = r[u] \cup cmd.routes /\ bypass'[u] = cmd.routes
             \/ routes'[u] = r[u] /\ bypass'[u] = {}
      BY <1>2, <1>3, <1>4, <3>1, <3>2, RestoreEffect
    <3> QED
      BY <1>2, <2>1, <3>1, <3>3 DEF StateType
  <2>2. CASE bypass' = [bypass EXCEPT ![u] = {}] /\ torn' = TRUE /\ UNCHANGED routes
    <3> HIDE DEF u
    <3> QED
      BY <1>2, <1>3, <2>2 DEF StateType, Bypasses
  <2> QED
    BY <2>1, <2>2 DEF UndoBypass
<1>6. OneEach(cmd.routes) /\ (cmd.routes # {} => has_rules(configs[u]))
  BY <1>1, <1>2 DEF RulesOK, Busy, BypassOps
<1>7. StateType'
  BY <1>1, <1>2, <1>5, IdleType DEF StateType
<1>8. CommandOK'
  BY <1>1, IdleType DEF CommandOK, Busy
<1>9. RulesOK'
  <2>1. OneEach(bypass'[u]) /\ (bypass'[u] # {} => has_rules(configs[u]))
    BY <1>5, <1>6 DEF OneEach
  <2> HIDE DEF u
  <2>2. BypassOK(bypass', configs')
    BY <1>1, <1>2, <1>5, <2>1 DEF RulesOK, BypassOK
  <2>3. BypassOK(disk.bypass, disk.configs)'
    BY <1>1, <1>2 DEF RulesOK
  <2> QED
    BY <1>1, <2>2, <2>3, IdleType DEF RulesOK, PolicyOps, Busy
<1>10. LimitOK'
  BY <1>1, <1>2, IdleType DEF LimitOK, PolicyOps
<1>11. RoutesOK'
  <2> SUFFICES ASSUME ~torn', NEW v \in Uid PROVE RouteOK(v)'
    BY DEF RoutesOK
  <2>1. RouteOK(v)
    BY <1>5 DEF IInv, RoutesOK
  <2>2. /\ routes[v] \subseteq bypass[v]
        /\ v # u => bypass[v] \subseteq disk.bypass[v]
        /\ v = u => cmd.routes \subseteq disk.bypass[v]
    BY <1>3, <2>1 DEF RouteOK
  <2>3. routes'[v] \subseteq bypass'[v] /\ bypass'[v] \subseteq disk.bypass[v]
    <3>1. CASE v # u
      BY <1>5, <2>2, <3>1
    <3>2. CASE v = u
      BY <1>5, <2>2, <3>2
    <3> QED
      BY <3>1, <3>2
  <2>4. v # 0
    BY SplitAssumption
  <2> QED
    BY <1>1, <1>3, <2>3, <2>4, IdleType DEF RouteOK
<1> QED
  BY <1>2, <1>7, <1>8, <1>9, <1>10, <1>11 DEF IInv

-----------------------------------------------------------------------------
(* Start and end of the daemon. *)

\* Between two lives no command runs, and memory without bypass routes breaks no rule.
LEMMA FreshOK ==
    /\ StateType' /\ cmd' = Idle
    /\ bypass' = NoPolicies
    /\ Fits(Configured(configs', policies'))
    /\ Fits(Configured(disk.configs, disk.policies)') /\ BypassOK(disk.bypass, disk.configs)'
    => CommandOK' /\ RulesOK' /\ LimitOK'
<1> SUFFICES ASSUME StateType', cmd' = Idle, bypass' = NoPolicies,
                    Fits(Configured(configs', policies')),
                    Fits(Configured(disk.configs, disk.policies)'),
                    BypassOK(disk.bypass, disk.configs)'
             PROVE  CommandOK' /\ RulesOK' /\ LimitOK'
  OBVIOUS
<1>1. CommandOK'
  BY IdleType DEF CommandOK, Busy
<1>2. RulesOK'
  BY IdleType DEF RulesOK, PolicyOps, Busy, BypassOK, NoPolicies, OneEach
<1>3. LimitOK'
  BY IdleType DEF LimitOK, PolicyOps
<1> QED
  BY <1>1, <1>2, <1>3

LEMMA NobodyFits == Fits(Configured(NoConfigs, NoPolicies))
<1>1. Configured(NoConfigs, NoPolicies) = {}
  BY DEF Configured, NoConfigs, NoPolicies
<1>2. IsFiniteSet({}) /\ Cardinality({}) = 0
  BY FS_EmptySet
<1> QED
  BY <1>1, <1>2, SplitAssumption DEF Fits

LEMMA CleanedFile ==
    ASSUME StateType
    PROVE  /\ Cleaned(disk) \in [configs : Configs, policies : Policies, bypass : Bypasses]
           /\ Cleaned(disk).configs = disk.configs /\ Cleaned(disk).policies = disk.policies
           /\ Cleaned(disk).bypass = NoPolicies
BY ConfigsType DEF StateType, Cleaned

LEMMA NoBypassOK == \A c : BypassOK(NoPolicies, c)
BY DEF BypassOK, NoPolicies, OneEach

LEMMA WithStoreOK == IInv /\ with_store => IInv'
<1> SUFFICES ASSUME IInv, with_store PROVE IInv'
  OBVIOUS
<1>1. StateType /\ RulesOK /\ LimitOK
  BY DEF IInv
<1>2. phase = "down" /\ UNCHANGED cmd
  BY DEF with_store
<1>3. cmd = Idle
  BY <1>2 DEF IInv, CommandOK
<1>a. SizeOK
  BY DEF IInv
<1>4. CASE /\ routes' = [u \in Uid |-> routes[u] \ disk.bypass[u]]
           /\ disk' = Cleaned(disk) /\ (disk' = disk \/ ~TooLong(disk'))
           /\ configs' = disk.configs /\ policies' = disk.policies /\ bypass' = NoPolicies
           /\ phase' = "starting"
           /\ UNCHANGED torn
  <2>1. routes' \in Bypasses
    BY <1>1, <1>4 DEF StateType, Bypasses
  <2>2. disk.configs \in Configs /\ disk.policies \in Policies
    BY <1>1 DEF StateType
  <2>3. StateType'
    BY <1>1, <1>2, <1>4, <2>1, <2>2, CleanedFile, ConfigsType DEF StateType
  <2>4. CommandOK' /\ RulesOK' /\ LimitOK'
    BY <1>1, <1>2, <1>3, <1>4, <2>3, CleanedFile, NoBypassOK, FreshOK DEF LimitOK
  <2>5. RoutesOK'
    <3> SUFFICES ASSUME ~torn', NEW v \in Uid PROVE RouteOK(v)'
      BY DEF RoutesOK
    <3>1. routes[v] \subseteq disk.bypass[v]
      BY <1>2, <1>4 DEF IInv, RoutesOK, RouteOK
    <3>2. routes'[v] = {} /\ bypass'[v] = {}
      BY <1>4, <3>1 DEF NoPolicies
    <3>3. v # 0
      BY SplitAssumption
    <3> QED
      BY <1>2, <1>3, <1>4, <3>2, <3>3, IdleType DEF RouteOK
  <2>6. SizeOK'
    BY <1>4, <1>a DEF SizeOK
  <2> QED
    BY <2>3, <2>4, <2>5, <2>6 DEF IInv
<1>5. CASE /\ \E done \in SUBSET Uid :
                 /\ routes' = [u \in Uid |-> IF u \in done THEN routes[u] \ disk.bypass[u]
                                            ELSE routes[u]]
                 /\ disk' \in {disk} \cup {f \in {Cleaned(disk)} : done = Uid /\ ~TooLong(f)}
           /\ UNCHANGED <<phase, memory, torn>>
  <2>1. PICK done \in SUBSET Uid :
              /\ routes' = [u \in Uid |-> IF u \in done THEN routes[u] \ disk.bypass[u]
                                         ELSE routes[u]]
              /\ disk' \in {disk} \cup {f \in {Cleaned(disk)} : done = Uid /\ ~TooLong(f)}
    BY <1>5
  <2>2. routes' \in Bypasses /\ \A v \in Uid : routes'[v] \subseteq routes[v]
    BY <1>1, <2>1 DEF StateType, Bypasses
  <2>3. CASE disk' = disk
    BY <1>1, <1>2, <1>5, <2>2, <2>3, QuietOK DEF QuietStep, Worse, StateType, memory
  <2>4. CASE done = Uid /\ disk' = Cleaned(disk) /\ ~TooLong(disk')
    <3>1. StateType'
      BY <1>1, <1>2, <1>5, <2>2, <2>4, CleanedFile DEF StateType, memory
    <3>2. CommandOK'
      BY <1>2, <1>5 DEF IInv, CommandOK, Busy
    <3>3. BypassOK(disk.bypass, disk.configs)'
      BY <1>1, <2>4, CleanedFile, NoBypassOK
    <3>4. RulesOK'
      BY <1>1, <1>2, <1>5, <3>3 DEF RulesOK, Busy, memory
    <3>5. LimitOK'
      BY <1>1, <1>2, <1>5, <2>4, CleanedFile DEF LimitOK, Undone, memory
    <3>6. RoutesOK'
      <4> SUFFICES ASSUME ~torn', NEW v \in Uid PROVE RouteOK(v)'
        BY DEF RoutesOK
      <4>1. routes[v] \subseteq disk.bypass[v]
        BY <1>2, <1>5 DEF IInv, RoutesOK, RouteOK
      <4>2. routes'[v] = {}
        BY <2>1, <2>4, <4>1
      <4> QED
        BY <1>2, <1>5, <4>2 DEF RouteOK
    <3>7. SizeOK'
      BY <2>4 DEF SizeOK
    <3> QED
      BY <3>1, <3>2, <3>4, <3>5, <3>6, <3>7 DEF IInv
  <2> QED
    BY <2>1, <2>3, <2>4
<1> QED
  BY <1>4, <1>5 DEF with_store

LEMMA ForgetOK == IInv /\ (Kill \/ Stop) => IInv'
<1> SUFFICES ASSUME IInv, Kill \/ Stop PROVE IInv'
  OBVIOUS
<1>1. StateType /\ RulesOK /\ LimitOK
  BY DEF IInv
<1>2. /\ phase # "down" /\ phase' = "down"
      /\ configs' = NoConfigs /\ policies' = NoPolicies /\ bypass' = NoPolicies
      /\ cmd' = Idle /\ UNCHANGED disk
  BY DEF Kill, Stop, Forget
<1>a. SizeOK'
  BY <1>2 DEF IInv, SizeOK
<1>3. routes' \in Bypasses /\ \A v \in Uid : routes'[v] \subseteq routes[v]
  BY <1>1 DEF Kill, Stop, StateType, Bypasses
<1>4. torn' \in BOOLEAN /\ (~torn' => ~torn /\ cmd = Idle)
  BY <1>1 DEF Kill, Stop, StateType
<1>5. StateType'
  BY <1>1, <1>2, <1>3, <1>4, IdleType, ConfigsType DEF StateType
<1>6. CommandOK' /\ RulesOK' /\ LimitOK'
  BY <1>1, <1>2, <1>5, NobodyFits, FreshOK DEF RulesOK, LimitOK
<1>7. RoutesOK'
  <2> SUFFICES ASSUME ~torn', NEW v \in Uid PROVE RouteOK(v)'
    BY DEF RoutesOK
  <2>1. routes[v] \subseteq bypass[v] /\ bypass[v] \subseteq disk.bypass[v]
    BY <1>2, <1>4, IdleType DEF IInv, RoutesOK, RouteOK, BypassOps
  <2> QED
    BY <1>2, <1>3, <2>1 DEF RouteOK
<1> QED
  BY <1>a, <1>5, <1>6, <1>7 DEF IInv

-----------------------------------------------------------------------------
(* The theorems. *)

LEMMA InitOK == Init => IInv
<1> SUFFICES ASSUME Init PROVE IInv
  OBVIOUS
<1>1. /\ phase = "down" /\ cmd = Idle /\ torn = FALSE
      /\ configs = NoConfigs /\ policies = NoPolicies /\ bypass = NoPolicies /\ routes = NoPolicies
      /\ disk.configs = NoConfigs /\ disk.policies = NoPolicies /\ disk.bypass = NoPolicies
  BY DEF Init, NoState, Saved
<1>2. disk \in [configs : Configs, policies : Policies, bypass : Bypasses]
  BY ConfigsType DEF Init, NoState, Saved
<1>3. StateType
  BY <1>1, <1>2, ConfigsType, IdleType DEF StateType
<1>4. CommandOK
  BY <1>1, IdleType DEF CommandOK, Busy
<1>5. RulesOK
  BY <1>1, IdleType, NoBypassOK DEF RulesOK, PolicyOps, Busy
<1>6. LimitOK
  BY <1>1, IdleType, NobodyFits DEF LimitOK, PolicyOps
<1>7. RoutesOK
  BY <1>1 DEF RoutesOK, RouteOK
<1>8. SizeOK
  <2>1. disk = NoState
    BY DEF Init
  <2> QED
    BY <2>1, SizeAssumption, SplitAssumption DEF SizeOK, TooLong
<1> QED
  BY <1>3, <1>4, <1>5, <1>6, <1>7, <1>8 DEF IInv

LEMMA NextOK == IInv /\ [Next]_vars => IInv'
<1> SUFFICES ASSUME IInv, [Next]_vars PROVE IInv'
  OBVIOUS
<1>1. StateType
  BY DEF IInv
<1>2. CASE Command
  <2>1. PICK caller \in Uid \cup {0}, u \in Uid :
          \/ \E c \in ConfigChoice \cup {NoConfig} : set_config(caller, u, c)
          \/ \E ranges \in SUBSET Destination : set_destination_policy(caller, u, ranges)
          \/ \E offer \in OfferChoice : set_kill_switch_bypass(caller, u, TRUE, offer)
          \/ set_kill_switch_bypass(caller, u, FALSE, {})
    BY <1>2 DEF Command
  <2>2. /\ \A c \in ConfigChoice \cup {NoConfig} : c \in Config \cup {NoConfig}
        /\ \A offer \in OfferChoice \cup {{}} : offer \in SUBSET Route
    BY SplitAssumption
  <2> QED
    BY <2>1, <2>2, SetConfigOK, SetPolicyOK, SetBypassOK
<1>3. CASE Reconcile
  <2>1. cmd.pc = "reconcile" /\ UNCHANGED <<phase, memory, disk, routes>>
    BY <1>3 DEF Reconcile
  <2>2. (Goto("save") \/ Goto("undo")) /\ UNCHANGED torn
    BY <1>3 DEF Reconcile
  <2>3. Worse
    BY <1>1, <2>2 DEF Worse, StateType
  <2> QED
    BY <2>1, <2>2, <2>3, GotoOK
<1>4. CASE handle_event \/ Tick \/ Subscribe \/ Environment \/ UNCHANGED vars
  <2>1. /\ UNCHANGED <<configs, policies, bypass, disk, cmd, routes, torn>>
        /\ phase' = phase \/ (phase = "starting" /\ phase' = "up")
    BY <1>4 DEF handle_event, Tick, Subscribe, Environment, vars, memory
  <2>2. QuietStep
    BY <1>1, <2>1, SameRoutes DEF QuietStep, Worse, StateType
  <2> QED
    BY <2>2, QuietOK
<1> QED
  BY <1>2, <1>3, <1>4, EnableRoutesOK, SaveOK, UndoPolicyOK, UndoBypassOK, WithStoreOK,
     ForgetOK DEF Next, CommandStep

\* The inductive invariant of the daemon's state holds in every reachable state.
THEOREM InvariantHolds == Spec => []IInv
BY InitOK, NextOK, PTL DEF Spec

\* The daemon writes no state file that it would refuse to load, but for the one that its
\* newline makes a byte too long.
THEOREM FileLoadsAlways == Spec => []FileAlwaysLoads
<1>1. IInv => FileAlwaysLoads
  BY FileLoads DEF IInv, FileAlwaysLoads
<1> QED
  BY <1>1, InvariantHolds, PTL

\* While no command is under way every bypass route in the kernel is known to the
\* daemon, or to the file it will start from.
THEOREM RoutesNeverOrphaned == Spec => []RoutesAccountedFor
<1>1. IInv => RoutesAccountedFor
  BY DEF IInv, RoutesOK, RouteOK, RoutesAccountedFor
<1> QED
  BY <1>1, InvariantHolds, PTL
=============================================================================
