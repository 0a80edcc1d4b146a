----------------------------- MODULE Connection -----------------------------
(***************************************************************************)
(* The connection side of NativeRuntime (agent/src/native_backend/mod.rs): *)
(* connection_connect, connection_cancel, connection_disconnect, the       *)
(* kill-switch part of feature_set, watch_local_agent, the teardown        *)
(* disconnect_owned_inner that all of them share, and the two maintenance  *)
(* loops that touch the same routes, composed with the operation           *)
(* coordinator their requests go through.                                  *)
(*                                                                         *)
(* Each request is a tokio task of its own, and so is each watcher.  What  *)
(* keeps them apart is network_write (a tokio Mutex, not reentrant), the   *)
(* generation counter connection_attempt, and the uuid of the tunnel the   *)
(* agent believes it owns.  A task is a record whose pc names the await it *)
(* is at; the steps below are the code between two awaits that another     *)
(* task could notice.                                                      *)
(*                                                                         *)
(* NetworkManager, the split daemon and Proton's servers are external:     *)
(* what they hold is tunnels, ks, bypass and policy, and every call on     *)
(* them may fail when its kind of fault is in Faults.  The servers chosen, *)
(* the profiles and the events emitted to clients are left out; the Guest  *)
(* Hole lock is taken together with network_write.                         *)
(***************************************************************************)
EXTENDS Naturals, FiniteSets, Sequences

CONSTANTS Client, Request, Method, RECENT_OPERATION_LIMIT, MaxOperations,
          Watcher,        \* slots for tasks running watch_local_agent
          Loops,          \* the maintenance loops that run
          Faults,         \* the kinds of external failure of this instance
          Modes,          \* kill switch modes a client may ask for
          MaxRequests     \* bound on the requests submitted

AllFaults ==
    {"prepare",    \* refresh, certificate, catalog or session missing
     "observe",    \* reading NetworkManager fails
     "nm",         \* activating or deactivating a profile fails
     "route",      \* reconcile_kill_switch fails, before or after blocking
     "bypass",     \* the split daemon refuses the bypass change
     "policy",     \* the split daemon refuses the destination policy
     "agent",      \* the Local Agent cannot be started or is not ready
     "jail",       \* the Local Agent reports a hard-jailed session
     "persist",    \* settings cannot be saved
     "drop",       \* a tunnel goes down by itself
     "foreign"}    \* another client has a VPN of its own

NoTask == "none"

ASSUME ConnectionAssumption ==
    /\ Faults \subseteq AllFaults
    /\ Loops \subseteq {"policy", "split_route"}
    /\ Modes \subseteq 0 .. 2 /\ Modes # {}
    /\ MaxRequests \in Nat
    /\ Method \subseteq {"connection.connect", "connection.cancel",
                         "connection.disconnect", "feature.set"}
    /\ Request \cap Watcher = {}
    /\ NoTask \notin Request \cup Watcher

Task == Request \cup Watcher

VARIABLES next_id, active, recent, lease,   \* the coordinator (Operations)
          connection_attempt,   \* AtomicU64, the newest generation
          network_write,        \* the task holding the mutex, or NoTask
          owned,                \* owned_connection_uuid, 0 for None
          settings,             \* killswitch of the persisted settings
          override,             \* destination_policy_override is Some
          task,                 \* the tasks
          loop,                 \* what each maintenance loop has read and not yet used
          tunnels,              \* NetworkManager: the active VPN connections
          ks,                   \* NetworkManager: 0 none, 1 standard, 2 permanent
          bypass,               \* split daemon: kill switch bypass routes exist
          policy,               \* split daemon: which destination policy is applied
          submitted             \* requests submitted so far

Ops == INSTANCE Operations

\* The coordinator's own assumptions.
ASSUME CoordinatorAssumption == Ops!MethodAssumption /\ Ops!LimitAssumption

opsVars == <<next_id, active, recent, lease>>
netVars == <<tunnels, ks, bypass, policy>>
rtVars  == <<connection_attempt, network_write, owned, settings, override, submitted>>
vars    == <<opsVars, netVars, rtVars, task, loop>>

\* The uuid of a profile is fresh for each attempt, so the attempt names it;
\* uuid 0 with owned FALSE is the tunnel of another client.
Uuid == Nat

Tunnel == [uuid : Uuid, state : {"Connecting", "Connected", "Error"}, owned : BOOLEAN]

Nothing == [uuid |-> 0, state |-> "Disconnected", owned |-> FALSE]

Jobs == {"idle", "connect", "cancel", "disconnect", "feature", "watch"}

Pcs ==
    {"idle", "queued", "prepare", "lock", "select", "observe", "verify", "policy",
     "activate", "bringup", "poll", "agent", "ready", "mark", "reply",
     "td_bypass", "td_policy", "td_down", "td_ks",
     "off", "off_ks", "apply", "bypass", "persist", "undo", "undo_bypass",
     "listen", "reject"}

TaskState ==
    [job : Jobs, pc : Pcs,
     att : Uuid,                 \* the generation the task works for
     uuid : Uuid,                \* the tunnel it is tearing down
     mode : 0 .. 2,              \* the kill switch mode it has read or was given
     prev : 0 .. 2,              \* feature_set: the mode to go back to
     live : BOOLEAN,             \* feature_set: a tunnel was seen connected
     late : BOOLEAN,             \* connect: CONNECTION_TIMEOUT has passed
     ret : {"none", "replace", "cleanup", "answer", "quit"},
     result : {"Ok", "ErrCancelled", "ErrOther", "ErrNotOwned"}]

Idle == [job |-> "idle", pc |-> "idle", att |-> 0, uuid |-> 0, mode |-> 0, prev |-> 0,
         live |-> FALSE, late |-> FALSE, ret |-> "none", result |-> "Ok"]

Init ==
    /\ Ops!Init
    /\ connection_attempt = 0
    /\ network_write = NoTask
    /\ owned = 0
    /\ settings \in Modes
    /\ override = FALSE
    /\ submitted = 0
    /\ task = [t \in Task |-> Idle]
    /\ loop = [policy |-> "idle", split_route |-> "idle"]
    /\ tunnels = {}
    /\ ks = IF settings = 2 THEN 2 ELSE 0     \* initialize() has reconciled it
    /\ bypass = FALSE
    /\ policy = "global"

-----------------------------------------------------------------------------
(* Pieces shared by the handlers. *)

Fault(f) == f \in Faults

At(t, job, pc) == task[t].job = job /\ task[t].pc = pc

Goto(t, pc) == task' = [task EXCEPT ![t].pc = pc]

Stale(t) == connection_attempt # task[t].att

\* Variant for a mutant: the guard outlives the handler.
ReturnKeepingLock(t, result) ==
    /\ task' = [task EXCEPT ![t].pc = "reply", ![t].result = result]
    /\ UNCHANGED network_write

\* The handler returns: its guard is dropped and the answer is on its way.
Return(t, result) ==
    /\ task' = [task EXCEPT ![t].pc = "reply", ![t].result = result]
    /\ network_write' = IF network_write = t THEN NoTask ELSE network_write

\* NetworkManager's list order is unknown: observe() reports the first tunnel.
Seen == IF tunnels = {} THEN {Nothing} ELSE tunnels

\* reconcile_kill_switch: what a successful call leaves behind.
KillSwitchFor(mode, tunnel_active) ==
    IF mode = 2 \/ (mode = 1 /\ tunnel_active) THEN mode ELSE 0

\* A failing call may fail before or after the dummy profile was switched (the
\* server route is changed last).
KillSwitchAfterFailure(mode, tunnel_active) == {ks, KillSwitchFor(mode, tunnel_active)}

\* reconcile_split_kill_switch_bypass with split tunnelling configured.  The
\* daemon is not called, and so cannot refuse, when there is nothing to remove.
BypassFor(mode, tunnel_active) == tunnel_active /\ mode # 0

BypassRefused(mode) == Fault("bypass") /\ (mode # 0 \/ bypass)

\* restore_global_destination_policy followed by the return of the handler.
RestorePolicyAndReturn(t, result) ==
    \/ /\ override' = FALSE
       /\ policy' = IF override THEN "global" ELSE policy
       /\ Return(t, result)
    \/ /\ Fault("policy") /\ override
       /\ UNCHANGED <<override, policy>>
       /\ Return(t, "ErrOther")

\* Enter disconnect_owned_inner(uuid); `ret` says what follows it.
StartTeardown(t, uuid, ret, result) ==
    task' = [task EXCEPT ![t].pc = "td_bypass", ![t].uuid = uuid,
                         ![t].ret = ret, ![t].result = result]

\* cleanup_owned_connection: tear down, ignore how it went, answer `result`.
Cleanup(t, result) == StartTeardown(t, task[t].att, "cleanup", result)

JobOf(m) ==
    CASE m = "connection.connect"    -> "connect"
      [] m = "connection.cancel"     -> "cancel"
      [] m = "connection.disconnect" -> "disconnect"
      [] OTHER                       -> "feature"

-----------------------------------------------------------------------------
(* Requests arrive through BackendHandle::request and are answered there.  *)

Submit(r, c, m) ==
    /\ task[r] = Idle
    /\ submitted < MaxRequests
    /\ submitted' = submitted + 1
    /\ Ops!begin(r, c, m)
    /\ task' = [task EXCEPT ![r].job = JobOf(m), ![r].pc = "queued"]
    /\ UNCHANGED <<netVars, connection_attempt, network_write, owned, settings, override, loop>>

Reply(r) ==
    /\ task[r].pc = "reply"
    /\ Ops!finish(r, IF task[r].result = "ErrNotOwned" THEN "ErrOther" ELSE task[r].result)
    /\ task' = [task EXCEPT ![r] = Idle]
    /\ UNCHANGED <<netVars, rtVars, loop>>

-----------------------------------------------------------------------------
(* connection_connect.  A cancellation is noticed where the code looks at  *)
(* the counter: in the biased selects, which poll it every 125 ms and so   *)
(* may also let the other branch through, and at the explicit checks.      *)

ConnectStart(t) ==
    /\ At(t, "connect", "queued")
    /\ connection_attempt' = connection_attempt + 1
    /\ task' = [task EXCEPT ![t].pc = "prepare", ![t].att = connection_attempt + 1]
    /\ UNCHANGED <<opsVars, netVars, network_write, owned, settings,
                   override, submitted, loop>>

\* Token refresh, client configuration, certificate, signed catalog.
ConnectPrepare(t) ==
    /\ At(t, "connect", "prepare")
    /\ \/ Stale(t) /\ Return(t, "ErrCancelled")
       \/ Fault("prepare") /\ Return(t, "ErrOther")
       \/ Goto(t, "lock") /\ UNCHANGED network_write
    /\ UNCHANGED <<opsVars, netVars, connection_attempt, owned, settings,
                   override, submitted, loop>>

ConnectLock(t) ==
    /\ At(t, "connect", "lock")
    /\ \/ Stale(t) /\ Return(t, "ErrCancelled")
       \/ /\ network_write = NoTask
          /\ network_write' = t
          /\ Goto(t, "select")
    /\ UNCHANGED <<opsVars, netVars, connection_attempt, owned, settings,
                   override, submitted, loop>>

\* The session, the server and the effective settings.  The stage reported here
\* replaces "cancelling" when a control attached in the meantime.
ConnectSelect(t) ==
    /\ At(t, "connect", "select")
    /\ \/ /\ Fault("prepare")                 \* no session
          /\ Return(t, "ErrOther")
          /\ UNCHANGED opsVars
       \/ /\ Ops!update_stage("connection.connect", "working")
          /\ \/ Fault("prepare") /\ Return(t, "ErrOther")     \* no such server
             \/ /\ task' = [task EXCEPT ![t].pc = "observe", ![t].mode = settings]
                /\ UNCHANGED network_write
    /\ UNCHANGED <<netVars, connection_attempt, owned, settings,
                   override, submitted, loop>>

\* Variant for a mutant: a tunnel that is already there is not looked for.
ConnectObserveNotAtAll(t) ==
    /\ At(t, "connect", "observe")
    /\ IF Stale(t)
         THEN Return(t, "ErrCancelled")
         ELSE Goto(t, "policy") /\ UNCHANGED network_write
    /\ UNCHANGED <<opsVars, netVars, connection_attempt, owned, settings,
                   override, submitted, loop>>

\* replacement_connection_uuid: an observed tunnel is replaced when it is the
\* one the agent knows it owns, and refused otherwise.
ConnectObserve(t) ==
    /\ At(t, "connect", "observe")
    /\ \/ Fault("observe") /\ Return(t, "ErrOther") /\ UNCHANGED opsVars
       \/ \E o \in Seen :
            \/ Stale(t) /\ Return(t, "ErrCancelled") /\ UNCHANGED opsVars
            \/ /\ ~Stale(t) /\ o.state = "Disconnected"
               /\ Goto(t, "policy")
               /\ UNCHANGED <<opsVars, network_write>>
            \/ /\ ~Stale(t) /\ o.owned /\ o.uuid = owned
               /\ Ops!update_stage("connection.connect", "working")
               /\ StartTeardown(t, owned, "replace", "Ok")
               /\ UNCHANGED network_write
            \/ /\ ~Stale(t) /\ o.state # "Disconnected" /\ ~(o.owned /\ o.uuid = owned)
               /\ Return(t, "ErrOther")
               /\ UNCHANGED opsVars
    /\ UNCHANGED <<netVars, connection_attempt, owned, settings,
                   override, submitted, loop>>

\* After the teardown of the replaced tunnel.
ConnectVerify(t) ==
    /\ At(t, "connect", "verify")
    /\ \/ tunnels = {} /\ Goto(t, "policy") /\ UNCHANGED network_write
       \/ (tunnels # {} \/ Fault("observe")) /\ Return(t, "ErrOther")
    /\ UNCHANGED <<opsVars, netVars, connection_attempt, owned, settings,
                   override, submitted, loop>>

\* apply_connection_destination_policy and the check that follows it.  `differs`
\* says whether the profile's LAN and DNS policy differs from the global one;
\* when it does not, the override is forgotten and the daemon is not called.
ConnectPolicy(t) ==
    /\ At(t, "connect", "policy")
    /\ \/ /\ Fault("prepare") \/ Fault("policy")
          /\ Return(t, "ErrOther")
          /\ UNCHANGED <<opsVars, override, policy>>
       \/ \E differs \in BOOLEAN :
            /\ ~Stale(t)
            /\ override' = differs
            /\ policy' = IF differs THEN "profile" ELSE policy
            /\ Ops!update_stage("connection.connect", "working")
            /\ Goto(t, "activate")
            /\ UNCHANGED network_write
       \/ /\ Stale(t)                  \* applied, then taken back
          /\ \/ /\ override' = FALSE      \* not different: nothing to restore
                /\ UNCHANGED policy
                /\ Return(t, "ErrCancelled")
             \/ /\ override' = FALSE
                /\ policy' = "global"
                /\ Return(t, "ErrCancelled")
             \/ /\ Fault("policy")         \* different, and not restored
                /\ override' = TRUE
                /\ policy' = "profile"
                /\ Return(t, "ErrOther")
          /\ UNCHANGED opsVars
    /\ UNCHANGED <<tunnels, ks, bypass, connection_attempt, owned, settings,
                   submitted, loop>>

\* First half of the blocking activation: the kill switch.  Its failure is
\* returned as it is.
ConnectActivate(t) ==
    /\ At(t, "connect", "activate")
    /\ \/ /\ ks' = KillSwitchFor(task[t].mode, TRUE)
          /\ Goto(t, "bringup")
          /\ UNCHANGED <<network_write, override, policy>>
       \/ /\ Fault("route")
          /\ ks' \in KillSwitchAfterFailure(task[t].mode, TRUE)
          /\ RestorePolicyAndReturn(t, "ErrOther")
    /\ UNCHANGED <<opsVars, tunnels, bypass, connection_attempt, owned, settings,
                   submitted, loop>>

\* Variant for a mutant: a failed activation leaves the kill switch as it is.
ConnectBringupNoRollback(t) ==
    /\ At(t, "connect", "bringup")
    /\ \/ /\ tunnels' = tunnels \cup
               {[uuid |-> task[t].att, state |-> "Connecting", owned |-> TRUE]}
          /\ owned' = task[t].att
          /\ Goto(t, "poll")
          /\ UNCHANGED <<network_write, override, policy>>
       \/ /\ Fault("nm")
          /\ RestorePolicyAndReturn(t, "ErrOther")
          /\ UNCHANGED <<tunnels, owned>>
    /\ UNCHANGED <<opsVars, ks, bypass, connection_attempt, settings, submitted, loop>>

\* Second half: NetworkManager activates the profile, or the kill switch goes
\* back to what it is without a tunnel (that it fails is ignored).
ConnectBringup(t) ==
    /\ At(t, "connect", "bringup")
    /\ \/ /\ tunnels' = tunnels \cup
               {[uuid |-> task[t].att, state |-> "Connecting", owned |-> TRUE]}
          /\ owned' = task[t].att
          /\ Goto(t, "poll")
          /\ UNCHANGED <<network_write, ks, override, policy>>
       \/ /\ Fault("nm")
          /\ \/ ks' = KillSwitchFor(task[t].mode, FALSE)
             \/ Fault("route") /\ ks' \in KillSwitchAfterFailure(task[t].mode, FALSE)
          /\ RestorePolicyAndReturn(t, "ErrOther")
          /\ UNCHANGED <<tunnels, owned>>
    /\ UNCHANGED <<opsVars, bypass, connection_attempt, settings,
                   submitted, loop>>

\* One turn of the loop that waits for the tunnel.  An observation that fails
\* leaves through `?`, without the cleanup.  A turn that changes nothing (the
\* tunnel is still connecting) is no step.
ConnectPoll(t) ==
    /\ At(t, "connect", "poll")
    /\ \/ /\ Stale(t)
          /\ Cleanup(t, "ErrCancelled")
          /\ UNCHANGED <<opsVars, bypass, network_write>>
       \/ /\ ~Stale(t) /\ Fault("observe")
          /\ Return(t, "ErrOther")
          /\ UNCHANGED <<opsVars, bypass>>
       \/ /\ ~Stale(t)
          /\ \E o \in Seen :
                \/ /\ o.state = "Connected"
                   /\ bypass' = BypassFor(task[t].mode, TRUE)
                   /\ Ops!update_stage("connection.connect", "working")
                   /\ Goto(t, "agent")
                \/ /\ \/ o.state = "Connected" /\ BypassRefused(task[t].mode)
                      \/ o.state \in {"Error", "Disconnected"}
                      \/ o.state = "Connecting" /\ task[t].late
                   /\ Cleanup(t, "ErrOther")
                   /\ UNCHANGED <<opsVars, bypass>>
          /\ UNCHANGED network_write
    /\ UNCHANGED <<tunnels, ks, policy, connection_attempt, owned, settings,
                   override, submitted, loop>>

\* CONNECTION_TIMEOUT passes.
DeadlinePasses(t) ==
    /\ task[t].job = "connect" /\ task[t].pc \in {"poll", "agent"} /\ ~task[t].late
    /\ task' = [task EXCEPT ![t].late = TRUE]
    /\ UNCHANGED <<opsVars, netVars, rtVars, loop>>

\* local_agent::start: connected, a socket timeout (back to the loop while the
\* deadline allows), cancelled, or refused.
ConnectAgent(t) ==
    /\ At(t, "connect", "agent")
    /\ \/ Goto(t, "ready")
       \/ ~task[t].late /\ Goto(t, "poll")
       \/ Stale(t) /\ Cleanup(t, "ErrCancelled")
       \/ (Fault("agent") \/ task[t].late) /\ Cleanup(t, "ErrOther")
    /\ UNCHANGED <<opsVars, netVars, rtVars, loop>>

\* wait_for_local_agent_ready; success spawns watch_local_agent.
ConnectReady(t) ==
    /\ At(t, "connect", "ready")
    /\ \/ /\ \/ \E w \in Watcher :
                /\ task[w] = Idle
                /\ task' = [task EXCEPT
                        ![t].pc = "reply", ![t].result = "Ok",
                        ![w] = [Idle EXCEPT !.job = "watch", !.pc = "listen",
                                            !.att = task[t].att]]
             \/ /\ \A w \in Watcher : task[w] # Idle      \* no slot left to follow it
                /\ task' = [task EXCEPT ![t].pc = "reply", ![t].result = "Ok"]
          /\ network_write' = NoTask
       \/ Stale(t) /\ Cleanup(t, "ErrCancelled") /\ UNCHANGED network_write
       \/ Fault("agent") /\ Cleanup(t, "ErrOther") /\ UNCHANGED network_write
    /\ UNCHANGED <<opsVars, netVars, connection_attempt, owned, settings,
                   override, submitted, loop>>

-----------------------------------------------------------------------------
(* disconnect_owned_inner, always for the tunnel task[t].uuid. *)

Teardown == {"td_bypass", "td_policy", "td_down", "td_ks"}

\* What the callers do with Ok: connection_connect goes on, a cleanup and the
\* watcher forget the outcome, the other handlers answer it.
TdDone(t) ==
    \/ /\ task[t].ret = "replace"
       /\ Goto(t, "verify")
       /\ UNCHANGED network_write
    \/ task[t].ret \in {"cleanup", "answer"} /\ Return(t, task[t].result)
    \/ /\ task[t].ret = "quit"
       /\ task' = [task EXCEPT ![t] = Idle]
       /\ network_write' = NoTask

\* ... and with Err.
TdFail(t) ==
    \/ task[t].ret \in {"replace", "answer"} /\ Return(t, "ErrOther")
    \/ task[t].ret \in {"cleanup", "quit"} /\ TdDone(t)

\* Variant for a mutant: a refused removal of the bypass is ignored.
TdBypassIgnored(t) ==
    /\ task[t].pc = "td_bypass"
    /\ bypass' = FALSE \/ (BypassRefused(settings) /\ UNCHANGED bypass)
    /\ task' = [task EXCEPT ![t].pc = "td_policy", ![t].mode = settings]
    /\ UNCHANGED <<opsVars, tunnels, ks, policy, rtVars, loop>>

TdBypass(t) ==
    /\ task[t].pc = "td_bypass"
    /\ \/ /\ bypass' = FALSE
          /\ task' = [task EXCEPT ![t].pc = "td_policy", ![t].mode = settings]
          /\ UNCHANGED network_write
       \/ BypassRefused(settings) /\ TdFail(t) /\ UNCHANGED bypass
    /\ UNCHANGED <<opsVars, tunnels, ks, policy, connection_attempt, owned, settings,
                   override, submitted, loop>>

TdPolicy(t) ==
    /\ task[t].pc = "td_policy"
    /\ \/ /\ override' = FALSE
          /\ policy' = IF override THEN "global" ELSE policy
          /\ Goto(t, "td_down")
          /\ UNCHANGED network_write
       \/ /\ Fault("policy") /\ override
          /\ TdFail(t)
          /\ UNCHANGED <<override, policy>>
    /\ UNCHANGED <<opsVars, tunnels, ks, bypass, connection_attempt, owned, settings,
                   submitted, loop>>

\* Variant for a mutant: a failed deactivation is ignored.
TdDownIgnored(t) ==
    /\ task[t].pc = "td_down"
    /\ \/ tunnels' = {x \in tunnels : x.uuid # task[t].uuid}
       \/ Fault("nm") /\ UNCHANGED tunnels
    /\ Goto(t, "td_ks")
    /\ UNCHANGED <<opsVars, ks, bypass, policy, rtVars, loop>>

\* disconnect_uuid: nothing happens when that tunnel is not there.
TdDown(t) ==
    /\ task[t].pc = "td_down"
    /\ \/ /\ tunnels' = {x \in tunnels : x.uuid # task[t].uuid}
          /\ Goto(t, "td_ks")
          /\ UNCHANGED network_write
       \/ Fault("nm") /\ TdFail(t) /\ UNCHANGED tunnels
    /\ UNCHANGED <<opsVars, ks, bypass, policy, connection_attempt, owned, settings,
                   override, submitted, loop>>

\* The kill switch without a tunnel; then the agent forgets that it owns one
\* (whichever that is), and reports what it observes.
TdKs(t) ==
    /\ task[t].pc = "td_ks"
    /\ \/ /\ ks' = KillSwitchFor(task[t].mode, FALSE)
          /\ owned' = 0
          /\ TdDone(t) \/ (Fault("observe") /\ TdFail(t))
       \/ /\ Fault("route")
          /\ ks' \in KillSwitchAfterFailure(task[t].mode, FALSE)
          /\ TdFail(t)
          /\ UNCHANGED owned
    /\ UNCHANGED <<opsVars, tunnels, bypass, policy, connection_attempt, settings,
                   override, submitted, loop>>

-----------------------------------------------------------------------------
(* connection_cancel and connection_disconnect *)

CancelStart(t) ==
    /\ At(t, "cancel", "queued")
    /\ connection_attempt' = connection_attempt + 1
    /\ task' = [task EXCEPT ![t].pc = "mark", ![t].att = connection_attempt + 1]
    /\ UNCHANGED <<opsVars, netVars, network_write, owned, settings,
                   override, submitted, loop>>

CancelMark(t) ==
    /\ At(t, "cancel", "mark")
    /\ Ops!update_stage("connection.connect", "cancelling")
    /\ Goto(t, "lock")
    /\ UNCHANGED <<netVars, rtVars, loop>>

\* Variant for a mutant: answer without waiting for the attempt to clean up.
CancelLockNotAwaited(t) ==
    /\ At(t, "cancel", "lock")
    /\ IF network_write = NoTask /\ ~Stale(t) /\ owned # 0
         THEN network_write' = t /\ StartTeardown(t, owned, "answer", "Ok")
         ELSE Return(t, "Ok")
    /\ UNCHANGED <<opsVars, netVars, connection_attempt, owned, settings,
                   override, submitted, loop>>

CancelLock(t) ==
    /\ At(t, "cancel", "lock")
    /\ network_write = NoTask
    /\ IF Stale(t) \/ owned = 0
         THEN Return(t, "Ok")
         ELSE network_write' = t /\ StartTeardown(t, owned, "answer", "Ok")
    /\ UNCHANGED <<opsVars, netVars, connection_attempt, owned, settings,
                   override, submitted, loop>>

DisconnectStart(t) ==
    /\ At(t, "disconnect", "queued")
    /\ connection_attempt' = connection_attempt + 1
    /\ Ops!update_stage("connection.disconnect", "working")
    /\ task' = [task EXCEPT ![t].pc = "lock", ![t].att = connection_attempt + 1]
    /\ UNCHANGED <<netVars, network_write, owned, settings,
                   override, submitted, loop>>

DisconnectLock(t) ==
    /\ At(t, "disconnect", "lock")
    /\ network_write = NoTask
    /\ IF owned = 0
         THEN Return(t, "ErrNotOwned")
         ELSE network_write' = t /\ StartTeardown(t, owned, "answer", "Ok")
    /\ UNCHANGED <<opsVars, netVars, connection_attempt, owned, settings,
                   override, submitted, loop>>

-----------------------------------------------------------------------------
(* feature_set for the kill switch.  It takes settings_write, which the    *)
(* coordinator makes uncontended, and not network_write.                   *)

FeatureStart(t) ==
    /\ At(t, "feature", "queued")
    /\ \/ Fault("observe") /\ Return(t, "ErrOther")
       \/ \E o \in Seen, mode \in Modes :
            \/ /\ o.state = "Connected" /\ ~o.owned
               /\ Return(t, "ErrOther")
            \/ /\ ~(o.state = "Connected" /\ ~o.owned)
               /\ task' = [task EXCEPT
                        ![t].pc = IF mode = 0 /\ settings # 0 THEN "off" ELSE "apply",
                        ![t].mode = mode, ![t].prev = settings,
                        ![t].live = (o.state = "Connected")]
               /\ UNCHANGED network_write
    /\ UNCHANGED <<opsVars, netVars, connection_attempt, owned, settings,
                   override, submitted, loop>>

\* Switching off removes the old protection first; an error here is returned
\* without the undo.
FeatureOff(t) ==
    /\ At(t, "feature", "off")
    /\ \/ bypass' = FALSE /\ Goto(t, "off_ks") /\ UNCHANGED network_write
       \/ BypassRefused(task[t].prev) /\ Return(t, "ErrOther") /\ UNCHANGED bypass
    /\ UNCHANGED <<opsVars, tunnels, ks, policy, connection_attempt, owned, settings,
                   override, submitted, loop>>

FeatureOffKs(t) ==
    /\ At(t, "feature", "off_ks")
    /\ \/ /\ ks' = KillSwitchFor(task[t].prev, FALSE)
          /\ Goto(t, "apply")
          /\ UNCHANGED network_write
       \/ /\ Fault("route")
          /\ ks' \in KillSwitchAfterFailure(task[t].prev, FALSE)
          /\ Return(t, "ErrOther")
    /\ UNCHANGED <<opsVars, tunnels, bypass, policy, connection_attempt, owned, settings,
                   override, submitted, loop>>

FeatureApply(t) ==
    /\ At(t, "feature", "apply")
    /\ \/ /\ ks' = KillSwitchFor(task[t].mode, task[t].live)
          /\ Goto(t, "bypass")
       \/ /\ Fault("route")
          /\ ks' \in KillSwitchAfterFailure(task[t].mode, task[t].live)
          /\ Goto(t, "undo")
    /\ UNCHANGED <<opsVars, tunnels, bypass, policy, rtVars, loop>>

FeatureBypass(t) ==
    /\ At(t, "feature", "bypass")
    /\ \/ bypass' = BypassFor(task[t].mode, task[t].live) /\ Goto(t, "persist")
       \/ BypassRefused(task[t].mode) /\ Goto(t, "undo") /\ UNCHANGED bypass
    /\ UNCHANGED <<opsVars, tunnels, ks, policy, rtVars, loop>>

FeaturePersist(t) ==
    /\ At(t, "feature", "persist")
    /\ \/ /\ settings' = task[t].mode
          /\ Ops!update_stage("feature.set", "working")
          /\ Return(t, "Ok")
       \/ /\ Fault("persist")
          /\ Goto(t, "undo")
          /\ UNCHANGED <<opsVars, settings, network_write>>
    /\ UNCHANGED <<netVars, connection_attempt, owned, override, submitted, loop>>

\* The two undo calls ignore their own failures.
FeatureUndo(t) ==
    /\ At(t, "feature", "undo")
    /\ \/ ks' = KillSwitchFor(task[t].prev, task[t].live)
       \/ Fault("route") /\ ks' \in KillSwitchAfterFailure(task[t].prev, task[t].live)
    /\ Goto(t, "undo_bypass")
    /\ UNCHANGED <<opsVars, tunnels, bypass, policy, rtVars, loop>>

FeatureUndoBypass(t) ==
    /\ At(t, "feature", "undo_bypass")
    /\ \/ bypass' = BypassFor(task[t].prev, task[t].live)
       \/ BypassRefused(task[t].prev) /\ UNCHANGED bypass
    /\ Return(t, "ErrOther")
    /\ UNCHANGED <<opsVars, tunnels, ks, policy, connection_attempt, owned, settings,
                   override, submitted, loop>>

-----------------------------------------------------------------------------
(* watch_local_agent *)

\* The Local Agent reports a hard-jailed session (or refuses a reconnection for
\* good).  The generation is not looked at before the rejection.
WatchJailed(w) ==
    /\ At(w, "watch", "listen")
    /\ Fault("jail")
    /\ connection_attempt' = connection_attempt + 1
    /\ Goto(w, "reject")
    /\ UNCHANGED <<opsVars, netVars, network_write, owned, settings,
                   override, submitted, loop>>

\* disconnect_after_local_agent_rejection reads the uuid before it has the lock.
WatchReject(w) ==
    /\ At(w, "watch", "reject")
    /\ task' = [task EXCEPT ![w] =
                    IF owned = 0 THEN Idle ELSE [@ EXCEPT !.pc = "lock", !.uuid = owned]]
    /\ UNCHANGED <<opsVars, netVars, rtVars, loop>>

WatchLock(w) ==
    /\ At(w, "watch", "lock")
    /\ network_write = NoTask
    /\ network_write' = w
    /\ StartTeardown(w, task[w].uuid, "quit", "Ok")
    /\ UNCHANGED <<opsVars, netVars, connection_attempt, owned, settings,
                   override, submitted, loop>>

\* The updates stop and the attempt is over, or no tunnel is connected.
WatchEnds(w) ==
    /\ At(w, "watch", "listen")
    /\ Stale(w) \/ Fault("observe") \/ \E o \in Seen : o.state # "Connected"
    /\ task' = [task EXCEPT ![w] = Idle]
    /\ UNCHANGED <<opsVars, netVars, rtVars, loop>>

-----------------------------------------------------------------------------
(* Two of the loops of spawn_maintenance.  Each reads, awaits, and acts on *)
(* what it read; neither takes network_write.                              *)

\* Every 5 s, while a bypass is believed to exist: is a tunnel of ours connected?
SplitRouteObserve ==
    /\ "split_route" \in Loops
    /\ loop.split_route = "idle" /\ bypass
    /\ \E o \in Seen : loop' = [loop EXCEPT !.split_route =
            IF o.owned /\ o.state = "Connected" THEN "active" ELSE "inactive"]
    /\ UNCHANGED <<opsVars, netVars, rtVars, task>>

SplitRouteReconcile ==
    /\ loop.split_route # "idle"
    /\ \/ bypass' = BypassFor(settings, loop.split_route = "active")
       \/ BypassRefused(settings) /\ UNCHANGED bypass
    /\ loop' = [loop EXCEPT !.split_route = "idle"]
    /\ UNCHANGED <<opsVars, tunnels, ks, policy, rtVars, task>>

\* Every 60 s: apply the override again (the global policy allows nothing here,
\* so without an override the daemon is not called).
PolicyRead ==
    /\ "policy" \in Loops
    /\ loop.policy = "idle" /\ override
    /\ loop' = [loop EXCEPT !.policy = "profile"]
    /\ UNCHANGED <<opsVars, netVars, rtVars, task>>

PolicyApply ==
    /\ loop.policy = "profile"
    /\ policy' = "profile" \/ (Fault("policy") /\ UNCHANGED policy)
    /\ loop' = [loop EXCEPT !.policy = "idle"]
    /\ UNCHANGED <<opsVars, tunnels, ks, bypass, rtVars, task>>

Maintenance == SplitRouteObserve \/ SplitRouteReconcile \/ PolicyRead \/ PolicyApply

-----------------------------------------------------------------------------
(* The world outside: NetworkManager brings a tunnel up or loses it, and   *)
(* another client starts and stops a VPN of its own.                       *)

TunnelUp ==
    /\ \E x \in tunnels :
        /\ x.owned /\ x.state = "Connecting"
        /\ tunnels' = (tunnels \ {x}) \cup {[x EXCEPT !.state = "Connected"]}
    /\ UNCHANGED <<opsVars, ks, bypass, policy, rtVars, task, loop>>

TunnelFails ==
    /\ Fault("drop")
    /\ \E x \in tunnels :
        /\ x.owned /\ x.state = "Connecting"
        /\ tunnels' = (tunnels \ {x}) \cup {[x EXCEPT !.state = "Error"]}
    /\ UNCHANGED <<opsVars, ks, bypass, policy, rtVars, task, loop>>

TunnelDrops ==
    /\ Fault("drop")
    /\ \E x \in tunnels : x.owned /\ tunnels' = tunnels \ {x}
    /\ UNCHANGED <<opsVars, ks, bypass, policy, rtVars, task, loop>>

Foreign == [uuid |-> 0, state |-> "Connected", owned |-> FALSE]

ForeignUp ==
    /\ Fault("foreign") /\ Foreign \notin tunnels
    /\ tunnels' = tunnels \cup {Foreign}
    /\ UNCHANGED <<opsVars, ks, bypass, policy, rtVars, task, loop>>

ForeignDown ==
    /\ Foreign \in tunnels
    /\ tunnels' = tunnels \ {Foreign}
    /\ UNCHANGED <<opsVars, ks, bypass, policy, rtVars, task, loop>>

-----------------------------------------------------------------------------

TakeLock(t) == ConnectLock(t) \/ CancelLock(t) \/ DisconnectLock(t) \/ WatchLock(t)

TeardownStep(t) == TdBypass(t) \/ TdPolicy(t) \/ TdDown(t) \/ TdKs(t)

ConnectStep(t) ==
    \/ ConnectStart(t) \/ ConnectPrepare(t) \/ ConnectSelect(t) \/ ConnectObserve(t)
    \/ ConnectVerify(t) \/ ConnectPolicy(t) \/ ConnectActivate(t) \/ ConnectBringup(t)
    \/ ConnectPoll(t) \/ ConnectAgent(t) \/ ConnectReady(t)

FeatureStep(t) ==
    \/ FeatureStart(t) \/ FeatureOff(t) \/ FeatureOffKs(t) \/ FeatureApply(t)
    \/ FeatureBypass(t) \/ FeaturePersist(t) \/ FeatureUndo(t) \/ FeatureUndoBypass(t)

\* A step of t that waits for nobody.
Step(t) ==
    \/ ConnectStep(t) \/ TeardownStep(t) \/ FeatureStep(t)
    \/ CancelStart(t) \/ CancelMark(t) \/ DisconnectStart(t)
    \/ WatchReject(t)
    \/ t \in Request /\ Reply(t)

World == TunnelUp \/ TunnelFails \/ TunnelDrops \/ ForeignUp \/ ForeignDown

Next ==
    \/ \E r \in Request, c \in Client, m \in Method : Submit(r, c, m)
    \/ \E t \in Task : Step(t) \/ TakeLock(t) \/ DeadlinePasses(t)
    \/ \E w \in Watcher : WatchJailed(w) \/ WatchEnds(w)
    \/ Maintenance
    \/ World

Spec == Init /\ [][Next]_vars

\* Every task is polled again once what it awaits is there; the tokio Mutex is
\* fair (FIFO), so a task waiting for it gets it if it is released again and
\* again; and timers fire.
Fairness ==
    \A t \in Task :
        WF_vars(Step(t)) /\ SF_vars(TakeLock(t)) /\ WF_vars(DeadlinePasses(t))

FairSpec == Spec /\ Fairness

-----------------------------------------------------------------------------
(* Properties *)

OwnTunnels == {x \in tunnels : x.owned}

Critical ==
    Teardown \cup {"select", "observe", "verify", "policy", "activate", "bringup",
                   "poll", "agent", "ready"}

\* Every variable has its type, and between its lock and its return a handler is
\* the one that holds network_write.
TypeOK ==
    /\ connection_attempt \in Uuid
    /\ network_write \in Task \cup {NoTask}
    /\ owned \in Uuid
    /\ settings \in 0 .. 2
    /\ override \in BOOLEAN
    /\ submitted \in 0 .. MaxRequests
    /\ task \in [Task -> TaskState]
    /\ loop \in [policy : {"idle", "profile"},
                split_route : {"idle", "active", "inactive"}]
    /\ tunnels \subseteq Tunnel
    /\ ks \in 0 .. 2
    /\ bypass \in BOOLEAN
    /\ policy \in {"global", "profile"}
    /\ \A t \in Task : task[t].pc \in Critical => network_write = t

\* The agent never has two tunnels of its own up, whatever attempts, replacements
\* and cancellations overlap (connection_cancel: "Never race two NetworkManager
\* mutations").
OneOwnedTunnel == Cardinality(OwnTunnels) <= 1

\* An accepted cancellation that no newer attempt has overtaken leaves no tunnel
\* behind, neither up nor about to come up (connection_cancel: "... or leave a
\* late activation behind"); the same for an accepted disconnection.
CancelLeavesNothingBehind ==
    \A r \in Request :
        /\ task[r].job \in {"cancel", "disconnect"} /\ task[r].pc = "reply"
        /\ task[r].result = "Ok" /\ ~Stale(r)
        => OwnTunnels = {}

\* Whenever nobody holds network_write, a tunnel of this agent is the one whose
\* uuid it remembers: the next disconnection or replacement will find it, and it
\* is never mistaken for the tunnel of another client.
OwnTunnelIsKnown ==
    network_write = NoTask => \A x \in OwnTunnels : x.uuid = owned

\* While a tunnel is being taken down no physical bypass of the kill switch exists
\* (disconnect_owned_inner: "Remove the only physical bypass before taking the
\* tunnel down").
BypassGoneBeforeTeardown ==
    \A t \in Task : task[t].pc \in {"td_policy", "td_down", "td_ks"} => ~bypass

Quiet == \A t \in Task : task[t].pc \in {"idle", "listen"}

\* When nothing is in progress the standard kill switch blocks only while the agent
\* owns a tunnel, and the advanced one is up exactly when the settings say so: no
\* failed attempt leaves the one behind, and no failure or teardown takes the other
\* away (network.rs: "1=standard (connected only)", "2=advanced/permanent").
KillSwitchSettles ==
    Quiet => /\ ks = 1 => owned # 0
             /\ settings = 2 <=> ks = 2

\* Every request is answered: no cancellation, timeout, failure or queue for the
\* mutex leaves a client waiting.
EveryRequestIsAnswered ==
    \A r \in Request : task[r].pc # "idle" ~> task[r].pc = "idle"
=============================================================================
