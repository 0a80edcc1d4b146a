-------------------------- MODULE ConnectionProofs --------------------------
(***************************************************************************)
(* The connection side of NativeRuntime for every number of clients,       *)
(* requests, watchers and attempts, every choice of methods and every kind *)
(* of external failure.                                                    *)
(*                                                                         *)
(* Every action is first reduced to its shape: which task moves to which   *)
(* await, what becomes of its fields, and what else changes.  The          *)
(* invariants are then proved from the shapes, one lemma per group of      *)
(* actions.  BaseInv (types, the mutex, one tunnel, generations) holds of  *)
(* every instance; Known, Settled, Guarded and Follows are relative to it  *)
(* and each carries one property, with the hypotheses on the instance that *)
(* the property needs.  The last part shows that the composition drives    *)
(* the operation coordinator only as its specification allows, so that the *)
(* coordinator's invariant holds here too.                                 *)
(***************************************************************************)
EXTENDS Connection, FiniteSetTheorems, TLAPS

-----------------------------------------------------------------------------
(* What a step does to the tasks. *)

Results == {"Ok", "ErrCancelled", "ErrOther", "ErrNotOwned"}
Returns == {"none", "replace", "cleanup", "answer", "quit"}

Tasks == task \in [Task -> TaskState]

\* Only the record of t changes, and it is v afterwards.
Becomes(t, v) ==
    /\ task' \in [Task -> TaskState]
    /\ task'[t] = v
    /\ \A u \in Task : u # t => task'[u] = task[u]

\* The same, by the fields that the invariants speak of.
Moves(t, job, pc, att, uuid, mode, ret, result) ==
    /\ task' \in [Task -> TaskState]
    /\ task'[t].job = job /\ task'[t].pc = pc /\ task'[t].att = att
    /\ task'[t].uuid = uuid /\ task'[t].mode = mode
    /\ task'[t].ret = ret /\ task'[t].result = result
    /\ \A u \in Task : u # t => task'[u] = task[u]

\* t goes to another await; it drops its guard and answers; it enters the teardown;
\* it is over; it takes a new generation.
Goes(t, pc) ==
    Moves(t, task[t].job, pc, task[t].att, task[t].uuid, task[t].mode,
          task[t].ret, task[t].result)

Answers(t, result) ==
    /\ Moves(t, task[t].job, "reply", task[t].att, task[t].uuid, task[t].mode,
             task[t].ret, result)
    /\ network_write' = IF network_write = t THEN NoTask ELSE network_write

Fails(t) == \E result \in {"ErrCancelled", "ErrOther"} : Answers(t, result)

Tears(t, uuid, ret, result) ==
    Moves(t, task[t].job, "td_bypass", task[t].att, uuid, task[t].mode, ret, result)

Ends(t) == Moves(t, "idle", "idle", 0, 0, 0, "none", "Ok")

Starts(t, pc) ==
    /\ connection_attempt' = connection_attempt + 1
    /\ Moves(t, task[t].job, pc, connection_attempt + 1, task[t].uuid, task[t].mode,
             task[t].ret, task[t].result)

Reads(t, pc, m) ==
    Moves(t, task[t].job, pc, task[t].att, task[t].uuid, m, task[t].ret, task[t].result)

\* Updating one entry of a function.
LEMMA Change ==
    ASSUME Tasks, NEW t \in Task, NEW v \in TaskState, task' = [task EXCEPT ![t] = v]
    PROVE  Becomes(t, v)
BY DEF Tasks, Becomes

\* The names of the awaits are of the type of pc.
LEMMA PcsTyped ==
    /\ \A pc \in {"idle", "queued", "prepare", "lock", "select", "observe", "verify", "policy",
          "activate", "bringup", "poll", "agent", "ready", "mark", "reply",
          "td_bypass", "td_policy", "td_down", "td_ks",
          "off", "off_ks", "apply", "bypass", "persist", "undo", "undo_bypass",
          "listen", "reject"} : pc \in Pcs
BY DEF Pcs

\* What the helpers of the model (Goto, Answer, Return, StartTeardown, ...) do to a task.
LEMMA GotoEffect ==
    ASSUME Tasks, NEW t \in Task, NEW pc \in Pcs, Goto(t, pc)
    PROVE  Goes(t, pc)
<1> DEFINE v == [task[t] EXCEPT !.pc = pc]
<1>1. task' = [task EXCEPT ![t] = v]
  BY DEF Goto, Tasks
<1>2. v \in TaskState
  BY DEF Tasks, TaskState
<1>3. Becomes(t, v)
  BY <1>1, <1>2, Change
<1> QED
  BY <1>3 DEF Becomes, Moves, Goes, Tears, Starts, Reads, Tasks, TaskState

LEMMA AnswerEffect ==
    ASSUME Tasks, NEW t \in Task, NEW result \in Results,
           task' = [task EXCEPT ![t].pc = "reply", ![t].result = result]
    PROVE  Moves(t, task[t].job, "reply", task[t].att, task[t].uuid, task[t].mode,
                 task[t].ret, result)
<1> DEFINE v == [task[t] EXCEPT !.pc = "reply", !.result = result]
<1>1. task' = [task EXCEPT ![t] = v]
  BY DEF Tasks
<1>2. v \in TaskState
  BY PcsTyped DEF Tasks, TaskState, Results
<1>3. Becomes(t, v)
  BY <1>1, <1>2, Change
<1> QED
  BY <1>3 DEF Becomes, Moves, Tasks, TaskState

LEMMA ReturnEffect ==
    ASSUME Tasks, NEW t \in Task, NEW result \in Results, Return(t, result)
    PROVE  Answers(t, result)
BY AnswerEffect DEF Return, Answers

LEMMA TeardownEffect ==
    ASSUME Tasks, NEW t \in Task, NEW uuid \in Uuid, NEW ret \in Returns, NEW result \in Results,
           StartTeardown(t, uuid, ret, result)
    PROVE  Tears(t, uuid, ret, result)
<1> DEFINE v == [task[t] EXCEPT !.pc = "td_bypass", !.uuid = uuid, !.ret = ret, !.result = result]
<1>1. task' = [task EXCEPT ![t] = v]
  BY DEF StartTeardown, Tasks
<1>2. v \in TaskState
  BY PcsTyped DEF Tasks, TaskState, Results, Returns
<1>3. Becomes(t, v)
  BY <1>1, <1>2, Change
<1> QED
  BY <1>3 DEF Becomes, Moves, Goes, Tears, Starts, Reads, Tasks, TaskState

LEMMA IdleTyped == Idle \in TaskState
BY DEF Idle, TaskState, Uuid, Jobs, Pcs

LEMMA IdleEffect ==
    ASSUME Tasks, NEW t \in Task, task' = [task EXCEPT ![t] = Idle]
    PROVE  Ends(t)
<1>2. Becomes(t, Idle)
  BY IdleTyped, Change
<1> QED
  BY <1>2 DEF Becomes, Moves, Ends, Idle

\* connection_connect, connection_cancel and connection_disconnect take a generation.
LEMMA StartEffect ==
    ASSUME Tasks, NEW t \in Task, NEW pc \in Pcs, connection_attempt \in Nat,
           connection_attempt' = connection_attempt + 1,
           task' = [task EXCEPT ![t].pc = pc, ![t].att = connection_attempt + 1]
    PROVE  Starts(t, pc)
<1> DEFINE v == [task[t] EXCEPT !.pc = pc, !.att = connection_attempt + 1]
<1>1. task' = [task EXCEPT ![t] = v]
  BY DEF Tasks
<1> connection_attempt + 1 \in Uuid
  BY DEF Uuid
<1>2. v \in TaskState
  BY DEF Tasks, TaskState
<1>3. Becomes(t, v)
  BY <1>1, <1>2, Change
<1> QED
  BY <1>3 DEF Becomes, Moves, Goes, Tears, Starts, Reads, Tasks, TaskState

\* A handler reads the kill switch mode from the settings.
LEMMA ModeEffect ==
    ASSUME Tasks, NEW t \in Task, NEW pc \in Pcs, NEW m \in 0 .. 2,
           task' = [task EXCEPT ![t].pc = pc, ![t].mode = m]
    PROVE  Reads(t, pc, m)
<1> DEFINE v == [task[t] EXCEPT !.pc = pc, !.mode = m]
<1>1. task' = [task EXCEPT ![t] = v]
  BY DEF Tasks
<1>2. v \in TaskState
  BY DEF Tasks, TaskState
<1>3. Becomes(t, v)
  BY <1>1, <1>2, Change
<1> QED
  BY <1>3 DEF Becomes, Moves, Goes, Tears, Starts, Reads, Tasks, TaskState

LEMMA SubmitEffect ==
    ASSUME Tasks, NEW t \in Task, task[t] = Idle, NEW m \in Method,
           task' = [task EXCEPT ![t].job = JobOf(m), ![t].pc = "queued"]
    PROVE  Moves(t, JobOf(m), "queued", 0, 0, 0, "none", "Ok")
<1> DEFINE v == [Idle EXCEPT !.job = JobOf(m), !.pc = "queued"]
<1>1. task' = [task EXCEPT ![t] = v]
  BY DEF Tasks
<1>2. JobOf(m) \in Jobs
  BY DEF JobOf, Jobs
<1>3. v \in TaskState
  BY <1>2, PcsTyped, IdleTyped DEF TaskState
<1>4. Becomes(t, v)
  BY <1>1, <1>3, Change
<1> QED
  BY <1>4 DEF Becomes, Moves, Idle

LEMMA LateEffect ==
    ASSUME Tasks, NEW t \in Task, task' = [task EXCEPT ![t].late = TRUE]
    PROVE  Goes(t, task[t].pc)
<1> DEFINE v == [task[t] EXCEPT !.late = TRUE]
<1>1. task' = [task EXCEPT ![t] = v]
  BY DEF Tasks
<1>2. v \in TaskState
  BY DEF Tasks, TaskState
<1>3. Becomes(t, v)
  BY <1>1, <1>2, Change
<1> QED
  BY <1>3 DEF Becomes, Moves, Goes, Tears, Starts, Reads, Tasks, TaskState

LEMMA FeatureStartEffect ==
    ASSUME Tasks, NEW t \in Task, NEW pc \in Pcs, NEW m \in 0 .. 2, NEW p \in 0 .. 2,
           NEW l \in BOOLEAN,
           task' = [task EXCEPT ![t].pc = pc, ![t].mode = m, ![t].prev = p, ![t].live = l]
    PROVE  Reads(t, pc, m)
<1> DEFINE v == [task[t] EXCEPT !.pc = pc, !.mode = m, !.prev = p, !.live = l]
<1>1. task' = [task EXCEPT ![t] = v]
  BY DEF Tasks
<1>2. v \in TaskState
  BY DEF Tasks, TaskState
<1>3. Becomes(t, v)
  BY <1>1, <1>2, Change
<1> QED
  BY <1>3 DEF Becomes, Moves, Goes, Tears, Starts, Reads, Tasks, TaskState

LEMMA WatchRejectEffect ==
    ASSUME Tasks, owned \in Uuid, NEW t \in Task, WatchReject(t)
    PROVE  \/ Ends(t)
           \/ Moves(t, "watch", "lock", task[t].att, owned, task[t].mode,
                    task[t].ret, task[t].result)
<1>1. CASE owned = 0
  <2>1. task' = [task EXCEPT ![t] = Idle]
    BY <1>1 DEF WatchReject
  <2> QED
    BY <2>1, IdleEffect
<1>2. CASE owned # 0
  <2>0. task[t].job = "watch"
    BY DEF WatchReject, At
  <2> DEFINE v == [task[t] EXCEPT !.pc = "lock", !.uuid = owned]
  <2>1. task' = [task EXCEPT ![t] = v]
    BY <1>2 DEF WatchReject, Tasks
  <2>2. v \in TaskState
    BY PcsTyped DEF Tasks, TaskState
  <2>3. Becomes(t, v)
    BY <2>1, <2>2, Change
  <2> QED
    <3>1. Moves(t, "watch", "lock", task[t].att, owned, task[t].mode, task[t].ret, task[t].result)
      BY <2>0, <2>3 DEF Becomes, Moves, Tasks, TaskState
    <3> QED
      BY <3>1
<1> QED
  BY <1>1, <1>2

\* The connect that succeeds leaves its watcher behind, when a slot is free.
Spawns(t, w) ==
    /\ task' \in [Task -> TaskState]
    /\ task'[t].job = task[t].job /\ task'[t].pc = "reply" /\ task'[t].att = task[t].att
    /\ task'[t].uuid = task[t].uuid /\ task'[t].mode = task[t].mode
    /\ task'[t].ret = task[t].ret /\ task'[t].result = "Ok"
    /\ task'[w].job = "watch" /\ task'[w].pc = "listen" /\ task'[w].att = task[t].att
    /\ \A u \in Task : u # t /\ u # w => task'[u] = task[u]

LEMMA SpawnEffect ==
    ASSUME Tasks, NEW t \in Task, NEW w \in Task, task[w] = Idle, task[t] # Idle,
           task' = [task EXCEPT ![t].pc = "reply", ![t].result = "Ok",
                        ![w] = [Idle EXCEPT !.job = "watch", !.pc = "listen",
                                            !.att = task[t].att]]
    PROVE  Spawns(t, w)
<1> DEFINE v == [task[t] EXCEPT !.pc = "reply", !.result = "Ok"]
           x == [Idle EXCEPT !.job = "watch", !.pc = "listen", !.att = task[t].att]
<1>1. v \in TaskState /\ x \in TaskState
  BY PcsTyped, IdleTyped DEF Tasks, TaskState, Jobs
<1>2. t # w
  OBVIOUS
<1>3. task' = [[task EXCEPT ![t] = v] EXCEPT ![w] = x]
  BY DEF Tasks
<1>4. /\ task' \in [Task -> TaskState] /\ task'[t] = v /\ task'[w] = x
      /\ \A u \in Task : u # t /\ u # w => task'[u] = task[u]
  <2> HIDE DEF v, x
  <2> QED BY <1>1, <1>2, <1>3 DEF Tasks
<1> QED
  BY <1>4 DEF Spawns, Tasks, TaskState, Idle

-----------------------------------------------------------------------------
(* Types *)

Types ==
    /\ connection_attempt \in Nat
    /\ network_write \in Task \cup {NoTask}
    /\ owned \in Nat
    /\ settings \in 0 .. 2
    /\ submitted \in 0 .. MaxRequests
    /\ Tasks
    /\ loop \in [policy : {"idle", "profile"},
                split_route : {"idle", "active", "inactive"}]
    /\ tunnels \subseteq Tunnel
    /\ ks \in 0 .. 2
    /\ policy \in {"global", "profile"}

Flags == override \in BOOLEAN /\ bypass \in BOOLEAN

LEMMA ConstantsTyped ==
    /\ Modes \subseteq 0 .. 2 /\ MaxRequests \in Nat
    /\ NoTask \notin Task
    /\ Request \subseteq Task /\ Watcher \subseteq Task
    /\ Request \cap Watcher = {}
BY ConnectionAssumption DEF Task

\* reconcile_kill_switch leaves a mode behind, or on a failure what was there.
LEMMA KillSwitchTyped ==
    ASSUME ks \in 0 .. 2, NEW m \in 0 .. 2, NEW live
    PROVE  /\ KillSwitchFor(m, live) \in 0 .. 2
           /\ KillSwitchAfterFailure(m, live) \subseteq 0 .. 2
BY DEF KillSwitchFor, KillSwitchAfterFailure

LEMMA BypassTyped == \A m, live : BypassFor(m, live) \in BOOLEAN
BY DEF BypassFor

LEMMA TaskFields ==
    ASSUME Tasks, NEW t \in Task
    PROVE  /\ task[t].job \in Jobs /\ task[t].pc \in Pcs /\ task[t].att \in Nat
           /\ task[t].uuid \in Nat /\ task[t].mode \in 0 .. 2 /\ task[t].prev \in 0 .. 2
           /\ task[t].ret \in Returns /\ task[t].result \in Results
           /\ task[t].live \in BOOLEAN
BY DEF Tasks, TaskState, Returns, Results, Uuid

-----------------------------------------------------------------------------
(* The steps, as the invariants see them. *)

Calm == UNCHANGED <<tunnels, ks, bypass, owned, settings, connection_attempt, loop>>

CleansUp(t) ==
    /\ UNCHANGED network_write
    /\ \E result \in {"ErrCancelled", "ErrOther"} : Tears(t, task[t].att, "cleanup", result)

\* The actions of connection_connect, in the order of its awaits.
LEMMA ConnectStartShape ==
    ASSUME Types, NEW t \in Task, ConnectStart(t)
    PROVE  /\ At(t, "connect", "queued") /\ Starts(t, "prepare")
           /\ UNCHANGED <<tunnels, ks, bypass, owned, settings, network_write, loop>>
BY TaskFields, PcsTyped, StartEffect
   DEF ConnectStart, Types, At, Calm, netVars

LEMMA ConnectPrepareShape ==
    ASSUME Types, NEW t \in Task, ConnectPrepare(t)
    PROVE  /\ At(t, "connect", "prepare") /\ Calm
           /\ Fails(t) \/ (Goes(t, "lock") /\ UNCHANGED network_write)
BY TaskFields, PcsTyped, GotoEffect, ReturnEffect
   DEF ConnectPrepare, Types, At, Calm, Fails, Results, netVars

LEMMA ConnectLockShape ==
    ASSUME Types, NEW t \in Task, ConnectLock(t)
    PROVE  /\ At(t, "connect", "lock") /\ Calm
           /\ \/ Fails(t)
              \/ network_write = NoTask /\ network_write' = t /\ Goes(t, "select")
BY TaskFields, PcsTyped, GotoEffect, ReturnEffect
   DEF ConnectLock, Types, At, Calm, Fails, Results, netVars

LEMMA ConnectSelectShape ==
    ASSUME Types, NEW t \in Task, ConnectSelect(t)
    PROVE  /\ At(t, "connect", "select") /\ Calm
           /\ Fails(t) \/ (Reads(t, "observe", settings) /\ UNCHANGED network_write)
BY TaskFields, PcsTyped, ConstantsTyped, ReturnEffect, ModeEffect
   DEF ConnectSelect, Types, At, Calm, Fails, Results, netVars

LEMMA ConnectObserveShape ==
    ASSUME Types, NEW t \in Task, ConnectObserve(t)
    PROVE  /\ At(t, "connect", "observe") /\ Calm
           /\ \/ Fails(t)
              \/ /\ ~Stale(t) /\ UNCHANGED network_write
                 /\ (tunnels = {} /\ Goes(t, "policy")) \/ Tears(t, owned, "replace", "Ok")
BY TaskFields, PcsTyped, GotoEffect, ReturnEffect, TeardownEffect
   DEF ConnectObserve, Types, At, Calm, Fails, Uuid, Returns, Results, netVars, Seen, Tunnel

LEMMA ConnectVerifyShape ==
    ASSUME Types, NEW t \in Task, ConnectVerify(t)
    PROVE  /\ At(t, "connect", "verify") /\ Calm
           /\ \/ Fails(t)
              \/ tunnels = {} /\ Goes(t, "policy") /\ UNCHANGED network_write
BY TaskFields, PcsTyped, GotoEffect, ReturnEffect
   DEF ConnectVerify, Types, At, Calm, Fails, Results, netVars

LEMMA ConnectPolicyShape ==
    ASSUME Types, NEW t \in Task, ConnectPolicy(t)
    PROVE  /\ At(t, "connect", "policy") /\ Calm
           /\ Fails(t) \/ (~Stale(t) /\ Goes(t, "activate") /\ UNCHANGED network_write)
BY TaskFields, PcsTyped, GotoEffect, ReturnEffect
   DEF ConnectPolicy, Types, At, Calm, Fails, Results

LEMMA ConnectActivateShape ==
    ASSUME Types, NEW t \in Task, ConnectActivate(t)
    PROVE  /\ At(t, "connect", "activate")
           /\ UNCHANGED <<tunnels, bypass, owned, settings, connection_attempt, loop>>
           /\ \/ /\ ks' = KillSwitchFor(task[t].mode, TRUE)
                 /\ Goes(t, "bringup") /\ UNCHANGED network_write
              \/ Fault("route") /\ Fails(t)
BY TaskFields, PcsTyped, GotoEffect, ReturnEffect
   DEF ConnectActivate, Types, At, Fails, Results, RestorePolicyAndReturn

LEMMA ConnectBringupShape ==
    ASSUME Types, NEW t \in Task, ConnectBringup(t)
    PROVE  /\ At(t, "connect", "bringup")
           /\ UNCHANGED <<bypass, settings, connection_attempt, loop>>
           /\ \/ /\ tunnels' = tunnels \cup {[uuid |-> task[t].att, state |-> "Connecting",
                                              owned |-> TRUE]}
                 /\ owned' = task[t].att
                 /\ Goes(t, "poll") /\ UNCHANGED <<ks, network_write>>
              \/ /\ ks' = KillSwitchFor(task[t].mode, FALSE) \/ Fault("route")
                 /\ Fails(t) /\ UNCHANGED <<tunnels, owned>>
BY TaskFields, PcsTyped, GotoEffect, ReturnEffect
   DEF ConnectBringup, Types, At, Fails, Results, RestorePolicyAndReturn

LEMMA ConnectPollShape ==
    ASSUME Types, NEW t \in Task, ConnectPoll(t)
    PROVE  /\ At(t, "connect", "poll")
           /\ UNCHANGED <<tunnels, ks, owned, settings, connection_attempt, loop>>
           /\ \/ (Fails(t) \/ CleansUp(t)) /\ UNCHANGED bypass
              \/ Goes(t, "agent") /\ UNCHANGED network_write
BY TaskFields, PcsTyped, GotoEffect, ReturnEffect, TeardownEffect
   DEF ConnectPoll, Types, At, Fails, CleansUp, Cleanup, Uuid, Returns, Results

LEMMA ConnectAgentShape ==
    ASSUME Types, NEW t \in Task, ConnectAgent(t)
    PROVE  /\ At(t, "connect", "agent") /\ Calm /\ UNCHANGED network_write
           /\ Goes(t, "ready") \/ Goes(t, "poll") \/ CleansUp(t)
BY TaskFields, PcsTyped, GotoEffect, TeardownEffect
   DEF ConnectAgent, Types, At, Calm, CleansUp, Cleanup, Uuid, Returns, Results, netVars, rtVars

LEMMA ConnectReadyShape ==
    ASSUME Types, NEW t \in Task, ConnectReady(t)
    PROVE  /\ At(t, "connect", "ready") /\ Calm
           /\ \/ /\ network_write' = NoTask
                 /\ \/ \E w \in Watcher : task[w] = Idle /\ Spawns(t, w)
                    \/ Moves(t, "connect", "reply", task[t].att, task[t].uuid, task[t].mode,
                             task[t].ret, "Ok")
              \/ CleansUp(t)
<1>1. At(t, "connect", "ready") /\ Calm
  BY DEF ConnectReady, At, Calm, netVars
<1>2. task[t] # Idle
  BY <1>1 DEF At, Idle
<1>3. ASSUME NEW w \in Watcher, task[w] = Idle,
             task' = [task EXCEPT ![t].pc = "reply", ![t].result = "Ok",
                          ![w] = [Idle EXCEPT !.job = "watch", !.pc = "listen",
                                              !.att = task[t].att]]
      PROVE  Spawns(t, w)
  BY <1>2, <1>3, ConstantsTyped, SpawnEffect DEF Types
<1>4. ASSUME task' = [task EXCEPT ![t].pc = "reply", ![t].result = "Ok"]
      PROVE  Moves(t, "connect", "reply", task[t].att, task[t].uuid, task[t].mode,
                   task[t].ret, "Ok")
  BY <1>1, <1>4, AnswerEffect DEF Types, Results, At
<1>5. \A result \in {"ErrCancelled", "ErrOther"} :
          Cleanup(t, result) => Tears(t, task[t].att, "cleanup", result)
  BY TaskFields, TeardownEffect DEF Types, Cleanup, Uuid, Returns, Results
<1> QED
  BY <1>1, <1>3, <1>4, <1>5 DEF ConnectReady, CleansUp

LEMMA DeadlinePassesShape ==
    ASSUME Types, NEW t \in Task, DeadlinePasses(t)
    PROVE  Calm /\ UNCHANGED network_write /\ Goes(t, task[t].pc)
BY TaskFields, PcsTyped, LateEffect
   DEF DeadlinePasses, Types, Calm, netVars, rtVars

\* How the callers of disconnect_owned_inner go on after Ok, and after Err.
Completes(t) ==
    \/ task[t].ret = "replace" /\ Goes(t, "verify") /\ UNCHANGED network_write
    \/ task[t].ret \in {"cleanup", "answer"} /\ Answers(t, task[t].result)
    \/ task[t].ret = "quit" /\ Ends(t) /\ network_write' = NoTask

Aborts(t) ==
    \/ task[t].ret \in {"replace", "answer"} /\ Answers(t, "ErrOther")
    \/ task[t].ret \in {"cleanup", "quit"} /\ Completes(t)

LEMMA TdDoneEffect ==
    ASSUME Types, NEW t \in Task, TdDone(t)
    PROVE  Completes(t)
BY TaskFields, PcsTyped, GotoEffect, ReturnEffect, IdleEffect DEF Types, TdDone, Completes

LEMMA TdFailEffect ==
    ASSUME Types, NEW t \in Task, TdFail(t)
    PROVE  Aborts(t)
BY TdDoneEffect, ReturnEffect DEF Types, TdFail, Aborts, Results

\* The actions of disconnect_owned_inner.
LEMMA TdBypassShape ==
    ASSUME Types, NEW t \in Task, TdBypass(t)
    PROVE  /\ task[t].pc = "td_bypass"
           /\ UNCHANGED <<tunnels, ks, owned, settings, connection_attempt, loop>>
           /\ \/ ~bypass' /\ Reads(t, "td_policy", settings) /\ UNCHANGED network_write
              \/ UNCHANGED bypass /\ Aborts(t)
BY TaskFields, PcsTyped, ConstantsTyped, ModeEffect, TdFailEffect
   DEF TdBypass, Types

LEMMA TdPolicyShape ==
    ASSUME Types, NEW t \in Task, TdPolicy(t)
    PROVE  /\ task[t].pc = "td_policy" /\ Calm
           /\ Aborts(t) \/ (Goes(t, "td_down") /\ UNCHANGED network_write)
BY TaskFields, PcsTyped, GotoEffect, TdFailEffect
   DEF TdPolicy, Types, Calm

LEMMA TdDownShape ==
    ASSUME Types, NEW t \in Task, TdDown(t)
    PROVE  /\ task[t].pc = "td_down"
           /\ UNCHANGED <<ks, bypass, owned, settings, connection_attempt, loop>>
           /\ \/ /\ tunnels' = {x \in tunnels : x.uuid # task[t].uuid}
                 /\ Goes(t, "td_ks") /\ UNCHANGED network_write
              \/ UNCHANGED tunnels /\ Aborts(t)
BY TaskFields, PcsTyped, GotoEffect, TdFailEffect
   DEF TdDown, Types

LEMMA TdKsShape ==
    ASSUME Types, NEW t \in Task, TdKs(t)
    PROVE  /\ task[t].pc = "td_ks"
           /\ UNCHANGED <<tunnels, bypass, settings, connection_attempt, loop>>
           /\ \/ /\ ks' = KillSwitchFor(task[t].mode, FALSE) /\ owned' = 0
                 /\ Completes(t) \/ Aborts(t)
              \/ Fault("route") /\ UNCHANGED owned /\ Aborts(t)
BY TaskFields, PcsTyped, TdDoneEffect, TdFailEffect
   DEF TdKs, Types

\* The actions of connection_cancel and connection_disconnect.
LEMMA CancelStartShape ==
    ASSUME Types, NEW t \in Task, CancelStart(t)
    PROVE  /\ At(t, "cancel", "queued") /\ Starts(t, "mark")
           /\ UNCHANGED <<tunnels, ks, bypass, owned, settings, network_write, loop>>
BY TaskFields, PcsTyped, StartEffect
   DEF CancelStart, Types, At, netVars

LEMMA CancelMarkShape ==
    ASSUME Types, NEW t \in Task, CancelMark(t)
    PROVE  /\ At(t, "cancel", "mark") /\ Calm
           /\ Goes(t, "lock") /\ UNCHANGED network_write
BY TaskFields, PcsTyped, GotoEffect
   DEF CancelMark, Types, At, Calm, netVars, rtVars

LEMMA CancelLockShape ==
    ASSUME Types, NEW t \in Task, CancelLock(t)
    PROVE  /\ At(t, "cancel", "lock") /\ Calm /\ network_write = NoTask
           /\ \/ (Stale(t) \/ owned = 0) /\ Answers(t, "Ok")
              \/ network_write' = t /\ Tears(t, owned, "answer", "Ok")
BY TaskFields, PcsTyped, ReturnEffect, TeardownEffect
   DEF CancelLock, Types, At, Calm, Uuid, Returns, Results, netVars

LEMMA DisconnectStartShape ==
    ASSUME Types, NEW t \in Task, DisconnectStart(t)
    PROVE  /\ At(t, "disconnect", "queued") /\ Starts(t, "lock")
           /\ UNCHANGED <<tunnels, ks, bypass, owned, settings, network_write, loop>>
BY TaskFields, PcsTyped, StartEffect
   DEF DisconnectStart, Types, At, netVars

LEMMA DisconnectLockShape ==
    ASSUME Types, NEW t \in Task, DisconnectLock(t)
    PROVE  /\ At(t, "disconnect", "lock") /\ Calm /\ network_write = NoTask
           /\ \/ Answers(t, "ErrNotOwned")
              \/ network_write' = t /\ Tears(t, owned, "answer", "Ok")
BY TaskFields, PcsTyped, ReturnEffect, TeardownEffect
   DEF DisconnectLock, Types, At, Calm, Uuid, Returns, Results, netVars

\* The actions of watch_local_agent and its rejection.
LEMMA WatchJailedShape ==
    ASSUME Types, NEW t \in Task, WatchJailed(t)
    PROVE  /\ At(t, "watch", "listen") /\ Fault("jail")
           /\ connection_attempt' = connection_attempt + 1 /\ Goes(t, "reject")
           /\ UNCHANGED <<tunnels, ks, bypass, owned, settings, network_write, loop>>
BY TaskFields, PcsTyped, GotoEffect
   DEF WatchJailed, Types, At, netVars

LEMMA WatchRejectShape ==
    ASSUME Types, NEW t \in Task, WatchReject(t)
    PROVE  /\ At(t, "watch", "reject") /\ Calm /\ UNCHANGED network_write
           /\ \/ Ends(t)
              \/ Moves(t, "watch", "lock", task[t].att, owned, task[t].mode, task[t].ret,
                       task[t].result)
BY TaskFields, PcsTyped, WatchRejectEffect
   DEF WatchReject, Types, At, Calm, Uuid, netVars, rtVars

LEMMA WatchLockShape ==
    ASSUME Types, NEW t \in Task, WatchLock(t)
    PROVE  /\ At(t, "watch", "lock") /\ Calm
           /\ network_write = NoTask /\ network_write' = t
           /\ Tears(t, task[t].uuid, "quit", "Ok")
BY TaskFields, PcsTyped, TeardownEffect
   DEF WatchLock, Types, At, Calm, Uuid, Returns, Results, netVars

LEMMA WatchEndsShape ==
    ASSUME Types, NEW t \in Task, WatchEnds(t)
    PROVE  /\ At(t, "watch", "listen") /\ Calm /\ UNCHANGED network_write /\ Ends(t)
BY TaskFields, PcsTyped, IdleEffect
   DEF WatchEnds, Types, At, Calm, netVars, rtVars

LEMMA ReplyShape ==
    ASSUME Types, NEW t \in Task, Reply(t)
    PROVE  /\ task[t].pc = "reply" /\ Calm /\ UNCHANGED network_write /\ Ends(t)
BY TaskFields, PcsTyped, IdleEffect
   DEF Reply, Types, Calm, netVars, rtVars

FeaturePcs == {"off", "off_ks", "apply", "bypass", "persist", "undo", "undo_bypass"}

\* The actions of feature_set: none has a guard of network_write, so they share one shape.
LEMMA FeatureShape ==
    ASSUME Types, NEW t \in Task, FeatureStep(t)
    PROVE  /\ task[t].job = "feature" /\ task[t].pc \in FeaturePcs \cup {"queued"}
           /\ UNCHANGED <<tunnels, owned, connection_attempt, loop>>
           /\ \/ /\ \E pc \in FeaturePcs, m \in 0 .. 2 : Reads(t, pc, m)
                 /\ UNCHANGED network_write
              \/ \E result \in Results : Answers(t, result)
<1> DEFINE Goal == \/ /\ \E pc \in FeaturePcs, m \in 0 .. 2 : Reads(t, pc, m)
                      /\ UNCHANGED network_write
                   \/ \E result \in Results : Answers(t, result)
<1>1. /\ task[t].job = "feature" /\ task[t].pc \in FeaturePcs \cup {"queued"}
      /\ UNCHANGED <<tunnels, owned, connection_attempt, loop>>
  BY DEF FeatureStep, FeatureStart, FeatureOff, FeatureOffKs, FeatureApply, FeatureBypass,
         FeaturePersist, FeatureUndo, FeatureUndoBypass, FeaturePcs, At, netVars, rtVars
<1>2. ASSUME NEW pc \in FeaturePcs, Goto(t, pc), UNCHANGED network_write
      PROVE  Goal
  BY <1>2, TaskFields, GotoEffect DEF Types, Goes, Reads, FeaturePcs, Pcs
<1>3. \A result \in Results : Return(t, result) => Goal
  BY ReturnEffect DEF Types
<1>4. ASSUME FeatureStart(t) PROVE Goal
  <2>1. ASSUME NEW o \in Seen, NEW mode \in Modes,
               task' = [task EXCEPT
                        ![t].pc = IF mode = 0 /\ settings # 0 THEN "off" ELSE "apply",
                        ![t].mode = mode, ![t].prev = settings,
                        ![t].live = (o.state = "Connected")],
               UNCHANGED network_write
        PROVE  Goal
    <3> DEFINE pc == IF mode = 0 /\ settings # 0 THEN "off" ELSE "apply"
               l  == o.state = "Connected"
    <3>1. pc \in FeaturePcs /\ pc \in Pcs /\ mode \in 0 .. 2 /\ settings \in 0 .. 2
      BY ConstantsTyped DEF Types, FeaturePcs, Pcs
    <3>2. l \in BOOLEAN
      OBVIOUS
    <3>3. task' = [task EXCEPT ![t].pc = pc, ![t].mode = mode, ![t].prev = settings, ![t].live = l]
      BY <2>1
    <3> HIDE DEF pc, l
    <3>4. Reads(t, pc, mode)
      BY <3>1, <3>2, <3>3, FeatureStartEffect DEF Types
    <3> QED
      BY <2>1, <3>1, <3>4
  <2> HIDE DEF Goal
  <2> QED
    BY <1>3, <1>4, <2>1 DEF FeatureStart, Results
<1>5. ASSUME FeatureOff(t) \/ FeatureOffKs(t) \/ FeaturePersist(t) PROVE Goal
  <2> HIDE DEF Goal
  <2> QED
    BY <1>2, <1>3, <1>5 DEF FeatureOff, FeatureOffKs, FeaturePersist, Results, FeaturePcs
<1>6. ASSUME FeatureApply(t) \/ FeatureBypass(t) \/ FeatureUndo(t) PROVE Goal
  <2> HIDE DEF Goal
  <2> QED
    BY <1>2, <1>6 DEF FeatureApply, FeatureBypass, FeatureUndo, FeaturePcs, rtVars
<1>7. ASSUME FeatureUndoBypass(t) PROVE Goal
  <2> HIDE DEF Goal
  <2> QED
    BY <1>3, <1>7 DEF FeatureUndoBypass, Results
<1> QED
  BY <1>1, <1>4, <1>5, <1>6, <1>7 DEF FeatureStep

\* A request arrives: its slot becomes a task that has not started.
LEMMA SubmitShape ==
    ASSUME Types, NEW t \in Request, NEW c \in Client, NEW m \in Method, Submit(t, c, m)
    PROVE  /\ task[t] = Idle /\ Calm /\ UNCHANGED network_write
           /\ submitted' \in 0 .. MaxRequests
           /\ Moves(t, JobOf(m), "queued", 0, 0, 0, "none", "Ok")
<1>1. Moves(t, JobOf(m), "queued", 0, 0, 0, "none", "Ok")
  BY ConstantsTyped, SubmitEffect DEF Submit, Types
<1>2. submitted' \in 0 .. MaxRequests
  BY ConstantsTyped DEF Submit, Types
<1> QED
  BY <1>1, <1>2 DEF Submit, Calm, netVars

-----------------------------------------------------------------------------
(* network_write *)

\* Whoever is between taking the guard of network_write and dropping it holds the mutex:
\* two tasks are never both there.
Locked == \A t \in Task : task[t].pc \in Critical => network_write = t

\* Which awaits are inside a critical section and which are not.
LEMMA CriticalPcs ==
    /\ Teardown \subseteq Critical
    /\ {"select", "observe", "verify", "policy", "activate", "bringup", "poll", "agent", "ready",
        "td_bypass", "td_policy", "td_down", "td_ks"} \subseteq Critical
    /\ \A pc \in FeaturePcs \cup {"idle", "queued", "prepare", "lock", "mark", "reply", "listen",
                                  "reject"} : pc \notin Critical
BY DEF Critical, Teardown, FeaturePcs

\* A task that moves without touching the lock, that takes it when it is free, or that
\* drops it, leaves everyone else outside.
LEMMA LockedKept ==
    ASSUME Types, Locked, NEW t \in Task,
           NEW job, NEW pc, NEW att, NEW uuid, NEW mode, NEW ret, NEW result,
           Moves(t, job, pc, att, uuid, mode, ret, result),
           pc \in Critical => network_write' = t,
           network_write' = network_write \/ network_write \in {t, NoTask}
    PROVE  Locked'
BY ConstantsTyped DEF Locked, Moves

LEMMA AnswersLocked ==
    ASSUME Types, Locked, NEW t \in Task, NEW result, Answers(t, result)
    PROVE  Locked'
BY CriticalPcs, LockedKept DEF Answers

LEMMA ConnectLocked ==
    ASSUME Types, Locked, NEW t \in Task, ConnectStep(t) \/ ConnectLock(t)
    PROVE  Locked'
<1>1. CASE ConnectStart(t)
  BY <1>1, ConnectStartShape, LockedKept, CriticalPcs DEF Starts
<1>2. CASE ConnectPrepare(t)
  BY <1>2, ConnectPrepareShape, LockedKept, AnswersLocked, CriticalPcs DEF Fails, Goes
<1>3. CASE ConnectLock(t)
  BY <1>3, ConnectLockShape, LockedKept, AnswersLocked DEF Fails, Goes
<1>4. CASE ConnectSelect(t)
  BY <1>4, ConnectSelectShape, LockedKept, AnswersLocked, CriticalPcs DEF Fails, Reads, Locked, At
<1>5. CASE ConnectObserve(t)
  BY <1>5, ConnectObserveShape, LockedKept, AnswersLocked, CriticalPcs
     DEF Fails, Goes, Tears, Locked, At
<1>6. CASE ConnectVerify(t)
  BY <1>6, ConnectVerifyShape, LockedKept, AnswersLocked, CriticalPcs DEF Fails, Goes, Locked, At
<1>7. CASE ConnectPolicy(t)
  BY <1>7, ConnectPolicyShape, LockedKept, AnswersLocked, CriticalPcs DEF Fails, Goes, Locked, At
<1>8. CASE ConnectActivate(t)
  BY <1>8, ConnectActivateShape, LockedKept, AnswersLocked, CriticalPcs
     DEF Fails, Goes, Locked, At
<1>9. CASE ConnectBringup(t)
  BY <1>9, ConnectBringupShape, LockedKept, AnswersLocked, CriticalPcs
     DEF Fails, Goes, Locked, At
<1>10. CASE ConnectPoll(t)
  BY <1>10, ConnectPollShape, LockedKept, AnswersLocked, CriticalPcs
     DEF Fails, Goes, CleansUp, Tears, Locked, At
<1>11. CASE ConnectAgent(t)
  BY <1>11, ConnectAgentShape, LockedKept, CriticalPcs
     DEF Goes, CleansUp, Tears, Locked, At
<1>12. CASE ConnectReady(t)
  BY <1>12, ConnectReadyShape, LockedKept, CriticalPcs, ConstantsTyped
     DEF Spawns, CleansUp, Tears, Locked, At
<1> QED
  BY <1>1, <1>2, <1>3, <1>4, <1>5, <1>6, <1>7, <1>8, <1>9, <1>10, <1>11, <1>12 DEF ConnectStep

LEMMA CompletesLocked ==
    ASSUME Types, Locked, NEW t \in Task, task[t].pc \in Teardown, Completes(t) \/ Aborts(t)
    PROVE  Locked'
BY LockedKept, AnswersLocked, CriticalPcs DEF Completes, Aborts, Goes, Ends, Locked

LEMMA TeardownLocked ==
    ASSUME Types, Locked, NEW t \in Task, TeardownStep(t)
    PROVE  Locked'
<1> USE CompletesLocked, LockedKept, CriticalPcs DEF Goes, Reads, Locked, Teardown
<1>1. CASE TdBypass(t)
  BY <1>1, TdBypassShape
<1>2. CASE TdPolicy(t)
  BY <1>2, TdPolicyShape
<1>3. CASE TdDown(t)
  BY <1>3, TdDownShape
<1>4. CASE TdKs(t)
  BY <1>4, TdKsShape
<1> QED
  BY <1>1, <1>2, <1>3, <1>4 DEF TeardownStep

LEMMA OthersLocked ==
    ASSUME Types, Locked, NEW t \in Task,
           \/ CancelStart(t) \/ CancelMark(t) \/ CancelLock(t)
           \/ DisconnectStart(t) \/ DisconnectLock(t)
           \/ WatchJailed(t) \/ WatchReject(t) \/ WatchLock(t) \/ WatchEnds(t)
           \/ FeatureStep(t) \/ DeadlinePasses(t) \/ Reply(t)
    PROVE  Locked'
<1> USE LockedKept, CriticalPcs DEF Goes, Reads, Tears, Ends, Starts
<1>1. CASE CancelStart(t)
  BY <1>1, CancelStartShape
<1>2. CASE CancelMark(t)
  BY <1>2, CancelMarkShape
<1>3. CASE CancelLock(t)
  BY <1>3, CancelLockShape, AnswersLocked
<1>4. CASE DisconnectStart(t)
  BY <1>4, DisconnectStartShape
<1>5. CASE DisconnectLock(t)
  BY <1>5, DisconnectLockShape, AnswersLocked
<1>6. CASE WatchJailed(t)
  BY <1>6, WatchJailedShape
<1>7. CASE WatchReject(t)
  BY <1>7, WatchRejectShape
<1>8. CASE WatchLock(t)
  BY <1>8, WatchLockShape
<1>9. CASE WatchEnds(t)
  BY <1>9, WatchEndsShape
<1>10. CASE FeatureStep(t)
  BY <1>10, FeatureShape, AnswersLocked
<1>11. CASE DeadlinePasses(t)
  BY <1>11, DeadlinePassesShape DEF Locked
<1>12. CASE Reply(t)
  BY <1>12, ReplyShape
<1> QED
  BY <1>1, <1>2, <1>3, <1>4, <1>5, <1>6, <1>7, <1>8, <1>9, <1>10, <1>11, <1>12

\* Every step keeps the mutex with whoever is in a critical section.
LEMMA NextLocked ==
    ASSUME Types, Locked, [Next]_vars
    PROVE  Locked'
<1>1. CASE UNCHANGED vars
  BY <1>1 DEF vars, rtVars, Locked
<1>2. ASSUME NEW r \in Request, NEW c \in Client, NEW m \in Method, Submit(r, c, m)
      PROVE  Locked'
  BY <1>2, SubmitShape, LockedKept, CriticalPcs, ConstantsTyped
<1>3. ASSUME NEW t \in Task, Step(t) \/ TakeLock(t) \/ DeadlinePasses(t)
      PROVE  Locked'
  BY <1>3, ConnectLocked, TeardownLocked, OthersLocked DEF Step, TakeLock
<1>4. ASSUME NEW w \in Watcher, WatchJailed(w) \/ WatchEnds(w)
      PROVE  Locked'
  BY <1>4, OthersLocked, ConstantsTyped
<1>5. CASE Maintenance \/ World
  BY <1>5 DEF Maintenance, SplitRouteObserve, SplitRouteReconcile, PolicyRead, PolicyApply, World,
              TunnelUp, TunnelFails, TunnelDrops, ForeignUp, ForeignDown, rtVars, Locked
<1> QED
  BY <1>1, <1>2, <1>3, <1>4, <1>5 DEF Next

-----------------------------------------------------------------------------
(* Types *)

\* Every step leaves records of tasks, and a task or nobody holding the lock.
LEMMA TasksTyped ==
    ASSUME Types, [Next]_vars
    PROVE  Tasks' /\ (network_write \in Task \cup {NoTask})'
<1> DEFINE Goal == Tasks' /\ (network_write \in Task \cup {NoTask})'
<1>1. ASSUME NEW t \in Task, NEW job, NEW pc, NEW att, NEW uuid, NEW mode, NEW ret, NEW result,
             Moves(t, job, pc, att, uuid, mode, ret, result),
             network_write' \in {network_write, t, NoTask}
      PROVE  Goal
  BY <1>1 DEF Moves, Tasks, Types
<1>2. ASSUME NEW t \in Task, NEW result, Answers(t, result) PROVE Goal
  BY <1>1, <1>2 DEF Answers
<1>3. ASSUME NEW t \in Task, ConnectStep(t) \/ ConnectLock(t) PROVE Goal
  <2> HIDE DEF Goal
  <2>1. CASE ConnectReady(t)
    BY <1>1, <2>1, ConnectReadyShape DEF Spawns, CleansUp, Tears, Goal, Tasks
  <2>2. CASE ConnectStart(t) \/ ConnectPrepare(t) \/ ConnectLock(t) \/ ConnectSelect(t)
    BY <1>1, <1>2, <2>2, ConnectStartShape, ConnectPrepareShape, ConnectLockShape,
       ConnectSelectShape DEF Starts, Fails, Goes, Reads
  <2>3. CASE ConnectObserve(t) \/ ConnectVerify(t) \/ ConnectPolicy(t)
    BY <1>1, <1>2, <2>3, ConnectObserveShape, ConnectVerifyShape, ConnectPolicyShape
       DEF Fails, Goes, Tears
  <2>4. CASE ConnectActivate(t) \/ ConnectBringup(t)
    BY <1>1, <1>2, <2>4, ConnectActivateShape, ConnectBringupShape DEF Fails, Goes
  <2>5. CASE ConnectPoll(t) \/ ConnectAgent(t)
    BY <1>1, <1>2, <2>5, ConnectPollShape, ConnectAgentShape DEF Fails, Goes, Tears, CleansUp
  <2> QED
    BY <1>3, <2>1, <2>2, <2>3, <2>4, <2>5 DEF ConnectStep
<1>4. ASSUME NEW t \in Task, TeardownStep(t) PROVE Goal
  <2> HIDE DEF Goal
  <2>1. ASSUME Completes(t) \/ Aborts(t) PROVE Goal
    BY <1>1, <1>2, <2>1 DEF Completes, Aborts, Goes, Ends
  <2> QED
    BY <1>1, <1>4, <2>1, TdBypassShape, TdPolicyShape, TdDownShape, TdKsShape
       DEF TeardownStep, Goes, Reads
<1>5. ASSUME NEW t \in Task,
             \/ CancelStart(t) \/ CancelMark(t) \/ CancelLock(t)
             \/ DisconnectStart(t) \/ DisconnectLock(t)
             \/ WatchJailed(t) \/ WatchReject(t) \/ WatchLock(t) \/ WatchEnds(t)
             \/ FeatureStep(t) \/ DeadlinePasses(t) \/ Reply(t)
      PROVE  Goal
  <2> HIDE DEF Goal
  <2> QED
    BY <1>1, <1>2, <1>5, CancelStartShape, CancelMarkShape, CancelLockShape, DisconnectStartShape,
       DisconnectLockShape, WatchJailedShape, WatchRejectShape, WatchLockShape, WatchEndsShape,
       FeatureShape, DeadlinePassesShape, ReplyShape
       DEF Goes, Reads, Tears, Ends, Starts
<1>6. ASSUME NEW r \in Request, NEW c \in Client, NEW m \in Method, Submit(r, c, m)
      PROVE  Goal
  BY <1>1, <1>6, SubmitShape, ConstantsTyped
<1>7. ASSUME Maintenance \/ World \/ UNCHANGED vars
      PROVE  Goal
  BY <1>7 DEF Maintenance, SplitRouteObserve, SplitRouteReconcile, PolicyRead, PolicyApply, World,
              TunnelUp, TunnelFails, TunnelDrops, ForeignUp, ForeignDown, vars, rtVars, Types, Tasks
<1> HIDE DEF Goal
<1>8. ASSUME NEW t \in Task, Step(t) \/ TakeLock(t) \/ DeadlinePasses(t)
      PROVE  Goal
  BY <1>3, <1>4, <1>5, <1>8 DEF Step, TakeLock
<1>9. ASSUME NEW w \in Watcher, WatchJailed(w) \/ WatchEnds(w)
      PROVE  Goal
  BY <1>5, <1>9, ConstantsTyped
<1>10. Goal
  BY <1>6, <1>7, <1>8, <1>9 DEF Next
<1> QED
  BY <1>10 DEF Goal

LEMMA RestTypedTask ==
    ASSUME Types, NEW t \in Task, Step(t) \/ TakeLock(t) \/ DeadlinePasses(t)
    PROVE  /\ connection_attempt' \in Nat /\ owned' \in Nat /\ settings' \in 0 .. 2
           /\ submitted' \in 0 .. MaxRequests /\ loop' = loop
           /\ tunnels' \subseteq Tunnel /\ ks' \in 0 .. 2 /\ policy' \in {"global", "profile"}
<1> USE TaskFields, KillSwitchTyped DEF Types
<1>0. /\ KillSwitchFor(task[t].mode, FALSE) \in 0 .. 2
      /\ KillSwitchAfterFailure(task[t].mode, FALSE) \subseteq 0 .. 2
  OBVIOUS
<1>1. CASE ConnectStart(t)
  BY <1>1 DEF ConnectStart, netVars
<1>2. CASE ConnectPrepare(t)
  BY <1>2 DEF ConnectPrepare, netVars
<1>3. CASE ConnectLock(t)
  BY <1>3 DEF ConnectLock, netVars
<1>4. CASE ConnectSelect(t)
  BY <1>4 DEF ConnectSelect, netVars
<1>5. CASE ConnectObserve(t)
  BY <1>5 DEF ConnectObserve, netVars
<1>6. CASE ConnectVerify(t)
  BY <1>6 DEF ConnectVerify, netVars
<1>7. CASE ConnectPolicy(t)
  BY <1>7 DEF ConnectPolicy, netVars
<1>8. CASE ConnectActivate(t)
  BY <1>8 DEF ConnectActivate, RestorePolicyAndReturn
<1>9. CASE ConnectBringup(t)
  <2>0. [uuid |-> task[t].att, state |-> "Connecting", owned |-> TRUE] \in Tunnel
    BY DEF Tunnel, Uuid
  <2>1. tunnels' \subseteq Tunnel
    BY <1>9, <2>0 DEF ConnectBringup
  <2>2. ks' \in 0 .. 2
    BY <1>0, <1>9 DEF ConnectBringup
  <2> QED
    BY <1>9, <2>1, <2>2 DEF ConnectBringup, RestorePolicyAndReturn
<1>10. CASE ConnectPoll(t)
  BY <1>10 DEF ConnectPoll
<1>11. CASE ConnectAgent(t)
  BY <1>11 DEF ConnectAgent, netVars, rtVars
<1>12. CASE ConnectReady(t)
  BY <1>12 DEF ConnectReady, netVars
<1>13. CASE TdBypass(t)
  BY <1>13 DEF TdBypass
<1>14. CASE TdPolicy(t)
  BY <1>14 DEF TdPolicy
<1>15. CASE TdDown(t)
  BY <1>15 DEF TdDown
<1>16. CASE TdKs(t)
  <2>1. ks' \in 0 .. 2
    BY <1>0, <1>16 DEF TdKs
  <2>2. owned' = 0 \/ owned' = owned
    BY <1>16, Zenon DEF TdKs
  <2> QED
    BY <1>16, <2>1, <2>2 DEF TdKs
<1>17. CASE CancelStart(t) \/ CancelMark(t) \/ CancelLock(t)
  BY <1>17 DEF CancelStart, CancelMark, CancelLock, netVars, rtVars
<1>18. CASE DisconnectStart(t) \/ DisconnectLock(t)
  BY <1>18 DEF DisconnectStart, DisconnectLock, netVars, rtVars
<1>19. CASE FeatureStart(t) \/ FeatureOff(t) \/ FeatureOffKs(t)
  BY <1>19 DEF FeatureStart, FeatureOff, FeatureOffKs, netVars, rtVars
<1>20. CASE FeatureApply(t) \/ FeatureBypass(t)
  BY <1>20 DEF FeatureApply, FeatureBypass, netVars, rtVars
<1>21. CASE FeaturePersist(t)
  BY <1>21 DEF FeaturePersist, netVars, rtVars
<1>22. CASE FeatureUndo(t) \/ FeatureUndoBypass(t)
  BY <1>22 DEF FeatureUndo, FeatureUndoBypass, netVars, rtVars
<1>23. CASE WatchReject(t) \/ WatchLock(t) \/ DeadlinePasses(t) \/ Reply(t)
  BY <1>23 DEF WatchReject, WatchLock, DeadlinePasses, Reply, netVars, rtVars
<1> QED
  BY <1>1, <1>2, <1>3, <1>4, <1>5, <1>6, <1>7, <1>8, <1>9, <1>10, <1>11, <1>12, <1>13, <1>14,
     <1>15, <1>16, <1>17, <1>18, <1>19, <1>20, <1>21, <1>22, <1>23
     DEF Step, TakeLock, ConnectStep, TeardownStep, FeatureStep

LEMMA RestTyped ==
    ASSUME Types, [Next]_vars
    PROVE  /\ connection_attempt' \in Nat /\ owned' \in Nat /\ settings' \in 0 .. 2
           /\ submitted' \in 0 .. MaxRequests
           /\ (loop \in [policy : {"idle", "profile"},
                         split_route : {"idle", "active", "inactive"}])'
           /\ tunnels' \subseteq Tunnel /\ ks' \in 0 .. 2 /\ policy' \in {"global", "profile"}
<1>1. CASE UNCHANGED vars
  BY <1>1 DEF vars, rtVars, netVars, Types
<1>2. ASSUME NEW r \in Request, NEW c \in Client, NEW m \in Method, Submit(r, c, m)
      PROVE  submitted' \in 0 .. MaxRequests
  BY <1>2, SubmitShape
<1>3. CASE \E r \in Request, c \in Client, m \in Method : Submit(r, c, m)
  BY <1>2, <1>3 DEF Submit, netVars, Types
<1>4. CASE \E t \in Task : Step(t) \/ TakeLock(t) \/ DeadlinePasses(t)
  BY <1>4, RestTypedTask DEF Types
<1>5. CASE \E w \in Watcher : WatchJailed(w) \/ WatchEnds(w)
  BY <1>5 DEF WatchJailed, WatchEnds, rtVars, netVars, Types
<1>6. CASE Maintenance
  BY <1>6 DEF Maintenance, SplitRouteObserve, SplitRouteReconcile, PolicyRead, PolicyApply,
              rtVars, netVars, Types
<1>7. CASE World
  <2>1. tunnels' \subseteq Tunnel
    <3>1. CASE TunnelUp
      BY <3>1 DEF TunnelUp, Types, Tunnel
    <3>2. CASE TunnelFails
      BY <3>2 DEF TunnelFails, Types, Tunnel
    <3>3. CASE TunnelDrops
      BY <3>3 DEF TunnelDrops, Types
    <3>4. Foreign \in Tunnel
      BY DEF Foreign, Tunnel, Uuid
    <3> QED
      BY <1>7, <3>1, <3>2, <3>3, <3>4 DEF World, ForeignUp, ForeignDown, Types
  <2> QED
    BY <1>7, <2>1 DEF World, TunnelUp, TunnelFails, TunnelDrops, ForeignUp, ForeignDown,
                      rtVars, Types
<1> QED
  BY <1>1, <1>3, <1>4, <1>5, <1>6, <1>7 DEF Next

\* Every step keeps the types.
LEMMA NextTypes ==
    ASSUME Types, [Next]_vars
    PROVE  Types'
BY TasksTyped, RestTyped DEF Types

\* The override and the bypass are true or false.
LEMMA NextFlags ==
    ASSUME Flags, [Next]_vars
    PROVE  Flags'
<1> USE DEF Flags
<1>1. CASE UNCHANGED vars
  BY <1>1 DEF vars, rtVars, netVars
<1>2. CASE \E r \in Request, c \in Client, m \in Method : Submit(r, c, m)
  BY <1>2 DEF Submit, netVars
<1>3. ASSUME NEW t \in Task, ConnectStep(t) PROVE Flags'
  <2>1. CASE \/ ConnectStart(t) \/ ConnectPrepare(t) \/ ConnectSelect(t) \/ ConnectObserve(t)
             \/ ConnectVerify(t) \/ ConnectAgent(t) \/ ConnectReady(t)
    BY <2>1 DEF ConnectStart, ConnectPrepare, ConnectSelect, ConnectObserve, ConnectVerify,
                ConnectAgent, ConnectReady, netVars, rtVars
  <2>2. CASE ConnectPolicy(t)
    BY <2>2, Zenon DEF ConnectPolicy
  <2>3. CASE ConnectActivate(t) \/ ConnectBringup(t)
    BY <2>3, Zenon DEF ConnectActivate, ConnectBringup, RestorePolicyAndReturn
  <2>4. CASE ConnectPoll(t)
    BY <2>4, Zenon DEF ConnectPoll, BypassFor
  <2> QED
    BY <1>3, <2>1, <2>2, <2>3, <2>4 DEF ConnectStep
<1>4. ASSUME NEW t \in Task, TeardownStep(t) PROVE Flags'
  BY <1>4, Zenon DEF TeardownStep, TdBypass, TdPolicy, TdDown, TdKs
<1>5. ASSUME NEW t \in Task, FeatureStep(t) PROVE Flags'
  <2>1. CASE \/ FeatureStart(t) \/ FeatureOff(t) \/ FeatureOffKs(t) \/ FeatureApply(t)
             \/ FeaturePersist(t) \/ FeatureUndo(t)
    BY <2>1, Zenon DEF FeatureStart, FeatureOff, FeatureOffKs, FeatureApply, FeaturePersist,
                       FeatureUndo, netVars, rtVars
  <2>2. CASE FeatureBypass(t) \/ FeatureUndoBypass(t)
    BY <2>2, Zenon DEF FeatureBypass, FeatureUndoBypass, BypassFor, rtVars
  <2> QED
    BY <1>5, <2>1, <2>2 DEF FeatureStep
<1>6. ASSUME NEW t \in Task,
             \/ CancelStart(t) \/ CancelMark(t) \/ DisconnectStart(t) \/ WatchReject(t) \/ Reply(t)
             \/ TakeLock(t) \/ DeadlinePasses(t)
      PROVE  Flags'
  BY <1>6 DEF CancelStart, CancelMark, DisconnectStart, WatchReject, Reply, TakeLock, ConnectLock,
              CancelLock, DisconnectLock, WatchLock, DeadlinePasses, netVars, rtVars
<1>7. CASE \E w \in Watcher : WatchJailed(w) \/ WatchEnds(w)
  BY <1>7 DEF WatchJailed, WatchEnds, rtVars, netVars
<1>8. CASE Maintenance
  BY <1>8, Zenon DEF Maintenance, SplitRouteObserve, SplitRouteReconcile, PolicyRead, PolicyApply,
              BypassFor, rtVars, netVars
<1>9. CASE World
  BY <1>9 DEF World, TunnelUp, TunnelFails, TunnelDrops, ForeignUp, ForeignDown, rtVars
<1>10. ASSUME NEW t \in Task, Step(t) \/ TakeLock(t) \/ DeadlinePasses(t)
       PROVE  Flags'
  BY <1>3, <1>4, <1>5, <1>6, <1>10 DEF Step
<1> QED
  BY <1>1, <1>2, <1>7, <1>8, <1>9, <1>10 DEF Next

-----------------------------------------------------------------------------
(* One tunnel *)

\* Where connection_connect has torn the previous tunnel down and not yet brought its
\* own up.
Clear == {"policy", "activate", "bringup"}

OneOwned == \A x, y \in tunnels : x.owned /\ y.owned => x = y

\* There the agent has no tunnel at all, so that activating one makes it the only one.
Cleared == \A t \in Task : task[t].pc \in Clear => \A x \in tunnels : ~x.owned

LEMMA ClearPcs == Clear \subseteq Critical
BY DEF Clear, Critical

\* A step that leaves the tunnels alone, and takes nobody to where a tunnel is brought
\* up who was not there.
LEMMA ClearedKept ==
    ASSUME Types, OneOwned, Cleared, NEW t \in Task, UNCHANGED tunnels,
           NEW job, NEW pc, NEW att, NEW uuid, NEW mode, NEW ret, NEW result,
           Moves(t, job, pc, att, uuid, mode, ret, result),
           pc \in Clear => task[t].pc \in Clear \/ tunnels = {}
    PROVE  OneOwned' /\ Cleared'
BY DEF OneOwned, Cleared, Moves

LEMMA AnswersCleared ==
    ASSUME Types, OneOwned, Cleared, NEW t \in Task, UNCHANGED tunnels,
           NEW result, Answers(t, result)
    PROVE  OneOwned' /\ Cleared'
BY ClearedKept DEF Answers, Clear

LEMMA ConnectCleared ==
    ASSUME Types, Locked, OneOwned, Cleared, NEW t \in Task, ConnectStep(t) \/ ConnectLock(t)
    PROVE  OneOwned' /\ Cleared'
<1> USE ClearedKept, AnswersCleared DEF Clear, At, Calm
<1>1. CASE ConnectStart(t)
  BY <1>1, ConnectStartShape DEF Starts
<1>2. CASE ConnectPrepare(t)
  BY <1>2, ConnectPrepareShape DEF Fails, Goes
<1>3. CASE ConnectLock(t)
  BY <1>3, ConnectLockShape DEF Fails, Goes
<1>4. CASE ConnectSelect(t)
  BY <1>4, ConnectSelectShape DEF Fails, Reads
<1>5. CASE ConnectObserve(t)
  BY <1>5, ConnectObserveShape DEF Fails, Goes, Tears
<1>6. CASE ConnectVerify(t)
  BY <1>6, ConnectVerifyShape DEF Fails, Goes
<1>7. CASE ConnectPolicy(t)
  BY <1>7, ConnectPolicyShape DEF Fails, Goes
<1>8. CASE ConnectActivate(t)
  BY <1>8, ConnectActivateShape DEF Fails, Goes
<1>9. CASE ConnectBringup(t)
  <2>1. CASE UNCHANGED tunnels /\ Fails(t)
    BY <2>1 DEF Fails
  <2>2. CASE /\ tunnels' = tunnels \cup {[uuid |-> task[t].att, state |-> "Connecting",
                                          owned |-> TRUE]}
             /\ Goes(t, "poll")
    <3>1. \A x \in tunnels : ~x.owned
      BY <1>9, ConnectBringupShape DEF Cleared
    <3>2. OneOwned'
      BY <2>2, <3>1 DEF OneOwned
    <3>3. \A u \in Task : task[u].pc \in Clear => u = t
      BY <1>9, ConnectBringupShape, ClearPcs DEF Locked
    <3>4. \A u \in Task : task'[u].pc \notin Clear
      BY <2>2, <3>3 DEF Goes, Moves
    <3> QED
      BY <3>2, <3>4 DEF Cleared
  <2> QED
    BY <1>9, <2>1, <2>2, ConnectBringupShape
<1>10. CASE ConnectPoll(t)
  BY <1>10, ConnectPollShape DEF Fails, Goes, CleansUp, Tears
<1>11. CASE ConnectAgent(t)
  BY <1>11, ConnectAgentShape DEF Goes, CleansUp, Tears
<1>12. CASE ConnectReady(t)
  BY <1>12, ConnectReadyShape DEF Spawns, CleansUp, Tears, OneOwned, Cleared
<1> QED
  BY <1>1, <1>2, <1>3, <1>4, <1>5, <1>6, <1>7, <1>8, <1>9, <1>10, <1>11, <1>12 DEF ConnectStep

LEMMA TeardownCleared ==
    ASSUME Types, Locked, OneOwned, Cleared, NEW t \in Task, TeardownStep(t)
    PROVE  OneOwned' /\ Cleared'
<1> USE ClearedKept, AnswersCleared DEF Clear, Calm
<1>1. ASSUME UNCHANGED tunnels, Completes(t) \/ Aborts(t)
      PROVE  OneOwned' /\ Cleared'
  BY <1>1 DEF Completes, Aborts, Goes, Ends
<1>2. CASE TdBypass(t)
  BY <1>1, <1>2, TdBypassShape DEF Reads
<1>3. CASE TdPolicy(t)
  BY <1>1, <1>3, TdPolicyShape DEF Goes
<1>4. CASE TdDown(t)
  <2>1. CASE tunnels' \subseteq tunnels /\ Goes(t, "td_ks")
    BY <2>1 DEF OneOwned, Cleared, Goes, Moves
  <2> QED
    BY <1>1, <1>4, <2>1, TdDownShape
<1>5. CASE TdKs(t)
  BY <1>1, <1>5, TdKsShape
<1> QED
  BY <1>2, <1>3, <1>4, <1>5 DEF TeardownStep

LEMMA OthersCleared ==
    ASSUME Types, OneOwned, Cleared, NEW t \in Task,
           \/ CancelStart(t) \/ CancelMark(t) \/ CancelLock(t)
           \/ DisconnectStart(t) \/ DisconnectLock(t)
           \/ WatchJailed(t) \/ WatchReject(t) \/ WatchLock(t) \/ WatchEnds(t)
           \/ FeatureStep(t) \/ DeadlinePasses(t) \/ Reply(t)
    PROVE  OneOwned' /\ Cleared'
<1> USE ClearedKept, AnswersCleared DEF Calm, Goes, Reads, Tears, Ends, Starts, Clear
<1>1. CASE CancelStart(t) \/ CancelMark(t) \/ CancelLock(t)
  BY <1>1, CancelStartShape, CancelMarkShape, CancelLockShape
<1>2. CASE DisconnectStart(t) \/ DisconnectLock(t)
  BY <1>2, DisconnectStartShape, DisconnectLockShape
<1>3. CASE WatchJailed(t) \/ WatchReject(t)
  BY <1>3, WatchJailedShape, WatchRejectShape
<1>4. CASE WatchLock(t) \/ WatchEnds(t)
  BY <1>4, WatchLockShape, WatchEndsShape
<1>5. CASE FeatureStep(t)
  BY <1>5, FeatureShape DEF FeaturePcs
<1>6. CASE DeadlinePasses(t) \/ Reply(t)
  BY <1>6, DeadlinePassesShape, ReplyShape
<1> QED
  BY <1>1, <1>2, <1>3, <1>4, <1>5, <1>6

\* NetworkManager changes the state of a tunnel or loses it, and other clients have
\* theirs: no tunnel of this agent comes from there, and each keeps its uuid.
LEMMA WorldTunnels ==
    ASSUME Types, World
    PROVE  \A y \in tunnels' : y.owned =>
               \E x \in tunnels :
                   x.owned /\ x.uuid = y.uuid /\ \A z \in tunnels' : z.owned /\ z # y =>
                       \E v \in tunnels : v.owned /\ v # x /\ v.uuid = z.uuid
<1>1. CASE TunnelUp
  BY <1>1 DEF TunnelUp, Types, Tunnel
<1>2. CASE TunnelFails
  BY <1>2 DEF TunnelFails, Types, Tunnel
<1>3. CASE TunnelDrops
  BY <1>3 DEF TunnelDrops
<1>4. CASE ForeignUp \/ ForeignDown
  <2>1. ~Foreign.owned
    BY DEF Foreign
  <2> QED
    BY <1>4, <2>1 DEF ForeignUp, ForeignDown
<1> QED
  BY <1>1, <1>2, <1>3, <1>4 DEF World

\* Every step keeps the agent at one tunnel, and at none where it is about to activate one.
LEMMA NextCleared ==
    ASSUME Types, Locked, OneOwned, Cleared, [Next]_vars
    PROVE  OneOwned' /\ Cleared'
<1>1. CASE UNCHANGED vars
  BY <1>1 DEF vars, netVars, OneOwned, Cleared
<1>2. ASSUME NEW r \in Request, NEW c \in Client, NEW m \in Method, Submit(r, c, m)
      PROVE  OneOwned' /\ Cleared'
  BY <1>2, SubmitShape, ClearedKept, ConstantsTyped DEF Calm, Clear
<1>3. ASSUME NEW t \in Task, Step(t) \/ TakeLock(t) \/ DeadlinePasses(t)
      PROVE  OneOwned' /\ Cleared'
  BY <1>3, ConnectCleared, TeardownCleared, OthersCleared DEF Step, TakeLock
<1>4. ASSUME NEW w \in Watcher, WatchJailed(w) \/ WatchEnds(w)
      PROVE  OneOwned' /\ Cleared'
  BY <1>4, OthersCleared, ConstantsTyped
<1>5. CASE Maintenance
  BY <1>5 DEF Maintenance, SplitRouteObserve, SplitRouteReconcile, PolicyRead, PolicyApply,
              netVars, OneOwned, Cleared
<1>6. CASE World
  <2>1. task' = task
    BY <1>6 DEF World, TunnelUp, TunnelFails, TunnelDrops, ForeignUp, ForeignDown
  <2> QED
    BY <1>6, <2>1, WorldTunnels DEF OneOwned, Cleared
<1> QED
  BY <1>1, <1>2, <1>3, <1>4, <1>5, <1>6 DEF Next

-----------------------------------------------------------------------------
(* Generations *)

\* No task works for a generation that was not given out, two handlers never work for
\* the same one, and a connect that has started has one.
Numbered ==
    /\ \A t \in Task : task[t].att <= connection_attempt
    /\ \A t, u \in Task :
        t # u /\ task[t].job # "watch" /\ task[u].job # "watch" /\ task[t].att = task[u].att
        => task[t].att = 0
    /\ \A t \in Task : task[t].job = "connect" /\ task[t].pc # "queued" => task[t].att # 0

LEMMA NumberedKept ==
    ASSUME Types, Numbered, NEW t \in Task,
           connection_attempt' \in {connection_attempt, connection_attempt + 1},
           NEW job, NEW pc, NEW att, NEW uuid, NEW mode, NEW ret, NEW result,
           Moves(t, job, pc, att, uuid, mode, ret, result),
           \/ att = task[t].att /\ job = task[t].job /\ (job = "connect" => task[t].pc # "queued")
           \/ att = 0 /\ (job # "connect" \/ pc = "queued")
           \/ att = connection_attempt' /\ connection_attempt' = connection_attempt + 1
    PROVE  Numbered'
<1>1. /\ connection_attempt \in Nat /\ \A u \in Task : task[u].att \in Nat
  BY TaskFields DEF Types
<1>2. \A u \in Task : u # t => task'[u] = task[u]
  BY DEF Moves
<1>3. task'[t].att = att /\ task'[t].job = job /\ task'[t].pc = pc
  BY DEF Moves
<1> HIDE DEF Moves
<1>4. \A u \in Task : task'[u].att <= connection_attempt'
  BY <1>1, <1>2, <1>3 DEF Numbered
<1>5. \A u \in Task : u # t /\ task[u].job # "watch" /\ job # "watch" /\ task[u].att = att => att = 0
  BY <1>1 DEF Numbered
<1>6. \A u, v \in Task :
          u # v /\ task'[u].job # "watch" /\ task'[v].job # "watch" /\ task'[u].att = task'[v].att
          => task'[u].att = 0
  BY <1>2, <1>3, <1>5 DEF Numbered
<1>7. \A u \in Task : task'[u].job = "connect" /\ task'[u].pc # "queued" => task'[u].att # 0
  BY <1>1, <1>2, <1>3 DEF Numbered
<1> QED
  BY <1>4, <1>6, <1>7 DEF Numbered

LEMMA AnswersNumbered ==
    ASSUME Types, Numbered, NEW t \in Task, UNCHANGED connection_attempt,
           task[t].job = "connect" => task[t].pc # "queued",
           NEW result, Answers(t, result)
    PROVE  Numbered'
BY NumberedKept DEF Answers

LEMMA ConnectNumbered ==
    ASSUME Types, Numbered, NEW t \in Task, ConnectStep(t) \/ ConnectLock(t)
    PROVE  Numbered'
<1> USE NumberedKept, AnswersNumbered DEF At, Calm
<1>1. CASE ConnectStart(t)
  BY <1>1, ConnectStartShape DEF Starts
<1>2. CASE ConnectPrepare(t) \/ ConnectLock(t)
  BY <1>2, ConnectPrepareShape, ConnectLockShape DEF Fails, Goes
<1>3. CASE ConnectSelect(t) \/ ConnectObserve(t)
  BY <1>3, ConnectSelectShape, ConnectObserveShape DEF Fails, Goes, Reads, Tears
<1>4. CASE ConnectVerify(t) \/ ConnectPolicy(t)
  BY <1>4, ConnectVerifyShape, ConnectPolicyShape DEF Fails, Goes
<1>5. CASE ConnectActivate(t) \/ ConnectBringup(t)
  BY <1>5, ConnectActivateShape, ConnectBringupShape DEF Fails, Goes
<1>6. CASE ConnectPoll(t) \/ ConnectAgent(t)
  BY <1>6, ConnectPollShape, ConnectAgentShape DEF Fails, Goes, CleansUp, Tears
<1>7. CASE ConnectReady(t)
  <2>1. ASSUME NEW w \in Watcher, task[w] = Idle, Spawns(t, w) PROVE Numbered'
    <3>1. w \in Task /\ task[t].att <= connection_attempt /\ UNCHANGED connection_attempt
      BY <1>7, ConnectReadyShape, ConstantsTyped DEF Numbered
    <3> QED
      BY <1>7, <2>1, <3>1, ConnectReadyShape DEF Spawns, Numbered
  <2> QED
    BY <1>7, <2>1, ConnectReadyShape DEF CleansUp, Tears
<1> QED
  BY <1>1, <1>2, <1>3, <1>4, <1>5, <1>6, <1>7 DEF ConnectStep

LEMMA TeardownNumbered ==
    ASSUME Types, Numbered, NEW t \in Task, TeardownStep(t)
    PROVE  Numbered'
<1> USE NumberedKept, AnswersNumbered DEF Calm
<1>1. ASSUME UNCHANGED connection_attempt, task[t].pc # "queued", Completes(t) \/ Aborts(t)
      PROVE  Numbered'
  BY <1>1 DEF Completes, Aborts, Goes, Ends
<1>2. CASE TdBypass(t) \/ TdPolicy(t)
  BY <1>1, <1>2, TdBypassShape, TdPolicyShape DEF Reads, Goes
<1>3. CASE TdDown(t) \/ TdKs(t)
  BY <1>1, <1>3, TdDownShape, TdKsShape DEF Goes
<1> QED
  BY <1>2, <1>3 DEF TeardownStep

LEMMA OthersNumbered ==
    ASSUME Types, Numbered, NEW t \in Task,
           \/ CancelStart(t) \/ CancelMark(t) \/ CancelLock(t)
           \/ DisconnectStart(t) \/ DisconnectLock(t)
           \/ WatchJailed(t) \/ WatchReject(t) \/ WatchLock(t) \/ WatchEnds(t)
           \/ FeatureStep(t) \/ DeadlinePasses(t) \/ Reply(t)
    PROVE  Numbered'
<1> USE NumberedKept, AnswersNumbered DEF At, Calm, Goes, Reads, Tears, Ends, Starts
<1>1. CASE CancelStart(t) \/ CancelMark(t) \/ CancelLock(t)
  BY <1>1, CancelStartShape, CancelMarkShape, CancelLockShape
<1>2. CASE DisconnectStart(t) \/ DisconnectLock(t)
  BY <1>2, DisconnectStartShape, DisconnectLockShape
<1>3. CASE WatchJailed(t) \/ WatchReject(t)
  BY <1>3, WatchJailedShape, WatchRejectShape
<1>4. CASE WatchLock(t) \/ WatchEnds(t)
  BY <1>4, WatchLockShape, WatchEndsShape
<1>5. CASE FeatureStep(t)
  BY <1>5, FeatureShape
<1>6. CASE DeadlinePasses(t) \/ Reply(t)
  <2>1. DeadlinePasses(t) => task[t].pc # "queued"
    BY DEF DeadlinePasses
  <2> QED
    BY <1>6, <2>1, DeadlinePassesShape, ReplyShape
<1> QED
  BY <1>1, <1>2, <1>3, <1>4, <1>5, <1>6

\* Every step keeps the generations apart.
LEMMA NextNumbered ==
    ASSUME Types, Numbered, [Next]_vars
    PROVE  Numbered'
<1>1. CASE UNCHANGED vars
  BY <1>1 DEF vars, rtVars, Numbered
<1>2. ASSUME NEW r \in Request, NEW c \in Client, NEW m \in Method, Submit(r, c, m)
      PROVE  Numbered'
  BY <1>2, SubmitShape, NumberedKept, ConstantsTyped DEF Calm
<1>3. ASSUME NEW t \in Task, Step(t) \/ TakeLock(t) \/ DeadlinePasses(t)
      PROVE  Numbered'
  BY <1>3, ConnectNumbered, TeardownNumbered, OthersNumbered DEF Step, TakeLock
<1>4. ASSUME NEW w \in Watcher, WatchJailed(w) \/ WatchEnds(w)
      PROVE  Numbered'
  BY <1>4, OthersNumbered, ConstantsTyped
<1>5. CASE Maintenance \/ World
  BY <1>5 DEF Maintenance, SplitRouteObserve, SplitRouteReconcile, PolicyRead, PolicyApply, World,
              TunnelUp, TunnelFails, TunnelDrops, ForeignUp, ForeignDown, rtVars, Numbered
<1> QED
  BY <1>1, <1>2, <1>3, <1>4, <1>5 DEF Next

-----------------------------------------------------------------------------

\* The inductive invariant that needs nothing of the instance.
BaseInv == Types /\ Flags /\ Locked /\ OneOwned /\ Cleared /\ Numbered

\* The invariant holds at the start.
LEMMA InitBase == Init => BaseInv
<1> SUFFICES ASSUME Init PROVE BaseInv
  OBVIOUS
<1>1. Types
  BY ConstantsTyped, IdleTyped DEF Init, Types, Tasks
<1>2. Flags
  BY DEF Init, Flags
<1>3. Locked /\ OneOwned /\ Cleared
  BY DEF Init, Locked, OneOwned, Cleared, Idle, Critical, Teardown
<1>4. Numbered
  BY DEF Init, Numbered, Idle
<1> QED
  BY <1>1, <1>2, <1>3, <1>4 DEF BaseInv

\* Every step keeps it.
LEMMA NextBase == BaseInv /\ [Next]_vars => BaseInv'
BY NextTypes, NextFlags, NextLocked, NextCleared, NextNumbered DEF BaseInv

\* The mutex, the one tunnel and the generations, whatever the tasks do and whatever
\* NetworkManager, the split daemon and the Local Agent answer.
THEOREM BaseHolds == Spec => []BaseInv
BY InitBase, NextBase, PTL DEF Spec

\* Type correctness of the runtime, with mutual exclusion by network_write.
THEOREM TypeCorrect == Spec => []TypeOK
<1>1. BaseInv => TypeOK
  BY DEF BaseInv, Types, Flags, Locked, Tasks, TypeOK, Uuid
<1> QED
  BY <1>1, BaseHolds, PTL

\* The agent never has two tunnels of its own up (connection_connect replaces only after
\* the teardown, under network_write), with every fault and every maintenance loop.
THEOREM OneTunnel == Spec => []OneOwnedTunnel
<1>1. OneOwned => OneOwnedTunnel
  <2> SUFFICES ASSUME OneOwned PROVE Cardinality(OwnTunnels) <= 1
    BY DEF OneOwnedTunnel
  <2>1. CASE OwnTunnels = {}
    BY <2>1, FS_EmptySet
  <2>2. CASE OwnTunnels # {}
    <3>1. PICK x \in OwnTunnels : TRUE
      BY <2>2
    <3>2. OwnTunnels = {x}
      BY <3>1 DEF OneOwned, OwnTunnels
    <3> QED
      BY <3>2, FS_Singleton
  <2> QED
    BY <2>1, <2>2
<1>2. BaseInv => OneOwnedTunnel
  BY <1>1 DEF BaseInv
<1> QED
  BY <1>2, BaseHolds, PTL

-----------------------------------------------------------------------------
(* The tunnel the agent knows, when no session is hard-jailed:                       *)
(* disconnect_after_local_agent_rejection reads the uuid before it has the lock, and *)
(* may forget a newer one.                                                           *)

NoOwn == \A x \in tunnels : ~x.owned

Running == {"poll", "agent", "ready"}

\* What t relies on: a connect past the activation runs the tunnel that is remembered, a
\* teardown is of that one, and after td_down there is none.
KnownTo(t) ==
    /\ task[t].job = "watch" => task[t].pc = "listen"
    /\ task[t].pc \in Running => owned = task[t].att
    /\ task[t].pc \in Teardown => task[t].uuid = owned
    /\ task[t].pc = "td_ks" => NoOwn
    /\ task[t].job \in {"cancel", "disconnect"} /\ task[t].pc \in Teardown =>
        task[t].ret = "answer"

\* Even while the mutex is held, a tunnel that is up is the remembered one.
Known ==
    /\ \A x \in tunnels : x.owned => x.uuid = owned /\ owned # 0
    /\ \A t \in Task : KnownTo(t)

LEMMA RunningPcs == Running \cup Teardown \subseteq Critical /\ "td_ks" \in Teardown
BY DEF Running, Critical, Teardown

\* A step that leaves the tunnels and the uuid alone.
LEMMA KnownKept ==
    ASSUME Types, Known, NEW t \in Task, UNCHANGED <<tunnels, owned>>,
           NEW job, NEW pc, NEW att, NEW uuid, NEW mode, NEW ret, NEW result,
           Moves(t, job, pc, att, uuid, mode, ret, result),
           job = "watch" => pc = "listen",
           pc \in Running => owned = att,
           pc \in Teardown => uuid = owned,
           pc = "td_ks" => NoOwn,
           job \in {"cancel", "disconnect"} /\ pc \in Teardown => ret = "answer"
    PROVE  Known'
BY DEF Known, KnownTo, NoOwn, Moves

LEMMA AnswersKnown ==
    ASSUME Types, Known, NEW t \in Task, UNCHANGED <<tunnels, owned>>, task[t].job # "watch",
           NEW result, Answers(t, result)
    PROVE  Known'
BY KnownKept DEF Answers, Running, Teardown

LEMMA ConnectKnown ==
    ASSUME Types, Locked, Cleared, Numbered, Known,
           NEW t \in Task, ConnectStep(t) \/ ConnectLock(t)
    PROVE  Known'
<1> USE KnownKept, AnswersKnown DEF At, Calm, Running, Teardown
<1>1. CASE ConnectStart(t)
  BY <1>1, ConnectStartShape DEF Starts
<1>2. CASE ConnectPrepare(t) \/ ConnectLock(t)
  BY <1>2, ConnectPrepareShape, ConnectLockShape DEF Fails, Goes
<1>3. CASE ConnectSelect(t) \/ ConnectVerify(t)
  BY <1>3, ConnectSelectShape, ConnectVerifyShape DEF Fails, Goes, Reads
<1>4. CASE ConnectObserve(t)
  BY <1>4, ConnectObserveShape DEF Fails, Goes, Tears
<1>5. CASE ConnectPolicy(t)
  BY <1>5, ConnectPolicyShape DEF Fails, Goes
<1>10. CASE ConnectActivate(t)
  <2>1. /\ task[t].job = "connect" /\ UNCHANGED <<tunnels, owned>>
        /\ Fails(t) \/ Goes(t, "bringup")
    BY <1>10, ConnectActivateShape
  <2> QED
    BY <2>1 DEF Fails, Goes
<1>6. CASE ConnectBringup(t)
  <2>1. CASE UNCHANGED <<tunnels, owned>> /\ Fails(t)
    BY <1>6, <2>1, ConnectBringupShape DEF Fails
  <2>2. CASE /\ tunnels' = tunnels \cup {[uuid |-> task[t].att, state |-> "Connecting",
                                          owned |-> TRUE]}
             /\ owned' = task[t].att
             /\ Goes(t, "poll")
    <3>1. At(t, "connect", "bringup")
      BY <1>6, ConnectBringupShape
    <3>2. NoOwn /\ task[t].att # 0
      BY <3>1 DEF Cleared, Clear, NoOwn, Numbered
    <3>3. \A u \in Task : u # t => task[u].pc \notin Running \cup Teardown
      BY <3>1, CriticalPcs, RunningPcs DEF Locked
    <3>4. \A x \in tunnels' : x.owned => x.uuid = owned' /\ owned' # 0
      BY <2>2, <3>2 DEF NoOwn
    <3>5. \A u \in Task : KnownTo(u)'
      BY <2>2, <3>1, <3>3 DEF Goes, Moves, Known, KnownTo
    <3> QED
      BY <3>4, <3>5 DEF Known
  <2> QED
    BY <1>6, <2>1, <2>2, ConnectBringupShape
<1>7. CASE ConnectPoll(t)
  BY <1>7, ConnectPollShape DEF Fails, Goes, CleansUp, Tears, Known, KnownTo
<1>8. CASE ConnectAgent(t)
  BY <1>8, ConnectAgentShape DEF Goes, CleansUp, Tears, Known, KnownTo
<1>9. CASE ConnectReady(t)
  <2>1. ASSUME NEW w \in Watcher, task[w] = Idle, Spawns(t, w) PROVE Known'
    BY <1>9, <2>1, ConnectReadyShape, ConstantsTyped DEF Spawns, Known, KnownTo, NoOwn
  <2> QED
    BY <1>9, <2>1, ConnectReadyShape DEF CleansUp, Tears, Known, KnownTo
<1> QED
  BY <1>1, <1>2, <1>3, <1>4, <1>5, <1>6, <1>7, <1>8, <1>9, <1>10 DEF ConnectStep

LEMMA TeardownKnown ==
    ASSUME Types, Locked, Known, NEW t \in Task, TeardownStep(t)
    PROVE  Known'
<1> USE KnownKept, AnswersKnown DEF Calm
<1>0. task[t].pc \in Teardown /\ task[t].job # "watch" /\ task[t].uuid = owned
      /\ (task[t].job \in {"cancel", "disconnect"} => task[t].ret = "answer")
  BY DEF TeardownStep, TdBypass, TdPolicy, TdDown, TdKs, Teardown, Known, KnownTo
<1>1. ASSUME UNCHANGED <<tunnels, owned>>, Completes(t) \/ Aborts(t)
      PROVE  Known'
  BY <1>0, <1>1 DEF Completes, Aborts, Goes, Ends, Running, Teardown
<1>2. CASE TdBypass(t)
  BY <1>0, <1>1, <1>2, TdBypassShape DEF Reads, Running, Teardown
<1>3. CASE TdPolicy(t)
  BY <1>0, <1>1, <1>3, TdPolicyShape DEF Goes, Running, Teardown
<1>4. \A u \in Task : u # t => task[u].pc \notin Running \cup Teardown
  BY <1>0, CriticalPcs, RunningPcs DEF Locked
<1>5. CASE TdDown(t)
  <2>1. CASE tunnels' = {x \in tunnels : x.uuid # task[t].uuid} /\ Goes(t, "td_ks") /\ UNCHANGED owned
    <3>1. NoOwn'
      BY <1>0, <2>1 DEF Known, NoOwn
    <3>2. \A u \in Task : KnownTo(u)'
      BY <1>0, <1>4, <2>1, <3>1 DEF Goes, Moves, Known, KnownTo, Running, Teardown
    <3> QED
      BY <3>1, <3>2 DEF Known, NoOwn
  <2> QED
    BY <1>1, <1>5, <2>1, TdDownShape
<1>6. CASE TdKs(t)
  <2>1. NoOwn
    BY <1>6, TdKsShape DEF Known, KnownTo
  <2>2. ASSUME UNCHANGED tunnels, owned' = 0, Completes(t) \/ Aborts(t)
        PROVE  Known'
    <3>1. /\ task'[t].pc \notin Running \cup Teardown /\ task'[t].job # "watch"
          /\ \A u \in Task : u # t => task'[u] = task[u]
      BY <1>0, <2>2 DEF Completes, Aborts, Goes, Ends, Answers, Moves, Running, Teardown
    <3>2. \A u \in Task : KnownTo(u)'
      BY <1>4, <3>1, RunningPcs DEF Known, KnownTo
    <3> QED
      BY <2>1, <2>2, <3>2 DEF Known, NoOwn
  <2> QED
    BY <1>1, <1>6, <2>2, TdKsShape
<1> QED
  BY <1>2, <1>3, <1>5, <1>6 DEF TeardownStep

LEMMA OthersKnown ==
    ASSUME Types, Known, NEW t \in Task,
           \/ CancelStart(t) \/ CancelMark(t) \/ CancelLock(t)
           \/ DisconnectStart(t) \/ DisconnectLock(t)
           \/ WatchReject(t) \/ WatchLock(t) \/ WatchEnds(t)
           \/ FeatureStep(t) \/ DeadlinePasses(t) \/ Reply(t)
    PROVE  Known'
<1> USE KnownKept, AnswersKnown DEF At, Calm, Goes, Reads, Tears, Ends, Starts, Running, Teardown
<1>1. CASE CancelStart(t) \/ CancelMark(t) \/ CancelLock(t)
  BY <1>1, CancelStartShape, CancelMarkShape, CancelLockShape
<1>2. CASE DisconnectStart(t) \/ DisconnectLock(t)
  BY <1>2, DisconnectStartShape, DisconnectLockShape
<1>3. CASE WatchReject(t) \/ WatchLock(t)
  BY <1>3, WatchRejectShape, WatchLockShape DEF Known, KnownTo
<1>4. CASE WatchEnds(t)
  BY <1>4, WatchEndsShape
<1>5. CASE FeatureStep(t)
  BY <1>5, FeatureShape DEF FeaturePcs
<1>6. CASE DeadlinePasses(t) \/ Reply(t)
  <2>1. DeadlinePasses(t) => task[t].job = "connect" /\ task[t].pc \in Running
    BY DEF DeadlinePasses
  <2> QED
    BY <1>6, <2>1, DeadlinePassesShape, ReplyShape DEF Known, KnownTo
<1> QED
  BY <1>1, <1>2, <1>3, <1>4, <1>5, <1>6

\* Every step keeps the tunnel the remembered one, when no session is hard-jailed.
LEMMA NextKnown ==
    ASSUME "jail" \notin Faults, BaseInv, Known, [Next]_vars
    PROVE  Known'
<1> USE DEF BaseInv
<1>1. CASE UNCHANGED vars
  BY <1>1 DEF vars, rtVars, netVars, Known, KnownTo, NoOwn
<1>2. ASSUME NEW r \in Request, NEW c \in Client, NEW m \in Method, Submit(r, c, m)
      PROVE  Known'
  BY <1>2, SubmitShape, KnownKept, ConstantsTyped DEF Calm, JobOf, Running, Teardown
<1>3. ASSUME NEW t \in Task, Step(t) \/ TakeLock(t) \/ DeadlinePasses(t)
      PROVE  Known'
  BY <1>3, ConnectKnown, TeardownKnown, OthersKnown DEF Step, TakeLock
<1>4. ASSUME NEW w \in Watcher, WatchJailed(w) \/ WatchEnds(w)
      PROVE  Known'
  BY <1>4, OthersKnown, ConstantsTyped DEF WatchJailed, Fault
<1>5. CASE Maintenance
  BY <1>5 DEF Maintenance, SplitRouteObserve, SplitRouteReconcile, PolicyRead, PolicyApply,
              rtVars, netVars, Known, KnownTo, NoOwn
<1>6. CASE World
  <2>1. UNCHANGED <<task, owned>>
    BY <1>6 DEF World, TunnelUp, TunnelFails, TunnelDrops, ForeignUp, ForeignDown, rtVars
  <2>2. \A y \in tunnels' : y.owned => \E x \in tunnels : x.owned /\ x.uuid = y.uuid
    BY <1>6, WorldTunnels
  <2> QED
    BY <2>1, <2>2 DEF Known, KnownTo, NoOwn
<1> QED
  BY <1>1, <1>2, <1>3, <1>4, <1>5, <1>6 DEF Next

\* Between two critical sections a tunnel of the agent is the one in
\* owned_connection_uuid, so that the next disconnect or replacement finds it.  The
\* hypothesis leaves out disconnect_after_local_agent_rejection.
THEOREM OwnTunnelKnown ==
    ASSUME "jail" \notin Faults
    PROVE  Spec => []OwnTunnelIsKnown
<1>1. Init => Known
  BY DEF Init, Known, KnownTo, Idle, Running, Teardown
<1>2. Known => OwnTunnelIsKnown
  BY DEF Known, OwnTunnelIsKnown, OwnTunnels
<1> QED
  BY <1>1, <1>2, BaseHolds, NextKnown, PTL DEF Spec

-----------------------------------------------------------------------------
(* What an accepted cancellation leaves behind. *)

Activating == {"activate", "bringup"}

\* t is an accepted cancellation or disconnection that no newer attempt has overtaken.
Finished(t) ==
    /\ task[t].job \in {"cancel", "disconnect"} /\ task[t].pc = "reply"
    /\ task[t].result = "Ok" /\ ~Stale(t)

\* No tunnel is up, and none is being activated: what Settled adds to the property is
\* that an activation cannot be under way either.
Nothingness == NoOwn /\ \A u \in Task : task[u].pc \notin Activating

Settled == \A t \in Task : Finished(t) => Nothingness

LEMMA ActivatingPcs == Activating \subseteq Critical
BY DEF Activating, Critical

\* A step without a new generation, which keeps the tunnels down when they are down.
LEMMA SettledKept ==
    ASSUME Types, Settled, NEW t \in Task, UNCHANGED connection_attempt, NoOwn => NoOwn',
           NEW job, NEW pc, NEW att, NEW uuid, NEW mode, NEW ret, NEW result,
           Moves(t, job, pc, att, uuid, mode, ret, result),
           pc \in Activating => \A u \in Task : u # t => ~Finished(u),
           job \in {"cancel", "disconnect"} /\ pc = "reply" /\ result = "Ok"
               /\ att = connection_attempt => Nothingness
    PROVE  Settled'
<1> SUFFICES ASSUME NEW u \in Task, Finished(u)' PROVE Nothingness'
  BY DEF Settled
<1>1. CASE u = t
  BY <1>1 DEF Moves, Finished, Stale, Nothingness, Activating
<1>2. CASE u # t
  BY <1>2 DEF Moves, Finished, Stale, Nothingness, Settled
<1> QED
  BY <1>1, <1>2

\* Answering leaves things settled when it is not the Ok of a cancellation.
LEMMA AnswersSettled ==
    ASSUME Types, Settled, NEW t \in Task, UNCHANGED <<connection_attempt, tunnels>>,
           NEW result, Answers(t, result),
           task[t].job \in {"cancel", "disconnect"} /\ result = "Ok" /\ ~Stale(t) => Nothingness
    PROVE  Settled'
BY SettledKept DEF Answers, Activating, NoOwn, Stale

\* A new generation makes every earlier answer an overtaken one.
LEMMA StartsSettled ==
    ASSUME Types, Numbered, Settled, NEW t \in Task,
           connection_attempt' = connection_attempt + 1,
           NEW job, NEW pc, NEW att, NEW uuid, NEW mode, NEW ret, NEW result,
           Moves(t, job, pc, att, uuid, mode, ret, result), pc # "reply"
    PROVE  Settled'
<1>1. \A u \in Task : task[u].att \in Nat /\ connection_attempt \in Nat
  BY TaskFields DEF Types
<1>2. \A u \in Task : task[u].att # connection_attempt'
  BY <1>1 DEF Numbered
<1>3. \A u \in Task : ~Finished(u)'
  BY <1>2 DEF Moves, Finished, Stale
<1> QED
  BY <1>3 DEF Settled

LEMMA ConnectSettled ==
    ASSUME Types, Locked, Numbered, Settled, NEW t \in Task, ConnectStep(t) \/ ConnectLock(t)
    PROVE  Settled'
<1> USE SettledKept, AnswersSettled DEF At, Calm, Activating, NoOwn
<1>1. CASE ConnectStart(t)
  BY <1>1, ConnectStartShape, StartsSettled DEF Starts
<1>2. CASE ConnectPrepare(t) \/ ConnectLock(t)
  BY <1>2, ConnectPrepareShape, ConnectLockShape DEF Fails, Goes
<1>3. CASE ConnectSelect(t) \/ ConnectVerify(t)
  BY <1>3, ConnectSelectShape, ConnectVerifyShape DEF Fails, Goes, Reads
<1>4. CASE ConnectObserve(t)
  BY <1>4, ConnectObserveShape DEF Fails, Goes, Tears
<1>5. CASE ConnectPolicy(t)
  <2>1. ASSUME ~Stale(t), NEW u \in Task, u # t PROVE ~Finished(u)
    BY <1>5, <2>1, ConnectPolicyShape DEF Numbered, Finished, Stale
  <2> QED
    BY <1>5, <2>1, ConnectPolicyShape DEF Fails, Goes
<1>6. CASE ConnectActivate(t)
  <2>1. \A u \in Task : ~Finished(u)
    BY <1>6, ConnectActivateShape DEF Settled, Nothingness
  <2> QED
    BY <1>6, <2>1, ConnectActivateShape DEF Fails, Goes
<1>7. CASE ConnectBringup(t)
  <2>1. \A u \in Task : ~Finished(u)
    BY <1>7, ConnectBringupShape DEF Settled, Nothingness
  <2>2. CASE Goes(t, "poll") /\ UNCHANGED connection_attempt
    BY <2>1, <2>2 DEF Goes, Moves, Finished, Stale, Settled
  <2> QED
    BY <1>7, <2>2, ConnectBringupShape DEF Fails
<1>8. CASE ConnectPoll(t)
  BY <1>8, ConnectPollShape DEF Fails, Goes, CleansUp, Tears
<1>9. CASE ConnectAgent(t)
  BY <1>9, ConnectAgentShape DEF Goes, CleansUp, Tears
<1>10. CASE ConnectReady(t)
  <2>1. ASSUME NEW w \in Watcher, task[w] = Idle, Spawns(t, w) PROVE Settled'
    BY <1>10, <2>1, ConnectReadyShape, ConstantsTyped
       DEF Spawns, Settled, Finished, Stale, Nothingness
  <2> QED
    BY <1>10, <2>1, ConnectReadyShape DEF CleansUp, Tears
<1> QED
  BY <1>1, <1>2, <1>3, <1>4, <1>5, <1>6, <1>7, <1>8, <1>9, <1>10 DEF ConnectStep

LEMMA TeardownSettled ==
    ASSUME Types, Locked, Known, Settled, NEW t \in Task, TeardownStep(t)
    PROVE  Settled'
<1> USE SettledKept, AnswersSettled DEF Calm, Activating, NoOwn
<1>0. /\ task[t].pc \in Teardown
      /\ task[t].job \in {"cancel", "disconnect"} => task[t].ret = "answer"
  BY DEF TeardownStep, TdBypass, TdPolicy, TdDown, TdKs, Teardown, Known, KnownTo
<1>1. ASSUME UNCHANGED <<connection_attempt, tunnels>>, Aborts(t)
      PROVE  Settled'
  BY <1>0, <1>1 DEF Completes, Aborts, Goes, Ends
<1>2. CASE TdBypass(t)
  BY <1>1, <1>2, TdBypassShape DEF Reads
<1>3. CASE TdPolicy(t)
  BY <1>1, <1>3, TdPolicyShape DEF Goes
<1>4. CASE TdDown(t)
  <2>1. CASE tunnels' \subseteq tunnels /\ Goes(t, "td_ks") /\ UNCHANGED connection_attempt
    BY <2>1 DEF Goes
  <2> QED
    BY <1>1, <1>4, <2>1, TdDownShape
<1>5. CASE TdKs(t)
  <2>1. Nothingness
    BY <1>0, <1>5, TdKsShape, CriticalPcs, ActivatingPcs
       DEF Known, KnownTo, Nothingness, Locked, Teardown
  <2>2. ASSUME UNCHANGED <<connection_attempt, tunnels>>, Completes(t) PROVE Settled'
    BY <2>1, <2>2 DEF Completes, Goes, Ends
  <2> QED
    BY <1>1, <1>5, <2>2, TdKsShape
<1> QED
  BY <1>2, <1>3, <1>4, <1>5 DEF TeardownStep

LEMMA OthersSettled ==
    ASSUME Types, Locked, Numbered, Known, Settled, NEW t \in Task,
           \/ CancelStart(t) \/ CancelMark(t) \/ CancelLock(t)
           \/ DisconnectStart(t) \/ DisconnectLock(t)
           \/ WatchReject(t) \/ WatchLock(t) \/ WatchEnds(t)
           \/ FeatureStep(t) \/ DeadlinePasses(t) \/ Reply(t)
    PROVE  Settled'
<1> USE SettledKept, AnswersSettled DEF At, Calm, Goes, Reads, Tears, Ends, Activating, NoOwn
<1>1. CASE CancelStart(t) \/ DisconnectStart(t)
  BY <1>1, CancelStartShape, DisconnectStartShape, StartsSettled DEF Starts
<1>2. CASE CancelMark(t) \/ DisconnectLock(t)
  BY <1>2, CancelMarkShape, DisconnectLockShape
<1>3. CASE CancelLock(t)
  <2>1. ASSUME owned = 0 PROVE Nothingness
    <3>1. NoOwn
      BY <2>1 DEF Known
    <3>2. network_write = NoTask
      BY <1>3, CancelLockShape
    <3>3. \A u \in Task : task[u].pc \notin Critical
      BY <3>2, ConstantsTyped DEF Locked
    <3> QED
      BY <3>1, <3>3, ActivatingPcs DEF Nothingness
  <2> QED
    BY <1>3, <2>1, CancelLockShape
<1>4. CASE WatchReject(t) \/ WatchLock(t)
  BY <1>4, WatchRejectShape, WatchLockShape
<1>5. CASE WatchEnds(t)
  BY <1>5, WatchEndsShape
<1>6. CASE FeatureStep(t)
  BY <1>6, FeatureShape DEF FeaturePcs
<1>7. CASE DeadlinePasses(t) \/ Reply(t)
  <2>1. DeadlinePasses(t) => task[t].job = "connect" /\ task[t].pc \in Running
    BY DEF DeadlinePasses, Running
  <2> QED
    BY <1>7, <2>1, DeadlinePassesShape, ReplyShape DEF Running
<1> QED
  BY <1>1, <1>2, <1>3, <1>4, <1>5, <1>6, <1>7

\* Every step keeps what an accepted cancellation has left behind.
LEMMA NextSettled ==
    ASSUME "jail" \notin Faults, BaseInv, Known, Settled, [Next]_vars
    PROVE  Settled'
<1> USE DEF BaseInv
<1>1. CASE UNCHANGED vars
  BY <1>1 DEF vars, rtVars, netVars, Settled, Finished, Stale, Nothingness, NoOwn
<1>2. ASSUME NEW r \in Request, NEW c \in Client, NEW m \in Method, Submit(r, c, m)
      PROVE  Settled'
  BY <1>2, SubmitShape, SettledKept, ConstantsTyped DEF Calm, Activating, NoOwn
<1>3. ASSUME NEW t \in Task, Step(t) \/ TakeLock(t) \/ DeadlinePasses(t)
      PROVE  Settled'
  BY <1>3, ConnectSettled, TeardownSettled, OthersSettled DEF Step, TakeLock
<1>4. ASSUME NEW w \in Watcher, WatchJailed(w) \/ WatchEnds(w)
      PROVE  Settled'
  BY <1>4, OthersSettled, ConstantsTyped DEF WatchJailed, Fault
<1>5. CASE Maintenance
  BY <1>5 DEF Maintenance, SplitRouteObserve, SplitRouteReconcile, PolicyRead, PolicyApply,
              rtVars, netVars, Settled, Finished, Stale, Nothingness, NoOwn
<1>6. CASE World
  <2>1. UNCHANGED <<task, connection_attempt>>
    BY <1>6 DEF World, TunnelUp, TunnelFails, TunnelDrops, ForeignUp, ForeignDown, rtVars
  <2>2. NoOwn => NoOwn'
    BY <1>6, WorldTunnels DEF NoOwn
  <2> QED
    BY <2>1, <2>2 DEF Settled, Finished, Stale, Nothingness
<1> QED
  BY <1>1, <1>2, <1>3, <1>4, <1>5, <1>6 DEF Next

\* connection_cancel and connection_disconnect leave no tunnel behind: their new
\* generation stops every older connect before it activates, and network_write keeps a
\* teardown and an activation apart.  Needs Known, hence the same hypothesis.
THEOREM CancelIsComplete ==
    ASSUME "jail" \notin Faults
    PROVE  Spec => []CancelLeavesNothingBehind
<1>1. Init => Known /\ Settled
  BY DEF Init, Known, KnownTo, Idle, Running, Teardown, Settled, Finished
<1>2. Settled => CancelLeavesNothingBehind
  BY ConstantsTyped DEF Settled, CancelLeavesNothingBehind, Finished, Nothingness, NoOwn, OwnTunnels
<1> QED
  BY <1>1, <1>2, BaseHolds, NextKnown, NextSettled, PTL DEF Spec

-----------------------------------------------------------------------------
(* The bypass of the kill switch, when neither feature_set nor the loop of the split *)
(* routes runs: both change it without network_write.                        *)

Protocol == {"connection.connect", "connection.cancel", "connection.disconnect"}

Down == {"td_policy", "td_down", "td_ks"}

NoFeature == \A t \in Task : task[t].job # "feature"

\* disconnect_owned_inner is past td_bypass only with the bypass gone.
Guarded ==
    /\ loop.split_route = "idle"
    /\ \A t \in Task : task[t].pc \in Down => ~bypass

LEMMA DownPcs == Down \subseteq Critical
BY DEF Down, Critical, Teardown

\* Without a feature.set request no task runs feature_set.
LEMMA NextNoFeature ==
    ASSUME Method \subseteq Protocol, Types, NoFeature, [Next]_vars
    PROVE  NoFeature'
<1>1. ASSUME NEW t \in Task, NEW job, NEW pc, NEW att, NEW uuid, NEW mode, NEW ret, NEW result,
             Moves(t, job, pc, att, uuid, mode, ret, result), job # "feature"
      PROVE  NoFeature'
  BY <1>1 DEF Moves, NoFeature
<1>2. ASSUME NEW t \in Task, NEW result, Answers(t, result) PROVE NoFeature'
  BY <1>1, <1>2 DEF Answers, NoFeature
<1>3. ASSUME NEW t \in Task, ConnectStep(t) \/ ConnectLock(t) PROVE NoFeature'
  <2>1. CASE ConnectReady(t)
    BY <1>1, <2>1, ConnectReadyShape DEF Spawns, CleansUp, Tears, At, NoFeature
  <2>2. CASE ConnectStart(t) \/ ConnectPrepare(t) \/ ConnectLock(t) \/ ConnectSelect(t)
    BY <1>1, <1>2, <2>2, ConnectStartShape, ConnectPrepareShape, ConnectLockShape,
       ConnectSelectShape DEF Starts, Fails, Goes, Reads, NoFeature
  <2>3. CASE ConnectObserve(t) \/ ConnectVerify(t) \/ ConnectPolicy(t)
    BY <1>1, <1>2, <2>3, ConnectObserveShape, ConnectVerifyShape, ConnectPolicyShape
       DEF Fails, Goes, Tears, NoFeature
  <2>4. CASE ConnectActivate(t) \/ ConnectBringup(t)
    BY <1>1, <1>2, <2>4, ConnectActivateShape, ConnectBringupShape DEF Fails, Goes, NoFeature
  <2>5. CASE ConnectPoll(t) \/ ConnectAgent(t)
    BY <1>1, <1>2, <2>5, ConnectPollShape, ConnectAgentShape
       DEF Fails, Goes, Tears, CleansUp, NoFeature
  <2> QED
    BY <1>3, <2>1, <2>2, <2>3, <2>4, <2>5 DEF ConnectStep
<1>4. ASSUME NEW t \in Task, TeardownStep(t) PROVE NoFeature'
  <2>1. ASSUME Completes(t) \/ Aborts(t) PROVE NoFeature'
    BY <1>1, <1>2, <2>1 DEF Completes, Aborts, Goes, Ends, NoFeature
  <2> QED
    BY <1>1, <1>4, <2>1, TdBypassShape, TdPolicyShape, TdDownShape, TdKsShape
       DEF TeardownStep, Goes, Reads, NoFeature
<1>5. ASSUME NEW t \in Task,
             \/ CancelStart(t) \/ CancelMark(t) \/ CancelLock(t)
             \/ DisconnectStart(t) \/ DisconnectLock(t)
             \/ WatchJailed(t) \/ WatchReject(t) \/ WatchLock(t) \/ WatchEnds(t)
             \/ FeatureStep(t) \/ DeadlinePasses(t) \/ Reply(t)
      PROVE  NoFeature'
  BY <1>1, <1>2, <1>5, CancelStartShape, CancelMarkShape, CancelLockShape, DisconnectStartShape,
     DisconnectLockShape, WatchJailedShape, WatchRejectShape, WatchLockShape, WatchEndsShape,
     FeatureShape, DeadlinePassesShape, ReplyShape
     DEF Goes, Reads, Tears, Ends, Starts, NoFeature
<1>6. ASSUME NEW r \in Request, NEW c \in Client, NEW m \in Method, Submit(r, c, m)
      PROVE  NoFeature'
  <2>1. JobOf(m) # "feature"
    BY DEF JobOf, Protocol
  <2> QED
    BY <1>1, <1>6, <2>1, SubmitShape, ConstantsTyped
<1>7. ASSUME Maintenance \/ World \/ UNCHANGED vars
      PROVE  NoFeature'
  BY <1>7 DEF Maintenance, SplitRouteObserve, SplitRouteReconcile, PolicyRead, PolicyApply, World,
              TunnelUp, TunnelFails, TunnelDrops, ForeignUp, ForeignDown, vars, NoFeature
<1>8. ASSUME NEW t \in Task, Step(t) \/ TakeLock(t) \/ DeadlinePasses(t)
      PROVE  NoFeature'
  BY <1>3, <1>4, <1>5, <1>8 DEF Step, TakeLock
<1>9. ASSUME NEW w \in Watcher, WatchJailed(w) \/ WatchEnds(w)
      PROVE  NoFeature'
  BY <1>5, <1>9, ConstantsTyped
<1> QED
  BY <1>6, <1>7, <1>8, <1>9 DEF Next

LEMMA GuardedKept ==
    ASSUME Types, Guarded, NEW t \in Task, UNCHANGED <<bypass, loop>>,
           NEW job, NEW pc, NEW att, NEW uuid, NEW mode, NEW ret, NEW result,
           Moves(t, job, pc, att, uuid, mode, ret, result),
           pc \in Down => ~bypass
    PROVE  Guarded'
BY DEF Guarded, Moves

LEMMA AnswersGuarded ==
    ASSUME Types, Guarded, NEW t \in Task, UNCHANGED <<bypass, loop>>,
           NEW result, Answers(t, result)
    PROVE  Guarded'
BY GuardedKept DEF Answers, Down

LEMMA ConnectGuarded ==
    ASSUME Types, Locked, Guarded, NEW t \in Task, ConnectStep(t) \/ ConnectLock(t)
    PROVE  Guarded'
<1> USE GuardedKept, AnswersGuarded DEF At, Calm, Down
<1>1. CASE ConnectStart(t) \/ ConnectPrepare(t)
  BY <1>1, ConnectStartShape, ConnectPrepareShape DEF Starts, Fails, Goes
<1>2. CASE ConnectLock(t) \/ ConnectSelect(t)
  BY <1>2, ConnectLockShape, ConnectSelectShape DEF Fails, Goes, Reads
<1>3. CASE ConnectObserve(t) \/ ConnectVerify(t)
  BY <1>3, ConnectObserveShape, ConnectVerifyShape DEF Fails, Goes, Tears
<1>4. CASE ConnectPolicy(t)
  BY <1>4, ConnectPolicyShape DEF Fails, Goes
<1>5. CASE ConnectActivate(t) \/ ConnectBringup(t)
  <2>1. UNCHANGED <<bypass, loop>> /\ (Fails(t) \/ Goes(t, "bringup") \/ Goes(t, "poll"))
    BY <1>5, ConnectActivateShape, ConnectBringupShape
  <2> QED
    BY <2>1 DEF Fails, Goes
<1>6. CASE ConnectPoll(t)
  <2>1. CASE Goes(t, "agent")
    <3>1. \A u \in Task : u # t => task[u].pc \notin Down
      BY <1>6, ConnectPollShape, CriticalPcs, DownPcs DEF Locked
    <3> QED
      BY <1>6, <2>1, <3>1, ConnectPollShape DEF Goes, Moves, Guarded
  <2> QED
    BY <1>6, <2>1, ConnectPollShape DEF Fails, CleansUp, Tears
<1>7. CASE ConnectAgent(t)
  BY <1>7, ConnectAgentShape DEF Goes, CleansUp, Tears
<1>8. CASE ConnectReady(t)
  <2>1. ASSUME NEW w \in Watcher, task[w] = Idle, Spawns(t, w) PROVE Guarded'
    BY <1>8, <2>1, ConnectReadyShape, ConstantsTyped DEF Spawns, Guarded
  <2> QED
    BY <1>8, <2>1, ConnectReadyShape DEF CleansUp, Tears
<1> QED
  BY <1>1, <1>2, <1>3, <1>4, <1>5, <1>6, <1>7, <1>8 DEF ConnectStep

LEMMA TeardownGuarded ==
    ASSUME Types, Locked, Guarded, NEW t \in Task, TeardownStep(t)
    PROVE  Guarded'
<1> USE GuardedKept, AnswersGuarded DEF Calm, Down
<1>1. ASSUME UNCHANGED <<bypass, loop>>, Completes(t) \/ Aborts(t)
      PROVE  Guarded'
  BY <1>1 DEF Completes, Aborts, Goes, Ends
<1>2. CASE TdBypass(t)
  <2>1. CASE ~bypass' /\ UNCHANGED loop /\ Reads(t, "td_policy", settings)
    BY <2>1 DEF Reads, Moves, Guarded
  <2> QED
    BY <1>1, <1>2, <2>1, TdBypassShape
<1>3. CASE TdPolicy(t)
  BY <1>1, <1>3, TdPolicyShape DEF Goes, Guarded
<1>4. CASE TdDown(t)
  BY <1>1, <1>4, TdDownShape DEF Goes, Guarded
<1>5. CASE TdKs(t)
  BY <1>1, <1>5, TdKsShape
<1> QED
  BY <1>2, <1>3, <1>4, <1>5 DEF TeardownStep

LEMMA OthersGuarded ==
    ASSUME Types, Guarded, NEW t \in Task,
           \/ CancelStart(t) \/ CancelMark(t) \/ CancelLock(t)
           \/ DisconnectStart(t) \/ DisconnectLock(t)
           \/ WatchJailed(t) \/ WatchReject(t) \/ WatchLock(t) \/ WatchEnds(t)
           \/ DeadlinePasses(t) \/ Reply(t)
    PROVE  Guarded'
<1> USE GuardedKept, AnswersGuarded DEF Calm, Goes, Reads, Tears, Ends, Starts, Down
<1>1. CASE CancelStart(t) \/ CancelMark(t) \/ CancelLock(t)
  BY <1>1, CancelStartShape, CancelMarkShape, CancelLockShape
<1>2. CASE DisconnectStart(t) \/ DisconnectLock(t)
  BY <1>2, DisconnectStartShape, DisconnectLockShape
<1>3. CASE WatchJailed(t) \/ WatchReject(t)
  BY <1>3, WatchJailedShape, WatchRejectShape
<1>4. CASE WatchLock(t) \/ WatchEnds(t)
  BY <1>4, WatchLockShape, WatchEndsShape
<1>5. CASE DeadlinePasses(t) \/ Reply(t)
  BY <1>5, DeadlinePassesShape, ReplyShape DEF Guarded
<1> QED
  BY <1>1, <1>2, <1>3, <1>4, <1>5

\* Every step keeps the bypass away from a teardown.
LEMMA NextGuarded ==
    ASSUME "split_route" \notin Loops, BaseInv, NoFeature, Guarded, [Next]_vars
    PROVE  Guarded'
<1> USE DEF BaseInv
<1>1. CASE UNCHANGED vars
  BY <1>1 DEF vars, netVars, Guarded
<1>2. ASSUME NEW r \in Request, NEW c \in Client, NEW m \in Method, Submit(r, c, m)
      PROVE  Guarded'
  BY <1>2, SubmitShape, GuardedKept, ConstantsTyped DEF Calm, Down
<1>3. ASSUME NEW t \in Task, Step(t) \/ TakeLock(t) \/ DeadlinePasses(t)
      PROVE  Guarded'
  BY <1>3, ConnectGuarded, TeardownGuarded, OthersGuarded, FeatureShape DEF Step, TakeLock, NoFeature
<1>4. ASSUME NEW w \in Watcher, WatchJailed(w) \/ WatchEnds(w)
      PROVE  Guarded'
  BY <1>4, OthersGuarded, ConstantsTyped
<1>5. CASE Maintenance
  BY <1>5 DEF Maintenance, SplitRouteObserve, SplitRouteReconcile, PolicyRead, PolicyApply,
              netVars, Types, Guarded
<1>6. CASE World
  BY <1>6 DEF World, TunnelUp, TunnelFails, TunnelDrops, ForeignUp, ForeignDown, Guarded
<1> QED
  BY <1>1, <1>2, <1>3, <1>4, <1>5, <1>6 DEF Next

\* disconnect_owned_inner removes the bypass before it touches the tunnel, and no connect,
\* cancel, disconnect or watcher puts it back before the teardown is over.
THEOREM BypassGoesFirst ==
    ASSUME Method \subseteq Protocol, "split_route" \notin Loops
    PROVE  Spec => []BypassGoneBeforeTeardown
<1>1. Init => NoFeature /\ Guarded
  BY DEF Init, NoFeature, Guarded, Idle, Down
<1>2. BaseInv /\ NoFeature /\ Guarded /\ [Next]_vars => NoFeature' /\ Guarded'
  BY NextNoFeature, NextGuarded DEF BaseInv
<1>3. Guarded => BypassGoneBeforeTeardown
  BY DEF Guarded, BypassGoneBeforeTeardown, Down
<1> QED
  BY <1>1, <1>2, <1>3, BaseHolds, PTL DEF Spec

-----------------------------------------------------------------------------
(* The kill switch, when nobody changes its mode and reconcile_kill_switch succeeds. *)

\* Where the mode that a task has read from the settings is still to be used.
ModeRead ==
    {"observe", "verify", "policy", "activate", "bringup", "poll", "agent", "ready",
     "td_policy", "td_down", "td_ks"}

\* The advanced kill switch follows the settings at every await, the standard one is up
\* only with a tunnel or one coming up, and nobody works with an outdated mode.
Follows ==
    /\ settings = 2 <=> ks = 2
    /\ ks = 1 => owned # 0 \/ \E t \in Task : task[t].pc = "bringup"
    /\ \A t \in Task : task[t].pc \in ModeRead => task[t].mode = settings

\* What the kill switch is to be with and without a tunnel.
LEMMA KillSwitchValue ==
    ASSUME NEW m \in 0 .. 2
    PROVE  /\ KillSwitchFor(m, TRUE) = m
           /\ KillSwitchFor(m, FALSE) # 1
           /\ m = 2 <=> KillSwitchFor(m, FALSE) = 2
BY DEF KillSwitchFor

LEMMA FollowsKept ==
    ASSUME Types, Follows, NEW t \in Task, UNCHANGED <<ks, owned, settings>>,
           NEW job, NEW pc, NEW att, NEW uuid, NEW mode, NEW ret, NEW result,
           Moves(t, job, pc, att, uuid, mode, ret, result),
           pc \in ModeRead => mode = settings,
           task[t].pc # "bringup"
    PROVE  Follows'
<1>1. /\ \A u \in Task : u # t => task'[u] = task[u]
      /\ task'[t].pc = pc /\ task'[t].mode = mode
  BY DEF Moves
<1>2. (\A u \in Task : task[u].pc \in ModeRead => task[u].mode = settings)'
  BY <1>1 DEF Follows
<1>3. (ks = 1 => owned # 0 \/ \E u \in Task : task[u].pc = "bringup")'
  BY <1>1 DEF Follows
<1> QED
  BY <1>2, <1>3 DEF Follows

LEMMA AnswersFollows ==
    ASSUME Types, Follows, NEW t \in Task, UNCHANGED <<ks, owned, settings>>,
           NEW result, Answers(t, result), task[t].pc # "bringup"
    PROVE  Follows'
BY FollowsKept DEF Answers, ModeRead

\* reconcile_kill_switch without a tunnel: whoever else moves, the standard kill
\* switch is off and the advanced one is as the settings say.
LEMMA ReconciledFollows ==
    ASSUME Types, Follows, NEW t \in Task, UNCHANGED settings, task[t].mode = settings,
           ks' = KillSwitchFor(task[t].mode, FALSE),
           NEW job, NEW pc, NEW att, NEW uuid, NEW mode, NEW ret, NEW result,
           Moves(t, job, pc, att, uuid, mode, ret, result),
           pc \in ModeRead => mode = settings
    PROVE  Follows'
<1>1. /\ \A u \in Task : u # t => task'[u] = task[u]
      /\ task'[t].pc = pc /\ task'[t].mode = mode
  BY DEF Moves
<1>2. (\A u \in Task : task[u].pc \in ModeRead => task[u].mode = settings)'
  BY <1>1 DEF Follows
<1>3. ks' # 1 /\ (settings' = 2 <=> ks' = 2)
  BY KillSwitchValue DEF Types
<1> QED
  BY <1>2, <1>3 DEF Follows

LEMMA ConnectFollows ==
    ASSUME "route" \notin Faults, Types, Numbered, Follows,
           NEW t \in Task, ConnectStep(t) \/ ConnectLock(t)
    PROVE  Follows'
<1> USE FollowsKept, AnswersFollows DEF At, Calm, ModeRead
<1>1. CASE ConnectStart(t) \/ ConnectPrepare(t)
  BY <1>1, ConnectStartShape, ConnectPrepareShape DEF Starts, Fails, Goes
<1>2. CASE ConnectLock(t) \/ ConnectSelect(t)
  BY <1>2, ConnectLockShape, ConnectSelectShape DEF Fails, Goes, Reads
<1>3. CASE ConnectObserve(t)
  BY <1>3, ConnectObserveShape DEF Fails, Goes, Tears, Follows
<1>4. CASE ConnectVerify(t) \/ ConnectPolicy(t)
  BY <1>4, ConnectVerifyShape, ConnectPolicyShape DEF Fails, Goes, Follows
<1>5. CASE ConnectActivate(t)
  <2>1. /\ task[t].mode = settings /\ ks' = settings /\ UNCHANGED <<owned, settings>>
        /\ Goes(t, "bringup")
    BY <1>5, ConnectActivateShape, KillSwitchValue DEF Follows, Types, Fault
  <2> QED
    BY <2>1 DEF Goes, Moves, Follows
<1>6. CASE ConnectBringup(t)
  <2>1. task[t].mode = settings /\ task[t].att # 0 /\ UNCHANGED settings
    BY <1>6, ConnectBringupShape DEF Follows, Numbered
  <2>2. CASE owned' = task[t].att /\ Goes(t, "poll") /\ UNCHANGED ks
    BY <2>1, <2>2 DEF Goes, Moves, Follows
  <2>3. CASE ks' = KillSwitchFor(task[t].mode, FALSE) /\ Fails(t)
    BY <2>1, <2>3, ReconciledFollows DEF Fails, Answers
  <2> QED
    BY <1>6, <2>2, <2>3, ConnectBringupShape DEF Fault
<1>7. CASE ConnectPoll(t)
  BY <1>7, ConnectPollShape DEF Fails, Goes, CleansUp, Tears, Follows
<1>8. CASE ConnectAgent(t)
  BY <1>8, ConnectAgentShape DEF Goes, CleansUp, Tears, Follows
<1>9. CASE ConnectReady(t)
  <2>1. ASSUME NEW w \in Watcher, task[w] = Idle, Spawns(t, w) PROVE Follows'
    <3>1. /\ w \in Task /\ task[t].pc # "bringup" /\ task[w].pc # "bringup"
          /\ UNCHANGED <<ks, owned, settings>>
      BY <1>9, <2>1, ConnectReadyShape, ConstantsTyped DEF Idle
    <3>2. (\A u \in Task : task[u].pc \in ModeRead => task[u].mode = settings)'
      BY <2>1, <3>1 DEF Spawns, Follows
    <3>3. (ks = 1 => owned # 0 \/ \E u \in Task : task[u].pc = "bringup")'
      BY <2>1, <3>1 DEF Spawns, Follows
    <3> QED
      BY <3>1, <3>2, <3>3 DEF Follows
  <2> QED
    BY <1>9, <2>1, ConnectReadyShape DEF CleansUp, Tears, Follows
<1> QED
  BY <1>1, <1>2, <1>3, <1>4, <1>5, <1>6, <1>7, <1>8, <1>9 DEF ConnectStep

LEMMA TeardownFollows ==
    ASSUME "route" \notin Faults, Types, Follows, NEW t \in Task, TeardownStep(t)
    PROVE  Follows'
<1> USE FollowsKept, AnswersFollows DEF Calm, ModeRead
<1>1. ASSUME UNCHANGED <<ks, owned, settings>>, task[t].pc # "bringup", Aborts(t)
      PROVE  Follows'
  BY <1>1 DEF Completes, Aborts, Goes, Ends
<1>2. CASE TdBypass(t)
  BY <1>1, <1>2, TdBypassShape DEF Reads
<1>3. CASE TdPolicy(t)
  BY <1>1, <1>3, TdPolicyShape DEF Goes, Follows
<1>4. CASE TdDown(t)
  BY <1>1, <1>4, TdDownShape DEF Goes, Follows
<1>5. CASE TdKs(t)
  <2>1. /\ task[t].mode = settings /\ UNCHANGED settings
        /\ ks' = KillSwitchFor(task[t].mode, FALSE)
        /\ Completes(t) \/ Aborts(t)
    BY <1>5, TdKsShape DEF Follows, Fault
  <2>2. ASSUME NEW result, Answers(t, result) PROVE Follows'
    BY <2>1, <2>2, ReconciledFollows DEF Answers
  <2> QED
    BY <2>1, <2>2, ReconciledFollows DEF Completes, Aborts, Goes, Ends
<1> QED
  BY <1>2, <1>3, <1>4, <1>5 DEF TeardownStep

LEMMA OthersFollows ==
    ASSUME Types, Follows, NEW t \in Task,
           \/ CancelStart(t) \/ CancelMark(t) \/ CancelLock(t)
           \/ DisconnectStart(t) \/ DisconnectLock(t)
           \/ WatchJailed(t) \/ WatchReject(t) \/ WatchLock(t) \/ WatchEnds(t)
           \/ DeadlinePasses(t) \/ Reply(t)
    PROVE  Follows'
<1> USE FollowsKept, AnswersFollows DEF At, Calm, Goes, Reads, Tears, Ends, Starts, ModeRead
<1>1. CASE CancelStart(t) \/ CancelMark(t) \/ CancelLock(t)
  BY <1>1, CancelStartShape, CancelMarkShape, CancelLockShape
<1>2. CASE DisconnectStart(t) \/ DisconnectLock(t)
  BY <1>2, DisconnectStartShape, DisconnectLockShape
<1>3. CASE WatchJailed(t) \/ WatchReject(t)
  BY <1>3, WatchJailedShape, WatchRejectShape
<1>4. CASE WatchLock(t) \/ WatchEnds(t)
  BY <1>4, WatchLockShape, WatchEndsShape
<1>5. CASE DeadlinePasses(t) \/ Reply(t)
  <2>1. DeadlinePasses(t) => task[t].pc # "bringup"
    BY DEF DeadlinePasses
  <2> QED
    BY <1>5, <2>1, DeadlinePassesShape, ReplyShape DEF Follows
<1> QED
  BY <1>1, <1>2, <1>3, <1>4, <1>5

\* Every step keeps the kill switch with the settings.
LEMMA NextFollows ==
    ASSUME "route" \notin Faults, BaseInv, NoFeature, Follows, [Next]_vars
    PROVE  Follows'
<1> USE DEF BaseInv
<1>1. CASE UNCHANGED vars
  BY <1>1 DEF vars, rtVars, netVars, Follows
<1>2. ASSUME NEW r \in Request, NEW c \in Client, NEW m \in Method, Submit(r, c, m)
      PROVE  Follows'
  BY <1>2, SubmitShape, FollowsKept, ConstantsTyped DEF Calm, ModeRead, Idle
<1>3. ASSUME NEW t \in Task, Step(t) \/ TakeLock(t) \/ DeadlinePasses(t)
      PROVE  Follows'
  BY <1>3, ConnectFollows, TeardownFollows, OthersFollows, FeatureShape DEF Step, TakeLock, NoFeature
<1>4. ASSUME NEW w \in Watcher, WatchJailed(w) \/ WatchEnds(w)
      PROVE  Follows'
  BY <1>4, OthersFollows, ConstantsTyped
<1>5. CASE Maintenance
  BY <1>5 DEF Maintenance, SplitRouteObserve, SplitRouteReconcile, PolicyRead, PolicyApply,
              rtVars, netVars, Follows
<1>6. CASE World
  BY <1>6 DEF World, TunnelUp, TunnelFails, TunnelDrops, ForeignUp, ForeignDown, rtVars, Follows
<1> QED
  BY <1>1, <1>2, <1>3, <1>4, <1>5, <1>6 DEF Next

\* reconcile_kill_switch leaves, on every path of the connects and teardowns including the
\* failed ones, no standard kill switch without a tunnel, and the advanced one exactly
\* when the settings ask for it.
THEOREM KillSwitchFollows ==
    ASSUME Method \subseteq Protocol, "route" \notin Faults
    PROVE  Spec => []KillSwitchSettles
<1>1. Init => NoFeature /\ Follows
  BY DEF Init, NoFeature, Follows, Idle, ModeRead
<1>2. BaseInv /\ NoFeature /\ Follows /\ [Next]_vars => NoFeature' /\ Follows'
  BY NextNoFeature, NextFollows DEF BaseInv
<1>3. Follows => KillSwitchSettles
  BY DEF Follows, KillSwitchSettles, Quiet
<1> QED
  BY <1>1, <1>2, <1>3, BaseHolds, PTL DEF Spec

-----------------------------------------------------------------------------
(* The operation coordinator inside the composition. *)

\* A handler runs only for a method that the clients call.
Asked ==
    \A t \in Task :
        /\ task[t].job = "connect" => "connection.connect" \in Method
        /\ task[t].job = "disconnect" => "connection.disconnect" \in Method
        /\ task[t].job = "feature" => "feature.set" \in Method

\* Every step keeps a handler to the methods that clients call.
LEMMA NextAsked ==
    ASSUME Types, Asked, [Next]_vars
    PROVE  Asked'
<1>1. ASSUME NEW t \in Task, NEW job, NEW pc, NEW att, NEW uuid, NEW mode, NEW ret, NEW result,
             Moves(t, job, pc, att, uuid, mode, ret, result),
             job \in {task[t].job, "idle", "watch"}
      PROVE  Asked'
  BY <1>1 DEF Moves, Asked
<1>2. ASSUME NEW t \in Task, NEW result, Answers(t, result) PROVE Asked'
  BY <1>1, <1>2 DEF Answers
<1>3. ASSUME NEW t \in Task, ConnectStep(t) \/ ConnectLock(t) PROVE Asked'
  <2>1. CASE ConnectReady(t)
    BY <1>1, <2>1, ConnectReadyShape DEF Spawns, CleansUp, Tears, At, Asked
  <2>2. CASE ConnectStart(t) \/ ConnectPrepare(t) \/ ConnectLock(t) \/ ConnectSelect(t)
    BY <1>1, <1>2, <2>2, ConnectStartShape, ConnectPrepareShape, ConnectLockShape,
       ConnectSelectShape DEF Starts, Fails, Goes, Reads
  <2>3. CASE ConnectObserve(t) \/ ConnectVerify(t) \/ ConnectPolicy(t)
    BY <1>1, <1>2, <2>3, ConnectObserveShape, ConnectVerifyShape, ConnectPolicyShape
       DEF Fails, Goes, Tears
  <2>4. CASE ConnectActivate(t) \/ ConnectBringup(t)
    BY <1>1, <1>2, <2>4, ConnectActivateShape, ConnectBringupShape DEF Fails, Goes
  <2>5. CASE ConnectPoll(t) \/ ConnectAgent(t)
    BY <1>1, <1>2, <2>5, ConnectPollShape, ConnectAgentShape DEF Fails, Goes, Tears, CleansUp
  <2> QED
    BY <1>3, <2>1, <2>2, <2>3, <2>4, <2>5 DEF ConnectStep
<1>4. ASSUME NEW t \in Task, TeardownStep(t) PROVE Asked'
  <2>1. ASSUME Completes(t) \/ Aborts(t) PROVE Asked'
    BY <1>1, <1>2, <2>1 DEF Completes, Aborts, Goes, Ends
  <2> QED
    BY <1>1, <1>4, <2>1, TdBypassShape, TdPolicyShape, TdDownShape, TdKsShape
       DEF TeardownStep, Goes, Reads
<1>5. ASSUME NEW t \in Task,
             \/ CancelStart(t) \/ CancelMark(t) \/ CancelLock(t)
             \/ DisconnectStart(t) \/ DisconnectLock(t)
             \/ WatchJailed(t) \/ WatchReject(t) \/ WatchLock(t) \/ WatchEnds(t)
             \/ FeatureStep(t) \/ DeadlinePasses(t) \/ Reply(t)
      PROVE  Asked'
  BY <1>1, <1>2, <1>5, CancelStartShape, CancelMarkShape, CancelLockShape, DisconnectStartShape,
     DisconnectLockShape, WatchJailedShape, WatchRejectShape, WatchLockShape, WatchEndsShape,
     FeatureShape, DeadlinePassesShape, ReplyShape
     DEF Goes, Reads, Tears, Ends, Starts
<1>6. ASSUME NEW r \in Request, NEW c \in Client, NEW m \in Method, Submit(r, c, m)
      PROVE  Asked'
  <2>1. /\ JobOf(m) = "connect" => m = "connection.connect"
        /\ JobOf(m) = "disconnect" => m = "connection.disconnect"
        /\ JobOf(m) = "feature" => m = "feature.set"
    BY ConnectionAssumption DEF JobOf
  <2> QED
    BY <1>6, <2>1, SubmitShape, ConstantsTyped DEF Moves, Asked
<1>7. ASSUME Maintenance \/ World \/ UNCHANGED vars
      PROVE  Asked'
  BY <1>7 DEF Maintenance, SplitRouteObserve, SplitRouteReconcile, PolicyRead, PolicyApply, World,
              TunnelUp, TunnelFails, TunnelDrops, ForeignUp, ForeignDown, vars, Asked
<1>8. ASSUME NEW t \in Task, Step(t) \/ TakeLock(t) \/ DeadlinePasses(t)
      PROVE  Asked'
  BY <1>3, <1>4, <1>5, <1>8 DEF Step, TakeLock
<1>9. ASSUME NEW w \in Watcher, WatchJailed(w) \/ WatchEnds(w)
      PROVE  Asked'
  BY <1>5, <1>9, ConstantsTyped
<1> QED
  BY <1>6, <1>7, <1>8, <1>9 DEF Next

\* What a step of the composition does to the coordinator: nothing, or one of its steps.
LEMMA CoordinatorSteps ==
    ASSUME Types, Asked, [Next]_vars
    PROVE  \/ UNCHANGED opsVars
           \/ \E r \in Request, c \in Client, m \in Method : Ops!begin(r, c, m)
           \/ \E r \in Request, result \in Ops!Result : Ops!finish(r, result)
           \/ \E m \in Method \cap Ops!Mutations : Ops!update_stage(m, "working")
           \/ Ops!update_stage("connection.connect", "cancelling")
<1> DEFINE Goal == \/ UNCHANGED opsVars
                   \/ \E r \in Request, c \in Client, m \in Method : Ops!begin(r, c, m)
                   \/ \E r \in Request, result \in Ops!Result : Ops!finish(r, result)
                   \/ \E m \in Method \cap Ops!Mutations : Ops!update_stage(m, "working")
                   \/ Ops!update_stage("connection.connect", "cancelling")
<1>1. {"connection.connect", "connection.disconnect", "feature.set"} \subseteq Ops!Mutations
  BY DEF Ops!Mutations, Ops!TunnelMethods
<1>2. ASSUME NEW t \in Task, ConnectStep(t) PROVE Goal
  <2>1. CASE \/ ConnectStart(t) \/ ConnectPrepare(t) \/ ConnectVerify(t) \/ ConnectActivate(t)
             \/ ConnectBringup(t) \/ ConnectAgent(t) \/ ConnectReady(t)
    BY <2>1 DEF ConnectStart, ConnectPrepare, ConnectVerify, ConnectActivate, ConnectBringup,
                ConnectAgent, ConnectReady
  <2>2. \/ ConnectSelect(t) \/ ConnectObserve(t) \/ ConnectPolicy(t) \/ ConnectPoll(t)
        => UNCHANGED opsVars \/ Ops!update_stage("connection.connect", "working")
    BY DEF ConnectSelect, ConnectObserve, ConnectPolicy, ConnectPoll
  <2>3. task[t].job = "connect"
    BY <1>2 DEF ConnectStep, ConnectStart, ConnectPrepare, ConnectSelect, ConnectObserve,
         ConnectVerify, ConnectPolicy, ConnectActivate, ConnectBringup, ConnectPoll, ConnectAgent,
         ConnectReady, At
  <2>4. "connection.connect" \in Method \cap Ops!Mutations
    BY <1>1, <2>3 DEF Asked
  <2> QED
    BY <1>2, <2>1, <2>2, <2>4 DEF ConnectStep
<1>3. ASSUME NEW t \in Task, TeardownStep(t) \/ TakeLock(t) \/ DeadlinePasses(t) PROVE Goal
  BY <1>3 DEF TeardownStep, TdBypass, TdPolicy, TdDown, TdKs, TakeLock, ConnectLock, CancelLock,
              DisconnectLock, WatchLock, DeadlinePasses
<1>4. ASSUME NEW t \in Task, FeatureStep(t) PROVE Goal
  <2>1. "feature.set" \in Method \cap Ops!Mutations
    BY <1>1, <1>4, FeatureShape DEF Asked
  <2>2. UNCHANGED opsVars \/ Ops!update_stage("feature.set", "working")
    BY <1>4 DEF FeatureStep, FeatureStart, FeatureOff, FeatureOffKs, FeatureApply, FeatureBypass,
                FeaturePersist, FeatureUndo, FeatureUndoBypass
  <2> QED
    BY <2>1, <2>2
<1>5. ASSUME NEW t \in Task, CancelStart(t) \/ CancelMark(t) \/ WatchReject(t) PROVE Goal
  BY <1>5 DEF CancelStart, CancelMark, WatchReject
<1>6. ASSUME NEW t \in Task, DisconnectStart(t) PROVE Goal
  <2>1. "connection.disconnect" \in Method \cap Ops!Mutations
    BY <1>1, <1>6 DEF DisconnectStart, At, Asked
  <2> QED
    BY <1>6, <2>1 DEF DisconnectStart
<1>7. ASSUME NEW r \in Request, Reply(r) PROVE Goal
  <2> DEFINE result == IF task[r].result = "ErrNotOwned" THEN "ErrOther" ELSE task[r].result
  <2>1. result \in Ops!Result
    BY TaskFields, ConstantsTyped DEF Types, Results, Ops!Result
  <2>2. Ops!finish(r, result)
    BY <1>7 DEF Reply
  <2> QED
    BY <2>1, <2>2
<1>8. ASSUME NEW r \in Request, NEW c \in Client, NEW m \in Method, Submit(r, c, m)
      PROVE  Goal
  BY <1>8 DEF Submit
<1>9. ASSUME Maintenance \/ World \/ UNCHANGED vars PROVE Goal
  BY <1>9 DEF Maintenance, SplitRouteObserve, SplitRouteReconcile, PolicyRead, PolicyApply, World,
              TunnelUp, TunnelFails, TunnelDrops, ForeignUp, ForeignDown, vars
<1>10. ASSUME NEW w \in Watcher, WatchJailed(w) \/ WatchEnds(w) PROVE Goal
  BY <1>10 DEF WatchJailed, WatchEnds
<1> HIDE DEF Goal
<1>11. ASSUME NEW t \in Task, Step(t) \/ TakeLock(t) \/ DeadlinePasses(t) PROVE Goal
  BY <1>2, <1>3, <1>4, <1>5, <1>6, <1>7, <1>11 DEF Step
<1>12. Goal
  BY <1>8, <1>9, <1>10, <1>11 DEF Next
<1> QED
  BY <1>12 DEF Goal

\* The composition implements the operation coordinator: whatever the handlers do, they
\* call begin, update_stage and finish only as OperationCoordinator's specification
\* allows.
THEOREM DrivesCoordinator == Spec => Ops!Spec
<1>1. Init => Asked
  BY DEF Init, Asked, Idle
<1>2. BaseInv /\ Asked /\ [Next]_vars => Asked'
  BY NextAsked DEF BaseInv
<1>3. BaseInv /\ Asked /\ [Next]_vars => [Ops!Next]_(Ops!vars)
  BY CoordinatorSteps DEF BaseInv, Ops!Next, Ops!Progress, Ops!vars, opsVars
<1>4. Init => Ops!Init
  BY DEF Init
<1> QED
  BY <1>1, <1>2, <1>3, <1>4, BaseHolds, PTL DEF Spec, Ops!Spec

-----------------------------------------------------------------------------
(* The coordinator's own invariant, carried over: OpsP has its proofs, and each of its *)
(* definitions is that of Ops.                                                         *)

OpsP == INSTANCE OperationsProofs

\* The tables of the coordinator are the same in both instances.
LEMMA SameMethods ==
    /\ OpsP!Mutations = Ops!Mutations
    /\ OpsP!Controls = Ops!Controls
    /\ OpsP!StableSessionReads = Ops!StableSessionReads /\ OpsP!PlainReads = Ops!PlainReads
    /\ \A m : OpsP!DomainOf(m) = Ops!DomainOf(m)
    /\ \A m : OpsP!TargetKind(m) = Ops!TargetKind(m)
    /\ \A m : OpsP!RequiresTarget(m) <=> Ops!RequiresTarget(m)
    /\ \A l, r : OpsP!domains_conflict(l, r) <=> Ops!domains_conflict(l, r)
    /\ \A m : OpsP!ControlStage(m) = Ops!ControlStage(m)
    /\ \A m : OpsP!InitialStage(m) = Ops!InitialStage(m)
    /\ OpsP!NoLease = Ops!NoLease /\ OpsP!Result = Ops!Result
BY Zenon DEF OpsP!Mutations, Ops!Mutations, Ops!AuthMethods, OpsP!AuthMethods, Ops!TunnelMethods,
       OpsP!TunnelMethods, Ops!SupportMethods, OpsP!SupportMethods, Ops!StoreMethods,
       OpsP!StoreMethods, OpsP!DomainOf, Ops!DomainOf,
       OpsP!Controls, Ops!Controls, OpsP!Fido2Controls, Ops!Fido2Controls, OpsP!TunnelControls,
       Ops!TunnelControls, OpsP!TargetKind, Ops!TargetKind, OpsP!RequiresTarget, Ops!RequiresTarget,
       OpsP!domains_conflict, Ops!domains_conflict, OpsP!ControlStage, Ops!ControlStage,
       OpsP!InitialStage, Ops!InitialStage, OpsP!StableSessionReads, Ops!StableSessionReads,
       OpsP!PlainReads, Ops!PlainReads, OpsP!NoLease, Ops!NoLease, OpsP!Result, Ops!Result

LEMMA SameAssumptions == OpsP!MethodAssumption /\ OpsP!LimitAssumption
BY CoordinatorAssumption, SameMethods
   DEF Ops!MethodAssumption, OpsP!MethodAssumption, Ops!LimitAssumption, OpsP!LimitAssumption

\* So are its calls.
LEMMA SameBegin ==
    ASSUME NEW r, NEW c, NEW m, Ops!begin(r, c, m)
    PROVE  OpsP!begin(r, c, m)
<1>1. Ops!AttachControl(r, m) => OpsP!AttachControl(r, m)
  BY SameMethods, Zenon DEF Ops!AttachControl, OpsP!AttachControl, Ops!IsTarget, OpsP!IsTarget,
     Ops!SetStage, OpsP!SetStage
<1>2. Ops!Open(r, c, m) => OpsP!Open(r, c, m)
  BY SameMethods, Zenon DEF Ops!Open, OpsP!Open, Ops!IsTarget, OpsP!IsTarget, Ops!CanOpen,
     OpsP!CanOpen, Ops!NewRecord, OpsP!NewRecord
<1>3. Ops!BeginRead(r, m) => OpsP!BeginRead(r, m)
  BY SameMethods, Zenon DEF Ops!BeginRead, OpsP!BeginRead
<1> QED
  BY <1>1, <1>2, <1>3 DEF Ops!begin, OpsP!begin

LEMMA SameFinish ==
    ASSUME NEW r, NEW result, Ops!finish(r, result)
    PROVE  OpsP!finish(r, result)
BY SameMethods, Zenon DEF Ops!finish, OpsP!finish, Ops!FinishOwner, OpsP!FinishOwner,
   Ops!FinishControl, OpsP!FinishControl, Ops!FinishRead, OpsP!FinishRead, Ops!SetStage,
   OpsP!SetStage, Ops!FinalState, OpsP!FinalState, Ops!PushFront, OpsP!PushFront

LEMMA SameUpdate ==
    ASSUME NEW m, NEW s, Ops!update_stage(m, s)
    PROVE  OpsP!update_stage(m, s)
BY Zenon DEF Ops!update_stage, OpsP!update_stage, Ops!SetStage, OpsP!SetStage

\* And its properties.
LEMMA SameInv == OpsP!IInv => Ops!NoConflictingOperations /\ Ops!LeaseDiscipline
BY SameMethods, Zenon DEF OpsP!IInv, OpsP!NoConflictingOperations, Ops!NoConflictingOperations,
   OpsP!LeaseDiscipline, Ops!LeaseDiscipline

\* In the composition too, operations of conflicting domains are never active together and
\* each is waited for by the one request that will end it (OperationCoordinator::begin,
\* finish).
THEOREM OperationsStayApart ==
    Spec => [](Ops!NoConflictingOperations /\ Ops!LeaseDiscipline)
<1>1. Init => Asked
  BY DEF Init, Asked, Idle
<1>2. BaseInv /\ Asked /\ [Next]_vars => Asked'
  BY NextAsked DEF BaseInv
<1>3. Init => OpsP!IInv
  <2>1. Init => OpsP!Init
    BY SameMethods DEF Init, Ops!Init, OpsP!Init
  <2> QED
    BY <2>1, SameAssumptions, OpsP!InitIInv
<1>4. BaseInv /\ Asked /\ OpsP!IInv /\ [Next]_vars => (OpsP!IInv)'
  <2>1. BaseInv /\ Asked /\ [Next]_vars => [OpsP!Next]_(OpsP!vars)
    BY CoordinatorSteps, SameMethods, SameBegin, SameFinish, SameUpdate
       DEF BaseInv, OpsP!Next, OpsP!Progress, OpsP!vars, opsVars
  <2> QED
    BY <2>1, SameAssumptions, OpsP!NextIInv
<1> QED
  BY <1>1, <1>2, <1>3, <1>4, SameInv, BaseHolds, PTL DEF Spec
=============================================================================
