--------------------------- MODULE AccountProofs ----------------------------
(***************************************************************************)
(* Account for any number of requests and token generations: the session   *)
(* in memory and the stored one, the second factor, the published status   *)
(* and what a logout leaves.                                               *)
(***************************************************************************)
EXTENDS Account, TLAPS

-----------------------------------------------------------------------------
(* The inductive invariant. *)

LoginJobs == {"account.login", "account.submit_2fa", "account.authenticate_fido2"}

\* Where the handler of each request may be.
PlaceOK(k) ==
    \/ k.job = "idle" /\ k.pc = "idle"
    \/ k.job = "initialize" /\ k.pc \in {"load", "tunnel", "agent", "rejected", "teardown"}
    \/ k.job \in AllCalls /\ k.pc \in {"queued", "reply"}
    \/ /\ k.job = "account.retry_restore"
       /\ k.pc \in {"read", "store", "network", "observe", "agent", "rejected", "teardown",
                    "publish"}
    \/ k.job = "account.login" /\ k.pc = "authenticate"
    \/ k.job = "account.authenticate_fido2" /\ k.pc = "touch"
    \/ k.job \in {"account.submit_2fa", "account.authenticate_fido2"} /\ k.pc = "verify"
    \/ k.job \in LoginJobs /\ k.pc \in {"finalize", "save", "store"}
    \/ k.job = "account.refresh" /\ k.pc \in {"rotate", "save", "store"}
    \/ k.job = "account.logout" /\ k.pc \in {"observe", "network", "down", "clear", "publish"}
    \/ k.job = "account.get" /\ k.pc = "emit"
    \/ k.job = "connection.disconnect" /\ k.pc = "down"

\* The handlers between taking auth_write and returning.
Holding(k) ==
    /\ k.job \notin {"idle", "initialize", "account.get", "connection.disconnect"}
    /\ k.pc \notin {"queued", "reply"}

\* What the holder of auth_write may rely on: what it saw of the session when it took
\* the lock, and that what it has read from or written to the keyring is there.
HoldingOK(t, k) ==
    /\ auth_write = t
    /\ k.job \in LoginJobs => session = 0 /\ ~session_restore_pending
    /\ k.job = "account.refresh" => session # 0 /\ ~session_restore_pending
    /\ k.job = "account.logout" => ~session_restore_pending
    /\ k.job = "account.retry_restore" =>
        (session_restore_pending <=> k.pc \in {"read", "store"})
    /\ k.pc \in {"save", "store"} /\ k.job # "account.retry_restore" => k.gen # 0
    /\ k.pc = "store" => keyring = k.gen

TaskOK(t) ==
    /\ PlaceOK(task[t])
    /\ t = "main" => task[t].job \in {"idle", "initialize"}
    /\ t = "recovery" => task[t].job \in {"idle", "account.retry_restore"}
    /\ task[t].job = "initialize" => t = "main"
    /\ Holding(task[t]) => HoldingOK(t, task[t])

TasksOK == \A t \in Task : TaskOK(t)

\* Before initialize is over nothing else runs.
BootOK ==
    ~Booted =>
        /\ \A t \in Task \ {"main"} : task[t] = Idle
        /\ auth_write = NoTask /\ ~pending_auth
        /\ task["main"].pc = "load" => session_restore_pending /\ account = "restoring"

\* Nobody is asked for a second factor who has a session, saved or in use.
SecondFactorOK ==
    /\ pending_auth => session = 0 /\ ~session_restore_pending
    /\ session_restore_pending => session = 0

Storing(k) == k.pc = "store" /\ k.job # "account.retry_restore"

\* The keyring is behind only while its holder is between the two writes.
KeyringOK ==
    \/ session_restore_pending
    \/ keyring \in {session} \cup in_doubt
    \/ \E t \in Task : Storing(task[t])

IInv == TypeOK /\ TasksOK /\ BootOK /\ SecondFactorOK /\ KeyringOK

-----------------------------------------------------------------------------
(* What a step does to its task. *)

Moved(t) == task' \in [Task -> TaskState] /\ \A u \in Task \ {t} : task'[u] = task[u]

LEMMA Names ==
    /\ "main" \in Task /\ "recovery" \in Task /\ "main" \notin Request /\ "recovery" \notin Request
    /\ NoTask \notin Task /\ \A r \in Request : r \in Task
BY AccountAssumption DEF Task, NoTask

LEMMA IdleType == Idle \in TaskState
BY AccountAssumption DEF Idle, TaskState, Generation, Pcs, Status

LEMMA GotoEffect ==
    ASSUME TypeOK, NEW t \in Task, NEW pc \in Pcs, Goto(t, pc)
    PROVE  /\ Moved(t)
           /\ task'[t].pc = pc /\ task'[t].job = task[t].job
           /\ task'[t].gen = task[t].gen /\ task'[t].ok = task[t].ok
BY DEF TypeOK, Goto, Moved, TaskState

LEMMA ReturnEffect ==
    ASSUME TypeOK, NEW t \in Task, NEW ok \in BOOLEAN, Return(t, ok)
    PROVE  /\ Moved(t)
           /\ t \in Request => task'[t].pc = "reply" /\ task'[t].job = task[t].job
                               /\ task'[t].ok = ok
           /\ t \notin Request => task'[t] = Idle
           /\ auth_write' \in Task \cup {NoTask}
           /\ auth_write = t => auth_write' = NoTask
           /\ auth_write # t => auth_write' = auth_write
<1>1. /\ auth_write' \in Task \cup {NoTask}
      /\ auth_write = t => auth_write' = NoTask
      /\ auth_write # t => auth_write' = auth_write
  BY DEF TypeOK, Return
<1>2. CASE t \in Request
  <2>1. task' = [task EXCEPT ![t] = [task[t] EXCEPT !.pc = "reply", !.ok = ok]]
    BY <1>2 DEF Return
  <2>2. [task[t] EXCEPT !.pc = "reply", !.ok = ok] \in TaskState
    BY DEF TypeOK, TaskState, Pcs
  <2>3. Moved(t) /\ task'[t] = [task[t] EXCEPT !.pc = "reply", !.ok = ok]
    BY <2>1, <2>2 DEF TypeOK, Moved
  <2> QED
    BY <1>1, <1>2, <2>3 DEF TypeOK, TaskState
<1>3. CASE t \notin Request
  <2>1. task' = [task EXCEPT ![t] = Idle]
    BY <1>3 DEF Return
  <2> QED
    BY <1>1, <1>3, <2>1, IdleType DEF TypeOK, Moved
<1> QED
  BY <1>2, <1>3

-----------------------------------------------------------------------------
(* A step of one task keeps the invariant if it keeps the task's part of it. *)

\* Only the holder of auth_write changes what holders rely on.
LEMMA StepInv ==
    ASSUME IInv, NEW t \in Task, TypeOK', Moved(t), TaskOK(t)', SecondFactorOK', KeyringOK',
           Booted \/ task[t] # Idle,
           \/ auth_write \in {t, NoTask} /\ t # "main"
           \/ UNCHANGED <<session, session_restore_pending, keyring, auth_write>>,
           t = "main" => /\ ~Booted /\ UNCHANGED <<auth_write, pending_auth>>
                         /\ task'["main"].pc # "load"
    PROVE  IInv'
<1>1. ASSUME NEW u \in Task, u # t PROVE TaskOK(u)'
  <2>1. task'[u] = task[u] /\ TaskOK(u)
    BY <1>1 DEF IInv, TasksOK, Moved
  <2>2. CASE UNCHANGED <<session, session_restore_pending, keyring, auth_write>>
    BY <2>1, <2>2 DEF TaskOK, HoldingOK
  <2>3. CASE auth_write \in {t, NoTask}
    <3>1. auth_write # u
      BY <1>1, <2>3, Names
    <3>2. ~Holding(task[u])
      BY <2>1, <3>1 DEF TaskOK, HoldingOK
    <3> QED
      BY <2>1, <3>2 DEF TaskOK
  <2> QED
    BY <2>2, <2>3
<1>2. TasksOK'
  BY <1>1 DEF TasksOK
<1>3. BootOK'
  <2>1. CASE t = "main"
    BY <2>1, Names DEF IInv, BootOK, Booted, Moved, Idle
  <2>2. CASE t # "main"
    <3>1. task'["main"] = task["main"]
      BY <2>2, Names DEF Moved
    <3>2. Booted
      BY <2>2 DEF IInv, BootOK
    <3> QED
      BY <3>1, <3>2 DEF BootOK, Booted
  <2> QED
    BY <2>1, <2>2
<1> QED
  BY <1>2, <1>3 DEF IInv

LEMMA KeyringKept ==
    ASSUME IInv, NEW t \in Task, Moved(t), ~Storing(task[t]),
           UNCHANGED <<session, session_restore_pending, keyring, in_doubt>>
    PROVE  KeyringOK'
BY DEF IInv, KeyringOK, Moved

\* Steps that change neither session nor keyring.
LEMMA QuietInv ==
    ASSUME IInv, NEW t \in Task, TypeOK', Moved(t), TaskOK(t)', ~Storing(task[t]),
           Booted \/ task[t] # Idle,
           UNCHANGED <<session, session_restore_pending, pending_auth, keyring, in_doubt>>,
           (auth_write \in {t, NoTask} /\ t # "main") \/ UNCHANGED auth_write,
           t = "main" => ~Booted /\ UNCHANGED auth_write /\ task'["main"].pc # "load"
    PROVE  IInv'
<1>1. KeyringOK'
  BY KeyringKept
<1>2. SecondFactorOK'
  BY DEF IInv, SecondFactorOK
<1> QED
  BY <1>1, <1>2, StepInv

\* What is typed besides the tasks.
LEMMA QuietTypes ==
    ASSUME TypeOK, NEW t \in Task, Moved(t),
           UNCHANGED <<session, session_restore_pending, pending_auth, keyring, in_doubt>>,
           UNCHANGED <<readable, issued, calls>>,
           auth_write' \in Task \cup {NoTask}, network_write' \in Task \cup {NoTask},
           account' \in Status, owned' \in BOOLEAN,
           tunnel' \in {"none", "connecting", "connected"}
    PROVE  TypeOK'
BY DEF TypeOK, Moved

LEMMA StatusType == ASSUME NEW p, NEW s, NEW q PROVE AccountStatus(p, s, q) \in Status
BY DEF AccountStatus, Status

\* A handler that returns has its task in order again.
LEMMA ReturnTask ==
    ASSUME IInv, NEW t \in Task, t # "main", task[t].job # "idle", NEW ok \in BOOLEAN,
           Return(t, ok)
    PROVE  TaskOK(t)' /\ Moved(t) /\ auth_write' \in Task \cup {NoTask} /\ task[t] # Idle
<1>1. TypeOK /\ TaskOK(t)
  BY DEF IInv, TasksOK
<1>2. CASE t \in Request
  <2>1. task'[t].pc = "reply" /\ task'[t].job = task[t].job /\ task[t].job \in AllCalls
    BY <1>1, <1>2, ReturnEffect DEF TaskOK, PlaceOK, AllCalls, LoginJobs
  <2>2. t # "main" /\ t # "recovery"
    BY <1>2, Names
  <2> QED
    BY <1>1, <2>1, <2>2, ReturnEffect DEF TaskOK, PlaceOK, Holding, AllCalls, Idle
<1>3. CASE t \notin Request
  <2>1. task'[t] = Idle
    BY <1>1, <1>3, ReturnEffect
  <2> QED
    BY <1>1, <2>1, ReturnEffect DEF TaskOK, PlaceOK, Holding, Idle
<1> QED
  BY <1>2, <1>3

\* Steps that answer without anything having changed but the lock.
LEMMA ReturnQuiet ==
    ASSUME IInv, NEW t \in Task, t # "main", task[t].job # "idle", ~Storing(task[t]),
           NEW ok \in BOOLEAN, Return(t, ok),
           UNCHANGED <<session, session_restore_pending, pending_auth, keyring, in_doubt>>,
           UNCHANGED <<readable, issued, calls>>,
           network_write' \in Task \cup {NoTask}, account' \in Status, owned' \in BOOLEAN,
           tunnel' \in {"none", "connecting", "connected"}
    PROVE  IInv'
<1>1. TaskOK(t)' /\ Moved(t) /\ auth_write' \in Task \cup {NoTask} /\ task[t] # Idle
  BY ReturnTask
<1>2. TypeOK'
  BY <1>1, QuietTypes DEF IInv
<1>3. auth_write = t \/ auth_write' = auth_write
  BY DEF Return
<1> QED
  BY <1>1, <1>2, <1>3, QuietInv

\* Steps to another place that change nothing a holder relies on.
LEMMA GotoQuiet ==
    ASSUME IInv, NEW t \in Task, t # "main", task[t].job # "idle", ~Storing(task[t]),
           NEW pc \in Pcs, Goto(t, pc), pc # "store",
           TaskOK(t)',
           UNCHANGED <<session, session_restore_pending, pending_auth, keyring, in_doubt>>,
           UNCHANGED <<readable, issued, calls>>,
           (auth_write = NoTask /\ auth_write' = t) \/ UNCHANGED auth_write,
           network_write' \in Task \cup {NoTask}, account' \in Status, owned' \in BOOLEAN,
           tunnel' \in {"none", "connecting", "connected"}
    PROVE  IInv'
<1>1. Moved(t) /\ task[t] # Idle
  BY GotoEffect DEF IInv, Idle
<1>2. TypeOK'
  BY <1>1, QuietTypes DEF IInv, TypeOK
<1> QED
  BY <1>1, <1>2, QuietInv

-----------------------------------------------------------------------------
(* initialize and restore_session *)

LEMMA RestoreLockInv == ASSUME IInv, NEW t \in Task, RestoreLock(t) PROVE IInv'
<1>1. TypeOK /\ TaskOK(t) /\ task[t].job = "account.retry_restore" /\ task[t].pc = "queued"
  BY DEF IInv, TasksOK, RestoreLock, At
<1>2. t # "main" /\ ~Storing(task[t])
  BY <1>1 DEF TaskOK, Storing
<1>3. CASE session_restore_pending
  <2>1. TakeAuth(t) /\ Goto(t, "read")
    BY <1>3 DEF RestoreLock
  <2>2. /\ task'[t].pc = "read" /\ task'[t].job = "account.retry_restore"
    BY <1>1, <2>1, GotoEffect DEF Pcs
  <2>3. TaskOK(t)'
    BY <1>1, <1>3, <2>1, <2>2
       DEF TaskOK, PlaceOK, Holding, HoldingOK, LoginJobs, TakeAuth, RestoreLock, stateVars
  <2> QED
    BY <1>1, <1>2, <2>1, <2>3, GotoQuiet
       DEF RestoreLock, TakeAuth, TypeOK, Pcs, stateVars, worldVars
<1>4. CASE ~session_restore_pending
  <2>1. Return(t, TRUE)
    BY <1>4 DEF RestoreLock, Refuse
  <2> QED
    BY <1>1, <1>2, <2>1, ReturnQuiet DEF RestoreLock, TypeOK, stateVars, worldVars
<1> QED
  BY <1>3, <1>4

LEMMA RestoreReadInv == ASSUME IInv, NEW t \in Task, RestoreRead(t) PROVE IInv'
<1>1. TypeOK /\ TaskOK(t) /\ task[t].job = "account.retry_restore" /\ task[t].pc = "read"
  BY DEF IInv, TasksOK, RestoreRead, TaskOK, PlaceOK, AllCalls
<1>2. t # "main" /\ ~Storing(task[t]) /\ task[t] # Idle
  BY <1>1 DEF TaskOK, Storing, Idle
<1>3. CASE readable
  <2>1. task' = [task EXCEPT ![t].pc = "store", ![t].gen = keyring] /\ UNCHANGED auth_write
    BY <1>3 DEF RestoreRead
  <2>2. [task[t] EXCEPT !.pc = "store", !.gen = keyring] \in TaskState
    BY <1>1 DEF TypeOK, TaskState, Pcs
  <2>3. /\ Moved(t) /\ task'[t].pc = "store" /\ task'[t].job = "account.retry_restore"
        /\ task'[t].gen = keyring
    BY <1>1, <2>1, <2>2 DEF TypeOK, Moved, TaskState
  <2>4. TypeOK'
    BY <1>1, <2>1, <2>3, QuietTypes DEF RestoreRead, TypeOK, stateVars, worldVars
  <2>5. TaskOK(t)'
    BY <1>1, <2>1, <2>3 DEF TaskOK, PlaceOK, Holding, HoldingOK, LoginJobs, RestoreRead,
                             stateVars, worldVars
  <2> QED
    BY <1>2, <2>1, <2>3, <2>4, <2>5, QuietInv DEF RestoreRead, stateVars, worldVars
<1>4. CASE ~readable
  <2>1. Return(t, FALSE)
    BY <1>4 DEF RestoreRead
  <2> QED
    BY <1>1, <1>2, <2>1, ReturnQuiet DEF RestoreRead, TypeOK, stateVars, worldVars
<1> QED
  BY <1>3, <1>4

LEMMA RestoreStoreInv == ASSUME IInv, NEW t \in Task, RestoreStore(t) PROVE IInv'
<1>1. TypeOK /\ TaskOK(t) /\ task[t].job = "account.retry_restore" /\ task[t].pc = "store"
  BY DEF IInv, TasksOK, RestoreStore, At
<1>2. /\ t # "main" /\ task[t] # Idle /\ session_restore_pending /\ auth_write = t
      /\ keyring = task[t].gen /\ task[t].gen \in Generation
  BY <1>1 DEF TaskOK, Holding, HoldingOK, Idle, TypeOK, TaskState
<1>3. /\ Moved(t) /\ task'[t].pc = "network" /\ task'[t].job = "account.retry_restore"
  BY <1>1, GotoEffect DEF RestoreStore, Pcs
<1>4. TypeOK'
  BY <1>1, <1>2, <1>3 DEF RestoreStore, TypeOK, Moved, worldVars
<1>5. TaskOK(t)'
  BY <1>1, <1>2, <1>3 DEF TaskOK, PlaceOK, Holding, HoldingOK, LoginJobs, RestoreStore
<1>6. SecondFactorOK' /\ KeyringOK'
  BY <1>2 DEF IInv, SecondFactorOK, KeyringOK, RestoreStore, worldVars
<1> QED
  BY <1>2, <1>3, <1>4, <1>5, <1>6, StepInv

LEMMA RestoreNetworkInv == ASSUME IInv, NEW t \in Task, RestoreNetwork(t) PROVE IInv'
<1>1. TypeOK /\ TaskOK(t) /\ task[t].job = "account.retry_restore" /\ task[t].pc = "network"
  BY DEF IInv, TasksOK, RestoreNetwork, At
<1>2. t # "main" /\ ~Storing(task[t])
  BY <1>1 DEF TaskOK, Storing
<1>3. task'[t].pc = "observe" /\ task'[t].job = "account.retry_restore"
  BY <1>1, GotoEffect DEF RestoreNetwork, Pcs
<1>4. TaskOK(t)'
  BY <1>1, <1>3 DEF TaskOK, PlaceOK, Holding, HoldingOK, LoginJobs, RestoreNetwork, stateVars
<1> QED
  BY <1>1, <1>2, <1>4, GotoQuiet DEF RestoreNetwork, TypeOK, Pcs, stateVars, worldVars

LEMMA RestoreObserveInv == ASSUME IInv, NEW t \in Task, RestoreObserve(t) PROVE IInv'
<1>1. TypeOK /\ TaskOK(t) /\ task[t].job = "account.retry_restore" /\ task[t].pc = "observe"
  BY DEF IInv, TasksOK, RestoreObserve, At
<1>2. t # "main" /\ ~Storing(task[t])
  BY <1>1 DEF TaskOK, Storing
<1>3. ASSUME NEW pc \in {"publish", "agent"}, Goto(t, pc) PROVE IInv'
  <2>1. task'[t].pc = pc /\ task'[t].job = "account.retry_restore"
    BY <1>1, <1>3, GotoEffect DEF Pcs
  <2>2. TaskOK(t)'
    BY <1>1, <2>1 DEF TaskOK, PlaceOK, Holding, HoldingOK, LoginJobs, RestoreObserve, stateVars
  <2>3. network_write' \in Task \cup {NoTask} /\ owned' \in BOOLEAN
    BY <1>1 DEF RestoreObserve, TypeOK
  <2> QED
    BY <1>1, <1>2, <1>3, <2>2, <2>3, GotoQuiet
       DEF RestoreObserve, TypeOK, Pcs, stateVars, worldVars
<1> QED
  BY <1>3 DEF RestoreObserve

\* The steps that initialize shares with restore_session.
LEMMA RestoredInv ==
    ASSUME IInv, NEW t \in Task, task[t].pc \in {"agent", "teardown"}, Restored(t),
           UNCHANGED <<stateVars, keyring, in_doubt, readable, issued, auth_write, calls>>,
           network_write' \in Task \cup {NoTask}, owned' \in BOOLEAN,
           tunnel' \in {"none", "connecting", "connected"}
    PROVE  IInv'
<1>1. TypeOK /\ TaskOK(t)
  BY DEF IInv, TasksOK
<1>2. ~Storing(task[t]) /\ task[t] # Idle /\ account' \in Status
  BY <1>1 DEF Storing, Idle, TypeOK, stateVars
<1>3. CASE t = "main"
  <2>1. task' = [task EXCEPT !["main"] = Idle]
    BY <1>3 DEF Restored
  <2>2. Moved(t) /\ task'[t] = Idle
    BY <1>1, <1>3, <2>1, IdleType DEF TypeOK, Moved
  <2>3. TaskOK(t)' /\ task'[t].pc # "load"
    BY <1>3, <2>2 DEF TaskOK, PlaceOK, Holding, Idle
  <2>4. TypeOK'
    BY <1>1, <1>2, <2>2, QuietTypes DEF stateVars, TypeOK
  <2>5. ~Booted
    BY <1>3 DEF Booted
  <2> QED
    BY <1>2, <1>3, <2>2, <2>3, <2>4, <2>5, QuietInv DEF stateVars
<1>4. CASE t # "main"
  <2>1. task[t].job = "account.retry_restore"
    BY <1>1, <1>4 DEF TaskOK, PlaceOK
  <2>2. Goto(t, "publish")
    BY <1>4 DEF Restored
  <2>3. task'[t].pc = "publish" /\ task'[t].job = "account.retry_restore"
    BY <1>1, <2>1, <2>2, GotoEffect DEF Pcs
  <2>4. TaskOK(t)'
    BY <1>1, <1>4, <2>1, <2>3
       DEF TaskOK, PlaceOK, Holding, HoldingOK, LoginJobs, stateVars
  <2> QED
    BY <1>1, <1>2, <1>4, <2>1, <2>2, <2>4, GotoQuiet DEF Pcs, stateVars
<1> QED
  BY <1>3, <1>4

\* The same for a step to a place before that.
LEMMA RejectingInv ==
    ASSUME IInv, NEW t \in Task, task[t].pc \in {"agent", "rejected"},
           NEW pc \in {"rejected", "teardown"}, Goto(t, pc),
           UNCHANGED <<stateVars, worldVars, owned, auth_write, calls>>,
           network_write' \in Task \cup {NoTask}
    PROVE  IInv'
<1>1. TypeOK /\ TaskOK(t)
  BY DEF IInv, TasksOK
<1>2. ~Storing(task[t]) /\ task[t] # Idle
  BY DEF Storing, Idle
<1>3. Moved(t) /\ task'[t].pc = pc /\ task'[t].job = task[t].job
  BY <1>1, GotoEffect DEF Pcs
<1>4. TypeOK'
  BY <1>1, <1>3, QuietTypes DEF stateVars, worldVars, TypeOK
<1>5. TaskOK(t)'
  BY <1>1, <1>3 DEF TaskOK, PlaceOK, Holding, HoldingOK, LoginJobs, AllCalls, stateVars, worldVars
<1>6. t = "main" => ~Booted
  BY DEF Booted
<1> QED
  BY <1>2, <1>3, <1>4, <1>5, <1>6, QuietInv DEF stateVars, worldVars

LEMMA RestoreAgentInv == ASSUME IInv, NEW t \in Task, RestoreAgent(t) PROVE IInv'
<1>1. CASE Restored(t)
  BY <1>1, RestoredInv DEF RestoreAgent, IInv, TypeOK, worldVars
<1>2. CASE Goto(t, "rejected") /\ UNCHANGED network_write
  BY <1>2, RejectingInv DEF RestoreAgent, IInv, TypeOK
<1> QED
  BY <1>1, <1>2 DEF RestoreAgent

LEMMA RejectedInv == ASSUME IInv, NEW t \in Task, Rejected(t) PROVE IInv'
BY RejectingInv DEF Rejected

LEMMA RejectedTeardownInv == ASSUME IInv, NEW t \in Task, RejectedTeardown(t) PROVE IInv'
<1>1. owned' \in BOOLEAN /\ tunnel' \in {"none", "connecting", "connected"}
  BY DEF RejectedTeardown, IInv, TypeOK
<1> QED
  BY <1>1, RestoredInv DEF RejectedTeardown

LEMMA PublishInv == ASSUME IInv, NEW t \in Task, Publish(t) PROVE IInv'
<1>1. TypeOK /\ TaskOK(t) /\ task[t].pc = "publish"
  BY DEF IInv, TasksOK, Publish
<1>2. t # "main" /\ task[t].job # "idle" /\ ~Storing(task[t])
  BY <1>1 DEF TaskOK, PlaceOK, Storing
<1>3. account' \in Status
  BY StatusType DEF Publish, CurrentStatus
<1> QED
  BY <1>1, <1>2, <1>3, ReturnQuiet DEF Publish, TypeOK, worldVars

LEMMA InitializeLoadInv == ASSUME IInv, InitializeLoad PROVE IInv'
<1>1. TypeOK /\ "main" \in Task /\ task["main"].job = "initialize" /\ task["main"].pc = "load"
  BY Names DEF IInv, InitializeLoad, At
<1>2. /\ ~Booted /\ auth_write = NoTask /\ pending_auth = FALSE
      /\ \A u \in Task \ {"main"} : task[u] = Idle
  BY <1>1 DEF IInv, BootOK, Booted, TypeOK
<1>3. Moved("main") /\ task'["main"].pc = "tunnel" /\ task'["main"].job = "initialize"
  BY <1>1, GotoEffect DEF InitializeLoad, Pcs
<1>4. /\ session' = IF readable THEN keyring ELSE 0
      /\ session_restore_pending' = ~readable
      /\ UNCHANGED <<pending_auth, auth_write, keyring, in_doubt, readable, issued, tunnel>>
      /\ UNCHANGED <<owned, network_write, calls>>
      /\ account' \in Status
  BY StatusType DEF InitializeLoad, worldVars
<1>5. TypeOK'
  BY <1>1, <1>3, <1>4, AccountAssumption DEF TypeOK, Moved, Generation
<1>6. TasksOK'
  <2>1. TaskOK("main")'
    BY <1>3 DEF TaskOK, PlaceOK, Holding
  <2>2. ASSUME NEW u \in Task \ {"main"} PROVE TaskOK(u)'
    BY <1>2, <1>3 DEF Moved, TaskOK, PlaceOK, Holding, Idle
  <2> QED
    BY <2>1, <2>2 DEF TasksOK
<1>7. BootOK'
  BY <1>2, <1>3, <1>4 DEF BootOK, Moved
<1>8. SecondFactorOK' /\ KeyringOK'
  BY <1>1, <1>2, <1>4 DEF SecondFactorOK, KeyringOK, TypeOK
<1> QED
  BY <1>5, <1>6, <1>7, <1>8 DEF IInv

LEMMA InitializeTunnelInv == ASSUME IInv, InitializeTunnel PROVE IInv'
<1>1. TypeOK /\ "main" \in Task /\ task["main"].job = "initialize" /\ task["main"].pc = "tunnel"
  BY Names DEF IInv, InitializeTunnel, At
<1>2. ~Booted /\ task["main"] # Idle /\ ~Storing(task["main"])
  BY <1>1 DEF Booted, Idle, Storing
<1>3. /\ Moved("main")
      /\ \/ task'["main"] = Idle
         \/ task'["main"].pc \in {"agent", "rejected"} /\ task'["main"].job = "initialize"
  <2>1. CASE task' = [task EXCEPT !["main"] = Idle]
    BY <1>1, <2>1, IdleType DEF TypeOK, Moved
  <2>2. ASSUME NEW pc \in {"agent", "rejected"}, Goto("main", pc)
        PROVE  Moved("main") /\ task'["main"].pc = pc /\ task'["main"].job = "initialize"
    BY <1>1, <2>2, GotoEffect DEF Pcs
  <2> QED
    BY <2>1, <2>2 DEF InitializeTunnel
<1>4. owned' \in BOOLEAN
  BY <1>1 DEF InitializeTunnel, TypeOK
<1>5. TypeOK'
  BY <1>1, <1>3, <1>4, QuietTypes DEF InitializeTunnel, TypeOK, stateVars, worldVars
<1>6. TaskOK("main")' /\ task'["main"].pc # "load"
  BY <1>3 DEF TaskOK, PlaceOK, Holding, Idle
<1> QED
  BY <1>1, <1>2, <1>3, <1>5, <1>6, QuietInv DEF InitializeTunnel, stateVars, worldVars

\* A task that begins.
LEMMA BeginInv ==
    ASSUME IInv, NEW t \in Task, t # "main", NEW m \in AllCalls, Booted, task[t] = Idle,
           t = "recovery" => m = "account.retry_restore",
           task' = [task EXCEPT ![t] = [Idle EXCEPT !.job = m, !.pc = "queued"]],
           UNCHANGED <<stateVars, worldVars, owned, auth_write, network_write>>,
           calls' \in 0 .. MaxCalls
    PROVE  IInv'
<1>1. TypeOK
  BY DEF IInv
<1>2. /\ [Idle EXCEPT !.job = m, !.pc = "queued"] \in TaskState
      /\ [Idle EXCEPT !.job = m, !.pc = "queued"].job = m
      /\ [Idle EXCEPT !.job = m, !.pc = "queued"].pc = "queued"
  BY IdleType DEF TaskState, Pcs
<1>3. Moved(t) /\ task'[t].job = m /\ task'[t].pc = "queued"
  BY <1>1, <1>2 DEF TypeOK, Moved
<1>4. TypeOK'
  BY <1>1, <1>3 DEF TypeOK, Moved, stateVars, worldVars
<1>5. TaskOK(t)'
  BY <1>3 DEF TaskOK, PlaceOK, Holding, AllCalls
<1>6. ~Storing(task[t])
  BY DEF Storing, Idle
<1> QED
  BY <1>3, <1>4, <1>5, <1>6, QuietInv DEF stateVars, worldVars

LEMMA RecoveryTickInv == ASSUME IInv, RecoveryTick PROVE IInv'
BY BeginInv, Names DEF RecoveryTick, AllCalls, IInv, TypeOK

LEMMA SubmitInv == ASSUME IInv, NEW r \in Request, NEW m \in Calls, Submit(r, m) PROVE IInv'
<1>1. calls' \in 0 .. MaxCalls
  BY AccountAssumption DEF Submit, IInv, TypeOK
<1>2. r \in Task /\ r # "main" /\ r # "recovery" /\ m \in AllCalls
  BY Names, AccountAssumption
<1> QED
  BY <1>1, <1>2, BeginInv DEF Submit

LEMMA ReplyInv == ASSUME IInv, NEW r \in Request, Reply(r) PROVE IInv'
<1>1. TypeOK /\ r \in Task /\ r # "main" /\ task[r].pc = "reply"
  BY Names DEF IInv, Reply
<1>2. Moved(r) /\ task'[r] = Idle
  BY <1>1, IdleType DEF Reply, TypeOK, Moved
<1>3. TypeOK'
  BY <1>1, <1>2, QuietTypes DEF Reply, TypeOK, stateVars, worldVars
<1>4. TaskOK(r)'
  BY <1>1, <1>2 DEF TaskOK, PlaceOK, Holding, Idle
<1>5. ~Storing(task[r]) /\ task[r] # Idle
  BY <1>1 DEF Storing, Idle
<1> QED
  BY <1>1, <1>2, <1>3, <1>4, <1>5, QuietInv DEF Reply, stateVars, worldVars

-----------------------------------------------------------------------------
(* account_login, account_submit_2fa, account_authenticate_fido2 *)

\* A handler answers and may change whether a second factor is waited for.
LEMMA ReturnAuth ==
    ASSUME IInv, NEW t \in Task, t # "main", task[t].job # "idle", ~Storing(task[t]),
           auth_write = t, session = 0 /\ ~session_restore_pending,
           NEW ok \in BOOLEAN, Return(t, ok),
           UNCHANGED <<session, session_restore_pending, keyring, in_doubt>>,
           UNCHANGED <<readable, issued, calls, owned, network_write, tunnel>>,
           pending_auth' \in BOOLEAN, account' \in Status
    PROVE  IInv'
<1>1. TaskOK(t)' /\ Moved(t) /\ auth_write' \in Task \cup {NoTask} /\ task[t] # Idle
  BY ReturnTask
<1>2. TypeOK'
  BY <1>1 DEF IInv, TypeOK, Moved
<1>3. SecondFactorOK'
  BY DEF SecondFactorOK
<1>4. KeyringOK'
  BY <1>1, KeyringKept
<1> QED
  BY <1>1, <1>2, <1>3, <1>4, StepInv

\* A handler of a login goes on.
LEMMA GotoAuth ==
    ASSUME IInv, NEW t \in Task, task[t].job \in LoginJobs, Holding(task[t]),
           ~Storing(task[t]), NEW pc \in {"verify", "finalize"}, Goto(t, pc),
           pc = "verify" => task[t].job # "account.login",
           UNCHANGED <<session, session_restore_pending, keyring, in_doubt, auth_write>>,
           UNCHANGED <<readable, issued, calls, owned, network_write, tunnel, account>>,
           pending_auth' \in {pending_auth, FALSE}
    PROVE  IInv'
<1>1. TypeOK /\ TaskOK(t) /\ HoldingOK(t, task[t])
  BY DEF IInv, TasksOK, TaskOK
<1>2. Moved(t) /\ task'[t].pc = pc /\ task'[t].job = task[t].job
  BY <1>1, GotoEffect DEF Pcs
<1>3. TypeOK'
  BY <1>1, <1>2 DEF TypeOK, Moved
<1>4. TaskOK(t)'
  BY <1>1, <1>2 DEF TaskOK, PlaceOK, Holding, HoldingOK, LoginJobs
<1>5. t # "main" /\ task[t] # Idle
  BY <1>1 DEF TaskOK, LoginJobs, Idle
<1>6. SecondFactorOK'
  BY <1>1 DEF HoldingOK, SecondFactorOK
<1>7. KeyringOK'
  BY <1>2, KeyringKept
<1> QED
  BY <1>2, <1>3, <1>4, <1>5, <1>6, <1>7, StepInv

LEMMA LoginLockInv == ASSUME IInv, NEW t \in Task, LoginLock(t) PROVE IInv'
<1>1. TypeOK /\ TaskOK(t) /\ task[t].job = "account.login" /\ task[t].pc = "queued"
  BY DEF IInv, TasksOK, LoginLock, At
<1>2. t # "main" /\ ~Storing(task[t])
  BY <1>1 DEF TaskOK, Storing
<1>3. ASSUME NEW ok \in BOOLEAN, Refuse(t, ok), UNCHANGED account PROVE IInv'
  BY <1>1, <1>2, <1>3, ReturnQuiet DEF LoginLock, Refuse, TypeOK, worldVars
<1>4. CASE /\ ~session_restore_pending /\ session = 0
           /\ TakeAuth(t)
           /\ account' = "signing_in"
           /\ Goto(t, "authenticate")
  <2>1. task'[t].pc = "authenticate" /\ task'[t].job = "account.login"
    BY <1>1, <1>4, GotoEffect DEF Pcs
  <2>2. TaskOK(t)'
    BY <1>1, <1>4, <2>1 DEF TaskOK, PlaceOK, Holding, HoldingOK, LoginJobs, TakeAuth, LoginLock
  <2> QED
    BY <1>1, <1>2, <1>4, <2>2, GotoQuiet
       DEF LoginLock, TakeAuth, TypeOK, Pcs, Status, worldVars
<1> QED
  BY <1>3, <1>4 DEF LoginLock

LEMMA LoginAuthenticateInv == ASSUME IInv, NEW t \in Task, LoginAuthenticate(t) PROVE IInv'
<1>1. TypeOK /\ TaskOK(t) /\ task[t].job = "account.login" /\ task[t].pc = "authenticate"
  BY DEF IInv, TasksOK, LoginAuthenticate, TaskOK, PlaceOK, AllCalls
<1>2. /\ t # "main" /\ ~Storing(task[t]) /\ task[t].job \in LoginJobs /\ Holding(task[t])
      /\ auth_write = t /\ session = 0 /\ ~session_restore_pending
  BY <1>1 DEF TaskOK, Storing, Holding, HoldingOK, LoginJobs
<1>3. ASSUME NEW needs2fa \in BOOLEAN, NEW ok \in BOOLEAN, ReturnPublishing(t, needs2fa, ok)
      PROVE  IInv'
  <2>1. account' \in Status /\ pending_auth' \in BOOLEAN /\ Return(t, ok)
    BY <1>3, StatusType DEF ReturnPublishing
  <2> QED
    BY <1>1, <1>2, <2>1, ReturnAuth DEF LoginAuthenticate, worldVars
<1>4. CASE Goto(t, "finalize") /\ UNCHANGED <<pending_auth, account, auth_write>>
  BY <1>2, <1>4, GotoAuth DEF LoginAuthenticate, worldVars
<1> QED
  BY <1>3, <1>4 DEF LoginAuthenticate

LEMMA Submit2faLockInv == ASSUME IInv, NEW t \in Task, Submit2faLock(t) PROVE IInv'
<1>1. TypeOK /\ TaskOK(t) /\ task[t].job = "account.submit_2fa" /\ task[t].pc = "queued"
  BY DEF IInv, TasksOK, Submit2faLock, At
<1>2. t # "main" /\ ~Storing(task[t]) /\ task[t] # Idle
  BY <1>1 DEF TaskOK, Storing, Idle
<1>3. CASE ~pending_auth /\ Refuse(t, FALSE)
  <2>1. pending_auth' = pending_auth
    BY <1>1, <1>3 DEF Submit2faLock, TypeOK
  <2> QED
    BY <1>1, <1>2, <1>3, <2>1, ReturnQuiet DEF Submit2faLock, Refuse, TypeOK, worldVars
<1>4. CASE pending_auth /\ TakeAuth(t) /\ Goto(t, "verify")
  <2>1. Moved(t) /\ task'[t].pc = "verify" /\ task'[t].job = "account.submit_2fa"
    BY <1>1, <1>4, GotoEffect DEF Pcs
  <2>2. session = 0 /\ ~session_restore_pending
    BY <1>4 DEF IInv, SecondFactorOK
  <2>3. TaskOK(t)'
    BY <1>1, <1>4, <2>1, <2>2
       DEF TaskOK, PlaceOK, Holding, HoldingOK, LoginJobs, TakeAuth, Submit2faLock
  <2>4. TypeOK'
    BY <1>1, <1>4, <2>1 DEF Submit2faLock, TakeAuth, TypeOK, Moved, worldVars
  <2>5. SecondFactorOK'
    BY <2>2 DEF SecondFactorOK, Submit2faLock
  <2>6. KeyringOK'
    BY <1>2, <2>1, KeyringKept DEF Submit2faLock, worldVars
  <2> QED
    BY <1>2, <1>4, <2>1, <2>3, <2>4, <2>5, <2>6, StepInv DEF TakeAuth
<1> QED
  BY <1>3, <1>4 DEF Submit2faLock

LEMMA Fido2LockInv == ASSUME IInv, NEW t \in Task, Fido2Lock(t) PROVE IInv'
<1>1. /\ TypeOK /\ TaskOK(t) /\ task[t].job = "account.authenticate_fido2"
      /\ task[t].pc = "queued"
  BY DEF IInv, TasksOK, Fido2Lock, At
<1>2. t # "main" /\ ~Storing(task[t])
  BY <1>1 DEF TaskOK, Storing
<1>3. CASE Refuse(t, FALSE)
  BY <1>1, <1>2, <1>3, ReturnQuiet DEF Fido2Lock, Refuse, TypeOK, stateVars, worldVars
<1>4. CASE pending_auth /\ TakeAuth(t) /\ Goto(t, "touch")
  <2>1. task'[t].pc = "touch" /\ task'[t].job = "account.authenticate_fido2"
    BY <1>1, <1>4, GotoEffect DEF Pcs
  <2>2. session = 0 /\ ~session_restore_pending
    BY <1>4 DEF IInv, SecondFactorOK
  <2>3. TaskOK(t)'
    BY <1>1, <1>4, <2>1, <2>2
       DEF TaskOK, PlaceOK, Holding, HoldingOK, LoginJobs, TakeAuth, Fido2Lock, stateVars
  <2> QED
    BY <1>1, <1>2, <1>4, <2>3, GotoQuiet
       DEF Fido2Lock, TakeAuth, TypeOK, Pcs, stateVars, worldVars
<1> QED
  BY <1>3, <1>4 DEF Fido2Lock

LEMMA Fido2TouchInv == ASSUME IInv, NEW t \in Task, Fido2Touch(t) PROVE IInv'
<1>1. /\ TypeOK /\ TaskOK(t) /\ task[t].job = "account.authenticate_fido2"
      /\ task[t].pc = "touch"
  BY DEF IInv, TasksOK, Fido2Touch, TaskOK, PlaceOK, AllCalls
<1>2. t # "main" /\ ~Storing(task[t]) /\ task[t].job \in LoginJobs /\ Holding(task[t])
  BY <1>1 DEF TaskOK, Storing, Holding, LoginJobs
<1>3. CASE Return(t, FALSE) /\ UNCHANGED pending_auth
  BY <1>1, <1>2, <1>3, ReturnQuiet DEF Fido2Touch, TypeOK, worldVars
<1>4. CASE pending_auth' = FALSE /\ Goto(t, "verify") /\ UNCHANGED auth_write
  BY <1>1, <1>2, <1>4, GotoAuth DEF Fido2Touch, worldVars
<1> QED
  BY <1>3, <1>4 DEF Fido2Touch

LEMMA VerifySecondFactorInv == ASSUME IInv, NEW t \in Task, VerifySecondFactor(t) PROVE IInv'
<1>1. TypeOK /\ TaskOK(t) /\ task[t].job \in LoginJobs /\ task[t].pc = "verify"
  BY DEF IInv, TasksOK, VerifySecondFactor, TaskOK, PlaceOK, AllCalls, LoginJobs
<1>2. /\ t # "main" /\ ~Storing(task[t]) /\ task[t].job # "idle" /\ Holding(task[t])
      /\ auth_write = t /\ session = 0 /\ ~session_restore_pending
  BY <1>1 DEF TaskOK, Storing, Holding, HoldingOK, LoginJobs
<1>3. ASSUME NEW needs2fa \in BOOLEAN, NEW ok \in BOOLEAN, ReturnPublishing(t, needs2fa, ok)
      PROVE  IInv'
  <2>1. account' \in Status /\ pending_auth' \in BOOLEAN /\ Return(t, ok)
    BY <1>3, StatusType DEF ReturnPublishing
  <2> QED
    BY <1>1, <1>2, <2>1, ReturnAuth DEF VerifySecondFactor, worldVars
<1>4. CASE Goto(t, "finalize") /\ UNCHANGED <<pending_auth, account, auth_write>>
  BY <1>1, <1>2, <1>4, GotoAuth DEF VerifySecondFactor, worldVars
<1> QED
  BY <1>3, <1>4 DEF VerifySecondFactor

\* New tokens are issued: their generation is not 0.
LEMMA IssueInv ==
    ASSUME IInv, NEW t \in Task, Holding(task[t]), task[t].pc \in {"finalize", "rotate"},
           issued < MaxIssued, issued' = issued + 1,
           task' = [task EXCEPT ![t].pc = "save", ![t].gen = issued + 1],
           UNCHANGED <<stateVars, keyring, in_doubt, readable, tunnel, owned, auth_write>>,
           UNCHANGED <<network_write, calls>>
    PROVE  IInv'
<1>1. TypeOK /\ TaskOK(t) /\ HoldingOK(t, task[t])
  BY DEF IInv, TasksOK, TaskOK
<1>2. issued + 1 \in Generation /\ issued + 1 # 0
  BY <1>1, AccountAssumption DEF TypeOK, Generation
<1>3. [task[t] EXCEPT !.pc = "save", !.gen = issued + 1] \in TaskState
  BY <1>1, <1>2 DEF TypeOK, TaskState, Pcs
<1>4. /\ Moved(t) /\ task'[t].pc = "save" /\ task'[t].job = task[t].job
      /\ task'[t].gen = issued + 1
  BY <1>1, <1>3 DEF TypeOK, Moved, TaskState
<1>5. TypeOK'
  BY <1>1, <1>2, <1>4 DEF TypeOK, Moved, stateVars
<1>6. task[t].job \in LoginJobs \cup {"account.refresh"}
  BY <1>1 DEF TaskOK, PlaceOK, LoginJobs
<1>7. TaskOK(t)'
  BY <1>1, <1>2, <1>4, <1>6 DEF TaskOK, PlaceOK, Holding, HoldingOK, LoginJobs, stateVars
<1>8. t # "main" /\ task[t] # Idle /\ ~Storing(task[t])
  BY <1>1, <1>6 DEF TaskOK, LoginJobs, Idle, Storing
<1> QED
  BY <1>4, <1>5, <1>7, <1>8, QuietInv DEF stateVars

LEMMA FinalizeFetchInv == ASSUME IInv, NEW t \in Task, FinalizeFetch(t) PROVE IInv'
<1>1. TypeOK /\ TaskOK(t) /\ task[t].job \in LoginJobs /\ task[t].pc = "finalize"
  BY DEF IInv, TasksOK, FinalizeFetch, TaskOK, PlaceOK, AllCalls, LoginJobs
<1>2. /\ t # "main" /\ ~Storing(task[t]) /\ task[t].job # "idle" /\ Holding(task[t])
      /\ auth_write = t /\ session = 0 /\ ~session_restore_pending
  BY <1>1 DEF TaskOK, Storing, Holding, HoldingOK, LoginJobs
<1>3. CASE ReturnPublishing(t, pending_auth, FALSE) /\ UNCHANGED issued
  <2>1. account' \in Status /\ pending_auth' \in BOOLEAN /\ Return(t, FALSE)
    BY <1>1, <1>3, StatusType DEF ReturnPublishing, TypeOK
  <2> QED
    BY <1>1, <1>2, <1>3, <2>1, ReturnAuth DEF FinalizeFetch
<1>4. CASE /\ issued < MaxIssued
           /\ issued' = issued + 1
           /\ task' = [task EXCEPT ![t].pc = "save", ![t].gen = issued + 1]
           /\ UNCHANGED <<pending_auth, account, auth_write>>
  BY <1>1, <1>2, <1>4, IssueInv DEF FinalizeFetch, stateVars
<1> QED
  BY <1>3, <1>4 DEF FinalizeFetch

LEMMA RefreshRotateInv == ASSUME IInv, NEW t \in Task, RefreshRotate(t) PROVE IInv'
<1>1. TypeOK /\ TaskOK(t) /\ task[t].job = "account.refresh" /\ task[t].pc = "rotate"
  BY DEF IInv, TasksOK, RefreshRotate, TaskOK, PlaceOK, AllCalls, LoginJobs
<1>2. t # "main" /\ ~Storing(task[t]) /\ Holding(task[t])
  BY <1>1 DEF TaskOK, Storing, Holding
<1>3. CASE Return(t, FALSE) /\ UNCHANGED issued
  BY <1>1, <1>2, <1>3, ReturnQuiet DEF RefreshRotate, TypeOK, stateVars
<1>4. CASE /\ issued < MaxIssued
           /\ issued' = issued + 1
           /\ task' = [task EXCEPT ![t].pc = "save", ![t].gen = issued + 1]
           /\ UNCHANGED auth_write
  BY <1>1, <1>2, <1>4, IssueInv DEF RefreshRotate
<1> QED
  BY <1>3, <1>4 DEF RefreshRotate

\* A write that fails leaves the old value or the new one, and the new one is in doubt.
LEMMA WriteFailsInv ==
    ASSUME IInv, NEW t \in Task, Holding(task[t]), ~Storing(task[t]),
           task[t].job # "account.retry_restore",
           NEW value \in Generation, WriteFails(value), Return(t, FALSE),
           UNCHANGED <<session, session_restore_pending, readable, issued, tunnel, owned>>,
           UNCHANGED <<network_write, calls>>,
           pending_auth' \in {pending_auth, FALSE}, account' \in Status
    PROVE  IInv'
<1>1. TypeOK /\ TaskOK(t) /\ HoldingOK(t, task[t])
  BY DEF IInv, TasksOK, TaskOK
<1>2. t # "main" /\ task[t].job # "idle" /\ auth_write = t
  BY <1>1 DEF TaskOK, HoldingOK, Holding
<1>3. TaskOK(t)' /\ Moved(t) /\ auth_write' \in Task \cup {NoTask} /\ task[t] # Idle
  BY <1>2, ReturnTask
<1>4. keyring' \in Generation /\ in_doubt' \subseteq Generation
  BY <1>1 DEF WriteFails, TypeOK
<1>5. TypeOK'
  BY <1>1, <1>3, <1>4 DEF TypeOK, Moved
<1>6. SecondFactorOK'
  <2>1. pending_auth' => pending_auth
    OBVIOUS
  <2> QED
    BY <2>1 DEF IInv, SecondFactorOK
<1>7. KeyringOK'
  <2>1. CASE session_restore_pending
    BY <2>1 DEF KeyringOK
  <2>2. CASE keyring \in {session} \cup in_doubt
    BY <2>2 DEF KeyringOK, WriteFails
  <2>3. CASE \E u \in Task : Storing(task[u])
    BY <2>3, <1>3 DEF KeyringOK, Moved
  <2> QED
    BY <2>1, <2>2, <2>3 DEF IInv, KeyringOK
<1> QED
  BY <1>2, <1>3, <1>5, <1>6, <1>7, StepInv

LEMMA SaveInv == ASSUME IInv, NEW t \in Task, Save(t) PROVE IInv'
<1>1. /\ TypeOK /\ TaskOK(t) /\ task[t].pc = "save"
      /\ task[t].job \in LoginJobs \cup {"account.refresh"}
  BY DEF IInv, TasksOK, Save, TaskOK, PlaceOK, AllCalls, LoginJobs
<1>2. /\ t # "main" /\ ~Storing(task[t]) /\ task[t] # Idle /\ Holding(task[t])
      /\ HoldingOK(t, task[t]) /\ task[t].job # "account.retry_restore"
      /\ task[t].gen \in Generation
  BY <1>1 DEF TaskOK, Storing, Holding, LoginJobs, Idle, TypeOK, TaskState
<1>3. CASE /\ keyring' = task[t].gen
           /\ Goto(t, "store")
           /\ UNCHANGED <<pending_auth, account, auth_write>>
           /\ in_doubt' = {}
  <2>1. /\ Moved(t) /\ task'[t].pc = "store" /\ task'[t].job = task[t].job
        /\ task'[t].gen = task[t].gen
    BY <1>1, <1>3, GotoEffect DEF Pcs
  <2>2. TypeOK'
    BY <1>1, <1>2, <1>3, <2>1 DEF Save, TypeOK, Moved
  <2>3. TaskOK(t)'
    BY <1>1, <1>2, <1>3, <2>1 DEF Save, TaskOK, PlaceOK, Holding, HoldingOK, LoginJobs
  <2>4. SecondFactorOK'
    BY <1>3 DEF IInv, SecondFactorOK, Save
  <2>5. KeyringOK'
    BY <1>2, <2>1 DEF KeyringOK, Storing
  <2>6. auth_write = t
    BY <1>2 DEF HoldingOK
  <2> QED
    BY <1>2, <2>1, <2>2, <2>3, <2>4, <2>5, <2>6, StepInv
<1>4. CASE /\ Return(t, FALSE) /\ WriteFails(task[t].gen)
           /\ pending_auth' = pending_auth /\ account' \in Status
  BY <1>1, <1>2, <1>4, WriteFailsInv DEF Save
<1>5. CASE ReturnPublishing(t, pending_auth, FALSE) /\ WriteFails(task[t].gen)
  <2>1. Return(t, FALSE) /\ pending_auth' = pending_auth /\ account' \in Status
    BY <1>5, StatusType DEF ReturnPublishing
  <2> QED
    BY <1>4, <1>5, <2>1
<1>6. CASE UNCHANGED <<pending_auth, account>> /\ Return(t, FALSE) /\ WriteFails(task[t].gen)
  BY <1>1, <1>4, <1>6 DEF TypeOK
<1> QED
  BY <1>3, <1>5, <1>6 DEF Save

LEMMA StoreSessionInv == ASSUME IInv, NEW t \in Task, StoreSession(t) PROVE IInv'
<1>1. /\ TypeOK /\ TaskOK(t) /\ task[t].pc = "store"
      /\ task[t].job \in LoginJobs \cup {"account.refresh"}
  BY DEF IInv, TasksOK, StoreSession, TaskOK, PlaceOK, AllCalls, LoginJobs
<1>2. /\ t # "main" /\ task[t].job # "idle" /\ HoldingOK(t, task[t]) /\ task[t].gen \in Generation
  BY <1>1 DEF TaskOK, Holding, LoginJobs, TypeOK, TaskState
<1>3. /\ keyring = task[t].gen /\ auth_write = t /\ ~session_restore_pending
      /\ task[t].job = "account.refresh" => session # 0
      /\ task[t].gen # 0
  BY <1>1, <1>2 DEF HoldingOK, LoginJobs
<1>4. TaskOK(t)' /\ Moved(t) /\ auth_write' \in Task \cup {NoTask} /\ task[t] # Idle
  BY <1>2, ReturnTask DEF StoreSession
<1>5. pending_auth' \in BOOLEAN /\ account' \in Status
  BY <1>1 DEF StoreSession, TypeOK, Status
<1>6. TypeOK'
  BY <1>1, <1>2, <1>4, <1>5 DEF StoreSession, TypeOK, Moved, worldVars
<1>7. SecondFactorOK'
  <2>1. ~pending_auth'
    BY <1>3 DEF IInv, SecondFactorOK, StoreSession
  <2> QED
    BY <1>3, <2>1 DEF SecondFactorOK, StoreSession
<1>8. KeyringOK'
  BY <1>3 DEF KeyringOK, StoreSession, worldVars
<1> QED
  BY <1>2, <1>3, <1>4, <1>6, <1>7, <1>8, StepInv

LEMMA RefreshLockInv == ASSUME IInv, NEW t \in Task, RefreshLock(t) PROVE IInv'
<1>1. TypeOK /\ TaskOK(t) /\ task[t].job = "account.refresh" /\ task[t].pc = "queued"
  BY DEF IInv, TasksOK, RefreshLock, At
<1>2. t # "main" /\ ~Storing(task[t])
  BY <1>1 DEF TaskOK, Storing
<1>3. CASE Refuse(t, TRUE)
  BY <1>1, <1>2, <1>3, ReturnQuiet DEF RefreshLock, Refuse, TypeOK, stateVars, worldVars
<1>4. CASE session # 0 /\ TakeAuth(t) /\ Goto(t, "rotate")
  <2>1. task'[t].pc = "rotate" /\ task'[t].job = "account.refresh"
    BY <1>1, <1>4, GotoEffect DEF Pcs
  <2>2. ~session_restore_pending
    BY <1>4 DEF IInv, SecondFactorOK
  <2>3. TaskOK(t)'
    BY <1>1, <1>4, <2>1, <2>2
       DEF TaskOK, PlaceOK, Holding, HoldingOK, LoginJobs, TakeAuth, RefreshLock, stateVars
  <2> QED
    BY <1>1, <1>2, <1>4, <2>3, GotoQuiet
       DEF RefreshLock, TakeAuth, TypeOK, Pcs, stateVars, worldVars
<1> QED
  BY <1>3, <1>4 DEF RefreshLock

-----------------------------------------------------------------------------
(* account_logout, and the requests without auth_write *)

LEMMA LogoutLockInv == ASSUME IInv, NEW t \in Task, LogoutLock(t) PROVE IInv'
<1>1. TypeOK /\ TaskOK(t) /\ task[t].job = "account.logout" /\ task[t].pc = "queued"
  BY DEF IInv, TasksOK, LogoutLock, At
<1>2. t # "main" /\ ~Storing(task[t])
  BY <1>1 DEF TaskOK, Storing
<1>3. CASE Refuse(t, FALSE)
  BY <1>1, <1>2, <1>3, ReturnQuiet DEF LogoutLock, Refuse, TypeOK, stateVars, worldVars
<1>4. CASE ~session_restore_pending /\ TakeAuth(t) /\ Goto(t, "observe")
  <2>1. task'[t].pc = "observe" /\ task'[t].job = "account.logout"
    BY <1>1, <1>4, GotoEffect DEF Pcs
  <2>2. TaskOK(t)'
    BY <1>1, <1>4, <2>1
       DEF TaskOK, PlaceOK, Holding, HoldingOK, LoginJobs, TakeAuth, LogoutLock, stateVars
  <2> QED
    BY <1>1, <1>2, <1>4, <2>2, GotoQuiet
       DEF LogoutLock, TakeAuth, TypeOK, Pcs, stateVars, worldVars
<1> QED
  BY <1>3, <1>4 DEF LogoutLock

\* A logout goes on, with the lock and without having changed the session.
LEMMA LogoutGoto ==
    ASSUME IInv, NEW t \in Task, task[t].job = "account.logout", Holding(task[t]),
           NEW pc \in {"network", "down", "clear"}, Goto(t, pc),
           UNCHANGED <<stateVars, keyring, in_doubt, readable, issued, auth_write, calls>>,
           network_write' \in Task \cup {NoTask}, owned' \in BOOLEAN,
           tunnel' \in {"none", "connecting", "connected"}
    PROVE  IInv'
<1>1. TypeOK /\ TaskOK(t) /\ HoldingOK(t, task[t])
  BY DEF IInv, TasksOK, TaskOK
<1>2. t # "main" /\ ~Storing(task[t])
  BY <1>1 DEF TaskOK, PlaceOK, Storing, LoginJobs
<1>3. task'[t].pc = pc /\ task'[t].job = "account.logout"
  BY <1>1, GotoEffect DEF Pcs
<1>4. TaskOK(t)'
  BY <1>1, <1>3 DEF TaskOK, PlaceOK, Holding, HoldingOK, LoginJobs, stateVars
<1> QED
  BY <1>1, <1>2, <1>4, GotoQuiet DEF TypeOK, Pcs, stateVars

LEMMA LogoutObserveInv == ASSUME IInv, NEW t \in Task, LogoutObserve(t) PROVE IInv'
<1>1. /\ TypeOK /\ TaskOK(t) /\ task[t].job = "account.logout" /\ task[t].pc = "observe"
      /\ Holding(task[t])
  BY DEF IInv, TasksOK, LogoutObserve, At, Holding
<1>2. t # "main" /\ ~Storing(task[t])
  BY <1>1 DEF TaskOK, Storing
<1>3. CASE Return(t, FALSE)
  BY <1>1, <1>2, <1>3, ReturnQuiet DEF LogoutObserve, TypeOK, stateVars, worldVars
<1>4. ASSUME NEW pc \in {"network", "clear"}, Goto(t, pc), UNCHANGED auth_write PROVE IInv'
  BY <1>1, <1>4, LogoutGoto DEF LogoutObserve, TypeOK, worldVars
<1> QED
  BY <1>3, <1>4 DEF LogoutObserve

LEMMA LogoutNetworkInv == ASSUME IInv, NEW t \in Task, LogoutNetwork(t) PROVE IInv'
<1>1. /\ TypeOK /\ task[t].job = "account.logout" /\ Holding(task[t])
  BY DEF IInv, LogoutNetwork, At, Holding
<1> QED
  BY <1>1, LogoutGoto DEF LogoutNetwork, TypeOK, worldVars

LEMMA LogoutDownInv == ASSUME IInv, NEW t \in Task, LogoutDown(t) PROVE IInv'
<1>1. /\ TypeOK /\ TaskOK(t) /\ task[t].job = "account.logout" /\ task[t].pc = "down"
      /\ Holding(task[t])
  BY DEF IInv, TasksOK, LogoutDown, At, Holding
<1>2. t # "main" /\ ~Storing(task[t])
  BY <1>1 DEF TaskOK, Storing
<1>3. CASE Goto(t, "clear") /\ UNCHANGED auth_write
  <2>1. /\ owned' \in BOOLEAN /\ tunnel' \in {"none", "connecting", "connected"}
        /\ network_write' = NoTask
    BY <1>1 DEF LogoutDown, TypeOK
  <2> QED
    BY <1>1, <1>3, <2>1, LogoutGoto DEF LogoutDown
<1>4. CASE Return(t, FALSE) /\ UNCHANGED <<tunnel, owned>>
  BY <1>1, <1>2, <1>4, ReturnQuiet DEF LogoutDown, TypeOK, stateVars
<1> QED
  BY <1>3, <1>4 DEF LogoutDown

LEMMA LogoutDeleteInv == ASSUME IInv, NEW t \in Task, LogoutDelete(t) PROVE IInv'
<1>1. /\ TypeOK /\ TaskOK(t) /\ task[t].job = "account.logout" /\ task[t].pc = "clear"
  BY DEF IInv, TasksOK, LogoutDelete, At
<1>2. /\ t # "main" /\ ~Storing(task[t]) /\ task[t] # Idle /\ Holding(task[t])
      /\ auth_write = t /\ ~session_restore_pending
  BY <1>1 DEF TaskOK, Storing, Holding, HoldingOK, Idle
<1>3. CASE /\ IF session # 0 THEN keyring' = 0 /\ in_doubt' = {}
                             ELSE UNCHANGED <<keyring, in_doubt>>
           /\ session' = 0
           /\ Goto(t, "publish")
           /\ UNCHANGED auth_write
  <2>1. Moved(t) /\ task'[t].pc = "publish" /\ task'[t].job = "account.logout"
    BY <1>1, <1>3, GotoEffect DEF Pcs
  <2>2. 0 \in Generation
    BY AccountAssumption DEF Generation
  <2>3. keyring' \in Generation /\ in_doubt' \subseteq Generation
    BY <1>1, <1>3, <2>2 DEF TypeOK
  <2>4. TypeOK'
    BY <1>1, <1>3, <2>1, <2>2, <2>3 DEF LogoutDelete, TypeOK, Moved
  <2>5. TaskOK(t)'
    BY <1>1, <1>2, <1>3, <2>1
       DEF LogoutDelete, TaskOK, PlaceOK, Holding, HoldingOK, LoginJobs
  <2>6. SecondFactorOK'
    BY <1>2, <1>3 DEF SecondFactorOK, LogoutDelete
  <2>7. KeyringOK'
    <3>1. CASE session # 0
      BY <1>3, <3>1 DEF KeyringOK
    <3>2. CASE session = 0
      BY <1>2, <1>3, <2>1, <3>2, KeyringKept DEF LogoutDelete
    <3> QED
      BY <3>1, <3>2
  <2> QED
    BY <1>2, <2>1, <2>4, <2>5, <2>6, <2>7, StepInv
<1>4. CASE Return(t, FALSE) /\ WriteFails(0) /\ UNCHANGED session
  <2>1. 0 \in Generation
    BY AccountAssumption DEF Generation
  <2> QED
    BY <1>1, <1>2, <1>4, <2>1, WriteFailsInv DEF LogoutDelete, TypeOK
<1> QED
  BY <1>3, <1>4 DEF LogoutDelete

LEMMA AccountGetReadInv == ASSUME IInv, NEW t \in Task, AccountGetRead(t) PROVE IInv'
<1>1. TypeOK /\ TaskOK(t) /\ task[t].job = "account.get" /\ task[t].pc = "queued"
  BY DEF IInv, TasksOK, AccountGetRead, At
<1>2. t # "main" /\ ~Storing(task[t]) /\ task[t] # Idle /\ CurrentStatus \in Status
  BY <1>1, StatusType DEF TaskOK, Storing, Idle, CurrentStatus
<1>3. [task[t] EXCEPT !.pc = "emit", !.seen = CurrentStatus] \in TaskState
  BY <1>1, <1>2 DEF TypeOK, TaskState, Pcs
<1>4. Moved(t) /\ task'[t].pc = "emit" /\ task'[t].job = "account.get"
  BY <1>1, <1>3 DEF AccountGetRead, TypeOK, Moved, TaskState
<1>5. TypeOK'
  BY <1>1, <1>4, QuietTypes DEF AccountGetRead, TypeOK, stateVars, worldVars
<1>6. TaskOK(t)'
  BY <1>1, <1>4 DEF TaskOK, PlaceOK, Holding
<1> QED
  BY <1>2, <1>4, <1>5, <1>6, QuietInv DEF AccountGetRead, stateVars, worldVars

LEMMA AccountGetEmitInv == ASSUME IInv, NEW t \in Task, AccountGetEmit(t) PROVE IInv'
<1>1. TypeOK /\ TaskOK(t) /\ task[t].job = "account.get" /\ task[t].pc = "emit"
  BY DEF IInv, TasksOK, AccountGetEmit, TaskOK, PlaceOK, AllCalls
<1>2. t # "main" /\ ~Storing(task[t]) /\ task[t].seen \in Status
  BY <1>1 DEF TaskOK, Storing, TypeOK, TaskState
<1> QED
  BY <1>1, <1>2, ReturnQuiet DEF AccountGetEmit, TypeOK, worldVars

LEMMA DisconnectLockInv == ASSUME IInv, NEW t \in Task, DisconnectLock(t) PROVE IInv'
<1>1. TypeOK /\ TaskOK(t) /\ task[t].job = "connection.disconnect" /\ task[t].pc = "queued"
  BY DEF IInv, TasksOK, DisconnectLock, At
<1>2. t # "main" /\ ~Storing(task[t])
  BY <1>1 DEF TaskOK, Storing
<1>3. CASE owned
  <2>1. network_write' = t /\ Goto(t, "down") /\ UNCHANGED auth_write
    BY <1>3 DEF DisconnectLock
  <2>2. task'[t].pc = "down" /\ task'[t].job = "connection.disconnect"
    BY <1>1, <2>1, GotoEffect DEF Pcs
  <2>3. TaskOK(t)'
    BY <1>1, <1>2, <2>2 DEF TaskOK, PlaceOK, Holding
  <2> QED
    BY <1>1, <1>2, <2>1, <2>3, GotoQuiet DEF DisconnectLock, TypeOK, Pcs, stateVars, worldVars
<1>4. CASE ~owned
  <2>1. Return(t, FALSE) /\ UNCHANGED network_write
    BY <1>4 DEF DisconnectLock
  <2> QED
    BY <1>1, <1>2, <2>1, ReturnQuiet DEF DisconnectLock, TypeOK, stateVars, worldVars
<1> QED
  BY <1>3, <1>4

LEMMA DisconnectDownInv == ASSUME IInv, NEW t \in Task, DisconnectDown(t) PROVE IInv'
<1>1. TypeOK /\ TaskOK(t) /\ task[t].job = "connection.disconnect" /\ task[t].pc = "down"
  BY DEF IInv, TasksOK, DisconnectDown, At
<1>2. t # "main" /\ ~Storing(task[t])
  BY <1>1 DEF TaskOK, Storing
<1>3. PICK ok \in BOOLEAN : Return(t, ok)
  BY DEF DisconnectDown
<1>4. /\ owned' \in BOOLEAN /\ tunnel' \in {"none", "connecting", "connected"}
      /\ network_write' = NoTask
  BY <1>1 DEF DisconnectDown, TypeOK
<1> QED
  BY <1>1, <1>2, <1>3, <1>4, ReturnQuiet DEF DisconnectDown, TypeOK, stateVars

-----------------------------------------------------------------------------

\* Steps that no task takes.
LEMMA WorldInv ==
    ASSUME IInv, UNCHANGED <<stateVars, keyring, in_doubt, issued, owned, auth_write>>,
           UNCHANGED <<network_write, task, calls>>,
           readable' \in BOOLEAN, tunnel' \in {"none", "connecting", "connected"}
    PROVE  IInv'
<1>1. TypeOK'
  BY DEF IInv, TypeOK, stateVars
<1>2. TasksOK' /\ BootOK' /\ SecondFactorOK' /\ KeyringOK'
  BY DEF IInv, TasksOK, TaskOK, HoldingOK, BootOK, Booted, SecondFactorOK, KeyringOK, stateVars
<1> QED
  BY <1>1, <1>2 DEF IInv

LEMMA InitIInv == Init => IInv
<1> SUFFICES ASSUME Init PROVE IInv
  OBVIOUS
<1> DEFINE begins == [Idle EXCEPT !.job = "initialize", !.pc = "load"]
<1>1. begins \in TaskState /\ begins.job = "initialize" /\ begins.pc = "load"
  BY IdleType DEF TaskState, Pcs, Idle
<1> HIDE DEF begins
<1>2. task = [t \in Task |-> IF t = "main" THEN begins ELSE Idle]
  BY DEF Init, begins
<1>3. {0, 1} \subseteq Generation
  BY AccountAssumption DEF Generation
<1>4. TypeOK
  <2>1. task \in [Task -> TaskState]
    BY <1>1, <1>2, IdleType
  <2>2. session \in Generation /\ keyring \in Generation /\ issued \in Generation
    BY <1>3, AccountAssumption DEF Init
  <2>3. calls \in 0 .. MaxCalls
    BY AccountAssumption DEF Init
  <2>4. tunnel \in {"none", "connecting", "connected"}
    BY AccountAssumption DEF Init
  <2> QED
    BY <2>1, <2>2, <2>3, <2>4 DEF Init, TypeOK, Status
<1>5. TasksOK
  BY <1>1, <1>2, Names DEF TasksOK, TaskOK, PlaceOK, Holding, Idle
<1>6. BootOK /\ SecondFactorOK /\ KeyringOK
  BY <1>1, <1>2, Names DEF Init, BootOK, SecondFactorOK, KeyringOK
<1> QED
  BY <1>4, <1>5, <1>6 DEF IInv

LEMMA NextIInv == ASSUME IInv, [Next]_vars PROVE IInv'
<1>1. CASE UNCHANGED vars
  BY <1>1, WorldInv DEF vars, IInv, TypeOK, worldVars
<1>2. CASE InitializeLoad \/ InitializeTunnel \/ RecoveryTick
  BY <1>2, InitializeLoadInv, InitializeTunnelInv, RecoveryTickInv
<1>3. CASE \E r \in Request, m \in Calls : Submit(r, m)
  BY <1>3, SubmitInv
<1>4. CASE KeyringUnlocks \/ TunnelUp
  BY <1>4, WorldInv DEF KeyringUnlocks, TunnelUp, IInv, TypeOK
<1>5. ASSUME NEW t \in Task, TakeLock(t) PROVE IInv'
  BY <1>5, RestoreLockInv, RestoreNetworkInv, RejectedInv, LoginLockInv, Submit2faLockInv,
     Fido2LockInv, RefreshLockInv, LogoutLockInv, LogoutNetworkInv, DisconnectLockInv
     DEF TakeLock
<1>6. ASSUME NEW t \in Task, Step(t) PROVE IInv'
  BY <1>6, RestoreReadInv, RestoreStoreInv, RestoreObserveInv, RestoreAgentInv,
     RejectedTeardownInv, PublishInv, LoginAuthenticateInv, Fido2TouchInv,
     VerifySecondFactorInv, FinalizeFetchInv, SaveInv, StoreSessionInv, RefreshRotateInv,
     LogoutObserveInv, LogoutDownInv, LogoutDeleteInv, AccountGetReadInv, AccountGetEmitInv,
     DisconnectDownInv, ReplyInv DEF Step, Restore
<1> QED
  BY <1>1, <1>2, <1>3, <1>4, <1>5, <1>6 DEF Next

-----------------------------------------------------------------------------
(* What follows. *)

\* The types, and what a handler may rely on between taking auth_write and returning:
\* the session it saw, and that the keyring holds what it read or wrote.
THEOREM InvariantHolds == Spec => []IInv
BY InitIInv, NextIInv, PTL DEF Spec

\* No restoration that was under way resurrects a session that was deleted since or
\* overwrites a newer one: when nobody holds auth_write, memory and keyring hold one
\* session, or what a failed write tried to store.
THEOREM SessionIsStored == Spec => []SessionMatchesKeyring
<1>1. IInv => SessionMatchesKeyring
  <2> SUFFICES ASSUME IInv, auth_write = NoTask, ~session_restore_pending
               PROVE  keyring \in {session} \cup in_doubt
    BY DEF SessionMatchesKeyring
  <2>1. ASSUME NEW t \in Task, Storing(task[t]) PROVE FALSE
    <3>1. TaskOK(t) /\ t # NoTask
      BY Names DEF IInv, TasksOK
    <3>2. Holding(task[t])
      BY <2>1, <3>1 DEF TaskOK, PlaceOK, Storing, Holding, AllCalls, LoginJobs
    <3> QED
      BY <3>1, <3>2 DEF TaskOK, HoldingOK
  <2> QED
    BY <2>1 DEF IInv, KeyringOK
<1> QED
  BY <1>1, InvariantHolds, PTL

\* A second factor is never waited for beside a session.
THEOREM SecondFactorBeforeSession == Spec => []NoSecondFactorWhileSignedIn
<1>1. IInv => NoSecondFactorWhileSignedIn
  BY DEF IInv, SecondFactorOK, NoSecondFactorWhileSignedIn
<1> QED
  BY <1>1, InvariantHolds, PTL

-----------------------------------------------------------------------------
(* The published status, if clients do not call account.get. *)

LEMMA ReturnMoves ==
    ASSUME TypeOK, NEW t \in Task, NEW ok \in BOOLEAN, Return(t, ok)
    PROVE  Moved(t) /\ task'[t].job \in {task[t].job, "idle"}
BY ReturnEffect DEF Idle

LEMMA TakeLockMoves ==
    ASSUME TypeOK, NEW t \in Task, TakeLock(t)
    PROVE  Moved(t) /\ task'[t].job \in {task[t].job, "idle"}
<1>1. (\E pc \in Pcs : Goto(t, pc)) \/ (\E ok \in BOOLEAN : Return(t, ok))
  BY DEF TakeLock, RestoreLock, RestoreNetwork, Rejected, LoginLock, Submit2faLock, Fido2Lock,
         RefreshLock, LogoutLock, LogoutNetwork, DisconnectLock, Refuse, Pcs
<1> QED
  BY <1>1, GotoEffect, ReturnMoves

LEMMA StepMoves ==
    ASSUME IInv, NEW t \in Task, Step(t)
    PROVE  Moved(t) /\ task'[t].job \in {task[t].job, "idle"}
<1> DEFINE Known == (\E pc \in Pcs : Goto(t, pc)) \/ (\E ok \in BOOLEAN : Return(t, ok))
<1>1. TypeOK
  BY DEF IInv
<1>2. ASSUME Known PROVE Moved(t) /\ task'[t].job \in {task[t].job, "idle"}
  BY <1>1, <1>2, GotoEffect, ReturnMoves
<1>3. ASSUME task' = [task EXCEPT ![t] = Idle]
      PROVE  Moved(t) /\ task'[t].job = "idle"
  BY <1>1, <1>3, IdleType DEF TypeOK, Moved, Idle
<1>4. ASSUME NEW gen \in Generation, NEW pc \in {"save", "store"},
             task' = [task EXCEPT ![t].pc = pc, ![t].gen = gen]
      PROVE  Moved(t) /\ task'[t].job = task[t].job
  <2>1. [task[t] EXCEPT !.pc = pc, !.gen = gen] \in TaskState
    BY <1>1 DEF TypeOK, TaskState, Pcs
  <2> QED
    BY <1>1, <1>4, <2>1 DEF TypeOK, Moved, TaskState
<1>5. CASE Restore(t)
  <2>1. Known \/ task' = [task EXCEPT ![t] = Idle]
               \/ task' = [task EXCEPT ![t].pc = "store", ![t].gen = keyring]
    BY <1>5 DEF Restore, RestoreRead, RestoreStore, RestoreObserve, RestoreAgent,
                RejectedTeardown, Publish, Restored, Pcs
  <2> QED
    BY <1>1, <1>2, <1>3, <1>4, <2>1 DEF TypeOK
<1>6. CASE FinalizeFetch(t) \/ RefreshRotate(t)
  <2>1. \/ Known
        \/ /\ issued < MaxIssued
           /\ task' = [task EXCEPT ![t].pc = "save", ![t].gen = issued + 1]
    BY <1>6, Zenon DEF FinalizeFetch, RefreshRotate, ReturnPublishing
  <2>2. issued < MaxIssued => issued + 1 \in Generation
    BY <1>1, AccountAssumption DEF TypeOK, Generation
  <2> QED
    BY <1>2, <1>4, <2>1, <2>2
<1>7. CASE AccountGetRead(t)
  <2>1. [task[t] EXCEPT !.pc = "emit", !.seen = CurrentStatus] \in TaskState
    BY <1>1, StatusType DEF TypeOK, TaskState, Pcs, CurrentStatus
  <2> QED
    BY <1>1, <1>7, <2>1 DEF AccountGetRead, TypeOK, Moved, TaskState
<1>8. CASE t \in Request /\ Reply(t)
  BY <1>3, <1>8 DEF Reply
<1>9. CASE \/ LoginAuthenticate(t) \/ Fido2Touch(t) \/ VerifySecondFactor(t)
           \/ Save(t) \/ StoreSession(t)
           \/ LogoutObserve(t) \/ LogoutDown(t) \/ LogoutDelete(t)
           \/ AccountGetEmit(t) \/ DisconnectDown(t)
  <2>1. Known
    BY <1>9 DEF LoginAuthenticate, Fido2Touch, VerifySecondFactor, Save, StoreSession,
                ReturnPublishing, LogoutObserve, LogoutDown, LogoutDelete, AccountGetEmit,
                DisconnectDown, Pcs
  <2> QED
    BY <1>2, <2>1
<1> QED
  BY <1>5, <1>6, <1>7, <1>8, <1>9 DEF Step

\* The handlers that have changed the account and not published it yet.
Unpublished(k) ==
    \/ k.job \in LoginJobs /\ k.pc \in {"authenticate", "verify", "finalize", "save", "store"}
    \/ /\ k.job = "account.retry_restore"
       /\ k.pc \in {"network", "observe", "agent", "rejected", "teardown", "publish"}
    \/ k.job = "account.logout" /\ k.pc = "publish"

PublishedOK ==
    /\ \A t \in Task : task[t].job # "account.get"
    /\ account = CurrentStatus \/ \E t \in Task : Unpublished(task[t])

\* Each step of a handler publishes the account, goes on to do so, or leaves it alone.
PublishStep(t) ==
    \/ account' = CurrentStatus'
    \/ Unpublished(task'[t])
    \/ CurrentStatus' = CurrentStatus /\ account' = account /\ ~Unpublished(task[t])

LEMMA PublishStepOK ==
    ASSUME PublishedOK, NEW t \in Task, Moved(t), task'[t].job # "account.get", PublishStep(t)
    PROVE  PublishedOK'
BY DEF PublishedOK, PublishStep, Moved

LEMMA StatusKept ==
    ASSUME UNCHANGED <<session_restore_pending, session, pending_auth>>
    PROVE  CurrentStatus' = CurrentStatus
BY DEF CurrentStatus

\* A step to a place where the account is still to be published.
LEMMA GotoUnpublished ==
    ASSUME IInv, NEW t \in Task, NEW pc \in Pcs, Goto(t, pc),
           Unpublished([job |-> task[t].job, pc |-> pc])
    PROVE  PublishStep(t)
BY GotoEffect DEF IInv, Unpublished, PublishStep

\* A step that has nothing to publish.
LEMMA NothingToPublish ==
    ASSUME NEW t \in Task, ~Unpublished(task[t]), UNCHANGED stateVars
    PROVE  PublishStep(t)
BY StatusKept DEF PublishStep, stateVars

LEMMA TakeLockPublishes ==
    ASSUME IInv, NEW t \in Task, TakeLock(t)
    PROVE  PublishStep(t)
<1>1. TypeOK /\ TaskOK(t)
  BY DEF IInv, TasksOK
<1>2. ASSUME task[t].pc = "queued" PROVE ~Unpublished(task[t])
  BY <1>2 DEF Unpublished
<1>3. CASE RestoreLock(t) \/ Fido2Lock(t) \/ RefreshLock(t) \/ LogoutLock(t) \/ DisconnectLock(t)
  BY <1>2, <1>3, NothingToPublish
     DEF RestoreLock, Fido2Lock, RefreshLock, LogoutLock, DisconnectLock, At
<1>4. CASE RestoreNetwork(t)
  BY <1>4, GotoUnpublished DEF RestoreNetwork, At, Unpublished, Pcs
<1>5. CASE Rejected(t)
  <2>1. CASE task[t].job = "account.retry_restore"
    BY <1>5, <2>1, GotoUnpublished DEF Rejected, Unpublished, Pcs
  <2>2. CASE task[t].job # "account.retry_restore"
    <3>1. ~Unpublished(task[t])
      BY <1>5, <2>2 DEF Rejected, Unpublished
    <3> QED
      BY <1>5, <3>1, NothingToPublish DEF Rejected
  <2> QED
    BY <2>1, <2>2
<1>6. CASE LoginLock(t)
  <2>1. CASE Goto(t, "authenticate")
    BY <1>6, <2>1, GotoUnpublished DEF LoginLock, At, Unpublished, LoginJobs, Pcs
  <2>2. CASE UNCHANGED account
    BY <1>2, <1>6, <2>2, NothingToPublish DEF LoginLock, At, stateVars
  <2> QED
    BY <1>6, <2>1, <2>2 DEF LoginLock
<1>7. CASE Submit2faLock(t)
  <2>1. CASE Goto(t, "verify")
    BY <1>7, <2>1, GotoUnpublished DEF Submit2faLock, At, Unpublished, LoginJobs, Pcs
  <2>2. CASE ~pending_auth
    <3>1. pending_auth' = pending_auth
      BY <1>1, <1>7, <2>2 DEF Submit2faLock, TypeOK
    <3> QED
      BY <1>2, <1>7, <3>1, NothingToPublish DEF Submit2faLock, At, stateVars
  <2> QED
    BY <1>7, <2>1, <2>2 DEF Submit2faLock
<1>8. CASE LogoutNetwork(t)
  <2>1. ~Unpublished(task[t])
    BY <1>8 DEF LogoutNetwork, At, Unpublished, LoginJobs
  <2> QED
    BY <1>8, <2>1, NothingToPublish DEF LogoutNetwork
<1> QED
  BY <1>3, <1>4, <1>5, <1>6, <1>7, <1>8 DEF TakeLock

LEMMA RestorePublishes == ASSUME IInv, NEW t \in Task, Restore(t) PROVE PublishStep(t)
<1>1. TypeOK /\ TaskOK(t)
  BY DEF IInv, TasksOK
<1>2. CASE RestoreRead(t)
  <2>1. ~Unpublished(task[t])
    BY <1>2 DEF RestoreRead, Unpublished
  <2> QED
    BY <1>2, <2>1, NothingToPublish DEF RestoreRead
<1>3. CASE RestoreStore(t)
  BY <1>3, GotoUnpublished DEF RestoreStore, At, Unpublished, Pcs
<1>4. CASE RestoreObserve(t)
  BY <1>4, GotoUnpublished DEF RestoreObserve, At, Unpublished, Pcs
<1>5. CASE RestoreAgent(t) \/ RejectedTeardown(t)
  <2>1. CASE t = "main"
    <3>1. ~Unpublished(task[t])
      BY <1>1, <2>1 DEF TaskOK, Unpublished, LoginJobs
    <3> QED
      BY <1>5, <3>1, NothingToPublish DEF RestoreAgent, RejectedTeardown
  <2>2. CASE t # "main"
    <3>1. task[t].job = "account.retry_restore"
      BY <1>1, <1>5, <2>2 DEF RestoreAgent, RejectedTeardown, TaskOK, PlaceOK
    <3>2. Goto(t, "publish") \/ Goto(t, "rejected")
      BY <1>5, <2>2 DEF RestoreAgent, RejectedTeardown, Restored
    <3> QED
      BY <3>1, <3>2, GotoUnpublished DEF Unpublished, Pcs
  <2> QED
    BY <2>1, <2>2
<1>6. CASE Publish(t)
  BY <1>6, StatusKept DEF Publish, PublishStep
<1> QED
  BY <1>2, <1>3, <1>4, <1>5, <1>6 DEF Restore

LEMMA ReturnPublishes ==
    ASSUME NEW t \in Task, NEW needs2fa, NEW ok, ReturnPublishing(t, needs2fa, ok),
           UNCHANGED <<session_restore_pending, session>>
    PROVE  PublishStep(t)
BY DEF ReturnPublishing, PublishStep, CurrentStatus

LEMMA LoginPublishes ==
    ASSUME IInv, NEW t \in Task,
           LoginAuthenticate(t) \/ Fido2Touch(t) \/ VerifySecondFactor(t) \/ FinalizeFetch(t)
    PROVE  PublishStep(t)
<1>1. TypeOK /\ TaskOK(t)
  BY DEF IInv, TasksOK
<1>2. task[t].job \in LoginJobs
  BY <1>1 DEF LoginAuthenticate, Fido2Touch, VerifySecondFactor, FinalizeFetch, TaskOK, PlaceOK,
              LoginJobs
<1>3. ASSUME NEW pc \in {"verify", "finalize"}, Goto(t, pc) PROVE PublishStep(t)
  BY <1>2, <1>3, GotoUnpublished DEF Unpublished, Pcs
<1>4. CASE LoginAuthenticate(t) \/ VerifySecondFactor(t)
  BY <1>3, <1>4, ReturnPublishes DEF LoginAuthenticate, VerifySecondFactor
<1>5. CASE Fido2Touch(t)
  <2>1. CASE UNCHANGED pending_auth
    <3>1. ~Unpublished(task[t])
      BY <1>5 DEF Fido2Touch, Unpublished
    <3> QED
      BY <1>5, <2>1, <3>1, NothingToPublish DEF Fido2Touch, stateVars
  <2> QED
    BY <1>3, <1>5, <2>1 DEF Fido2Touch
<1>6. CASE FinalizeFetch(t)
  <2>1. CASE ReturnPublishing(t, pending_auth, FALSE)
    BY <1>6, <2>1, ReturnPublishes DEF FinalizeFetch
  <2>2. CASE task' = [task EXCEPT ![t].pc = "save", ![t].gen = issued + 1]
    <3>1. task'[t].pc = "save" /\ task'[t].job = task[t].job
      BY <1>1, <2>2 DEF TypeOK, TaskState
    <3> QED
      BY <1>2, <3>1 DEF Unpublished, PublishStep
  <2> QED
    BY <1>6, <2>1, <2>2 DEF FinalizeFetch
<1> QED
  BY <1>4, <1>5, <1>6

LEMMA SavePublishes == ASSUME IInv, NEW t \in Task, Save(t) PROVE PublishStep(t)
<1>1. TypeOK /\ TaskOK(t)
  BY DEF IInv, TasksOK
<1>2. CASE task[t].job = "account.refresh"
  <2>1. ~Unpublished(task[t]) /\ UNCHANGED stateVars
    BY <1>2 DEF Save, Unpublished, LoginJobs, stateVars
  <2> QED
    BY <2>1, NothingToPublish
<1>3. CASE task[t].job # "account.refresh"
  <2>1. task[t].job \in LoginJobs
    BY <1>1, <1>3 DEF Save, TaskOK, PlaceOK
  <2>2. Goto(t, "store") \/ ReturnPublishing(t, pending_auth, FALSE)
    BY <1>3 DEF Save
  <2>3. CASE Goto(t, "store")
    BY <2>1, <2>3, GotoUnpublished DEF Unpublished, Pcs
  <2>4. CASE ReturnPublishing(t, pending_auth, FALSE)
    BY <2>4, ReturnPublishes DEF Save
  <2> QED
    BY <2>2, <2>3, <2>4
<1> QED
  BY <1>2, <1>3

LEMMA StoreSessionPublishes == ASSUME IInv, NEW t \in Task, StoreSession(t) PROVE PublishStep(t)
<1>1. /\ TypeOK /\ TaskOK(t) /\ task[t].pc = "store"
      /\ task[t].job \in LoginJobs \cup {"account.refresh"}
  BY DEF IInv, TasksOK, StoreSession, TaskOK, PlaceOK, AllCalls, LoginJobs
<1>2. HoldingOK(t, task[t])
  BY <1>1 DEF TaskOK, Holding, LoginJobs
<1>3. session' # 0 /\ ~session_restore_pending'
  BY <1>1, <1>2 DEF HoldingOK, LoginJobs, StoreSession
<1>4. CASE task[t].job = "account.refresh"
  <2>1. session # 0 /\ ~pending_auth /\ ~pending_auth'
    BY <1>2, <1>4 DEF HoldingOK, IInv, SecondFactorOK, StoreSession
  <2>2. CurrentStatus = "signed_in" /\ CurrentStatus' = "signed_in"
    BY <1>3, <2>1 DEF CurrentStatus, AccountStatus
  <2>3. account' = account /\ ~Unpublished(task[t])
    BY <1>4 DEF StoreSession, Unpublished, LoginJobs
  <2> QED
    BY <2>2, <2>3 DEF PublishStep
<1>5. CASE task[t].job # "account.refresh"
  <2>1. account' = "signed_in" /\ ~pending_auth'
    BY <1>5 DEF StoreSession
  <2> QED
    BY <1>3, <2>1 DEF PublishStep, CurrentStatus, AccountStatus
<1> QED
  BY <1>4, <1>5

LEMMA LogoutPublishes ==
    ASSUME IInv, NEW t \in Task, LogoutObserve(t) \/ LogoutDown(t) \/ LogoutDelete(t)
    PROVE  PublishStep(t)
<1>1. TypeOK /\ ~Unpublished(task[t]) /\ task[t].job = "account.logout"
  BY DEF IInv, LogoutObserve, LogoutDown, LogoutDelete, At, Unpublished, LoginJobs
<1>2. CASE LogoutObserve(t) \/ LogoutDown(t)
  BY <1>1, <1>2, NothingToPublish DEF LogoutObserve, LogoutDown
<1>3. CASE LogoutDelete(t) /\ Goto(t, "publish")
  BY <1>1, <1>3, GotoUnpublished DEF Unpublished, Pcs
<1>4. CASE LogoutDelete(t) /\ session # 0 /\ UNCHANGED session
  <2>1. pending_auth = FALSE
    BY <1>1, <1>4 DEF IInv, SecondFactorOK, TypeOK
  <2>2. UNCHANGED stateVars
    BY <1>4, <2>1 DEF LogoutDelete, stateVars
  <2> QED
    BY <1>1, <2>2, NothingToPublish
<1> QED
  BY <1>2, <1>3, <1>4 DEF LogoutDelete

LEMMA StepPublishes ==
    ASSUME IInv, NEW t \in Task, task[t].job # "account.get", Step(t)
    PROVE  PublishStep(t)
<1>1. TaskOK(t)
  BY DEF IInv, TasksOK
<1>2. CASE RefreshRotate(t) \/ DisconnectDown(t) \/ (t \in Request /\ Reply(t))
  <2>1. ~Unpublished(task[t]) /\ UNCHANGED stateVars
    BY <1>1, <1>2 DEF RefreshRotate, DisconnectDown, Reply, At, Unpublished, LoginJobs
  <2> QED
    BY <2>1, NothingToPublish
<1>3. ~AccountGetRead(t) /\ ~AccountGetEmit(t)
  BY <1>1 DEF AccountGetRead, AccountGetEmit, At, TaskOK, PlaceOK
<1> QED
  BY <1>2, <1>3, RestorePublishes, LoginPublishes, SavePublishes, StoreSessionPublishes,
     LogoutPublishes DEF Step

LEMMA NextPublished ==
    ASSUME "account.get" \notin Calls, IInv, PublishedOK, [Next]_vars
    PROVE  PublishedOK'
<1>1. TypeOK
  BY DEF IInv
<1>2. ASSUME NEW t \in Task, TakeLock(t) \/ Step(t) PROVE PublishedOK'
  <2>1. Moved(t) /\ task'[t].job \in {task[t].job, "idle"} /\ task[t].job # "account.get"
    BY <1>1, <1>2, TakeLockMoves, StepMoves DEF PublishedOK
  <2>2. PublishStep(t)
    BY <1>2, <2>1, TakeLockPublishes, StepPublishes
  <2> QED
    BY <2>1, <2>2, PublishStepOK
<1>3. ASSUME NEW t \in Task, NEW m \in AllCalls, m # "account.get", task[t] = Idle,
             task' = [task EXCEPT ![t] = [Idle EXCEPT !.job = m, !.pc = "queued"]],
             UNCHANGED stateVars
      PROVE  PublishedOK'
  <2>1. [Idle EXCEPT !.job = m, !.pc = "queued"] \in TaskState
    BY IdleType DEF TaskState, Pcs
  <2>2. Moved(t) /\ task'[t].job = m
    BY <1>1, <1>3, <2>1 DEF TypeOK, Moved, Idle
  <2>3. ~Unpublished(task[t])
    BY <1>3 DEF Unpublished, Idle, LoginJobs
  <2> QED
    BY <1>3, <2>2, <2>3, NothingToPublish, PublishStepOK
<1>4. CASE RecoveryTick
  BY <1>3, <1>4, Names DEF RecoveryTick, AllCalls
<1>5. CASE \E r \in Request, m \in Calls : Submit(r, m)
  BY <1>3, <1>5, Names, AccountAssumption DEF Submit
<1>6. CASE InitializeLoad
  <2>1. Moved("main") /\ task'["main"].job = "initialize"
    BY <1>1, <1>6, Names, GotoEffect DEF InitializeLoad, At, Pcs
  <2>2. pending_auth' = FALSE
    BY <1>1, <1>6 DEF InitializeLoad, At, IInv, BootOK, Booted, TypeOK
  <2>3. PublishStep("main")
    BY <1>6, <2>2 DEF InitializeLoad, PublishStep, CurrentStatus
  <2> QED
    BY <2>1, <2>3, Names, PublishStepOK
<1>7. CASE InitializeTunnel
  <2>1. \/ task' = [task EXCEPT !["main"] = Idle]
        \/ \E pc \in Pcs : Goto("main", pc)
    BY <1>7 DEF InitializeTunnel, Pcs
  <2>2. Moved("main") /\ task'["main"].job \in {"initialize", "idle"}
    <3>1. CASE task' = [task EXCEPT !["main"] = Idle]
      BY <1>1, <3>1, Names, IdleType DEF TypeOK, Moved, Idle
    <3>2. CASE \E pc \in Pcs : Goto("main", pc)
      BY <1>1, <1>7, <3>2, Names, GotoEffect DEF InitializeTunnel, At
    <3> QED
      BY <2>1, <3>1, <3>2
  <2>3. ~Unpublished(task["main"])
    BY <1>7 DEF InitializeTunnel, At, Unpublished, LoginJobs
  <2> QED
    BY <1>7, <2>2, <2>3, Names, NothingToPublish, PublishStepOK DEF InitializeTunnel
<1>8. CASE KeyringUnlocks \/ TunnelUp \/ UNCHANGED vars
  <2>1. UNCHANGED stateVars /\ UNCHANGED task
    BY <1>8 DEF KeyringUnlocks, TunnelUp, vars
  <2> QED
    BY <2>1, StatusKept DEF PublishedOK, stateVars
<1> QED
  BY <1>2, <1>4, <1>5, <1>6, <1>7, <1>8 DEF Next

\* While nobody holds auth_write, clients see the account as it is, unless one of them
\* calls account.get: that publishes what it read without the lock.
THEOREM PublishedIsCurrent ==
    ASSUME "account.get" \notin Calls PROVE Spec => []PublishedAccountIsCurrent
<1>1. Init => PublishedOK
  BY AccountAssumption DEF Init, PublishedOK, CurrentStatus, AccountStatus, Idle
<1>2. IInv /\ PublishedOK /\ [Next]_vars => PublishedOK'
  BY NextPublished
<1>3. IInv /\ PublishedOK => PublishedAccountIsCurrent
  <2> SUFFICES ASSUME IInv, PublishedOK, auth_write = NoTask PROVE account = CurrentStatus
    BY DEF PublishedAccountIsCurrent
  <2>1. ASSUME NEW t \in Task, Unpublished(task[t]) PROVE FALSE
    <3>1. TaskOK(t) /\ t # NoTask
      BY Names DEF IInv, TasksOK
    <3>2. Holding(task[t])
      BY <2>1 DEF Unpublished, Holding, LoginJobs
    <3> QED
      BY <3>1, <3>2 DEF TaskOK, HoldingOK
  <2> QED
    BY <2>1 DEF PublishedOK
<1> QED
  BY <1>1, <1>2, <1>3, InvariantHolds, PTL DEF Spec

-----------------------------------------------------------------------------
(* Logout and the tunnel, if NetworkManager can be read and no tunnel is on its way up *)
(* when the agent starts. *)

\* The restoration that may find a tunnel nobody has taken over.
Adopting(k) == k.job = "account.retry_restore" /\ k.pc \in {"network", "observe"}

\* The logouts that are done with the tunnel.
PastTunnel(k) ==
    k.job = "account.logout" /\ (k.pc \in {"clear", "publish"} \/ (k.pc = "reply" /\ k.ok))

Unlooked == task["main"].pc \in {"load", "tunnel"}

TunnelOK ==
    /\ tunnel # "connecting"
    /\ tunnel # "none" =>
        owned \/ session_restore_pending \/ Unlooked \/ \E t \in Task : Adopting(task[t])
    /\ \A t \in Task : PastTunnel(task[t]) => tunnel = "none"

TunnelStep(t) ==
    /\ tunnel' \in {tunnel, "none"}
    /\ PastTunnel(task'[t]) => PastTunnel(task[t]) \/ tunnel' = "none"
    /\ \/ tunnel' = "none"
       \/ owned'
       \/ Adopting(task'[t])
       \/ Unlooked'
       \/ /\ ~Adopting(task[t])
          /\ owned => owned'
          /\ session_restore_pending => session_restore_pending'
          /\ ~Unlooked \/ t # "main" \/ session_restore_pending'

LEMMA TunnelStepOK ==
    ASSUME TunnelOK, NEW t \in Task, Moved(t), TunnelStep(t)
    PROVE  TunnelOK'
<1>1. tunnel' # "connecting"
  BY DEF TunnelOK, TunnelStep
<1>2. \A u \in Task : PastTunnel(task'[u]) => tunnel' = "none"
  BY DEF TunnelOK, TunnelStep, Moved
<1>3. tunnel' # "none" =>
        owned' \/ session_restore_pending' \/ Unlooked' \/ \E u \in Task : Adopting(task'[u])
  <2> SUFFICES ASSUME tunnel' # "none", ~owned', ~session_restore_pending', ~Unlooked',
                      ~Adopting(task'[t])
               PROVE  \E u \in Task : Adopting(task'[u])
    OBVIOUS
  <2>1. /\ tunnel # "none" /\ ~Adopting(task[t]) /\ ~owned /\ ~session_restore_pending
        /\ ~Unlooked \/ t # "main"
    BY DEF TunnelStep
  <2>2. ~Unlooked
    BY <2>1, Names DEF Unlooked, Moved
  <2> QED
    BY <2>1, <2>2 DEF TunnelOK, Moved
<1> QED
  BY <1>1, <1>2, <1>3 DEF TunnelOK

\* A step that has nothing to do with the tunnel.
LEMMA TunnelAlone ==
    ASSUME NEW t \in Task, UNCHANGED <<tunnel, owned, session_restore_pending>>,
           ~Unlooked \/ t # "main", Adopting(task[t]) => Adopting(task'[t]),
           PastTunnel(task'[t]) => PastTunnel(task[t]) \/ tunnel = "none"
    PROVE  TunnelStep(t)
BY DEF TunnelStep

LEMMA OtherJob ==
    ASSUME NEW t \in Task, UNCHANGED <<tunnel, owned, session_restore_pending>>,
           ~Unlooked \/ t # "main", task'[t].job \in {task[t].job, "idle"},
           task[t].job \notin {"account.logout", "account.retry_restore"}
    PROVE  TunnelStep(t)
BY TunnelAlone DEF Adopting, PastTunnel

LEMMA RestoreTunnel ==
    ASSUME "observe" \notin Faults, IInv, TunnelOK, NEW t \in Task,
           \/ RestoreLock(t) \/ RestoreRead(t) \/ RestoreStore(t) \/ RestoreNetwork(t)
           \/ RestoreObserve(t)
    PROVE  TunnelStep(t)
<1>1. TypeOK /\ TaskOK(t) /\ task[t].job = "account.retry_restore" /\ t # "main"
  BY DEF IInv, TasksOK, TaskOK, PlaceOK, RestoreLock, RestoreRead, RestoreStore, RestoreNetwork,
         RestoreObserve, At, AllCalls
<1>2. CASE RestoreLock(t) \/ RestoreRead(t)
  <2>1. task'[t].job \in {task[t].job, "idle"}
    BY <1>1, <1>2, TakeLockMoves, StepMoves DEF TakeLock, Step, Restore
  <2>2. ~Adopting(task[t]) /\ ~PastTunnel(task'[t])
    BY <1>1, <1>2, <2>1 DEF RestoreLock, RestoreRead, At, Adopting, PastTunnel
  <2> QED
    BY <1>1, <1>2, <2>2, TunnelAlone DEF RestoreLock, RestoreRead, stateVars, worldVars
<1>3. CASE RestoreStore(t) \/ RestoreNetwork(t)
  <2>1. task'[t].job = "account.retry_restore" /\ task'[t].pc \in {"network", "observe"}
    BY <1>1, <1>3, GotoEffect DEF RestoreStore, RestoreNetwork, Pcs
  <2>2. tunnel' = tunnel
    BY <1>3 DEF RestoreStore, RestoreNetwork, worldVars
  <2> QED
    BY <2>1, <2>2 DEF TunnelStep, Adopting, PastTunnel
<1>4. CASE RestoreObserve(t)
  <2>1. task'[t].job = "account.retry_restore" /\ tunnel' = tunnel
    BY <1>1, <1>4, GotoEffect DEF RestoreObserve, Pcs, worldVars
  <2>2. tunnel' = "none" \/ owned'
    BY <1>1, <1>4, <2>1 DEF RestoreObserve, Fault, TunnelOK, TypeOK
  <2> QED
    BY <2>1, <2>2 DEF TunnelStep, PastTunnel
<1> QED
  BY <1>2, <1>3, <1>4

\* The end of a restoration, and of initialize.
LEMMA AgentTunnel ==
    ASSUME IInv, NEW t \in Task, RestoreAgent(t) \/ Rejected(t) \/ RejectedTeardown(t)
    PROVE  TunnelStep(t)
<1>1. /\ TypeOK /\ TaskOK(t) /\ task[t].pc \in {"agent", "rejected", "teardown"}
      /\ task[t].job \in {"initialize", "account.retry_restore"}
  BY DEF IInv, TasksOK, TaskOK, PlaceOK, RestoreAgent, Rejected, RejectedTeardown
<1>2. ~Adopting(task[t]) /\ (~Unlooked \/ t # "main")
  BY <1>1 DEF Adopting, Unlooked
<1>3. task'[t].job \in {task[t].job, "idle"}
  BY <1>1, TakeLockMoves, StepMoves DEF TakeLock, Step, Restore
<1>4. ~PastTunnel(task'[t])
  BY <1>1, <1>3 DEF PastTunnel
<1>5. \/ tunnel' = "none"
      \/ UNCHANGED <<tunnel, owned, session_restore_pending>>
  BY DEF RestoreAgent, Rejected, RejectedTeardown, stateVars, worldVars
<1> QED
  BY <1>2, <1>4, <1>5, TunnelAlone DEF TunnelStep

\* A logout that finds the tunnel up takes it down, because it is known: what restores
\* it is over, and nothing else takes it over.
LEMMA LogoutTunnel ==
    ASSUME IInv, TunnelOK, NEW t \in Task,
           \/ LogoutLock(t) \/ LogoutObserve(t) \/ LogoutNetwork(t) \/ LogoutDown(t)
           \/ LogoutDelete(t)
    PROVE  TunnelStep(t)
<1>1. TypeOK /\ TaskOK(t) /\ task[t].job = "account.logout" /\ t # "main"
  BY DEF IInv, TasksOK, TaskOK, LogoutLock, LogoutObserve, LogoutNetwork, LogoutDown,
         LogoutDelete, At
<1>2. ~Adopting(task[t])
  BY <1>1 DEF Adopting
<1>3. ASSUME NEW ok \in BOOLEAN, Return(t, ok), ok = FALSE PROVE ~PastTunnel(task'[t])
  BY <1>1, <1>3, ReturnEffect DEF PastTunnel, Idle
<1>4. CASE LogoutLock(t) \/ LogoutNetwork(t)
  <2>1. ~PastTunnel(task'[t])
    <3>1. CASE Goto(t, "observe") \/ Goto(t, "down")
      BY <1>1, <3>1, GotoEffect DEF PastTunnel, Pcs
    <3> QED
      BY <1>3, <1>4, <3>1 DEF LogoutLock, LogoutNetwork, Refuse
  <2> QED
    BY <1>1, <1>2, <1>4, <2>1, TunnelAlone DEF LogoutLock, LogoutNetwork, stateVars, worldVars
<1>5. CASE LogoutObserve(t)
  <2>1. PastTunnel(task'[t]) => tunnel = "none"
    <3>1. CASE Goto(t, "network")
      BY <1>1, <3>1, GotoEffect DEF PastTunnel, Pcs
    <3> QED
      BY <1>3, <1>5, <3>1 DEF LogoutObserve
  <2> QED
    BY <1>1, <1>2, <1>5, <2>1, TunnelAlone DEF LogoutObserve, stateVars, worldVars
<1>6. CASE LogoutDelete(t)
  <2>1. PastTunnel(task[t])
    BY <1>6 DEF LogoutDelete, At, PastTunnel
  <2> QED
    BY <1>1, <1>2, <1>6, <2>1, TunnelAlone DEF LogoutDelete
<1>7. CASE LogoutDown(t)
  <2>1. CASE Return(t, FALSE) /\ UNCHANGED <<tunnel, owned>>
    BY <1>1, <1>2, <1>3, <1>7, <2>1, TunnelAlone DEF LogoutDown, stateVars
  <2>2. CASE tunnel' = IF owned THEN "none" ELSE tunnel
    <3>1. HoldingOK(t, task[t])
      BY <1>1, <1>7 DEF LogoutDown, At, TaskOK, Holding
    <3>2. ~Unlooked
      BY <1>1 DEF IInv, BootOK, Booted, Unlooked, Idle
    <3>3. ASSUME NEW u \in Task, Adopting(task[u]) PROVE FALSE
      <4>1. TaskOK(u) /\ Holding(task[u])
        BY <3>3 DEF IInv, TasksOK, Adopting, Holding
      <4>2. u = t
        BY <3>1, <4>1 DEF TaskOK, HoldingOK
      <4> QED
        BY <1>2, <3>3, <4>2
    <3>4. ~owned => tunnel = "none"
      BY <1>1, <3>1, <3>2, <3>3 DEF TunnelOK, HoldingOK, TypeOK
    <3> QED
      BY <2>2, <3>4 DEF TunnelStep
  <2> QED
    BY <1>7, <2>1, <2>2 DEF LogoutDown
<1> QED
  BY <1>4, <1>5, <1>6, <1>7

\* The answers, and the steps of the other requests.
LEMMA AnswerTunnel ==
    ASSUME IInv, NEW t \in Task, Publish(t) \/ (t \in Request /\ Reply(t)) PROVE TunnelStep(t)
<1>1. TypeOK /\ TaskOK(t) /\ task[t].pc \in {"publish", "reply"}
  BY DEF IInv, TasksOK, Publish, Reply
<1>2. ~Adopting(task[t]) /\ (~Unlooked \/ t # "main")
  BY <1>1 DEF Adopting, Unlooked
<1>3. UNCHANGED <<tunnel, owned, session_restore_pending>>
  BY DEF Publish, Reply, stateVars, worldVars
<1>4. PastTunnel(task'[t]) => PastTunnel(task[t])
  <2>1. CASE Publish(t)
    <3>1. task'[t].job \in {task[t].job, "idle"}
      BY <1>1, <2>1, ReturnMoves DEF Publish
    <3>2. task[t].pc = "publish"
      BY <2>1 DEF Publish
    <3> QED
      BY <3>1, <3>2 DEF PastTunnel
  <2>2. CASE Reply(t)
    <3>1. task'[t] = Idle
      BY <1>1, <2>2 DEF Reply, TypeOK
    <3> QED
      BY <3>1 DEF PastTunnel, Idle
  <2> QED
    BY <2>1, <2>2
<1> QED
  BY <1>2, <1>3, <1>4, TunnelAlone

LEMMA OtherTunnel ==
    ASSUME IInv, NEW t \in Task,
           \/ LoginLock(t) \/ Submit2faLock(t) \/ Fido2Lock(t) \/ RefreshLock(t)
           \/ DisconnectLock(t)
           \/ LoginAuthenticate(t) \/ Fido2Touch(t) \/ VerifySecondFactor(t)
           \/ FinalizeFetch(t) \/ Save(t) \/ StoreSession(t) \/ RefreshRotate(t)
           \/ AccountGetRead(t) \/ AccountGetEmit(t) \/ DisconnectDown(t)
    PROVE  TunnelStep(t)
<1>1. /\ TypeOK /\ TaskOK(t)
      /\ task[t].job \in LoginJobs \cup {"account.refresh", "account.get", "connection.disconnect"}
  <2>1. TaskOK(t) /\ TypeOK
    BY DEF IInv, TasksOK
  <2>2. CASE \/ LoginLock(t) \/ Submit2faLock(t) \/ Fido2Lock(t) \/ RefreshLock(t)
             \/ DisconnectLock(t) \/ DisconnectDown(t) \/ AccountGetRead(t)
    BY <2>1, <2>2 DEF LoginLock, Submit2faLock, Fido2Lock, RefreshLock, DisconnectLock,
                      DisconnectDown, AccountGetRead, At, LoginJobs
  <2>3. CASE \/ LoginAuthenticate(t) \/ Fido2Touch(t) \/ VerifySecondFactor(t)
             \/ FinalizeFetch(t) \/ Save(t) \/ RefreshRotate(t) \/ AccountGetEmit(t)
    BY <2>1, <2>3 DEF LoginAuthenticate, Fido2Touch, VerifySecondFactor, FinalizeFetch, Save,
                      RefreshRotate, AccountGetEmit, TaskOK, PlaceOK, LoginJobs
  <2>4. CASE StoreSession(t)
    BY <2>1, <2>4 DEF StoreSession, TaskOK, PlaceOK, LoginJobs
  <2> QED
    BY <2>1, <2>2, <2>3, <2>4
<1>2. t # "main" /\ task[t].job \notin {"account.logout", "account.retry_restore"}
  BY <1>1 DEF TaskOK, LoginJobs
<1>3. task'[t].job \in {task[t].job, "idle"}
  BY <1>1, TakeLockMoves, StepMoves DEF TakeLock, Step
<1>4. CASE DisconnectDown(t) /\ tunnel' = "none"
  BY <1>1, <1>2, <1>3, <1>4 DEF TunnelStep, PastTunnel
<1>5. UNCHANGED <<tunnel, owned, session_restore_pending>> \/ (DisconnectDown(t) /\ tunnel' = "none")
  BY DEF LoginLock, Submit2faLock, Fido2Lock, RefreshLock, DisconnectLock, LoginAuthenticate,
         Fido2Touch, VerifySecondFactor, FinalizeFetch, Save, StoreSession, RefreshRotate,
         AccountGetRead, AccountGetEmit, DisconnectDown, stateVars, worldVars
<1> QED
  BY <1>2, <1>3, <1>4, <1>5, OtherJob

LEMMA NextTunnel ==
    ASSUME "observe" \notin Faults, IInv, TunnelOK, [Next]_vars
    PROVE  TunnelOK'
<1>1. TypeOK
  BY DEF IInv
<1>2. ASSUME NEW t \in Task, TakeLock(t) \/ Step(t) PROVE TunnelOK'
  <2>1. Moved(t)
    BY <1>1, <1>2, TakeLockMoves, StepMoves
  <2>2. TunnelStep(t)
    BY <1>2, RestoreTunnel, AgentTunnel, LogoutTunnel, AnswerTunnel, OtherTunnel
       DEF TakeLock, Step, Restore
  <2> QED
    BY <2>1, <2>2, TunnelStepOK
<1>3. ASSUME NEW t \in Task, t # "main", NEW m \in AllCalls, task[t] = Idle,
             task' = [task EXCEPT ![t] = [Idle EXCEPT !.job = m, !.pc = "queued"]],
             UNCHANGED <<stateVars, worldVars, owned>>
      PROVE  TunnelOK'
  <2>1. [Idle EXCEPT !.job = m, !.pc = "queued"] \in TaskState
    BY IdleType DEF TaskState, Pcs
  <2>2. Moved(t) /\ task'[t].pc = "queued"
    BY <1>1, <1>3, <2>1 DEF TypeOK, Moved, Idle
  <2>3. ~Adopting(task[t]) /\ ~PastTunnel(task'[t])
    BY <1>3, <2>2 DEF Adopting, PastTunnel, Idle
  <2> QED
    BY <1>3, <2>2, <2>3, TunnelAlone, TunnelStepOK DEF stateVars, worldVars
<1>4. CASE RecoveryTick
  BY <1>3, <1>4, Names DEF RecoveryTick, AllCalls
<1>5. CASE \E r \in Request, m \in Calls : Submit(r, m)
  BY <1>3, <1>5, Names, AccountAssumption DEF Submit
<1>6. CASE InitializeLoad
  <2>1. Moved("main") /\ task'["main"].job = "initialize" /\ task'["main"].pc = "tunnel"
    BY <1>1, <1>6, Names, GotoEffect DEF InitializeLoad, At, Pcs
  <2>2. TunnelStep("main")
    BY <1>6, <2>1 DEF InitializeLoad, TunnelStep, PastTunnel, Unlooked, worldVars
  <2> QED
    BY <2>1, <2>2, Names, TunnelStepOK
<1>7. CASE InitializeTunnel
  <2>1. \/ task' = [task EXCEPT !["main"] = Idle]
        \/ \E pc \in Pcs : Goto("main", pc)
    BY <1>7 DEF InitializeTunnel, Pcs
  <2>2. Moved("main") /\ task'["main"].job \in {"initialize", "idle"}
    <3>1. CASE task' = [task EXCEPT !["main"] = Idle]
      BY <1>1, <3>1, Names, IdleType DEF TypeOK, Moved, Idle
    <3>2. CASE \E pc \in Pcs : Goto("main", pc)
      BY <1>1, <1>7, <3>2, Names, GotoEffect DEF InitializeTunnel, At
    <3> QED
      BY <2>1, <3>1, <3>2
  <2>3. tunnel' = tunnel /\ session_restore_pending' = session_restore_pending
    BY <1>7 DEF InitializeTunnel, stateVars, worldVars
  <2>4. tunnel' = "none" \/ owned' \/ session_restore_pending'
    BY <1>1, <1>7, <2>3 DEF InitializeTunnel, Fault, TunnelOK, TypeOK
  <2>5. ~Adopting(task["main"]) /\ ~PastTunnel(task'["main"])
    BY <1>7, <2>2 DEF InitializeTunnel, At, Adopting, PastTunnel
  <2>6. owned => owned'
    BY <1>7 DEF InitializeTunnel
  <2>7. TunnelStep("main")
    BY <2>3, <2>4, <2>5, <2>6 DEF TunnelStep
  <2> QED
    BY <2>2, <2>7, Names, TunnelStepOK
<1>8. CASE KeyringUnlocks \/ UNCHANGED vars
  BY <1>8 DEF KeyringUnlocks, vars, stateVars, worldVars, TunnelOK, Unlooked
<1>9. CASE TunnelUp
  BY <1>9 DEF TunnelUp, TunnelOK
<1> QED
  BY <1>2, <1>4, <1>5, <1>6, <1>7, <1>8, <1>9 DEF Next

\* A logout that has succeeded leaves no tunnel of this agent up, if the agent can see
\* the tunnels there are: it takes down only what it knows of.
THEOREM LogoutLeavesNoTunnel ==
    ASSUME "observe" \notin Faults, "connecting" \notin StartTunnel
    PROVE  Spec => []LogoutDisconnects
<1>1. Init => TunnelOK
  <2> SUFFICES ASSUME Init PROVE TunnelOK
    OBVIOUS
  <2>1. tunnel # "connecting" /\ session_restore_pending
    BY DEF Init
  <2>2. ASSUME NEW t \in Task PROVE ~PastTunnel(task[t])
    BY AccountAssumption DEF Init, PastTunnel, Idle
  <2> QED
    BY <2>1, <2>2 DEF TunnelOK
<1>2. IInv /\ TunnelOK /\ [Next]_vars => TunnelOK'
  BY NextTunnel
<1>3. TunnelOK => LogoutDisconnects
  BY Names DEF TunnelOK, LogoutDisconnects, At, PastTunnel
<1> QED
  BY <1>1, <1>2, <1>3, InvariantHolds, PTL DEF Spec
=============================================================================
