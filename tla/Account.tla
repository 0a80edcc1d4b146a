------------------------------ MODULE Account ------------------------------
(***************************************************************************)
(* The account side of NativeRuntime (agent/src/native_backend/mod.rs):    *)
(* initialize, the recovery of a saved session from a keyring that was     *)
(* locked at start, login with its second factor, logout and the rotation  *)
(* of tokens.  They are kept apart by auth_write; restoring and logging    *)
(* out also take network_write, because they may take a tunnel down.       *)
(*                                                                         *)
(* A session is the number of its token generation, 0 for none; `issued`   *)
(* is the newest generation Proton's servers have given out.  Refreshing   *)
(* a certificate, the account data or the catalog rotates tokens in the    *)
(* same way, so one job stands for them.  Caches, settings and telemetry   *)
(* are left out, and so is the coordinator, which only makes fewer of      *)
(* these requests overlap.  The keyring is one cell here: a write that     *)
(* fails may have taken effect or not, which is what SecretStore shows of  *)
(* the items it consists of.                                               *)
(***************************************************************************)
EXTENDS Naturals

CONSTANTS Request,        \* request slots
          Calls,          \* the methods called in this instance
          Faults,         \* the kinds of external failure of this instance
          StartKeyring,   \* what the keyring may hold when the agent starts
          StartTunnel,    \* in which state a tunnel of ours may be at start
          MaxCalls,       \* bound on the requests submitted
          MaxIssued       \* bound on the token generations

AllCalls ==
    {"account.retry_restore", "account.login", "account.submit_2fa",
     "account.authenticate_fido2", "account.logout", "account.refresh",
     "account.get", "connection.disconnect"}

AllFaults ==
    {"api",       \* Proton's API refuses or is unreachable
     "save",      \* the keyring cannot be written
     "observe",   \* NetworkManager cannot be read
     "nm",        \* NetworkManager does not take the tunnel down
     "agent"}     \* the Local Agent cannot be restored

ASSUME AccountAssumption ==
    /\ Calls \subseteq AllCalls
    /\ Faults \subseteq AllFaults
    /\ StartKeyring \subseteq {0, 1}
    /\ StartTunnel \subseteq {"none", "connecting", "connected"}
    /\ MaxCalls \in Nat /\ MaxIssued \in Nat
    /\ MaxIssued > MaxCalls      \* a call issues at most one generation
    /\ Request \cap {"main", "recovery", "none"} = {}

\* `main` runs initialize, `recovery` the loop of spawn_session_recovery.
Task == Request \cup {"main", "recovery"}

NoTask == "none"

VARIABLES session_restore_pending, session,   \* RuntimeState
          pending_auth,                       \* waits for the second factor
          account,                            \* the status published to clients
          owned,                              \* owned_connection_uuid is Some
          auth_write, network_write,          \* the mutexes
          keyring, readable, issued,          \* external: Secret Service, Proton
          tunnel,                             \* external: NetworkManager
          in_doubt,                           \* history: what failed writes tried to store
          task, calls

stateVars == <<session_restore_pending, session, pending_auth, account>>
worldVars == <<keyring, in_doubt, readable, issued, tunnel>>
vars == <<stateVars, worldVars, owned, auth_write, network_write, task, calls>>

Status == {"restoring", "signing_in", "two_factor_required", "signed_in", "signed_out"}

Generation == 0 .. MaxIssued

Pcs == {"idle", "load", "tunnel", "queued", "read", "store", "network", "observe",
        "agent", "rejected", "teardown", "publish", "authenticate", "touch",
        "verify", "finalize", "save", "down", "clear", "rotate", "emit", "reply"}

TaskState ==
    [job : AllCalls \cup {"initialize", "idle"}, pc : Pcs,
     gen : Generation,      \* the session it has read or is about to store
     seen : Status,         \* account.get: the status it is about to publish
     ok : BOOLEAN]          \* how the request is answered

Idle == [job |-> "idle", pc |-> "idle", gen |-> 0, seen |-> "restoring", ok |-> TRUE]

\* emit_account
AccountStatus(needs2fa, s, pending) ==
    CASE needs2fa -> "two_factor_required"
      [] ~needs2fa /\ s # 0 -> "signed_in"
      [] ~needs2fa /\ s = 0 /\ pending -> "restoring"
      [] OTHER -> "signed_out"

CurrentStatus == AccountStatus(pending_auth, session, session_restore_pending)

Init ==
    /\ session_restore_pending = TRUE
    /\ session = 0
    /\ pending_auth = FALSE
    /\ account = "restoring"
    /\ owned = FALSE
    /\ auth_write = NoTask /\ network_write = NoTask
    /\ keyring \in StartKeyring
    /\ in_doubt = {}
    /\ readable \in BOOLEAN
    /\ issued = 1
    /\ tunnel \in StartTunnel
    /\ task = [t \in Task |->
                IF t = "main" THEN [Idle EXCEPT !.job = "initialize", !.pc = "load"]
                              ELSE Idle]
    /\ calls = 0

-----------------------------------------------------------------------------

Fault(f) == f \in Faults

At(t, job, pc) == task[t].job = job /\ task[t].pc = pc

Goto(t, pc) == task' = [task EXCEPT ![t].pc = pc]

\* initialize is over: requests are dispatched and the recovery loop runs.
Booted == task["main"].pc = "idle"

\* The handler returns and drops its auth guard.  The recovery loop goes back to
\* sleep; a request is answered.
Return(t, ok) ==
    /\ task' = [task EXCEPT ![t] = IF t \in Request
                                     THEN [@ EXCEPT !.pc = "reply", !.ok = ok] ELSE Idle]
    /\ auth_write' = IF auth_write = t THEN NoTask ELSE auth_write

TakeAuth(t) == auth_write = NoTask /\ auth_write' = t

\* Refuse with the guard in hand: the lock is taken and given back.
Refuse(t, ok) == auth_write = NoTask /\ Return(t, ok)

-----------------------------------------------------------------------------
(* initialize and restore_session *)

\* load_state: a keyring that cannot be read leaves the session pending.
InitializeLoad ==
    /\ At("main", "initialize", "load")
    /\ session_restore_pending' = ~readable
    /\ session' = IF readable THEN keyring ELSE 0
    /\ account' = AccountStatus(FALSE, session', session_restore_pending')
    /\ Goto("main", "tunnel")
    /\ UNCHANGED <<pending_auth, worldVars, owned, auth_write, network_write, calls>>

\* A connected tunnel of ours is taken over when the session is there; when its
\* kill switch cannot be reconciled it is rejected, connected or not.
InitializeTunnel ==
    /\ At("main", "initialize", "tunnel")
    /\ \/ /\ Fault("observe") \/ tunnel # "connected" \/ session_restore_pending
          /\ task' = [task EXCEPT !["main"] = Idle]
          /\ UNCHANGED owned
       \/ /\ tunnel = "connected" /\ ~session_restore_pending
          /\ owned' = TRUE
          /\ Goto("main", "agent")
       \/ /\ tunnel # "none" /\ Fault("nm")
          /\ owned' = TRUE
          /\ Goto("main", "rejected")
    /\ UNCHANGED <<stateVars, worldVars, auth_write, network_write, calls>>

\* Both the recovery loop and account.retry_restore run restore_session.
RestoreLock(t) ==
    /\ At(t, "account.retry_restore", "queued")
    /\ IF session_restore_pending
         THEN TakeAuth(t) /\ Goto(t, "read")
         ELSE Refuse(t, TRUE)
    /\ UNCHANGED <<stateVars, worldVars, owned, network_write, calls>>

RestoreRead(t) ==
    /\ task[t].pc = "read"
    /\ IF readable
         THEN /\ task' = [task EXCEPT ![t].pc = "store", ![t].gen = keyring]
              /\ UNCHANGED auth_write
         ELSE Return(t, FALSE)
    /\ UNCHANGED <<stateVars, worldVars, owned, network_write, calls>>

RestoreStore(t) ==
    /\ At(t, "account.retry_restore", "store")
    /\ session' = task[t].gen
    /\ session_restore_pending' = FALSE
    /\ Goto(t, "network")
    /\ UNCHANGED <<pending_auth, account, worldVars, owned, auth_write, network_write, calls>>

RestoreNetwork(t) ==
    /\ At(t, "account.retry_restore", "network")
    /\ network_write = NoTask
    /\ network_write' = t
    /\ Goto(t, "observe")
    /\ UNCHANGED <<stateVars, worldVars, owned, auth_write, calls>>

\* Variant for a mutant: the guard is kept when there is no tunnel to restore.
RestoreObserveKeepsLock(t) ==
    /\ At(t, "account.retry_restore", "observe")
    /\ IF tunnel # "connected"
         THEN Goto(t, "publish") /\ UNCHANGED owned
         ELSE Goto(t, "agent") /\ owned' = TRUE
    /\ UNCHANGED <<stateVars, worldVars, auth_write, network_write, calls>>

RestoreObserve(t) ==
    /\ At(t, "account.retry_restore", "observe")
    /\ \/ /\ Fault("observe") \/ tunnel # "connected"
          /\ Goto(t, "publish")
          /\ network_write' = NoTask
          /\ UNCHANGED owned
       \/ /\ tunnel = "connected"
          /\ owned' = TRUE
          /\ Goto(t, "agent")
          /\ UNCHANGED network_write
    /\ UNCHANGED <<stateVars, worldVars, auth_write, calls>>

\* Where restore_owned_local_agent returns to.
Restored(t) ==
    IF t = "main" THEN task' = [task EXCEPT ![t] = Idle] ELSE Goto(t, "publish")

\* restore_owned_local_agent, for initialize (no lock held) and restore_session
\* (both locks held).  Without a session there is nothing to restore;
\* a server that is no longer in the catalog counts as a fault of the agent.
RestoreAgent(t) ==
    /\ task[t].pc = "agent"
    /\ \/ /\ session # 0
          /\ Restored(t)
          /\ network_write' = IF network_write = t THEN NoTask ELSE network_write
       \/ /\ session = 0 \/ Fault("agent")
          /\ Goto(t, "rejected")
          /\ UNCHANGED network_write
    /\ UNCHANGED <<stateVars, worldVars, owned, auth_write, calls>>

\* disconnect_after_local_agent_rejection locks network_write.  The mutex is not
\* reentrant: in restore_session its holder waits for itself.
Rejected(t) ==
    /\ task[t].pc = "rejected"
    /\ network_write = NoTask
    /\ network_write' = t
    /\ Goto(t, "teardown")
    /\ UNCHANGED <<stateVars, worldVars, owned, auth_write, calls>>

\* Its teardown ignores failures.
RejectedTeardown(t) ==
    /\ task[t].pc = "teardown"
    /\ \/ tunnel' = "none" /\ owned' = FALSE
       \/ Fault("nm") /\ UNCHANGED <<tunnel, owned>>
    /\ network_write' = NoTask
    /\ Restored(t)
    /\ UNCHANGED <<stateVars, keyring, in_doubt, readable, issued, auth_write, calls>>

\* Variant for a mutant: the end of the restoration is not announced.
PublishNothing(t) ==
    /\ task[t].pc = "publish"
    /\ Return(t, TRUE)
    /\ UNCHANGED <<stateVars, worldVars, owned, network_write, calls>>

\* emit_account and the return, at the end of a restoration and of a logout.
Publish(t) ==
    /\ task[t].pc = "publish"
    /\ account' = CurrentStatus
    /\ Return(t, TRUE)
    /\ UNCHANGED <<session_restore_pending, session, pending_auth, worldVars, owned,
                   network_write, calls>>

\* spawn_session_recovery, every time its delay has passed.
RecoveryTick ==
    /\ Booted /\ task["recovery"] = Idle /\ session_restore_pending
    /\ task' = [task EXCEPT !["recovery"] =
                    [Idle EXCEPT !.job = "account.retry_restore", !.pc = "queued"]]
    /\ UNCHANGED <<stateVars, worldVars, owned, auth_write, network_write, calls>>

Restore(t) ==
    RestoreRead(t) \/ RestoreStore(t) \/ RestoreObserve(t) \/ RestoreAgent(t)
    \/ RejectedTeardown(t) \/ Publish(t)

-----------------------------------------------------------------------------
(* account_login, account_submit_2fa, account_authenticate_fido2 *)

\* Answer and publish the account as it is after this step.
ReturnPublishing(t, needs2fa, ok) ==
    /\ pending_auth' = needs2fa
    /\ account' = AccountStatus(needs2fa, session, session_restore_pending)
    /\ Return(t, ok)

\* Variant for a mutant: login does not wait for the saved session.
LoginLockWhileRestoring(t) ==
    /\ At(t, "account.login", "queued")
    /\ TakeAuth(t)
    /\ account' = "signing_in"
    /\ Goto(t, "authenticate")
    /\ UNCHANGED <<session_restore_pending, session, pending_auth, worldVars, owned,
                   network_write, calls>>

LoginLock(t) ==
    /\ At(t, "account.login", "queued")
    /\ \/ /\ session_restore_pending            \* ensure_session_restored
          /\ Refuse(t, FALSE)
          /\ UNCHANGED account
       \/ /\ ~session_restore_pending /\ session # 0
          /\ Refuse(t, TRUE)
          /\ UNCHANGED account
       \/ /\ ~session_restore_pending /\ session = 0
          /\ TakeAuth(t)
          /\ account' = "signing_in"
          /\ Goto(t, "authenticate")
    /\ UNCHANGED <<session_restore_pending, session, pending_auth, worldVars, owned,
                   network_write, calls>>

\* Variant for a mutant: a refused login is not published.
LoginAuthenticateSilent(t) ==
    /\ task[t].pc = "authenticate"
    /\ \/ Return(t, FALSE) /\ UNCHANGED <<pending_auth, account>>
       \/ ReturnPublishing(t, TRUE, TRUE)
    /\ UNCHANGED <<session_restore_pending, session, worldVars, owned, network_write, calls>>

\* A failed login also forgets a second factor an earlier one was waiting for.
LoginAuthenticate(t) ==
    /\ task[t].pc = "authenticate"
    /\ \/ Fault("api") /\ ReturnPublishing(t, FALSE, FALSE)
       \/ ReturnPublishing(t, TRUE, TRUE)
       \/ Goto(t, "finalize") /\ UNCHANGED <<pending_auth, account, auth_write>>
    /\ UNCHANGED <<session_restore_pending, session, worldVars, owned, network_write, calls>>

\* The pending authentication is taken out while its code is verified.
Submit2faLock(t) ==
    /\ At(t, "account.submit_2fa", "queued")
    /\ \/ /\ ~pending_auth
          /\ Refuse(t, FALSE)
       \/ /\ pending_auth
          /\ TakeAuth(t)
          /\ Goto(t, "verify")
    /\ pending_auth' = FALSE
    /\ UNCHANGED <<session_restore_pending, session, account, worldVars, owned,
                   network_write, calls>>

Fido2Lock(t) ==
    /\ At(t, "account.authenticate_fido2", "queued")
    /\ \/ ~pending_auth /\ Refuse(t, FALSE)
       \/ pending_auth /\ TakeAuth(t) /\ Goto(t, "touch")
    /\ UNCHANGED <<stateVars, worldVars, owned, network_write, calls>>

\* The security key answers, or the worker gives up: timeout, wrong PIN, cancel.
Fido2Touch(t) ==
    /\ task[t].pc = "touch"
    /\ \/ Return(t, FALSE) /\ UNCHANGED pending_auth
       \/ /\ pending_auth' = FALSE
          /\ Goto(t, "verify")
          /\ UNCHANGED auth_write
    /\ UNCHANGED <<session_restore_pending, session, account, worldVars, owned,
                   network_write, calls>>

\* The code is wrong (it may be tried again), the authentication has expired,
\* or it is accepted.
VerifySecondFactor(t) ==
    /\ task[t].pc = "verify"
    /\ \/ ReturnPublishing(t, TRUE, FALSE)
       \/ Fault("api") /\ ReturnPublishing(t, FALSE, FALSE)
       \/ Goto(t, "finalize") /\ UNCHANGED <<pending_auth, account, auth_write>>
    /\ UNCHANGED <<session_restore_pending, session, worldVars, owned, network_write, calls>>

\* finalize_auth: fetch the account, save the session, then use it.
FinalizeFetch(t) ==
    /\ task[t].pc = "finalize"
    /\ \/ Fault("api") /\ ReturnPublishing(t, pending_auth, FALSE) /\ UNCHANGED issued
       \/ /\ issued < MaxIssued
          /\ issued' = issued + 1
          /\ task' = [task EXCEPT ![t].pc = "save", ![t].gen = issued + 1]
          /\ UNCHANGED <<pending_auth, account, auth_write>>
    /\ UNCHANGED <<session_restore_pending, session, keyring, in_doubt, readable, tunnel, owned,
                   network_write, calls>>

\* A write of several items that fails has stored its value or not.
WriteFails(value) ==
    /\ keyring' \in {keyring, value}
    /\ in_doubt' = in_doubt \cup {value}

\* secret_store.save; a failed login is published, a failed rotation is not.
Save(t) ==
    /\ task[t].pc = "save"
    /\ \/ /\ keyring' = task[t].gen
          /\ Goto(t, "store")
          /\ UNCHANGED <<pending_auth, account, auth_write>>
          /\ in_doubt' = {}
       \/ /\ Fault("save")
          /\ \/ task[t].job = "account.refresh" /\ Return(t, FALSE)
                /\ UNCHANGED <<pending_auth, account>>
             \/ task[t].job # "account.refresh" /\ ReturnPublishing(t, pending_auth, FALSE)
          /\ WriteFails(task[t].gen)
    /\ UNCHANGED <<session_restore_pending, session, readable, issued, tunnel, owned,
                   network_write, calls>>

StoreSession(t) ==
    /\ task[t].pc = "store" /\ task[t].job # "account.retry_restore"
    /\ session' = task[t].gen
    /\ IF task[t].job = "account.refresh"
         THEN UNCHANGED <<pending_auth, account>>
         ELSE pending_auth' = FALSE /\ account' = "signed_in"
    /\ Return(t, TRUE)
    /\ UNCHANGED <<session_restore_pending, worldVars, owned, network_write, calls>>

-----------------------------------------------------------------------------
(* refresh_tokens and everything else that rotates tokens *)

RefreshLock(t) ==
    /\ At(t, "account.refresh", "queued")
    /\ \/ session = 0 /\ Refuse(t, TRUE)
       \/ session # 0 /\ TakeAuth(t) /\ Goto(t, "rotate")
    /\ UNCHANGED <<stateVars, worldVars, owned, network_write, calls>>

RefreshRotate(t) ==
    /\ task[t].pc = "rotate"
    /\ \/ Fault("api") /\ Return(t, FALSE) /\ UNCHANGED issued
       \/ /\ issued < MaxIssued
          /\ issued' = issued + 1
          /\ task' = [task EXCEPT ![t].pc = "save", ![t].gen = issued + 1]
          /\ UNCHANGED auth_write
    /\ UNCHANGED <<stateVars, keyring, in_doubt, readable, tunnel, owned, network_write, calls>>

-----------------------------------------------------------------------------
(* account_logout: the tunnel, the keyring, the state, in this order *)

LogoutLock(t) ==
    /\ At(t, "account.logout", "queued")
    /\ \/ session_restore_pending /\ Refuse(t, FALSE)
       \/ ~session_restore_pending /\ TakeAuth(t) /\ Goto(t, "observe")
    /\ UNCHANGED <<stateVars, worldVars, owned, network_write, calls>>

LogoutObserve(t) ==
    /\ At(t, "account.logout", "observe")
    /\ \/ Fault("observe") /\ Return(t, FALSE)
       \/ tunnel # "none" /\ Goto(t, "network") /\ UNCHANGED auth_write
       \/ tunnel = "none" /\ Goto(t, "clear") /\ UNCHANGED auth_write
    /\ UNCHANGED <<stateVars, worldVars, owned, network_write, calls>>

LogoutNetwork(t) ==
    /\ At(t, "account.logout", "network")
    /\ network_write = NoTask
    /\ network_write' = t
    /\ Goto(t, "down")
    /\ UNCHANGED <<stateVars, worldVars, owned, auth_write, calls>>

\* Variant for a mutant: logging out goes on although the tunnel stays up.
LogoutDownIgnored(t) ==
    /\ At(t, "account.logout", "down")
    /\ \/ tunnel' = IF owned THEN "none" ELSE tunnel
       \/ Fault("nm") /\ UNCHANGED tunnel
    /\ owned' = FALSE
    /\ network_write' = NoTask
    /\ Goto(t, "clear")
    /\ UNCHANGED <<stateVars, keyring, in_doubt, readable, issued, auth_write, calls>>

\* disconnect_inner takes down the tunnel whose uuid is known, if any is.
LogoutDown(t) ==
    /\ At(t, "account.logout", "down")
    /\ \/ /\ tunnel' = IF owned THEN "none" ELSE tunnel
          /\ owned' = FALSE
          /\ Goto(t, "clear")
          /\ UNCHANGED auth_write
       \/ Fault("nm") /\ owned /\ Return(t, FALSE) /\ UNCHANGED <<tunnel, owned>>
    /\ network_write' = NoTask
    /\ UNCHANGED <<stateVars, keyring, in_doubt, readable, issued, calls>>

\* Variant for a mutant: the state is cleared even if the keyring refused.
LogoutDeleteIgnored(t) ==
    /\ At(t, "account.logout", "clear")
    /\ pending_auth' = FALSE
    /\ keyring' = 0 \/ (Fault("save") /\ UNCHANGED keyring)
    /\ in_doubt' = {}
    /\ Goto(t, "publish")
    /\ session' = 0
    /\ UNCHANGED <<session_restore_pending, account, readable, issued, tunnel, owned,
                   auth_write, network_write, calls>>

\* The pending authentication is dropped and the stored session deleted; only
\* then is the state cleared.
LogoutDelete(t) ==
    /\ At(t, "account.logout", "clear")
    /\ pending_auth' = FALSE
    /\ \/ /\ IF session # 0 THEN keyring' = 0 /\ in_doubt' = {}
                            ELSE UNCHANGED <<keyring, in_doubt>>
          /\ session' = 0
          /\ Goto(t, "publish")
          /\ UNCHANGED auth_write
       \/ /\ Fault("save") /\ session # 0
          /\ Return(t, FALSE)
          /\ WriteFails(0)
          /\ UNCHANGED session
    /\ UNCHANGED <<session_restore_pending, account, readable, issued, tunnel, owned,
                   network_write, calls>>

-----------------------------------------------------------------------------
(* account.get publishes what it reads, without auth_write; and a request  *)
(* of the connection side that needs network_write.                        *)

AccountGetRead(t) ==
    /\ At(t, "account.get", "queued")
    /\ task' = [task EXCEPT ![t].pc = "emit", ![t].seen = CurrentStatus]
    /\ UNCHANGED <<stateVars, worldVars, owned, auth_write, network_write, calls>>

AccountGetEmit(t) ==
    /\ task[t].pc = "emit"
    /\ account' = task[t].seen
    /\ Return(t, TRUE)
    /\ UNCHANGED <<session_restore_pending, session, pending_auth, worldVars, owned,
                   network_write, calls>>

DisconnectLock(t) ==
    /\ At(t, "connection.disconnect", "queued")
    /\ network_write = NoTask
    /\ IF owned
         THEN network_write' = t /\ Goto(t, "down") /\ UNCHANGED auth_write
         ELSE Return(t, FALSE) /\ UNCHANGED network_write
    /\ UNCHANGED <<stateVars, worldVars, owned, calls>>

DisconnectDown(t) ==
    /\ At(t, "connection.disconnect", "down")
    /\ \/ tunnel' = "none" /\ owned' = FALSE /\ Return(t, TRUE)
       \/ Fault("nm") /\ Return(t, FALSE) /\ UNCHANGED <<tunnel, owned>>
    /\ network_write' = NoTask
    /\ UNCHANGED <<stateVars, keyring, in_doubt, readable, issued, calls>>

-----------------------------------------------------------------------------

Submit(r, m) ==
    /\ Booted /\ task[r] = Idle /\ calls < MaxCalls
    /\ calls' = calls + 1
    /\ task' = [task EXCEPT ![r] = [Idle EXCEPT !.job = m, !.pc = "queued"]]
    /\ UNCHANGED <<stateVars, worldVars, owned, auth_write, network_write>>

Reply(r) ==
    /\ task[r].pc = "reply"
    /\ task' = [task EXCEPT ![r] = Idle]
    /\ UNCHANGED <<stateVars, worldVars, owned, auth_write, network_write, calls>>

\* The desktop unlocks the keyring; NetworkManager brings the tunnel up.
KeyringUnlocks ==
    /\ ~readable /\ readable' = TRUE
    /\ UNCHANGED <<stateVars, keyring, in_doubt, issued, tunnel, owned, auth_write, network_write,
                   task, calls>>

TunnelUp ==
    /\ tunnel = "connecting" /\ tunnel' = "connected"
    /\ UNCHANGED <<stateVars, keyring, in_doubt, readable, issued, owned, auth_write, network_write,
                   task, calls>>

TakeLock(t) ==
    \/ RestoreLock(t) \/ RestoreNetwork(t) \/ Rejected(t)
    \/ LoginLock(t) \/ Submit2faLock(t) \/ Fido2Lock(t) \/ RefreshLock(t)
    \/ LogoutLock(t) \/ LogoutNetwork(t) \/ DisconnectLock(t)

Step(t) ==
    \/ Restore(t)
    \/ LoginAuthenticate(t) \/ Fido2Touch(t) \/ VerifySecondFactor(t)
    \/ FinalizeFetch(t) \/ Save(t) \/ StoreSession(t) \/ RefreshRotate(t)
    \/ LogoutObserve(t) \/ LogoutDown(t) \/ LogoutDelete(t)
    \/ AccountGetRead(t) \/ AccountGetEmit(t) \/ DisconnectDown(t)
    \/ t \in Request /\ Reply(t)

Next ==
    \/ InitializeLoad \/ InitializeTunnel \/ RecoveryTick
    \/ \E t \in Task : TakeLock(t) \/ Step(t)
    \/ \E r \in Request, m \in Calls : Submit(r, m)
    \/ KeyringUnlocks \/ TunnelUp

Spec == Init /\ [][Next]_vars

\* Tasks are polled, tokio's mutexes are FIFO, the recovery loop keeps ticking,
\* and the user unlocks the keyring at some point.
Fairness ==
    /\ WF_vars(InitializeLoad) /\ WF_vars(InitializeTunnel) /\ WF_vars(RecoveryTick)
    /\ WF_vars(KeyringUnlocks)
    /\ \A t \in Task : SF_vars(TakeLock(t)) /\ WF_vars(Step(t))

FairSpec == Spec /\ Fairness

-----------------------------------------------------------------------------
(* Properties *)

\* Every variable has its type.
TypeOK ==
    /\ session_restore_pending \in BOOLEAN /\ pending_auth \in BOOLEAN
    /\ owned \in BOOLEAN /\ readable \in BOOLEAN
    /\ session \in Generation /\ keyring \in Generation /\ issued \in Generation
    /\ in_doubt \subseteq Generation
    /\ account \in Status
    /\ auth_write \in Task \cup {NoTask} /\ network_write \in Task \cup {NoTask}
    /\ tunnel \in {"none", "connecting", "connected"}
    /\ task \in [Task -> TaskState]
    /\ calls \in 0 .. MaxCalls

\* Once the keyring has been read, and while nobody is authenticating, the session
\* in memory is the stored one, or a write has failed since the last one that did not
\* and its value is stored: no restoration that was under way resurrects a session
\* that was deleted since or overwrites a newer one (restore_session).
SessionMatchesKeyring ==
    auth_write = NoTask /\ ~session_restore_pending => keyring \in {session} \cup in_doubt

\* While nobody is authenticating, clients see the account as it is (restore_saved_
\* session: "The caller holds auth_write across this read and the publication of
\* account state").
PublishedAccountIsCurrent == auth_write = NoTask => account = CurrentStatus

\* The second factor is only asked of somebody who is not signed in: a pending
\* authentication never coexists with a session, saved or in use.
NoSecondFactorWhileSignedIn == auth_write = NoTask /\ pending_auth => session = 0

\* A completed logout leaves no tunnel of this agent up (contract: "Logout is global,
\* disconnects the VPN").
LogoutDisconnects ==
    \A r \in Request : At(r, "account.logout", "reply") /\ task[r].ok => tunnel = "none"

\* Once storage can be read, the account leaves "restoring" for good or bad
\* (schema.md: "Once storage is read successfully, the account becomes signed_in or
\* (for an empty keyring) signed_out").
RestorationEnds == account = "restoring" ~> account # "restoring"

\* Every request is answered.
EveryRequestIsAnswered ==
    \A r \in Request : task[r].pc # "idle" ~> task[r].pc = "idle"
=============================================================================
