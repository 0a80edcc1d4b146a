----------------------------- MODULE Reconnect -----------------------------
(***************************************************************************)
(* The tasks of the agent that connect without being asked: auto-connect   *)
(* (agent/src/autoconnect.rs), and of agent/src/native_backend/lifecycle.rs*)
(* the connection monitor and the handler of sleep signals.  They run      *)
(* beside a frontend, on the operation coordinator of module Operations:   *)
(* what the user did in the meantime they only know from its journal.      *)
(*                                                                         *)
(* The three share their loop: look, observe, resolve, connect, wait, and  *)
(* try again.  Delays are left out: a task in "sleep" may go on any time.  *)
(*                                                                         *)
(* The names of the specification are its own, not Init, Next and Spec, so *)
(* that BackgroundProofs can extend this module beside RemoteData.         *)
(***************************************************************************)
EXTENDS Naturals, Sequences, FiniteSets

CONSTANTS MAX_ATTEMPTS,            \* 8 in the code, for auto-connect
          RESUME_ATTEMPTS,         \* Len(RESUME_RETRY_DELAYS), 6 in the code
          RECENT_OPERATION_LIMIT,  \* 16 in the code
          UserMethod,              \* the mutations the user asks for
          MaxOperations,           \* bound on the operations
          Budget                   \* bound on faults and events: the rare ones cost two

ASSUME ReconnectAssumption ==
    /\ {MAX_ATTEMPTS, RESUME_ATTEMPTS, RECENT_OPERATION_LIMIT} \subseteq Nat \ {0}
    /\ {MaxOperations, Budget} \subseteq Nat

Task == {"autoconnect", "monitor", "resume"}

\* AUTOCONNECT_CLIENT_ID and LIFECYCLE_CLIENT_ID
Initiator(t) == IF t = "autoconnect" THEN "agent-autoconnect" ELSE "agent-lifecycle"

Attempts(t) == IF t = "autoconnect" THEN MAX_ATTEMPTS ELSE RESUME_ATTEMPTS

Manual == {"connection.connect", "connection.cancel", "connection.disconnect",
           "account.logout"}

VARIABLES next_id, active, recent, lease,   \* the coordinator
          account,     \* AccountStatus in the snapshot
          status,      \* ConnectionStatus in the snapshot
          vpn,         \* the tunnel is up in NetworkManager
          auto,        \* onboarding.auto_connect
          task,        \* the retry sequence of each task
          run,         \* the variables of autoconnect::run
          owned,       \* monitor_connection: owned_operations, or NoSet
          before,      \* handle_sleep_signals: active_before_sleep
          signals,     \* the channel of sleep signals
          left,        \* what is left of the budget
          manual,      \* for each task: the user acted after its baseline was taken
          erased,      \* the journal lost the trace of a cancellation or of old records
          restarted,   \* the preference was switched, or the session was lost
          tried        \* auto-connect got to a connection, or gave up

ops  == <<next_id, active, recent, lease>>
hist == <<manual, erased, restarted, tried>>
sequenceVars == <<ops, account, status, vpn, auto, task, run, owned, before, signals, left, hist>>

Ops == INSTANCE Operations WITH
          Client <- {"ui"} \cup {Initiator(t) : t \in Task},
          Request <- {"ui"} \cup Task,
          Method <- UserMethod \cup {"connection.connect"}

\* The coordinator's own assumptions.
ASSUME CoordinatorAssumption == Ops!MethodAssumption /\ Ops!LimitAssumption

NoSet == {0}

IdleTask == [pc |-> "idle", baseline |-> {}, n |-> 0, was_active |-> FALSE,
             authenticated |-> FALSE, result |-> "ok", known |-> FALSE]

SequencesInit ==
    /\ Ops!Init
    /\ account \in {"Restoring", "SignedIn"}
    /\ status = "Disconnected" /\ vpn = FALSE
    /\ auto \in BOOLEAN
    /\ task = [t \in Task |-> IdleTask]
    /\ run = [pc |-> "start", auto |-> FALSE, account |-> account, stopped |-> FALSE]
    /\ owned = NoSet /\ before = "none" /\ signals = <<>>
    /\ left = Budget
    /\ manual = [t \in Task |-> FALSE]
    /\ erased = FALSE /\ restarted = FALSE /\ tried = FALSE

Pay(n) == left >= n /\ left' = left - n

-----------------------------------------------------------------------------
(* operations.rs and the snapshot *)

recent_operation_ids == {recent[i].id : i \in DOMAIN recent}

\* Variant for a mutant: operations of other clients are not looked at.
sequence_interruptedByCancel(baseline, initiator) ==
    \E op \in Ops!Journal :
        /\ op.id \notin baseline
        /\ op.kind = "connection.connect"
        /\ op.stage = "cancelling" \/ op.state = "Cancelled"

connection_sequence_interrupted(baseline, initiator) ==
    \E op \in Ops!Journal :
        /\ op.id \notin baseline
        /\ \/ /\ op.kind = "connection.connect"
              /\ op.stage = "cancelling" \/ op.state = "Cancelled"
           \/ op.initiator # initiator /\ op.kind \in Manual

Interrupted(t) == connection_sequence_interrupted(task[t].baseline, Initiator(t))

vpn_is_active == status \in {"Connecting", "Connected"}

\* connection.observe, which is refused while authentication is changing.
CanObserve == \A op \in active : Ops!DomainOf(op.kind) # "AuthSession"

Observed ==
    IF \E op \in active : op.kind = "connection.connect" THEN "Connecting"
    ELSE IF vpn THEN "Connected"
    ELSE "Disconnected"

\* finish, for an operation that has run: the journal may push out its oldest.
Finish(slot, result) ==
    /\ Ops!FinishOwner(slot, result)
    /\ erased' = (erased \/ Len(recent) = RECENT_OPERATION_LIMIT)

-----------------------------------------------------------------------------
(* The retry sequence: autoconnect::attempt with attempt_once, and         *)
(* reconnect_after_resume.                                                 *)

\* What makes the sequence stop besides the user.
Wanted(t) == auto \/ (t # "autoconnect" /\ task[t].was_active)

TaskAt(t, pc) == task[t].pc = pc

Goto(t, pc) == task' = [task EXCEPT ![t].pc = pc]

Outcome(t, result) ==
    task' = [task EXCEPT ![t].pc = "after", ![t].result = result, ![t].known = FALSE]

\* Variant for a mutant: the account is taken as it is now after the first attempt too.
EndedAnyway(outcome) ==
    [run EXCEPT !.pc = "loop", !.stopped = @ \/ outcome = "Interrupted", !.account = account]

\* What autoconnect::run does with the outcome of an attempt.  After the first one
\* the account is taken as it was before it, unless the attempt got somewhere.
Ended(outcome) ==
    [run EXCEPT !.pc = "loop",
                !.stopped = @ \/ outcome = "Interrupted",
                !.auto = IF run.pc = "first" THEN @ ELSE auto,
                !.account = IF run.pc = "first" /\ outcome # "Finished" THEN @ ELSE account]

\* Only autoconnect::run keeps its baseline from one attempt to the next.
End(t, outcome) ==
    /\ task' = [task EXCEPT ![t] = [IdleTask EXCEPT !.baseline =
                    IF t = "autoconnect" THEN task[t].baseline ELSE {}]]
    /\ run' = IF t = "autoconnect" THEN Ended(outcome) ELSE run

Reached(t) == IF task[t].authenticated THEN "Finished" ELSE "WaitingForAccount"

Environment == <<account, auto, signals>>

\* The top of the loop.
Check(t) ==
    /\ TaskAt(t, "check")
    /\ \/ Interrupted(t) /\ End(t, "Interrupted")
       \/ ~Interrupted(t) /\ ~Wanted(t) /\ End(t, Reached(t))
       \/ ~Interrupted(t) /\ Wanted(t) /\ Goto(t, "account") /\ UNCHANGED run
    /\ UNCHANGED <<ops, Environment, status, vpn, owned, before, left, hist>>

\* account.get of auto-connect; the others look at the snapshot, and try again later.
Account(t) ==
    /\ TaskAt(t, "account")
    /\ \/ /\ account = "SignedIn"
          /\ task' = [task EXCEPT ![t].pc = "observe", ![t].authenticated = TRUE]
          /\ UNCHANGED left
       \/ /\ account # "SignedIn"
          /\ Outcome(t, IF t = "autoconnect" THEN "ok" ELSE "retry")
          /\ UNCHANGED left
       \/ t = "autoconnect" /\ Pay(1) /\ Outcome(t, "retry")
    /\ UNCHANGED <<ops, Environment, status, vpn, run, owned, before, hist>>

Observe(t) ==
    /\ TaskAt(t, "observe")
    /\ \/ CanObserve /\ status' = Observed /\ Goto(t, "resolve") /\ UNCHANGED left
       \/ ~CanObserve /\ Outcome(t, "retry") /\ UNCHANGED <<status, left>>
       \/ CanObserve /\ Pay(1) /\ Outcome(t, "retry") /\ UNCHANGED status
    /\ UNCHANGED <<ops, Environment, vpn, run, owned, before, hist>>

\* The last look at the journal, then connection.resolve.
Resolve(t) ==
    LET stop == vpn_is_active \/ ~Wanted(t) \/ Interrupted(t) IN
    /\ TaskAt(t, "resolve")
    /\ \/ /\ stop /\ Outcome(t, "ok")
          /\ tried' = (tried \/ (t = "autoconnect" /\ vpn_is_active))
          /\ UNCHANGED left
       \/ /\ ~stop
          /\ task' = [task EXCEPT ![t].pc = "connect", ![t].known = manual[t]]
          /\ UNCHANGED <<left, tried>>
       \/ /\ ~stop /\ Pay(1)
          /\ Outcome(t, IF t = "autoconnect" THEN "fatal" ELSE "retry")
          /\ UNCHANGED tried
    /\ UNCHANGED <<ops, Environment, status, vpn, run, owned, before, manual, erased,
                   restarted>>

\* connection.connect begins, or is refused by an operation in its way.
Connect(t) ==
    /\ TaskAt(t, "connect")
    /\ \/ /\ Ops!Open(t, Initiator(t), "connection.connect")
          /\ status' = "Connecting"
          /\ task' = [task EXCEPT ![t].pc = "wait", ![t].known = FALSE]
       \/ /\ ~Ops!CanOpen("connection.connect")
          /\ Outcome(t, "retry")
          /\ UNCHANGED <<ops, status>>
    /\ tried' = (tried \/ t = "autoconnect")
    /\ UNCHANGED <<Environment, vpn, run, owned, before, left, manual, erased, restarted>>

AnswerOf(result) ==
    IF result = "ErrOther" THEN {"retry", "fatal"}
    ELSE {IF result = "Ok" THEN "ok" ELSE "cancelled"}

Wait(t) ==
    /\ TaskAt(t, "wait")
    /\ \E result \in Ops!Result :
        /\ Finish(t, result)
        /\ \E answer \in AnswerOf(result) : Outcome(t, answer)
        /\ IF result = "Ok" THEN UNCHANGED left ELSE Pay(1)
        /\ vpn' = (result = "Ok")
        /\ status' = IF result = "Ok" THEN "Connected" ELSE "Disconnected"
    /\ UNCHANGED <<Environment, run, owned, before, manual, restarted, tried>>

\* Only an error that may pass is tried again, and not for ever.
TriesAgain(t) == task[t].result = "retry" /\ task[t].n + 1 < Attempts(t)

After(t) ==
    LET again == TriesAgain(t) IN
    /\ TaskAt(t, "after")
    /\ \/ Interrupted(t) /\ End(t, "Interrupted")
       \/ ~Interrupted(t) /\ task[t].result = "cancelled" /\ End(t, "Interrupted")
       \/ ~Interrupted(t) /\ task[t].result # "cancelled" /\ ~again /\ End(t, Reached(t))
       \/ /\ ~Interrupted(t) /\ again
          /\ task' = [task EXCEPT ![t].pc = "sleep", ![t].n = @ + 1, ![t].result = "ok"]
          /\ UNCHANGED run
    /\ tried' = (tried \/ (t = "autoconnect" /\ task[t].result \in {"retry", "fatal"} /\ ~again))
    /\ UNCHANGED <<ops, Environment, status, vpn, owned, before, left, manual, erased,
                   restarted>>

Sleep(t) ==
    LET over == ~Wanted(t) \/ (t = "autoconnect" /\ status = "Connected") IN
    /\ TaskAt(t, "sleep")
    /\ \/ Interrupted(t) /\ End(t, "Interrupted")
       \/ ~Interrupted(t) /\ over /\ End(t, "Finished")
       \/ ~Interrupted(t) /\ ~over /\ Goto(t, "check") /\ UNCHANGED run
    /\ tried' = (tried \/ (t = "autoconnect" /\ status = "Connected"))
    /\ UNCHANGED <<ops, Environment, status, vpn, owned, before, left, manual, erased,
                   restarted>>

Sequence(t) ==
    \/ Check(t) \/ Account(t) \/ Observe(t) \/ Resolve(t) \/ Connect(t) \/ Wait(t)
    \/ After(t) \/ Sleep(t)

Begin(t, was_active) ==
    [IdleTask EXCEPT !.pc = "check", !.baseline = recent_operation_ids, !.was_active = was_active]

-----------------------------------------------------------------------------
(* autoconnect::run *)

Start ==
    /\ run.pc = "start"
    /\ run' = [run EXCEPT !.pc = IF auto THEN "first" ELSE "loop", !.auto = auto,
                          !.account = account]
    /\ task' = [task EXCEPT !["autoconnect"] =
                    [Begin("autoconnect", FALSE) EXCEPT !.pc = IF auto THEN "check" ELSE "idle"]]
    /\ manual' = [manual EXCEPT !["autoconnect"] = FALSE]
    /\ UNCHANGED <<ops, Environment, status, vpn, owned, before, left, erased, restarted,
                   tried>>

\* A change of the snapshot is looked at.
Wake ==
    LET enabled_now == auto /\ ~run.auto
        session_became_ready == auto /\ account = "SignedIn" /\ run.account # "SignedIn"
        stopped == ~enabled_now /\ (run.stopped \/ Interrupted("autoconnect"))
        baseline == IF enabled_now THEN recent_operation_ids ELSE task["autoconnect"].baseline
    IN  /\ run.pc = "loop" /\ TaskAt("autoconnect", "idle")
        /\ <<auto, account, stopped>> # <<run.auto, run.account, run.stopped>>
        /\ run' = [run EXCEPT !.auto = auto, !.account = account, !.stopped = stopped]
        /\ task' = [task EXCEPT !["autoconnect"] =
                      [IdleTask EXCEPT !.baseline = baseline,
                          !.pc = IF enabled_now \/ (session_became_ready /\ ~stopped)
                                   THEN "check" ELSE "idle"]]
        /\ manual' = [manual EXCEPT !["autoconnect"] = @ /\ ~enabled_now]
        /\ UNCHANGED <<ops, Environment, status, vpn, owned, before, left, erased,
                       restarted, tried>>

-----------------------------------------------------------------------------
(* monitor_connection *)

\* Variant for a mutant: running operations make the monitor forget the tunnel.
MonitorTickForgets ==
    /\ TaskAt("monitor", "idle")
    /\ \/ /\ account # "SignedIn" \/ active # {}
          /\ owned' = NoSet /\ UNCHANGED task
       \/ /\ account = "SignedIn" /\ active = {}
          /\ task' = [task EXCEPT !["monitor"] =
                        [IdleTask EXCEPT !.pc = "look", !.baseline = recent_operation_ids]]
          /\ UNCHANGED owned
    /\ UNCHANGED <<ops, Environment, status, vpn, run, before, left, hist>>

\* A tick: nothing is looked at while operations run.
MonitorTick ==
    /\ TaskAt("monitor", "idle")
    /\ \/ account # "SignedIn" /\ owned' = NoSet /\ UNCHANGED task
       \/ /\ account = "SignedIn" /\ active = {}
          /\ task' = [task EXCEPT !["monitor"] =
                        [IdleTask EXCEPT !.pc = "look", !.baseline = recent_operation_ids]]
          /\ UNCHANGED owned
    /\ UNCHANGED <<ops, Environment, status, vpn, run, before, left, hist>>

\* The observation it asked for.  A tunnel that is gone without the user is restored.
MonitorLook ==
    LET lost == /\ owned # NoSet /\ Observed = "Disconnected"
                /\ ~connection_sequence_interrupted(owned, Initiator("monitor"))
    IN  /\ TaskAt("monitor", "look")
        /\ \/ /\ CanObserve
              /\ status' = Observed
              /\ owned' = CASE Observed = "Connected" -> task["monitor"].baseline
                            [] Observed = "Disconnected" -> NoSet
                            [] OTHER -> owned
              /\ task' = [task EXCEPT !["monitor"] =
                            IF lost THEN Begin("monitor", TRUE) ELSE IdleTask]
              /\ manual' = [manual EXCEPT !["monitor"] = FALSE]
           \/ /\ ~CanObserve
              /\ Goto("monitor", "idle")
              /\ UNCHANGED <<status, owned, manual>>
        /\ UNCHANGED <<ops, Environment, vpn, run, before, left, erased, restarted, tried>>

-----------------------------------------------------------------------------
(* handle_sleep_signals *)

HandleSleep ==
    /\ TaskAt("resume", "idle") /\ signals # <<>>
    /\ signals' = Tail(signals)
    /\ \/ /\ Head(signals) = "sleep"
          /\ before' = IF vpn_is_active THEN "active" ELSE "inactive"
          /\ UNCHANGED <<task, manual, status>>
       \/ /\ Head(signals) = "resume"
          /\ before' = "none"
          /\ \/ before = "none" /\ UNCHANGED <<task, manual, status>>
             \/ /\ before # "none" /\ (before = "active" \/ auto)
                /\ task' = [task EXCEPT !["resume"] = Begin("resume", before = "active")]
                /\ manual' = [manual EXCEPT !["resume"] = FALSE]
                /\ UNCHANGED status
             \/ /\ before = "inactive" /\ ~auto
                /\ status' = IF CanObserve THEN Observed ELSE status
                /\ UNCHANGED <<task, manual>>
    /\ UNCHANGED <<ops, account, vpn, auto, run, owned, left, erased, restarted, tried>>

-----------------------------------------------------------------------------
(* The user, through a frontend, and the rest of the world *)

TaskVars == <<task, run, owned, before>>

\* Task t has a baseline: from then on the user's actions count.
InSequence(t) == t = "autoconnect" \/ task[t].pc \notin {"idle", "look"}

UserBegins(m) ==
    /\ Pay(1)
    /\ Ops!AttachControl("ui", m) \/ Ops!Open("ui", "ui", m)
    /\ manual' = [t \in Task |-> manual[t] \/ (m \in Manual /\ InSequence(t))]
    /\ status' = IF m = "connection.connect" THEN "Connecting" ELSE status
    /\ UNCHANGED <<Environment, vpn, TaskVars, erased, restarted, tried>>

\* The answer to a request of the user, and what the backend did for it.
UserAnswered(op, result) ==
    /\ lease["ui"].role = "owner" /\ op \in active /\ op.id = lease["ui"].id
    /\ Finish("ui", result)
    /\ IF result = "Ok" THEN UNCHANGED left ELSE Pay(1)
    /\ vpn' = IF op.kind = "connection.connect" THEN result = "Ok"
              ELSE vpn /\ (result # "Ok" \/ op.kind \notin Manual)
    /\ status' = IF vpn' THEN "Connected" ELSE "Disconnected"
    /\ account' = IF op.kind = "account.logout" /\ result = "Ok" THEN "SignedOut" ELSE account
    /\ UNCHANGED <<auto, signals, TaskVars, manual, restarted, tried>>

\* A control that was attached is answered; the attempt it steered may be over.
ControlAnswered(result) ==
    /\ Ops!FinishControl("ui", result)
    /\ IF result = "Ok" THEN UNCHANGED left ELSE Pay(1)
    /\ LET over == \A op \in active : op.id # lease["ui"].id
       IN  /\ vpn' = (vpn /\ ~(over /\ result = "Ok"))
           /\ status' = IF over THEN (IF vpn' THEN "Connected" ELSE "Disconnected") ELSE status
    /\ erased' = (erased \/ result # "Ok")
    /\ UNCHANGED <<Environment, TaskVars, manual, restarted, tried>>

\* The attempt reports its progress over a cancellation.
Progress ==
    /\ Pay(1)
    /\ \E op \in active : op.kind = "connection.connect" /\ op.stage = "cancelling"
    /\ Ops!update_stage("connection.connect", "working")
    /\ erased' = TRUE
    /\ UNCHANGED <<Environment, status, vpn, TaskVars, manual, restarted, tried>>

World(cost) == Pay(cost) /\ UNCHANGED <<ops, status, TaskVars, manual, erased, tried>>

\* The keyring is read, the user signs in, the session is rejected.
AccountChanges ==
    /\ World(IF account = "SignedIn" THEN 2 ELSE 1) /\ UNCHANGED <<vpn, auto, signals>>
    /\ account' \in {"SignedIn", "SignedOut"} \ {account}
    /\ restarted' = (restarted \/ account = "SignedIn")

Switch ==
    /\ World(2) /\ UNCHANGED <<vpn, account, signals>>
    /\ auto' = ~auto
    /\ restarted' = TRUE

TunnelDrops ==
    /\ World(1) /\ UNCHANGED <<auto, account, signals, restarted>>
    /\ vpn /\ vpn' = FALSE

\* The tunnel is usually gone after a sleep.
Suspend ==
    /\ World(2) /\ UNCHANGED <<auto, account, restarted>>
    /\ signals' = signals \o <<"sleep", "resume">>
    /\ vpn' \in {vpn, FALSE}

User ==
    \/ \E m \in UserMethod : UserBegins(m)
    \/ \E op \in active, result \in Ops!Result : UserAnswered(op, result)
    \/ \E result \in Ops!Result : ControlAnswered(result)

Agent == Start \/ Wake \/ MonitorTick \/ MonitorLook \/ HandleSleep

SequencesNext ==
    \/ Agent
    \/ \E t \in Task : Sequence(t)
    \/ User
    \/ Progress \/ AccountChanges \/ Switch \/ TunnelDrops \/ Suspend

\* The tasks of the agent run, and requests are answered.
Fairness ==
    /\ WF_sequenceVars(Start) /\ WF_sequenceVars(Wake) /\ WF_sequenceVars(HandleSleep)
    /\ WF_sequenceVars(MonitorTick) /\ WF_sequenceVars(MonitorLook)
    /\ \A t \in Task : WF_sequenceVars(Sequence(t))
    /\ WF_sequenceVars(User /\ lease["ui"] # Ops!NoLease)

SequencesSpec == SequencesInit /\ [][SequencesNext]_sequenceVars /\ Fairness

-----------------------------------------------------------------------------
(* Properties *)

TaskRecord ==
    [pc : {"idle", "look", "check", "account", "observe", "resolve", "connect", "wait", "after",
           "sleep"},
     baseline : SUBSET (1 .. MaxOperations), n : Nat, was_active : BOOLEAN,
     authenticated : BOOLEAN, result : {"ok", "retry", "fatal", "cancelled"}, known : BOOLEAN]

\* Every variable has its type, and no sequence makes more attempts than it may.
SequencesTypeOK ==
    /\ Ops!TypeOK
    /\ account \in {"Restoring", "SignedIn", "SignedOut"}
    /\ status \in {"Disconnected", "Connecting", "Connected"}
    /\ \A t \in Task : task[t] \in TaskRecord /\ task[t].n < Attempts(t)
    /\ run.pc \in {"start", "first", "loop"}
    /\ owned \subseteq 0 .. MaxOperations
    /\ {vpn, auto, run.stopped, erased, restarted, tried} \subseteq BOOLEAN

\* A task that goes on to connect does so without the user having cancelled,
\* connected, disconnected or signed out since its sequence began, through every wait
\* for the keyring, retry and restart of the sequence; unless the journal had lost
\* the trace: a progress report or a failed control over the cancellation, or more
\* operations than the journal holds.
ManualActionStops == \A t \in Task : TaskAt(t, "connect") /\ task[t].known => erased

\* When auto-connect is on and the account becomes available, at the start or later,
\* the agent gets to a connection attempt by itself (README: "auto-connect runs once
\* the account is available").  The wake-up is not lost, whenever the keyring
\* answers, as long as the preference is not switched and the session not lost.
AccountReadyConnects ==
    []<>(\/ tried \/ restarted \/ ~auto \/ account # "SignedIn"
         \/ \E op \in Ops!Journal : op.initiator # "agent-autoconnect")

\* The monitor knows of a tunnel that is gone, and nobody else has had a hand in it.
TunnelLost ==
    /\ owned # NoSet /\ ~vpn
    /\ \A op \in Ops!Journal :
        op.id \in owned \/ op.initiator = "agent-lifecycle" \/ op.kind \notin Manual

\* A tunnel goes away that the monitor has seen after the operation that brought it up
\* was in the journal, at a sleep or without one: it is noticed and leads to an attempt
\* to restore it, whatever other operations and observations the ticks run into, unless
\* from then on the session is lost, or somebody else connects, disconnects or cancels
\* before the monitor has looked.  What the user did before the loss is no excuse.  (The
\* journal is read before the tunnel is observed: an attempt of auto-connect that ends
\* in between is taken for the user's until the next tick.)
LostTunnelIsRestored ==
    TunnelLost ~>
        (\/ vpn \/ account # "SignedIn"
         \/ owned # NoSet /\ connection_sequence_interrupted(owned, Initiator("monitor"))
         \/ TaskAt("monitor", "check") \/ \E t \in Task : TaskAt(t, "connect"))
=============================================================================
