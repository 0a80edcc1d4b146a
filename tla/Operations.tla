----------------------------- MODULE Operations -----------------------------
(***************************************************************************)
(* The operation coordinator of the agent (agent/src/operations.rs) and    *)
(* the way BackendHandle::request (agent/src/backend.rs) drives it.        *)
(*                                                                         *)
(* Every request of every client first calls begin, which either rejects   *)
(* it, lets it through as a read, attaches it as a control to the          *)
(* operation it steers, or opens a new operation in one of four domains.   *)
(* When the backend has answered, the same request calls finish.  The      *)
(* registry is behind one std::sync::Mutex, so each method is one step.    *)
(*                                                                         *)
(* Abstractions: a record keeps the fields that decide anything (id,       *)
(* initiator, kind, state, stage); timestamps, the cancelable hint and     *)
(* the error payload are left out.  The localization keys of stage are     *)
(* folded into the four classes the code tells apart.  `active` is a set:  *)
(* where the code takes the first match of the Vec, the model takes any,   *)
(* and NoConflictingOperations shows there is at most one.                 *)
(***************************************************************************)
EXTENDS Naturals, Sequences, FiniteSets

CONSTANTS Client,                  \* client instances (frontends and internal tasks)
          Request,                 \* request slots: tasks inside BackendHandle::request
          Method,                  \* the methods the clients of this instance call
          RECENT_OPERATION_LIMIT,  \* 16 in the code
          MaxOperations            \* bound on the ids given out (u64 in the code)

AuthMethods ==
    {"account.login", "account.submit_2fa", "account.authenticate_fido2",
     "account.submit_fido2_pin", "account.cancel_fido2", "account.logout",
     "account.refresh"}

TunnelMethods ==
    {"connection.connect", "connection.disconnect", "connection.cancel",
     "feature.set", "protocol.set", "dns.set", "split_tunneling.set"}

SupportMethods ==
    {"report_issue.submit", "connection.feedback", "netshield.stats.get"}

StoreMethods ==
    {"onboarding.complete", "preferences.set", "profiles.save",
     "profiles.duplicate", "profiles.delete", "recents.record", "recents.pin",
     "recents.delete", "default_connection.set"}

\* The reads that guard_read refuses while authentication is changing.
StableSessionReads ==
    {"account.upgrade_url", "report_issue.categories.get", "locations.get",
     "servers.get", "servers.lookup", "apps.get", "connection.observe",
     "traffic.get"}

\* Every other method: served from cached state, never refused here.
PlainReads == {"account.get"}

Mutations == AuthMethods \cup TunnelMethods \cup SupportMethods \cup StoreMethods

Domain == {"AuthSession", "TunnelConfiguration", "Support", "Store"}

\* The domain column of operation_spec.
DomainOf(m) ==
    CASE m \in AuthMethods    -> "AuthSession"
      [] m \in TunnelMethods  -> "TunnelConfiguration"
      [] m \in SupportMethods -> "Support"
      [] OTHER                -> "Store"

\* The ControlSpec column of operation_spec: what a control steers, and
\* whether it is refused when that operation is not running.
Fido2Controls  == {"account.submit_fido2_pin", "account.cancel_fido2"}
TunnelControls == {"connection.disconnect", "connection.cancel"}
Controls       == Fido2Controls \cup TunnelControls

TargetKind(m) ==
    IF m \in Fido2Controls THEN "account.authenticate_fido2" ELSE "connection.connect"

RequiresTarget(m) == m \in Fido2Controls

\* "tunnel.cancelling" and "auth.cancelling_security_key" are one class.
ControlStage(m) ==
    IF m = "account.submit_fido2_pin" THEN "working" ELSE "cancelling"

\* The stage an operation opened by m starts in.  A connection.cancel that
\* finds no attempt to steer opens an operation that is itself "cancelling".
InitialStage(m) ==
    IF m = "connection.cancel" THEN "cancelling" ELSE "working"

domains_conflict(l, r) ==
    \/ l = "Store" /\ r = "Store"
    \/ /\ l # "Store" /\ r # "Store"
       /\ {l, r} # {"Support", "TunnelConfiguration"}

Stage    == {"working", "cancelling", "control_failed", "ended"}
Terminal == {"Succeeded", "Failed", "Cancelled"}

Id == 1 .. MaxOperations

OperationRecord ==
    [id : Id, initiator : Client, kind : Mutations,
     state : {"Running"} \cup Terminal, stage : Stage]

\* What a request holds between begin and finish.  An id of 0 stands for none.
Lease == [role : {"idle", "read", "control", "owner"}, id : Id \cup {0}]

NoLease == [role |-> "idle", id |-> 0]

Result == {"Ok", "ErrCancelled", "ErrOther"}

ASSUME MethodAssumption == Method \subseteq Mutations \cup StableSessionReads \cup PlainReads

ASSUME LimitAssumption ==
    /\ RECENT_OPERATION_LIMIT \in Nat \ {0}
    /\ MaxOperations \in Nat

VARIABLES next_id,    \* the id the next operation gets
          active,     \* the running operations
          recent,     \* the journal of finished operations, newest first
          lease       \* the lease each request slot holds

vars == <<next_id, active, recent, lease>>

Init ==
    /\ next_id = 1
    /\ active = {}
    /\ recent = <<>>
    /\ lease = [r \in Request |-> NoLease]

-----------------------------------------------------------------------------
(* begin *)

IsTarget(op, m) ==
    /\ DomainOf(op.kind) = DomainOf(m)
    /\ op.kind = TargetKind(m)
    /\ op.state = "Running"

SetStage(op, s) == (active \ {op}) \cup {[op EXCEPT !.stage = s]}

\* A control whose target runs becomes part of it: the stage changes, no new
\* operation is opened and no conflict is looked for.
AttachControl(r, m) ==
    /\ lease[r] = NoLease
    /\ m \in Controls
    /\ \E op \in active :
        /\ IsTarget(op, m)
        /\ active' = SetStage(op, ControlStage(m))
        /\ lease' = [lease EXCEPT ![r] = [role |-> "control", id |-> op.id]]
    /\ UNCHANGED <<next_id, recent>>

\* Variant for a mutant: the id is the position in the active list.
NewRecordByPosition(c, m) ==
    [id |-> Cardinality(active) + 1, initiator |-> c, kind |-> m,
     state |-> "Running", stage |-> InitialStage(m)]

\* What begin publishes for a new operation.
NewRecord(c, m) ==
    [id |-> next_id, initiator |-> c, kind |-> m, state |-> "Running",
     stage |-> InitialStage(m)]

\* Variant for a mutant: only operations of the same domain are looked at.
CanOpenSameDomainOnly(m) == \A op \in active : DomainOf(m) # DomainOf(op.kind)

CanOpen(m) == \A op \in active : ~domains_conflict(DomainOf(m), DomainOf(op.kind))

Open(r, c, m) ==
    /\ lease[r] = NoLease
    /\ m \in Mutations
    /\ m \in Controls =>
        /\ \A op \in active : ~IsTarget(op, m)
        /\ ~RequiresTarget(m)
    /\ CanOpen(m)
    /\ next_id <= MaxOperations
    /\ next_id' = next_id + 1
    /\ active' = active \cup {NewRecord(c, m)}
    /\ lease' = [lease EXCEPT ![r] = [role |-> "owner", id |-> next_id]]
    /\ UNCHANGED recent

\* guard_read: no record, only a refusal while authentication is changing.
BeginRead(r, m) ==
    /\ lease[r] = NoLease
    /\ m \in StableSessionReads \cup PlainReads
    /\ m \in StableSessionReads =>
        \A op \in active : DomainOf(op.kind) # "AuthSession"
    /\ lease' = [lease EXCEPT ![r] = [role |-> "read", id |-> 0]]
    /\ UNCHANGED <<next_id, active, recent>>

begin(r, c, m) == AttachControl(r, m) \/ Open(r, c, m) \/ BeginRead(r, m)

-----------------------------------------------------------------------------
(* finish *)

\* The terminal state of an operation from the backend's answer and the stage
\* the record was left in.
FinalState(op, result) ==
    IF op.stage = "cancelling" \/ result = "ErrCancelled" THEN "Cancelled"
    ELSE IF result = "Ok" THEN "Succeeded"
    ELSE "Failed"

\* Variant for a mutant: the journal is not truncated.
PushFrontUnbounded(op, journal) == <<op>> \o journal

\* push_front and truncate.
PushFront(op, journal) ==
    LET pushed == <<op>> \o journal
    IN  IF Len(pushed) <= RECENT_OPERATION_LIMIT
          THEN pushed
          ELSE SubSeq(pushed, 1, RECENT_OPERATION_LIMIT)

\* Variant for a mutant: the answer is dropped while a cancellation is pending.
FinishOwnerUnlessCancelling(r, result) ==
    /\ lease[r].role = "owner"
    /\ \E op \in active :
        /\ op.id = lease[r].id
        /\ op.stage # "cancelling"
        /\ active' = active \ {op}
        /\ recent' = PushFront([op EXCEPT !.state = FinalState(op, result),
                                          !.stage = "ended"], recent)
    /\ lease' = [lease EXCEPT ![r] = NoLease]
    /\ UNCHANGED next_id

\* Variant for a mutant: the answer ends the operation that happens to come first.
FinishOwnerFirst(r, result) ==
    /\ lease[r].role = "owner"
    /\ \E op \in active :
        /\ active' = active \ {op}
        /\ recent' = PushFront([op EXCEPT !.state = FinalState(op, result),
                                          !.stage = "ended"], recent)
    /\ lease' = [lease EXCEPT ![r] = NoLease]
    /\ UNCHANGED next_id

\* The lease of an owner always finds its operation (LeaseDiscipline), so the
\* early return for a missing id has no step of its own.
FinishOwner(r, result) ==
    /\ lease[r].role = "owner"
    /\ \E op \in active :
        /\ op.id = lease[r].id
        /\ active' = active \ {op}
        /\ recent' = PushFront([op EXCEPT !.state = FinalState(op, result),
                                          !.stage = "ended"], recent)
    /\ lease' = [lease EXCEPT ![r] = NoLease]
    /\ UNCHANGED next_id

\* Variant for a mutant: the answer of a control also ends its operation.
FinishControlEndsOperation(r, result) ==
    /\ lease[r].role = "control"
    /\ active' = {op \in active : op.id # lease[r].id}
    /\ lease' = [lease EXCEPT ![r] = NoLease]
    /\ UNCHANGED <<next_id, recent>>

\* Variant for a mutant: a failing control writes its stage into the record
\* wherever it is, the journal included.
FinishControlAnywhere(r, result) ==
    /\ lease[r].role = "control"
    /\ active' = {IF op.id = lease[r].id
                    THEN [op EXCEPT !.stage = "control_failed"] ELSE op : op \in active}
    /\ recent' = [i \in DOMAIN recent |->
                    IF recent[i].id = lease[r].id
                      THEN [recent[i] EXCEPT !.stage = "control_failed"] ELSE recent[i]]
    /\ lease' = [lease EXCEPT ![r] = NoLease]
    /\ UNCHANGED next_id

\* A control reports only a failure, and only if the operation still runs.
FinishControl(r, result) ==
    /\ lease[r].role = "control"
    /\ \/ \E op \in active :
            /\ op.id = lease[r].id
            /\ result # "Ok"
            /\ active' = SetStage(op, "control_failed")
       \/ /\ result = "Ok" \/ \A op \in active : op.id # lease[r].id
          /\ UNCHANGED active
    /\ lease' = [lease EXCEPT ![r] = NoLease]
    /\ UNCHANGED <<next_id, recent>>

FinishRead(r) ==
    /\ lease[r].role = "read"
    /\ lease' = [lease EXCEPT ![r] = NoLease]
    /\ UNCHANGED <<next_id, active, recent>>

finish(r, result) ==
    FinishOwner(r, result) \/ FinishControl(r, result) \/ FinishRead(r)

-----------------------------------------------------------------------------
(* Progress reported by the backend while it works.  The stage it reports  *)
(* replaces whatever is there, a cancellation included.                    *)

update_stage(m, s) ==
    /\ \/ \E op \in active :
            /\ op.kind = m /\ op.state = "Running"
            /\ active' = SetStage(op, s)
       \/ /\ \A op \in active : ~(op.kind = m /\ op.state = "Running")
          /\ UNCHANGED active
    /\ UNCHANGED <<next_id, recent, lease>>

update_domain_stage(d, s) ==
    /\ \/ \E op \in active :
            /\ DomainOf(op.kind) = d /\ op.state = "Running"
            /\ active' = SetStage(op, s)
       \/ /\ \A op \in active : ~(DomainOf(op.kind) = d /\ op.state = "Running")
          /\ UNCHANGED active
    /\ UNCHANGED <<next_id, recent, lease>>

-----------------------------------------------------------------------------
(* The callers.  The stages the backend reports: ordinary progress for     *)
(* any mutation, and "tunnel.cancelling" by connection_cancel (mod.rs      *)
(* 2595) for the attempt.  stage_auth reports for the whole Auth domain.   *)

Progress ==
    \/ \E m \in Method \cap Mutations : update_stage(m, "working")
    \/ update_stage("connection.connect", "cancelling")
    \/ update_domain_stage("AuthSession", "working")

Next ==
    \/ \E r \in Request, c \in Client, m \in Method : begin(r, c, m)
    \/ \E r \in Request, result \in Result : finish(r, result)
    \/ Progress

\* The task of a request always gets to its finish: the reply arrives, or the
\* dropped channel turns into backend_unavailable (backend.rs 214-241).
Answered(r) == \E result \in Result : finish(r, result)

Fairness == \A r \in Request : WF_vars(Answered(r))

Spec == Init /\ [][Next]_vars

FairSpec == Spec /\ Fairness

-----------------------------------------------------------------------------
(* Properties *)

\* The records a client finds in the published snapshot.
Journal == active \cup {recent[i] : i \in DOMAIN recent}

\* Every variable has its type, and the journal published to the clients never
\* holds more than RECENT_OPERATION_LIMIT records (schema.md: bounded to 16).
TypeOK ==
    /\ next_id \in 1 .. MaxOperations + 1
    /\ active \subseteq OperationRecord
    /\ recent \in Seq(OperationRecord)
    /\ Len(recent) <= RECENT_OPERATION_LIMIT
    /\ lease \in [Request -> Lease]

\* Two different running operations are never in conflicting domains, whatever
\* controls attach, fail or answer late in between: the conflict matrix holds
\* of what runs, not only of what is being admitted.
NoConflictingOperations ==
    \A a, b \in active :
        a.id # b.id => ~domains_conflict(DomainOf(a.kind), DomainOf(b.kind))

\* A running operation is waited for by exactly one request, the one that will
\* end it, and a request that owns a completion still finds its operation.  An
\* operation without an owner would block its domain until the agent restarts.
LeaseDiscipline ==
    /\ \A op \in active :
        \E r \in Request : lease[r] = [role |-> "owner", id |-> op.id]
    /\ \A r \in Request : lease[r].role = "owner" =>
        \E op \in active : op.id = lease[r].id
    /\ \A r1, r2 \in Request :
        lease[r1].role = "owner" /\ lease[r1] = lease[r2] => r1 = r2

\* An id names one record of the snapshot: a client that follows an operation
\* from active into recent, and a background sequence that remembers the ids it
\* has seen, never confuse two operations.
IdsNameOneRecord ==
    /\ \A op \in Journal : op.id < next_id
    /\ \A a, b \in active : a.id = b.id => a = b
    /\ \A a \in active, i \in DOMAIN recent : a.id # recent[i].id
    /\ \A i, j \in DOMAIN recent : recent[i].id = recent[j].id => i = j

VerdictsKept ==
    \A i \in DOMAIN recent : \A op \in Journal' :
        op.id = recent[i].id => op = recent[i]

\* The verdict of an operation is final: no later step of any request (the late
\* failure of a control, a progress report that crosses the answer) changes a
\* record of the journal or makes it active again.
FinishedRecordsAreFinal == [][VerdictsKept]_vars

\* Every operation ends: no sequence of controls and progress reports keeps an
\* operation whose request is answered in the active list.
EveryOperationEnds ==
    \A i \in Id : (\E op \in active : op.id = i) ~> (\A op \in active : op.id # i)

\* The coordinator as a gate: a running operation is a place, its id the ticket, held by
\* the request that owns its completion.
Places  == {[ticket |-> op.id, domain |-> DomainOf(op.kind)] : op \in active}
Tickets == [r \in Request |-> IF lease[r].role = "owner" THEN lease[r].id ELSE 0]

Gate == INSTANCE DomainGate
            WITH inside <- Places, ticket <- Tickets, issued <- next_id - 1,
                 Conflict <- domains_conflict, Holder <- Request

\* The coordinator implements the gate.  Every step that a client can see the effect of
\* enters a domain under the conflict matrix with an id above all earlier ones, those the
\* journal has dropped included, or ends exactly the operation of the request that is
\* answered; controls, their failures, reads and progress never open, end or hand over
\* an operation.  What a background sequence remembers by id rests on this.
ImplementsGate == Gate!Spec
=============================================================================
