-------------------------- MODULE OperationsProofs --------------------------
(***************************************************************************)
(* The properties of Operations for every set of clients, requests and     *)
(* methods and every journal limit.                                        *)
(***************************************************************************)
EXTENDS Operations, SequenceTheorems, TLAPS

(***************************************************************************)
(* The inductive invariant.  NoConflictingOperations and IdsNameOneRecord  *)
(* need each other (two records of one id would be two operations of one   *)
(* domain), and LeaseDiscipline needs the ids below next_id, so that a new *)
(* operation cannot be handed a lease somebody already holds.              *)
(***************************************************************************)
IInv ==
    /\ TypeOK
    /\ NoConflictingOperations
    /\ LeaseDiscipline
    /\ IdsNameOneRecord

\* The conflict matrix as a relation: symmetric, and every domain conflicts
\* with itself, which is what makes it an exclusion.
LEMMA ConflictMatrix ==
    /\ \A d \in Domain : domains_conflict(d, d)
    /\ \A d, e \in Domain : domains_conflict(d, e) <=> domains_conflict(e, d)
BY DEF domains_conflict, Domain

LEMMA DomainOfType == \A m \in Mutations : DomainOf(m) \in Domain
BY DEF DomainOf, Domain

\* Pushing a record in front keeps the journal a bounded sequence of records.
LEMMA PushFrontType ==
    ASSUME NEW op \in OperationRecord, NEW s \in Seq(OperationRecord),
           Len(s) <= RECENT_OPERATION_LIMIT
    PROVE  /\ PushFront(op, s) \in Seq(OperationRecord)
           /\ Len(PushFront(op, s)) <= RECENT_OPERATION_LIMIT
<1> DEFINE pushed == <<op>> \o s
<1>1. pushed \in Seq(OperationRecord) /\ Len(pushed) = Len(s) + 1
  OBVIOUS
<1>2. CASE Len(pushed) <= RECENT_OPERATION_LIMIT
  BY <1>1, <1>2 DEF PushFront
<1>3. CASE ~(Len(pushed) <= RECENT_OPERATION_LIMIT)
  <2>1. PushFront(op, s) = SubSeq(pushed, 1, RECENT_OPERATION_LIMIT)
    BY <1>3 DEF PushFront
  <2>2. RECENT_OPERATION_LIMIT \in 1 .. Len(pushed)
    BY <1>1, <1>3, LimitAssumption
  <2> QED
    BY <1>1, <2>1, <2>2, LimitAssumption
<1> QED
  BY <1>2, <1>3

\* What the journal holds after a push: the new record, then what it held.
LEMMA PushFrontElements ==
    ASSUME NEW op \in OperationRecord, NEW s \in Seq(OperationRecord),
           NEW i \in DOMAIN PushFront(op, s)
    PROVE  /\ i = 1 => PushFront(op, s)[i] = op
           /\ i # 1 => i - 1 \in DOMAIN s /\ PushFront(op, s)[i] = s[i - 1]
           /\ i \in Nat \ {0}
<1> DEFINE pushed == <<op>> \o s
<1>1. pushed \in Seq(OperationRecord) /\ Len(pushed) = Len(s) + 1
  OBVIOUS
<1>2. \A k \in 1 .. Len(pushed) : pushed[k] = IF k = 1 THEN op ELSE s[k - 1]
  OBVIOUS
<1>3. CASE Len(pushed) <= RECENT_OPERATION_LIMIT
  BY <1>1, <1>2, <1>3 DEF PushFront
<1>4. CASE ~(Len(pushed) <= RECENT_OPERATION_LIMIT)
  <2>1. PushFront(op, s) = SubSeq(pushed, 1, RECENT_OPERATION_LIMIT)
    BY <1>4 DEF PushFront
  <2>2. RECENT_OPERATION_LIMIT \in 1 .. Len(pushed)
    BY <1>1, <1>4, LimitAssumption
  <2>3. /\ DOMAIN PushFront(op, s) = 1 .. RECENT_OPERATION_LIMIT
        /\ PushFront(op, s)[i] = pushed[i]
    BY <1>1, <2>1, <2>2, LimitAssumption
  <2> QED
    BY <1>1, <1>2, <2>2, <2>3, LimitAssumption
<1> QED
  BY <1>3, <1>4

-----------------------------------------------------------------------------
(* Changing the stage of a running operation. *)

LEMMA SetStageType ==
    ASSUME TypeOK, NEW op \in active, NEW s \in Stage
    PROVE  SetStage(op, s) \subseteq OperationRecord
<1>1. op \in OperationRecord
  BY DEF TypeOK
<1>2. [op EXCEPT !.stage = s] \in OperationRecord
  BY <1>1 DEF OperationRecord
<1> QED
  BY <1>2 DEF SetStage, TypeOK

\* Nothing but the stage changes: the records of SetStage(op, s) are those of
\* active with the same ids and kinds, so everything that is said of ids and
\* domains alone carries over.
LEMMA SetStageKeepsIdAndKind ==
    ASSUME TypeOK, NEW op \in active, NEW s \in Stage
    PROVE  /\ \A a \in SetStage(op, s) :
                \E b \in active : b.id = a.id /\ b.kind = a.kind /\ (a # b => b = op)
           /\ \A b \in active : \E a \in SetStage(op, s) : a.id = b.id
<1> DEFINE new == [op EXCEPT !.stage = s]
<1>1. op \in OperationRecord
  BY DEF TypeOK
<1>2. new.id = op.id /\ new.kind = op.kind
  BY <1>1 DEF OperationRecord
<1>3. SetStage(op, s) = (active \ {op}) \cup {new}
  BY DEF SetStage
<1> HIDE DEF new
<1> QED
  BY <1>2, <1>3

\* A step that only sets a stage and leaves the owners' leases alone keeps the
\* invariant.
LEMMA SetStageStep ==
    ASSUME IInv, NEW op \in active, NEW s \in Stage,
           active' = SetStage(op, s),
           UNCHANGED <<next_id, recent>>,
           lease' \in [Request -> Lease],
           \A r \in Request :
              \/ lease'[r] = lease[r]
              \/ lease[r].role # "owner" /\ lease'[r].role # "owner"
    PROVE  IInv'
<1>1. TypeOK'
  BY SetStageType DEF IInv, TypeOK
<1>2. /\ \A a \in active' :
            \E b \in active : b.id = a.id /\ b.kind = a.kind /\ (a # b => b = op)
      /\ \A b \in active : \E a \in active' : a.id = b.id
  BY SetStageKeepsIdAndKind DEF IInv
<1>3. NoConflictingOperations'
  BY <1>2 DEF IInv, NoConflictingOperations
<1>4. LeaseDiscipline'
  <2>1. ASSUME NEW a \in active'
        PROVE  \E r \in Request : lease'[r] = [role |-> "owner", id |-> a.id]
    <3>1. PICK b \in active : b.id = a.id
      BY <1>2
    <3>2. PICK r \in Request : lease[r] = [role |-> "owner", id |-> b.id]
      BY DEF IInv, LeaseDiscipline
    <3> QED
      BY <3>1, <3>2
  <2>2. ASSUME NEW r \in Request, lease'[r].role = "owner"
        PROVE  \E a \in active' : a.id = lease'[r].id
    BY <1>2, <2>2 DEF IInv, LeaseDiscipline
  <2>3. ASSUME NEW p \in Request, NEW q \in Request,
               lease'[p].role = "owner", lease'[p] = lease'[q]
        PROVE  p = q
    BY <2>3 DEF IInv, LeaseDiscipline
  <2> QED
    BY <2>1, <2>2, <2>3 DEF LeaseDiscipline
<1>5. IdsNameOneRecord'
  <2> DEFINE new == [op EXCEPT !.stage = s]
  <2>1. \A a, b \in active : a.id = b.id => a = b
    BY DEF IInv, IdsNameOneRecord
  <2>2. \A a, b \in active' : a.id = b.id => a = b
    <3>1. op \in OperationRecord
      BY DEF IInv, TypeOK
    <3>2. new.id = op.id
      BY <3>1 DEF OperationRecord
    <3>3. active' = (active \ {op}) \cup {new}
      BY DEF SetStage
    <3> HIDE DEF new
    <3> QED
      BY <2>1, <3>2, <3>3
  <2>3. \A a \in active', i \in DOMAIN recent : a.id # recent[i].id
    BY <1>2 DEF IInv, IdsNameOneRecord
  <2>4. \A a \in active' : a.id < next_id
    BY <1>2 DEF IInv, IdsNameOneRecord, Journal
  <2> QED
    BY <2>2, <2>3, <2>4 DEF IInv, IdsNameOneRecord, Journal
<1> QED
  BY <1>1, <1>3, <1>4, <1>5 DEF IInv

-----------------------------------------------------------------------------
(* One lemma per action. *)

LEMMA AttachControlStep ==
    ASSUME IInv, NEW r \in Request, NEW m \in Method, AttachControl(r, m)
    PROVE  IInv'
<1>1. PICK op \in active :
        /\ active' = SetStage(op, ControlStage(m))
        /\ lease' = [lease EXCEPT ![r] = [role |-> "control", id |-> op.id]]
  BY DEF AttachControl
<1>2. ControlStage(m) \in Stage
  BY DEF ControlStage, Stage
<1>3. op.id \in Id
  BY DEF IInv, TypeOK, OperationRecord
<1>4. lease \in [Request -> Lease]
  BY DEF IInv, TypeOK
<1>5. lease' \in [Request -> Lease]
  BY <1>1, <1>3, <1>4 DEF Lease
<1>6. lease[r].role # "owner" /\ lease'[r].role # "owner"
  BY <1>1, <1>4 DEF AttachControl, NoLease
<1>7. \A q \in Request : q # r => lease'[q] = lease[q]
  BY <1>1, <1>4
<1> QED
  BY <1>1, <1>2, <1>5, <1>6, <1>7, SetStageStep DEF AttachControl

LEMMA OpenStep ==
    ASSUME IInv, NEW r \in Request, NEW c \in Client, NEW m \in Method,
           Open(r, c, m)
    PROVE  IInv'
<1> DEFINE new == NewRecord(c, m)
<1>1. m \in Mutations /\ next_id \in Id
  BY LimitAssumption DEF Open, IInv, TypeOK, Id
<1>2. new \in OperationRecord /\ new.id = next_id /\ new.kind = m
  BY <1>1 DEF NewRecord, OperationRecord, InitialStage, Stage
<1>3. /\ active' = active \cup {new}
      /\ next_id' = next_id + 1
      /\ recent' = recent
      /\ lease' = [lease EXCEPT ![r] = [role |-> "owner", id |-> next_id]]
  BY DEF Open
<1>4. lease \in [Request -> Lease]
  BY DEF IInv, TypeOK
<1>5. \A op \in active : op.id < next_id /\ op \in OperationRecord
  BY DEF IInv, IdsNameOneRecord, Journal, TypeOK
<1> HIDE DEF new
<1>6. TypeOK'
  BY <1>1, <1>2, <1>3, <1>4, LimitAssumption DEF IInv, TypeOK, Lease, Id
<1>7. NoConflictingOperations'
  <2>1. \A op \in active :
          /\ ~domains_conflict(DomainOf(m), DomainOf(op.kind))
          /\ ~domains_conflict(DomainOf(op.kind), DomainOf(m))
    BY <1>1, <1>5, ConflictMatrix, DomainOfType DEF Open, CanOpen, OperationRecord
  <2> QED
    BY <1>2, <1>3, <2>1 DEF IInv, NoConflictingOperations
<1>8. LeaseDiscipline'
  <2>1. \A q \in Request : lease[q].role = "owner" => lease[q].id < next_id
    BY <1>5 DEF IInv, LeaseDiscipline
  <2>2. lease[r].role # "owner"
    BY DEF Open, NoLease
  <2>3. /\ lease'[r] = [role |-> "owner", id |-> next_id]
        /\ \A q \in Request : q # r => lease'[q] = lease[q]
    BY <1>3, <1>4
  <2>4. \A op \in active' :
          \E q \in Request : lease'[q] = [role |-> "owner", id |-> op.id]
    <3> TAKE op \in active'
    <3>1. CASE op = new
      BY <1>2, <2>3, <3>1
    <3>2. CASE op # new
      <4>1. op \in active
        BY <1>3, <3>2
      <4>2. PICK q \in Request : lease[q] = [role |-> "owner", id |-> op.id]
        BY <4>1 DEF IInv, LeaseDiscipline
      <4> QED
        BY <2>2, <2>3, <4>2
    <3> QED
      BY <3>1, <3>2
  <2>5. \A q \in Request : lease'[q].role = "owner" =>
          \E op \in active' : op.id = lease'[q].id
    BY <1>2, <1>3, <2>3 DEF IInv, LeaseDiscipline
  <2>6. \A p, q \in Request :
          lease'[p].role = "owner" /\ lease'[p] = lease'[q] => p = q
    <3> SUFFICES ASSUME NEW p \in Request, NEW q \in Request,
                        lease'[p].role = "owner", lease'[p] = lease'[q], p # q
                 PROVE  FALSE
      OBVIOUS
    <3>1. CASE p # r /\ q # r
      BY <2>3, <3>1 DEF IInv, LeaseDiscipline
    <3>2. CASE p = r
      BY <1>1, <2>1, <2>3, <3>2 DEF Id
    <3>3. CASE q = r
      BY <1>1, <2>1, <2>3, <3>3 DEF Id
    <3> QED
      BY <3>1, <3>2, <3>3
  <2> QED
    BY <2>4, <2>5, <2>6 DEF LeaseDiscipline
<1>9. IdsNameOneRecord'
  <2>1. \A j \in DOMAIN recent : recent[j].id < next_id /\ recent[j] \in OperationRecord
    BY DEF IInv, IdsNameOneRecord, Journal, TypeOK
  <2>2. \A op \in active' : op.id < next_id'
    BY <1>1, <1>2, <1>3, <1>5 DEF Id, OperationRecord
  <2>3. \A j \in DOMAIN recent' : recent'[j].id < next_id'
    BY <1>1, <1>3, <2>1 DEF Id, OperationRecord
  <2>4. \A a, b \in active' : a.id = b.id => a = b
    BY <1>1, <1>2, <1>3, <1>5 DEF IInv, IdsNameOneRecord, Id
  <2>5. \A a \in active', j \in DOMAIN recent' : a.id # recent'[j].id
    BY <1>1, <1>2, <1>3, <2>1 DEF IInv, IdsNameOneRecord, Id
  <2> QED
    BY <1>3, <2>2, <2>3, <2>4, <2>5 DEF IInv, IdsNameOneRecord, Journal
<1> QED
  BY <1>6, <1>7, <1>8, <1>9 DEF IInv

\* A step that touches neither the records nor an owner's lease.
LEMMA QuietStep ==
    ASSUME IInv, UNCHANGED <<next_id, active, recent>>,
           lease' \in [Request -> Lease],
           \A r \in Request :
              \/ lease'[r] = lease[r]
              \/ lease[r].role # "owner" /\ lease'[r].role # "owner"
    PROVE  IInv'
<1>1. TypeOK'
  BY DEF IInv, TypeOK
<1>2. NoConflictingOperations' /\ IdsNameOneRecord'
  BY DEF IInv, NoConflictingOperations, IdsNameOneRecord, Journal
<1>3. LeaseDiscipline'
  <2>1. \A op \in active' :
          \E q \in Request : lease'[q] = [role |-> "owner", id |-> op.id]
    <3> TAKE op \in active'
    <3>1. PICK q \in Request : lease[q] = [role |-> "owner", id |-> op.id]
      BY DEF IInv, LeaseDiscipline
    <3> QED
      BY <3>1
  <2> QED
    BY <2>1 DEF IInv, LeaseDiscipline
<1> QED
  BY <1>1, <1>2, <1>3 DEF IInv

LEMMA BeginReadStep ==
    ASSUME IInv, NEW r \in Request, NEW m \in Method, BeginRead(r, m)
    PROVE  IInv'
<1>1. lease \in [Request -> Lease]
  BY DEF IInv, TypeOK
<1>2. lease' = [lease EXCEPT ![r] = [role |-> "read", id |-> 0]]
  BY DEF BeginRead
<1>3. lease' \in [Request -> Lease]
  BY <1>1, <1>2 DEF Lease
<1>4. lease[r].role # "owner" /\ lease'[r].role # "owner"
  BY <1>1, <1>2 DEF BeginRead, NoLease
<1>5. \A q \in Request : q # r => lease'[q] = lease[q]
  BY <1>1, <1>2
<1> QED
  BY <1>3, <1>4, <1>5, QuietStep DEF BeginRead

LEMMA FinishReadStep ==
    ASSUME IInv, NEW r \in Request, FinishRead(r)
    PROVE  IInv'
<1>1. lease \in [Request -> Lease]
  BY DEF IInv, TypeOK
<1>2. lease' = [lease EXCEPT ![r] = NoLease]
  BY DEF FinishRead
<1>3. lease' \in [Request -> Lease]
  BY <1>1, <1>2 DEF Lease, NoLease
<1>4. lease[r].role # "owner" /\ lease'[r].role # "owner"
  BY <1>1, <1>2 DEF FinishRead, NoLease
<1>5. \A q \in Request : q # r => lease'[q] = lease[q]
  BY <1>1, <1>2
<1> QED
  BY <1>3, <1>4, <1>5, QuietStep DEF FinishRead

LEMMA FinishControlStep ==
    ASSUME IInv, NEW r \in Request, NEW result \in Result, FinishControl(r, result)
    PROVE  IInv'
<1>1. lease \in [Request -> Lease]
  BY DEF IInv, TypeOK
<1>2. lease' = [lease EXCEPT ![r] = NoLease]
  BY DEF FinishControl
<1>3. lease' \in [Request -> Lease]
  BY <1>1, <1>2 DEF Lease, NoLease
<1>4. lease[r].role # "owner" /\ lease'[r].role # "owner"
  BY <1>1, <1>2 DEF FinishControl, NoLease
<1>5. \A q \in Request : q # r => lease'[q] = lease[q]
  BY <1>1, <1>2
<1>6. CASE UNCHANGED active
  BY <1>3, <1>4, <1>5, <1>6, QuietStep DEF FinishControl
<1>7. CASE \E op \in active : active' = SetStage(op, "control_failed")
  <2>1. "control_failed" \in Stage
    BY DEF Stage
  <2> QED
    BY <1>3, <1>4, <1>5, <1>7, <2>1, SetStageStep DEF FinishControl
<1> QED
  BY <1>6, <1>7 DEF FinishControl

LEMMA FinishOwnerStep ==
    ASSUME IInv, NEW r \in Request, NEW result \in Result, FinishOwner(r, result)
    PROVE  IInv'
<1>1. PICK op \in active :
        /\ op.id = lease[r].id
        /\ active' = active \ {op}
        /\ recent' = PushFront([op EXCEPT !.state = FinalState(op, result),
                                          !.stage = "ended"], recent)
  BY DEF FinishOwner
<1> DEFINE done == [op EXCEPT !.state = FinalState(op, result), !.stage = "ended"]
<1>2. op \in OperationRecord
  BY DEF IInv, TypeOK
<1>3. FinalState(op, result) \in Terminal
  BY DEF FinalState, Terminal
<1>4. done \in OperationRecord /\ done.id = op.id
  BY <1>2, <1>3 DEF OperationRecord, Stage
<1>5. lease \in [Request -> Lease] /\ lease' = [lease EXCEPT ![r] = NoLease]
  BY DEF FinishOwner, IInv, TypeOK
<1>6. /\ lease'[r] = NoLease
      /\ \A q \in Request : q # r => lease'[q] = lease[q]
      /\ lease' \in [Request -> Lease]
  BY <1>5 DEF Lease, NoLease
<1>7. recent \in Seq(OperationRecord) /\ Len(recent) <= RECENT_OPERATION_LIMIT
  BY DEF IInv, TypeOK
<1>8. recent' = PushFront(done, recent)
  BY <1>1
<1> HIDE DEF done
<1>9. TypeOK'
  <2>1. recent' \in Seq(OperationRecord) /\ Len(recent') <= RECENT_OPERATION_LIMIT
    BY <1>4, <1>7, <1>8, PushFrontType
  <2> QED
    BY <1>1, <1>6, <2>1 DEF FinishOwner, IInv, TypeOK
<1>10. NoConflictingOperations'
  BY <1>1 DEF IInv, NoConflictingOperations
<1>11. LeaseDiscipline'
  <2>1. lease[r] = [role |-> "owner", id |-> op.id]
    BY <1>1, <1>5 DEF FinishOwner, Lease
  <2>2. \A a \in active' :
          \E q \in Request : lease'[q] = [role |-> "owner", id |-> a.id]
    <3> TAKE a \in active'
    <3>1. PICK q \in Request : lease[q] = [role |-> "owner", id |-> a.id]
      BY <1>1 DEF IInv, LeaseDiscipline
    <3>2. a.id # op.id
      BY <1>1 DEF IInv, IdsNameOneRecord
    <3> QED
      BY <1>6, <2>1, <3>1, <3>2
  <2>3. \A q \in Request : lease'[q].role = "owner" =>
          \E a \in active' : a.id = lease'[q].id
    <3> SUFFICES ASSUME NEW q \in Request, lease'[q].role = "owner"
                 PROVE  \E a \in active' : a.id = lease'[q].id
      OBVIOUS
    <3>1. q # r /\ lease'[q] = lease[q]
      BY <1>6 DEF NoLease
    <3>2. PICK a \in active : a.id = lease[q].id
      BY <3>1 DEF IInv, LeaseDiscipline
    <3>3. lease[q] = [role |-> "owner", id |-> a.id]
      BY <1>5, <3>1, <3>2 DEF Lease
    <3>4. a # op
      BY <2>1, <3>1, <3>3 DEF IInv, LeaseDiscipline
    <3> QED
      BY <1>1, <3>1, <3>2, <3>4
  <2>4. \A p, q \in Request :
          lease'[p].role = "owner" /\ lease'[p] = lease'[q] => p = q
    BY <1>6 DEF IInv, LeaseDiscipline, NoLease
  <2> QED
    BY <2>2, <2>3, <2>4 DEF LeaseDiscipline
<1>12. IdsNameOneRecord'
  <2>1. \A j \in DOMAIN recent' :
          /\ j = 1 => recent'[j] = done
          /\ j # 1 => j - 1 \in DOMAIN recent /\ recent'[j] = recent[j - 1]
          /\ j \in Nat \ {0}
    BY <1>4, <1>7, <1>8, PushFrontElements
  <2>2. /\ \A a \in active : a.id < next_id
        /\ \A j \in DOMAIN recent : recent[j].id < next_id
    BY DEF IInv, IdsNameOneRecord, Journal
  <2>3. next_id' = next_id
    BY DEF FinishOwner
  <2>4. /\ \A a \in active' : a.id < next_id'
        /\ \A j \in DOMAIN recent' : recent'[j].id < next_id'
    BY <1>1, <1>4, <2>1, <2>2, <2>3
  <2>5. \A a, b \in active' : a.id = b.id => a = b
    BY <1>1 DEF IInv, IdsNameOneRecord
  <2>6. \A a \in active', j \in DOMAIN recent' : a.id # recent'[j].id
    BY <1>1, <1>4, <2>1 DEF IInv, IdsNameOneRecord
  <2>7. \A j, k \in DOMAIN recent' : recent'[j].id = recent'[k].id => j = k
    <3> SUFFICES ASSUME NEW j \in DOMAIN recent', NEW k \in DOMAIN recent',
                        recent'[j].id = recent'[k].id, j # k
                 PROVE  FALSE
      OBVIOUS
    <3>1. \A n \in DOMAIN recent : recent[n].id # op.id
      BY DEF IInv, IdsNameOneRecord
    <3>2. CASE j # 1 /\ k # 1
      BY <2>1, <3>2 DEF IInv, IdsNameOneRecord
    <3>3. CASE j = 1 \/ k = 1
      BY <1>4, <2>1, <3>1, <3>3
    <3> QED
      BY <3>2, <3>3
  <2> QED
    BY <2>4, <2>5, <2>6, <2>7 DEF IdsNameOneRecord, Journal
<1> QED
  BY <1>9, <1>10, <1>11, <1>12 DEF IInv

LEMMA UpdateStep ==
    ASSUME IInv, Progress
    PROVE  IInv'
<1>1. "working" \in Stage /\ "cancelling" \in Stage
  BY DEF Stage
<1>2. UNCHANGED <<next_id, recent, lease>>
  BY DEF Progress, update_stage, update_domain_stage
<1>3. \/ UNCHANGED active
      \/ \E op \in active, s \in Stage : active' = SetStage(op, s)
  BY <1>1 DEF Progress, update_stage, update_domain_stage
<1>4. lease' \in [Request -> Lease] /\ \A r \in Request : lease'[r] = lease[r]
  BY <1>2 DEF IInv, TypeOK
<1> QED
  BY <1>2, <1>3, <1>4, QuietStep, SetStageStep

-----------------------------------------------------------------------------
(* The theorems. *)

LEMMA InitIInv == Init => IInv
<1> SUFFICES ASSUME Init PROVE IInv
  OBVIOUS
<1>1. TypeOK
  BY LimitAssumption DEF Init, TypeOK, Lease, NoLease
<1>2. NoConflictingOperations
  BY DEF Init, NoConflictingOperations
<1>3. LeaseDiscipline
  BY DEF Init, LeaseDiscipline, NoLease
<1>4. IdsNameOneRecord
  BY DEF Init, IdsNameOneRecord, Journal
<1> QED
  BY <1>1, <1>2, <1>3, <1>4 DEF IInv

LEMMA NextIInv == IInv /\ [Next]_vars => IInv'
<1> SUFFICES ASSUME IInv, [Next]_vars PROVE IInv'
  OBVIOUS
<1>1. ASSUME NEW r \in Request, NEW c \in Client, NEW m \in Method, begin(r, c, m)
      PROVE  IInv'
  BY <1>1, AttachControlStep, OpenStep, BeginReadStep DEF begin
<1>2. ASSUME NEW r \in Request, NEW result \in Result, finish(r, result)
      PROVE  IInv'
  BY <1>2, FinishOwnerStep, FinishControlStep, FinishReadStep DEF finish
<1>3. CASE Progress
  BY <1>3, UpdateStep
<1>4. CASE UNCHANGED vars
  <2>1. UNCHANGED <<next_id, active, recent, lease>>
    BY <1>4 DEF vars
  <2>2. lease' \in [Request -> Lease] /\ \A r \in Request : lease'[r] = lease[r]
    BY <2>1 DEF IInv, TypeOK
  <2> QED
    BY <2>1, <2>2, QuietStep
<1> QED
  BY <1>1, <1>2, <1>3, <1>4 DEF Next

\* The inductive invariant holds in every reachable state.
THEOREM InvariantHolds == Spec => []IInv
BY InitIInv, NextIInv, PTL DEF Spec

\* The registry is well typed and the journal that publish() hands to the
\* clients is bounded by RECENT_OPERATION_LIMIT, for any limit.
THEOREM TypeCorrect == Spec => []TypeOK
<1>1. IInv => TypeOK
  BY DEF IInv
<1> QED
  BY <1>1, InvariantHolds, PTL

\* begin never lets two incompatible operations run at once, for any clients,
\* any interleaving of their requests and any late or failing control.
THEOREM Exclusion == Spec => []NoConflictingOperations
<1>1. IInv => NoConflictingOperations
  BY DEF IInv
<1> QED
  BY <1>1, InvariantHolds, PTL

\* No operation is orphaned: each one is waited for by exactly one request, and
\* the owner's finish always finds its record.
THEOREM LeasesMatchOperations == Spec => []LeaseDiscipline
<1>1. IInv => LeaseDiscipline
  BY DEF IInv
<1> QED
  BY <1>1, InvariantHolds, PTL

\* Ids are never reused inside the snapshot.
THEOREM IdsAreUnambiguous == Spec => []IdsNameOneRecord
<1>1. IInv => IdsNameOneRecord
  BY DEF IInv
<1> QED
  BY <1>1, InvariantHolds, PTL

\* The journal's records are immutable: no step changes a verdict or revives an
\* ended operation.
THEOREM VerdictsAreFinal == Spec => FinishedRecordsAreFinal
<1>1. IInv /\ IInv' /\ [Next]_vars => [VerdictsKept]_vars
  <2> SUFFICES ASSUME IInv, IInv', Next,
                      NEW j \in DOMAIN recent, NEW op \in Journal',
                      op.id = recent[j].id
               PROVE  op = recent[j]
    BY DEF vars, VerdictsKept
  <2>1. recent[j].id < next_id /\ \A a \in active : a.id # recent[j].id
    BY DEF IInv, IdsNameOneRecord, Journal
  <2>2. ASSUME NEW k \in DOMAIN recent', op = recent'[k]
        PROVE  op = recent[j]
    <3>1. CASE recent' = recent
      BY <2>2, <3>1 DEF IInv, IdsNameOneRecord
    <3>2. ASSUME NEW r \in Request, NEW result \in Result, FinishOwner(r, result)
          PROVE  op = recent[j]
      <4>1. PICK a \in active :
              recent' = PushFront([a EXCEPT !.state = FinalState(a, result),
                                            !.stage = "ended"], recent)
        BY <3>2 DEF FinishOwner
      <4> DEFINE done == [a EXCEPT !.state = FinalState(a, result), !.stage = "ended"]
      <4>2. a \in OperationRecord /\ recent \in Seq(OperationRecord)
        BY DEF IInv, TypeOK
      <4>3. FinalState(a, result) \in Terminal
        BY DEF FinalState, Terminal
      <4>4. done \in OperationRecord /\ done.id = a.id
        BY <4>2, <4>3 DEF OperationRecord, Stage
      <4>5. recent' = PushFront(done, recent)
        BY <4>1
      <4> HIDE DEF done
      <4>6. /\ k = 1 => recent'[k] = done
            /\ k # 1 => k - 1 \in DOMAIN recent /\ recent'[k] = recent[k - 1]
        BY <4>2, <4>4, <4>5, PushFrontElements
      <4>7. k # 1
        BY <2>1, <2>2, <4>4, <4>6
      <4> QED
        BY <2>2, <4>6, <4>7 DEF IInv, IdsNameOneRecord
    <3>3. \/ recent' = recent
          \/ \E r \in Request, result \in Result : FinishOwner(r, result)
      BY DEF Next, begin, AttachControl, Open, BeginRead, finish, FinishControl,
             FinishRead, Progress, update_stage, update_domain_stage
    <3> QED
      BY <3>1, <3>2, <3>3
  <2>3. op \notin active'
    <3>1. ASSUME NEW b \in active, NEW s \in Stage, active' = SetStage(b, s)
          PROVE  op \notin active'
      BY <2>1, <3>1, SetStageKeepsIdAndKind DEF IInv
    <3>2. CASE active' \subseteq active
      BY <2>1, <3>2
    <3>3. ASSUME NEW c \in Client, NEW m \in Method, active' = active \cup {NewRecord(c, m)}
          PROVE  op \notin active'
      <4>1. NewRecord(c, m).id = next_id
        BY DEF NewRecord
      <4>2. next_id \in Nat
        BY LimitAssumption DEF IInv, TypeOK
      <4> QED
        BY <2>1, <3>3, <4>1, <4>2
    <3>4. /\ \A m \in Method : ControlStage(m) \in Stage
          /\ "control_failed" \in Stage /\ "working" \in Stage /\ "cancelling" \in Stage
      BY DEF ControlStage, Stage
    <3>5. \/ active' \subseteq active
          \/ \E b \in active, s \in Stage : active' = SetStage(b, s)
          \/ \E c \in Client, m \in Method : active' = active \cup {NewRecord(c, m)}
      BY <3>4 DEF Next, begin, AttachControl, Open, BeginRead, finish, FinishOwner,
             FinishControl, FinishRead, Progress, update_stage, update_domain_stage
    <3> QED
      BY <3>1, <3>2, <3>3, <3>5
  <2> QED
    BY <2>2, <2>3 DEF Journal
<1> QED
  BY <1>1, InvariantHolds, PTL DEF Spec, FinishedRecordsAreFinal

-----------------------------------------------------------------------------
(* Refinement.  A step of the coordinator is a step of the gate: opening   *)
(* an operation enters its domain with the next ticket, the answer to its  *)
(* owner gives up its place (the only one of that ticket), and everything  *)
(* else is invisible, because ids, kinds and the owners' leases stay.      *)

gate == <<Places, Tickets, next_id - 1>>

\* Leases that are no owner's before or after do not show.
LEMMA OwnersOnly ==
    ASSUME NEW r \in Request, lease \in [Request -> Lease], NEW l \in Lease,
           lease[r].role # "owner", l.role # "owner",
           lease' = [lease EXCEPT ![r] = l]
    PROVE  Tickets' = Tickets
BY DEF Tickets

LEMMA SetStageKeepsPlaces ==
    ASSUME IInv, NEW op \in active, NEW s \in Stage, active' = SetStage(op, s)
    PROVE  Places' = Places
<1> DEFINE new == [op EXCEPT !.stage = s]
<1>1. op \in OperationRecord
  BY DEF IInv, TypeOK
<1>2. new.kind = op.kind /\ new.id = op.id
  BY <1>1 DEF OperationRecord
<1>3. active' = (active \ {op}) \cup {new}
  BY DEF SetStage
<1> HIDE DEF new
<1> QED
  BY <1>2, <1>3 DEF Places

LEMMA OpenEnters ==
    ASSUME IInv, NEW r \in Request, NEW c \in Client, NEW m \in Method,
           Open(r, c, m)
    PROVE  Gate!Next
<1>1. m \in Mutations /\ DomainOf(m) \in Domain
  BY DomainOfType DEF Open
<1>2. next_id \in Nat \ {0} /\ next_id' = next_id + 1
  BY LimitAssumption DEF Open, IInv, TypeOK
<1>3. \A place \in Places : ~domains_conflict(DomainOf(m), place.domain)
  BY DEF Open, CanOpen, Places
<1>4. Places' = Places \cup {[ticket |-> next_id, domain |-> DomainOf(m)]}
  <2>1. NewRecord(c, m).kind = m /\ NewRecord(c, m).id = next_id
    BY DEF NewRecord
  <2> QED
    BY <2>1 DEF Open, Places
<1>5. Tickets[r] = 0 /\ Tickets' = [Tickets EXCEPT ![r] = next_id]
  <2>1. /\ lease[r].role = "idle" /\ lease \in [Request -> Lease]
        /\ lease' = [lease EXCEPT ![r] = [role |-> "owner", id |-> next_id]]
    BY DEF Open, NoLease, IInv, TypeOK
  <2>2. /\ lease'[r].role = "owner" /\ lease'[r].id = next_id
        /\ \A q \in Request : q # r => lease'[q] = lease[q]
    BY <2>1
  <2> QED
    BY <2>1, <2>2 DEF Tickets
<1>6. (next_id - 1)' = next_id /\ (next_id - 1) + 1 = next_id
  BY <1>2
<1>7. Gate!Enter(r, DomainOf(m))
  BY <1>3, <1>4, <1>5, <1>6 DEF Gate!Enter
<1> QED
  BY <1>1, <1>7 DEF Gate!Next

LEMMA FinishLeaves ==
    ASSUME IInv, NEW r \in Request, NEW result \in Result, FinishOwner(r, result)
    PROVE  Gate!Next
<1>1. PICK op \in active : op.id = lease[r].id /\ active' = active \ {op}
  BY DEF FinishOwner
<1> DEFINE place == [ticket |-> op.id, domain |-> DomainOf(op.kind)]
<1>2. place \in Places
  BY DEF Places
<1>3. \A a \in active : a # op => a.id # op.id
  BY DEF IInv, IdsNameOneRecord
<1>4. Places' = Places \ {place}
  BY <1>1, <1>3 DEF Places
<1>5. lease[r].role = "owner" /\ lease' = [lease EXCEPT ![r] = NoLease] /\ next_id' = next_id
  BY DEF FinishOwner
<1>6. place.ticket = Tickets[r]
  BY <1>1, <1>5 DEF Tickets
<1>7. Tickets' = [Tickets EXCEPT ![r] = 0]
  BY <1>5 DEF Tickets, NoLease, IInv, TypeOK
<1> HIDE DEF place
<1>8. Gate!Leave(r)
  BY <1>2, <1>4, <1>5, <1>6, <1>7 DEF Gate!Leave
<1> QED
  BY <1>8 DEF Gate!Next

\* operations.rs implements the gate of DomainGate: whatever the clients do, an operation
\* begins only under the conflict matrix and with an id never used before, and ends only
\* by the answer to the request that began it.
THEOREM CoordinatorImplementsGate == Spec => ImplementsGate
<1>1. Init => Gate!Init
  BY DEF Init, Gate!Init, Places, Tickets, NoLease
<1>2. IInv /\ [Next]_vars => [Gate!Next]_gate
  <2> SUFFICES ASSUME IInv, [Next]_vars PROVE Gate!Next \/ gate' = gate
    OBVIOUS
  <2>1. CASE \E r \in Request, c \in Client, m \in Method : Open(r, c, m)
    BY <2>1, OpenEnters
  <2>2. CASE \E r \in Request, result \in Result : FinishOwner(r, result)
    BY <2>2, FinishLeaves
  <2>3. ASSUME \/ active' = active
               \/ \E op \in active, s \in Stage : active' = SetStage(op, s)
        PROVE  Places' = Places
    <3>1. CASE active' = active
      BY <3>1 DEF Places
    <3>2. CASE \E op \in active, s \in Stage : active' = SetStage(op, s)
      BY <3>2, SetStageKeepsPlaces
    <3> QED
      BY <2>3, <3>1, <3>2
  <2>4. /\ \A m \in Method : ControlStage(m) \in Stage
        /\ "control_failed" \in Stage /\ "working" \in Stage /\ "cancelling" \in Stage
    BY DEF ControlStage, Stage
  <2>5. lease \in [Request -> Lease] /\ \A op \in active : op.id \in Id
    BY DEF IInv, TypeOK, OperationRecord
  <2>6. CASE \E r \in Request, m \in Method : AttachControl(r, m)
    <3>1. PICK r \in Request, m \in Method : AttachControl(r, m)
      BY <2>6
    <3>2. PICK op \in active : /\ active' = SetStage(op, ControlStage(m))
                               /\ lease' = [lease EXCEPT ![r] = [role |-> "control", id |-> op.id]]
      BY <3>1 DEF AttachControl
    <3>3. lease[r].role = "idle" /\ next_id' = next_id
      BY <3>1 DEF AttachControl, NoLease
    <3>4. [role |-> "control", id |-> op.id] \in Lease
      BY <2>5 DEF Lease
    <3>5. Tickets' = Tickets
      BY <2>5, <3>2, <3>3, <3>4, OwnersOnly
    <3> QED
      BY <2>3, <2>4, <3>2, <3>3, <3>5 DEF gate
  <2>7. CASE \E r \in Request, m \in Method : BeginRead(r, m)
    <3>1. PICK r \in Request, m \in Method : BeginRead(r, m)
      BY <2>7
    <3>2. [role |-> "read", id |-> 0] \in Lease
      BY DEF Lease
    <3>3. /\ lease[r].role = "idle" /\ UNCHANGED <<next_id, active>>
          /\ lease' = [lease EXCEPT ![r] = [role |-> "read", id |-> 0]]
      BY <3>1 DEF BeginRead, NoLease
    <3>4. Tickets' = Tickets
      BY <2>5, <3>2, <3>3, OwnersOnly
    <3> QED
      BY <2>3, <3>3, <3>4 DEF gate
  <2>8. CASE \E r \in Request, result \in Result : FinishControl(r, result) \/ FinishRead(r)
    <3>1. PICK r \in Request, result \in Result : FinishControl(r, result) \/ FinishRead(r)
      BY <2>8
    <3>2. /\ lease[r].role \in {"control", "read"} /\ lease' = [lease EXCEPT ![r] = NoLease]
          /\ UNCHANGED next_id
      BY <3>1 DEF FinishControl, FinishRead
    <3>3. \/ active' = active
          \/ \E op \in active, s \in Stage : active' = SetStage(op, s)
      BY <2>4, <3>1 DEF FinishControl, FinishRead
    <3>4. NoLease \in Lease /\ NoLease.role = "idle"
      BY DEF NoLease, Lease
    <3>5. Tickets' = Tickets
      BY <2>5, <3>2, <3>4, OwnersOnly
    <3> QED
      BY <2>3, <3>2, <3>3, <3>5 DEF gate
  <2>9. CASE Progress \/ UNCHANGED vars
    <3>1. /\ \/ active' = active
             \/ \E op \in active, s \in Stage : active' = SetStage(op, s)
          /\ UNCHANGED <<next_id, lease>>
      BY <2>4, <2>9 DEF Progress, update_stage, update_domain_stage, vars
    <3> QED
      BY <2>3, <3>1 DEF gate, Tickets
  <2> QED
    BY <2>1, <2>2, <2>6, <2>7, <2>8, <2>9 DEF Next, begin, finish
<1> QED
  BY <1>1, <1>2, InvariantHolds, PTL DEF Spec, ImplementsGate, Gate!Spec, Gate!gate, gate
=============================================================================
