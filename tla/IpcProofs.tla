----------------------------- MODULE IpcProofs ------------------------------
(***************************************************************************)
(* Ipc for any sessions, request ids, networks and events: the accounting  *)
(* of requests, the clock of the tunnel, the warning of insecure           *)
(* Wi-Fi and the idle exit.                                                *)
(***************************************************************************)
EXTENDS Ipc, FiniteSetTheorems, TLAPS

-----------------------------------------------------------------------------
(* The inductive invariant. *)

FrameOK(c, i) ==
    asked[c][i] = answered[c][i] + (IF c \in Open /\ i \in pending_ids(c) THEN 1 ELSE 0)

\* A session begins without requests, and the frames of every session are accounted
\* for.  Ids are unbounded: that those waiting are finitely many is part of it.
SessionOK(c) ==
    /\ sess[c].state = "new" => pending_ids(c) = {}
    /\ c \in Open => /\ IsFiniteSet(Waiting(c))
                     /\ Cardinality(Waiting(c)) <= MAX_PENDING_REQUESTS_PER_CLIENT
    /\ \A i \in RequestId : FrameOK(c, i)

FramesOK == \A c \in Session : SessionOK(c)

\* The snapshot describes the network that monitor_wifi saw last.
WifiOK == snap.wifi.connected = (wifi # NoWifi) /\ snap.wifi.insecure = ~wifi.secure

Warranted == snap.wifi.known /\ Dangerous(snap) /\ snap.notify /\ ~protected(snap)

\* The emitter is never ahead of the snapshot; a dangerous network it has handled it
\* has warned of; and it has handled the one of every snapshot it has seen and had
\* reason to warn of.
EmitterOK ==
    /\ emitter.generation <= snap.wifi.generation
    /\ emitter.generation = snap.wifi.generation /\ Dangerous(snap)
         => emitter.warned = snap.wifi.generation
    /\ Notifier \notin unseen /\ Warranted => emitter.generation = snap.wifi.generation

\* The clock of the idle exit is never ahead of the time without clients.
IdleOK ==
    /\ idle <= quiet
    /\ Open # {} => idle = 0
    /\ alive => idle <= IDLE_EXIT_AFTER

\* What was reported of the connection is in the past, one report at a time, and the
\* snapshot has the status of the last report.
HistoryOK ==
    /\ \A r \in reports : r.at # 0 /\ r.at <= snap.revision
    /\ \A q, r \in reports : q.at = r.at => q = r
    /\ \/ reports = {} /\ snap.status # "Connected"
       \/ \E l \in reports : l.status = snap.status /\ \A r \in reports : r.at <= l.at

ClockOK == ClockIsOfLastTunnel /\ HistoryOK

IInv == TypeOK /\ FramesOK /\ ClockOK /\ WifiOK /\ EmitterOK /\ IdleOK

-----------------------------------------------------------------------------
(* The snapshot. *)

\* A step of a writer of the channel that has nothing to do with connection and Wi-Fi,
\* or of nobody.
Unrelated ==
    /\ snap' \in Snapshot
    /\ \A f \in {"status", "since", "wifi"} : snap'[f] = snap[f]
    /\ snap'.revision \in Nat /\ snap'.revision >= snap.revision
    /\ unseen' \subseteq Receiver
    /\ \/ snap' = snap /\ (Notifier \in unseen => Notifier \in unseen')
       \/ Notifier \in unseen'

LEMMA BumpedType == ASSUME NEW s \in Snapshot PROVE Bumped(s) \in Snapshot
<1>1. s.revision + 1 \in Nat
  BY DEF Snapshot
<1> QED
  BY <1>1 DEF Bumped, Snapshot

LEMMA BumpedSame ==
    ASSUME NEW s \in Snapshot
    PROVE  /\ Bumped(s).status = s.status /\ Bumped(s).since = s.since
           /\ Bumped(s).wifi = s.wifi /\ Bumped(s).revision = s.revision + 1
           /\ s.revision \in Nat
BY DEF Bumped, Snapshot

LEMMA SentUnrelated ==
    ASSUME TypeOK, NEW s \in Snapshot, send_modify(Bumped(s)),
           s.status = snap.status, s.since = snap.since, s.revision = snap.revision,
           s.wifi = snap.wifi
    PROVE  Unrelated
BY BumpedType, BumpedSame DEF send_modify, Unrelated, Receiver

LEMMA ChannelUnrelated ==
    ASSUME TypeOK, UNCHANGED channel
    PROVE  Unrelated
BY DEF TypeOK, Snapshot, channel, Unrelated

LEMMA WithActiveUnrelated ==
    ASSUME TypeOK, NEW ops \in SUBSET (Session \X RequestId), send_modify(WithActive(snap, ops))
    PROVE  Unrelated
<1> DEFINE s == [snap EXCEPT !.active = ops]
<1>1. s \in Snapshot /\ s.status = snap.status /\ s.since = snap.since
      /\ s.revision = snap.revision /\ s.wifi = snap.wifi
  BY DEF TypeOK, Snapshot
<1>2. send_modify(Bumped(s))
  BY DEF WithActive
<1> HIDE DEF s
<1> QED
  BY <1>1, <1>2, SentUnrelated

\* Which actions are unrelated.
LEMMA TaskUnrelated ==
    ASSUME TypeOK, NEW c \in Session, NEW i \in RequestId,
           Begin(c, i) \/ SetPreferences(c, i) \/ Finish(c, i) \/ Panic(c, i)
    PROVE  Unrelated
<1>1. CASE Begin(c, i)
  <2>1. snap.active \cup {<<c, i>>} \in SUBSET (Session \X RequestId)
    BY DEF TypeOK, Snapshot
  <2> QED
    BY <1>1, <2>1, WithActiveUnrelated, ChannelUnrelated DEF Begin
<1>2. CASE SetPreferences(c, i)
  <2>1. PICK start \in BOOLEAN, notify \in BOOLEAN :
           send_modify(Bumped([snap EXCEPT !.start = start, !.notify = notify]))
    BY <1>2 DEF SetPreferences
  <2> DEFINE s == [snap EXCEPT !.start = start, !.notify = notify]
  <2>2. s \in Snapshot /\ s.status = snap.status /\ s.since = snap.since
        /\ s.revision = snap.revision /\ s.wifi = snap.wifi
    BY DEF TypeOK, Snapshot
  <2>3. send_modify(Bumped(s))
    BY <2>1
  <2> HIDE DEF s
  <2> QED
    BY <2>2, <2>3, SentUnrelated
<1>3. CASE Finish(c, i)
  <2>1. snap.active \ {<<c, i>>} \in SUBSET (Session \X RequestId)
    BY DEF TypeOK, Snapshot
  <2> QED
    BY <1>3, <2>1, WithActiveUnrelated, ChannelUnrelated DEF Finish
<1>4. CASE Panic(c, i)
  BY <1>4, ChannelUnrelated DEF Panic
<1> QED
  BY <1>1, <1>2, <1>3, <1>4

LEMMA ActivateUnrelated == ASSUME TypeOK, Activate PROVE Unrelated
<1>1. CASE UNCHANGED channel
  BY <1>1, ChannelUnrelated
<1>2. CASE send_modify(Bumped([snap EXCEPT !.scope = activating]))
  <2> DEFINE s == [snap EXCEPT !.scope = activating]
  <2>1. s \in Snapshot /\ s.status = snap.status /\ s.since = snap.since
        /\ s.revision = snap.revision /\ s.wifi = snap.wifi
    BY DEF TypeOK, Snapshot
  <2>2. send_modify(Bumped(s))
    BY <1>2
  <2> HIDE DEF s
  <2> QED
    BY <2>1, <2>2, SentUnrelated
<1> QED
  BY <1>1, <1>2 DEF Activate

LEMMA SessionUnrelated ==
    ASSUME TypeOK, NEW c \in Session,
           \/ Accept(c) \/ End(c) \/ Incoming(c) \/ Changed(c)
           \/ \E i \in RequestId : Completed(c, i)
    PROVE  Unrelated
<1>1. Notifier \notin Session
  BY IpcAssumption DEF Notifier
<1>2. CASE Accept(c) \/ End(c) \/ \E i \in RequestId : Completed(c, i)
  BY <1>2, ChannelUnrelated DEF Accept, End, Completed
<1>3. CASE Incoming(c) \/ Changed(c)
  <2>1. snap' = snap
    BY <1>3 DEF Incoming, Changed
  <2>2. unseen' = unseen \/ unseen' = unseen \ {c}
    BY <1>3 DEF Incoming, Changed, FrameUnreadable, FrameRefused, FrameHello, FrameStateGet,
                FrameRequest
  <2> QED
    BY <1>1, <2>1, <2>2 DEF Unrelated, TypeOK, Snapshot
<1> QED
  BY <1>2, <1>3

LEMMA FeaturesEffect ==
    ASSUME NEW s \in Snapshot, NEW e, e.known \in BOOLEAN
    PROVE  /\ Features(s, e) \in Snapshot
           /\ Features(s, e).wifi = s.wifi /\ Features(s, e).status = s.status
           /\ Features(s, e).since = s.since /\ Features(s, e).revision = s.revision
<1> DEFINE w == IF e.writes = Absent THEN s.writes /\ e.known ELSE TRUE \in e.writes /\ e.known
<1>1. w \in BOOLEAN
  BY DEF Snapshot
<1>2. Features(s, e) = [s EXCEPT !.known = e.known, !.writes = w]
  BY DEF Features, Snapshot
<1> HIDE DEF w
<1> QED
  BY <1>1, <1>2 DEF Snapshot

LEMMA ConnectionEffect ==
    ASSUME NEW s \in Snapshot, NEW e, e.status \in ConnectionStatus, connected_at(s, e) \in Nat
    PROVE  /\ Connection(s, e) \in Snapshot
           /\ Connection(s, e).wifi = s.wifi /\ Connection(s, e).status = e.status
           /\ Connection(s, e).since = connected_at(s, e)
           /\ Connection(s, e).revision = s.revision
<1> DEFINE w == IF e.conflicts # Absent THEN TRUE \in e.conflicts
                ELSE s.conflicts /\ e.status \notin {"Connected", "Disconnected"}
<1>1. w \in BOOLEAN
  <2>1. CASE e.conflicts # Absent
    BY <2>1
  <2>2. CASE e.conflicts = Absent
    BY <2>2
  <2> QED
    BY <2>1, <2>2
<1>2. Connection(s, e) = [s EXCEPT !.status = e.status, !.conflicts = w,
                                   !.since = connected_at(s, e)]
  BY DEF Connection, Snapshot
<1>3. s.since \in Nat
  BY DEF Snapshot
<1> DEFINE a == connected_at(s, e)
           st == e.status
<1>4. a \in Nat /\ st \in ConnectionStatus
  OBVIOUS
<1> HIDE DEF w, a, st
<1>5. [s EXCEPT !.status = st, !.conflicts = w, !.since = a] \in Snapshot
  BY <1>1, <1>4 DEF Snapshot
<1>6. Connection(s, e) = [s EXCEPT !.status = st, !.conflicts = w, !.since = a]
  BY <1>2 DEF a, st
<1>7. /\ Connection(s, e).wifi = s.wifi /\ Connection(s, e).status = st
      /\ Connection(s, e).since = a
      /\ Connection(s, e).revision = s.revision
  BY <1>6 DEF Snapshot
<1> QED
  BY <1>5, <1>6, <1>7 DEF a, st

\* What the events of the backend make of the snapshot.
LEMMA EventType ==
    ASSUME NEW s \in Snapshot, NEW e \in Event
    PROVE  apply_event(s, e) \in Snapshot
<1>1. CASE e.name = "backend"
  <2>1. [s EXCEPT !.backend = e.available] \in Snapshot
    BY <1>1 DEF Event, Snapshot
  <2> QED
    BY <1>1, <2>1, BumpedType DEF apply_event
<1>2. CASE e.name = "account"
  <2>1. [status |-> e.status, who |-> e.who]
          \in [status : {"Restoring", "SignedOut", "SignedIn"}, who : Account \cup {NoAccount}]
    BY <1>2 DEF Event
  <2>2. [s EXCEPT !.account = [status |-> e.status, who |-> e.who]] \in Snapshot
    BY <2>1 DEF Snapshot
  <2> QED
    BY <1>2, <2>2, BumpedType DEF apply_event
<1>3. CASE e.name = "device_location"
  <2>1. [s EXCEPT !.location = e.known] \in Snapshot
    BY <1>3 DEF Event, Snapshot
  <2> QED
    BY <1>3, <2>1, BumpedType DEF apply_event
<1>4. CASE e.name = "features"
  <2>1. e.known \in BOOLEAN
    BY <1>4 DEF Event
  <2>2. Features(s, e) \in Snapshot
    BY <2>1, FeaturesEffect
  <2> QED
    BY <1>4, <2>2, BumpedType DEF apply_event
<1>5. CASE e.name = "connection"
  <2>1. e.status \in ConnectionStatus
    BY <1>5 DEF Event
  <2>2. connected_at(s, e) \in Nat
    BY DEF connected_at, Snapshot
  <2>3. Connection(s, e) \in Snapshot
    BY <2>1, <2>2, ConnectionEffect
  <2> QED
    BY <1>5, <2>3, BumpedType DEF apply_event
<1>6. CASE e.name \notin {"backend", "account", "device_location", "features", "connection"}
  BY <1>6 DEF apply_event
<1> QED
  BY <1>1, <1>2, <1>3, <1>4, <1>5, <1>6

\* Only an event of the connection touches its fields, and none touches Wi-Fi.
LEMMA EventEffect ==
    ASSUME NEW s \in Snapshot, NEW e \in Event
    PROVE  /\ apply_event(s, e).wifi = s.wifi
           /\ s.revision \in Nat /\ apply_event(s, e).revision \in {s.revision, s.revision + 1}
           /\ e.name # "connection" => /\ apply_event(s, e).status = s.status
                                       /\ apply_event(s, e).since = s.since
           /\ e.name = "connection" => /\ apply_event(s, e).status = e.status
                                       /\ apply_event(s, e).since = connected_at(s, e)
                                       /\ apply_event(s, e).revision = s.revision + 1
<1>1. CASE e.name = "features"
  <2>1. e.known \in BOOLEAN
    BY <1>1 DEF Event
  <2>2. apply_event(s, e) = Bumped(Features(s, e))
    BY <1>1 DEF apply_event
  <2> QED
    BY <1>1, <2>1, <2>2, FeaturesEffect, BumpedSame
<1>2. CASE e.name = "connection"
  <2>1. e.status \in ConnectionStatus /\ connected_at(s, e) \in Nat
    BY <1>2 DEF Event, connected_at, Snapshot
  <2>2. apply_event(s, e) = Bumped(Connection(s, e))
    BY <1>2 DEF apply_event
  <2> QED
    BY <1>2, <2>1, <2>2, ConnectionEffect, BumpedSame
<1>3. CASE e.name \notin {"features", "connection"}
  BY <1>3 DEF apply_event, Bumped, Snapshot
<1> QED
  BY <1>1, <1>2, <1>3

LEMMA WifiEffect ==
    ASSUME NEW s \in Snapshot, NEW n, n.secure \in BOOLEAN, NEW b \in BOOLEAN
    PROVE  /\ WifiSeen(s, n, b) \in Snapshot
           /\ WifiSeen(s, n, b).wifi.connected = (n # NoWifi)
           /\ WifiSeen(s, n, b).wifi.insecure = ~n.secure
           /\ WifiSeen(s, n, b).wifi.generation
                = IF b THEN s.wifi.generation + 1 ELSE s.wifi.generation
           /\ \A f \in {"status", "since"} : WifiSeen(s, n, b)[f] = s[f]
           /\ s.revision \in Nat /\ WifiSeen(s, n, b).revision = s.revision + 1
<1> DEFINE g == IF b THEN s.wifi.generation + 1 ELSE s.wifi.generation
           w == [known |-> TRUE, connected |-> n # NoWifi, insecure |-> ~n.secure,
                 generation |-> g]
           t == [s EXCEPT !.wifi = w]
<1>1. g \in Nat
  BY DEF Snapshot
<1> HIDE DEF g
<1>2. w \in [known : BOOLEAN, connected : BOOLEAN, insecure : BOOLEAN, generation : Nat]
      /\ w.connected = (n # NoWifi) /\ w.insecure = ~n.secure /\ w.generation = g
  BY <1>1
<1>3. WifiSeen(s, n, b) = Bumped(t)
  BY DEF WifiSeen, g
<1> HIDE DEF w
<1>4. t \in Snapshot /\ t.wifi = w
      /\ t.status = s.status /\ t.since = s.since /\ t.revision = s.revision
  BY <1>2 DEF Snapshot
<1> HIDE DEF t
<1>5. Bumped(t) \in Snapshot /\ Bumped(t).wifi = w
      /\ \A f \in {"status", "since"} : Bumped(t)[f] = s[f]
      /\ s.revision \in Nat /\ Bumped(t).revision = s.revision + 1
  BY <1>4, BumpedType, BumpedSame
<1> QED
  BY <1>2, <1>3, <1>5 DEF g

LEMMA WifiLostEffect ==
    ASSUME NEW s \in Snapshot
    PROVE  /\ WifiLost(s) \in Snapshot
           /\ WifiLost(s).wifi.connected = s.wifi.connected
           /\ WifiLost(s).wifi.insecure = s.wifi.insecure
           /\ WifiLost(s).wifi.generation = s.wifi.generation
           /\ \A f \in {"status", "since"} : WifiLost(s)[f] = s[f]
           /\ s.revision \in Nat /\ WifiLost(s).revision = s.revision + 1
<1> DEFINE t == [s EXCEPT !.wifi.known = FALSE]
<1>1. t \in Snapshot
      /\ t.wifi.connected = s.wifi.connected /\ t.wifi.insecure = s.wifi.insecure
      /\ t.wifi.generation = s.wifi.generation
      /\ t.status = s.status /\ t.since = s.since /\ t.revision = s.revision
  BY DEF Snapshot
<1>2. WifiLost(s) = Bumped(t)
  BY DEF WifiLost
<1> HIDE DEF t
<1> QED
  BY <1>1, <1>2, BumpedType, BumpedSame

-----------------------------------------------------------------------------
(* What the steps of the other writers are. *)

LEMMA Networks == \A n \in Network \cup {NoWifi} : n.secure \in BOOLEAN
<1>1. NoWifi.secure = TRUE
  BY DEF NoWifi
<1>2. \A n \in Network : n.secure \in BOOLEAN
  BY IpcAssumption
<1> QED
  BY <1>1, <1>2

LEMMA MonitorEffect ==
    ASSUME TypeOK, MonitorWifi
    PROVE  /\ snap' \in Snapshot /\ unseen' = Receiver
           /\ wifi' \in Network \cup {NoWifi}
           /\ \A f \in {"status", "since"} : snap'[f] = snap[f]
           /\ snap.revision \in Nat /\ snap'.revision = snap.revision + 1
           /\ \/ /\ snap'.wifi.connected = (wifi' # NoWifi)
                 /\ snap'.wifi.insecure = ~wifi'.secure
                 /\ snap'.wifi.generation
                      = IF wifi' # wifi THEN snap.wifi.generation + 1 ELSE snap.wifi.generation
              \/ /\ wifi' = wifi
                 /\ snap'.wifi.connected = snap.wifi.connected
                 /\ snap'.wifi.insecure = snap.wifi.insecure
                 /\ snap'.wifi.generation = snap.wifi.generation
<1>1. CASE \E n \in Network \cup {NoWifi} :
              send_modify(WifiSeen(snap, n, n # wifi)) /\ wifi' = n
  <2>1. PICK n \in Network \cup {NoWifi} : send_modify(WifiSeen(snap, n, n # wifi)) /\ wifi' = n
    BY <1>1
  <2>2. snap \in Snapshot /\ n.secure \in BOOLEAN /\ (n # wifi) \in BOOLEAN
    BY Networks DEF TypeOK
  <2>3. snap' = WifiSeen(snap, n, n # wifi) /\ unseen' = Receiver
    BY <2>1 DEF send_modify
  <2> DEFINE b == n # wifi
             t == WifiSeen(snap, n, b)
  <2> HIDE DEF b
  <2>4. /\ t \in Snapshot
        /\ t.wifi.connected = (n # NoWifi) /\ t.wifi.insecure = ~n.secure
        /\ t.wifi.generation = IF b THEN snap.wifi.generation + 1 ELSE snap.wifi.generation
        /\ \A f \in {"status", "since"} : t[f] = snap[f]
        /\ snap.revision \in Nat /\ t.revision = snap.revision + 1
    <3>1. b \in BOOLEAN
      BY DEF b
    <3> QED
      BY <2>2, <3>1, WifiEffect
  <2> HIDE DEF t
  <2>5. snap' = t /\ unseen' = Receiver /\ wifi' = n
    BY <2>1, <2>3 DEF t, b
  <2> QED
    BY <2>4, <2>5 DEF b
<1>2. CASE send_modify(WifiLost(snap)) /\ UNCHANGED wifi
  BY <1>2, WifiLostEffect DEF send_modify, TypeOK
<1> QED
  BY <1>1, <1>2 DEF MonitorWifi

LEMMA EmitEffect ==
    ASSUME TypeOK, NEW e \in Emitted, Emit(e)
    PROVE  /\ e \in Event /\ snap \in Snapshot
           /\ snap' = apply_event(snap, e) /\ snap' \in Snapshot /\ snap'.wifi = snap.wifi
           /\ unseen' = Receiver
           /\ activating' \in Account \cup {NoAccount}
           /\ reports' \subseteq [at : Nat, status : ConnectionStatus]
<1>1. e \in Event
  BY IpcAssumption
<1>2. snap' = apply_event(snap, e) /\ unseen' = Receiver
  BY DEF Emit, send_modify
<1>3. activating' \in Account \cup {NoAccount}
  <2>1. CASE account_to_activate(e) = NoAccount
    BY <2>1 DEF Emit, TypeOK
  <2>2. CASE account_to_activate(e) # NoAccount
    <3>1. e.name = "account" /\ activating' = e.who
      BY <2>2 DEF Emit, account_to_activate
    <3> QED
      BY <1>1, <3>1 DEF Event
  <2> QED
    BY <2>1, <2>2
<1>4. reports' \subseteq [at : Nat, status : ConnectionStatus]
  <2>1. snap.revision \in Nat /\ reports \subseteq [at : Nat, status : ConnectionStatus]
    BY DEF TypeOK, Snapshot
  <2>2. e.name = "connection" => e.status \in ConnectionStatus
    BY <1>1 DEF Event
  <2> QED
    BY <2>1, <2>2 DEF Emit
<1> QED
  BY <1>1, <1>2, <1>3, <1>4, EventType, EventEffect DEF TypeOK

LEMMA NotifyEffect ==
    ASSUME TypeOK, Notify
    PROVE  /\ emitter' \in [generation : Nat, warned : Nat]
           /\ \/ emitter' = emitter /\ snap.wifi.generation = emitter.generation
              \/ ~Dangerous(snap) /\ emitter'.generation = snap.wifi.generation
              \/ /\ emitter'.generation = snap.wifi.generation
                 /\ emitter'.warned = snap.wifi.generation
              \/ emitter' = emitter /\ ~(snap.notify /\ snap.wifi.known /\ ~protected(snap))
<1>1. snap.wifi.generation \in Nat
  BY DEF TypeOK, Snapshot
<1>2. emitter \in [generation : Nat, warned : Nat]
  BY DEF TypeOK
<1>3. emitter' = observe_network_security(emitter, snap, snap.notify)
  BY DEF Notify
<1>4. CASE snap.wifi.generation = emitter.generation
  BY <1>2, <1>3, <1>4 DEF observe_network_security
<1>5. CASE snap.wifi.generation # emitter.generation /\ ~Dangerous(snap)
  BY <1>1, <1>2, <1>3, <1>5 DEF observe_network_security
<1>6. CASE /\ snap.wifi.generation # emitter.generation /\ Dangerous(snap)
           /\ snap.notify /\ snap.wifi.known /\ ~protected(snap)
  BY <1>1, <1>2, <1>3, <1>6 DEF observe_network_security
<1>7. CASE /\ snap.wifi.generation # emitter.generation /\ Dangerous(snap)
           /\ ~(snap.notify /\ snap.wifi.known /\ ~protected(snap))
  BY <1>1, <1>2, <1>3, <1>7 DEF observe_network_security
<1> QED
  BY <1>4, <1>5, <1>6, <1>7

-----------------------------------------------------------------------------
(* The snapshot stays coherent, and the warning is not lost. *)

\* Later revisions do not disturb the clock.
LEMMA SameClock ==
    /\ TypeOK /\ ClockOK /\ UNCHANGED reports
    /\ snap'.status = snap.status /\ snap'.since = snap.since
    /\ snap'.revision \in Nat /\ snap'.revision >= snap.revision
    => ClockOK'
<1> SUFFICES ASSUME TypeOK, ClockOK, UNCHANGED reports,
                    snap'.status = snap.status, snap'.since = snap.since,
                    snap'.revision \in Nat, snap'.revision >= snap.revision
             PROVE  ClockOK'
  OBVIOUS
<1>1. snap.revision \in Nat /\ \A r \in reports : r.at \in Nat
  BY DEF TypeOK, Snapshot
<1>2. HistoryOK'
  BY <1>1 DEF ClockOK, HistoryOK
<1>3. ClockIsOfLastTunnel'
  BY DEF ClockOK, ClockIsOfLastTunnel, Began
<1> QED
  BY <1>2, <1>3 DEF ClockOK

LEMMA UnrelatedKeeps ==
    TypeOK /\ ClockOK /\ WifiOK /\ EmitterOK /\ Unrelated /\ UNCHANGED <<wifi, emitter, reports>>
      => ClockOK' /\ WifiOK' /\ EmitterOK'
<1> SUFFICES ASSUME TypeOK, ClockOK, WifiOK, EmitterOK, Unrelated,
                    UNCHANGED <<wifi, emitter, reports>>
             PROVE  ClockOK' /\ WifiOK' /\ EmitterOK'
  OBVIOUS
<1>1. snap'.status = snap.status /\ snap'.since = snap.since /\ snap'.wifi = snap.wifi
      /\ snap'.revision >= snap.revision /\ snap'.revision \in Nat
  BY DEF Unrelated
<1>2. ClockOK'
  BY <1>1, SameClock
<1>3. WifiOK'
  BY <1>1 DEF WifiOK
<1>4. EmitterOK'
  <2>1. Dangerous(snap)' = Dangerous(snap) /\ protected(snap)' = protected(snap)
    BY <1>1 DEF Dangerous, protected
  <2>2. Notifier \in unseen' \/ (Notifier \notin unseen /\ snap' = snap)
    BY DEF Unrelated
  <2> QED
    BY <1>1, <2>1, <2>2 DEF EmitterOK, Warranted
<1> QED
  BY <1>2, <1>3, <1>4

\* A report of the connection: a clock starts, stops or goes on.
LEMMA ReportKeeps ==
    ASSUME NEW e, e.status \in ConnectionStatus
    PROVE  /\ TypeOK /\ ClockOK
           /\ reports' = reports \cup {[at |-> snap.revision + 1, status |-> e.status]}
           /\ snap'.status = e.status /\ snap'.since = connected_at(snap, e)
           /\ snap'.revision = snap.revision + 1
           => ClockOK'
<1> SUFFICES ASSUME TypeOK, ClockOK,
                    reports' = reports \cup {[at |-> snap.revision + 1, status |-> e.status]},
                    snap'.status = e.status, snap'.since = connected_at(snap, e),
                    snap'.revision = snap.revision + 1
             PROVE  ClockOK'
  OBVIOUS
<1>0. PICK n : n = [at |-> snap.revision + 1, status |-> e.status]
  OBVIOUS
<1>1. /\ snap.revision \in Nat /\ n.at = snap.revision + 1 /\ n.status = e.status
      /\ reports' = reports \cup {n}
      /\ \A r \in reports : r.at \in Nat
  BY <1>0 DEF TypeOK, Snapshot
<1>2. \A r \in reports : r.at # 0 /\ r.at < n.at
  BY <1>1 DEF ClockOK, HistoryOK
<1>3. n.at \in Nat /\ n.at # 0 /\ n.at <= snap'.revision
  BY <1>1
<1>4. HistoryOK'
  BY <1>1, <1>2, <1>3 DEF ClockOK, HistoryOK
<1>5. \A r \in reports : Began(r)' <=> Began(r)
  BY <1>1, <1>2, <1>3 DEF Began
<1>6. CASE e.status = "Disconnected"
  <2>1. snap'.since = 0
    BY <1>6 DEF connected_at
  <2> QED
    BY <1>1, <1>2, <1>4, <1>6, <2>1 DEF ClockOK, ClockIsOfLastTunnel
<1>7. CASE e.status = "Connected" /\ snap.status # "Connected"
  <2>1. snap'.since = n.at
    BY <1>1, <1>7 DEF connected_at
  <2>2. Began(n)'
    BY <1>1, <1>2, <1>3, <1>7 DEF Began, ClockOK, HistoryOK
  <2>3. \A q \in reports' : ~(q.at > n.at)
    BY <1>1, <1>2, <1>3
  <2> QED
    BY <1>1, <1>4, <2>1, <2>2, <2>3 DEF ClockOK, ClockIsOfLastTunnel
<1>8. CASE e.status = "Connected" /\ snap.status = "Connected"
  <2>1. snap'.since = snap.since
    BY <1>8 DEF connected_at
  <2>2. PICK l \in reports : l.status = "Connected" /\ \A r \in reports : r.at <= l.at
    BY <1>8 DEF ClockOK, HistoryOK
  <2>3. ~Began(n)'
    <3>1. l \in reports' /\ l.at < n.at
      BY <1>2
    <3>2. \A q \in reports' : ~(l.at < q.at /\ q.at < n.at)
      BY <1>1, <1>2, <1>3, <2>2
    <3> QED
      BY <2>2, <3>1, <3>2 DEF Began
  <2>4. PICK r \in reports :
           /\ Began(r) /\ snap.since = r.at
           /\ \A q \in reports : q.at > r.at => q.status # "Disconnected" /\ ~Began(q)
    <3>1. ~(\E q \in reports : q.at > l.at)
      BY <1>1, <2>2
    <3> QED
      BY <2>2, <3>1 DEF ClockOK, ClockIsOfLastTunnel
  <2> QED
    BY <1>1, <1>4, <1>5, <1>8, <2>1, <2>3, <2>4 DEF ClockOK, ClockIsOfLastTunnel
<1>9. CASE e.status \notin {"Connected", "Disconnected"}
  <2>1. snap'.since = snap.since
    BY <1>9 DEF connected_at
  <2>2. ~Began(n)'
    BY <1>1, <1>9 DEF Began
  <2>3. CASE /\ snap.since = 0
             /\ \A r \in reports : r.status = "Connected" =>
                   \E q \in reports : q.at > r.at /\ q.status = "Disconnected"
    BY <1>1, <1>4, <1>9, <2>1, <2>3 DEF ClockOK, ClockIsOfLastTunnel
  <2>4. CASE \E r \in reports :
           /\ Began(r) /\ snap.since = r.at
           /\ \A q \in reports : q.at > r.at => q.status # "Disconnected" /\ ~Began(q)
    BY <1>1, <1>4, <1>5, <1>9, <2>1, <2>2, <2>4 DEF ClockOK, ClockIsOfLastTunnel
  <2> QED
    BY <2>3, <2>4 DEF ClockOK, ClockIsOfLastTunnel
<1> QED
  BY <1>6, <1>7, <1>8, <1>9

LEMMA EmitKeeps ==
    ASSUME NEW e \in Emitted
    PROVE  TypeOK /\ ClockOK /\ WifiOK /\ EmitterOK /\ Emit(e)
             => ClockOK' /\ WifiOK' /\ EmitterOK'
<1> SUFFICES ASSUME TypeOK, ClockOK, WifiOK, EmitterOK, Emit(e)
             PROVE  ClockOK' /\ WifiOK' /\ EmitterOK'
  OBVIOUS
<1>1. /\ e \in Event /\ snap \in Snapshot
      /\ snap' = apply_event(snap, e) /\ snap'.wifi = snap.wifi /\ Notifier \in unseen'
  BY EmitEffect DEF Receiver
<1>2. UNCHANGED <<wifi, emitter>>
  BY DEF Emit
<1>3. /\ snap.revision \in Nat /\ snap'.revision \in {snap.revision, snap.revision + 1}
      /\ e.name # "connection" => snap'.status = snap.status /\ snap'.since = snap.since
      /\ e.name = "connection" => /\ snap'.status = e.status
                                  /\ snap'.since = connected_at(snap, e)
                                  /\ snap'.revision = snap.revision + 1
  BY <1>1, EventEffect
<1>4. ClockOK'
  <2>1. CASE e.name # "connection"
    BY <1>3, <2>1, SameClock DEF Emit
  <2>2. CASE e.name = "connection"
    <3>1. e.status \in ConnectionStatus
      BY <1>1, <2>2 DEF Event
    <3>2. reports' = reports \cup {[at |-> snap.revision + 1, status |-> e.status]}
      BY <2>2 DEF Emit
    <3> QED
      BY <1>1, <1>3, <2>2, <3>1, <3>2, ReportKeeps
  <2> QED
    BY <2>1, <2>2
<1>5. WifiOK'
  BY <1>1, <1>2 DEF WifiOK
<1>6. EmitterOK'
  BY <1>1, <1>2 DEF EmitterOK, Dangerous
<1> QED
  BY <1>4, <1>5, <1>6

LEMMA MonitorKeeps ==
    TypeOK /\ ClockOK /\ WifiOK /\ EmitterOK /\ MonitorWifi
      => ClockOK' /\ WifiOK' /\ EmitterOK'
<1> SUFFICES ASSUME TypeOK, ClockOK, WifiOK, EmitterOK, MonitorWifi
             PROVE  ClockOK' /\ WifiOK' /\ EmitterOK'
  OBVIOUS
<1>1. UNCHANGED <<emitter, reports>> /\ Notifier \in unseen'
  BY MonitorEffect DEF MonitorWifi, Receiver
<1>2. ClockOK'
  <2>1. snap'.status = snap.status /\ snap'.since = snap.since
        /\ snap'.revision \in Nat /\ snap'.revision >= snap.revision
    BY MonitorEffect
  <2> QED
    BY <1>1, <2>1, SameClock
<1>3. WifiOK'
  BY MonitorEffect DEF WifiOK
<1>4. \/ snap'.wifi.generation = snap.wifi.generation + 1
      \/ /\ snap'.wifi.generation = snap.wifi.generation
         /\ snap'.wifi.connected = snap.wifi.connected
         /\ snap'.wifi.insecure = snap.wifi.insecure
  BY MonitorEffect DEF WifiOK
<1>5. snap.wifi.generation \in Nat /\ emitter.generation \in Nat
  BY DEF TypeOK, Snapshot
<1>6. EmitterOK'
  BY <1>1, <1>4, <1>5 DEF EmitterOK, Dangerous
<1> QED
  BY <1>2, <1>3, <1>6

LEMMA NotifyKeeps ==
    TypeOK /\ ClockOK /\ WifiOK /\ EmitterOK /\ Notify
      => ClockOK' /\ WifiOK' /\ EmitterOK'
<1> SUFFICES ASSUME TypeOK, ClockOK, WifiOK, EmitterOK, Notify
             PROVE  ClockOK' /\ WifiOK' /\ EmitterOK'
  OBVIOUS
<1>1. UNCHANGED <<snap, wifi, reports>>
  BY DEF Notify
<1>2. snap.wifi.generation \in Nat
  BY DEF TypeOK, Snapshot
<1>3. EmitterOK'
  BY <1>1, <1>2, NotifyEffect DEF EmitterOK, Warranted, Dangerous, protected
<1>4. ClockOK'
  <2>1. snap'.revision \in Nat /\ snap'.revision >= snap.revision
    BY <1>1 DEF TypeOK, Snapshot
  <2> QED
    BY <1>1, <2>1, SameClock
<1> QED
  BY <1>1, <1>3, <1>4 DEF WifiOK

LEMMA NextChannel ==
    TypeOK /\ ClockOK /\ WifiOK /\ EmitterOK /\ [Next]_vars
      => ClockOK' /\ WifiOK' /\ EmitterOK'
<1> SUFFICES ASSUME TypeOK, ClockOK, WifiOK, EmitterOK, [Next]_vars
             PROVE  ClockOK' /\ WifiOK' /\ EmitterOK'
  OBVIOUS
<1>1. ASSUME NEW c \in Session, SessionNext(c)
      PROVE  Unrelated /\ UNCHANGED <<wifi, emitter, reports>>
  <2>1. UNCHANGED <<wifi, emitter, reports>>
    BY <1>1 DEF SessionNext, Accept, End, Incoming, Changed, Completed, Begin, SetPreferences,
                Finish, Panic, tasks_unchanged
  <2>2. Unrelated
    BY <1>1, SessionUnrelated, TaskUnrelated DEF SessionNext
  <2> QED
    BY <2>1, <2>2
<1>2. CASE Activate
  <2>1. UNCHANGED <<wifi, emitter, reports>>
    BY <1>2 DEF Activate
  <2> QED
    BY <1>2, <2>1, ActivateUnrelated, UnrelatedKeeps
<1>3. CASE Tick \/ UNCHANGED vars
  <2>1. UNCHANGED channel /\ UNCHANGED <<wifi, emitter, reports>>
    BY <1>3 DEF Tick, vars
  <2> QED
    BY <2>1, ChannelUnrelated, UnrelatedKeeps
<1> QED
  BY <1>1, <1>2, <1>3, UnrelatedKeeps, EmitKeeps, MonitorKeeps, NotifyKeeps DEF Next

-----------------------------------------------------------------------------
(* The types of the other variables. *)

Sessions == [state : {"new", "open", "closed"}, hello : BOOLEAN, last : Nat]
Counts   == [Session -> [RequestId -> Nat]]

LEMMA CountType ==
    ASSUME NEW f \in Counts, NEW c \in Session, NEW i \in RequestId
    PROVE  [f EXCEPT ![c][i] = @ + 1] \in Counts
BY DEF Counts

LEMMA PendingType ==
    ASSUME TypeOK, NEW c \in Session, NEW i \in RequestId, NEW k \in TaskState
    PROVE  [pending EXCEPT ![c][i] = k] \in [Session -> [RequestId -> TaskState]]
BY DEF TypeOK

LEMMA SessionsType ==
    ASSUME TypeOK, NEW c \in Session, NEW r \in Nat
    PROVE  /\ sess \in [Session -> Sessions]
           /\ [sess EXCEPT ![c].state = "open"] \in [Session -> Sessions]
           /\ [sess EXCEPT ![c].last = r] \in [Session -> Sessions]
           /\ [sess EXCEPT ![c].hello = TRUE, ![c].last = r] \in [Session -> Sessions]
<1>1. sess \in [Session -> Sessions]
  BY DEF TypeOK, Sessions
<1>2. /\ [sess[c] EXCEPT !.state = "open"] \in Sessions
      /\ [sess[c] EXCEPT !.last = r] \in Sessions
      /\ [sess[c] EXCEPT !.hello = TRUE, !.last = r] \in Sessions
  BY <1>1 DEF Sessions
<1>3. /\ [sess EXCEPT ![c].state = "open"] \in [Session -> Sessions]
      /\ [sess EXCEPT ![c].last = r] \in [Session -> Sessions]
  BY <1>1, <1>2
<1>4. [sess EXCEPT ![c].hello = TRUE, ![c].last = r]
        = [sess EXCEPT ![c] = [sess[c] EXCEPT !.hello = TRUE, !.last = r]]
  BY <1>1 DEF Sessions
<1>5. [sess EXCEPT ![c].hello = TRUE, ![c].last = r] \in [Session -> Sessions]
  BY <1>1, <1>2, <1>4
<1> QED
  BY <1>1, <1>3, <1>5

LEMMA ReplyType ==
    ASSUME TypeOK, NEW c \in Session, NEW i \in RequestId, Reply(c, i)
    PROVE  asked' \in Counts /\ answered' \in Counts
           /\ pending' \in [Session -> [RequestId -> TaskState]]
BY CountType DEF Reply, TypeOK, Counts

ClientsType ==
    /\ sess \in [Session -> Sessions]
    /\ pending \in [Session -> [RequestId -> TaskState]]
    /\ asked \in Counts /\ answered \in Counts

LEMMA SessionType ==
    ASSUME TypeOK, NEW c \in Session, SessionNext(c)
    PROVE  ClientsType'
<1>1. snap.revision \in Nat
  BY DEF TypeOK, Snapshot
<1>2. CASE Accept(c) \/ Changed(c)
  <2>1. UNCHANGED <<pending, asked, answered>>
    BY <1>2 DEF Accept, Changed
  <2>2. \/ sess' = [sess EXCEPT ![c].state = "open"]
        \/ sess' = [sess EXCEPT ![c].last = snap.revision]
    BY <1>2 DEF Accept, Changed
  <2>3. sess' \in [Session -> Sessions]
    <3> DEFINE r == snap.revision
    <3>1. r \in Nat
      BY <1>1
    <3>2. \/ sess' = [sess EXCEPT ![c].state = "open"]
          \/ sess' = [sess EXCEPT ![c].last = r]
      BY <2>2
    <3> HIDE DEF r
    <3>3. /\ [sess EXCEPT ![c].state = "open"] \in [Session -> Sessions]
          /\ [sess EXCEPT ![c].last = r] \in [Session -> Sessions]
      BY <3>1, SessionsType
    <3> QED
      BY <3>2, <3>3, Zenon
  <2> QED
    BY <2>1, <2>3 DEF ClientsType, TypeOK, Counts
<1>3. CASE End(c)
  <2>1. sess' \in [Session -> Sessions]
    BY <1>3 DEF End, TypeOK, Sessions
  <2>2. asked' \in Counts /\ answered' \in Counts
    BY <1>3 DEF End, TypeOK, Counts, NoFrames
  <2>3. pending' \in [Session -> [RequestId -> TaskState]]
    <3> DEFINE row == [i \in RequestId |-> IF pending[c][i] \in {"done", "panicked", "stuck"}
                                             THEN "none" ELSE pending[c][i]]
    <3>1. row \in [RequestId -> TaskState]
      BY DEF TypeOK, TaskState
    <3>2. pending' = [pending EXCEPT ![c] = row]
      BY <1>3 DEF End, TypeOK
    <3> QED
      BY <3>1, <3>2 DEF TypeOK
  <2> QED
    BY <2>1, <2>2, <2>3 DEF ClientsType
<1>4. CASE Incoming(c)
  <2>1. CASE FrameUnreadable
    BY <2>1 DEF FrameUnreadable, TypeOK, ClientsType, Sessions, Counts
  <2>2. ASSUME NEW i \in RequestId, FrameRefused(c, i) \/ FrameHello(c, i) \/ FrameStateGet(c, i)
        PROVE  ClientsType'
    <3>1. Reply(c, i)
      BY <2>2 DEF FrameRefused, FrameHello, FrameStateGet
    <3>2. sess' \in [Session -> Sessions]
      <4> DEFINE r == snap.revision
      <4>1. r \in Nat
        BY <1>1
      <4>2. \/ sess' = sess
            \/ sess' = [sess EXCEPT ![c].hello = TRUE, ![c].last = r]
            \/ sess' = [sess EXCEPT ![c].last = r]
        BY <2>2 DEF FrameRefused, FrameHello, FrameStateGet
      <4> HIDE DEF r
      <4>3. /\ sess \in [Session -> Sessions]
            /\ [sess EXCEPT ![c].last = r] \in [Session -> Sessions]
            /\ [sess EXCEPT ![c].hello = TRUE, ![c].last = r] \in [Session -> Sessions]
        BY <4>1, SessionsType
      <4> QED
        BY <4>2, <4>3, Zenon
    <3> QED
      BY <3>1, <3>2, ReplyType DEF ClientsType
  <2>3. ASSUME NEW i \in RequestId, NEW kind \in {"read", "op"}, FrameRequest(c, i, kind)
        PROVE  ClientsType'
    <3>1. sess' \in [Session -> Sessions]
      BY <2>3 DEF FrameRequest, TypeOK, Sessions
    <3>2. CASE Reply(c, i)
      BY <3>1, <3>2, ReplyType DEF ClientsType
    <3>3. CASE /\ pending' = [pending EXCEPT ![c][i] = kind]
               /\ asked' = [asked EXCEPT ![c][i] = @ + 1]
               /\ UNCHANGED answered
      <4>1. kind \in TaskState
        BY DEF TaskState
      <4>2. asked \in Counts /\ answered \in Counts
        BY DEF TypeOK, Counts
      <4> QED
        BY <3>1, <3>3, <4>1, <4>2, CountType, PendingType DEF ClientsType
    <3> QED
      BY <2>3, <3>2, <3>3 DEF FrameRequest
  <2> QED
    BY <1>4, <2>1, <2>2, <2>3 DEF Incoming
<1>5. ASSUME NEW i \in RequestId, Completed(c, i)
      PROVE  ClientsType'
  <2>1. sess' = sess /\ asked' = asked
    BY <1>5 DEF Completed
  <2>2. answered \in Counts /\ asked \in Counts /\ sess \in [Session -> Sessions]
    BY DEF TypeOK, Counts, Sessions
  <2>3. answered' \in Counts
    <3>1. CASE answered' = [answered EXCEPT ![c][i] = @ + 1]
      BY <2>2, <3>1, CountType
    <3>2. CASE answered' = answered
      BY <2>2, <3>2
    <3> QED
      BY <1>5, <3>1, <3>2 DEF Completed
  <2>4. \E k \in TaskState : pending' = [pending EXCEPT ![c][i] = k]
    BY <1>5 DEF Completed, TaskState
  <2> QED
    BY <2>1, <2>2, <2>3, <2>4, PendingType DEF ClientsType
<1>6. ASSUME NEW i \in RequestId,
             Begin(c, i) \/ SetPreferences(c, i) \/ Finish(c, i) \/ Panic(c, i)
      PROVE  ClientsType'
  <2>1. UNCHANGED <<sess, asked, answered>>
    BY <1>6 DEF Begin, SetPreferences, Finish, Panic, tasks_unchanged
  <2>2. \/ pending' = pending
        \/ \E k \in TaskState : pending' = [pending EXCEPT ![c][i] = k]
    BY <1>6 DEF Begin, SetPreferences, Finish, Panic, At, Over, TaskState
  <2>3. pending' \in [Session -> [RequestId -> TaskState]]
    <3>1. CASE pending' = pending
      BY <3>1 DEF TypeOK
    <3>2. CASE \E k \in TaskState : pending' = [pending EXCEPT ![c][i] = k]
      <4>1. PICK k \in TaskState : pending' = [pending EXCEPT ![c][i] = k]
        BY <3>2
      <4> QED
        BY <4>1, PendingType
    <3> QED
      BY <2>2, <3>1, <3>2
  <2> QED
    BY <2>1, <2>3 DEF ClientsType, TypeOK, Sessions, Counts
<1> QED
  BY <1>2, <1>3, <1>4, <1>5, <1>6 DEF SessionNext

OtherType ==
    /\ snap \in Snapshot
    /\ unseen \subseteq Receiver
    /\ idle \in 0 .. IDLE_EXIT_AFTER + 1 /\ quiet \in 0 .. IDLE_EXIT_AFTER + 1
    /\ alive \in BOOLEAN
    /\ activating \in Account \cup {NoAccount}
    /\ wifi \in Network \cup {NoWifi}
    /\ emitter \in [generation : Nat, warned : Nat]
    /\ left \in 0 .. Budget /\ reports \subseteq [at : Nat, status : ConnectionStatus]

LEMMA TypeParts == (TypeOK <=> ClientsType /\ OtherType) /\ (TypeOK' <=> ClientsType' /\ OtherType')
BY DEF TypeOK, ClientsType, OtherType, Sessions, Counts

LEMMA PayType == TypeOK /\ Pay => left' \in 0 .. Budget
BY IpcAssumption DEF TypeOK, Pay

LEMMA NextType == TypeOK /\ IdleOK /\ [Next]_vars => TypeOK'
<1> SUFFICES ASSUME TypeOK, IdleOK, [Next]_vars PROVE TypeOK'
  OBVIOUS
<1>1. ASSUME NEW c \in Session, SessionNext(c)
      PROVE  TypeOK'
  <2>1. ClientsType'
    BY <1>1, SessionType
  <2>2. UNCHANGED <<alive, activating, wifi, emitter, reports>>
    BY <1>1 DEF SessionNext, Accept, End, Incoming, Changed, Completed, Begin, SetPreferences,
                Finish, Panic, tasks_unchanged
  <2>3. left' = left \/ Pay
    BY <1>1 DEF SessionNext, Accept, End, Incoming, Changed, Completed, Begin, SetPreferences,
                Finish, Panic
  <2>4. idle' \in {idle, 0} /\ quiet' \in {quiet, 0}
    BY <1>1 DEF SessionNext, Accept, End, Incoming, Changed, Completed, Begin, SetPreferences,
                Finish, Panic, tasks_unchanged
  <2>5. Unrelated
    BY <1>1, SessionUnrelated, TaskUnrelated DEF SessionNext
  <2>6. idle' \in 0 .. IDLE_EXIT_AFTER + 1 /\ quiet' \in 0 .. IDLE_EXIT_AFTER + 1
    BY <2>4, IpcAssumption DEF TypeOK
  <2>7. left' \in 0 .. Budget
    BY <2>3, PayType DEF TypeOK
  <2>8. OtherType'
    BY <2>2, <2>5, <2>6, <2>7 DEF OtherType, TypeOK, Unrelated
  <2> QED
    BY <2>1, <2>8, TypeParts
<1>2. CASE Tick
  <2>1. idle' \in 0 .. IDLE_EXIT_AFTER + 1 /\ quiet' \in 0 .. IDLE_EXIT_AFTER + 1
    BY <1>2, IpcAssumption DEF Tick, TypeOK, IdleOK
  <2>2. alive' \in BOOLEAN
    <3>1. CASE alive' = TRUE
      BY <3>1
    <3>2. CASE alive' = (idle < IDLE_EXIT_AFTER)
      <4>1. CASE idle < IDLE_EXIT_AFTER
        BY <3>2, <4>1
      <4>2. CASE ~(idle < IDLE_EXIT_AFTER)
        BY <3>2, <4>2
      <4> QED
        BY <4>1, <4>2
    <3> QED
      BY <1>2, <3>1, <3>2 DEF Tick
  <2> QED
    BY <1>2, <2>1, <2>2 DEF Tick, TypeOK, channel, clients
<1>3. CASE Activate
  <2>1. Unrelated
    BY <1>3, ActivateUnrelated
  <2> QED
    BY <1>3, <2>1 DEF Activate, TypeOK, Unrelated, clients
<1>4. CASE MonitorWifi
  <2>1. left' \in 0 .. Budget
    BY <1>4, PayType DEF MonitorWifi
  <2> QED
    BY <1>4, <2>1, MonitorEffect DEF MonitorWifi, TypeOK, clients
<1>5. CASE Notify
  <2>1. emitter' \in [generation : Nat, warned : Nat]
    BY <1>5, NotifyEffect
  <2> QED
    BY <1>5, <2>1 DEF Notify, TypeOK, clients
<1>6. ASSUME NEW e \in Emitted, Emit(e)
      PROVE  TypeOK'
  <2>1. left' \in 0 .. Budget
    BY <1>6, PayType DEF Emit
  <2> QED
    BY <1>6, <2>1, EmitEffect DEF Emit, TypeOK, clients
<1>7. CASE UNCHANGED vars
  BY <1>7 DEF TypeOK, vars, channel, clients
<1> QED
  BY <1>1, <1>2, <1>3, <1>4, <1>5, <1>6, <1>7 DEF Next

-----------------------------------------------------------------------------
(* The accounting of requests. *)

\* Session d is as it was, for its requests.
Apart(d) ==
    /\ sess'[d].state = sess[d].state /\ pending'[d] = pending[d]
    /\ asked'[d] = asked[d] /\ answered'[d] = answered[d]

LEMMA ApartOK == ASSUME NEW d \in Session PROVE SessionOK(d) /\ Apart(d) => SessionOK(d)'
<1> SUFFICES ASSUME SessionOK(d), Apart(d) PROVE SessionOK(d)'
  OBVIOUS
<1>1. Waiting(d)' = Waiting(d) /\ pending_ids(d)' = pending_ids(d)
  BY DEF Apart, Waiting, pending_ids
<1>2. d \in Open' <=> d \in Open
  BY DEF Apart, Open
<1> QED
  BY <1>1, <1>2 DEF SessionOK, FrameOK, Apart

\* One request of an open session moves from a state in which it is pending to another
\* one, and nothing is asked or answered.
LEMMA MoveOK ==
    ASSUME NEW c \in Session, NEW i \in RequestId, NEW k \in TaskState \ {"none"}
    PROVE  /\ TypeOK /\ SessionOK(c) /\ UNCHANGED <<sess, asked, answered>>
           /\ pending[c][i] \notin {"none", "stuck"}
           /\ pending' = [pending EXCEPT ![c][i] = k]
           => SessionOK(c)'
<1> SUFFICES ASSUME TypeOK, SessionOK(c), UNCHANGED <<sess, asked, answered>>,
                    pending[c][i] \notin {"none", "stuck"},
                    pending' = [pending EXCEPT ![c][i] = k]
             PROVE  SessionOK(c)'
  OBVIOUS
<1>1. pending_ids(c)' = pending_ids(c)
  BY DEF pending_ids, TypeOK
<1>2. Waiting(c)' = IF k = "stuck" THEN Waiting(c) \ {i} ELSE Waiting(c)
  BY DEF Waiting, TypeOK
<1>3. c \in Open' <=> c \in Open
  BY DEF Open
<1>4. CASE c \notin Open
  BY <1>1, <1>3, <1>4 DEF SessionOK, FrameOK
<1>5. CASE c \in Open
  <2>1. IsFiniteSet(Waiting(c)) /\ Cardinality(Waiting(c)) <= MAX_PENDING_REQUESTS_PER_CLIENT
    BY <1>5 DEF SessionOK
  <2>2. /\ IsFiniteSet(Waiting(c) \ {i})
        /\ Cardinality(Waiting(c) \ {i}) <= MAX_PENDING_REQUESTS_PER_CLIENT
    <3>1. /\ IsFiniteSet(Waiting(c) \ {i})
          /\ Cardinality(Waiting(c) \ {i})
               = IF i \in Waiting(c) THEN Cardinality(Waiting(c)) - 1 ELSE Cardinality(Waiting(c))
      BY <2>1, FS_RemoveElement
    <3>2. Cardinality(Waiting(c)) \in Nat
      BY <2>1, FS_CardinalityType
    <3> QED
      BY <2>1, <3>1, <3>2, IpcAssumption
  <2> QED
    BY <1>1, <1>2, <1>3, <2>1, <2>2 DEF SessionOK, FrameOK
<1> QED
  BY <1>4, <1>5

\* A request of a session that is gone moves: nobody counts.
LEMMA UnattendedOK ==
    ASSUME NEW c \in Session, NEW i \in RequestId, NEW k \in TaskState
    PROVE  /\ TypeOK /\ SessionOK(c) /\ UNCHANGED <<sess, asked, answered>>
           /\ c \notin Open /\ pending[c][i] # "none"
           /\ pending' = [pending EXCEPT ![c][i] = k]
           => SessionOK(c)'
<1> SUFFICES ASSUME TypeOK, SessionOK(c), UNCHANGED <<sess, asked, answered>>,
                    c \notin Open, pending[c][i] # "none",
                    pending' = [pending EXCEPT ![c][i] = k]
             PROVE  SessionOK(c)'
  OBVIOUS
<1>1. c \notin Open'
  BY DEF Open
<1>2. sess'[c].state # "new"
  BY DEF SessionOK, pending_ids
<1> QED
  BY <1>1, <1>2 DEF SessionOK, FrameOK

\* A frame that is answered at once.
LEMMA ReplyOK ==
    ASSUME NEW c \in Session, NEW i \in RequestId
    PROVE  TypeOK /\ SessionOK(c) /\ sess'[c].state = sess[c].state /\ Reply(c, i) => SessionOK(c)'
<1> SUFFICES ASSUME TypeOK, SessionOK(c), sess'[c].state = sess[c].state, Reply(c, i)
             PROVE  SessionOK(c)'
  OBVIOUS
<1>1. Waiting(c)' = Waiting(c) /\ pending_ids(c)' = pending_ids(c)
  BY DEF Reply, Waiting, pending_ids
<1>2. c \in Open' <=> c \in Open
  BY DEF Open
<1>3. ASSUME NEW j \in RequestId PROVE FrameOK(c, j)'
  <2>1. asked[c][j] \in Nat /\ answered[c][j] \in Nat
    BY DEF TypeOK
  <2>2. \/ asked'[c][j] = asked[c][j] + 1 /\ answered'[c][j] = answered[c][j] + 1
        \/ asked'[c][j] = asked[c][j] /\ answered'[c][j] = answered[c][j]
    BY DEF Reply, TypeOK
  <2>3. FrameOK(c, j)
    BY DEF SessionOK
  <2> QED
    BY <1>1, <1>2, <2>1, <2>2, <2>3 DEF FrameOK
<1> QED
  BY <1>1, <1>2, <1>3 DEF SessionOK

\* A request is admitted below the limit, and under an id that is not pending.
LEMMA AdmitOK ==
    ASSUME NEW c \in Session, NEW i \in RequestId, NEW kind \in {"read", "op"}
    PROVE  /\ TypeOK /\ SessionOK(c) /\ c \in Open /\ UNCHANGED <<sess, answered>>
           /\ ~(Cardinality(Waiting(c)) >= MAX_PENDING_REQUESTS_PER_CLIENT)
           /\ i \notin pending_ids(c)
           /\ pending' = [pending EXCEPT ![c][i] = kind]
           /\ asked' = [asked EXCEPT ![c][i] = @ + 1]
           => SessionOK(c)'
<1> SUFFICES ASSUME TypeOK, SessionOK(c), c \in Open, UNCHANGED <<sess, answered>>,
                    ~(Cardinality(Waiting(c)) >= MAX_PENDING_REQUESTS_PER_CLIENT),
                    i \notin pending_ids(c),
                    pending' = [pending EXCEPT ![c][i] = kind],
                    asked' = [asked EXCEPT ![c][i] = @ + 1]
             PROVE  SessionOK(c)'
  OBVIOUS
<1>1. Waiting(c)' = Waiting(c) \cup {i} /\ pending_ids(c)' = pending_ids(c) \cup {i}
  BY DEF Waiting, pending_ids, TypeOK
<1>2. c \in Open' /\ sess'[c].state # "new"
  BY DEF Open
<1>3. IsFiniteSet(Waiting(c)) /\ Cardinality(Waiting(c)) \in Nat
  BY FS_CardinalityType DEF SessionOK
<1>4. /\ IsFiniteSet(Waiting(c) \cup {i})
      /\ Cardinality(Waiting(c) \cup {i})
           = IF i \in Waiting(c) THEN Cardinality(Waiting(c)) ELSE Cardinality(Waiting(c)) + 1
  BY <1>3, FS_AddElement
<1>5. Cardinality(Waiting(c) \cup {i}) <= MAX_PENDING_REQUESTS_PER_CLIENT
  BY <1>3, <1>4, IpcAssumption
<1>6. ASSUME NEW j \in RequestId PROVE FrameOK(c, j)'
  <2>1. asked[c][j] \in Nat /\ answered[c][j] \in Nat
    BY DEF TypeOK
  <2>2. asked'[c][j] = IF j = i THEN asked[c][j] + 1 ELSE asked[c][j]
    BY DEF TypeOK
  <2>3. FrameOK(c, j)
    BY DEF SessionOK
  <2> QED
    BY <1>1, <1>2, <2>1, <2>2, <2>3 DEF FrameOK
<1> QED
  BY <1>1, <1>2, <1>4, <1>5, <1>6 DEF SessionOK

\* The answer of a task is sent, and its id is free again.
LEMMA AnswerOK ==
    ASSUME NEW c \in Session, NEW i \in RequestId
    PROVE  /\ TypeOK /\ SessionOK(c) /\ c \in Open /\ UNCHANGED <<sess, asked>>
           /\ pending[c][i] = "done"
           /\ pending' = [pending EXCEPT ![c][i] = "none"]
           /\ answered' = [answered EXCEPT ![c][i] = @ + 1]
           => SessionOK(c)'
<1> SUFFICES ASSUME TypeOK, SessionOK(c), c \in Open, UNCHANGED <<sess, asked>>,
                    pending[c][i] = "done",
                    pending' = [pending EXCEPT ![c][i] = "none"],
                    answered' = [answered EXCEPT ![c][i] = @ + 1]
             PROVE  SessionOK(c)'
  OBVIOUS
<1>1. /\ Waiting(c)' = Waiting(c) \ {i} /\ i \in Waiting(c)
      /\ pending_ids(c)' = pending_ids(c) \ {i} /\ i \in pending_ids(c)
  BY DEF Waiting, pending_ids, TypeOK
<1>2. c \in Open' /\ sess'[c].state # "new"
  BY DEF Open
<1>3. IsFiniteSet(Waiting(c)) /\ Cardinality(Waiting(c)) \in Nat
      /\ Cardinality(Waiting(c)) <= MAX_PENDING_REQUESTS_PER_CLIENT
  BY FS_CardinalityType DEF SessionOK
<1>4. IsFiniteSet(Waiting(c) \ {i}) /\ Cardinality(Waiting(c) \ {i}) = Cardinality(Waiting(c)) - 1
  BY <1>1, <1>3, FS_RemoveElement
<1>5. Cardinality(Waiting(c) \ {i}) <= MAX_PENDING_REQUESTS_PER_CLIENT
  BY <1>3, <1>4, IpcAssumption
<1>6. ASSUME NEW j \in RequestId PROVE FrameOK(c, j)'
  <2>1. asked[c][j] \in Nat /\ answered[c][j] \in Nat
    BY DEF TypeOK
  <2>2. answered'[c][j] = IF j = i THEN answered[c][j] + 1 ELSE answered[c][j]
    BY DEF TypeOK
  <2>3. FrameOK(c, j)
    BY DEF SessionOK
  <2> QED
    BY <1>1, <1>2, <2>1, <2>2, <2>3 DEF FrameOK
<1> QED
  BY <1>1, <1>2, <1>4, <1>5, <1>6 DEF SessionOK

LEMMA TaskFrames ==
    ASSUME NEW c \in Session, NEW i \in RequestId
    PROVE  /\ TypeOK /\ SessionOK(c)
           /\ Begin(c, i) \/ SetPreferences(c, i) \/ Finish(c, i) \/ Panic(c, i)
           => SessionOK(c)'
<1> SUFFICES ASSUME TypeOK, SessionOK(c),
                    Begin(c, i) \/ SetPreferences(c, i) \/ Finish(c, i) \/ Panic(c, i)
             PROVE  SessionOK(c)'
  OBVIOUS
<1>1. UNCHANGED <<sess, asked, answered>>
  BY DEF Begin, SetPreferences, Finish, Panic, tasks_unchanged
<1>2. \/ pending' = pending
      \/ /\ pending[c][i] \in {"op", "active", "read"}
         /\ \E k \in {"active", Over(c, "done"), Over(c, "panicked")} :
               pending' = [pending EXCEPT ![c][i] = k]
  BY DEF Begin, SetPreferences, Finish, Panic, At
<1>3. CASE pending' = pending
  BY <1>1, <1>3, ApartOK DEF Apart
<1>4. ASSUME NEW k \in {"active", Over(c, "done"), Over(c, "panicked")},
             pending[c][i] \in {"op", "active", "read"},
             pending' = [pending EXCEPT ![c][i] = k]
      PROVE  SessionOK(c)'
  <2>1. CASE c \in Open
    <3>1. k \in TaskState \ {"none"}
      BY <2>1 DEF Over, TaskState
    <3> QED
      BY <1>1, <1>4, <3>1, MoveOK
  <2>2. CASE c \notin Open
    <3>1. k \in TaskState
      BY <2>2 DEF Over, TaskState
    <3> QED
      BY <1>1, <1>4, <2>2, <3>1, UnattendedOK
  <2> QED
    BY <2>1, <2>2
<1> QED
  BY <1>2, <1>3, <1>4

LEMMA IncomingFrames ==
    ASSUME NEW c \in Session
    PROVE  TypeOK /\ SessionOK(c) /\ Incoming(c) => SessionOK(c)'
<1> SUFFICES ASSUME TypeOK, SessionOK(c), Incoming(c) PROVE SessionOK(c)'
  OBVIOUS
<1>0. c \in Open
  BY DEF Incoming
<1>1. CASE FrameUnreadable
  BY <1>1, ApartOK DEF FrameUnreadable, Apart
<1>2. ASSUME NEW i \in RequestId, FrameRefused(c, i) \/ FrameHello(c, i) \/ FrameStateGet(c, i)
      PROVE  SessionOK(c)'
  <2>1. Reply(c, i)
    BY <1>2 DEF FrameRefused, FrameHello, FrameStateGet
  <2>2. sess'[c].state = sess[c].state
    BY <1>2 DEF FrameRefused, FrameHello, FrameStateGet, TypeOK
  <2> QED
    BY <2>1, <2>2, ReplyOK
<1>3. ASSUME NEW i \in RequestId, NEW kind \in {"read", "op"}, FrameRequest(c, i, kind)
      PROVE  SessionOK(c)'
  <2>1. sess' = sess
    BY <1>3 DEF FrameRequest
  <2>2. CASE Reply(c, i)
    BY <2>1, <2>2, ReplyOK
  <2>3. CASE /\ ~(Cardinality(Waiting(c)) >= MAX_PENDING_REQUESTS_PER_CLIENT)
             /\ i \notin pending_ids(c)
             /\ pending' = [pending EXCEPT ![c][i] = kind]
             /\ asked' = [asked EXCEPT ![c][i] = @ + 1]
             /\ UNCHANGED answered
    BY <1>0, <2>1, <2>3, AdmitOK
  <2> QED
    BY <1>3, <2>2, <2>3 DEF FrameRequest
<1> QED
  BY <1>1, <1>2, <1>3 DEF Incoming

\* What a step of session c may change of another one: nothing.
LEMMA OthersApart ==
    ASSUME TypeOK, NEW c \in Session, SessionNext(c), NEW d \in Session \ {c}
    PROVE  Apart(d)
<1>1. sess'[d] = sess[d]
  BY DEF SessionNext, Accept, End, Incoming, Changed, Completed, Begin, SetPreferences, Finish,
         Panic, tasks_unchanged, FrameUnreadable, FrameRefused, FrameHello, FrameStateGet,
         FrameRequest, TypeOK
<1>2. CASE Accept(c) \/ Changed(c)
  BY <1>1, <1>2 DEF Accept, Changed, Apart
<1>3. CASE End(c)
  BY <1>1, <1>3 DEF End, Apart, TypeOK
<1>4. CASE Incoming(c)
  BY <1>1, <1>4 DEF Incoming, FrameUnreadable, FrameRefused, FrameHello, FrameStateGet,
                    FrameRequest, Reply, Apart, TypeOK
<1>5. CASE \E i \in RequestId : Completed(c, i)
  BY <1>1, <1>5 DEF Completed, Apart, TypeOK
<1>6. CASE \E i \in RequestId : Begin(c, i) \/ SetPreferences(c, i) \/ Finish(c, i) \/ Panic(c, i)
  BY <1>1, <1>6 DEF Begin, SetPreferences, Finish, Panic, At, tasks_unchanged, Apart, TypeOK
<1> QED
  BY <1>2, <1>3, <1>4, <1>5, <1>6 DEF SessionNext

LEMMA SessionFrames ==
    ASSUME NEW c \in Session
    PROVE  TypeOK /\ SessionOK(c) /\ SessionNext(c) => SessionOK(c)'
<1> SUFFICES ASSUME TypeOK, SessionOK(c), SessionNext(c) PROVE SessionOK(c)'
  OBVIOUS
<1>1. CASE Accept(c)
  <2>1. UNCHANGED <<pending, asked, answered>> /\ sess'[c].state = "open"
    BY <1>1 DEF Accept, TypeOK
  <2>2. pending_ids(c) = {} /\ c \notin Open
    BY <1>1 DEF Accept, SessionOK, Open
  <2>3. pending_ids(c)' = {} /\ Waiting(c)' = {}
    BY <2>1, <2>2 DEF pending_ids, Waiting
  <2>4. IsFiniteSet({}) /\ Cardinality({}) = 0
    BY FS_EmptySet
  <2> QED
    BY <2>1, <2>2, <2>3, <2>4, IpcAssumption DEF SessionOK, FrameOK
<1>2. CASE End(c)
  <2>1. sess'[c].state = "closed" /\ c \notin Open'
    BY <1>2 DEF End, TypeOK, Open
  <2>2. \A i \in RequestId : asked'[c][i] = 0 /\ answered'[c][i] = 0
    BY <1>2 DEF End, TypeOK, NoFrames
  <2> QED
    BY <2>1, <2>2 DEF SessionOK, FrameOK
<1>3. CASE Incoming(c)
  BY <1>3, IncomingFrames
<1>4. CASE Changed(c)
  BY <1>4, ApartOK DEF Changed, Apart, TypeOK
<1>5. ASSUME NEW i \in RequestId, Completed(c, i)
      PROVE  SessionOK(c)'
  <2>1. c \in Open /\ UNCHANGED <<sess, asked>>
    BY <1>5 DEF Completed
  <2>2. CASE /\ pending[c][i] = "done"
             /\ pending' = [pending EXCEPT ![c][i] = "none"]
             /\ answered' = [answered EXCEPT ![c][i] = @ + 1]
    BY <2>1, <2>2, AnswerOK
  <2>3. CASE /\ pending[c][i] = "panicked"
             /\ pending' = [pending EXCEPT ![c][i] = "stuck"]
             /\ UNCHANGED answered
    <3>1. "stuck" \in TaskState \ {"none"}
      BY DEF TaskState
    <3> QED
      BY <2>1, <2>3, <3>1, MoveOK
  <2> QED
    BY <1>5, <2>2, <2>3 DEF Completed
<1> QED
  BY <1>1, <1>2, <1>3, <1>4, <1>5, TaskFrames DEF SessionNext

LEMMA NextFrames == TypeOK /\ FramesOK /\ [Next]_vars => FramesOK'
<1> SUFFICES ASSUME TypeOK, FramesOK, [Next]_vars, NEW d \in Session
             PROVE  SessionOK(d)'
  BY DEF FramesOK
<1>1. SessionOK(d)
  BY DEF FramesOK
<1>2. ASSUME NEW c \in Session, SessionNext(c)
      PROVE  SessionOK(d)'
  <2>1. CASE c = d
    BY <1>1, <1>2, <2>1, SessionFrames
  <2>2. CASE c # d
    BY <1>1, <1>2, <2>2, OthersApart, ApartOK
  <2> QED
    BY <2>1, <2>2
<1>3. CASE UNCHANGED clients
  BY <1>1, <1>3, ApartOK DEF clients, Apart
<1>4. \/ \E c \in Session : SessionNext(c)
      \/ UNCHANGED clients
  BY DEF Next, Tick, Activate, MonitorWifi, Notify, Emit, vars
<1> QED
  BY <1>2, <1>3, <1>4

-----------------------------------------------------------------------------
(* The clock of the idle exit. *)

LEMMA NextIdle == TypeOK /\ IdleOK /\ [Next]_vars => IdleOK'
<1> SUFFICES ASSUME TypeOK, IdleOK, [Next]_vars PROVE IdleOK'
  OBVIOUS
<1>1. idle \in Nat /\ quiet \in Nat /\ IDLE_EXIT_AFTER \in Nat
  BY IpcAssumption DEF TypeOK
<1>2. ASSUME NEW c \in Session, SessionNext(c)
      PROVE  IdleOK'
  <2>1. CASE Accept(c)
    BY <1>1, <2>1 DEF Accept, IdleOK
  <2>2. CASE End(c)
    <3>1. idle = 0 /\ idle' = idle /\ quiet' = 0
      BY <2>2 DEF End, IdleOK
    <3> QED
      BY <1>1, <3>1 DEF IdleOK
  <2>3. CASE ~Accept(c) /\ ~End(c)
    <3>1. UNCHANGED <<idle, quiet, alive>>
      BY <1>2, <2>3 DEF SessionNext, Incoming, Changed, Completed, Begin, SetPreferences, Finish,
                        Panic, tasks_unchanged
    <3>2. \A d \in Session : sess'[d].state = sess[d].state
      <4>1. CASE Incoming(c)
        <5>1. \/ sess' = sess
              \/ sess' = [sess EXCEPT ![c].hello = TRUE, ![c].last = snap.revision]
              \/ sess' = [sess EXCEPT ![c].last = snap.revision]
          BY <4>1 DEF Incoming, FrameUnreadable, FrameRefused, FrameHello, FrameStateGet,
                      FrameRequest
        <5>2. CASE sess' = [sess EXCEPT ![c].hello = TRUE, ![c].last = snap.revision]
          BY <5>2 DEF TypeOK
        <5>3. CASE sess' = [sess EXCEPT ![c].last = snap.revision]
          BY <5>3 DEF TypeOK
        <5> QED
          BY <5>1, <5>2, <5>3
      <4>2. CASE Changed(c)
        BY <4>2 DEF Changed, TypeOK
      <4>3. CASE ~Incoming(c) /\ ~Changed(c)
        BY <1>2, <2>3, <4>3 DEF SessionNext, Completed, Begin, SetPreferences, Finish, Panic,
                                tasks_unchanged
      <4> QED
        BY <4>1, <4>2, <4>3
    <3>3. Open' = Open
      BY <3>2 DEF Open
    <3> QED
      BY <3>1, <3>3 DEF IdleOK
  <2> QED
    BY <2>1, <2>2, <2>3
<1>3. CASE Tick
  <2>1. Open' = Open
    BY <1>3 DEF Tick, clients, Open
  <2>2. CASE Open # {} \/ should_stay_resident
    <3>1. idle' = 0 /\ quiet' \in Nat
      BY <1>1, <1>3, <2>2 DEF Tick
    <3> QED
      BY <1>1, <3>1 DEF IdleOK
  <2>3. CASE Open = {} /\ ~should_stay_resident
    <3>1. /\ idle' = idle + 1 /\ alive' = (idle < IDLE_EXIT_AFTER)
          /\ quiet' = IF quiet <= IDLE_EXIT_AFTER THEN quiet + 1 ELSE quiet
      BY <1>3, <2>3 DEF Tick
    <3>2. idle <= quiet /\ idle <= IDLE_EXIT_AFTER
      BY <1>3 DEF Tick, IdleOK
    <3>3. idle' <= quiet'
      BY <1>1, <3>1, <3>2
    <3>4. alive' => idle' <= IDLE_EXIT_AFTER
      <4>1. idle < IDLE_EXIT_AFTER => idle' <= IDLE_EXIT_AFTER
        BY <1>1, <3>1
      <4>2. alive' => idle < IDLE_EXIT_AFTER
        BY <3>1, Zenon
      <4> QED
        BY <4>1, <4>2, Zenon
    <3> QED
      BY <2>1, <2>3, <3>3, <3>4 DEF IdleOK
  <2> QED
    BY <2>2, <2>3
<1>4. CASE Activate \/ MonitorWifi \/ Notify \/ (\E e \in Emitted : Emit(e)) \/ UNCHANGED vars
  <2>1. UNCHANGED <<idle, quiet, alive, sess>>
    BY <1>4 DEF Activate, MonitorWifi, Notify, Emit, vars, clients
  <2> QED
    BY <2>1 DEF IdleOK, Open
<1> QED
  BY <1>2, <1>3, <1>4 DEF Next

-----------------------------------------------------------------------------
(* The theorems. *)

LEMMA InitOK == Init => IInv
<1> SUFFICES ASSUME Init PROVE IInv
  OBVIOUS
<1>1. PICK start \in BOOLEAN : snap = InitialSnapshot(start)
  BY DEF Init
<1>2. snap \in Snapshot
  BY <1>1 DEF InitialSnapshot, Snapshot, ConnectionStatus
<1>3. /\ snap.wifi.generation = 0 /\ snap.wifi.connected = FALSE /\ snap.wifi.insecure = FALSE
      /\ snap.status = "Unknown" /\ snap.since = 0
  BY <1>1 DEF InitialSnapshot
<1>4. emitter = [generation |-> 0, warned |-> 0]
  BY <1>3 DEF Init, NewEmitter
<1>5. TypeOK
  BY <1>2, <1>4, IpcAssumption DEF Init, TypeOK, NoFrames, TaskState
<1>6. \A c \in Session : pending_ids(c) = {} /\ c \notin Open
  BY DEF Init, pending_ids, Open
<1>7. FramesOK
  BY <1>6 DEF Init, NoFrames, FramesOK, SessionOK, FrameOK
<1>8. ClockOK
  BY <1>3 DEF Init, ClockOK, ClockIsOfLastTunnel, HistoryOK
<1>9. WifiOK
  <2>1. wifi = NoWifi /\ NoWifi.secure = TRUE
    BY DEF Init, NoWifi
  <2> QED
    BY <1>3, <2>1 DEF WifiOK
<1>10. EmitterOK
  BY <1>3, <1>4 DEF EmitterOK, Warranted, Dangerous
<1>11. IdleOK
  BY <1>6, IpcAssumption DEF IdleOK, Init
<1> QED
  BY <1>5, <1>7, <1>8, <1>9, <1>10, <1>11 DEF IInv

\* The inductive invariant of the server and the channel holds in every reachable
\* state.
THEOREM InvariantHolds == Spec => []IInv
<1>1. IInv /\ [Next]_vars => IInv'
  BY NextType, NextFrames, NextChannel, NextIdle DEF IInv
<1> QED
  BY <1>1, InitOK, PTL DEF Spec

\* Every frame that an open session read is answered once or still pending, and no
\* session has more requests pending than its limit, whatever the ids.
THEOREM FramesAnswered == Spec => []FramesAreAnsweredOnce
<1>1. IInv => FramesAreAnsweredOnce
  BY DEF IInv, FramesOK, SessionOK, FrameOK, FramesAreAnsweredOnce, Open
<1> QED
  BY <1>1, InvariantHolds, PTL

\* The clock clients show is that of the last tunnel reported, whatever the backend
\* reports, in whatever order and however often, and whatever the status is now.
THEOREM ClockFollowsReports == Spec => []ClockIsOfLastTunnel
<1>1. IInv => ClockIsOfLastTunnel
  BY DEF IInv, ClockOK
<1> QED
  BY <1>1, InvariantHolds, PTL

\* The user was warned of the insecure network the machine is on unprotected, once the
\* emitter has seen the last snapshot.
THEOREM UserWasWarned == Spec => []InsecureWifiIsWarnedOf
<1>1. IInv => InsecureWifiIsWarnedOf
  BY DEF IInv, EmitterOK, Warranted, InsecureWifiIsWarnedOf
<1> QED
  BY <1>1, InvariantHolds, PTL

\* serve returns only after a whole grace period without clients, and with nothing to
\* stay resident for.
THEOREM ExitTakesGrace == Spec => ExitsAfterGrace
<1>1. ASSUME IInv, Next, alive, ~alive'
      PROVE  /\ quiet >= IDLE_EXIT_AFTER
             /\ Open = {} /\ snap.active = {}
             /\ snap.status \notin {"Connecting", "Connected"}
  <2>1. Tick
    BY <1>1 DEF Next, SessionNext, Accept, End, Incoming, Changed, Completed, Begin,
                SetPreferences, Finish, Panic, tasks_unchanged, Activate, MonitorWifi, Notify, Emit
  <2>2. Open = {} /\ ~should_stay_resident /\ ~(idle < IDLE_EXIT_AFTER)
    BY <1>1, <2>1 DEF Tick
  <2>3. idle <= quiet /\ idle \in Nat /\ quiet \in Nat /\ IDLE_EXIT_AFTER \in Nat
    BY <1>1, IpcAssumption DEF IInv, IdleOK, TypeOK
  <2> QED
    BY <2>2, <2>3 DEF should_stay_resident
<1>2. IInv /\ [Next]_vars =>
        [alive /\ ~alive' => /\ quiet >= IDLE_EXIT_AFTER
                             /\ Open = {} /\ snap.active = {}
                             /\ snap.status \notin {"Connecting", "Connected"}]_vars
  BY <1>1
<1> QED
  BY <1>2, InvariantHolds, PTL DEF Spec, ExitsAfterGrace
=============================================================================
