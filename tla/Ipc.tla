--------------------------------- MODULE Ipc --------------------------------
(***************************************************************************)
(* The agent as its clients see it: the socket server with its idle exit   *)
(* (agent/src/server.rs), the sessions (agent/src/session.rs) with the     *)
(* tasks of their requests (agent/src/backend.rs, protocol/src/lib.rs),    *)
(* and the watch channel that carries the snapshot of module StateReducer  *)
(* to the sessions and to the emitter of module Notifications.             *)
(*                                                                         *)
(* A session is never reused: a client that comes back is a new session.   *)
(* The text of a frame is abstracted to its kind and its id.               *)
(***************************************************************************)
EXTENDS Notifications, FiniteSets

CONSTANTS Session, RequestId,
          Network,                          \* the Wi-Fi networks
          Emitted,                          \* the events the backend emits
          MAX_PENDING_REQUESTS_PER_CLIENT,  \* 32 in the code
          IDLE_EXIT_AFTER,                  \* in ticks of a second: 30 in the code
          Budget                            \* bound on what comes from outside

ASSUME IpcAssumption ==
    /\ {MAX_PENDING_REQUESTS_PER_CLIENT, IDLE_EXIT_AFTER} \subseteq Nat \ {0}
    /\ Budget \in Nat
    /\ Emitted \subseteq Event
    /\ \A n \in Network : n.secure \in BOOLEAN
    /\ "notifier" \notin Session

VARIABLES snap,       \* the snapshot in the watch channel
          unseen,     \* the receivers that have not seen the last send_modify
          sess,       \* each session
          pending,    \* what became of the request of each id, in each session
          idle,       \* idle_since: the ticks since then, plus one; 0 is None
          alive,      \* serve has not returned
          activating, \* the account whose scope the reducer is about to activate
          wifi,       \* monitor_wifi: previous
          emitter,    \* the NotificationEmitter
          left,       \* what is left of the budget
          asked,      \* the frames with an id that a session read ...
          answered,   \* ... and the answers with that id that it sent
          quiet,      \* the ticks since the last session ended
          reports     \* what was ever reported of the connection, and when

channel == <<snap, unseen>>
clients == <<sess, pending, asked, answered>>
vars    == <<channel, clients, idle, alive, activating, wifi, emitter, left, quiet, reports>>

Notifier == "notifier"
Receiver == Session \cup {Notifier}

Open == {c \in Session : sess[c].state = "open"}

Pay == alive /\ left > 0 /\ left' = left - 1

\* What a task of a session is at: not admitted, spawned, an active operation,
\* ended, ended by a panic, or a panic whose id was never taken out of
\* pending_ids.
TaskState == {"none", "read", "op", "active", "done", "panicked", "stuck"}

Waiting(c)  == {i \in RequestId : pending[c][i] \notin {"none", "stuck"}}    \* pending
pending_ids(c) == {i \in RequestId : pending[c][i] # "none"}

NoFrames == [i \in RequestId |-> 0]

Init ==
    /\ \E start \in BOOLEAN : snap = InitialSnapshot(start)
    /\ unseen = {}
    /\ sess = [c \in Session |-> [state |-> "new", hello |-> FALSE, last |-> 0]]
    /\ pending = [c \in Session |-> [i \in RequestId |-> "none"]]
    /\ idle = 0 /\ alive = TRUE
    /\ activating = NoAccount
    /\ wifi = NoWifi
    /\ emitter = NewEmitter(snap)
    /\ left = Budget
    /\ asked = [c \in Session |-> NoFrames]
    /\ answered = asked
    /\ quiet = 0 /\ reports = {}

\* Variant for a mutant: receivers are not woken.
send_modifySilently(s) ==
    /\ snap' = s
    /\ UNCHANGED unseen

send_modify(s) ==
    /\ snap' = s
    /\ unseen' = Receiver

-----------------------------------------------------------------------------
(* server.rs *)

should_stay_resident ==
    \/ snap.start
    \/ snap.status \in {"Connecting", "Connected"}
    \/ snap.active # {}

\* Variant for a mutant: a new client leaves the clock running.
AcceptStillIdle(c) ==
    /\ alive
    /\ sess[c].state = "new"
    /\ sess' = [sess EXCEPT ![c].state = "open"]
    /\ UNCHANGED <<channel, pending, asked, answered, idle, alive, activating, wifi, emitter,
                   left, quiet, reports>>

Accept(c) ==
    /\ alive
    /\ sess[c].state = "new"
    /\ sess' = [sess EXCEPT ![c].state = "open"]
    /\ idle' = 0
    /\ UNCHANGED <<channel, pending, asked, answered, alive, activating, wifi, emitter, left,
                   quiet, reports>>

\* The session returns: its peer closed the stream, sent a line that is too
\* long, or cannot be sent to.  The tasks of its requests go on unattended.
End(c) ==
    /\ alive /\ c \in Open
    /\ sess' = [sess EXCEPT ![c] = [state |-> "closed", hello |-> FALSE, last |-> 0]]
    /\ pending' = [pending EXCEPT ![c] = [i \in RequestId |->
                      IF @[i] \in {"done", "panicked", "stuck"} THEN "none" ELSE @[i]]]
    /\ asked' = [asked EXCEPT ![c] = NoFrames] /\ answered' = [answered EXCEPT ![c] = NoFrames]
    /\ quiet' = 0
    /\ UNCHANGED <<channel, idle, alive, activating, wifi, emitter, left, reports>>

Tick ==
    /\ alive
    /\ IF Open # {} \/ should_stay_resident
         THEN idle' = 0 /\ alive' = TRUE
         ELSE /\ idle' = idle + 1
              /\ alive' = (idle < IDLE_EXIT_AFTER)
    /\ quiet' = IF Open # {} THEN 0 ELSE IF quiet <= IDLE_EXIT_AFTER THEN quiet + 1 ELSE quiet
    /\ UNCHANGED <<channel, clients, activating, wifi, emitter, left, reports>>

-----------------------------------------------------------------------------
(* session.rs: the branch of incoming frames *)

\* A frame with an id that is answered at once.
Reply(c, i) ==
    /\ asked'    = [asked    EXCEPT ![c][i] = @ + 1]
    /\ answered' = [answered EXCEPT ![c][i] = @ + 1]
    /\ UNCHANGED pending

\* Not JSON, or an id that is empty or too long: the answer has no id.
FrameUnreadable == UNCHANGED <<sess, unseen, pending, asked, answered>>

\* Wrong type or version, a request before hello, a second or invalid hello,
\* an unknown method.
FrameRefused(c, i) == Reply(c, i) /\ UNCHANGED <<sess, unseen>>

\* The answer, then state.snapshot.
FrameHello(c, i) ==
    /\ ~sess[c].hello
    /\ sess' = [sess EXCEPT ![c].hello = TRUE, ![c].last = snap.revision]
    /\ unseen' = unseen \ {c}
    /\ Reply(c, i)

\* state.get borrows the snapshot without marking it seen.
FrameStateGet(c, i) ==
    /\ sess[c].hello
    /\ sess' = [sess EXCEPT ![c].last = snap.revision]
    /\ Reply(c, i) /\ UNCHANGED unseen

\* Variant for a mutant: an id that is pending is taken again.
FrameRequestTwice(c, i, kind) ==
    /\ sess[c].hello
    /\ IF Cardinality(Waiting(c)) >= MAX_PENDING_REQUESTS_PER_CLIENT
         THEN Reply(c, i)
         ELSE /\ pending' = [pending EXCEPT ![c][i] = kind]
              /\ asked' = [asked EXCEPT ![c][i] = @ + 1]
              /\ UNCHANGED answered
    /\ UNCHANGED <<sess, unseen>>

\* A method of the backend or of the store: too many, a duplicate, or a task.
FrameRequest(c, i, kind) ==
    /\ sess[c].hello
    /\ IF \/ Cardinality(Waiting(c)) >= MAX_PENDING_REQUESTS_PER_CLIENT
          \/ i \in pending_ids(c)
         THEN Reply(c, i)
         ELSE /\ pending' = [pending EXCEPT ![c][i] = kind]
              /\ asked' = [asked EXCEPT ![c][i] = @ + 1]
              /\ UNCHANGED answered
    /\ UNCHANGED <<sess, unseen>>

Incoming(c) ==
    /\ Pay
    /\ c \in Open
    /\ \/ FrameUnreadable
       \/ \E i \in RequestId :
             \/ FrameRefused(c, i)
             \/ FrameHello(c, i)
             \/ FrameStateGet(c, i)
             \/ \E kind \in {"read", "op"} : FrameRequest(c, i, kind)
    /\ UNCHANGED <<snap, idle, alive, activating, wifi, emitter, quiet, reports>>

-----------------------------------------------------------------------------
(* session.rs: the branches of completed requests and of the channel *)

\* A task that panicked has no answer, and its id stays in pending_ids.
Completed(c, i) ==
    /\ alive /\ c \in Open
    /\ \/ /\ pending[c][i] = "done"
          /\ pending' = [pending EXCEPT ![c][i] = "none"]
          /\ answered' = [answered EXCEPT ![c][i] = @ + 1]
       \/ /\ pending[c][i] = "panicked"
          /\ pending' = [pending EXCEPT ![c][i] = "stuck"]
          /\ UNCHANGED answered
    /\ UNCHANGED <<channel, sess, asked, idle, alive, activating, wifi, emitter, left, quiet,
                   reports>>

\* state.changed: however many snapshots were published, the last one.
Changed(c) ==
    /\ alive /\ c \in Open
    /\ sess[c].hello /\ c \in unseen
    /\ sess' = [sess EXCEPT ![c].last = snap.revision]
    /\ unseen' = unseen \ {c}
    /\ UNCHANGED <<snap, pending, asked, answered, idle, alive, activating, wifi, emitter, left,
                   quiet, reports>>

-----------------------------------------------------------------------------
(* The tasks of requests: BackendHandle::request and StoreHandle::request.  *)
(* They do not know whether their session is still there.                  *)

At(c, i, state, next) == pending[c][i] = state /\ pending' = [pending EXCEPT ![c][i] = next]

\* Nobody takes the result of a task whose session is gone.
Over(c, how) == IF c \in Open THEN how ELSE "none"

tasks_unchanged == <<sess, asked, answered, idle, alive, activating, wifi, emitter, quiet, reports>>

\* begin: the operation is published, or refused.
Begin(c, i) ==
    /\ alive
    /\ \/ At(c, i, "op", "active") /\ send_modify(WithActive(snap, snap.active \cup {<<c, i>>}))
       \/ At(c, i, "op", Over(c, "done")) /\ snap.active # {} /\ UNCHANGED channel
    /\ UNCHANGED <<tasks_unchanged, left>>

\* preferences.set: the store saves and publishes inside its operation.
SetPreferences(c, i) ==
    /\ Pay
    /\ pending[c][i] = "active"
    /\ \E start, notify \in BOOLEAN :
          send_modify(Bumped([snap EXCEPT !.start = start, !.notify = notify]))
    /\ UNCHANGED <<pending, tasks_unchanged>>

\* finish, with an answer or with an error: there is one as well when the
\* reply was dropped.
Finish(c, i) ==
    /\ alive
    /\ \/ At(c, i, "active", Over(c, "done")) /\ send_modify(WithActive(snap, snap.active \ {<<c, i>>}))
       \/ At(c, i, "read", Over(c, "done")) /\ UNCHANGED channel
    /\ UNCHANGED <<tasks_unchanged, left>>

Panic(c, i) ==
    /\ Pay
    /\ At(c, i, "read", Over(c, "panicked"))
    /\ UNCHANGED <<channel, tasks_unchanged>>

-----------------------------------------------------------------------------
(* The other writers of the channel, and its other receiver *)

\* Events of accounts are published one at a time, under the session lock.
Emit(e) ==
    /\ Pay
    /\ e.name = "account" => activating = NoAccount
    /\ send_modify(apply_event(snap, e))
    /\ activating' = IF account_to_activate(e) = NoAccount THEN activating ELSE e.who
    /\ reports' = IF e.name = "connection"
                    THEN reports \cup {[at |-> snap.revision + 1, status |-> e.status]}
                    ELSE reports
    /\ UNCHANGED <<clients, idle, alive, wifi, emitter, quiet>>

\* store.activate_account, after the event is out; an error is ignored.
Activate ==
    /\ alive /\ activating # NoAccount
    /\ activating' = NoAccount
    /\ \/ /\ snap.scope # activating
          /\ send_modify(Bumped([snap EXCEPT !.scope = activating]))
       \/ UNCHANGED channel
    /\ UNCHANGED <<clients, idle, alive, wifi, emitter, left, quiet, reports>>

MonitorWifi ==
    /\ Pay
    /\ \/ \E network \in Network \cup {NoWifi} :
             /\ WifiNews(snap, network, network # wifi)
             /\ send_modify(WifiSeen(snap, network, network # wifi))
             /\ wifi' = network
       \/ /\ snap.wifi.known
          /\ send_modify(WifiLost(snap))
          /\ UNCHANGED wifi
    /\ UNCHANGED <<clients, idle, alive, activating, emitter, quiet, reports>>

\* notifications::run
Notify ==
    /\ alive /\ Notifier \in unseen
    /\ unseen' = unseen \ {Notifier}
    /\ emitter' = observe_network_security(emitter, snap, snap.notify)
    /\ UNCHANGED <<snap, clients, idle, alive, activating, wifi, left, quiet, reports>>

-----------------------------------------------------------------------------
SessionNext(c) ==
    \/ Accept(c) \/ End(c) \/ Incoming(c) \/ Changed(c)
    \/ \E i \in RequestId : \/ Completed(c, i) \/ Begin(c, i) \/ SetPreferences(c, i)
                            \/ Finish(c, i) \/ Panic(c, i)

Next ==
    \/ \E c \in Session : SessionNext(c)
    \/ Tick \/ Activate \/ MonitorWifi \/ Notify
    \/ \E e \in Emitted : Emit(e)

\* The agent's own tasks go on, and what they wait for answers: the handlers
\* of requests end (modules Connection and Account).
Fairness ==
    /\ WF_vars(Tick) /\ WF_vars(Notify) /\ WF_vars(Activate)
    /\ \A c \in Session :
          /\ WF_vars(Changed(c))
          /\ \A i \in RequestId : /\ WF_vars(Completed(c, i)) /\ WF_vars(Begin(c, i))
                                  /\ WF_vars(Finish(c, i))

Spec == Init /\ [][Next]_vars /\ Fairness

-----------------------------------------------------------------------------
(* Properties *)

Snapshot ==
    [revision : Nat, backend : BOOLEAN, location : BOOLEAN,
     account : [status : {"Restoring", "SignedOut", "SignedIn"}, who : Account \cup {NoAccount}],
     status : ConnectionStatus, since : Nat, conflicts : BOOLEAN, known : BOOLEAN,
     writes : BOOLEAN, start : BOOLEAN, notify : BOOLEAN, scope : Account \cup {NoAccount},
     wifi : [known : BOOLEAN, connected : BOOLEAN, insecure : BOOLEAN, generation : Nat],
     active : SUBSET (Session \X RequestId)]

\* Every variable has its type.
TypeOK ==
    /\ snap \in Snapshot
    /\ unseen \subseteq Receiver
    /\ sess \in [Session -> [state : {"new", "open", "closed"}, hello : BOOLEAN, last : Nat]]
    /\ pending \in [Session -> [RequestId -> TaskState]]
    /\ asked \in [Session -> [RequestId -> Nat]] /\ answered \in [Session -> [RequestId -> Nat]]
    /\ idle \in 0 .. IDLE_EXIT_AFTER + 1 /\ quiet \in 0 .. IDLE_EXIT_AFTER + 1
    /\ alive \in BOOLEAN
    /\ activating \in Account \cup {NoAccount}
    /\ wifi \in Network \cup {NoWifi}
    /\ emitter \in [generation : Nat, warned : Nat]
    /\ left \in 0 .. Budget /\ reports \subseteq [at : Nat, status : ConnectionStatus]

(* Every frame with an id that a session read is answered once, or its     *)
(* request is still pending (session.rs:283): a client never gets an answer*)
(* it did not ask for and never loses one to a duplicate id; only a task   *)
(* that panics keeps its id for good.  And no client has more requests     *)
(* pending than its limit.                                                 *)
FramesAreAnsweredOnce ==
    \A c \in Open :
        /\ Cardinality(Waiting(c)) <= MAX_PENDING_REQUESTS_PER_CLIENT
        /\ \A i \in RequestId :
              asked[c][i] = answered[c][i] + (IF i \in pending_ids(c) THEN 1 ELSE 0)

\* The report r began a tunnel: the tunnel reported before it, if any, was
\* reported to be something else than connected in between.
Began(r) ==
    /\ r.status = "Connected"
    /\ \A p \in reports :
          p.status = "Connected" /\ p.at < r.at
            => \E q \in reports : p.at < q.at /\ q.at < r.at /\ q.status # "Connected"

(* The clock that clients show (state_reducer.rs:545), whatever was        *)
(* reported, repeated or skipped so far and whatever the status is now: it *)
(* runs from the report that began the last tunnel, and it is absent only  *)
(* when every tunnel was followed by a report of disconnection.  In        *)
(* Connecting, Error and Unknown the clock of the last tunnel is still     *)
(* there, until a new tunnel or a disconnection is reported.               *)
ClockIsOfLastTunnel ==
    \/ /\ snap.since = 0
       /\ \A r \in reports : r.status = "Connected" =>
             \E q \in reports : q.at > r.at /\ q.status = "Disconnected"
    \/ \E r \in reports :
          /\ Began(r) /\ snap.since = r.at
          /\ \A q \in reports : q.at > r.at => q.status # "Disconnected" /\ ~Began(q)

(* When the emitter has seen the last snapshot (notifications.rs:28), the  *)
(* user was warned of the insecure Wi-Fi the machine is on unprotected,    *)
(* also when the network was joined under a tunnel, with warnings off, or  *)
(* while its state was unknown.                                            *)
InsecureWifiIsWarnedOf ==
    /\ Notifier \notin unseen
    /\ snap.wifi.known /\ Dangerous(snap) /\ snap.notify /\ ~protected(snap)
    => emitter.warned = snap.wifi.generation

(* serve returns only when it was without clients for the whole of         *)
(* IDLE_EXIT_AFTER (server.rs:128), however short their visits between two *)
(* ticks, and when the snapshot shows no tunnel and no operation.          *)
ExitsAfterGrace ==
    [][alive /\ ~alive' => /\ quiet >= IDLE_EXIT_AFTER
                           /\ Open = {} /\ snap.active = {}
                           /\ snap.status \notin {"Connecting", "Connected"}]_vars

(* Again and again every client has been told the last snapshot and has    *)
(* the answers to what it asked, whatever was published in between and     *)
(* however the tasks overlapped (session.rs:281-320).                      *)
ClientsCatchUp ==
    []<>(alive => \A c \in Open : sess[c].hello =>
             /\ sess[c].last = snap.revision
             /\ Waiting(c) = {})
=============================================================================
