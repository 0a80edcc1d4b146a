---------------------------- MODULE StateReducer ----------------------------
(***************************************************************************)
(* The snapshot that the agent publishes, and how it changes: the events   *)
(* of the backend (agent/src/state_reducer.rs), the operation coordinator, *)
(* the store and the Wi-Fi monitor (agent/src/native_backend/lifecycle.rs).*)
(* Each operator is the closure of one send_modify, from the old snapshot  *)
(* to the new one.  An event carries the fields its branch looks at; groups*)
(* of fields that are copied together are one field.                       *)
(***************************************************************************)
EXTENDS Naturals

CONSTANTS Account            \* the names of accounts

NoAccount == "no account"
Absent    == {}              \* a key the event does not have, else a singleton
Optional  == {Absent, {TRUE}, {FALSE}}

ConnectionStatus == {"Unknown", "Disconnected", "Connecting", "Connected", "Error"}

Event ==
    [name : {"backend"}, available : BOOLEAN]
      \cup [name : {"account"}, status : {"SignedOut"}, who : {NoAccount}]
      \cup [name : {"account"}, status : {"SignedIn"}, who : Account]
      \cup [name : {"device_location"}, known : BOOLEAN]
      \cup [name : {"features"}, known : BOOLEAN, writes : Optional]
      \cup [name : {"connection"}, status : ConnectionStatus,
            conflicts : Optional]
      \cup [name : {"unknown"}]

\* StateSnapshot::default, after StoreHandle::open.  A time is the revision
\* that was published then, and 0 is None.
InitialSnapshot(start) ==
    [revision |-> 0,
     backend |-> FALSE, location |-> FALSE,
     account |-> [status |-> "Restoring", who |-> NoAccount],
     status |-> "Unknown", since |-> 0, conflicts |-> FALSE,
     known |-> FALSE, writes |-> FALSE,
     start |-> start, notify |-> TRUE, scope |-> NoAccount,
     wifi |-> [known |-> FALSE, connected |-> FALSE, insecure |-> FALSE, generation |-> 0],
     active |-> {}]

Bumped(s) == [s EXCEPT !.revision = @ + 1]

-----------------------------------------------------------------------------
(* apply_event *)

\* Groups of features the event does not have keep their values.
Features(s, e) ==
    [s EXCEPT !.known  = e.known,
              !.writes = IF e.writes = Absent THEN @ /\ e.known
                         ELSE TRUE \in e.writes /\ e.known]

\* Variant for a mutant: every report of a connected tunnel restarts its clock.
connected_atAlways(s, e) ==
    CASE e.status = "Connected"    -> s.revision + 1
      [] e.status = "Disconnected" -> 0
      [] OTHER                     -> s.since

connected_at(s, e) ==
    CASE e.status = "Connected" /\ s.status # "Connected" -> s.revision + 1
      [] e.status = "Disconnected"                        -> 0
      [] OTHER                                            -> s.since

Connection(s, e) ==
    [s EXCEPT !.status    = e.status,
              !.conflicts = IF e.conflicts # Absent THEN TRUE \in e.conflicts
                            ELSE @ /\ e.status \notin {"Connected", "Disconnected"},
              !.since     = connected_at(s, e)]

\* An event of an unknown name returns before the revision is bumped; the
\* receivers are woken all the same.
apply_event(s, e) ==
    CASE e.name = "backend"         -> Bumped([s EXCEPT !.backend = e.available])
      [] e.name = "account"         -> Bumped([s EXCEPT !.account = [status |-> e.status, who |-> e.who]])
      [] e.name = "device_location" -> Bumped([s EXCEPT !.location = e.known])
      [] e.name = "features"        -> Bumped(Features(s, e))
      [] e.name = "connection"      -> Bumped(Connection(s, e))
      [] OTHER                      -> s

\* The account whose scope the store activates once the event is published.
account_to_activate(e) ==
    IF e.name = "account" /\ e.status = "SignedIn" THEN e.who ELSE NoAccount

-----------------------------------------------------------------------------
(* The other writers *)

\* OperationCoordinator::publish
WithActive(s, ops) == Bumped([s EXCEPT !.active = ops])

\* monitor_wifi: a network is NoWifi or [id, secure].
NoWifi == [id |-> "none", secure |-> TRUE]

WifiSeen(s, network, changed) ==
    Bumped([s EXCEPT !.wifi = [known      |-> TRUE,
                               connected  |-> network # NoWifi,
                               insecure   |-> ~network.secure,
                               generation |-> IF changed THEN @.generation + 1 ELSE @.generation]])

WifiLost(s) == Bumped([s EXCEPT !.wifi.known = FALSE])

\* Whether a look at the network has something to publish.
WifiNews(s, network, changed) ==
    \/ ~s.wifi.known
    \/ s.wifi.connected # (network # NoWifi)
    \/ s.wifi.insecure # ~network.secure
    \/ changed
=============================================================================
