-------------------------------- MODULE MCIpc -------------------------------
(* Sessions with two request ids and one request at a time; an open and a  *)
(* protected Wi-Fi network; one account.                                   *)
EXTENDS Ipc

MCNetwork == {[id |-> "cafe", secure |-> FALSE], [id |-> "home", secure |-> TRUE]}

\* The branches of the reducer that do more than replace a field, without the
\* combinations of fields that only repeat one.
MCEmitted ==
    {e \in Event :
        /\ e.name \notin {"backend", "device_location"}
        /\ e.name = "account" => e.status = "SignedIn"
        /\ e.name = "features" => e.writes = (IF e.known THEN {TRUE} ELSE Absent)
        /\ e.name = "connection" =>
              e.conflicts = (IF e.status = "Connecting" THEN {TRUE} ELSE Absent)}
=============================================================================
