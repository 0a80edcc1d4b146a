---------------------------- MODULE Notifications ---------------------------
(***************************************************************************)
(* The warning of insecure Wi-Fi (agent/src/notifications.rs): what the    *)
(* NotificationEmitter remembers of it and makes of a snapshot.            *)
(***************************************************************************)
EXTENDS StateReducer

NewEmitter(s) ==
    [generation |-> s.wifi.generation,   \* last_network_generation
     warned |-> 0]                       \* the generation of the last warning

protected(s) == s.status \in {"Connecting", "Connected"}

Dangerous(s) == s.wifi.connected /\ s.wifi.insecure

\* Variant for a mutant: the generation is taken as handled under a tunnel.
observe_network_securityOnce(n, s, enabled) ==
    IF s.wifi.generation = n.generation THEN n
      ELSE [n EXCEPT !.generation = s.wifi.generation,
                     !.warned = IF enabled /\ s.wifi.known /\ Dangerous(s) /\ ~protected(s)
                                  THEN s.wifi.generation ELSE @]

\* A dangerous network stays pending while the warning is off, the state of
\* Wi-Fi is unknown or a tunnel protects the machine.
observe_network_security(n, s, enabled) ==
    IF s.wifi.generation = n.generation THEN n
    ELSE IF ~Dangerous(s) THEN [n EXCEPT !.generation = s.wifi.generation]
    ELSE IF enabled /\ s.wifi.known /\ ~protected(s)
      THEN [n EXCEPT !.generation = s.wifi.generation, !.warned = s.wifi.generation]
    ELSE n
=============================================================================
