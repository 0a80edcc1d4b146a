----------------------------- MODULE DomainGate -----------------------------
(***************************************************************************)
(* What the operation coordinator promises its clients, with the records,  *)
(* the journal, the controls and the progress reports forgotten: a gate    *)
(* that hands out numbered tickets.  A domain is entered only while no     *)
(* conflicting domain is inside; who entered holds a ticket nobody ever    *)
(* had before; and a place is given up only by the holder of its ticket,   *)
(* together with that ticket and nothing else.                             *)
(***************************************************************************)
EXTENDS Naturals

CONSTANTS Domain,           \* the domains of protocol::OperationDomain
          Conflict(_, _),   \* the conflict matrix
          Holder            \* who may enter: the requests

VARIABLES inside,           \* the places taken: a ticket and a domain each
          ticket,           \* the ticket each holder has, 0 for none
          issued            \* how many tickets were ever handed out

gate == <<inside, ticket, issued>>

Init ==
    /\ inside = {}
    /\ ticket = [h \in Holder |-> 0]
    /\ issued = 0

\* A click is admitted at once or rejected; it is never queued.
Enter(h, d) ==
    /\ ticket[h] = 0
    /\ \A place \in inside : ~Conflict(d, place.domain)
    /\ issued' = issued + 1
    /\ ticket' = [ticket EXCEPT ![h] = issued']
    /\ inside' = inside \cup {[ticket |-> issued', domain |-> d]}

Leave(h) ==
    /\ \E place \in inside :
        /\ place.ticket = ticket[h]
        /\ inside' = inside \ {place}
    /\ ticket' = [ticket EXCEPT ![h] = 0]
    /\ UNCHANGED issued

Next == \E h \in Holder : Leave(h) \/ \E d \in Domain : Enter(h, d)

Spec == Init /\ [][Next]_gate
=============================================================================
