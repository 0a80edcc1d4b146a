----------------------------- MODULE SecretCell -----------------------------
(***************************************************************************)
(* What NativeRuntime relies on when it calls the secret store: one cell   *)
(* that holds the session a restart would find.  A call takes effect at    *)
(* most once while it is pending, it has taken effect when it answers Ok,  *)
(* and when it fails or the agent dies it may or may not have.             *)
(***************************************************************************)
CONSTANTS Session,      \* the sessions that can be stored
          NoSession,
          AccountOf(_)  \* the account a session (or NoSession) is for

VARIABLES cell,         \* what load_default would return now
          pending,      \* the mutation under way: <<kind, session>>
          answer        \* how the last call ended

Idle == <<"none", NoSession>>

TypeOK ==
    /\ cell \in Session \cup {NoSession}
    /\ pending \in {Idle} \cup ({"save", "delete"} \X Session)
    /\ answer \in {"none", "ok", "err"}

Init == cell \in Session \cup {NoSession} /\ pending = Idle /\ answer = "none"

Achieved(c) ==
    \/ pending[1] = "save" /\ c = pending[2]
    \/ pending[1] = "delete" /\ AccountOf(c) # AccountOf(pending[2])

Call(kind, s) ==
    /\ pending = Idle
    /\ pending' = <<kind, s>>
    /\ answer' = "none"
    /\ UNCHANGED cell

Effect ==
    /\ ~Achieved(cell)
    /\ cell' \in Session \cup {NoSession}
    /\ Achieved(cell)'
    /\ UNCHANGED <<pending, answer>>

\* The call returns, possibly with its last write.
Return ==
    /\ pending # Idle
    /\ pending' = Idle
    /\ cell' \in Session \cup {NoSession}
    /\ cell' # cell => Achieved(cell')
    /\ \/ answer' = "ok" /\ Achieved(cell')
       \/ answer' = "err"

\* The agent is killed and started again.
Restart == pending' = Idle /\ answer' = "none" /\ UNCHANGED cell

Next ==
    \/ \E kind \in {"save", "delete"}, s \in Session : Call(kind, s)
    \/ Effect \/ Return \/ Restart

Spec == Init /\ [][Next]_<<cell, pending, answer>>
=============================================================================
