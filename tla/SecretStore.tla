---------------------------- MODULE SecretStore ----------------------------
(***************************************************************************)
(* The secret store of the agent (agent/src/native_backend/                *)
(* secret_store.rs): load_default, save and delete over three kinds of     *)
(* items of the desktop Secret Service, and the one-time import from the   *)
(* namespace it once shared with other Proton clients.                     *)
(*                                                                         *)
(* The caller holds auth_write (or is initialize), so one call runs at a   *)
(* time; each item is written by a D-Bus call of its own, which may fail,  *)
(* and the agent may be killed between any two of them.  Nobody else       *)
(* writes the private items, so the reads of a call are one step.  An item *)
(* that cannot be decoded is the value Garbled; the envelopes and size     *)
(* limits that decide this are left out.                                   *)
(***************************************************************************)
EXTENDS Naturals, Sequences, FiniteSets

CONSTANTS Account,
          LegacyIndex,    \* the accounts of the shared index, in its order
          MAX_ACCOUNTS,   \* 32 in the code
          MaxToken        \* bound on the token generations

ASSUME SecretStoreAssumption ==
    /\ "none" \notin Account
    /\ LegacyIndex \in Seq(Account)
    /\ MAX_ACCOUNTS \in Nat \ {0}
    /\ MaxToken \in Nat \ {0}

Token   == 1 .. MaxToken
Garbled == MaxToken + 1
Absent  == 0

Session   == [account : Account, token : Token]
NoSession == [account |-> "none", token |-> Absent]

VARIABLES item,       \* private: the session item of each account
          index,      \* private: the account index
          marker,     \* private: legacy-import-v1 is "complete"
          legacy,     \* shared: the session item of each account, never written
          call,       \* the call under way
          memory,     \* RuntimeState.session, and whether it has been loaded
          token,      \* the newest token generation
          answer,     \* how the last mutation ended
          out         \* accounts deleted, and not saved again since

secrets == <<item, index, marker, legacy>>
vars == <<secrets, call, memory, token, answer, out>>

Idle    == [op |-> "idle", pc |-> "idle", session |-> NoSession]
Loading == [op |-> "load", pc |-> "idle", session |-> NoSession]

Init ==
    /\ item \in [Account -> {Absent, Garbled}]
    /\ index \in {<<>>} \cup {<<a>> : a \in Account}
    /\ marker = FALSE
    /\ legacy \in [Account -> {Absent, 1, Garbled}]
    /\ call = Loading
    /\ memory = NoSession
    /\ token = 1
    /\ answer = "none"
    /\ out = {}

-----------------------------------------------------------------------------
(* Reading *)

\* The first account of an index whose item decodes, for the private and the
\* shared namespace alike.
FirstOf(accounts, from) ==
    LET good == {i \in DOMAIN accounts : from[accounts[i]] \in Token}
    IN  IF good = {}
          THEN NoSession
          ELSE LET i == CHOOSE i \in good : \A j \in good : i <= j
               IN  [account |-> accounts[i], token |-> from[accounts[i]]]

load_private_default == FirstOf(index, item)

load_legacy_default == FirstOf(LegacyIndex, legacy)

\* What load_default returns when nothing fails.
Loadable ==
    IF load_private_default # NoSession THEN load_private_default
    ELSE IF marker THEN NoSession
    ELSE load_legacy_default

\* Without duplicates (the callers have removed them), the first MAX_ACCOUNTS of them.
normalized_accounts(accounts) ==
    IF Len(accounts) > MAX_ACCOUNTS THEN SubSeq(accounts, 1, MAX_ACCOUNTS) ELSE accounts

\* An index lists an account at most once.
Without(accounts, a) ==
    IF \E i \in DOMAIN accounts : accounts[i] = a
      THEN LET i == CHOOSE i \in DOMAIN accounts : accounts[i] = a
           IN  SubSeq(accounts, 1, i - 1) \o SubSeq(accounts, i + 1, Len(accounts))
      ELSE accounts

WithFirst(accounts, a) == normalized_accounts(<<a>> \o Without(accounts, a))

-----------------------------------------------------------------------------
(* Steps shared by the calls *)

Goto(pc) == call' = [call EXCEPT !.pc = pc]

\* A call ends; a failed import leaves the session to be loaded again.
EndCall(result) ==
    /\ answer' = IF call.op = "import" THEN answer ELSE result
    /\ \/ /\ result = "ok"
          /\ memory' = IF call.op = "delete" THEN NoSession ELSE call.session
          /\ call' = Idle
       \/ /\ result = "err"
          /\ call' = IF call.op = "import" THEN Loading ELSE Idle
          /\ UNCHANGED memory

Fail == EndCall("err") /\ UNCHANGED <<secrets, token, out>>

load_default ==
    /\ call = Loading
    /\ \/ /\ load_private_default # NoSession \/ marker \/ load_legacy_default = NoSession
          /\ memory' = load_private_default
          /\ call' = Idle
       \/ /\ load_private_default = NoSession /\ ~marker
          /\ load_legacy_default # NoSession
          /\ call' = [op |-> "import", pc |-> "item", session |-> load_legacy_default]
          /\ UNCHANGED memory
    /\ UNCHANGED <<secrets, token, answer, out>>

\* finalize_auth stores a new login, the rotations a newer token.
save ==
    /\ call = Idle /\ token < MaxToken
    /\ \E a \in Account :
        /\ memory # NoSession => a = memory.account
        /\ call' = [op |-> "save", pc |-> "item",
                    session |-> [account |-> a, token |-> token + 1]]
        /\ out' = out \ {a}
    /\ token' = token + 1
    /\ answer' = "none"
    /\ UNCHANGED <<secrets, memory>>

\* account_logout
delete ==
    /\ call = Idle /\ memory # NoSession
    /\ call' = [op |-> "delete", pc |-> "marker", session |-> memory]
    /\ answer' = "none"
    /\ UNCHANGED <<secrets, memory, token, out>>

WriteItem ==
    /\ call.op \in {"save", "import"} /\ call.pc = "item"
    /\ \/ /\ item' = [item EXCEPT ![call.session.account] = call.session.token]
          /\ Goto("index")
          /\ UNCHANGED <<index, marker, legacy, memory, token, answer, out>>
       \/ Fail

\* Variant for a mutant: the account is appended to the index.
NewIndexAppended ==
    IF call.op = "delete" THEN Without(index, call.session.account)
    ELSE normalized_accounts(Append(Without(index, call.session.account), call.session.account))

\* The index a call is about to write.
NewIndex ==
    IF call.op = "delete"
      THEN normalized_accounts(Without(index, call.session.account))
      ELSE WithFirst(index, call.session.account)

\* An unchanged index is not written again.  It is the last write of a deletion.
WriteIndex ==
    /\ call.pc = "index"
    /\ \/ /\ index' = NewIndex
          /\ \/ call.op = "delete" /\ EndCall("ok")
             \/ call.op # "delete" /\ Goto("marker") /\ UNCHANGED <<memory, answer>>
          /\ UNCHANGED <<item, marker, legacy, token, out>>
       \/ index # NewIndex /\ Fail

\* Variant for a mutant: the sign-out is not recorded.
WriteMarkerUnlessDeleting ==
    /\ call.pc = "marker"
    /\ IF call.op = "delete" THEN UNCHANGED marker ELSE marker' = TRUE
    /\ \/ call.op # "delete" /\ EndCall("ok")
       \/ call.op = "delete" /\ Goto("item") /\ UNCHANGED <<memory, answer>>
    /\ UNCHANGED <<item, index, legacy, token, out>>

\* mark_legacy_import_complete reads before it writes, and both may fail.
WriteMarker ==
    /\ call.pc = "marker"
    /\ \/ /\ marker' = TRUE
          /\ \/ call.op # "delete" /\ EndCall("ok")
             \/ call.op = "delete" /\ Goto("item") /\ UNCHANGED <<memory, answer>>
          /\ UNCHANGED <<item, index, legacy, token, out>>
       \/ Fail

DeleteItem ==
    /\ call.op = "delete" /\ call.pc = "item"
    /\ \/ /\ item' = [item EXCEPT ![call.session.account] = Absent]
          /\ out' = out \cup {call.session.account}
          /\ Goto("index")
          /\ UNCHANGED <<index, marker, legacy, memory, token, answer>>
       \/ Fail

\* The agent is killed, at any point, and starts again.
Restart ==
    /\ call' = Loading
    /\ memory' = NoSession
    /\ answer' = "none"
    /\ UNCHANGED <<secrets, token, out>>

Next ==
    \/ load_default \/ save \/ delete
    \/ WriteItem \/ WriteIndex \/ WriteMarker \/ DeleteItem
    \/ Restart

Spec == Init /\ [][Next]_vars

-----------------------------------------------------------------------------
(* Properties *)

Ordered(s) == \A i, j \in DOMAIN s : s[i] = s[j] => i = j

\* Every variable has its type, and the index lists an account at most once and
\* no more than MAX_ACCOUNTS of them.
TypeOK ==
    /\ item \in [Account -> 0 .. MaxToken + 1]
    /\ index \in Seq(Account) /\ Ordered(index) /\ Len(index) <= MAX_ACCOUNTS
    /\ marker \in BOOLEAN
    /\ legacy \in [Account -> 0 .. MaxToken + 1]
    /\ call \in [op : {"idle", "load", "import", "save", "delete"},
                 pc : {"idle", "item", "index", "marker"},
                 session : Session \cup {NoSession}]
    /\ memory \in Session \cup {NoSession}
    /\ token \in Token
    /\ answer \in {"none", "ok", "err"}
    /\ out \subseteq Account

\* An account whose private session was deleted does not come back with a restart
\* until it is stored again: neither from a stale index nor from the shared
\* namespace, wherever the logout failed or the agent died ("a restart must not
\* reimport shared legacy tokens").
LoggedOutStaysOut == Loadable.account \notin out

AccountOf(s) == s.account

\* The three items together implement one cell whose calls take effect at most once
\* and have taken effect when they answer Ok.
Cell == INSTANCE SecretCell
            WITH cell <- Loadable,
                 pending <- IF call.op \in {"save", "delete"}
                              THEN <<call.op, call.session>> ELSE <<"none", NoSession>>

ImplementsCell == Cell!Spec
=============================================================================
