------------------------- MODULE SecretStoreProofs -------------------------
(***************************************************************************)
(* The secret store for every set of accounts, every shared index, every   *)
(* size of the private index and every number of token generations: a      *)
(* signed-out account stays out, and the items implement one cell.         *)
(***************************************************************************)
EXTENDS SecretStore, WellFoundedInduction, TLAPS

-----------------------------------------------------------------------------
(* Reading the first account that decodes. *)

LEMMA SmallestIndex ==
    ASSUME NEW T, T \subseteq Nat, T # {}
    PROVE  \E i \in T : \A j \in T : i <= j
<1>1. PICK i \in T : \A j \in T : ~(<<j, i>> \in OpToRel(<, Nat))
  BY NatLessThanWellFounded, WFMin
<1>2. \A j \in T : ~(j < i)
  BY <1>1 DEF OpToRel
<1>3. \A j \in T : i <= j
  BY <1>2
<1> QED
  BY <1>3

\* Position i of an index is the one that a read stops at.
StopsAt(accounts, from, i) ==
    /\ i \in 1 .. Len(accounts)
    /\ from[accounts[i]] \in Token
    /\ \A j \in 1 .. i - 1 : from[accounts[j]] \notin Token

Readable(accounts, from) == \E i \in 1 .. Len(accounts) : from[accounts[i]] \in Token

SessionAt(accounts, from, i) == [account |-> accounts[i], token |-> from[accounts[i]]]

LEMMA FirstOfStops ==
    ASSUME NEW accounts \in Seq(Account), NEW from, NEW i, StopsAt(accounts, from, i)
    PROVE  FirstOf(accounts, from) = SessionAt(accounts, from, i)
<1> DEFINE good == {k \in DOMAIN accounts : from[accounts[k]] \in Token}
<1>1. i \in good /\ \A j \in good : i <= j
  BY DEF StopsAt
<1>2. ASSUME NEW k \in good, \A j \in good : k <= j
      PROVE  k = i
  BY <1>1, <1>2
<1>3. (CHOOSE k \in good : \A j \in good : k <= j) = i
  BY <1>1, <1>2
<1> QED
  BY <1>1, <1>3 DEF FirstOf, SessionAt

LEMMA FirstOfNothing ==
    ASSUME NEW accounts \in Seq(Account), NEW from, ~Readable(accounts, from)
    PROVE  FirstOf(accounts, from) = NoSession
BY DEF FirstOf, Readable

LEMMA SomeReadable ==
    ASSUME NEW accounts \in Seq(Account), NEW from, Readable(accounts, from)
    PROVE  \E i : StopsAt(accounts, from, i)
<1> DEFINE good == {k \in 1 .. Len(accounts) : from[accounts[k]] \in Token}
<1>1. good # {} /\ good \subseteq Nat
  BY DEF Readable
<1>2. PICK i \in good : \A j \in good : i <= j
  BY <1>1, SmallestIndex
<1>3. StopsAt(accounts, from, i)
  BY <1>2 DEF StopsAt
<1> QED
  BY <1>3

LEMMA NoSessionIsNone ==
    /\ NoSession \notin Session
    /\ NoSession.account = "none" /\ "none" \notin Account
BY SecretStoreAssumption DEF NoSession, Session, Token, Absent

LEMMA FirstOfType ==
    ASSUME NEW accounts \in Seq(Account), NEW from
    PROVE  /\ FirstOf(accounts, from) \in Session \cup {NoSession}
           /\ FirstOf(accounts, from) # NoSession <=> Readable(accounts, from)
<1>1. CASE Readable(accounts, from)
  <2>1. PICK i : StopsAt(accounts, from, i)
    BY <1>1, SomeReadable
  <2>2. SessionAt(accounts, from, i) \in Session
    BY <2>1 DEF StopsAt, SessionAt, Session
  <2> QED
    BY <1>1, <2>1, <2>2, FirstOfStops, NoSessionIsNone
<1>2. CASE ~Readable(accounts, from)
  BY <1>2, FirstOfNothing
<1> QED
  BY <1>1, <1>2

-----------------------------------------------------------------------------
(* What one write does to what is read. *)

\* Storing the item of an account makes it the one that is read, or changes nothing.
LEMMA StoreItem ==
    ASSUME NEW accounts \in Seq(Account), NEW from \in [Account -> Nat],
           NEW a \in Account, NEW t \in Token
    PROVE  LET after == FirstOf(accounts, [from EXCEPT ![a] = t])
           IN  /\ after \in {FirstOf(accounts, from), [account |-> a, token |-> t]}
               /\ FirstOf(accounts, from) # NoSession => after # NoSession
<1> DEFINE stored == [from EXCEPT ![a] = t]
<1>0. /\ \A k \in 1 .. Len(accounts) : accounts[k] \in Account
      /\ stored[a] = t /\ \A b \in Account \ {a} : stored[b] = from[b]
  OBVIOUS
<1>1. Readable(accounts, from) => Readable(accounts, stored)
  BY <1>0 DEF Readable
<1>2. CASE ~Readable(accounts, stored)
  BY <1>1, <1>2, FirstOfNothing, FirstOfType
<1>3. CASE Readable(accounts, stored)
  <2>1. PICK i : StopsAt(accounts, stored, i)
    BY <1>3, SomeReadable
  <2>2. FirstOf(accounts, stored) = SessionAt(accounts, stored, i)
    BY <2>1, FirstOfStops
  <2>3. CASE accounts[i] = a
    BY <1>0, <2>2, <2>3, <1>1, <1>3, FirstOfType DEF SessionAt
  <2>4. CASE accounts[i] # a
    <3>1. StopsAt(accounts, from, i)
      <4>1. i \in 1 .. Len(accounts) /\ accounts[i] \in Account
        BY <2>1 DEF StopsAt
      <4>2. from[accounts[i]] \in Token
        BY <4>1, <2>1, <2>4, <1>0 DEF StopsAt
      <4>3. ASSUME NEW j \in 1 .. i - 1 PROVE from[accounts[j]] \notin Token
        <5>1. j \in 1 .. Len(accounts) /\ stored[accounts[j]] \notin Token
          BY <4>1, <2>1 DEF StopsAt
        <5> QED
          BY <5>1, <1>0
      <4> QED
        BY <4>1, <4>2, <4>3 DEF StopsAt
    <3>2. FirstOf(accounts, from) = SessionAt(accounts, from, i)
      BY <3>1, FirstOfStops
    <3>3. stored[accounts[i]] = from[accounts[i]]
      BY <1>0, <2>4, <3>1 DEF StopsAt
    <3>4. FirstOf(accounts, from) = FirstOf(accounts, stored)
      BY <2>2, <3>2, <3>3 DEF SessionAt
    <3> QED
      BY <3>4
  <2> QED
    BY <2>3, <2>4
<1> QED
  BY <1>2, <1>3

\* Removing the item of an account changes nothing unless it is the one that is read,
\* and afterwards it is not.
LEMMA RemoveItem ==
    ASSUME NEW accounts \in Seq(Account), NEW from \in [Account -> Nat], NEW a \in Account
    PROVE  LET after == FirstOf(accounts, [from EXCEPT ![a] = Absent])
           IN  /\ after = FirstOf(accounts, from) \/ FirstOf(accounts, from).account = a
               /\ after.account # a
<1> DEFINE removed == [from EXCEPT ![a] = Absent]
<1>0. /\ \A k \in 1 .. Len(accounts) : accounts[k] \in Account
      /\ removed[a] \notin Token /\ \A b \in Account \ {a} : removed[b] = from[b]
  BY DEF Token, Absent
<1>1. CASE ~Readable(accounts, from)
  <2>1. ~Readable(accounts, removed)
    BY <1>0, <1>1 DEF Readable
  <2> QED
    BY <1>1, <2>1, FirstOfNothing, NoSessionIsNone
<1>2. CASE Readable(accounts, from)
  <2>1. PICK i : StopsAt(accounts, from, i)
    BY <1>2, SomeReadable
  <2>2. FirstOf(accounts, from) = SessionAt(accounts, from, i)
    BY <2>1, FirstOfStops
  <2>3. CASE accounts[i] = a
    <3>1. FirstOf(accounts, from).account = a
      BY <2>2, <2>3 DEF SessionAt
    <3>2. CASE ~Readable(accounts, removed)
      BY <3>1, <3>2, FirstOfNothing, NoSessionIsNone
    <3>3. CASE Readable(accounts, removed)
      <4>1. PICK k : StopsAt(accounts, removed, k)
        BY <3>3, SomeReadable
      <4>2. FirstOf(accounts, removed) = SessionAt(accounts, removed, k)
        BY <4>1, FirstOfStops
      <4>3. accounts[k] # a
        BY <4>1, <1>0 DEF StopsAt
      <4> QED
        BY <3>1, <4>2, <4>3 DEF SessionAt
    <3> QED
      BY <3>2, <3>3
  <2>4. CASE accounts[i] # a
    <3>1. StopsAt(accounts, removed, i)
      <4>1. i \in 1 .. Len(accounts) /\ accounts[i] \in Account
        BY <2>1 DEF StopsAt
      <4>2. removed[accounts[i]] \in Token
        BY <4>1, <2>1, <2>4, <1>0 DEF StopsAt
      <4>3. ASSUME NEW j \in 1 .. i - 1 PROVE removed[accounts[j]] \notin Token
        <5>1. j \in 1 .. Len(accounts) /\ from[accounts[j]] \notin Token
          BY <4>1, <2>1 DEF StopsAt
        <5> QED
          BY <5>1, <1>0
      <4> QED
        BY <4>1, <4>2, <4>3 DEF StopsAt
    <3>2. FirstOf(accounts, removed) = SessionAt(accounts, removed, i)
      BY <3>1, FirstOfStops
    <3>3. removed[accounts[i]] = from[accounts[i]]
      BY <1>0, <2>4, <3>1 DEF StopsAt
    <3>4. FirstOf(accounts, removed) = FirstOf(accounts, from)
      BY <2>2, <3>2, <3>3 DEF SessionAt
    <3> QED
      BY <2>2, <2>4, <3>4 DEF SessionAt
  <2> QED
    BY <2>3, <2>4
<1> QED
  BY <1>1, <1>2

\* An account is taken out of an index: what follows it moves up.
LEMMA WithoutElements ==
    ASSUME NEW s \in Seq(Account), NEW a
    PROVE  /\ Without(s, a) \in Seq(Account)
           /\ \/ (\A k \in 1 .. Len(s) : s[k] # a) /\ Without(s, a) = s
              \/ \E i \in 1 .. Len(s) :
                    /\ s[i] = a /\ Len(Without(s, a)) = Len(s) - 1
                    /\ \A k \in 1 .. Len(s) - 1 :
                        Without(s, a)[k] = IF k < i THEN s[k] ELSE s[k + 1]
<1>1. CASE \A k \in 1 .. Len(s) : s[k] # a
  <2>1. Without(s, a) = s
    BY <1>1 DEF Without
  <2> QED
    BY <1>1, <2>1
<1>2. CASE ~(\A k \in 1 .. Len(s) : s[k] # a)
  <2> DEFINE i == CHOOSE i \in DOMAIN s : s[i] = a
             front == SubSeq(s, 1, i - 1)
             rest  == SubSeq(s, i + 1, Len(s))
  <2>0. \E k \in DOMAIN s : s[k] = a
    BY <1>2
  <2>1. i \in 1 .. Len(s) /\ s[i] = a
    BY <1>2
  <2>2. Without(s, a) = front \o rest
    BY <2>0, Zenon DEF Without
  <2> HIDE DEF i
  <2>3. /\ front \in Seq(Account) /\ Len(front) = i - 1
        /\ \A k \in 1 .. i - 1 : front[k] = s[k]
    BY <2>1
  <2>4. /\ rest \in Seq(Account) /\ Len(rest) = Len(s) - i
        /\ \A k \in 1 .. Len(s) - i : rest[k] = s[i + k]
    BY <2>1
  <2> HIDE DEF front, rest
  <2>5. front \o rest \in Seq(Account) /\ Len(front \o rest) = Len(s) - 1
    <3>1. front \o rest \in Seq(Account) /\ Len(front \o rest) = Len(front) + Len(rest)
      BY <2>3, <2>4
    <3> QED
      BY <2>1, <2>3, <2>4, <3>1
  <2>6. ASSUME NEW k \in 1 .. Len(s) - 1
        PROVE  (front \o rest)[k] = IF k < i THEN s[k] ELSE s[k + 1]
    <3>1. (front \o rest)[k] = IF k <= Len(front) THEN front[k] ELSE rest[k - Len(front)]
      BY <2>1, <2>3, <2>4
    <3>2. CASE k < i
      BY <2>1, <2>3, <3>1, <3>2
    <3>3. CASE ~(k < i)
      <4>1. k - Len(front) \in 1 .. Len(s) - i /\ i + (k - Len(front)) = k + 1
        BY <2>1, <2>3, <3>3
      <4>2. rest[k - Len(front)] = s[i + (k - Len(front))]
        BY <2>4, <4>1
      <4> QED
        BY <2>1, <2>3, <3>1, <3>3, <4>1, <4>2
    <3> QED
      BY <3>2, <3>3
  <2> QED
    BY <2>1, <2>2, <2>5, <2>6
<1> QED
  BY <1>1, <1>2

LEMMA WithoutOrdered ==
    ASSUME NEW s \in Seq(Account), Ordered(s), NEW a
    PROVE  /\ Ordered(Without(s, a)) /\ Len(Without(s, a)) <= Len(s)
           /\ \A k \in 1 .. Len(Without(s, a)) : Without(s, a)[k] # a
<1>1. CASE (\A k \in 1 .. Len(s) : s[k] # a) /\ Without(s, a) = s
  BY <1>1
<1>2. ASSUME NEW i \in 1 .. Len(s), s[i] = a, Len(Without(s, a)) = Len(s) - 1,
             \A k \in 1 .. Len(s) - 1 : Without(s, a)[k] = IF k < i THEN s[k] ELSE s[k + 1]
      PROVE  /\ Ordered(Without(s, a))
             /\ \A k \in 1 .. Len(Without(s, a)) : Without(s, a)[k] # a
  <2> DEFINE w == Without(s, a)
  <2>0. w \in Seq(Account) /\ DOMAIN w = 1 .. Len(s) - 1
    BY <1>2, WithoutElements
  <2>1. ASSUME NEW k \in DOMAIN w PROVE w[k] # a
    BY <1>2, <2>0, <2>1 DEF Ordered
  <2>2. ASSUME NEW k \in DOMAIN w, NEW m \in DOMAIN w, w[k] = w[m] PROVE k = m
    <3> DEFINE old(n) == IF n < i THEN n ELSE n + 1
    <3>1. /\ old(k) \in DOMAIN s /\ w[k] = s[old(k)]
          /\ old(m) \in DOMAIN s /\ w[m] = s[old(m)]
      BY <1>2, <2>0, <2>2
    <3>2. old(k) = old(m)
      BY <2>2, <3>1 DEF Ordered
    <3> QED
      BY <2>0, <3>2
  <2> QED
    BY <2>0, <2>1, <2>2, <1>2 DEF Ordered
<1> QED
  BY <1>1, <1>2, WithoutElements

\* Cutting an index keeps its order and its first accounts.
LEMMA NormalizedElements ==
    ASSUME NEW s \in Seq(Account), Ordered(s)
    PROVE  /\ normalized_accounts(s) \in Seq(Account) /\ Ordered(normalized_accounts(s))
           /\ Len(normalized_accounts(s)) <= MAX_ACCOUNTS
           /\ Len(s) <= MAX_ACCOUNTS => normalized_accounts(s) = s
           /\ Len(s) # 0 => /\ Len(normalized_accounts(s)) # 0
                            /\ normalized_accounts(s)[1] = s[1]
<1>1. CASE Len(s) <= MAX_ACCOUNTS
  BY <1>1, SecretStoreAssumption DEF normalized_accounts
<1>2. CASE ~(Len(s) <= MAX_ACCOUNTS)
  <2> DEFINE cut == SubSeq(s, 1, MAX_ACCOUNTS)
  <2>1. normalized_accounts(s) = cut
    BY <1>2, SecretStoreAssumption DEF normalized_accounts
  <2>2. /\ cut \in Seq(Account) /\ Len(cut) = MAX_ACCOUNTS
        /\ \A k \in 1 .. MAX_ACCOUNTS : cut[k] = s[k]
    BY <1>2, SecretStoreAssumption
  <2>3. Ordered(cut)
    BY <1>2, <2>2, SecretStoreAssumption DEF Ordered
  <2> QED
    BY <1>2, <2>1, <2>2, <2>3, SecretStoreAssumption
<1> QED
  BY <1>1, <1>2

\* The account that is put first is the one a read stops at, if its item decodes.
LEMMA PutFirst ==
    ASSUME NEW s \in Seq(Account), Ordered(s), NEW a \in Account
    PROVE  /\ WithFirst(s, a) \in Seq(Account) /\ Ordered(WithFirst(s, a))
           /\ Len(WithFirst(s, a)) <= MAX_ACCOUNTS
           /\ \A from : from[a] \in Token =>
                FirstOf(WithFirst(s, a), from) = [account |-> a, token |-> from[a]]
<1> DEFINE rest == Without(s, a)
           all  == <<a>> \o rest
<1>1. rest \in Seq(Account) /\ Ordered(rest) /\ \A k \in 1 .. Len(rest) : rest[k] # a
  BY WithoutElements, WithoutOrdered
<1> HIDE DEF rest
<1>2. /\ all \in Seq(Account) /\ Len(all) = Len(rest) + 1
      /\ \A k \in 1 .. Len(all) : all[k] = IF k = 1 THEN a ELSE rest[k - 1]
  BY <1>1
<1>3. Ordered(all)
  BY <1>1, <1>2 DEF Ordered
<1>4. WithFirst(s, a) = normalized_accounts(all)
  BY DEF WithFirst, rest
<1> HIDE DEF all
<1>5. /\ WithFirst(s, a) \in Seq(Account) /\ Ordered(WithFirst(s, a))
      /\ Len(WithFirst(s, a)) <= MAX_ACCOUNTS
      /\ Len(WithFirst(s, a)) # 0 /\ WithFirst(s, a)[1] = a
  BY <1>1, <1>2, <1>3, <1>4, NormalizedElements
<1>6. ASSUME NEW from, from[a] \in Token
      PROVE  FirstOf(WithFirst(s, a), from) = [account |-> a, token |-> from[a]]
  <2>1. StopsAt(WithFirst(s, a), from, 1)
    BY <1>5, <1>6 DEF StopsAt
  <2> QED
    BY <1>5, <2>1, FirstOfStops DEF SessionAt
<1> QED
  BY <1>5, <1>6

\* Taking an account out of the index whose item does not decode changes nothing.
LEMMA TakeOut ==
    ASSUME NEW s \in Seq(Account), Ordered(s), NEW a \in Account, NEW from, from[a] \notin Token
    PROVE  FirstOf(Without(s, a), from) = FirstOf(s, from)
<1>1. CASE Without(s, a) = s
  BY <1>1
<1>2. ASSUME NEW i \in 1 .. Len(s), s[i] = a, Len(Without(s, a)) = Len(s) - 1,
             \A k \in 1 .. Len(s) - 1 : Without(s, a)[k] = IF k < i THEN s[k] ELSE s[k + 1]
      PROVE  FirstOf(Without(s, a), from) = FirstOf(s, from)
  <2> DEFINE w == Without(s, a)
  <2>0. w \in Seq(Account) /\ Len(w) = Len(s) - 1 /\ Len(s) \in Nat
    BY <1>2, WithoutElements
  <2> HIDE DEF w
  <2>1. \A k \in 1 .. Len(w) : w[k] = IF k < i THEN s[k] ELSE s[k + 1]
    BY <1>2, <2>0 DEF w
  <2>2. CASE ~Readable(s, from)
    <3>1. ~Readable(w, from)
      BY <2>0, <2>1, <2>2 DEF Readable
    <3> QED
      BY <2>0, <2>2, <3>1, FirstOfNothing DEF w
  <2>3. CASE Readable(s, from)
    <3>1. PICK n : StopsAt(s, from, n)
      BY <2>3, SomeReadable
    <3>2. n \in 1 .. Len(s) /\ n # i
      BY <1>2, <3>1 DEF StopsAt
    <3> DEFINE m == IF n < i THEN n ELSE n - 1
    <3>3. m \in 1 .. Len(w) /\ w[m] = s[n]
      BY <2>0, <2>1, <3>2
    <3>4. ASSUME NEW j \in 1 .. m - 1 PROVE from[w[j]] \notin Token
      <4>1. CASE j < i
        <5>1. w[j] = s[j] /\ j \in 1 .. n - 1
          BY <2>0, <2>1, <3>2, <3>3, <4>1
        <5> QED
          BY <5>1, <3>1 DEF StopsAt
      <4>2. CASE ~(j < i)
        <5>0. ~(n < i) /\ m = n - 1
          BY <3>2, <4>2
        <5>1. w[j] = s[j + 1] /\ j + 1 \in 1 .. n - 1
          <6>1. j \in 1 .. Len(w) /\ j + 1 \in 1 .. n - 1
            BY <2>0, <3>2, <3>3, <5>0
          <6> QED
            BY <2>1, <4>2, <6>1
        <5> QED
          BY <5>1, <3>1 DEF StopsAt
      <4> QED
        BY <4>1, <4>2
    <3>5. StopsAt(w, from, m)
      BY <3>1, <3>3, <3>4 DEF StopsAt
    <3> HIDE DEF m
    <3>6. FirstOf(w, from) = SessionAt(w, from, m)
      BY <2>0, <3>5, FirstOfStops
    <3>7. FirstOf(s, from) = SessionAt(s, from, n)
      BY <3>1, FirstOfStops
    <3> QED
      BY <3>3, <3>6, <3>7 DEF SessionAt, w
  <2> QED
    BY <2>2, <2>3
<1> QED
  BY <1>1, <1>2, WithoutElements

-----------------------------------------------------------------------------
(* The inductive invariant. *)

\* Where a call is, and what its writes so far have made readable.
CallOK ==
    \/ call \in {Idle, Loading}
    \/ /\ call.op = "import" /\ ~marker
       /\ call.session = load_legacy_default /\ call.session \in Session
       /\ \/ call.pc = "item" /\ load_private_default = NoSession
          \/ /\ call.pc = "index" /\ item[call.session.account] = call.session.token
             /\ load_private_default \in {NoSession, call.session}
          \/ call.pc = "marker" /\ load_private_default = call.session
    \/ /\ call.op = "save" /\ call.session \in Session /\ call.session.account \notin out
       /\ \/ call.pc = "item"
          \/ call.pc = "index" /\ item[call.session.account] = call.session.token
          \/ call.pc = "marker" /\ load_private_default = call.session
    \/ /\ call.op = "delete" /\ call.session \in Session
       /\ \/ call.pc = "marker" /\ (marker \/ load_private_default # NoSession)
          \/ call.pc = "item" /\ marker
          \/ call.pc = "index" /\ marker /\ item[call.session.account] \notin Token

\* No item is left of an account that signed out, and the marker keeps the shared one
\* from being imported again.
OutOK ==
    /\ \A a \in out : item[a] \notin Token
    /\ out # {} => marker

\* A session in memory is not one that only the shared namespace still has.
MemoryOK == memory # NoSession => marker \/ load_private_default # NoSession

IInv == TypeOK /\ CallOK /\ OutOK /\ MemoryOK

LEMMA ReadTypes ==
    ASSUME TypeOK
    PROVE  /\ load_private_default \in Session \cup {NoSession}
           /\ load_legacy_default \in Session \cup {NoSession}
           /\ NoSession \notin Session
BY FirstOfType, NoSessionIsNone, SecretStoreAssumption
   DEF TypeOK, load_private_default, load_legacy_default

\* Steps that leave the items alone leave what is read alone.
LEMMA SecretsUnchanged ==
    ASSUME UNCHANGED secrets
    PROVE  /\ UNCHANGED <<item, index, marker, legacy>>
           /\ load_private_default' = load_private_default
           /\ load_legacy_default' = load_legacy_default
           /\ Loadable' = Loadable
BY DEF secrets, load_private_default, load_legacy_default, Loadable

LEMMA InitIInv == Init => IInv
<1> SUFFICES ASSUME Init PROVE IInv
  OBVIOUS
<1>1. TypeOK
  <2>1. index \in Seq(Account) /\ Ordered(index) /\ Len(index) <= MAX_ACCOUNTS
    <3>1. CASE index = <<>>
      BY <3>1, SecretStoreAssumption DEF Ordered
    <3>2. ASSUME NEW a \in Account, index = <<a>>
          PROVE  index \in Seq(Account) /\ Ordered(index) /\ Len(index) = 1
      BY <3>2 DEF Ordered
    <3>3. index = <<>> \/ \E a \in Account : index = <<a>>
      BY DEF Init
    <3>4. 1 <= MAX_ACCOUNTS
      BY SecretStoreAssumption
    <3> QED
      BY <3>1, <3>2, <3>3, <3>4
  <2>2. /\ item \in [Account -> 0 .. MaxToken + 1]
        /\ legacy \in [Account -> 0 .. MaxToken + 1]
        /\ token \in Token /\ answer \in {"none", "ok", "err"} /\ out \subseteq Account
    BY SecretStoreAssumption DEF Init, Absent, Garbled, Token
  <2>3. call \in [op : {"idle", "load", "import", "save", "delete"},
                  pc : {"idle", "item", "index", "marker"}, session : Session \cup {NoSession}]
    BY DEF Init, Loading, Idle
  <2> QED
    BY <2>1, <2>2, <2>3 DEF Init, TypeOK
<1> QED
  BY <1>1 DEF Init, IInv, CallOK, OutOK, MemoryOK

\* A call that ends, with or without an error.
LEMMA EndCallInv ==
    ASSUME IInv, NEW result \in {"ok", "err"}, EndCall(result)
    PROVE  /\ call' \in {Idle, Loading} /\ answer' \in {"none", "ok", "err"}
           /\ call' \in [op : {"idle", "load", "import", "save", "delete"},
                         pc : {"idle", "item", "index", "marker"},
                         session : Session \cup {NoSession}]
           /\ memory' \in {memory, NoSession, call.session}
           /\ memory' \in Session \cup {NoSession}
BY DEF IInv, TypeOK, EndCall, Idle, Loading

LEMMA FailInv == ASSUME IInv, Fail PROVE IInv'
<1>1. UNCHANGED <<secrets, token, out>> /\ EndCall("err") /\ UNCHANGED memory
  BY DEF Fail, EndCall
<1>2. TypeOK'
  BY <1>1, EndCallInv, SecretsUnchanged DEF IInv, TypeOK
<1>3. CallOK' /\ OutOK' /\ MemoryOK'
  BY <1>1, EndCallInv, SecretsUnchanged DEF IInv, CallOK, OutOK, MemoryOK
<1> QED
  BY <1>2, <1>3 DEF IInv

LEMMA LoadInv == ASSUME IInv, load_default PROVE IInv'
<1> USE SecretsUnchanged, ReadTypes DEF load_default
<1>1. TypeOK'
  BY DEF IInv, TypeOK, Idle, secrets
<1>2. CallOK'
  <2>1. CASE call' = Idle
    BY <2>1 DEF CallOK
  <2>2. CASE /\ load_private_default = NoSession /\ ~marker /\ load_legacy_default # NoSession
             /\ call' = [op |-> "import", pc |-> "item", session |-> load_legacy_default]
    BY <2>2 DEF IInv, CallOK
  <2> QED
    BY <2>1, <2>2
<1>3. OutOK' /\ MemoryOK'
  BY DEF IInv, OutOK, MemoryOK
<1> QED
  BY <1>1, <1>2, <1>3 DEF IInv

LEMMA SaveInv == ASSUME IInv, save PROVE IInv'
<1>1. PICK a \in Account :
        /\ call' = [op |-> "save", pc |-> "item",
                    session |-> [account |-> a, token |-> token + 1]]
        /\ out' = out \ {a}
  BY DEF save
<1>2. /\ token < MaxToken /\ token' = token + 1 /\ answer' = "none"
      /\ UNCHANGED <<secrets, memory>>
  BY DEF save
<1>3. token' \in Token /\ call'.session \in Session
  BY <1>1, <1>2, SecretStoreAssumption DEF IInv, TypeOK, Token, Session
<1>4. TypeOK'
  BY <1>1, <1>2, <1>3, SecretsUnchanged DEF IInv, TypeOK
<1>5. CallOK'
  BY <1>1, <1>3 DEF CallOK
<1>6. OutOK' /\ MemoryOK'
  BY <1>1, <1>2, SecretsUnchanged DEF IInv, OutOK, MemoryOK
<1> QED
  BY <1>4, <1>5, <1>6 DEF IInv

LEMMA DeleteInv == ASSUME IInv, delete PROVE IInv'
<1> USE SecretsUnchanged DEF delete
<1>1. TypeOK'
  BY DEF IInv, TypeOK
<1>2. CallOK'
  BY DEF IInv, TypeOK, CallOK, MemoryOK
<1>3. OutOK' /\ MemoryOK'
  BY DEF IInv, OutOK, MemoryOK
<1> QED
  BY <1>1, <1>2, <1>3 DEF IInv

\* The item is written: it becomes the session a restart finds, or nothing changes.
ItemWritten ==
    /\ call.op \in {"save", "import"} /\ call.pc = "item"
    /\ item' = [item EXCEPT ![call.session.account] = call.session.token]
    /\ call' = [call EXCEPT !.pc = "index"]
    /\ UNCHANGED <<index, marker, legacy, memory, token, answer, out>>

LEMMA ItemWrittenReads ==
    ASSUME IInv, ItemWritten
    PROVE  /\ call.session \in Session
           /\ load_private_default' \in {load_private_default, call.session}
           /\ load_private_default # NoSession => load_private_default' # NoSession
           /\ load_legacy_default' = load_legacy_default
<1>1. call.session \in Session
  BY DEF IInv, CallOK, ItemWritten, Idle, Loading
<1>2. /\ call.session.account \in Account /\ call.session.token \in Token
      /\ call.session = [account |-> call.session.account, token |-> call.session.token]
  BY <1>1 DEF Session
<1>3. index \in Seq(Account) /\ item \in [Account -> Nat]
  BY SecretStoreAssumption DEF IInv, TypeOK
<1>4. load_private_default' = FirstOf(index, [item EXCEPT ![call.session.account] = call.session.token])
  BY DEF ItemWritten, load_private_default
<1> QED
  BY <1>1, <1>2, <1>3, <1>4, StoreItem DEF load_private_default, load_legacy_default, ItemWritten

LEMMA ItemWrittenInv == ASSUME IInv, ItemWritten PROVE IInv'
<1> USE ItemWrittenReads DEF ItemWritten
<1>0. call.session.account \in Account /\ call.session.token \in Token
  BY DEF Session
<1>1. TypeOK'
  <2>1. item' \in [Account -> 0 .. MaxToken + 1]
    BY <1>0, SecretStoreAssumption DEF IInv, TypeOK, Token
  <2>2. call' \in [op : {"idle", "load", "import", "save", "delete"},
                   pc : {"idle", "item", "index", "marker"}, session : Session \cup {NoSession}]
    BY DEF IInv, TypeOK
  <2> QED
    BY <2>1, <2>2 DEF IInv, TypeOK
<1>2. /\ call' = [op |-> call.op, pc |-> "index", session |-> call.session]
      /\ item'[call.session.account] = call.session.token
  BY <1>0 DEF IInv, TypeOK
<1>3. CallOK'
  <2>1. CASE call.op = "save"
    BY <1>2, <2>1 DEF IInv, CallOK, Idle, Loading
  <2>2. CASE call.op = "import"
    BY <1>2, <2>2 DEF IInv, CallOK, Idle, Loading
  <2> QED
    BY <2>1, <2>2
<1>4. OutOK'
  <2>1. call.session.account \notin out
    BY DEF IInv, CallOK, OutOK, Idle, Loading
  <2> QED
    BY <1>0, <2>1 DEF IInv, TypeOK, OutOK
<1>5. MemoryOK'
  BY DEF IInv, MemoryOK
<1> QED
  BY <1>1, <1>3, <1>4, <1>5 DEF IInv

LEMMA WriteItemCases == WriteItem => ItemWritten \/ Fail
BY DEF WriteItem, ItemWritten, Goto

\* The index is written by a save or an import: its session is what a restart finds.
IndexWritten ==
    /\ call.op \in {"save", "import"} /\ call.pc = "index"
    /\ index' = WithFirst(index, call.session.account)
    /\ call' = [call EXCEPT !.pc = "marker"]
    /\ UNCHANGED <<item, marker, legacy, memory, token, answer, out>>

\* The index is written by a delete, which ends with it.
IndexCleared ==
    /\ call.op = "delete" /\ call.pc = "index"
    /\ index' = normalized_accounts(Without(index, call.session.account))
    /\ EndCall("ok")
    /\ UNCHANGED <<item, marker, legacy, token, out>>

LEMMA WriteIndexCases ==
    ASSUME IInv, WriteIndex
    PROVE  IndexWritten \/ IndexCleared \/ Fail
BY DEF IInv, CallOK, Idle, Loading, WriteIndex, IndexWritten, IndexCleared, Goto, NewIndex

LEMMA IndexWrittenReads ==
    ASSUME IInv, IndexWritten
    PROVE  /\ call.session \in Session
           /\ load_private_default' = call.session
           /\ load_legacy_default' = load_legacy_default
           /\ index' \in Seq(Account) /\ Ordered(index') /\ Len(index') <= MAX_ACCOUNTS
<1>1. call.session \in Session /\ item[call.session.account] = call.session.token
  BY DEF IInv, CallOK, IndexWritten, Idle, Loading
<1>2. /\ call.session.account \in Account /\ call.session.token \in Token
      /\ call.session = [account |-> call.session.account, token |-> call.session.token]
  BY <1>1 DEF Session
<1>3. load_private_default' = FirstOf(WithFirst(index, call.session.account), item)
  BY DEF IndexWritten, load_private_default
<1> QED
  BY <1>1, <1>2, <1>3, PutFirst DEF IInv, TypeOK, load_legacy_default, IndexWritten

LEMMA IndexWrittenInv == ASSUME IInv, IndexWritten PROVE IInv'
<1> USE IndexWrittenReads DEF IndexWritten
<1>1. call' = [op |-> call.op, pc |-> "marker", session |-> call.session]
  BY DEF IInv, TypeOK
<1>2. TypeOK'
  BY <1>1 DEF IInv, TypeOK
<1>3. CallOK'
  <2>1. CASE call.op = "save"
    BY <1>1, <2>1 DEF IInv, CallOK, Idle, Loading
  <2>2. CASE call.op = "import"
    BY <1>1, <2>2 DEF IInv, CallOK, Idle, Loading
  <2> QED
    BY <2>1, <2>2
<1>4. OutOK'
  BY DEF IInv, OutOK
<1>5. MemoryOK'
  BY NoSessionIsNone DEF MemoryOK
<1> QED
  BY <1>2, <1>3, <1>4, <1>5 DEF IInv

LEMMA IndexClearedReads ==
    ASSUME IInv, IndexCleared
    PROVE  /\ call.session \in Session /\ marker /\ item[call.session.account] \notin Token
           /\ load_private_default' = load_private_default
           /\ load_legacy_default' = load_legacy_default
           /\ index' \in Seq(Account) /\ Ordered(index') /\ Len(index') <= MAX_ACCOUNTS
<1>1. call.session \in Session /\ marker /\ item[call.session.account] \notin Token
  BY DEF IInv, CallOK, IndexCleared, Idle, Loading
<1>2. call.session.account \in Account
  BY <1>1 DEF Session
<1> DEFINE w == Without(index, call.session.account)
<1>3. /\ w \in Seq(Account) /\ Ordered(w) /\ Len(w) <= Len(index)
      /\ FirstOf(w, item) = FirstOf(index, item)
  BY <1>1, <1>2, WithoutElements, WithoutOrdered, TakeOut DEF IInv, TypeOK
<1>4. Len(w) <= MAX_ACCOUNTS
  BY <1>3, SecretStoreAssumption DEF IInv, TypeOK
<1>5. index' = w
  BY <1>3, <1>4, NormalizedElements DEF IndexCleared
<1> HIDE DEF w
<1> QED
  BY <1>1, <1>3, <1>4, <1>5 DEF IndexCleared, load_private_default, load_legacy_default

LEMMA IndexClearedInv == ASSUME IInv, IndexCleared PROVE IInv'
<1> USE IndexClearedReads, EndCallInv DEF IndexCleared
<1>1. TypeOK'
  BY DEF IInv, TypeOK
<1>2. CallOK' /\ OutOK' /\ MemoryOK'
  BY DEF IInv, CallOK, OutOK, MemoryOK
<1> QED
  BY <1>1, <1>2 DEF IInv

\* The marker is written last by a save or an import and first by a delete.
MarkerWrittenLast ==
    /\ call.op \in {"save", "import"} /\ call.pc = "marker"
    /\ marker' = TRUE
    /\ EndCall("ok")
    /\ UNCHANGED <<item, index, legacy, token, out>>

MarkerWrittenFirst ==
    /\ call.op = "delete" /\ call.pc = "marker"
    /\ marker' = TRUE
    /\ call' = [call EXCEPT !.pc = "item"]
    /\ UNCHANGED <<item, index, legacy, memory, token, answer, out>>

LEMMA WriteMarkerCases ==
    ASSUME IInv, WriteMarker
    PROVE  MarkerWrittenLast \/ MarkerWrittenFirst \/ Fail
BY DEF IInv, CallOK, Idle, Loading, WriteMarker, MarkerWrittenLast, MarkerWrittenFirst, Goto

LEMMA MarkerReads ==
    ASSUME UNCHANGED <<item, index, legacy>>
    PROVE  /\ load_private_default' = load_private_default
           /\ load_legacy_default' = load_legacy_default
BY DEF load_private_default, load_legacy_default

LEMMA MarkerWrittenLastInv == ASSUME IInv, MarkerWrittenLast PROVE IInv'
<1> USE MarkerReads, EndCallInv DEF MarkerWrittenLast
<1>1. TypeOK'
  BY DEF IInv, TypeOK
<1>2. CallOK' /\ OutOK' /\ MemoryOK'
  BY DEF IInv, CallOK, OutOK, MemoryOK
<1> QED
  BY <1>1, <1>2 DEF IInv

LEMMA MarkerWrittenFirstInv == ASSUME IInv, MarkerWrittenFirst PROVE IInv'
<1> USE MarkerReads DEF MarkerWrittenFirst
<1>1. call' = [op |-> "delete", pc |-> "item", session |-> call.session]
  BY DEF IInv, TypeOK
<1>2. TypeOK'
  BY <1>1 DEF IInv, TypeOK
<1>3. CallOK'
  BY <1>1 DEF IInv, CallOK, Idle, Loading
<1>4. OutOK' /\ MemoryOK'
  BY DEF IInv, OutOK, MemoryOK
<1> QED
  BY <1>2, <1>3, <1>4 DEF IInv

\* The item is removed: another account, or none, is what a restart finds.
ItemRemoved ==
    /\ call.op = "delete" /\ call.pc = "item"
    /\ item' = [item EXCEPT ![call.session.account] = Absent]
    /\ out' = out \cup {call.session.account}
    /\ call' = [call EXCEPT !.pc = "index"]
    /\ UNCHANGED <<index, marker, legacy, memory, token, answer>>

LEMMA DeleteItemCases == DeleteItem => ItemRemoved \/ Fail
BY DEF DeleteItem, ItemRemoved, Goto

LEMMA ItemRemovedReads ==
    ASSUME IInv, ItemRemoved
    PROVE  /\ call.session \in Session /\ marker
           /\ \/ load_private_default' = load_private_default
              \/ load_private_default.account = call.session.account
           /\ load_private_default'.account # call.session.account
<1>1. call.session \in Session /\ marker
  BY DEF IInv, CallOK, ItemRemoved, Idle, Loading
<1>2. call.session.account \in Account
  BY <1>1 DEF Session
<1>3. index \in Seq(Account) /\ item \in [Account -> Nat]
  BY SecretStoreAssumption DEF IInv, TypeOK
<1>4. load_private_default' = FirstOf(index, [item EXCEPT ![call.session.account] = Absent])
  BY DEF ItemRemoved, load_private_default
<1> DEFINE after == FirstOf(index, [item EXCEPT ![call.session.account] = Absent])
<1>5. /\ after = FirstOf(index, item) \/ FirstOf(index, item).account = call.session.account
      /\ after.account # call.session.account
  BY <1>2, <1>3, RemoveItem
<1> QED
  BY <1>1, <1>4, <1>5 DEF load_private_default

LEMMA ItemRemovedInv == ASSUME IInv, ItemRemoved PROVE IInv'
<1> USE ItemRemovedReads DEF ItemRemoved
<1>0. call.session.account \in Account /\ Absent \notin Token /\ Absent \in 0 .. MaxToken + 1
  BY SecretStoreAssumption DEF Session, Token, Absent
<1>1. call' = [op |-> "delete", pc |-> "index", session |-> call.session]
  BY DEF IInv, TypeOK
<1>2. TypeOK'
  <2>1. item' \in [Account -> 0 .. MaxToken + 1]
    BY <1>0 DEF IInv, TypeOK
  <2> QED
    BY <1>0, <1>1, <2>1 DEF IInv, TypeOK
<1>3. item'[call.session.account] \notin Token
  BY <1>0 DEF IInv, TypeOK
<1>4. CallOK'
  BY <1>1, <1>3 DEF CallOK
<1>5. OutOK'
  BY <1>0, <1>3 DEF IInv, TypeOK, OutOK
<1>6. MemoryOK'
  BY DEF MemoryOK
<1> QED
  BY <1>2, <1>4, <1>5, <1>6 DEF IInv

LEMMA RestartInv == ASSUME IInv, Restart PROVE IInv'
<1> USE SecretsUnchanged DEF Restart
<1>1. TypeOK'
  BY DEF IInv, TypeOK, Loading
<1>2. CallOK' /\ OutOK' /\ MemoryOK'
  BY DEF IInv, CallOK, OutOK, MemoryOK
<1> QED
  BY <1>1, <1>2 DEF IInv

LEMMA StutterInv == ASSUME IInv, UNCHANGED vars PROVE IInv'
<1> USE SecretsUnchanged DEF vars
<1>1. TypeOK'
  BY DEF IInv, TypeOK
<1>2. CallOK' /\ OutOK' /\ MemoryOK'
  BY DEF IInv, CallOK, OutOK, MemoryOK
<1> QED
  BY <1>1, <1>2 DEF IInv

LEMMA NextIInv == IInv /\ [Next]_vars => IInv'
<1> SUFFICES ASSUME IInv, [Next]_vars PROVE IInv'
  OBVIOUS
<1>1. CASE load_default \/ save \/ delete \/ Restart \/ UNCHANGED vars
  BY <1>1, LoadInv, SaveInv, DeleteInv, RestartInv, StutterInv
<1>2. CASE WriteItem
  BY <1>2, WriteItemCases, ItemWrittenInv, FailInv
<1>3. CASE WriteIndex
  BY <1>3, WriteIndexCases, IndexWrittenInv, IndexClearedInv, FailInv
<1>4. CASE WriteMarker
  BY <1>4, WriteMarkerCases, MarkerWrittenLastInv, MarkerWrittenFirstInv, FailInv
<1>5. CASE DeleteItem
  BY <1>5, DeleteItemCases, ItemRemovedInv, FailInv
<1> QED
  BY <1>1, <1>2, <1>3, <1>4, <1>5 DEF Next

\* The inductive invariant of the secret store: what every call has written so far,
\* wherever it fails or the agent is killed.
THEOREM InvariantHolds == Spec => []IInv
BY InitIInv, NextIInv, PTL DEF Spec

\* An account whose private session was deleted is not found by a restart until it is
\* stored again, wherever the logout failed or the agent died (secret_store.rs, delete).
THEOREM LogoutIsFinal == Spec => []LoggedOutStaysOut
<1>1. IInv => LoggedOutStaysOut
  <2> SUFFICES ASSUME IInv, Loadable.account \in out PROVE FALSE
    BY DEF LoggedOutStaysOut
  <2>1. Loadable.account \in Account /\ marker
    BY DEF IInv, TypeOK, OutOK
  <2>2. Loadable = load_private_default /\ Loadable # NoSession
    BY <2>1, NoSessionIsNone DEF Loadable
  <2>3. Readable(index, item)
    BY <2>2, FirstOfType DEF IInv, TypeOK, load_private_default
  <2>4. PICK i : StopsAt(index, item, i)
    BY <2>3, SomeReadable DEF IInv, TypeOK
  <2>5. Loadable = SessionAt(index, item, i)
    BY <2>2, <2>4, FirstOfStops DEF IInv, TypeOK, load_private_default
  <2>6. item[Loadable.account] \in Token
    BY <2>4, <2>5 DEF StopsAt, SessionAt
  <2> QED
    BY <2>6 DEF IInv, OutOK
<1> QED
  BY <1>1, InvariantHolds, PTL

-----------------------------------------------------------------------------
(* The items implement one cell. *)

\* The call of the cell that a call of the store stands for.
Pending == IF call.op \in {"save", "delete"} THEN <<call.op, call.session>>
                                             ELSE <<"none", NoSession>>

LEMMA PendingOf ==
    /\ Cell!Idle = <<"none", NoSession>>
    /\ call.op \notin {"save", "delete"} => Pending = Cell!Idle
    /\ call.op \in {"save", "delete"} =>
         Pending[1] = call.op /\ Pending[2] = call.session /\ Pending # Cell!Idle
    /\ \A c : Cell!Achieved(c) <=>
         \/ Pending[1] = "save" /\ c = Pending[2]
         \/ Pending[1] = "delete" /\ c.account # Pending[2].account
BY DEF Pending, Cell!Idle, Cell!Achieved, AccountOf

LEMMA LoadableType == IInv => Loadable \in Session \cup {NoSession}
BY ReadTypes DEF IInv, Loadable

LEMMA LoadableTypeNext == IInv' => (Loadable \in Session \cup {NoSession})'
BY LoadableType, PTL

CellStep == [Cell!Next]_<<Loadable, Pending, answer>>

\* What is left to show of a step: that it is one of the cell's.
LEMMA CellStutter ==
    ASSUME Loadable' = Loadable, Pending' = Pending, answer' = answer
    PROVE  CellStep
BY DEF CellStep

LEMMA CellEffect ==
    ASSUME IInv', Pending' = Pending, answer' = answer, call.op \in {"save", "delete"},
           \/ Loadable' = Loadable
           \/ ~Cell!Achieved(Loadable) /\ Cell!Achieved(Loadable')
    PROVE  CellStep
<1>1. CASE Loadable' = Loadable
  BY <1>1, CellStutter
<1>2. CASE ~Cell!Achieved(Loadable) /\ Cell!Achieved(Loadable')
  <2>1. Loadable' \in Session \cup {NoSession}
    BY LoadableTypeNext
  <2>2. Cell!Achieved(Loadable)'
    BY <1>2 DEF Cell!Achieved, AccountOf, Pending
  <2>3. Cell!Effect
    BY <1>2, <2>1, <2>2 DEF Cell!Effect, Pending
  <2> QED
    BY <2>3 DEF CellStep, Cell!Next
<1> QED
  BY <1>1, <1>2

LEMMA CellReturn ==
    ASSUME IInv', Loadable' = Loadable, call.op \in {"save", "delete"},
           call' \in {Idle, Loading}, answer' \in {"ok", "err"},
           answer' = "ok" => Cell!Achieved(Loadable)
    PROVE  CellStep
<1>1. Loadable' \in Session \cup {NoSession}
  BY LoadableTypeNext
<1>2. Pending # Cell!Idle /\ Pending' = Cell!Idle
  BY DEF Pending, Cell!Idle, Idle, Loading
<1>3. answer' = "ok" => Cell!Achieved(Loadable')
  OBVIOUS
<1>4. Cell!Return
  BY <1>1, <1>2, <1>3 DEF Cell!Return, Pending
<1> QED
  BY <1>4 DEF CellStep, Cell!Next

LEMMA InitCell == Init => Cell!Init
<1> SUFFICES ASSUME Init PROVE Cell!Init
  OBVIOUS
<1>1. Loadable \in Session \cup {NoSession}
  BY InitIInv, LoadableType
<1> QED
  BY <1>1 DEF Init, Loading, Cell!Init, Cell!Idle

LEMMA FailCell ==
    ASSUME IInv, IInv', Fail, call.op \in {"import", "save", "delete"}
    PROVE  CellStep
<1>1. /\ Loadable' = Loadable /\ call' \in {Idle, Loading} /\ EndCall("err")
  BY EndCallInv, SecretsUnchanged DEF Fail
<1>2. CASE call.op \in {"save", "delete"}
  BY <1>1, <1>2, CellReturn DEF EndCall
<1>3. CASE call.op \notin {"save", "delete"}
  <2>1. Pending' = Pending /\ answer' = answer
    BY <1>1, <1>3 DEF EndCall, Pending, Idle, Loading
  <2> QED
    BY <1>1, <2>1, CellStutter
<1> QED
  BY <1>2, <1>3

LEMMA LoadCell == ASSUME IInv, load_default PROVE CellStep
<1>1. Loadable' = Loadable
  BY SecretsUnchanged DEF load_default
<1>2. Pending' = Pending /\ answer' = answer
  BY DEF load_default, Pending, Idle, Loading
<1> QED
  BY <1>1, <1>2, CellStutter

LEMMA CallCell ==
    ASSUME NEW kind \in {"save", "delete"}, NEW s \in Session, call = Idle,
           call'.op = kind, call'.session = s, answer' = "none", UNCHANGED secrets
    PROVE  CellStep
<1>1. Loadable' = Loadable
  BY SecretsUnchanged
<1>2. Pending = Cell!Idle /\ Pending' = <<kind, s>>
  BY DEF Pending, Idle, Cell!Idle
<1>3. Cell!Call(kind, s)
  BY <1>1, <1>2 DEF Cell!Call, Pending
<1> QED
  BY <1>3 DEF CellStep, Cell!Next

LEMMA SaveCell == ASSUME IInv, save PROVE CellStep
<1>1. PICK a \in Account : call' = [op |-> "save", pc |-> "item",
                                    session |-> [account |-> a, token |-> token + 1]]
  BY DEF save
<1>2. [account |-> a, token |-> token + 1] \in Session
  BY SecretStoreAssumption DEF save, IInv, TypeOK, Token, Session
<1> QED
  BY <1>1, <1>2, CallCell DEF save

LEMMA DeleteCell == ASSUME IInv, delete PROVE CellStep
<1>1. memory \in Session /\ call' = [op |-> "delete", pc |-> "marker", session |-> memory]
  BY DEF IInv, TypeOK, delete
<1> QED
  BY <1>1, CallCell DEF delete

\* Before an import is marked as complete, what it stores is what the shared namespace
\* would give, so a restart finds the same session throughout.
LEMMA ImportReads ==
    ASSUME IInv, call.op = "import"
    PROVE  ~marker /\ call.session = load_legacy_default /\ Loadable = call.session
BY DEF IInv, CallOK, Idle, Loading, Loadable

LEMMA ItemWrittenCell == ASSUME IInv, IInv', ItemWritten PROVE CellStep
<1> USE ItemWrittenReads
<1>0. Pending' = Pending /\ answer' = answer /\ marker' = marker
  BY DEF ItemWritten, IInv, TypeOK, Pending
<1>1. CASE call.op = "import"
  <2>1. Loadable' = Loadable
    BY <1>0, <1>1, ImportReads, ReadTypes DEF IInv, Loadable
  <2> QED
    BY <1>0, <2>1, CellStutter
<1>2. CASE call.op = "save"
  <2>1. Loadable' = Loadable \/ Loadable' = call.session
    BY <1>0, ReadTypes DEF IInv, Loadable
  <2>2. Cell!Achieved(call.session) /\ (Cell!Achieved(Loadable) => Loadable = call.session)
    BY <1>2, PendingOf
  <2> QED
    BY <1>0, <1>2, <2>1, <2>2, CellEffect
<1> QED
  BY <1>1, <1>2 DEF ItemWritten

LEMMA IndexWrittenCell == ASSUME IInv, IInv', IndexWritten PROVE CellStep
<1> USE IndexWrittenReads
<1>0. Pending' = Pending /\ answer' = answer /\ Loadable' = call.session
  BY NoSessionIsNone DEF IndexWritten, IInv, TypeOK, Pending, Loadable
<1>1. CASE call.op = "import"
  BY <1>0, <1>1, ImportReads, CellStutter
<1>2. CASE call.op = "save"
  <2>1. Cell!Achieved(call.session) /\ (Cell!Achieved(Loadable) => Loadable = call.session)
    BY <1>2, PendingOf
  <2> QED
    BY <1>0, <1>2, <2>1, CellEffect
<1> QED
  BY <1>1, <1>2 DEF IndexWritten

LEMMA IndexClearedCell == ASSUME IInv, IInv', IndexCleared PROVE CellStep
<1> USE IndexClearedReads
<1>1. Loadable' = Loadable /\ Loadable = load_private_default
  BY ReadTypes DEF IndexCleared, IInv, Loadable
<1>2. call.session.account \in Account
  BY DEF Session
<1>3. Loadable.account # call.session.account
  <2>1. CASE Loadable = NoSession
    BY <1>2, <2>1, NoSessionIsNone
  <2>2. CASE Loadable # NoSession
    <3>1. PICK i : StopsAt(index, item, i)
      BY <1>1, <2>2, FirstOfType, SomeReadable DEF IInv, TypeOK, load_private_default
    <3>2. Loadable = SessionAt(index, item, i)
      BY <1>1, <3>1, FirstOfStops DEF IInv, TypeOK, load_private_default
    <3> QED
      BY <3>1, <3>2 DEF StopsAt, SessionAt
  <2> QED
    BY <2>1, <2>2
<1>4. Cell!Achieved(Loadable)
  BY <1>3, PendingOf DEF IndexCleared
<1> QED
  BY <1>1, <1>4, CellReturn, EndCallInv DEF IndexCleared, EndCall

LEMMA MarkerWrittenLastCell == ASSUME IInv, IInv', MarkerWrittenLast PROVE CellStep
<1> USE MarkerReads, EndCallInv DEF MarkerWrittenLast
<1>1. load_private_default = call.session /\ call.session \in Session
  BY DEF IInv, CallOK, Idle, Loading
<1>2. Loadable = call.session /\ Loadable' = call.session
  BY <1>1, NoSessionIsNone DEF Loadable
<1>3. CASE call.op = "save"
  <2>1. Cell!Achieved(Loadable)
    BY <1>2, <1>3, PendingOf
  <2> QED
    BY <1>2, <1>3, <2>1, CellReturn DEF EndCall
<1>4. CASE call.op = "import"
  <2>1. Pending' = Pending /\ answer' = answer
    BY <1>4 DEF EndCall, Pending, Idle
  <2> QED
    BY <1>2, <2>1, CellStutter
<1> QED
  BY <1>3, <1>4

LEMMA MarkerWrittenFirstCell == ASSUME IInv, IInv', MarkerWrittenFirst PROVE CellStep
<1> USE MarkerReads DEF MarkerWrittenFirst
<1>1. Pending' = Pending /\ answer' = answer
  BY DEF IInv, TypeOK, Pending
<1>2. marker \/ load_private_default # NoSession
  BY DEF IInv, CallOK, Idle, Loading
<1>3. Loadable' = Loadable
  BY <1>2 DEF Loadable
<1> QED
  BY <1>1, <1>3, CellStutter

LEMMA ItemRemovedCell == ASSUME IInv, IInv', ItemRemoved PROVE CellStep
<1> USE ItemRemovedReads
<1>1. Pending' = Pending /\ answer' = answer /\ marker' = marker
  BY DEF ItemRemoved, IInv, TypeOK, Pending
<1>2. Loadable = load_private_default /\ Loadable' = load_private_default'
  BY <1>1, ReadTypes DEF IInv, Loadable
<1>3. /\ Cell!Achieved(Loadable')
      /\ Loadable' = Loadable \/ ~Cell!Achieved(Loadable)
  BY <1>2, PendingOf DEF ItemRemoved
<1> QED
  BY <1>1, <1>3, CellEffect DEF ItemRemoved

LEMMA RestartCell == ASSUME IInv, Restart PROVE CellStep
<1>1. Loadable' = Loadable /\ Pending' = Cell!Idle /\ answer' = "none"
  BY SecretsUnchanged DEF Restart, Pending, Loading, Cell!Idle
<1>2. Cell!Restart
  BY <1>1 DEF Cell!Restart, Pending
<1> QED
  BY <1>2 DEF CellStep, Cell!Next

LEMMA NextCell == IInv /\ IInv' /\ [Next]_vars => CellStep
<1> SUFFICES ASSUME IInv, IInv', [Next]_vars PROVE CellStep
  OBVIOUS
<1>0. CASE UNCHANGED vars
  <2>1. Loadable' = Loadable /\ Pending' = Pending /\ answer' = answer
    BY <1>0, SecretsUnchanged DEF vars, Pending
  <2> QED
    BY <2>1, CellStutter
<1>1. CASE load_default \/ save \/ delete \/ Restart
  BY <1>1, LoadCell, SaveCell, DeleteCell, RestartCell
<1>2. CASE WriteItem
  BY <1>2, WriteItemCases, ItemWrittenCell, FailCell DEF WriteItem
<1>3. CASE WriteIndex
  <2>1. call.op \in {"import", "save", "delete"}
    BY <1>3 DEF WriteIndex, IInv, CallOK, Idle, Loading
  <2> QED
    BY <1>3, <2>1, WriteIndexCases, IndexWrittenCell, IndexClearedCell, FailCell
<1>4. CASE WriteMarker
  <2>1. call.op \in {"import", "save", "delete"}
    BY <1>4 DEF WriteMarker, IInv, CallOK, Idle, Loading
  <2> QED
    BY <1>4, <2>1, WriteMarkerCases, MarkerWrittenLastCell, MarkerWrittenFirstCell, FailCell
<1>5. CASE DeleteItem
  BY <1>5, DeleteItemCases, ItemRemovedCell, FailCell DEF DeleteItem
<1> QED
  BY <1>0, <1>1, <1>2, <1>3, <1>4, <1>5 DEF Next

\* The session items, the index and the marker together behave as one cell: a call of
\* save or delete takes effect at most once, has taken effect when it answers Ok, and
\* the import changes nothing (secret_store.rs, load_default, save and delete).
THEOREM StoreImplementsCell == Spec => ImplementsCell
<1>1. CellStep <=> [Cell!Next]_<<Loadable, Pending, answer>>
  BY DEF CellStep
<1>2. CellStep => [Cell!Next]_<<Loadable,
                     IF call.op \in {"save", "delete"}
                       THEN <<call.op, call.session>> ELSE <<"none", NoSession>>, answer>>
  BY <1>1 DEF Pending
<1> QED
  BY <1>2, InitCell, NextCell, InvariantHolds, PTL DEF Spec, ImplementsCell, Cell!Spec
============================================================================
