------------------------ MODULE CanonicalStoreProofs ------------------------
(***************************************************************************)
(* Proofs about CanonicalStore: its types and limits, that the memory, the *)
(* files and the snapshot agree between requests, and that recents and     *)
(* default connections can be connected to.                                *)
(***************************************************************************)
EXTENDS CanonicalStore, FiniteSetTheorems, TLAPS

StoreFile ==
    [revision : 0 .. MaxRevision, active : AccountKey \cup {"none"}, onboarding : Onboarding,
     accounts : [Key -> AccountStore], imported : BOOLEAN, official : SUBSET Key,
     fastest : SUBSET Key]

Distinct(recents) ==
    \A r, o \in recents : (r.key = o.key \/ r.id = o.id \/ r.last = o.last) => r = o

Unpinned(recents) == {r \in recents : ~r.pinned}

\* The profile of the recent is there, or the import has cut it.
Placed(account, r) ==
    r.key[1] = "profile" => r.key[2] \in account.profiles \/ FromLargeStore(r)

\* No recent is from after now, and each finds its profile.
Grounded(account, now) ==
    \A r \in account.recents : r.id <= now /\ r.last <= now /\ Placed(account, r)

\* An account without regard to the limit of its recents, as a request has it
\* before it trims them.
Loose(account, now) ==
    /\ account \in AccountStore
    /\ IsFiniteSet(account.recents)
    /\ Distinct(account.recents)
    /\ Grounded(account, now)

Sound(account, now) ==
    /\ Loose(account, now)
    /\ Cardinality(Unpinned(account.recents)) <= MAX_UNPINNED_RECENTS

DataOK(d) == d \in StoreFile /\ \A k \in Key : Sound(d.accounts[k], Epoch + d.revision)

Steps == {"store", "lifecycle", "autostart", "rollback", "publish"}

JobOK ==
    /\ job = [pc |-> job.pc, previous |-> job.previous]
    /\ job = Idle \/ (job.pc \in Steps /\ up)
    /\ DataOK(job.previous)

StateType ==
    /\ DataOK(data)
    /\ file = NoFile \/ DataOK(file)
    /\ lifecycle \in Onboarding \cup {NoFile}
    /\ {autostart, up, half, torn} \subseteq BOOLEAN
    /\ legacy \in {NoAccount} \cup Legacy
    /\ ~up => ~half

Choices == {"complete", "start", "auto"}

\* The lifecycle file and the symlink say what d chose.
Follow(d) ==
    /\ \A f \in Choices : lifecycle[f] = d.onboarding[f]
    /\ autostart = d.onboarding.start

\* How far the request at job has come.  It is not so once a refused request has left
\* a change in memory, or a rollback could not be written.
Progress ==
    up /\ ~half /\ ~torn =>
        /\ job = Idle => data = file /\ published = store_state(file) /\ Follow(file)
        /\ job.pc = "store" =>
               job.previous = file /\ published = store_state(file) /\ Follow(file)
        /\ job.pc \in {"lifecycle", "autostart", "publish"} => file = data
        /\ job.pc \in {"lifecycle", "autostart", "rollback"} =>
               /\ published = store_state(job.previous)
               /\ autostart = job.previous.onboarding.start
        /\ job.pc = "autostart" => lifecycle = data.onboarding
        /\ job.pc = "publish" => Follow(data)

IInv == StateType /\ JobOK /\ Progress

-----------------------------------------------------------------------------
(* What the operators on accounts return *)

Newer(S, r) == {o \in S : o.last > r.last}

\* Of recents used at different times, at most n have fewer than n newer ones.
LEMMA NewestAreFew ==
    ASSUME NEW S, IsFiniteSet(S), NEW n \in Nat,
           \A r \in S : r.last \in Nat,
           \A r, o \in S : r.last = o.last => r = o
    PROVE  Cardinality({r \in S : Cardinality(Newer(S, r)) < n}) <= n
<1> DEFINE newest == {r \in S : Cardinality(Newer(S, r)) < n}
           rank == [r \in newest |-> Cardinality(Newer(S, r))]
<1>1. \A r \in S : IsFiniteSet(Newer(S, r)) /\ Cardinality(Newer(S, r)) \in Nat
  BY FS_Subset, FS_CardinalityType DEF Newer
<1>2. ASSUME NEW r \in S, NEW o \in S, r.last > o.last
      PROVE  Cardinality(Newer(S, r)) < Cardinality(Newer(S, o))
  <2>1. Newer(S, r) \cup {r} \subseteq Newer(S, o) /\ r \notin Newer(S, r)
    BY <1>2 DEF Newer
  <2>2. Cardinality(Newer(S, r) \cup {r}) = Cardinality(Newer(S, r)) + 1
    BY <1>1, <2>1, FS_AddElement
  <2>3. Cardinality(Newer(S, r) \cup {r}) <= Cardinality(Newer(S, o))
    BY <1>1, <2>1, FS_Subset
  <2> QED
    BY <1>1, <2>2, <2>3
<1>3. rank \in [newest -> 0 .. n - 1]
  BY <1>1
<1>4. ASSUME NEW r \in newest, NEW o \in newest, rank[r] = rank[o]
      PROVE  r = o
  <2>1. Cardinality(Newer(S, r)) = Cardinality(Newer(S, o)) /\ r \in S /\ o \in S
    BY <1>4
  <2>2. ~(r.last > o.last) /\ ~(o.last > r.last)
    BY <1>1, <1>2, <2>1
  <2> QED
    BY <2>1, <2>2
<1>5. rank \in Injection(newest, 0 .. n - 1)
  BY <1>3, <1>4 DEF Injection, IsInjective
<1>6. IsFiniteSet(0 .. n - 1) /\ Cardinality(0 .. n - 1) = n
  BY FS_Interval
<1> QED
  BY <1>5, <1>6, FS_Injection

LEMMA StoreTypes ==
    /\ Epoch \in Nat /\ MaxRevision \in Nat /\ MaxRevision > 0
    /\ MAX_PROFILES \in Nat /\ MAX_UNPINNED_RECENTS \in Nat
    /\ Time \subseteq Nat
    /\ LEGACY_SCOPE \in Key /\ AccountKey \subseteq Key /\ Fastest \in Profile
    /\ OfficialProfile \subseteq Profile
BY StoreAssumption DEF Time, Key, Profile

\* trim_recents keeps the pinned recents and the limit of the others.
LEMMA TrimKeeps ==
    ASSUME NEW account, NEW now, Loose(account, now)
    PROVE  LET trimmed == trim_recents(account) IN
           /\ Sound(trimmed, now)
           /\ trimmed.profiles = account.profiles
           /\ trimmed.default_connection = account.default_connection
           /\ trimmed.recents \subseteq account.recents
           /\ trimmed.known = account.known
<1> DEFINE trimmed == trim_recents(account)
           U == Unpinned(account.recents)
           kept == {r \in account.recents :
                        r.pinned \/ Cardinality(Newer(U, r)) < MAX_UNPINNED_RECENTS}
           newest == {r \in U : Cardinality(Newer(U, r)) < MAX_UNPINNED_RECENTS}
<1>1. account \in AccountStore /\ account.recents \subseteq Recent
  BY DEF Loose, AccountStore
<1>2. trimmed = [account EXCEPT !.recents = kept]
  BY <1>1 DEF trim_recents, AccountStore, Unpinned, Newer
<1>3. /\ trimmed \in AccountStore
      /\ trimmed.recents = kept
      /\ trimmed.profiles = account.profiles
      /\ trimmed.default_connection = account.default_connection
      /\ trimmed.known = account.known
  BY <1>1, <1>2 DEF AccountStore
<1>4. kept \subseteq account.recents
  OBVIOUS
<1>5. IsFiniteSet(kept) /\ IsFiniteSet(U)
  BY <1>4, FS_Subset DEF Loose, Unpinned
<1>6. Unpinned(kept) = newest
  BY DEF Unpinned
<1>7. \A r \in U : r.last \in Nat
  BY <1>1, StoreTypes DEF Unpinned, Recent
<1>8. \A r, o \in U : r.last = o.last => r = o
  BY DEF Loose, Distinct, Unpinned
<1>9. Cardinality(newest) <= MAX_UNPINNED_RECENTS
  BY <1>5, <1>7, <1>8, NewestAreFew, StoreTypes
<1>10. Loose(trimmed, now)
  BY <1>3, <1>4, <1>5 DEF Loose, Distinct, Grounded, Placed
<1> HIDE DEF kept, newest, trimmed
<1> QED
  BY <1>3, <1>4, <1>6, <1>9, <1>10 DEF Sound, trimmed

\* validate_default leaves a default that normalize_default accepts, and changes nothing else.
LEMMA ValidateKeeps ==
    ASSUME NEW account \in AccountStore
    PROVE  LET valid == validate_default(account) IN
           /\ valid \in AccountStore
           /\ valid.recents = account.recents
           /\ valid.profiles = account.profiles
           /\ valid.known = account.known
           /\ ValidDefault(valid, valid.default_connection)
<1>1. CASE ValidDefault(account, account.default_connection)
  BY <1>1 DEF validate_default
<1>2. CASE ~ValidDefault(account, account.default_connection)
  <2> DEFINE valid == [account EXCEPT !.default_connection = fastest_default_connection]
  <2>1. fastest_default_connection \in Default
    BY DEF fastest_default_connection, Selection, Default
  <2>2. /\ valid \in AccountStore
        /\ valid.recents = account.recents /\ valid.profiles = account.profiles
        /\ valid.known = account.known
        /\ valid.default_connection = fastest_default_connection
    BY <2>1 DEF AccountStore
  <2>3. ValidDefault(valid, fastest_default_connection)
    BY DEF ValidDefault, fastest_default_connection, Selection
  <2> QED
    BY <1>2, <2>2, <2>3 DEF validate_default
<1> QED
  BY <1>1, <1>2

\* Profiles that are added and time that passes do not disturb an account.
LEMMA SoundGrows ==
    ASSUME NEW now \in Nat, NEW later \in Nat, now <= later, NEW a, Sound(a, now),
           NEW b \in AccountStore, b.recents = a.recents, a.profiles \subseteq b.profiles
    PROVE  Sound(b, later)
<1>1. Grounded(b, later)
  <2>1. ASSUME NEW r \in b.recents
        PROVE  r.id <= later /\ r.last <= later /\ Placed(b, r)
    <3>1. r \in a.recents /\ r.id \in Nat /\ r.last \in Nat
      BY <2>1, StoreTypes DEF AccountStore, Recent
    <3>2. r.id <= now /\ r.last <= now /\ Placed(a, r)
      BY <3>1 DEF Sound, Loose, Grounded
    <3> QED
      BY <3>1, <3>2 DEF Placed
  <2> QED
    BY <2>1 DEF Grounded
<1> QED
  BY <1>1 DEF Sound, Loose

LEMMA NewAccountSound ==
    ASSUME NEW now \in Nat
    PROVE  Sound(NewAccount, now) /\ Sound(NoAccount, now)
<1>1. NewAccount \in AccountStore /\ NoAccount \in AccountStore
  BY DEF NewAccount, NoAccount, AccountStore, fastest_default_connection, Selection, Default
<1>2. NewAccount.recents = {} /\ NoAccount.recents = {}
  BY DEF NewAccount, NoAccount
<1>3. IsFiniteSet({}) /\ Cardinality({}) = 0
  BY FS_EmptySet
<1>4. Unpinned({}) = {}
  BY DEF Unpinned
<1>5. Distinct({})
  BY DEF Distinct
<1> QED
  BY <1>1, <1>2, <1>3, <1>4, <1>5, StoreTypes DEF Sound, Loose, Grounded

LEMMA EmptyFileOK == DataOK(EmptyFile)
<1>1. NoAccount \in AccountStore
  BY NewAccountSound DEF Sound, Loose
<1>2. EmptyFile \in StoreFile
  BY <1>1, StoreTypes DEF EmptyFile, StoreFile, Onboarding
<1>3. \A k \in Key : EmptyFile.accounts[k] = NoAccount
  BY DEF EmptyFile
<1>4. Epoch + EmptyFile.revision \in Nat
  BY <1>2, StoreTypes DEF StoreFile
<1> QED
  BY <1>2, <1>3, <1>4, NewAccountSound DEF DataOK

\* An account of d is replaced, and the revision may grow.
LEMMA ReplacedOK ==
    ASSUME NEW d, DataOK(d), NEW n \in 0 .. MaxRevision, d.revision <= n,
           NEW k \in Key, NEW account, Sound(account, Epoch + n)
    PROVE  LET e == [InAccount(d, k, account) EXCEPT !.revision = n] IN
           /\ DataOK(e) /\ e.revision = n
           /\ e.accounts = [d.accounts EXCEPT ![k] = [account EXCEPT !.known = TRUE]]
           /\ e.onboarding = d.onboarding
<1> DEFINE known == [account EXCEPT !.known = TRUE]
           e == [InAccount(d, k, account) EXCEPT !.revision = n]
<1>1. account \in AccountStore /\ d \in StoreFile
  BY DEF Sound, Loose, DataOK
<1>2. known \in AccountStore /\ known.recents = account.recents /\ known.profiles = account.profiles
  BY <1>1 DEF AccountStore
<1>3. d.accounts \in [Key -> AccountStore] /\ d.revision \in Nat
  BY <1>1 DEF StoreFile
<1>4. [d.accounts EXCEPT ![k] = known] \in [Key -> AccountStore]
  BY <1>2, <1>3
<1>5. InAccount(d, k, account) = [d EXCEPT !.accounts = [d.accounts EXCEPT ![k] = known]]
  BY <1>1 DEF InAccount, StoreFile
<1>6. /\ e \in StoreFile /\ e.revision = n /\ e.onboarding = d.onboarding
      /\ e.accounts = [d.accounts EXCEPT ![k] = known]
  BY <1>1, <1>4, <1>5 DEF StoreFile
<1>7. Epoch + n \in Nat /\ Epoch + d.revision \in Nat /\ Epoch + d.revision <= Epoch + n
  BY <1>3, StoreTypes
<1>8. Sound(known, Epoch + n)
  <2> HIDE DEF known
  <2>1. Epoch + n <= Epoch + n /\ account.profiles \subseteq known.profiles
    BY <1>2, <1>7
  <2> QED
    BY <1>2, <1>7, <2>1, SoundGrows
<1>9. ASSUME NEW j \in Key
      PROVE  Sound(e.accounts[j], Epoch + n)
  <2>1. CASE j = k
    BY <1>3, <1>6, <1>8, <2>1
  <2>2. CASE j # k
    <3>1. e.accounts[j] = d.accounts[j] /\ d.accounts[j] \in AccountStore
      BY <1>3, <1>6, <2>2
    <3>2. Sound(d.accounts[j], Epoch + d.revision)
      BY DEF DataOK
    <3> QED
      BY <1>7, <3>1, <3>2, SoundGrows
  <2> QED
    BY <2>1, <2>2
<1> QED
  BY <1>6, <1>9 DEF DataOK

\* Only the accounts' profiles and defaults, or other fields of the device, change.
LEMMA GrownOK ==
    ASSUME NEW d, DataOK(d), NEW e \in StoreFile, d.revision <= e.revision,
           \A k \in Key : /\ e.accounts[k].recents = d.accounts[k].recents
                          /\ d.accounts[k].profiles \subseteq e.accounts[k].profiles
    PROVE  DataOK(e)
<1>1. d \in StoreFile /\ d.revision \in Nat /\ e.revision \in Nat
  BY DEF DataOK, StoreFile
<1>2. Epoch + e.revision \in Nat /\ Epoch + d.revision \in Nat
      /\ Epoch + d.revision <= Epoch + e.revision
  BY <1>1, StoreTypes
<1>3. ASSUME NEW k \in Key
      PROVE  Sound(e.accounts[k], Epoch + e.revision)
  <2>1. e.accounts[k] \in AccountStore
    BY DEF StoreFile
  <2>2. Sound(d.accounts[k], Epoch + d.revision)
    BY DEF DataOK
  <2> QED
    BY <1>2, <2>1, <2>2, SoundGrows
<1> QED
  BY <1>3 DEF DataOK

\* What seeding and the repair of the defaults may do to an account: a default that
\* changes is one that can be used.
Enriches(a, b) ==
    /\ b.recents = a.recents
    /\ a.profiles \subseteq b.profiles
    /\ a.known => b.known
    /\ b.default_connection = a.default_connection \/ ValidDefault(b, b.default_connection)

Enriched(d, e) ==
    /\ e \in StoreFile
    /\ e.revision = d.revision
    /\ e.onboarding = d.onboarding
    /\ \A k \in Key : Enriches(d.accounts[k], e.accounts[k])

LEMMA EnrichedOK ==
    ASSUME NEW d, DataOK(d), NEW e, Enriched(d, e)
    PROVE  DataOK(e)
<1>1. d.revision <= e.revision
  BY DEF Enriched, DataOK, StoreFile
<1> QED
  BY <1>1, GrownOK DEF Enriched, Enriches

LEMMA OfficialEnriches ==
    ASSUME NEW d \in StoreFile, NEW K \in SUBSET Key,
           NEW e \in seed_account_with_official_profiles(d, K)
    PROVE  Enriched(d, e)
<1> DEFINE todo == K \ d.official
<1>1. PICK added \in [todo -> SUBSET OfficialProfile] :
         e = [WithProfiles(d, todo, added) EXCEPT !.official =
                @ \cup {k \in todo : OfficialProfile \subseteq d.accounts[k].profiles \cup added[k]}]
  BY DEF seed_account_with_official_profiles
<1> DEFINE with(k) == [d.accounts[k] EXCEPT !.known = TRUE, !.profiles = @ \cup added[k]]
           accounts == [k \in Key |-> IF k \in todo THEN with(k) ELSE d.accounts[k]]
<1>2. d.accounts \in [Key -> AccountStore]
  BY DEF StoreFile
<1>3. ASSUME NEW k \in todo
      PROVE  with(k) \in AccountStore /\ Enriches(d.accounts[k], with(k))
  <2>1. d.accounts[k] \in AccountStore /\ added[k] \subseteq Profile
    BY <1>1, <1>2, StoreTypes
  <2>2. /\ with(k) \in AccountStore
        /\ with(k).recents = d.accounts[k].recents
        /\ with(k).profiles = d.accounts[k].profiles \cup added[k]
        /\ with(k).known = TRUE
        /\ with(k).default_connection = d.accounts[k].default_connection
    BY <2>1 DEF AccountStore
  <2> HIDE DEF with
  <2> QED
    BY <2>2 DEF Enriches
<1> HIDE DEF with
<1>4. \A k \in Key : accounts[k] \in AccountStore /\ Enriches(d.accounts[k], accounts[k])
  BY <1>2, <1>3 DEF Enriches
<1>5. accounts \in [Key -> AccountStore]
  BY <1>4
<1> HIDE DEF accounts
<1>6. WithProfiles(d, todo, added) = [d EXCEPT !.accounts = accounts]
  BY DEF WithProfiles, accounts, with
<1>7. /\ e \in StoreFile /\ e.accounts = accounts
      /\ e.revision = d.revision /\ e.onboarding = d.onboarding
  <2> DEFINE new == {k \in todo : OfficialProfile \subseteq d.accounts[k].profiles \cup added[k]}
  <2>1. d.official \cup new \in SUBSET Key
    BY DEF StoreFile
  <2> HIDE DEF new
  <2>2. [d EXCEPT !.accounts = accounts] \in StoreFile
    BY <1>5 DEF StoreFile
  <2>3. e = [[d EXCEPT !.accounts = accounts] EXCEPT !.official = d.official \cup new]
    BY <1>1, <1>6 DEF new, StoreFile
  <2> QED
    BY <1>5, <2>1, <2>2, <2>3 DEF StoreFile
<1> QED
  BY <1>4, <1>7 DEF Enriched

LEMMA FastestEnriches ==
    ASSUME NEW d \in StoreFile, NEW K \in SUBSET Key
    PROVE  Enriched(d, seed_account_with_fastest_profile(d, K))
<1> DEFINE todo == {k \in K \ d.fastest : \/ Fastest \in d.accounts[k].profiles
                                          \/ Cardinality(d.accounts[k].profiles) < MAX_PROFILES}
           accounts == [k \in Key |-> IF k \in todo THEN WithFastest(d.accounts[k])
                                      ELSE d.accounts[k]]
           e == [d EXCEPT !.accounts = accounts, !.fastest = @ \cup todo]
<1>1. e = seed_account_with_fastest_profile(d, K)
  BY DEF seed_account_with_fastest_profile
<1>2. d.accounts \in [Key -> AccountStore] /\ d.fastest \cup todo \in SUBSET Key
  BY DEF StoreFile
<1> HIDE DEF todo
<1>3. ASSUME NEW a \in AccountStore
      PROVE  WithFastest(a) \in AccountStore /\ Enriches(a, WithFastest(a))
  <2> DEFINE default == IF a.default_connection = fastest_default_connection
                          THEN Selection("profile", Fastest) ELSE a.default_connection
             b == [a EXCEPT !.known = TRUE, !.profiles = a.profiles \cup {Fastest},
                            !.default_connection = default]
  <2>1. default \in Default /\ a.profiles \cup {Fastest} \in SUBSET Profile
    BY StoreTypes DEF AccountStore, Default, Selection
  <2>2. WithFastest(a) = b
    BY DEF WithFastest, AccountStore
  <2>3. default = a.default_connection \/ default = <<"profile", Fastest>>
    BY DEF Selection
  <2> HIDE DEF default
  <2>4. /\ b \in AccountStore /\ b.recents = a.recents
        /\ b.profiles = a.profiles \cup {Fastest}
        /\ b.known = TRUE /\ b.default_connection = default
    BY <2>1 DEF AccountStore
  <2> HIDE DEF b
  <2>5. ValidDefault(b, <<"profile", Fastest>>)
    BY <2>4 DEF ValidDefault
  <2> QED
    BY <2>2, <2>3, <2>4, <2>5 DEF Enriches
<1>4. \A k \in Key : accounts[k] \in AccountStore /\ Enriches(d.accounts[k], accounts[k])
  BY <1>2, <1>3 DEF Enriches
<1>5. accounts \in [Key -> AccountStore]
  BY <1>4
<1> HIDE DEF accounts
<1>6. /\ e \in StoreFile /\ e.accounts = accounts
      /\ e.revision = d.revision /\ e.onboarding = d.onboarding
  BY <1>2, <1>5 DEF StoreFile
<1> HIDE DEF e
<1> QED
  BY <1>1, <1>4, <1>6 DEF Enriched

\* After the repair every default can be used.
LEMMA RepairEnriches ==
    ASSUME NEW d \in StoreFile
    PROVE  /\ Enriched(d, Repaired(d))
           /\ \A k \in Key : ValidDefault(Repaired(d).accounts[k],
                                          Repaired(d).accounts[k].default_connection)
<1> DEFINE accounts == [k \in Key |-> validate_default(d.accounts[k])]
           e == [d EXCEPT !.accounts = accounts]
<1>1. e = Repaired(d)
  BY DEF Repaired
<1>2. ASSUME NEW k \in Key
      PROVE  /\ accounts[k] \in AccountStore /\ Enriches(d.accounts[k], accounts[k])
             /\ ValidDefault(accounts[k], accounts[k].default_connection)
  <2>1. d.accounts[k] \in AccountStore /\ accounts[k] = validate_default(d.accounts[k])
    BY DEF StoreFile
  <2> HIDE DEF accounts
  <2> QED
    BY <2>1, ValidateKeeps DEF Enriches
<1>3. accounts \in [Key -> AccountStore]
  BY <1>2
<1> HIDE DEF accounts
<1>4. /\ e \in StoreFile /\ e.accounts = accounts
      /\ e.revision = d.revision /\ e.onboarding = d.onboarding
  BY <1>3 DEF StoreFile
<1> HIDE DEF e
<1> QED
  BY <1>1, <1>2, <1>4 DEF Enriched

\* Cutting the profiles of a Qt store leaves its recents to FromLargeStore.
LEMMA TruncatedLoose ==
    ASSUME NEW store \in Legacy, NEW account \in Truncated(store)
    PROVE  Loose(account, Epoch)
<1>1. /\ store \in AccountStore /\ IsFiniteSet(store.recents) /\ Distinct(store.recents)
      /\ \A r \in store.recents : /\ r.id <= Epoch /\ r.last <= Epoch
                                  /\ r.key[1] = "profile" => r.key[2] \in store.profiles
  BY LegacyAssumption DEF Distinct
<1>2. PICK kept \in SUBSET store.profiles :
         /\ account = [store EXCEPT !.profiles = kept]
         /\ Cardinality(store.profiles) <= MAX_PROFILES => kept = store.profiles
  BY DEF Truncated
<1>3. account \in AccountStore /\ account.recents = store.recents /\ account.profiles = kept
  BY <1>1, <1>2 DEF AccountStore
<1>4. Cardinality(store.profiles) \in Nat
  BY LegacyAssumption, FS_CardinalityType
<1>5. ASSUME NEW r \in account.recents PROVE Placed(account, r)
  <2>1. CASE Cardinality(store.profiles) <= MAX_PROFILES
    BY <1>1, <1>2, <1>3, <1>5, <2>1 DEF Placed
  <2>2. CASE Cardinality(store.profiles) > MAX_PROFILES
    BY <1>3, <1>5, <2>2 DEF Placed, FromLargeStore
  <2> QED
    BY <1>4, <2>1, <2>2, StoreTypes
<1> QED
  BY <1>1, <1>3, <1>5 DEF Loose, Grounded

LEMMA ImportedOK ==
    legacy \in {NoAccount} \cup Legacy => \A d \in Imported : DataOK(d)
<1> SUFFICES ASSUME legacy \in {NoAccount} \cup Legacy, NEW d \in Imported
             PROVE  DataOK(d)
  OBVIOUS
<1>1. CASE legacy = NoAccount
  BY <1>1, EmptyFileOK DEF Imported
<1>2. CASE legacy # NoAccount
  <2>1. PICK account \in Truncated(legacy) :
           d = [InAccount(EmptyFile, LEGACY_SCOPE, validate_default(trim_recents(account)))
                  EXCEPT !.imported = TRUE, !.revision = 1]
    BY <1>2 DEF Imported
  <2> DEFINE a == validate_default(trim_recents(account))
             e == [InAccount(EmptyFile, LEGACY_SCOPE, a) EXCEPT !.revision = 1]
             f == [e EXCEPT !.imported = TRUE]
  <2>2. Loose(account, Epoch)
    BY <1>2, <2>1, TruncatedLoose
  <2>3. Sound(trim_recents(account), Epoch)
    BY <2>2, TrimKeeps
  <2>4. trim_recents(account) \in AccountStore
    BY <2>3 DEF Sound, Loose
  <2>5. /\ a \in AccountStore /\ a.recents = trim_recents(account).recents
        /\ a.profiles = trim_recents(account).profiles
    BY <2>4, ValidateKeeps
  <2>6. d = [InAccount(EmptyFile, LEGACY_SCOPE, a) EXCEPT !.imported = TRUE, !.revision = 1]
    BY <2>1
  <2> HIDE DEF a
  <2>7. Sound(a, Epoch + 1)
    <3>1. Epoch + 1 \in Nat /\ Epoch <= Epoch + 1 /\ trim_recents(account).profiles \subseteq a.profiles
      BY <2>5, StoreTypes
    <3> QED
      BY <2>3, <2>5, <3>1, StoreTypes, SoundGrows
  <2>8. EmptyFile.revision <= 1 /\ 1 \in 0 .. MaxRevision /\ LEGACY_SCOPE \in Key
    BY StoreTypes DEF EmptyFile
  <2>9. DataOK(e)
    BY <2>7, <2>8, EmptyFileOK, ReplacedOK
  <2>10. d = f
    BY <2>6 DEF EmptyFile, InAccount
  <2> HIDE DEF e
  <2>11. f \in StoreFile /\ f.accounts = e.accounts /\ f.revision = e.revision
    BY <2>9 DEF DataOK, StoreFile
  <2>12. e.revision <= f.revision
    BY <2>9, <2>11 DEF DataOK, StoreFile
  <2> HIDE DEF f
  <2>13. DataOK(f)
    BY <2>9, <2>11, <2>12, GrownOK
  <2> QED
    BY <2>10, <2>13
<1> QED
  BY <1>1, <1>2

\* What open makes of a store that it reads.
LEMMA OpenedOK ==
    ASSUME NEW d, DataOK(d), NEW e \in SeededAll(d)
    PROVE  /\ DataOK(Repaired(e))
           /\ \A k \in Key : ValidDefault(Repaired(e).accounts[k],
                                          Repaired(e).accounts[k].default_connection)
<1>1. d \in StoreFile /\ Known(d) \in SUBSET Key
  BY DEF DataOK, Known
<1>2. PICK seeded \in seed_account_with_official_profiles(d, Known(d)) :
         e = seed_account_with_fastest_profile(seeded, Known(d))
  BY DEF SeededAll
<1>3. Enriched(d, seeded) /\ seeded \in StoreFile
  BY <1>1, <1>2, OfficialEnriches DEF Enriched
<1>4. Enriched(seeded, e) /\ e \in StoreFile
  BY <1>1, <1>2, <1>3, FastestEnriches DEF Enriched
<1>5. DataOK(e)
  BY <1>3, <1>4, EnrichedOK
<1> QED
  BY <1>4, <1>5, EnrichedOK, RepairEnriches

-----------------------------------------------------------------------------
(* Default connections *)

\* A default that can be used stays so.
Stays(a, b) ==
    ValidDefault(a, a.default_connection) => ValidDefault(b, b.default_connection)

LEMMA EnrichStays ==
    ASSUME NEW a \in AccountStore, NEW b, Enriches(a, b)
    PROVE  Stays(a, b)
BY DEF Enriches, Stays, ValidDefault

\* Every recent of an account finds what it connects to, unless the import cut it.
LEMMA RecentsAreFound ==
    ASSUME NEW account, NEW now, Sound(account, now), NEW r \in account.recents
    PROVE  resolved_recent(account, r) # Error \/ FromLargeStore(r)
<1>1. r.key \in Target
  BY DEF Sound, Loose, AccountStore, Recent
<1>2. CASE r.key[1] = "profile"
  <2>1. r.key[2] \in account.profiles \/ FromLargeStore(r)
    BY <1>2 DEF Sound, Loose, Grounded, Placed
  <2> QED
    BY <1>2, <2>1 DEF resolved_recent, resolved_profile, Error
<1>3. CASE r.key[1] # "profile"
  BY <1>1, <1>3 DEF resolved_recent, Target, Error
<1> QED
  BY <1>2, <1>3

\* A default connection that can be connected to is one that normalize_default accepts,
\* and what it accepts can be connected to, unless the import cut it.
LEMMA ValidResolves ==
    ASSUME NEW account, NEW now, Sound(account, now)
    PROVE  /\ DefaultResolves(account) => ValidDefault(account, account.default_connection)
           /\ ValidDefault(account, account.default_connection) =>
                 \/ DefaultResolves(account)
                 \/ \E r \in DefaultRecents(account) : FromLargeStore(r)
<1> DEFINE selection == account.default_connection
           last == {r \in account.recents : \A o \in account.recents : o.last <= r.last}
           named == {r \in account.recents : r.id = selection[2]}
<1>1. selection \in Default
  BY DEF Sound, Loose, AccountStore
<1>2. \A r \in account.recents : resolved_recent(account, r) # Error \/ FromLargeStore(r)
  BY RecentsAreFound
<1>3. CASE selection[1] = "last"
  <2>1. CASE last = {}
    BY <1>3, <2>1 DEF DefaultResolves, resolve_connection, ValidDefault, Error,
                      fastest_default_connection, Selection
  <2>2. CASE last # {}
    <3> DEFINE it == CHOOSE r \in last : TRUE
    <3>1. it \in last
      BY <2>2
    <3>2. selection = <<"last", 0>>
      BY <1>1, <1>3 DEF Default
    <3>3. it \in DefaultRecents(account) /\ it \in account.recents
      BY <3>1, <3>2 DEF DefaultRecents
    <3>4. DefaultResolves(account) <=> resolved_recent(account, it) # Error
      BY <1>3, <2>2 DEF DefaultResolves, resolve_connection
    <3>5. ValidDefault(account, selection)
      BY <1>3 DEF ValidDefault
    <3> HIDE DEF it
    <3> QED
      BY <1>2, <3>3, <3>4, <3>5
  <2> QED
    BY <2>1, <2>2
<1>4. CASE selection[1] = "recent"
  <2>1. CASE named = {}
    BY <1>4, <2>1 DEF DefaultResolves, resolve_connection, ValidDefault
  <2>2. CASE named # {}
    <3> DEFINE it == CHOOSE r \in named : TRUE
    <3>1. it \in named
      BY <2>2
    <3>2. selection = <<"recent", selection[2]>>
      BY <1>1, <1>4 DEF Default
    <3>3. it \in DefaultRecents(account) /\ it \in account.recents
      BY <3>1, <3>2 DEF DefaultRecents
    <3>4. DefaultResolves(account) <=> resolved_recent(account, it) # Error
      BY <1>4, <2>2 DEF DefaultResolves, resolve_connection
    <3>5. ValidDefault(account, selection)
      BY <1>4, <3>1 DEF ValidDefault
    <3> HIDE DEF it
    <3> QED
      BY <1>2, <3>3, <3>4, <3>5
  <2> QED
    BY <2>1, <2>2
<1>5. CASE selection[1] = "profile"
  BY <1>5 DEF DefaultResolves, resolve_connection, ValidDefault, resolved_profile, Error
<1>6. CASE selection[1] \in {"fastest", "random"}
  <2>1. DefaultResolves(account)
    <3>1. selection # Error
      BY <1>6 DEF Error
    <3>2. resolve_connection(account, selection) = selection
      BY <1>6 DEF resolve_connection
    <3> QED
      BY <3>1, <3>2 DEF DefaultResolves
  <2>2. ValidDefault(account, selection)
    BY <1>6 DEF ValidDefault
  <2> QED
    BY <2>1, <2>2
<1> QED
  BY <1>1, <1>3, <1>4, <1>5, <1>6 DEF Default

-----------------------------------------------------------------------------
(* The requests.  Each leaves the data sound, and all but pin_recent leave *)
(* a default that can be used.                                             *)

Better == \A k \in Key : data.accounts[k].known => Stays(data.accounts[k], data'.accounts[k])

LEMMA ActiveAccount ==
    DataOK(data) => /\ Scope(data) \in Key
                    /\ Account = data.accounts[Scope(data)]
                    /\ Account \in AccountStore
                    /\ Sound(Account, Epoch + data.revision)
                    /\ data \in StoreFile
                    /\ data.revision \in Nat
                    /\ Epoch + data.revision \in Nat
                    /\ Now \in Nat /\ Now = Epoch + (data.revision + 1)
                    /\ Epoch + data.revision < Now
<1> SUFFICES ASSUME DataOK(data)
             PROVE  /\ Scope(data) \in Key
                    /\ Account = data.accounts[Scope(data)]
                    /\ Account \in AccountStore
                    /\ Sound(Account, Epoch + data.revision)
                    /\ data \in StoreFile
                    /\ data.revision \in Nat
                    /\ Epoch + data.revision \in Nat
                    /\ Now \in Nat /\ Now = Epoch + (data.revision + 1)
                    /\ Epoch + data.revision < Now
  OBVIOUS
<1>1. data \in StoreFile /\ data.active \in AccountKey \cup {"none"} /\ data.revision \in Nat
  BY DEF DataOK, StoreFile
<1>2. Scope(data) \in Key
  BY <1>1, StoreTypes DEF Scope
<1>3. Sound(Account, Epoch + data.revision)
  BY <1>2 DEF DataOK, Account
<1> QED
  BY <1>1, <1>2, <1>3, StoreTypes DEF Sound, Loose, Now, Account

\* The active account becomes account.
LEMMA MutateOK ==
    ASSUME NEW account
    PROVE  /\ DataOK(data)
           /\ Sound(account, Now)
           /\ Mutate(account)
           => /\ DataOK(data')
              /\ data'.accounts = [data.accounts EXCEPT ![Scope(data)] =
                                      [account EXCEPT !.known = TRUE]]
              /\ Stays(Account, account) =>
                     \A k \in Key : Stays(data.accounts[k], data'.accounts[k])
<1> SUFFICES ASSUME DataOK(data), Sound(account, Now), Mutate(account)
             PROVE  /\ DataOK(data')
                    /\ data'.accounts = [data.accounts EXCEPT ![Scope(data)] =
                                            [account EXCEPT !.known = TRUE]]
                    /\ Stays(Account, account) =>
                     \A k \in Key : Stays(data.accounts[k], data'.accounts[k])
  OBVIOUS
<1> DEFINE n == data.revision + 1
           known == [account EXCEPT !.known = TRUE]
<1>1. /\ data' = [InAccount(data, Scope(data), account) EXCEPT !.revision = n]
      /\ data.revision < MaxRevision
  BY DEF Mutate, mutate
<1>2. n \in 0 .. MaxRevision /\ data.revision <= n /\ Sound(account, Epoch + n)
  BY <1>1, ActiveAccount, StoreTypes
<1> HIDE DEF n
<1>3. DataOK(data') /\ data'.accounts = [data.accounts EXCEPT ![Scope(data)] = known]
  BY <1>1, <1>2, ActiveAccount, ReplacedOK
<1>4. account \in AccountStore
  BY DEF Sound, Loose
<1>5. /\ known.recents = account.recents /\ known.profiles = account.profiles
      /\ known.default_connection = account.default_connection
  BY <1>4 DEF AccountStore
<1> HIDE DEF known
<1>6. ASSUME Stays(Account, account), NEW k \in Key
      PROVE  Stays(data.accounts[k], data'.accounts[k])
  <2>1. data.accounts \in [Key -> AccountStore]
    BY ActiveAccount DEF StoreFile
  <2>2. CASE k = Scope(data)
    <3>1. data'.accounts[k] = known /\ data.accounts[k] = Account
      BY <1>3, <2>1, <2>2, ActiveAccount
    <3> QED
      BY <1>5, <1>6, <3>1 DEF Stays, ValidDefault
  <2>3. CASE k # Scope(data)
    BY <1>3, <2>1, <2>3 DEF Stays
  <2> QED
    BY <2>2, <2>3
<1> QED
  BY <1>3, <1>6 DEF known

\* An account that loses recents, and no profile one of its recents needs.
LEMMA SoundShrinks ==
    ASSUME NEW now \in Nat, NEW later \in Nat, now <= later, NEW a, Sound(a, now),
           NEW b \in AccountStore, b.recents \subseteq a.recents,
           \A r \in b.recents : r.key[1] = "profile" /\ r.key[2] \in a.profiles
                                => r.key[2] \in b.profiles
    PROVE  Sound(b, later)
<1>1. IsFiniteSet(a.recents) /\ IsFiniteSet(b.recents)
  BY FS_Subset DEF Sound, Loose
<1>2. IsFiniteSet(Unpinned(a.recents)) /\ Unpinned(b.recents) \subseteq Unpinned(a.recents)
  BY <1>1, FS_Subset DEF Unpinned
<1>3. /\ Cardinality(Unpinned(b.recents)) \in Nat /\ Cardinality(Unpinned(a.recents)) \in Nat
      /\ Cardinality(Unpinned(b.recents)) <= Cardinality(Unpinned(a.recents))
  BY <1>2, FS_Subset, FS_CardinalityType
<1>4. Cardinality(Unpinned(b.recents)) <= MAX_UNPINNED_RECENTS
  BY <1>3, StoreTypes DEF Sound
<1>5. Distinct(b.recents)
  BY DEF Sound, Loose, Distinct
<1>6. ASSUME NEW r \in b.recents
      PROVE  r.id <= later /\ r.last <= later /\ Placed(b, r)
  <2>1. r \in a.recents /\ r.id \in Nat /\ r.last \in Nat
    BY <1>6, StoreTypes DEF AccountStore, Recent
  <2>2. r.id <= now /\ r.last <= now /\ Placed(a, r)
    BY <2>1 DEF Sound, Loose, Grounded
  <2> QED
    BY <1>6, <2>1, <2>2 DEF Placed
<1> QED
  BY <1>1, <1>4, <1>5, <1>6 DEF Sound, Loose, Grounded

LEMMA SaveProfileOK ==
    ASSUME NEW id \in UserProfile, NEW named \in BOOLEAN
    PROVE  DataOK(data) /\ save_profile(id, named) => DataOK(data') /\ Better
<1> SUFFICES ASSUME DataOK(data), save_profile(id, named)
             PROVE  DataOK(data') /\ Better
  OBVIOUS
<1> DEFINE b == [Account EXCEPT !.profiles = @ \cup {id}]
<1>1. Mutate(b)
  BY DEF save_profile
<1>2. /\ b \in AccountStore /\ b.recents = Account.recents
      /\ b.profiles = Account.profiles \cup {id} /\ b.known = Account.known
      /\ b.default_connection = Account.default_connection
  BY ActiveAccount DEF AccountStore, Profile
<1> HIDE DEF b
<1>3. Sound(b, Now)
  BY <1>2, ActiveAccount, SoundGrows
<1>4. Stays(Account, b)
  BY <1>2, ActiveAccount, EnrichStays DEF Enriches
<1> QED
  BY <1>1, <1>3, <1>4, MutateOK DEF Better

\* A request that validates the default connection at its end.
LEMMA ValidatedOK ==
    ASSUME NEW b
    PROVE  DataOK(data) /\ Sound(b, Now) /\ Mutate(validate_default(b)) => DataOK(data') /\ Better
<1> SUFFICES ASSUME DataOK(data), Sound(b, Now), Mutate(validate_default(b))
             PROVE  DataOK(data') /\ Better
  OBVIOUS
<1> DEFINE v == validate_default(b)
<1>1. b \in AccountStore
  BY DEF Sound, Loose
<1>2. /\ v \in AccountStore /\ v.recents = b.recents /\ v.profiles = b.profiles
      /\ ValidDefault(v, v.default_connection)
  BY <1>1, ValidateKeeps
<1> HIDE DEF v
<1>3. Sound(v, Now)
  <2>1. Now <= Now /\ b.profiles \subseteq v.profiles
    BY <1>2, ActiveAccount
  <2> QED
    BY <1>2, <2>1, ActiveAccount, SoundGrows
<1>4. Stays(Account, v)
  BY <1>2 DEF Stays
<1> QED
  BY <1>3, <1>4, MutateOK DEF Better, v

LEMMA DeleteProfileOK ==
    ASSUME NEW id
    PROVE  DataOK(data) /\ delete_profile(id) => DataOK(data') /\ Better
<1> SUFFICES ASSUME DataOK(data), delete_profile(id)
             PROVE  DataOK(data') /\ Better
  OBVIOUS
<1> DEFINE b == [Account EXCEPT !.profiles = @ \ {id},
                                !.recents = {r \in @ : r.key # <<"profile", id>>}]
<1>1. Mutate(validate_default(b))
  BY DEF delete_profile
<1>2. /\ b \in AccountStore /\ b.recents = {r \in Account.recents : r.key # <<"profile", id>>}
      /\ b.profiles = Account.profiles \ {id}
  BY ActiveAccount DEF AccountStore
<1> HIDE DEF b
<1>3. ASSUME NEW r \in b.recents, r.key[1] = "profile", r.key[2] \in Account.profiles
      PROVE  r.key[2] \in b.profiles
  <2>1. r.key \in Target /\ r.key # <<"profile", id>>
    BY <1>2, <1>3 DEF AccountStore, Recent
  <2>2. r.key = <<"profile", r.key[2]>>
    BY <1>3, <2>1 DEF Target
  <2> QED
    BY <1>2, <1>3, <2>1, <2>2
<1>4. Sound(b, Now)
  <2>1. b.recents \subseteq Account.recents
    BY <1>2
  <2> QED
    BY <1>2, <1>3, <2>1, ActiveAccount, SoundShrinks
<1> QED
  BY <1>1, <1>4, ValidatedOK

LEMMA DeleteRecentOK ==
    ASSUME NEW id
    PROVE  DataOK(data) /\ delete_recent(id) => DataOK(data') /\ Better
<1> SUFFICES ASSUME DataOK(data), delete_recent(id)
             PROVE  DataOK(data') /\ Better
  OBVIOUS
<1> DEFINE b == [Account EXCEPT !.recents = {r \in @ : r.id # id}]
<1>1. Mutate(validate_default(b))
  BY DEF delete_recent
<1>2. /\ b \in AccountStore /\ b.recents \subseteq Account.recents
      /\ b.profiles = Account.profiles
  BY ActiveAccount DEF AccountStore
<1> HIDE DEF b
<1>3. Sound(b, Now)
  BY <1>2, ActiveAccount, SoundShrinks
<1> QED
  BY <1>1, <1>3, ValidatedOK

LEMMA RecordRecentOK ==
    ASSUME NEW key \in Target
    PROVE  DataOK(data) /\ record_recent(key) => DataOK(data') /\ Better
<1> SUFFICES ASSUME DataOK(data), record_recent(key)
             PROVE  DataOK(data') /\ Better
  OBVIOUS
<1> DEFINE same == {r \in Account.recents : r.key = key}
           others == {r \in Account.recents : r.key # key}
           old == CHOOSE r \in same : TRUE
           fresh == [key |-> key, id |-> Now, pinned |-> FALSE, pin |-> 0, last |-> Now]
           recent == IF same = {} THEN fresh ELSE [old EXCEPT !.last = Now]
           b == [Account EXCEPT !.recents = others \cup {recent}]
<1>1. /\ key[1] = "profile" => key[2] \in Account.profiles
      /\ Mutate(validate_default(trim_recents(b)))
      /\ data.revision < MaxRevision
  BY DEF record_recent, Mutate, mutate
<1>2. Now \in Time /\ 0 \in Time
  BY <1>1, ActiveAccount, StoreTypes DEF Time
<1>3. Account.recents \subseteq Recent
  BY ActiveAccount DEF AccountStore
<1>4. /\ recent \in Recent /\ recent.key = key /\ recent.last = Now
      /\ recent.id <= Now /\ \A o \in others : o.id # recent.id
  <2>1. CASE same = {}
    <3>1. recent = fresh
      BY <2>1
    <3>2. \A o \in others : o.id # Now
      <4>1. ASSUME NEW o \in others
            PROVE  o.id # Now
        <5>1. o.id \in Nat /\ o.id <= Epoch + data.revision
          BY <1>3, ActiveAccount, StoreTypes DEF Recent, Sound, Loose, Grounded
        <5> QED
          BY <5>1, ActiveAccount
      <4> QED
        BY <4>1
    <3>3. fresh \in Recent /\ fresh.key = key /\ fresh.last = Now /\ fresh.id = Now
      BY <1>2 DEF Recent
    <3>4. Now <= Now
      BY ActiveAccount
    <3> HIDE DEF fresh, recent
    <3> QED
      BY <3>1, <3>2, <3>3, <3>4
  <2>2. CASE same # {}
    <3>1. old \in same
      BY <2>2
    <3>2. old \in Recent /\ old \in Account.recents /\ old.key = key
      BY <1>3, <3>1
    <3> HIDE DEF old
    <3>3. recent = [old EXCEPT !.last = Now]
      BY <2>2
    <3>4. recent \in Recent /\ recent.key = key /\ recent.last = Now /\ recent.id = old.id
      BY <1>2, <3>2, <3>3 DEF Recent
    <3>5. old.id <= Now
      <4>1. old.id \in Nat /\ old.id <= Epoch + data.revision
        BY <3>2, ActiveAccount, StoreTypes DEF Recent, Sound, Loose, Grounded
      <4> QED
        BY <4>1, ActiveAccount
    <3>6. \A o \in others : o.id # old.id
      BY <3>2, ActiveAccount DEF Sound, Loose, Distinct
    <3> QED
      BY <3>4, <3>5, <3>6
  <2> QED
    BY <2>1, <2>2
<1> HIDE DEF recent
<1>5. /\ b \in AccountStore /\ b.recents = others \cup {recent}
      /\ b.profiles = Account.profiles
  BY <1>3, <1>4, ActiveAccount DEF AccountStore
<1>6. \A o \in others : /\ o \in Account.recents /\ o.key # key
                        /\ o.id <= Now /\ o.last < Now /\ o.last # recent.last
                        /\ Placed(Account, o)
  <2>1. ASSUME NEW o \in others
        PROVE  o.id <= Now /\ o.last < Now /\ o.last # recent.last
    <3>1. /\ o.id \in Nat /\ o.id <= Epoch + data.revision
          /\ o.last \in Nat /\ o.last <= Epoch + data.revision
      BY <1>3, ActiveAccount, StoreTypes DEF Recent, Sound, Loose, Grounded
    <3> QED
      BY <1>4, <3>1, ActiveAccount
  <2> QED
    BY <2>1, ActiveAccount DEF Sound, Loose, Grounded
<1>7. IsFiniteSet(b.recents)
  <2>1. IsFiniteSet(others)
    BY ActiveAccount, FS_Subset DEF Sound, Loose
  <2> QED
    BY <1>5, <2>1, FS_AddElement
<1> HIDE DEF b
<1>8. Distinct(b.recents)
  <2>1. ASSUME NEW r \in b.recents, NEW o \in b.recents,
               r.key = o.key \/ r.id = o.id \/ r.last = o.last
        PROVE  r = o
    <3>1. CASE r \in others /\ o \in others
      BY <2>1, <3>1, ActiveAccount DEF Sound, Loose, Distinct
    <3>2. CASE r = recent /\ o \in others
      BY <1>4, <1>6, <2>1, <3>2
    <3>3. CASE o = recent /\ r \in others
      BY <1>4, <1>6, <2>1, <3>3
    <3> QED
      BY <1>5, <3>1, <3>2, <3>3
  <2> QED
    BY <2>1 DEF Distinct
<1>9. Grounded(b, Now)
  <2>1. ASSUME NEW r \in b.recents
        PROVE  r.id <= Now /\ r.last <= Now /\ Placed(b, r)
    <3>1. CASE r \in others
      <4>1. r.last \in Nat
        BY <1>3, <3>1, StoreTypes DEF Recent
      <4> QED
        BY <1>5, <1>6, <3>1, <4>1, ActiveAccount DEF Placed
    <3>2. CASE r = recent
      BY <1>1, <1>4, <1>5, <3>2, ActiveAccount DEF Placed
    <3> QED
      BY <1>5, <3>1, <3>2
  <2> QED
    BY <2>1 DEF Grounded
<1>10. Sound(trim_recents(b), Now)
  BY <1>5, <1>7, <1>8, <1>9, TrimKeeps DEF Loose
<1> QED
  BY <1>1, <1>10, ValidatedOK DEF b

\* Nothing is trimmed within the limit.
LEMMA TrimIdle ==
    ASSUME NEW account \in AccountStore, IsFiniteSet(account.recents),
           Cardinality(Unpinned(account.recents)) <= MAX_UNPINNED_RECENTS
    PROVE  trim_recents(account).recents = account.recents
<1> DEFINE U == Unpinned(account.recents)
           kept == {r \in account.recents :
                        r.pinned \/ Cardinality(Newer(U, r)) < MAX_UNPINNED_RECENTS}
<1>1. trim_recents(account).recents = kept
  BY DEF trim_recents, AccountStore, Unpinned, Newer
<1>2. IsFiniteSet(U) /\ Cardinality(U) \in Nat
  BY FS_Subset, FS_CardinalityType DEF Unpinned
<1>3. ASSUME NEW r \in account.recents, ~r.pinned
      PROVE  Cardinality(Newer(U, r)) < MAX_UNPINNED_RECENTS
  <2>1. r \in U /\ r.last \in Nat
    BY <1>3, StoreTypes DEF Unpinned, AccountStore, Recent
  <2>2. Newer(U, r) \subseteq U \ {r}
    BY <2>1 DEF Newer
  <2>3. IsFiniteSet(U \ {r}) /\ Cardinality(U \ {r}) = Cardinality(U) - 1
    BY <1>2, <2>1, FS_RemoveElement
  <2>4. Cardinality(Newer(U, r)) <= Cardinality(U \ {r}) /\ Cardinality(Newer(U, r)) \in Nat
    BY <2>2, <2>3, FS_Subset, FS_CardinalityType
  <2> HIDE DEF U
  <2>5. Cardinality(U) <= MAX_UNPINNED_RECENTS
    BY DEF U
  <2> QED
    BY <1>2, <2>3, <2>4, <2>5, StoreTypes
<1> QED
  BY <1>1, <1>3

\* The recent r of account k was unpinned.
WasUnpinned(k, r) ==
    /\ r.pinned
    /\ \A o \in data'.accounts[k].recents : o.id = r.id => ~o.pinned

LEMMA PinRecentOK ==
    ASSUME NEW id, NEW pinned \in BOOLEAN
    PROVE  DataOK(data) /\ pin_recent(id, pinned) =>
               /\ DataOK(data')
               /\ \A k \in Key : \/ Stays(data.accounts[k], data'.accounts[k])
                                 \/ \E r \in data.accounts[k].recents : WasUnpinned(k, r)
<1> SUFFICES ASSUME DataOK(data), pin_recent(id, pinned)
             PROVE  /\ DataOK(data')
                    /\ \A k \in Key : \/ Stays(data.accounts[k], data'.accounts[k])
                                      \/ \E r \in data.accounts[k].recents : WasUnpinned(k, r)
  OBVIOUS
<1> DEFINE at(r) == [r EXCEPT !.pinned = pinned, !.pin = IF pinned THEN Now ELSE 0]
           with(r) == [Account EXCEPT !.recents = (@ \ {r}) \cup {at(r)}]
<1>1. PICK r \in Account.recents : r.id = id /\ Mutate(trim_recents(with(r)))
  BY DEF pin_recent
<1> DEFINE now == at(r)
           rest == Account.recents \ {r}
           b == [Account EXCEPT !.recents = rest \cup {now}]
           c == trim_recents(b)
<1>2. Mutate(c) /\ data.revision < MaxRevision
  BY <1>1, ActiveAccount DEF AccountStore, Mutate, mutate
<1>3. Now \in Time /\ 0 \in Time
  BY <1>2, ActiveAccount, StoreTypes DEF Time
<1>4. Account.recents \subseteq Recent /\ r \in Recent
  BY ActiveAccount DEF AccountStore
<1>5. /\ now \in Recent /\ now.key = r.key /\ now.id = r.id /\ now.last = r.last
      /\ now.pinned = pinned
  BY <1>3, <1>4 DEF Recent
<1> HIDE DEF now
<1>6. /\ b \in AccountStore /\ b.recents = rest \cup {now} /\ b.profiles = Account.profiles
      /\ b.default_connection = Account.default_connection
  BY <1>4, <1>5, ActiveAccount DEF AccountStore
<1> HIDE DEF b
<1>7. \A o \in rest : o.key # now.key /\ o.id # now.id /\ o.last # now.last
  BY <1>5, ActiveAccount DEF Sound, Loose, Distinct
<1>8. Distinct(b.recents)
  <2>1. ASSUME NEW x \in b.recents, NEW o \in b.recents,
               x.key = o.key \/ x.id = o.id \/ x.last = o.last
        PROVE  x = o
    <3>1. CASE x \in rest /\ o \in rest
      BY <2>1, <3>1, ActiveAccount DEF Sound, Loose, Distinct
    <3>2. CASE x = now \/ o = now
      BY <1>6, <1>7, <2>1, <3>2
    <3> QED
      BY <1>6, <3>1, <3>2
  <2> QED
    BY <2>1 DEF Distinct
<1>9. IsFiniteSet(Account.recents) /\ IsFiniteSet(b.recents)
  <2>1. IsFiniteSet(Account.recents)
    BY ActiveAccount DEF Sound, Loose
  <2>2. IsFiniteSet(rest)
    BY <2>1, FS_RemoveElement
  <2> QED
    BY <1>6, <2>1, <2>2, FS_AddElement
<1>10. Grounded(b, Now)
  <2>1. ASSUME NEW x \in Account.recents
        PROVE  x.id <= Now /\ x.last <= Now /\ Placed(Account, x)
    <3>1. /\ x.id \in Nat /\ x.id <= Epoch + data.revision
          /\ x.last \in Nat /\ x.last <= Epoch + data.revision
      BY <1>4, ActiveAccount, StoreTypes DEF Recent, Sound, Loose, Grounded
    <3> QED
      BY <3>1, ActiveAccount DEF Sound, Loose, Grounded
  <2> QED
    BY <1>5, <1>6, <2>1 DEF Grounded, Placed, FromLargeStore
<1>11. /\ Sound(c, Now) /\ c.recents \subseteq b.recents
       /\ c.profiles = b.profiles /\ c.default_connection = b.default_connection
  BY <1>6, <1>8, <1>9, <1>10, TrimKeeps DEF Loose
<1>12. /\ DataOK(data')
       /\ data'.accounts = [data.accounts EXCEPT ![Scope(data)] = [c EXCEPT !.known = TRUE]]
       /\ Stays(Account, c) => \A k \in Key : Stays(data.accounts[k], data'.accounts[k])
  BY <1>2, <1>11, MutateOK
<1>13. CASE r.pinned /\ ~pinned
  <2>1. c \in AccountStore
    BY <1>11 DEF Sound, Loose
  <2> HIDE DEF c
  <2>2. data'.accounts[Scope(data)].recents = c.recents
    BY <1>12, <2>1, ActiveAccount DEF StoreFile, AccountStore
  <2>3. \A o \in c.recents : o.id = r.id => ~o.pinned
    BY <1>5, <1>6, <1>7, <1>11, <1>13
  <2>4. WasUnpinned(Scope(data), r)
    BY <1>13, <2>2, <2>3 DEF WasUnpinned
  <2>5. ASSUME NEW k \in Key, k # Scope(data)
        PROVE  Stays(data.accounts[k], data'.accounts[k])
    BY <1>12, <2>5, ActiveAccount DEF StoreFile, Stays
  <2> QED
    BY <1>12, <2>4, <2>5, ActiveAccount
<1>14. CASE ~(r.pinned /\ ~pinned)
  <2> DEFINE U == Unpinned(Account.recents)
             V == Unpinned(b.recents)
  <2>1. IsFiniteSet(U) /\ Cardinality(U) \in Nat /\ Cardinality(U) <= MAX_UNPINNED_RECENTS
    BY <1>9, ActiveAccount, FS_Subset, FS_CardinalityType DEF Unpinned, Sound
  <2>2. Cardinality(V) <= Cardinality(U) /\ Cardinality(V) \in Nat
    <3>1. CASE pinned
      <4>1. V \subseteq U
        BY <1>5, <1>6, <3>1 DEF Unpinned
      <4> QED
        BY <2>1, <4>1, FS_Subset, FS_CardinalityType
    <3>2. CASE ~pinned
      <4>1. r \in U
        BY <1>14, <3>2 DEF Unpinned
      <4>2. V = (U \ {r}) \cup {now} /\ now \notin U \ {r}
        BY <1>5, <1>6, <1>7, <3>2 DEF Unpinned
      <4> HIDE DEF U, V
      <4>3. IsFiniteSet(U \ {r}) /\ Cardinality(U \ {r}) = Cardinality(U) - 1
        BY <2>1, <4>1, FS_RemoveElement
      <4>4. Cardinality(V) = Cardinality(U \ {r}) + 1
        BY <4>2, <4>3, FS_AddElement
      <4> QED
        BY <2>1, <4>3, <4>4
    <3> QED
      BY <3>1, <3>2
  <2> HIDE DEF U
  <2>3. Cardinality(V) <= MAX_UNPINNED_RECENTS
    BY <2>1, <2>2, StoreTypes
  <2>4. c.recents = b.recents
    BY <1>6, <1>9, <2>3, TrimIdle
  <2>5. Stays(Account, c)
    <3>1. ASSUME NEW x \in Account.recents
          PROVE  \E y \in b.recents : y.id = x.id
      BY <1>5, <1>6
    <3> QED
      BY <1>6, <1>11, <2>4, <3>1 DEF Stays, ValidDefault
  <2> QED
    BY <1>12, <2>5
<1> QED
  BY <1>13, <1>14

LEMMA SetDefaultOK ==
    DataOK(data) /\ DefaultRequest => DataOK(data') /\ Better
<1> SUFFICES ASSUME DataOK(data), DefaultRequest
             PROVE  DataOK(data') /\ Better
  OBVIOUS
<1>1. PICK selection \in {<<"fastest", 0>>, <<"last", 0>>} \cup ({"recent"} \X RecentIds)
                         \cup ({"profile"} \X Account.profiles) :
         set_default_connection(selection)
  BY DEF DefaultRequest
<1> DEFINE b == [Account EXCEPT !.default_connection = selection]
<1>2. RecentIds \subseteq Time /\ Account.profiles \subseteq Profile
  BY ActiveAccount DEF RecentIds, AccountStore, Recent
<1>3. selection \in Default
  BY <1>1, <1>2 DEF Default
<1>4. /\ b \in AccountStore /\ b.recents = Account.recents /\ b.profiles = Account.profiles
      /\ b.default_connection = selection
  BY <1>3, ActiveAccount DEF AccountStore
<1>5. Mutate(b) /\ ValidDefault(Account, selection)
  BY <1>1 DEF set_default_connection
<1> HIDE DEF b
<1>6. Sound(b, Now)
  BY <1>4, ActiveAccount, SoundGrows
<1>7. Stays(Account, b)
  BY <1>4, <1>5 DEF Stays, ValidDefault
<1> QED
  BY <1>5, <1>6, <1>7, MutateOK DEF Better

LEMMA SetExcludedOK ==
    ASSUME NEW locations \in SUBSET Server
    PROVE  DataOK(data) /\ set_excluded_locations(locations) => DataOK(data') /\ Better
<1> SUFFICES ASSUME DataOK(data), set_excluded_locations(locations)
             PROVE  DataOK(data') /\ Better
  OBVIOUS
<1> DEFINE b == [Account EXCEPT !.excluded_locations = locations]
<1>1. /\ b \in AccountStore /\ b.recents = Account.recents /\ b.profiles = Account.profiles
      /\ b.default_connection = Account.default_connection
  BY ActiveAccount DEF AccountStore
<1>2. Mutate(b)
  BY DEF set_excluded_locations
<1> HIDE DEF b
<1>3. Sound(b, Now)
  BY <1>1, ActiveAccount, SoundGrows
<1>4. Stays(Account, b)
  BY <1>1 DEF Stays, ValidDefault
<1> QED
  BY <1>2, <1>3, <1>4, MutateOK DEF Better

\* An account is written at the revision that is there.
LEMMA InAccountOK ==
    ASSUME NEW d, DataOK(d), NEW k \in Key, NEW account, Sound(account, Epoch + d.revision)
    PROVE  LET e == InAccount(d, k, account) IN
           /\ DataOK(e) /\ e.revision = d.revision
           /\ e.accounts = [d.accounts EXCEPT ![k] = [account EXCEPT !.known = TRUE]]
<1> DEFINE n == d.revision
           e == InAccount(d, k, account)
           f == [InAccount(d, k, account) EXCEPT !.revision = n]
<1>1. d \in StoreFile /\ n \in 0 .. MaxRevision /\ n = d.revision
  BY DEF DataOK, StoreFile
<1>2. e = [d EXCEPT !.accounts[k] = [account EXCEPT !.known = TRUE]]
  BY DEF InAccount
<1>3. f = e
  BY <1>1, <1>2 DEF StoreFile
<1> HIDE DEF n
<1>4. d.revision <= n /\ Sound(account, Epoch + n)
  BY <1>1
<1>5. /\ DataOK(f) /\ f.revision = n
      /\ f.accounts = [d.accounts EXCEPT ![k] = [account EXCEPT !.known = TRUE]]
  BY <1>1, <1>4, ReplacedOK
<1> HIDE DEF e, f
<1> QED
  BY <1>1, <1>3, <1>5 DEF e

LEMMA ActivateOK ==
    ASSUME NEW key \in AccountKey
    PROVE  DataOK(data) /\ activate_account(key) => DataOK(data') /\ Better
<1> SUFFICES ASSUME DataOK(data), activate_account(key)
             PROVE  DataOK(data') /\ Better
  OBVIOUS
<1> DEFINE start == IF data.accounts[key].known THEN data
                    ELSE InAccount(data, key, data.accounts[LEGACY_SCOPE])
<1>1. PICK seeded \in seed_account_with_official_profiles(start, {key}) :
         mutate([seed_account_with_fastest_profile(seeded, {key}) EXCEPT !.active = key])
  BY DEF activate_account
<1> DEFINE full == seed_account_with_fastest_profile(seeded, {key})
           n == data.revision + 1
<1>2. /\ data' = [[full EXCEPT !.active = key] EXCEPT !.revision = n]
      /\ data.revision < MaxRevision
  BY <1>1 DEF mutate
<1>3. key \in Key /\ {key} \in SUBSET Key /\ LEGACY_SCOPE \in Key
  BY StoreTypes
<1>4. /\ DataOK(start) /\ start.revision = data.revision
      /\ \A k \in Key : data.accounts[k].known => start.accounts[k] = data.accounts[k]
  <2>1. CASE data.accounts[key].known
    BY <2>1
  <2>2. CASE ~data.accounts[key].known
    <3> DEFINE copy == InAccount(data, key, data.accounts[LEGACY_SCOPE])
    <3>1. start = copy
      BY <2>2
    <3>2. Sound(data.accounts[LEGACY_SCOPE], Epoch + data.revision)
      BY <1>3 DEF DataOK
    <3>3. /\ DataOK(copy) /\ copy.revision = data.revision
          /\ copy.accounts = [data.accounts EXCEPT ![key] =
                                [data.accounts[LEGACY_SCOPE] EXCEPT !.known = TRUE]]
      BY <1>3, <3>2, InAccountOK
    <3>4. data.accounts \in [Key -> AccountStore]
      BY ActiveAccount DEF StoreFile
    <3> HIDE DEF copy, start
    <3> QED
      BY <2>2, <3>1, <3>3, <3>4
  <2> QED
    BY <2>1, <2>2
<1> HIDE DEF start
<1>5. start \in StoreFile
  BY <1>4 DEF DataOK
<1>6. Enriched(start, seeded) /\ seeded \in StoreFile
  BY <1>1, <1>3, <1>5, OfficialEnriches DEF Enriched
<1>7. Enriched(seeded, full) /\ full \in StoreFile
  BY <1>3, <1>6, FastestEnriches DEF Enriched
<1>8. DataOK(seeded) /\ DataOK(full)
  BY <1>4, <1>6, <1>7, EnrichedOK
<1>9. full.revision = data.revision
  BY <1>4, <1>6, <1>7 DEF Enriched
<1> HIDE DEF full
<1>10. /\ data' \in StoreFile /\ data'.accounts = full.accounts /\ data'.revision = n
  <2>1. n \in 0 .. MaxRevision
    BY <1>2, ActiveAccount, StoreTypes
  <2> HIDE DEF n
  <2>2. key \in AccountKey \cup {"none"}
    OBVIOUS
  <2>3. [full EXCEPT !.active = key] \in StoreFile /\ [full EXCEPT !.active = key].accounts = full.accounts
    BY <1>7, <2>2 DEF StoreFile
  <2> QED
    BY <1>2, <2>1, <2>3 DEF StoreFile
<1>11. full.revision <= data'.revision
  BY <1>9, <1>10, ActiveAccount
<1>12. DataOK(data')
  BY <1>8, <1>10, <1>11, GrownOK
<1>13. ASSUME NEW k \in Key, data.accounts[k].known
       PROVE  Stays(data.accounts[k], data'.accounts[k])
  <2>1. start.accounts[k] \in AccountStore /\ seeded.accounts[k] \in AccountStore
    BY <1>5, <1>6 DEF StoreFile
  <2>2. Stays(start.accounts[k], seeded.accounts[k])
    BY <1>6, <2>1, EnrichStays DEF Enriched
  <2>3. Stays(seeded.accounts[k], full.accounts[k])
    BY <1>7, <2>1, EnrichStays DEF Enriched
  <2> QED
    BY <1>4, <1>10, <1>13, <2>2, <2>3 DEF Stays
<1> QED
  BY <1>12, <1>13 DEF Better

\* The device's choices, and nothing of an account.
LEMMA ChoicesOK ==
    ASSUME NEW o \in Onboarding
    PROVE  /\ DataOK(data)
           /\ mutate(WithOnboarding(o)) \/ Refuse(WithOnboarding(o))
           => DataOK(data') /\ Better
<1> SUFFICES ASSUME DataOK(data), mutate(WithOnboarding(o)) \/ Refuse(WithOnboarding(o))
             PROVE  DataOK(data') /\ Better
  OBVIOUS
<1> DEFINE m == WithOnboarding(o)
<1>1. m \in StoreFile /\ m.accounts = data.accounts /\ m.revision = data.revision
  BY ActiveAccount DEF WithOnboarding, StoreFile
<1> HIDE DEF m
<1>2. /\ data' \in StoreFile /\ data'.accounts = data.accounts
      /\ data.revision <= data'.revision
  <2>1. CASE mutate(m)
    <3> DEFINE n == data.revision + 1
    <3>1. data' = [m EXCEPT !.revision = n] /\ data.revision < MaxRevision
      BY <2>1 DEF mutate
    <3>2. n \in 0 .. MaxRevision /\ data.revision <= n
      BY <3>1, ActiveAccount, StoreTypes
    <3> HIDE DEF n
    <3> QED
      BY <1>1, <3>1, <3>2 DEF StoreFile
  <2>2. CASE Refuse(m)
    BY <1>1, <2>2, ActiveAccount DEF Refuse
  <2> QED
    BY <2>1, <2>2 DEF m
<1>3. DataOK(data')
  BY <1>2, GrownOK
<1> QED
  BY <1>2, <1>3 DEF Better, Stays

LEMMA OnboardingOK ==
    DataOK(data) /\ OnboardingRequest => DataOK(data') /\ Better
<1> SUFFICES ASSUME DataOK(data), OnboardingRequest
             PROVE  DataOK(data') /\ Better
  OBVIOUS
<1>1. data.onboarding \in Onboarding
  BY ActiveAccount DEF StoreFile
<1>2. ASSUME NEW start \in BOOLEAN, NEW auto \in BOOLEAN, complete_onboarding(start, auto)
      PROVE  DataOK(data') /\ Better
  <2> DEFINE o == [data.onboarding EXCEPT !.complete = TRUE, !.start = start \/ auto, !.auto = auto]
  <2>1. o \in Onboarding
    BY <1>1 DEF Onboarding
  <2> HIDE DEF o
  <2>2. mutate(WithOnboarding(o))
    BY <1>2 DEF complete_onboarding, o
  <2> QED
    BY <2>1, <2>2, ChoicesOK
<1>3. ASSUME NEW f \in {"start", "auto", "notify"}, NEW value \in BOOLEAN
      PROVE  LET given == Given([g \in {f} |-> value]) IN
             given \in Onboarding /\ Agreeing(given) \in Onboarding
  <2> DEFINE given == Given([g \in {f} |-> value])
  <2>1. DOMAIN data.onboarding = {"complete", "start", "auto", "notify"}
    BY <1>1 DEF Onboarding
  <2>2. given = [x \in {"complete", "start", "auto", "notify"} |->
                    IF x = f THEN value ELSE data.onboarding[x]]
    BY <2>1 DEF Given
  <2>3. \A x \in {"complete", "start", "auto", "notify"} : given[x] \in BOOLEAN
    BY <1>1, <2>2 DEF Onboarding
  <2>4. given = [complete |-> given["complete"], start |-> given["start"],
                 auto |-> given["auto"], notify |-> given["notify"]]
    BY <2>2
  <2> HIDE DEF given
  <2>5. given \in Onboarding
    BY <2>3, <2>4 DEF Onboarding
  <2>6. Agreeing(given) \in Onboarding
    BY <2>5 DEF Agreeing, Onboarding
  <2> QED
    BY <2>5, <2>6 DEF given
<1>4. ASSUME NEW f \in {"start", "auto", "notify"}, NEW value \in BOOLEAN,
             \/ set_preferences([g \in {f} |-> value])
             \/ RefusePreferences([g \in {f} |-> value])
      PROVE  DataOK(data') /\ Better
  BY <1>3, <1>4, ChoicesOK DEF set_preferences, RefusePreferences
<1> QED
  BY <1>2, <1>4 DEF OnboardingRequest

LEMMA RefuseRequestOK ==
    DataOK(data) /\ RefuseRequest => DataOK(data') /\ Better
<1> SUFFICES ASSUME DataOK(data), RefuseRequest
             PROVE  DataOK(data') /\ Better
  OBVIOUS
<1> DEFINE m == InAccount(data, Scope(data), Account)
<1>1. data' = m
  BY DEF RefuseRequest, Refuse
<1>2. /\ DataOK(m)
      /\ m.accounts = [data.accounts EXCEPT ![Scope(data)] = [Account EXCEPT !.known = TRUE]]
  BY ActiveAccount, InAccountOK
<1> HIDE DEF m
<1>3. ASSUME NEW k \in Key
      PROVE  Stays(data.accounts[k], m.accounts[k])
  <2>1. data.accounts \in [Key -> AccountStore]
    BY ActiveAccount DEF StoreFile
  <2>2. CASE k = Scope(data)
    <3>1. m.accounts[k] = [Account EXCEPT !.known = TRUE] /\ data.accounts[k] = Account
      BY <1>2, <2>1, <2>2, ActiveAccount
    <3>2. /\ m.accounts[k].recents = Account.recents /\ m.accounts[k].profiles = Account.profiles
          /\ m.accounts[k].default_connection = Account.default_connection
      BY <3>1, ActiveAccount DEF AccountStore
    <3> QED
      BY <3>1, <3>2 DEF Stays, ValidDefault
  <2>3. CASE k # Scope(data)
    BY <1>2, <2>1, <2>3 DEF Stays
  <2> QED
    BY <2>2, <2>3
<1> QED
  BY <1>1, <1>2, <1>3 DEF Better

\* Every request keeps the data sound, and breaks a default only by unpinning a recent.
LEMMA RequestOK ==
    DataOK(data) /\ Request =>
        /\ DataOK(data')
        /\ \A k \in Key : data.accounts[k].known =>
               \/ Stays(data.accounts[k], data'.accounts[k])
               \/ \E r \in data.accounts[k].recents : WasUnpinned(k, r)
<1> SUFFICES ASSUME DataOK(data), Request
             PROVE  /\ DataOK(data')
                    /\ \A k \in Key : data.accounts[k].known =>
                           \/ Stays(data.accounts[k], data'.accounts[k])
                           \/ \E r \in data.accounts[k].recents : WasUnpinned(k, r)
  OBVIOUS
<1>1. ASSUME DataOK(data'), Better
      PROVE  /\ DataOK(data')
             /\ \A k \in Key : data.accounts[k].known =>
                    \/ Stays(data.accounts[k], data'.accounts[k])
                    \/ \E r \in data.accounts[k].recents : WasUnpinned(k, r)
  BY <1>1 DEF Better
<1>2. CASE OnboardingRequest
  BY <1>1, <1>2, OnboardingOK
<1>3. CASE ProfileRequest
  <2>1. ASSUME NEW id \in UserProfile, NEW named \in BOOLEAN, save_profile(id, named)
        PROVE  DataOK(data') /\ Better
    BY <2>1, SaveProfileOK
  <2>2. ASSUME NEW source \in Account.profiles, NEW id \in UserProfile, duplicate_profile(source, id)
        PROVE  DataOK(data') /\ Better
    BY <2>2, SaveProfileOK DEF duplicate_profile
  <2>3. ASSUME NEW id \in Account.profiles, delete_profile(id)
        PROVE  DataOK(data') /\ Better
    BY <2>3, DeleteProfileOK
  <2> QED
    BY <1>1, <1>3, <2>1, <2>2, <2>3 DEF ProfileRequest
<1>4. CASE RecentRequest
  <2>1. ASSUME NEW key \in Target, record_recent(key)
        PROVE  DataOK(data') /\ Better
    BY <2>1, RecordRecentOK
  <2>2. ASSUME NEW id \in RecentIds, delete_recent(id)
        PROVE  DataOK(data') /\ Better
    BY <2>2, DeleteRecentOK
  <2>3. ASSUME NEW id \in RecentIds, NEW pinned \in BOOLEAN, pin_recent(id, pinned)
        PROVE  /\ DataOK(data')
               /\ \A k \in Key : \/ Stays(data.accounts[k], data'.accounts[k])
                                 \/ \E r \in data.accounts[k].recents : WasUnpinned(k, r)
    BY <2>3, PinRecentOK
  <2> QED
    BY <1>1, <1>4, <2>1, <2>2, <2>3 DEF RecentRequest
<1>5. CASE DefaultRequest
  BY <1>1, <1>5, SetDefaultOK
<1>6. ASSUME NEW locations \in SUBSET Server, set_excluded_locations(locations)
      PROVE  DataOK(data') /\ Better
  BY <1>6, SetExcludedOK
<1>7. ASSUME NEW k \in AccountKey, activate_account(k)
      PROVE  DataOK(data') /\ Better
  BY <1>7, ActivateOK
<1>8. CASE RefuseRequest
  BY <1>1, <1>8, RefuseRequestOK
<1> QED
  BY <1>1, <1>2, <1>3, <1>4, <1>5, <1>6, <1>7, <1>8 DEF Request

-----------------------------------------------------------------------------
(* The inductive invariant *)

LEMMA IdleOK == DataOK(Idle.previous) /\ Idle.pc = "idle"
BY EmptyFileOK DEF Idle

LEMMA InitOK == Init => IInv
<1> SUFFICES ASSUME Init
             PROVE  IInv
  OBVIOUS
<1>1. StateType
  BY EmptyFileOK DEF Init, StateType
<1>2. JobOK
  BY IdleOK DEF Init, JobOK, Idle
<1> QED
  BY <1>1, <1>2 DEF Init, IInv, Progress

\* What a request does besides the data: it is accepted, or refused.
LEMMA RequestShape ==
    Request => /\ up /\ job = Idle
               /\ UNCHANGED <<file, lifecycle, autostart, published, legacy, up, torn>>
               /\ \/ job' = [pc |-> "store", previous |-> data] /\ half' = half
                  \/ job' = job /\ half' = (half \/ data' # data)
<1>1. ASSUME NEW m, mutate(m) \/ Refuse(m)
      PROVE  /\ up /\ job = Idle
             /\ UNCHANGED <<file, lifecycle, autostart, published, legacy, up, torn>>
             /\ \/ job' = [pc |-> "store", previous |-> data] /\ half' = half
                \/ job' = job /\ half' = (half \/ data' # data)
  BY <1>1 DEF mutate, Refuse, Rest
<1>2. OnboardingRequest => \E m : mutate(m) \/ Refuse(m)
  BY DEF OnboardingRequest, complete_onboarding, set_preferences, RefusePreferences
<1>3. ProfileRequest => \E m : mutate(m) \/ Refuse(m)
  BY DEF ProfileRequest, duplicate_profile, save_profile, delete_profile, Mutate
<1>4. RecentRequest => \E m : mutate(m) \/ Refuse(m)
  BY DEF RecentRequest, record_recent, pin_recent, delete_recent, Mutate
<1>5. DefaultRequest => \E m : mutate(m) \/ Refuse(m)
  BY DEF DefaultRequest, set_default_connection, Mutate
<1>6. ASSUME NEW locations \in SUBSET Server
      PROVE  set_excluded_locations(locations) => \E m : mutate(m) \/ Refuse(m)
  BY DEF set_excluded_locations, Mutate
<1>7. ASSUME NEW k \in AccountKey
      PROVE  activate_account(k) => \E m : mutate(m) \/ Refuse(m)
  BY DEF activate_account
<1>8. RefuseRequest => \E m : mutate(m) \/ Refuse(m)
  BY DEF RefuseRequest
<1> QED
  BY <1>1, <1>2, <1>3, <1>4, <1>5, <1>6, <1>7, <1>8 DEF Request

\* What open makes of what it finds.
LEMMA OpenShape ==
    StateType /\ open =>
        \E r : /\ DataOK(r)
               /\ \A k \in Key : ValidDefault(r.accounts[k], r.accounts[k].default_connection)
               /\ \/ /\ data' = r /\ file' = r /\ published' = store_state(r)
                     /\ lifecycle' = r.onboarding
                     /\ autostart' = r.onboarding.start
                     /\ up' = TRUE /\ torn' = FALSE
                  \/ /\ file' \in {file, r}
                     /\ lifecycle' \in {lifecycle, r.onboarding}
                     /\ UNCHANGED <<data, autostart, published, up, torn>>
<1> SUFFICES ASSUME StateType, open
             PROVE  \E r : /\ DataOK(r)
                           /\ \A k \in Key : ValidDefault(r.accounts[k],
                                                          r.accounts[k].default_connection)
                           /\ \/ /\ data' = r /\ file' = r /\ published' = store_state(r)
                                 /\ lifecycle' = r.onboarding
                                 /\ autostart' = r.onboarding.start
                                 /\ up' = TRUE /\ torn' = FALSE
                              \/ /\ file' \in {file, r}
                                 /\ lifecycle' \in {lifecycle, r.onboarding}
                                 /\ UNCHANGED <<data, autostart, published, up, torn>>
  OBVIOUS
<1> DEFINE read == IF file = NoFile THEN Imported ELSE {file}
<1>1. \A found \in read : DataOK(found)
  BY ImportedOK DEF StateType
<1>2. PICK found \in read : \E d \in SeededAll(found) :
        \/ /\ data' = Repaired(d) /\ file' = Repaired(d) /\ published' = store_state(Repaired(d))
           /\ lifecycle' = Repaired(d).onboarding
           /\ autostart' = Repaired(d).onboarding.start
           /\ up' = TRUE /\ torn' = FALSE
        \/ /\ file' \in {file, Repaired(d)}
           /\ lifecycle' \in {lifecycle, Repaired(d).onboarding}
           /\ UNCHANGED <<data, autostart, published, up, torn>>
  BY DEF open
<1>3. \A d \in SeededAll(found) :
         /\ DataOK(Repaired(d))
         /\ \A k \in Key : ValidDefault(Repaired(d).accounts[k],
                                        Repaired(d).accounts[k].default_connection)
  BY <1>1, OpenedOK
<1> QED
  BY <1>2, <1>3

LEMMA TypeStep == IInv /\ [Next]_vars => StateType'
<1> SUFFICES ASSUME IInv, [Next]_vars
             PROVE  StateType'
  OBVIOUS
<1> USE DEF StateType
<1>1. StateType /\ DataOK(data) /\ DataOK(job.previous)
  BY DEF IInv, JobOK
<1>2. \A d : DataOK(d) => d.onboarding \in Onboarding /\ d.onboarding.start \in BOOLEAN
  BY DEF DataOK, StoreFile, Onboarding
<1>3. job = Idle \/ up
  BY DEF IInv, JobOK
<1>4. CASE open
  <2>1. PICK r : /\ DataOK(r)
                 /\ \/ /\ data' = r /\ file' = r
                       /\ lifecycle' = r.onboarding /\ autostart' = r.onboarding.start
                       /\ up' = TRUE /\ torn' = FALSE
                    \/ /\ file' \in {file, r} /\ lifecycle' \in {lifecycle, r.onboarding}
                       /\ UNCHANGED <<data, autostart, up, torn>>
    BY <1>1, <1>4, OpenShape
  <2>2. UNCHANGED <<legacy, half>>
    BY <1>4 DEF open
  <2>3. CASE up' = TRUE /\ DataOK(data') /\ DataOK(file') /\ torn' = FALSE
             /\ lifecycle' \in Onboarding /\ autostart' \in BOOLEAN
    BY <1>1, <2>2, <2>3
  <2>4. CASE /\ file' = NoFile \/ DataOK(file')
             /\ lifecycle' \in Onboarding \cup {NoFile}
             /\ UNCHANGED <<data, autostart, up, torn>>
    BY <1>1, <2>2, <2>4
  <2> QED
    BY <1>1, <1>2, <2>1, <2>3, <2>4
<1>5. CASE Request
  <2>1. /\ DataOK(data') /\ up
        /\ UNCHANGED <<file, lifecycle, autostart, legacy, up, torn>>
    BY <1>1, <1>5, RequestOK, RequestShape
  <2>2. half' \in BOOLEAN
    BY <1>1, <1>5, RequestShape
  <2> QED
    BY <1>1, <2>1, <2>2
<1>6. CASE SaveStore
  BY <1>1, <1>6 DEF SaveStore, Rest
<1>7. CASE SaveLifecycle
  BY <1>1, <1>2, <1>7 DEF SaveLifecycle
<1>8. CASE SyncAutostart
  BY <1>1, <1>2, <1>8 DEF SyncAutostart
<1>9. CASE Rollback
  BY <1>1, <1>2, <1>9 DEF Rollback
<1>10. CASE Publish
  BY <1>1, <1>10 DEF Publish
<1>11. CASE Kill
  BY <1>1, <1>11, EmptyFileOK DEF Kill
<1>12. CASE UNCHANGED vars
  BY <1>1, <1>12 DEF vars
<1> QED
  BY <1>4, <1>5, <1>6, <1>7, <1>8, <1>9, <1>10, <1>11, <1>12 DEF Next, Write

LEMMA JobStep == IInv /\ [Next]_vars => JobOK'
<1> SUFFICES ASSUME IInv, [Next]_vars
             PROVE  JobOK'
  OBVIOUS
<1>1. JobOK /\ StateType /\ DataOK(data)
  BY DEF IInv, StateType
<1> USE DEF JobOK
<1>2. ASSUME NEW pc, job' = [job EXCEPT !.pc = pc]
      PROVE  job'.pc = pc /\ job' = [pc |-> pc, previous |-> job.previous]
  BY <1>1, <1>2
<1>3. ASSUME job' = Idle
      PROVE  JobOK'
  BY <1>3, IdleOK DEF Idle
<1>4. CASE open
  <2>1. job = Idle
    BY <1>1, <1>4 DEF open
  <2> QED
    BY <1>3, <1>4, <2>1 DEF open
<1>5. CASE Request
  <2>1. CASE job' = job
    BY <1>3, <1>5, <2>1, RequestShape
  <2>2. CASE job' = [pc |-> "store", previous |-> data]
    BY <1>1, <1>5, <2>2, RequestShape DEF Steps
  <2> QED
    BY <1>5, <2>1, <2>2, RequestShape
<1>6. CASE SaveStore
  <2>1. CASE job' = Idle
    BY <1>3, <2>1
  <2>2. CASE job' # Idle
    <3>1. PICK pc \in {"lifecycle", "publish"} : job' = [job EXCEPT !.pc = pc]
      BY <1>6, <2>2 DEF SaveStore
    <3>2. up' = up /\ job.pc = "store"
      BY <1>6 DEF SaveStore, Rest
    <3> QED
      BY <1>1, <1>2, <3>1, <3>2, IdleOK DEF Steps
  <2> QED
    BY <2>1, <2>2
<1>7. CASE SaveLifecycle
  <2>1. PICK pc \in {"autostart", "publish", "rollback"} : job' = [job EXCEPT !.pc = pc]
    BY <1>7 DEF SaveLifecycle
  <2>2. up' = up /\ job.pc = "lifecycle"
    BY <1>7 DEF SaveLifecycle
  <2> QED
    BY <1>1, <1>2, <2>1, <2>2, IdleOK DEF Steps
<1>8. CASE SyncAutostart
  <2>1. PICK pc \in {"publish", "rollback"} : job' = [job EXCEPT !.pc = pc]
    BY <1>8 DEF SyncAutostart
  <2>2. up' = up /\ job.pc = "autostart"
    BY <1>8 DEF SyncAutostart
  <2> QED
    BY <1>1, <1>2, <2>1, <2>2, IdleOK DEF Steps
<1>9. CASE Rollback \/ Publish \/ Kill
  BY <1>3, <1>9 DEF Rollback, Publish, Kill
<1>10. CASE UNCHANGED vars
  BY <1>1, <1>10 DEF vars
<1> QED
  BY <1>4, <1>5, <1>6, <1>7, <1>8, <1>9, <1>10 DEF Next, Write

\* Each write leads from one stage of Progress to the next, or back to the start.
LEMMA ProgressStep == IInv /\ [Next]_vars => Progress'
<1> SUFFICES ASSUME IInv, [Next]_vars, (up /\ ~half /\ ~torn)'
             PROVE  Progress'
  BY DEF Progress
<1>1. StateType /\ JobOK /\ Progress
  BY DEF IInv
<1>2. job = [pc |-> job.pc, previous |-> job.previous] /\ job.pc \in Steps \cup {"idle"}
  BY <1>1, IdleOK DEF JobOK
<1>3. Idle.pc = "idle" /\ (job.pc \in Steps => job # Idle /\ up)
  BY <1>1, IdleOK DEF Steps, JobOK
<1>4. ASSUME NEW pc, job' = [job EXCEPT !.pc = pc]
      PROVE  job'.pc = pc /\ job'.previous = job.previous
  BY <1>2, <1>4
<1>5. ASSUME job' = Idle, data' = file', published' = store_state(file'), Follow(file)'
      PROVE  Progress'
  BY <1>3, <1>5 DEF Progress
<1>6. CASE open
  <2>1. up = FALSE /\ job = Idle /\ job' = job
    BY <1>1, <1>6 DEF open, JobOK, StateType
  <2>2. PICK r : data' = r /\ file' = r /\ published' = store_state(r)
                 /\ lifecycle' = r.onboarding /\ autostart' = r.onboarding.start
    BY <1>1, <1>6, <2>1, OpenShape
  <2>3. Follow(file)'
    BY <2>2 DEF Follow
  <2> QED
    BY <1>5, <2>1, <2>2, <2>3
<1>7. CASE Request
  <2>1. /\ up /\ job = Idle /\ ~torn
        /\ UNCHANGED <<file, lifecycle, autostart, published>>
        /\ \/ job' = [pc |-> "store", previous |-> data] /\ half' = half
           \/ job' = job /\ half' = (half \/ data' # data)
    BY <1>7, RequestShape
  <2>2. ~half
    BY <2>1
  <2>3. data = file /\ published = store_state(file) /\ Follow(file)
    BY <1>1, <2>1, <2>2 DEF Progress
  <2>4. published' = store_state(file') /\ Follow(file)'
    BY <2>1, <2>3 DEF Follow
  <2>5. CASE job' = [pc |-> "store", previous |-> data]
    <3>1. job'.pc = "store" /\ job'.previous = file' /\ job' # Idle
      BY <1>3, <2>1, <2>3, <2>5
    <3> QED
      BY <2>4, <3>1 DEF Progress
  <2>6. CASE job' = job /\ half' = (half \/ data' # data)
    BY <1>5, <2>1, <2>3, <2>4, <2>6
  <2> QED
    BY <2>1, <2>5, <2>6
<1>8. CASE SaveStore
  <2>1. /\ job.pc = "store" /\ job.pc \in Steps /\ ~half /\ ~torn
        /\ UNCHANGED <<lifecycle, autostart, published>>
    BY <1>8 DEF SaveStore, Rest, Steps
  <2>2. job.previous = file /\ published = store_state(file) /\ Follow(file)
    BY <1>1, <1>3, <2>1 DEF Progress
  <2>3. CASE job' = Idle /\ data' = job.previous /\ file' = file
    BY <1>5, <2>1, <2>2, <2>3 DEF Follow
  <2>4. CASE file' = data /\ data' = data /\ job' = [job EXCEPT !.pc = "lifecycle"]
    <3>1. job'.pc = "lifecycle" /\ job'.previous = job.previous /\ job' # Idle
      BY <1>3, <1>4, <2>4
    <3>2. /\ published' = store_state(job'.previous)
          /\ autostart' = job'.previous.onboarding.start
      BY <2>1, <2>2, <3>1 DEF Follow
    <3> QED
      BY <2>4, <3>1, <3>2 DEF Progress
  <2>5. CASE ~OnboardingChanged /\ file' = data /\ data' = data /\ job' = [job EXCEPT !.pc = "publish"]
    <3>1. job'.pc = "publish" /\ job' # Idle
      BY <1>3, <1>4, <2>5
    <3>2. \A f \in Choices : data.onboarding[f] = job.previous.onboarding[f]
      BY <2>5 DEF OnboardingChanged, Choices
    <3>3. \A f \in Choices : lifecycle'[f] = data'.onboarding[f]
      BY <2>1, <2>2, <2>5, <3>2 DEF Follow
    <3>4. autostart' = data'.onboarding.start
      BY <2>1, <2>2, <2>5, <3>2 DEF Follow, Choices
    <3> QED
      BY <2>5, <3>1, <3>3, <3>4 DEF Progress, Follow
  <2> QED
    BY <1>8, <2>3, <2>4, <2>5 DEF SaveStore
<1>9. CASE SaveLifecycle
  <2>1. /\ job.pc = "lifecycle" /\ job.pc \in Steps /\ ~half /\ ~torn
        /\ UNCHANGED <<data, file, autostart, published>>
    BY <1>9 DEF SaveLifecycle, Steps
  <2>2. /\ file = data /\ published = store_state(job.previous)
        /\ autostart = job.previous.onboarding.start
    BY <1>1, <1>3, <2>1 DEF Progress
  <2>3. CASE job' = [job EXCEPT !.pc = "rollback"]
    <3>1. job'.pc = "rollback" /\ job'.previous = job.previous /\ job' # Idle
      BY <1>3, <1>4, <2>3
    <3> QED
      BY <2>1, <2>2, <3>1 DEF Progress
  <2>4. CASE lifecycle' = data.onboarding /\ job' = [job EXCEPT !.pc = "autostart"]
    <3>1. job'.pc = "autostart" /\ job'.previous = job.previous /\ job' # Idle
      BY <1>3, <1>4, <2>4
    <3> QED
      BY <2>1, <2>2, <2>4, <3>1 DEF Progress
  <2>5. CASE ~AutostartChanged /\ lifecycle' = data.onboarding /\ job' = [job EXCEPT !.pc = "publish"]
    <3>1. job'.pc = "publish" /\ job' # Idle
      BY <1>3, <1>4, <2>5
    <3>2. Follow(data)'
      BY <2>1, <2>2, <2>5 DEF AutostartChanged, Follow
    <3> QED
      BY <2>1, <2>2, <3>1, <3>2 DEF Progress
  <2> QED
    BY <1>9, <2>3, <2>4, <2>5 DEF SaveLifecycle
<1>10. CASE SyncAutostart
  <2>1. /\ job.pc = "autostart" /\ job.pc \in Steps /\ ~half /\ ~torn
        /\ UNCHANGED <<data, file, lifecycle, published>>
    BY <1>10 DEF SyncAutostart, Steps
  <2>2. /\ file = data /\ published = store_state(job.previous)
        /\ autostart = job.previous.onboarding.start
        /\ lifecycle = data.onboarding
    BY <1>1, <1>3, <2>1 DEF Progress
  <2>3. CASE job' = [job EXCEPT !.pc = "rollback"] /\ autostart' = autostart
    <3>1. job'.pc = "rollback" /\ job'.previous = job.previous /\ job' # Idle
      BY <1>3, <1>4, <2>3
    <3> QED
      BY <2>1, <2>2, <2>3, <3>1 DEF Progress
  <2>4. CASE autostart' = data.onboarding.start /\ job' = [job EXCEPT !.pc = "publish"]
    <3>1. job'.pc = "publish" /\ job' # Idle
      BY <1>3, <1>4, <2>4
    <3>2. Follow(data)'
      BY <2>1, <2>2, <2>4 DEF Follow
    <3> QED
      BY <2>1, <2>2, <3>1, <3>2 DEF Progress
  <2> QED
    BY <1>10, <2>3, <2>4 DEF SyncAutostart
<1>11. CASE Rollback
  <2>1. /\ job.pc = "rollback" /\ job.pc \in Steps /\ ~half /\ ~torn
        /\ data' = job.previous /\ file' = job.previous
        /\ lifecycle' = job.previous.onboarding /\ job' = Idle
        /\ UNCHANGED <<autostart, published>>
    BY <1>11 DEF Rollback, Steps
  <2>2. published = store_state(job.previous) /\ autostart = job.previous.onboarding.start
    BY <1>1, <1>3, <2>1 DEF Progress
  <2>3. Follow(file)'
    BY <2>1, <2>2 DEF Follow
  <2> QED
    BY <1>5, <2>1, <2>2, <2>3
<1>12. CASE Publish
  <2>1. /\ job.pc = "publish" /\ job.pc \in Steps /\ ~half /\ ~torn /\ job' = Idle
        /\ published' = store_state(data)
        /\ UNCHANGED <<data, file, lifecycle, autostart>>
    BY <1>12 DEF Publish, Steps
  <2>2. file = data /\ Follow(data)
    BY <1>1, <1>3, <2>1 DEF Progress
  <2>3. Follow(file)'
    BY <2>1, <2>2 DEF Follow
  <2> QED
    BY <1>5, <2>1, <2>2, <2>3
<1>13. CASE Kill
  BY <1>13 DEF Kill
<1>14. CASE UNCHANGED vars
  BY <1>1, <1>14 DEF vars, Progress, Follow
<1> QED
  BY <1>6, <1>7, <1>8, <1>9, <1>10, <1>11, <1>12, <1>13, <1>14 DEF Next, Write

-----------------------------------------------------------------------------
(* The theorems *)

\* The inductive invariant of the store: every account is sound in memory, in the file
\* and in what a rollback would bring back, and Progress says how far a request is.
THEOREM InvariantHolds == Spec => []IInv
<1>1. Init => IInv
  BY InitOK
<1>2. IInv /\ [Next]_vars => IInv'
  BY TypeStep, JobStep, ProgressStep DEF IInv
<1> QED
  BY <1>1, <1>2, PTL DEF Spec

\* Accounts keep their types; a recent is listed once, and the limit of recents that
\* are not pinned holds (trim_recents).
THEOREM TypeCorrect == Spec => []TypeOK
<1>1. IInv => TypeOK
  <2> SUFFICES ASSUME IInv
               PROVE  TypeOK
    OBVIOUS
  <2>1. StateType /\ data \in StoreFile
    BY DEF IInv, StateType, DataOK
  <2>2. ASSUME NEW k \in Key
        PROVE  AccountOK(data.accounts[k])
    <3>1. Sound(data.accounts[k], Epoch + data.revision)
      BY <2>1 DEF StateType, DataOK
    <3> QED
      BY <3>1 DEF Sound, Loose, Distinct, Unpinned, AccountStore, AccountOK
  <2> QED
    BY <2>1, <2>2 DEF TypeOK, StateType, StoreFile
<1> QED
  BY <1>1, InvariantHolds, PTL

\* Between requests the memory, the file and the snapshot agree (mutate, open).
THEOREM SavedIsPublished == Spec => []PublishedIsSaved
<1>1. IInv => PublishedIsSaved
  BY DEF IInv, Progress, PublishedIsSaved, Settled
<1> QED
  BY <1>1, InvariantHolds, PTL

\* Between requests lifecycle.json and the symlink agree with the stored choices
\* (save_lifecycle, sync_autostart_registration).
THEOREM LifecycleIsStored == Spec => []LifecycleFollows
<1>1. IInv => LifecycleFollows
  BY DEF IInv, Progress, LifecycleFollows, Settled, Follow, Choices
<1> QED
  BY <1>1, InvariantHolds, PTL

\* No recent outlives its profile, in memory or in the file (delete_profile), but for
\* those of a Qt store with more profiles than import_legacy takes.
THEOREM RecentsAlwaysResolve == Spec => []RecentsResolve
<1>1. IInv => RecentsResolve
  <2> SUFFICES ASSUME IInv, NEW d \in {data} \cup ({file} \ {NoFile}), NEW k \in Key,
                      NEW r \in d.accounts[k].recents
               PROVE  resolved_recent(d.accounts[k], r) # Error \/ FromLargeStore(r)
    BY DEF RecentsResolve
  <2>1. DataOK(d)
    BY DEF IInv, StateType
  <2>2. Sound(d.accounts[k], Epoch + d.revision)
    BY <2>1 DEF DataOK
  <2> QED
    BY <2>2, RecentsAreFound
<1> QED
  BY <1>1, InvariantHolds, PTL

\* The default connection of a known account breaks only when a recent is unpinned
\* (pin_recent, validate_default), or when it is set to or left on a recent whose
\* profile the import cut.
THEOREM DefaultsStayUsable == Spec => DefaultBreaksOnlyByUnpinning
<1> DEFINE Excused(k) ==
             \/ \E r \in data.accounts[k].recents :
                   /\ r.pinned
                   /\ \A o \in data'.accounts[k].recents : o.id = r.id => ~o.pinned
             \/ \E r \in DefaultRecents(data'.accounts[k]) : FromLargeStore(r)
           A == \A k \in Key :
                  /\ data.accounts[k].known /\ data' # job.previous
                  /\ DefaultResolves(data.accounts[k]) /\ ~DefaultResolves(data'.accounts[k])
                  => Excused(k)
<1>1. IInv /\ IInv' /\ [Next]_vars => [A]_vars
  <2> SUFFICES ASSUME IInv, IInv', Next, NEW k \in Key,
                      data.accounts[k].known, data' # job.previous,
                      DefaultResolves(data.accounts[k]), ~DefaultResolves(data'.accounts[k]),
                      ~(\E r \in DefaultRecents(data'.accounts[k]) : FromLargeStore(r))
               PROVE  \E r \in data.accounts[k].recents :
                          /\ r.pinned
                          /\ \A o \in data'.accounts[k].recents : o.id = r.id => ~o.pinned
    OBVIOUS
  <2>1. StateType /\ DataOK(data) /\ DataOK(data')
    BY DEF IInv, StateType
  <2>2. /\ Sound(data.accounts[k], Epoch + data.revision)
        /\ Sound(data'.accounts[k], Epoch + data'.revision)
    BY <2>1 DEF DataOK
  <2>3. ~Stays(data.accounts[k], data'.accounts[k])
    BY <2>2, ValidResolves DEF Stays
  <2>4. ~ValidDefault(data'.accounts[k], data'.accounts[k].default_connection)
    BY <2>3 DEF Stays
  <2>5. data' # data
    BY <2>3 DEF Stays
  <2>6. CASE open
    BY <2>1, <2>4, <2>5, <2>6, OpenShape
  <2>7. CASE Request
    BY <2>1, <2>3, <2>7, RequestOK DEF WasUnpinned
  <2>8. CASE Write
    BY <2>5, <2>8 DEF Write, SaveStore, SaveLifecycle, SyncAutostart, Rollback, Publish
  <2>9. CASE Kill
    <3>1. data'.accounts[k] = NoAccount
      BY <2>9 DEF Kill, EmptyFile
    <3>2. ValidDefault(NoAccount, NoAccount.default_connection)
      BY DEF NoAccount, NewAccount, ValidDefault, fastest_default_connection, Selection
    <3> QED
      BY <2>4, <3>1, <3>2
  <2> QED
    BY <2>6, <2>7, <2>8, <2>9 DEF Next
<1>2. Spec => [][A]_vars
  BY <1>1, InvariantHolds, PTL DEF Spec
<1> QED
  BY <1>2 DEF DefaultBreaksOnlyByUnpinning
=============================================================================
