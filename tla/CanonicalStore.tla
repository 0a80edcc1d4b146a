--------------------------- MODULE CanonicalStore ---------------------------
(***************************************************************************)
(* The canonical frontend store of the agent (agent/src/store.rs):         *)
(* onboarding and lifecycle choices of the device, and the profiles,       *)
(* recents, exclusions and default connection of each account.             *)
(*                                                                         *)
(* StoreInner is behind one mutex, so requests run one after the other;    *)
(* each file is replaced by a rename, any of which can fail, and the agent *)
(* can be killed between them.  A request that is refused returns before   *)
(* the rollback: what it had already changed in memory stays.              *)
(*                                                                         *)
(* A profile is its id, with the id "bad" for parameters that normalize_   *)
(* profile rejects; a recent is its key.  Recents are a set: trim_recents  *)
(* sorts them by the times they carry.                                     *)
(***************************************************************************)
EXTENDS Naturals, FiniteSets

CONSTANTS AccountKey,            \* fingerprints of account names
          UserProfile,           \* profile ids the clients create or name
          OfficialProfile,       \* OFFICIAL_DEFAULT_PROFILE_IDS
          Server,                \* targets of recents that are not profiles
          Legacy,                \* the stores of the Qt client there may be
          NoFile,
          Epoch,                 \* the times up to this one are older than the store
          MAX_PROFILES,          \* 128 in the code
          MAX_UNPINNED_RECENTS,  \* 6 in the code
          MaxRevision,           \* bound on the mutations
          MaxFaults,             \* bound on refused requests, failed writes and kills
          MaxWork                \* bound on both together, when a mutation begins

LEGACY_SCOPE == "legacy-unscoped"
Fastest      == "proton-default-fastest-v1"

Key     == AccountKey \cup {LEGACY_SCOPE}
Profile == UserProfile \cup OfficialProfile \cup {Fastest}
Time    == 0 .. Epoch + MaxRevision + 1

Target == ({"profile"} \X Profile) \cup ({"server"} \X Server)

Recent == [key : Target, id : Time, pinned : BOOLEAN, pin : Time, last : Time]

Selection(type, id) == <<type, id>>

fastest_default_connection == Selection("fastest", 0)

\* What normalize_default lets through.
Default == ({"fastest", "random", "last"} \X {0}) \cup ({"recent"} \X Time)
           \cup ({"profile"} \X Profile)

AccountStore == [known : BOOLEAN, profiles : SUBSET Profile, recents : SUBSET Recent,
                 excluded_locations : SUBSET Server, default_connection : Default]

NewAccount == [known |-> TRUE, profiles |-> {}, recents |-> {}, excluded_locations |-> {},
               default_connection |-> fastest_default_connection]
NoAccount  == [NewAccount EXCEPT !.known = FALSE]

Onboarding == [complete : BOOLEAN, start : BOOLEAN, auto : BOOLEAN, notify : BOOLEAN]

EmptyFile ==
    [revision |-> 0, active |-> "none",
     onboarding |-> [complete |-> FALSE, start |-> TRUE, auto |-> FALSE, notify |-> TRUE],
     accounts |-> [k \in Key |-> NoAccount],
     imported |-> FALSE, official |-> {}, fastest |-> {}]

ASSUME StoreAssumption ==
    /\ LEGACY_SCOPE \notin AccountKey /\ "none" \notin AccountKey
    /\ {MAX_PROFILES, MAX_UNPINNED_RECENTS, MaxRevision, MaxFaults, MaxWork, Epoch} \subseteq Nat
    /\ MaxRevision > 0

\* External: import_legacy takes the profiles and recents of the Qt client as they are.
\* That client lists a recent once, under one id, used at a time of its own, and deletes
\* the recents of a profile with it.
ASSUME LegacyAssumption ==
    \A account \in Legacy :
        /\ account \in AccountStore /\ account.known
        /\ IsFiniteSet(account.recents) /\ IsFiniteSet(account.profiles)
        /\ \A r, o \in account.recents : (r.key = o.key \/ r.id = o.id \/ r.last = o.last) => r = o
        /\ \A r \in account.recents :
               /\ r.id <= Epoch /\ r.last <= Epoch
               /\ r.key[1] = "profile" => r.key[2] \in account.profiles

VARIABLES data,        \* StoreInner.data
          file,        \* state-v1.json, or NoFile
          lifecycle,   \* lifecycle.json: its onboarding, or NoFile
          autostart,   \* the user-unit symlink is there
          published,   \* StateSnapshot.store, a summary
          job,         \* the request between two of its writes
          legacy,      \* connection-store.json of the Qt client, or NoAccount
          up,          \* the agent has opened its store
          half,        \* a refused request left a change in memory
          torn,        \* a rollback could not write back what it had replaced
          faults       \* refused requests, failed writes and kills so far

vars == <<data, file, lifecycle, autostart, published, job, legacy, up, half, torn, faults>>

\* account_ref: what the reads and the published summary show.
account_ref(d) ==
    IF d.active # "none" /\ d.accounts[d.active].known THEN d.accounts[d.active]
    ELSE d.accounts[LEGACY_SCOPE]

\* store_state: the summary in the snapshot.
store_state(d) ==
    [revision |-> d.revision, onboarding |-> d.onboarding, scope_known |-> d.active # "none",
     profiles |-> Cardinality(account_ref(d).profiles),
     recents |-> Cardinality(account_ref(d).recents),
     default |-> account_ref(d).default_connection, migrated |-> d.imported]

Idle == [pc |-> "idle", previous |-> EmptyFile]

Init ==
    /\ data = EmptyFile
    /\ file = NoFile /\ lifecycle = NoFile /\ autostart = FALSE
    /\ published = store_state(EmptyFile)
    /\ job = Idle
    /\ legacy \in {NoAccount} \cup Legacy
    /\ up = FALSE /\ half = FALSE /\ torn = FALSE /\ faults = 0

-----------------------------------------------------------------------------
(* Accounts *)

\* account_mut: the active account, or the unscoped one before any is known.
Scope(d) == IF d.active = "none" THEN LEGACY_SCOPE ELSE d.active

InAccount(d, k, account) == [d EXCEPT !.accounts[k] = [account EXCEPT !.known = TRUE]]

\* Variant for a mutant: one recent too many stays.
trim_recentsOneMore(account) ==
    LET unpinned == {r \in account.recents : ~r.pinned}
        newer(r) == {o \in unpinned : o.last > r.last}
    IN  [account EXCEPT !.recents =
            {r \in @ : r.pinned \/ Cardinality(newer(r)) <= MAX_UNPINNED_RECENTS}]

\* All pinned recents stay, and the newest of the others.
trim_recents(account) ==
    LET unpinned == {r \in account.recents : ~r.pinned}
        newer(r) == {o \in unpinned : o.last > r.last}
    IN  [account EXCEPT !.recents =
            {r \in @ : r.pinned \/ Cardinality(newer(r)) < MAX_UNPINNED_RECENTS}]

\* normalize_default succeeds
ValidDefault(account, selection) ==
    CASE selection[1] = "recent"  -> \E r \in account.recents : r.id = selection[2]
      [] selection[1] = "profile" -> selection[2] \in account.profiles
      [] OTHER                    -> selection[1] \in {"fastest", "random", "last"}

\* Variant for a mutant: the default is left as it is.
validate_defaultNever(account) == account

validate_default(account) ==
    IF ValidDefault(account, account.default_connection) THEN account
    ELSE [account EXCEPT !.default_connection = fastest_default_connection]

-----------------------------------------------------------------------------
(* Seeding of the accounts K.  The templates go in as far as there is room *)
(* in an account; it is marked as seeded when all of them are there.       *)

\* The official templates that may be added.
Fitting(account) ==
    {added \in SUBSET (OfficialProfile \ account.profiles) :
        LET all == account.profiles \cup added
        IN  /\ added = {} \/ Cardinality(all) <= MAX_PROFILES
            /\ OfficialProfile \subseteq all \/ Cardinality(all) >= MAX_PROFILES}

WithProfiles(d, K, added) ==
    [d EXCEPT !.accounts = [k \in Key |->
        IF k \in K THEN [d.accounts[k] EXCEPT !.known = TRUE, !.profiles = @ \cup added[k]]
        ELSE d.accounts[k]]]

seed_account_with_official_profiles(d, K) ==
    LET todo == K \ d.official
    IN  {[WithProfiles(d, todo, added) EXCEPT !.official =
             @ \cup {k \in todo : OfficialProfile \subseteq d.accounts[k].profiles \cup added[k]}]
         : added \in {f \in [todo -> SUBSET OfficialProfile] :
                         \A k \in todo : f[k] \in Fitting(d.accounts[k])}}

\* The account with the profile of the fastest server, which becomes the default
\* connection where that was the fastest server.
WithFastest(account) ==
    [account EXCEPT !.known = TRUE, !.profiles = @ \cup {Fastest},
        !.default_connection = IF @ = fastest_default_connection
                                 THEN Selection("profile", Fastest) ELSE @]

seed_account_with_fastest_profile(d, K) ==
    LET fits(account) == \/ Fastest \in account.profiles
                         \/ Cardinality(account.profiles) < MAX_PROFILES
        todo == {k \in K \ d.fastest : fits(d.accounts[k])}
    IN  [d EXCEPT !.accounts = [k \in Key |-> IF k \in todo THEN WithFastest(d.accounts[k])
                                              ELSE d.accounts[k]],
                  !.fastest = @ \cup todo]

-----------------------------------------------------------------------------
(* mutate.  The mutation is applied in memory, then written: the store,    *)
(* the lifecycle file and the symlink where the choices changed, and at    *)
(* last the snapshot.                                                      *)

Fault == faults < MaxFaults /\ faults' = faults + 1

Rest == <<lifecycle, autostart, published, legacy, up>>

\* The mutation m of the data is accepted.
mutate(m) ==
    /\ up /\ job = Idle
    /\ data.revision < MaxRevision /\ data.revision + faults < MaxWork
    /\ job' = [pc |-> "store", previous |-> data]
    /\ data' = [m EXCEPT !.revision = data.revision + 1]
    /\ UNCHANGED <<file, Rest, half, torn, faults>>

\* The mutation is refused after it has changed the data to m.
Refuse(m) ==
    /\ up /\ job = Idle
    /\ Fault
    /\ data' = m
    /\ half' = (half \/ m # data)
    /\ UNCHANGED <<file, Rest, job, torn>>

\* Variant for a mutant: automatic connection is forgotten.
OnboardingChangedWithoutAuto ==
    \E f \in {"complete", "start"} : data.onboarding[f] # job.previous.onboarding[f]

\* The choice about notifications does not count.
OnboardingChanged ==
    \E f \in {"complete", "start", "auto"} : data.onboarding[f] # job.previous.onboarding[f]

AutostartChanged == data.onboarding.start # job.previous.onboarding.start

\* Variant for a mutant: the memory keeps what could not be saved.
SaveStoreWithoutRollback ==
    /\ job.pc = "store"
    /\ \/ /\ file' = data
          /\ job' = [job EXCEPT !.pc = IF OnboardingChanged THEN "lifecycle" ELSE "publish"]
          /\ UNCHANGED faults
       \/ Fault /\ job' = Idle /\ UNCHANGED file
    /\ UNCHANGED <<data, Rest, half, torn>>

SaveStore ==
    /\ job.pc = "store"
    /\ \/ /\ file' = data
          /\ job' = [job EXCEPT !.pc = IF OnboardingChanged THEN "lifecycle" ELSE "publish"]
          /\ UNCHANGED <<data, faults>>
       \/ /\ Fault
          /\ data' = job.previous
          /\ job' = Idle
          /\ UNCHANGED file
    /\ UNCHANGED <<Rest, half, torn>>

SaveLifecycle ==
    /\ job.pc = "lifecycle"
    /\ \/ /\ lifecycle' = data.onboarding
          /\ job' = [job EXCEPT !.pc = IF AutostartChanged THEN "autostart" ELSE "publish"]
          /\ UNCHANGED faults
       \/ /\ Fault
          /\ job' = [job EXCEPT !.pc = "rollback"]
          /\ UNCHANGED lifecycle
    /\ UNCHANGED <<data, file, autostart, published, legacy, up, half, torn>>

SyncAutostart ==
    /\ job.pc = "autostart"
    /\ \/ /\ autostart' = data.onboarding.start
          /\ job' = [job EXCEPT !.pc = "publish"]
          /\ UNCHANGED faults
       \/ /\ Fault
          /\ job' = [job EXCEPT !.pc = "rollback"]
          /\ UNCHANGED autostart
    /\ UNCHANGED <<data, file, lifecycle, published, legacy, up, half, torn>>

\* Both files are written back; nobody looks whether that works.
Rollback ==
    /\ job.pc = "rollback"
    /\ data' = job.previous
    /\ \/ /\ file' = job.previous
          /\ lifecycle' = job.previous.onboarding
          /\ UNCHANGED <<torn, faults>>
       \/ /\ Fault
          /\ file' \in {file, job.previous}
          /\ lifecycle' \in {lifecycle, job.previous.onboarding}
          /\ torn' = TRUE
    /\ job' = Idle
    /\ UNCHANGED <<autostart, published, legacy, up, half>>

\* publish_locked
Publish ==
    /\ job.pc = "publish"
    /\ published' = store_state(data)
    /\ job' = Idle
    /\ UNCHANGED <<data, file, lifecycle, autostart, legacy, up, half, torn, faults>>

-----------------------------------------------------------------------------
(* The mutations *)

Account == data.accounts[Scope(data)]

Mutate(account) == mutate(InAccount(data, Scope(data), account))

\* The parameters are not valid (normalize_profile and its like): account_mut has
\* made the account before they are looked at.
RefuseRequest == Refuse(InAccount(data, Scope(data), Account))

WithOnboarding(o) == [data EXCEPT !.onboarding = o]

complete_onboarding(start, auto) ==
    mutate(WithOnboarding([data.onboarding EXCEPT !.complete = TRUE, !.start = start \/ auto,
                                                  !.auto = auto]))

\* The fields that are not given keep their value.
Given(change) ==
    [f \in DOMAIN data.onboarding |->
        IF f \in DOMAIN change THEN change[f] ELSE data.onboarding[f]]

\* Automatic connection needs the start with the session.
Agreeing(o) == [o EXCEPT !.start = o.start \/ o.auto]

set_preferences(change) == mutate(WithOnboarding(Agreeing(Given(change))))

\* A field of the wrong type is met after the fields before it were assigned.
RefusePreferences(change) == Refuse(WithOnboarding(Given(change)))

HasRoom(account) == Cardinality(account.profiles) < MAX_PROFILES

\* A new id is given out only below the limit; an id the client names is replaced,
\* or added without a look at the limit.
save_profile(id, named) ==
    /\ named \/ (id \notin Account.profiles /\ HasRoom(Account))
    /\ Mutate([Account EXCEPT !.profiles = @ \cup {id}])

duplicate_profile(source, id) ==
    /\ source \in Account.profiles
    /\ save_profile(id, FALSE)

\* Variant for a mutant: the recents of the profile stay.
delete_profileOnly(id) ==
    Mutate(validate_default([Account EXCEPT !.profiles = @ \ {id}]))

delete_profile(id) ==
    Mutate(validate_default(
        [Account EXCEPT !.profiles = @ \ {id},
                        !.recents = {r \in @ : r.key # <<"profile", id>>}]))

\* now_ms, newer than every recent there is: the revision serves as the clock.
Now == Epoch + data.revision + 1

\* A recent with the same key keeps its id and its pin.
record_recent(key) ==
    LET same == {r \in Account.recents : r.key = key}
        fresh == [key |-> key, id |-> Now, pinned |-> FALSE, pin |-> 0, last |-> Now]
        recent == IF same = {} THEN fresh ELSE [(CHOOSE r \in same : TRUE) EXCEPT !.last = Now]
    IN  /\ key[1] = "profile" => key[2] \in Account.profiles
        /\ Mutate(validate_default(trim_recents(
               [Account EXCEPT !.recents = {r \in @ : r.key # key} \cup {recent}])))

\* The default connection is not looked at, though a recent may be trimmed.
pin_recent(id, pinned) ==
    \E r \in Account.recents :
        /\ r.id = id
        /\ LET now == [r EXCEPT !.pinned = pinned, !.pin = IF pinned THEN Now ELSE 0]
           IN  Mutate(trim_recents([Account EXCEPT !.recents = (@ \ {r}) \cup {now}]))

delete_recent(id) ==
    Mutate(validate_default([Account EXCEPT !.recents = {r \in @ : r.id # id}]))

set_default_connection(selection) ==
    /\ ValidDefault(Account, selection)
    /\ Mutate([Account EXCEPT !.default_connection = selection])

\* set_excluded_locations replaces the list; entries are unique.
set_excluded_locations(locations) ==
    Mutate([Account EXCEPT !.excluded_locations = locations])

\* A new account starts from a copy of the unscoped one, and is seeded.  The steps
\* of this request are those of a mutation that changes no lifecycle choice.
activate_account(k) ==
    /\ data.active # k
    /\ LET start == IF data.accounts[k].known THEN data
                    ELSE InAccount(data, k, data.accounts[LEGACY_SCOPE])
       IN  \E seeded \in seed_account_with_official_profiles(start, {k}) :
              mutate([seed_account_with_fastest_profile(seeded, {k}) EXCEPT !.active = k])

-----------------------------------------------------------------------------
(* open, and the end of the agent *)

Known(d) == {k \in Key : d.accounts[k].known}

\* repair_default_connections
Repaired(d) == [d EXCEPT !.accounts = [k \in Key |-> validate_default(d.accounts[k])]]

\* The profiles beyond MAX_PROFILES are cut, whichever come last in the file; their
\* recents stay.
Truncated(account) ==
    {[account EXCEPT !.profiles = kept] :
        kept \in IF Cardinality(account.profiles) <= MAX_PROFILES THEN {account.profiles}
                 ELSE {some \in SUBSET account.profiles : Cardinality(some) = MAX_PROFILES}}

\* import_legacy: once, when there is no store yet.
Imported ==
    IF legacy = NoAccount THEN {EmptyFile}
    ELSE {[InAccount(EmptyFile, LEGACY_SCOPE, validate_default(trim_recents(account)))
              EXCEPT !.imported = TRUE, !.revision = 1] : account \in Truncated(legacy)}

\* Every known account is seeded.
SeededAll(d) ==
    {seed_account_with_fastest_profile(seeded, Known(d))
        : seeded \in seed_account_with_official_profiles(d, Known(d))}

\* Nothing is published before all three files are written; a failure ends the agent.
open ==
    /\ ~up
    /\ \E found \in (IF file = NoFile THEN Imported ELSE {file}) : \E d \in SeededAll(found) :
        LET r == Repaired(d) IN
        \/ /\ data' = r /\ file' = r /\ published' = store_state(r)
           /\ lifecycle' = r.onboarding
           /\ autostart' = r.onboarding.start
           /\ up' = TRUE /\ torn' = FALSE
           /\ UNCHANGED faults
        \/ /\ Fault
           /\ file' \in {file, r}
           /\ lifecycle' \in IF file' = r THEN {lifecycle, r.onboarding} ELSE {lifecycle}
           /\ UNCHANGED <<data, autostart, published, up, torn>>
    /\ UNCHANGED <<job, legacy, half>>

Kill ==
    /\ up
    /\ Fault
    /\ up' = FALSE
    /\ data' = EmptyFile
    /\ job' = Idle
    /\ half' = FALSE
    /\ UNCHANGED <<file, lifecycle, autostart, published, legacy, torn>>

-----------------------------------------------------------------------------
(* resolve_connection: what a selection connects to, or an error. *)

Error == <<"error", 0>>

resolved_profile(account, id) == IF id \in account.profiles THEN <<"profile", id>> ELSE Error

resolved_recent(account, r) ==
    IF r.key[1] = "profile" THEN resolved_profile(account, r.key[2]) ELSE r.key

resolve_connection(account, selection) ==
    LET recent(rs) == resolved_recent(account, CHOOSE r \in rs : TRUE)
        last == {r \in account.recents : \A o \in account.recents : o.last <= r.last}
        named == {r \in account.recents : r.id = selection[2]}
    IN  CASE selection[1] = "last" /\ last # {}   -> recent(last)
          [] selection[1] = "last" /\ last = {}   -> fastest_default_connection
          [] selection[1] = "recent"              -> IF named = {} THEN Error ELSE recent(named)
          [] selection[1] = "profile"             -> resolved_profile(account, selection[2])
          [] OTHER                                -> selection

-----------------------------------------------------------------------------
(* The requests of the clients, and the steps of the agent *)

RecentIds == {r.id : r \in Account.recents}

OnboardingRequest ==
    \/ \E start, auto \in BOOLEAN : complete_onboarding(start, auto)
    \/ \E f \in {"start", "auto", "notify"}, value \in BOOLEAN : set_preferences([g \in {f} |-> value])
    \/ \E f \in {"start", "auto", "notify"}, value \in BOOLEAN : 
        RefusePreferences([g \in {f} |-> value])

ProfileRequest ==
    \/ \E id \in UserProfile, named \in BOOLEAN : save_profile(id, named)
    \/ \E source \in Account.profiles, id \in UserProfile : duplicate_profile(source, id)
    \/ \E id \in Account.profiles : delete_profile(id)

RecentRequest ==
    \/ \E key \in Target : record_recent(key)
    \/ \E id \in RecentIds, pinned \in BOOLEAN : pin_recent(id, pinned)
    \/ \E id \in RecentIds : delete_recent(id)

DefaultRequest ==
    \E selection \in {<<"fastest", 0>>, <<"last", 0>>} \cup ({"recent"} \X RecentIds)
                      \cup ({"profile"} \X Account.profiles) :
        set_default_connection(selection)

Request ==
    \/ OnboardingRequest
    \/ ProfileRequest
    \/ RecentRequest
    \/ DefaultRequest
    \/ \E locations \in SUBSET Server : set_excluded_locations(locations)
    \/ \E k \in AccountKey : activate_account(k)
    \/ RefuseRequest

Write == SaveStore \/ SaveLifecycle \/ SyncAutostart \/ Rollback \/ Publish

Next == open \/ Request \/ Write \/ Kill

Spec == Init /\ [][Next]_vars

-----------------------------------------------------------------------------
(* Properties *)

AccountOK(account) ==
    /\ account.profiles \subseteq Profile
    /\ account.recents \subseteq Recent
    /\ account.excluded_locations \subseteq Server
    /\ \A r, o \in account.recents : (r.key = o.key \/ r.id = o.id) => r = o
    /\ Cardinality({r \in account.recents : ~r.pinned}) <= MAX_UNPINNED_RECENTS

\* A recent is listed once, under one id, and at most MAX_UNPINNED_RECENTS of them are
\* not pinned, in every account, whatever was recorded, pinned and deleted.
TypeOK ==
    /\ data.revision \in 0 .. MaxRevision
    /\ data.onboarding \in Onboarding
    /\ \A k \in Key : AccountOK(data.accounts[k])
    /\ data.active \in AccountKey \cup {"none"}
    /\ lifecycle \in Onboarding \cup {NoFile}
    /\ {autostart, up, half, torn} \subseteq BOOLEAN

Settled == up /\ job = Idle /\ ~half /\ ~torn

\* Between requests the memory, the file and the published snapshot agree, also after
\* writes that failed and after a restart (mutate, open).  Not promised once a refused
\* request has left a change in memory, or a rollback could not be written.
PublishedIsSaved == Settled => data = file /\ published = store_state(file)

\* The lifecycle file the session start reads, and the autostart symlink, agree with the
\* stored choices between requests, after a rollback and after a restart.
LifecycleFollows ==
    Settled => /\ \A f \in {"complete", "start", "auto"} : lifecycle[f] = file.onboarding[f]
               /\ autostart = file.onboarding.start

\* The recent r comes from a Qt store that had more profiles than are imported.
FromLargeStore(r) ==
    \E store \in Legacy : /\ Cardinality(store.profiles) > MAX_PROFILES
                          /\ \E o \in store.recents : o.key = r.key /\ o.id = r.id

\* Every recent of every account can be connected to: no recent outlives its profile,
\* in memory or in the file, whatever is saved, deleted, recorded, copied to another
\* account, rolled back and restarted.  The one exception is a recent of a Qt store
\* with more than MAX_PROFILES profiles: the import cuts the profiles and keeps the
\* recents (store.rs:1580).
RecentsResolve ==
    \A d \in {data} \cup ({file} \ {NoFile}) : \A k \in Key : \A r \in d.accounts[k].recents :
        resolved_recent(d.accounts[k], r) # Error \/ FromLargeStore(r)

DefaultResolves(account) == resolve_connection(account, account.default_connection) # Error

\* The recents that the default connection of the account stands for.
DefaultRecents(account) ==
    {r \in account.recents :
        \/ account.default_connection = <<"recent", r.id>>
        \/ /\ account.default_connection = <<"last", 0>>
           /\ \A o \in account.recents : o.last <= r.last}

\* The default connection of a known account that could be connected to stops resolving
\* in one way only: it is a recent that is unpinned and no longer among the newest
\* (pin_recent); or it has come to be a recent of a Qt store whose profiles the import
\* cut.  A rollback, which takes a default back with the request that set it, and an
\* account that starts as a copy of one with such a default are left aside.
DefaultBreaksOnlyByUnpinning ==
    [][\A k \in Key :
        /\ data.accounts[k].known /\ data' # job.previous
        /\ DefaultResolves(data.accounts[k]) /\ ~DefaultResolves(data'.accounts[k])
        => \/ \E r \in data.accounts[k].recents :
                 /\ r.pinned
                 /\ \A o \in data'.accounts[k].recents : o.id = r.id => ~o.pinned
           \/ \E r \in DefaultRecents(data'.accounts[k]) : FromLargeStore(r)
      ]_vars
=============================================================================
