# Verification of the Proton VPN Omarchy core

The core is a per-user agent (`agent/`) that owns the Proton session and one VPN tunnel, serves
several clients over a Unix socket, and drives NetworkManager, the Secret Service, Proton's API
and a privileged split-tunnel daemon (`splitd/`). This directory holds TLA+ models of its parts,
the TLC configurations that check them and the TLAPS proofs. `PROJECT.json` maps each definition
to the source lines it models.

## Inventory

| Part | State | Operations | Interacts with | What is hard | What makes it correct |
|---|---|---|---|---|---|
| Operation coordinator (`operations.rs`, `backend.rs`) | active operations, journal of 16, next id | `begin`, `finish`, stage reports, read guard | every request of every client | controls that attach to a running operation and answer late | conflicting domains never run together, ids and verdicts are stable, every operation ends |
| Connection control (`native_backend/mod.rs`) | `connection_attempt`, `network_write`, `owned_connection_uuid`, destination-policy override, kill-switch setting | connect, cancel, disconnect, `feature_set`, Local Agent watcher, maintenance loops | NetworkManager, Local Agent, split daemon, coordinator | cancellation at any await, partial failure of a teardown, loops that do not take the lock | one tunnel, always known; cancel leaves nothing; kill switch and bypass follow the tunnel |
| Account and session (same file, `refresh.rs`, `logout.rs`) | session, pending authentication, `session_restore_pending`, `auth_write` | initialize, restore, login, 2FA, FIDO2, rotate, logout | Secret Service, API, connection control | keyring opened late, rotation against restoration, two mutexes | memory equals keyring, clients see the account, logout disconnects |
| Secret store (`secret_store.rs`) | one session item per account, account index, no-reimport marker | load, save, delete, legacy import | Secret Service, account side | failure or kill between the writes of one call | one cell to its caller; a signed-out account stays out |
| Auto-connect, lifecycle (`autoconnect.rs`, `lifecycle.rs`) | retry counters, remembered operation ids, tunnel last seen | start, wake, tick, sleep, resume | coordinator journal, snapshot, connection control | user action during a back-off, overwritten or truncated journal, missed transitions | a manual action stops the sequence; a ready account and a lost tunnel are noticed |
| Split daemon (`splitd/`) | configuration and policy per user, bypass routes, tracked processes, state file | set/clear configuration, bypass, policy, process events, reconciliation, start | BPF maps, routing tables, `/proc`, agent | failure or kill inside a command, lost and misleading events | the file loads, no orphaned route, the kernel ends up enforcing the configuration |
| Canonical store (`store.rs`) | onboarding, profiles, recents, exclusions, default connection; store file, lifecycle file, autostart link | preferences, save, duplicate, delete, pin, record, activate | file system, snapshot, clients | limits, one of three files failing, refused requests | memory, files and snapshot agree; references resolve |
| State reducer, IPC, notifications (`state_reducer.rs`, `server.rs`, `session.rs`, `notifications.rs`) | snapshot, pending requests per session, idle clock, pending warning | events, hello, request, completion, tick, notify | clients, every other part | coalesced snapshots, clients that come and go, limits | one answer per frame, the clock of the last tunnel, clients catch up, no early exit, no forgotten warning |
| Guest Hole, alternative routing | temporary tunnel, routing state | request through a guest tunnel | API, NetworkManager | races with a user's connect | the temporary tunnel always goes away |
| Catalog and remote data (`catalog.rs`, `server_validation.rs`, `models.rs`, `refresh.rs`) | catalog and client configuration with their files, tier, physical location and the network it is of | refresh, lookup, lists, selection | API, connect, login and logout, network | endpoints that fail verification, inferred states, a tunnel or network that changes during a request | the best verified server is selected, what is listed can be selected, an exit is never taken for the device |
| API, web authentication, FIDO2 worker, Local Agent transport, telemetry, support, notifications, applications, packaging | mostly none | I/O | outside world | | not modelled beyond their outcome |

## Modules

- `DomainGate`: what the coordinator promises, with records, journal, controls and progress
  forgotten: a gate that hands out numbered tickets. A ticket is never handed out twice, and a
  place is given up by the holder of its ticket only. `Operations` maps its active records to the
  places, the ids of its owner leases to the tickets, and everything else to a stutter.
- `Operations`: the coordinator. The registry is behind one `std::sync::Mutex`, so `begin`,
  `finish` and each stage report is one step. `lease[r]` is the `Option<OperationLease>` a request
  slot holds between the two calls of `BackendHandle::request`. Stage keys are folded into the
  four classes the code distinguishes.
- `OperationsProofs`: theorems about `Operations`.
- `Connection`: connection control, composed with `Operations` through `INSTANCE` (a request is
  submitted by `begin` and answered by `finish`). A task is a record whose `pc` names the await
  it is at; a step is the code up to the next point where another task can interfere. The uuid of
  a tunnel is the generation that created it (the code draws a fresh uuid for each profile).
  `tunnels`, `ks`, `bypass` and `policy` are what NetworkManager and the split daemon hold.
  External calls fail when their kind is in `Faults`; a failing `reconcile_kill_switch` may fail
  before or after the blocking profile is switched, as in `network.rs`.
- `Account`: the account side. A session is the number of its token generation. All rotations
  (`refresh_tokens`, `refresh_certificate_if_needed`, `refresh_remote_data`) take `auth_write`,
  save and then store, so one job stands for them. The keyring is one atomic cell.
- `SecretStore`: the calls of the secret store, one step per item of the Secret Service they
  write; each may fail and the agent may be killed after it. `SecretCell` is what `Account` relies
  on: one cell, a call that answers `Ok` has taken effect, one that fails may have. `Account`'s
  failing writes (`WriteFails`) are exactly that.
- `SplitEngine`: the daemon. A command is a sequence of changes outside its memory (routes,
  programs, maps, file), each of which may fail or be the last before a kill; `torn` remembers that
  a command was cut short, that its undo failed as well, or that it started from maps whose rollback
  the kernel had refused (`Mixed`). A reconciliation of the tick or an event of the tracker that fails
  does not set it; `lost` has the process ids whose map entry such a failure took out of the
  tracker's sight. `state_bytes` measures a serialized state: `save` compares it with the limit
  without the newline, `load` with it. `destination_mark_program` is what the socket programs do
  with the maps.
- `CanonicalStore`: the store behind its one mutex. A mutation computes the new data, then saves the
  store file, the lifecycle file and the autostart link, and publishes, with the rollbacks of
  `mutate`. A refused request leaves what it had changed (`half`). The first start may find a store
  of the Qt client, with more profiles than `import_legacy` keeps (`Truncated`): which ones are last
  in the file is a choice.
- `Reconnect`: auto-connect, connection monitor and resume handler, composed with `Operations`
  through `INSTANCE`, beside a user who sends requests of his own.
- `StateReducer` (the closures of `send_modify`), `Notifications` (what the notifier makes of a
  snapshot) and `Ipc`, which composes them with sessions, request tasks, server and Wi-Fi monitor
  over one watch channel: `unseen` is the set of receivers that have a change to look at, so
  snapshots are coalesced as in tokio.
- `Catalog`: the pure operators of the server catalog: trusted endpoints, inferred states, the lists
  of locations and servers, which servers a target matches, and one choice among candidates. A
  server is a record with its features as a set, and a catalog the sequence of its servers, because
  the first of equal names or scores wins.
- `RemoteData`: the catalog, the client configuration, the tier and the location of the account, as
  `refresh_remote_data`, `servers.lookup`, login, logout and a restart leave them, and
  `connection.connect` from its preparation to the end of the selection, one step per round of the
  loop. The attempt goes on in `Connection`. One connect is under way at a time; the preparation of
  a cancelled one is done to the end.
- `ConnectionProofs`, `SecretStoreProofs`, `AccountProofs`, `IpcProofs`, `SplitEngineProofs`,
  `CanonicalStoreProofs`: theorems about these modules. `BackgroundProofs`: theorems about
  `RemoteData` and `Reconnect`; it extends both, so `Reconnect` names its specification
  `SequencesSpec`, with `SequencesInit`, `SequencesNext` and `SequencesTypeOK`.
- `MCOperations`, `MCConnection`, `MCAccount`, `MCSecretStore`, `MCSplitEngine`,
  `MCCanonicalStore`, `MCIpc`, `MCRemoteData`: the constants of the runs (`Reconnect` needs none).

Definitions named `...Skipped`, `...Ignored` and the like, each marked "Variant for a mutant", are
plausible bugs used to show that a property can fail; no specification uses them.

## Runs

| Run | Bounds | Result |
|---|---|---|
| `operations` | 3 request slots, 3 operations, journal of 2, one method per distinct row of `operation_spec` | all seven properties hold |
| `connection` | 3 requests on 2 slots, all kill-switch modes, policy loop, failures of preparation, observation, NetworkManager, split daemon, Local Agent; tunnels drop; a foreign VPN | five invariants hold |
| `connection_all` | 2 requests, kill-switch changes, watcher, split-route loop, failures of routes, policy, persistence, rejected sessions; fairness | every request is answered |
| `account` | 4 calls on 2 slots, keyring empty or full, locked or open, writes that fail with or without effect | three invariants hold |
| `account_live` | 2 calls on 2 slots, fairness | an invariant and two liveness properties hold |
| `secret_store` | 3 accounts, an index for 2, 2 of them perhaps in the legacy namespace, items that cannot be decoded, 4 token generations; a failure or a kill at each write, restarts | `LoggedOutStaysOut` and the refinement of `SecretCell` hold |
| `split` | 2 users, room for 1 configuration, 2 reused process ids, event channel of 1, two route offers, states below, at and above the size limit; 5 commands, faults, kills and process changes | two invariants and `EventuallyEnforced` hold |
| `store` | 1 account beside the legacy scope, 3 profiles with room for 2, 1 unpinned recent, a server, no Qt store or one of two (one is too large), 4 mutations, 2 faults (one before the fourth mutation begins) | four invariants and an action property hold |
| `reconnect` | 2 attempts each, journal of 2, 3 operations, a user who connects, cancels, signs out or sets a feature, 3 faults and events | an invariant and two liveness properties hold |
| `ipc` | sessions of one client with 2 request ids and 1 pending request, idle exit after 1 tick, an open and a protected network, 4 things from outside | three invariants, an action property and liveness hold |
| `remote_data` | 2 catalogs from the API and an unsigned one in the cache, 8 kinds of server, 14 targets, exclusions or none, 2 lookups, 2 networks, a tunnel; 3 things from outside | two invariants and `SelectionIsBest` hold |
| `rejected_restore_blocks` | Local Agent cannot be restored; fairness | `RestorationEnds` fails |

The failing run is a disagreement between the code and a document of the repository;
`PROJECT.json` quotes the lines. `RestorationEnds` is also checked by a passing run without the
circumstance that breaks it, a tunnel that is rejected while the session is restored.

The models contain further races that the code loses. They can be seen by changing the constants
of a run, and are listed as hazards with the line where they bite:

- with the watcher and a jailed session, a late rejection makes the agent forget the uuid of the
  tunnel that replaced the rejected one (`OwnTunnelIsKnown`), and with three requests a cancellation
  then answers `Ok` and leaves that tunnel up (`CancelLeavesNothingBehind`);
- with the split-route loop, or with `feature_set`, neither of which takes `network_write`, the
  bypass comes back during a teardown (`BypassGoneBeforeTeardown`);
- with route failures, the standard kill switch stays up without a tunnel, and with `feature_set`
  beside a teardown the kill switch ends in the mode that the teardown had read
  (`KillSwitchSettles`);
- a control that is dispatched before the connect it is attached to is answered and the connect
  goes on; the policy of a profile can outlive its connection;
- with a tunnel that is connecting at the start, logout leaves it up (`LogoutDisconnects`);
- a cancellation whose mark is overwritten by a progress report, or by the failure of the cancel,
  and whose attempt then fails with a retryable error does not stop auto-connect, although
  `README.md` 132 says that Cancel stops the sequence (`ManualActionStops` without `erased`);
- a tunnel that comes and goes between the API's answer and the second look makes the exit the
  device's location (`LocationIsPhysical` without `doubtful`), and `connection.connect` copies the
  session before it reads whether its location is known;
- a server that was looked up is dropped when the preparation of the connect that wants it fetches
  the catalog, although `protocol/schema.md` 92-94 says it is retained;
- with `account.get`, which publishes what it read without `auth_write`, clients see an older
  account (`PublishedAccountIsCurrent`).

Exceptions that properties make, because the code does not promise more:

- `RoutesAccountedFor` and `EventuallyEnforced` stop at `torn`: a kill inside a command, or an undo
  that fails, is repaired by nothing until the next command. `EventuallyEnforced` also leaves out
  an Include configuration without rules, which the agent never sends, and sockets marked before
  the programs were detached.
- `FileAlwaysLoads` leaves out one size. `save` of the daemon checks the length of the state before
  it adds the newline (`splitd/src/store.rs` 172, 189), and `load` checks the file (70): a state of
  exactly 2 MiB is written and then refused (`OneByteOver`). The daemon stays down until somebody
  removes the file, so `EventuallyEnforced` excuses that too. Without the exception TLC finds the
  file in a few steps.
- `EventuallyEnforced` leaves out a process id whose entry in the BPF map was left behind
  (`LeftBehind`): `handle_event` drops the process from the tracker before the map is written
  (`engine.rs` 533, 569), and `reconcile` writes new entries before it keeps the new tracking
  (455-480). When the write fails, nobody knows of the entry, and whoever gets that id next is
  excluded, until the programs are detached. Everything else that a failed event or a failed tick
  leaves is repaired, and TLC checks that; without the exception it finds the forgotten entry.
- `RecentsResolve` and `DefaultBreaksOnlyByUnpinning` leave out the recents of a Qt store with more
  than `MAX_PROFILES` profiles (`FromLargeStore`): the import cuts the profiles and keeps their
  recents (`store.rs` 1580). Both exceptions are needed: TLC finds the recent, and the default
  connection that becomes one.
- `ClockIsOfLastTunnel` says what the code does in each status: in Connecting, Error and Unknown the
  clock of the last tunnel stays until a new tunnel or a disconnection is reported
  (`state_reducer.rs` 545-551).
- `PublishedIsSaved` and `LifecycleFollows` stop at `half` (`preferences.set` or
  `onboarding.complete` refused after a first change: the change stays in memory and is written by
  the next request) and at a rollback that cannot be written.
- `DefaultBreaksOnlyByUnpinning` names the one way in which a default connection is left dangling.
  It is about known accounts: a new account starts as a copy of the unscoped one
  (`activate_account`, 221), with its default, which may dangle already. A rollback is left out,
  because it can bring back a default that dangled before the request.
- `LostTunnelIsRestored` starts once the monitor knows the operation that brought the tunnel up: it
  copies the journal before it observes, and an attempt of auto-connect that ends in between looks
  like an action of the user until the next tick. What the user did before the tunnel was lost
  excuses nothing, nor does an operation of his that is no connect, cancel, disconnect or sign-out.
  After the loss it excuses the loss of the session, and such an operation of somebody else than
  the monitor before the monitor has looked.
- `ManualActionStops` stops at `erased`, once the journal has lost a cancellation or is truncated.
- `LocationIsPhysical` stops at `doubtful`, and `SelectionIsBest` does not say which error is the
  right one when every server is either excluded or not verified: the code answers
  `all_candidates_excluded`, which is not retryable, even if an endpoint was rejected.
- `AccountReadyConnects` excuses a preference that is switched, or a session that is lost, while
  the saved session is restored: the loop then misses the transition.

What some properties take for granted:

- `InsecureWifiIsWarnedOf`: the user was warned when the notification was handed to its command. The
  code drops a failure of that command (`notifications.rs` 126, 135, 527).
- `ListedCanBeSelected`: country codes are in normal form. The list upper-cases the exit country
  (`catalog.rs` 262), the selection compares it as it came (466).
- `LocationIsPhysical`: a network is in one country. The code knows a network by interface, address
  and gateway, which two places may share.
- The length of the agent's own store file is not modelled: `save_store` (`store.rs` 1621) also adds
  its newline after its size check.

**Bounds.** The interesting overlaps need a connect, a control attached to it and what follows:
three requests on two slots. Two journal places and three operations make truncation happen. Two
request slots suffice for the account because `auth_write` admits one task at a time, and the two
internal tasks run beside them. Limits (index, configurations, channel, profiles, recents,
journal, pending requests, attempts) are set so low that they are reached with something to spare.
A secret-store call makes at most three writes, so four tokens allow an import, two logins and
what follows. Five units let the daemon meet a command, a process change, a fault, a kill and a
restart; the rarer events of `Reconnect` cost two units. In `ipc` one session is enough for the
overlap of its branches, its tasks and the channel, and sessions share nothing but the snapshot
and the count that the idle exit looks at; `MCEmitted` leaves out events that only replace a
field. In `remote_data` three things from outside are a lookup, a refresh or a change of network or
tunnel around a connect, or two of them around a restart or a login; the catalogs hold a server of
each kind that the code tells apart, with the best score on one that cannot be verified.
`MaxOperations`, `MaxRequests`, `MaxCalls`, `MaxIssued`, `MaxToken`, `MaxRevision`,
`MaxFaults`, `MaxWork`, `MaxEvents` and `Budget` bound the counters (u64 in the code) and the
environment. Runs with a
bounded environment end in a state with nothing to do, so they do not check for deadlock (the
secret store, which can always restart, does); the liveness properties do that job. Request slots
are symmetric in the safety runs; the runs with liveness use no symmetry. The type invariants of
`Connection`, `SecretStore`, `SplitEngine`, `Reconnect`, `Account`, `RemoteData` and `Ipc` are
stated in their modules and are not part of the runs; those of `Connection`, `SecretStore`,
`Reconnect`, `Account`, `RemoteData` and `Ipc` and the types of `SplitEngine`'s state are proved.

**Fairness.** Requests are spawned tasks that nobody aborts (`session.rs`, `mod.rs` 356-367), so
each step of a task is weakly fair. tokio's mutex is FIFO, so taking it is strongly fair. Timers
fire. `RestorationEnds` also assumes that the user unlocks the keyring. The world (a tunnel coming
up, dropping) is under no fairness. In `SplitEngine` the commands, the start of the daemon
(systemd restarts it), the event task and the reconciliation tick go on; clients, processes and
faults are under no fairness. In `Reconnect` the three tasks go on and a request of the user that
is under way is answered. In `Ipc` the branches of a session, the request tasks, the tick, the
notifier and the activation go on; frames, events and the network are under no fairness. In
`RemoteData` only the selection is fair: there is no await in its loop.

## Proofs

Each theorem is for every value of the constants that meets the assumptions named in the module:
any sets of clients, accounts, sessions, users, catalogs or requests, any limits, and any bounds on
counters and environment. A theorem about an invariant has the same shape everywhere: `IInv`, the
inductive invariant, holds at the start and is kept by every action (`InvariantHolds`), and implies
the property. Every `IInv` was checked by TLC on the module's run.

**`OperationsProofs`**: type correctness, exclusion, lease discipline, unambiguous ids, finality of
verdicts and the refinement of `DomainGate`, from `MethodAssumption` and `LimitAssumption`. `IInv`
is the conjunction of `TypeOK`, `NoConflictingOperations`, `LeaseDiscipline` and
`IdsNameOneRecord`; none is inductive alone. The refinement rests on it: that the id of an
owner is the ticket of its place, that a new id was never used, and that a control or a stage report
changes neither the set of running ids nor an owner. That a new operation conflicts with nothing is the
guard of `Open`, but that finishing removes only the right record needs unique ids; that a new
owner is the only one needs every id in use to be below `next_id`; and that an owner still finds
its operation needs that controls never remove one. Steps that only change a stage share
`SetStageStep`.

**`ConnectionProofs`**: type correctness with mutual exclusion, and the five invariants of the
`connection` run, for any number of requests, watchers and generations. An action changes one task
and a few other variables, so each is first reduced to its shape (`ConnectPollShape` and the like:
where the task goes, which of its fields change, what else does), and the invariants are proved from
the shapes. `BaseInv` needs nothing of the instance: `Locked` (whoever is in a critical section holds
`network_write`), `Cleared` (between the teardown of the old tunnel and the activation of the new one
the agent has none, which `OneOwnedTunnel` needs and no property says), and `Numbered` (generations
name one handler). The other invariants are relative to it:

| Theorem | Invariant | Hypotheses |
|---|---|---|
| `OneTunnel` | `BaseInv` | none |
| `OwnTunnelKnown` | `Known`: the tunnel is the remembered one even while the mutex is held, and a teardown is of that one | no `jail` fault |
| `CancelIsComplete` | `Settled`: nothing is being activated either, because the cancellation's generation stops an older connect before `activate` | no `jail` fault |
| `BypassGoesFirst` | `Guarded` | no `feature.set`, no split-route loop |
| `KillSwitchFollows` | `Follows`: no task works with an outdated mode, and the advanced kill switch follows the settings at every await | no `feature.set`, no `route` fault |

Each hypothesis is needed: without it TLC finds one of the races listed above. `DrivesCoordinator`
shows that the handlers use the coordinator only as `Operations` allows (a stage is reported only for
a method that clients call, `Asked`; a `finish` only with a result it knows), and
`OperationsStayApart` carries its exclusion and lease discipline over to the composition, from the
lemmas of `OperationsProofs`.

**`SecretStoreProofs`**: `LoggedOutStaysOut` and the refinement of `SecretCell`. The property speaks
of what a restart would load, which is decided by three items together. `CallOK` says, for each
step of each call, which of its writes the items already show; `OutOK` that a signed-out account
has no item and that the marker forbids another import; `MemoryOK` that the session in memory is
not one that only the shared namespace still has. The lemmas are about the index: what putting an account first, removing one and
cutting the index at its limit make of "the first account that loads". A refinement step is a step
of the cell at the write that changes what a restart loads, and a stutter elsewhere.

**`AccountProofs`**: `SessionMatchesKeyring`, `NoSecondFactorWhileSignedIn`,
`PublishedAccountIsCurrent` and `LogoutDisconnects`. `TasksOK` says what the holder of `auth_write`
may rely on at each `pc`: what it saw of the session when it took the mutex, and that what it has
read from or written to the keyring is there. `BootOK` says that nothing else runs before
`initialize` is over, `SecondFactorOK` that a pending factor excludes a session in use or still to
be restored, and `KeyringOK` that the keyring is behind only between the two writes of a holder. Two theorems have the condition under
which the property holds in the code: `PublishedIsCurrent` that `account.get` is not called, and
`LogoutLeavesNoTunnel` that observations succeed and that no tunnel is connecting at the start; the
runs have the same conditions, and without them TLC finds the races listed above.

**`BackgroundProofs`** is about two modules. Of `RemoteData` it shows:

- `LocationIsPhysical`, which needs `AnswerIsPhysical`: what a refresh knows between its two looks
  at the network.
- `ListedCanBeSelected`, a statement about the operators of `Catalog` once types are known. It needs
  of the API that no two servers of a catalog have one id and that a name belongs to one id
  (`RemoteAssumption`), because the lists go by id and the selection by name.
- `SelectedIsRight` and `SelectionAdvances`, which together are `SelectionIsBest` without its
  fairness: whenever a selection has ended its result is the right one, and each round that does not
  end it takes a server out of a finite set. The first is not inductive: `LoopInv` says of a
  selection under way that the servers put aside were meant by the request, that none of them has an
  endpoint to trust, and that `rejected` tells whether there are any. That a fastest server exists
  among the candidates is an argument by well-foundedness on scores.

Of `Reconnect` it shows `ManualActionStops`, the types, and that auto-connect, monitor, resume
handler and user go through the coordinator as `Operations` allows (`SequencesDriveCoordinator`), so
that its exclusion, leases and ids hold in the composition (`SequencesStayApart`, from the theorems
of `OperationsProofs`), from `ReconnectAssumption` and `CoordinatorAssumption`.
`ManualActionStops` speaks of what the user did since a task took its baseline, the task of what it
finds in the journal, and three facts join them: a baseline names only operations that had ended
when it was taken, and ids are not used again (`Fresh`); what is in the active list runs, so that its
id is in no baseline when it ends (`Running`); and what the user did since is an entry that the task
takes for a manual action, or it was erased (`Trace`). The last is kept because every call of the
coordinator either keeps the trace of each record or sets `erased` (`JournalKept`); the actions of
the tasks are first reduced to whether they go on with their baseline or take a new one.

**`IpcProofs`**: `FramesAreAnsweredOnce`, `ClockIsOfLastTunnel`, `InsecureWifiIsWarnedOf` and the
action property `ExitsAfterGrace`. The clock is compared with the history of all connection reports
(`reports`), which knows nothing of `connected_at`'s rule; `HistoryOK` says that no
two reports are of one time, that none is from the future and that the last one is the status shown,
without which the property is not inductive. `FramesOK` counts, for each session and id, the frames, the
answers and what is under way; ids are unbounded, so that finitely many wait is part of it.
`WifiOK` ties the snapshot to the network seen last; `EmitterOK` says that the emitter is never
ahead of the snapshot and has handled every network it had reason to warn of in a snapshot it has
seen, whatever was coalesced; `IdleOK` that the idle clock is never ahead of the time without
clients. Sessions are any set without the name `"notifier"`, which shares the watch channel with
them.

**`SplitEngineProofs`**: `FileAlwaysLoads` and `RoutesAccountedFor`. A command can be undone at any
step and the file written in between, so `RulesOK` and `LimitOK` demand the conditions of
`load_accepts` of the file, of the memory, and of what the memory is once the command is undone.
`RoutesOK` says that the kernel has no route that the memory does not know, nor the memory one that
the file does not know, but for those of the user the command is about. Of sizes nothing is assumed
but that an empty state fits (`SizeAssumption`): a state without its bypass may even be the longer
one, which is why the file that a start cleans is checked again. The programs, maps and processes
have no part in it.

**`CanonicalStoreProofs`**: all five properties of the run, `DefaultBreaksOnlyByUnpinning` among
them. An account is `Sound` when its recents are finitely many, distinct in key, id and time of
use, not from the future, each with its profile, and within the limit. `IInv` demands it of the
data in memory, of the file, and of what a rollback brings back, because each can become the other;
`Progress` says for each stage of a request which of the three files and the snapshot show the old
data and which the new. That at most `MAX_UNPINNED_RECENTS` recents survive `trim_recents` is the
lemma `NewestAreFew`: the number of newer ones is an injection from the survivors into
`0 .. MAX_UNPINNED_RECENTS - 1`. For the default connection, `ValidResolves` shows that it resolves
exactly when `normalize_default` accepts it; every request other than `pin_recent` keeps that. The
store of the Qt client is assumed to be well formed (`LegacyAssumption`), with any number of profiles;
`Placed` says of a recent that its profile is there or that it is from a store that was cut, and
`TruncatedLoose` that the cut leaves nothing worse.

What the proofs changed in the models:

- `CASE` expressions whose guards overlap were made disjoint (`CanonicalStore`, `Catalog`,
  `Notifications`, `Operations`, `Reconnect`, `RemoteData`, `StateReducer`): TLC takes the first
  arm, as the `match` in the code does, but the meaning of such a `CASE` is any of them.
- `DefaultBreaksOnlyByUnpinning` turned out to be false with a fourth mutation, for new accounts and
  for rollbacks; it now says so, and its run has the fourth mutation.
- Generations and uuids of `Connection` are natural numbers without a bound (`Uuid`), its methods are
  those that have a handler there, and its type invariant gives the settings the type of a mode
  rather than the modes of the instance.
- `Operations` no longer assumes that 0 is not a client, which nothing used; `Reconnect` states the
  assumptions of the coordinator that it instantiates; `RemoteAssumption` says that scores are
  natural numbers (in the code they are finite floating-point numbers, of which only the order
  matters).

Only model-checked: liveness (`EveryOperationEnds`, `EveryRequestIsAnswered`, `RestorationEnds`,
`EventuallyEnforced`, `AccountReadyConnects`, `LostTunnelIsRestored`, `ClientsCatchUp` and
`SelectionIsBest`), which is out of the prover's reach. For `SelectionIsBest` everything but the
fairness of the loop is proved. Every invariant and action property of the runs is proved.

## Plan

Done so far: coordinator, connection control, account; secret store with its abstract cell; split
daemon; auto-connect and lifecycle on the coordinator; canonical store; IPC, state reducer and
the Wi-Fi warning; catalog, selection and remote data. Left: `GuestHole` beside `Connection`, and the remaining features of `feature_set`, `protocol.set`
and `dns.set`.

## Not modelled

Formatting and transport of messages, D-Bus marshalling, cryptography and HTTP, USB traffic of
security keys, telemetry, support reports, desktop file parsing, packaging and the vendored Local
Agent client. Of `feature_set` only the kill switch is modelled; the live features are requests to
the Local Agent without state of their own in the agent. The binding and locking of the socket and
the bridge from stdin to it are I/O. Of the notifications only the Wi-Fi warning keeps something
from one snapshot to a later one that is not the next. Of the catalog, the ranking of a search,
paging and the order of lists are left out. The Guest Hole is next in the plan.
