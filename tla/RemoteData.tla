---------------------------- MODULE RemoteData -----------------------------
(***************************************************************************)
(* What the agent keeps of Proton's API besides the tokens, and how a      *)
(* connection attempt uses it (native_backend/refresh.rs and the catalog   *)
(* and lookup handlers of native_backend/mod.rs): the account's tier and   *)
(* physical location, the client configuration and the server catalog.     *)
(*                                                                         *)
(* auth_write keeps refresh, the preparation of a connection, login and    *)
(* logout apart; servers.lookup does not take it and answers whenever the  *)
(* API does.  A selection runs under the read lock of RuntimeState, so     *)
(* nothing is written while it goes round its loop.  Token rotation and    *)
(* the two copies of the session are in Account, the tunnel's own steps in *)
(* Connection; here a tunnel only comes and goes.                          *)
(***************************************************************************)
EXTENDS Catalog

CONSTANTS Offered,       \* the catalogs the API may return
          Cached,        \* the catalogs earlier versions may have left
          LookedUp,      \* the servers a lookup may return
          Tiers,         \* what the account may be entitled to
          Network,       \* identities of physical networks, never ""
          CountryOf,     \* the country of each network
          Exit,          \* the country the API sees through the tunnel
          Targets,       \* the targets clients connect to
          Exclusions,    \* the sets of excluded locations there may be
          NoSession, NoCatalog, NoNetwork,
          MaxEvents      \* bound on what comes from outside

\* Every server that the API may name.
Server == LookedUp \cup UNION {{c[i] : i \in DOMAIN c} : c \in Offered \cup Cached}

\* What a session's location may be; "" before it is known.
Countries == {"", Exit} \cup {CountryOf[n] : n \in Network}

\* No two servers of a catalog have one id.
OneEach(servers) == \A i, j \in DOMAIN servers : servers[i].id = servers[j].id => i = j

ASSUME RemoteAssumption ==
    /\ Tiers \subseteq Nat /\ MaxEvents \in Nat
    /\ DOMAIN CountryOf = Network
    /\ Offered \cup Cached \subseteq Seq(Server)
    /\ \A c \in Offered \cup Cached : OneEach(c)
    /\ \A s \in Server :
        s.features \subseteq Feature /\ s.servers \subseteq PhysicalServer /\ s.score \in Nat
    /\ \A s, t \in Server : s.name = t.name => s.id = t.id
    /\ NoSession \notin [tier : Tiers, location : Countries]
    /\ NoCatalog \notin [servers : Seq(Server), expired : BOOLEAN]
    /\ NoNetwork \notin Network

VARIABLES session,                  \* tier and location, or NoSession
          catalog, catalog_file,    \* servers and whether they have expired, or NoCatalog
          client_config, config_file,    \* "none", "stale" or "fresh"
          physical_location_known, location_identity,
          refresh_due, location_due,     \* remote_refresh_after, location_retry_after have passed
          network, tunnel,          \* the machine's network; whether a VPN is up
          refresh,                  \* refresh_remote_data under way
          connect,                  \* connection.connect up to the selection
          lookup,                   \* servers.lookup under way
          doubtful,                 \* history: the location may not be the network's
          events                    \* what has come from outside so far

cached   == <<catalog, catalog_file, client_config, config_file>>
location == <<physical_location_known, location_identity, doubtful>>
timers   == <<refresh_due, location_due>>
outside  == <<network, tunnel>>
tasks    == <<refresh, connect, lookup>>
vars     == <<session, cached, location, timers, outside, tasks, events>>

Idle == [pc |-> "idle"]

Fetched(c) == [servers |-> c, expired |-> FALSE]
Aged(c)    == IF c = NoCatalog THEN c ELSE [c EXCEPT !.expired = TRUE]

Init ==
    /\ session \in {NoSession} \cup [tier : Tiers, location : {""}]
    /\ catalog_file \in {NoCatalog} \cup {Aged(Fetched(c)) : c \in Cached}
    /\ catalog = catalog_file
    /\ client_config = "none" /\ config_file = "none"
    /\ physical_location_known = FALSE /\ location_identity = NoNetwork /\ doubtful = FALSE
    /\ refresh_due = TRUE /\ location_due = TRUE
    /\ network \in Network /\ tunnel = FALSE
    /\ refresh = Idle /\ connect = Idle /\ lookup = Idle
    /\ events = 0

(* Locks *)

auth_write_free == refresh.pc = "idle" /\ connect.pc \notin {"get_config", "get_catalog"}
state_free      == connect.pc \notin {"loop", "selected"}

Outside == events < MaxEvents /\ events' = events + 1

(* refresh_remote_data *)

\* What follows taking auth_write with a session.
EnterRefresh(force) ==
    /\ refresh' = [pc |-> IF force \/ refresh_due THEN "account" ELSE "observe",
                   force |-> force, account |-> force \/ refresh_due]
    /\ refresh_due' = FALSE
    /\ UNCHANGED location_due

\* account.refresh, or a tick of the observation loop; without `force` a busy
\* auth_write is not waited for.
RefreshStart(force) ==
    /\ Outside /\ state_free /\ auth_write_free /\ session # NoSession
    /\ EnterRefresh(force)
    /\ UNCHANGED <<session, cached, location, outside, connect, lookup>>

\* A failed request is remembered and the next part goes on; a failed write ends it.
RefreshAccount ==
    /\ refresh.pc = "account" /\ state_free
    /\ \/ \E tier \in Tiers :
            session' = [session EXCEPT !.tier = tier] /\ refresh' = [refresh EXCEPT !.pc = "config"]
       \/ refresh' = [refresh EXCEPT !.pc = "config"] /\ UNCHANGED session
       \/ refresh' = Idle /\ UNCHANGED session
    /\ UNCHANGED <<cached, location, timers, outside, connect, lookup, events>>

save_client_config == client_config' = "fresh" /\ config_file' = "fresh"

RefreshConfig ==
    /\ refresh.pc = "config" /\ state_free
    /\ \/ save_client_config /\ refresh' = [refresh EXCEPT !.pc = "observe"]
       \/ refresh' = [refresh EXCEPT !.pc = "observe"] /\ UNCHANGED <<client_config, config_file>>
       \/ refresh' = Idle /\ UNCHANGED <<client_config, config_file>>
    /\ UNCHANGED <<session, catalog, catalog_file, location, timers, outside, connect, lookup,
                   events>>

\* A location of another network is not the device's any more; a new one is only
\* asked for while no VPN is up.
RefreshObserve ==
    /\ refresh.pc = "observe" /\ state_free
    /\ LET known == physical_location_known /\ location_identity = network
           ask   == ~tunnel /\ (refresh.force \/ ((~known \/ refresh.account) /\ location_due))
       IN  \/ refresh' = Idle /\ UNCHANGED <<physical_location_known, location_due>>
           \/ /\ network # NoNetwork
              /\ physical_location_known' = known
              /\ location_due' = (location_due /\ ~ask)
              /\ refresh' = IF ask THEN [pc |-> "location", identity |-> network] ELSE Idle
    /\ UNCHANGED <<session, cached, location_identity, doubtful, refresh_due, outside, connect,
                   lookup, events>>

\* The API answers with the country the request comes from.
LocationRequest ==
    /\ refresh.pc = "location"
    /\ \/ refresh' = Idle
       \/ /\ network # NoNetwork
          /\ refresh' = [pc |-> "located", identity |-> refresh.identity, back |-> FALSE,
                         country |-> IF tunnel THEN Exit ELSE CountryOf[network]]
    /\ UNCHANGED <<session, cached, location, timers, outside, connect, lookup, events>>

\* Variant for a mutant: only the network is looked at again.
UnchangedNetwork == network = refresh.identity

Unchanged == ~tunnel /\ network = refresh.identity

\* "Never relabel a VPN exit address as the physical IP if a connection started while
\* the HTTP request ran": network and tunnel are looked at again.
LocationCheck ==
    /\ refresh.pc = "located" /\ state_free
    /\ refresh' = Idle
    /\ \/ /\ Unchanged
          /\ session' = [session EXCEPT !.location = refresh.country]
          /\ location_identity' = refresh.identity
          /\ physical_location_known' = TRUE
          /\ doubtful' = refresh.back
       \/ UNCHANGED <<session, location>>
    /\ UNCHANGED <<cached, timers, outside, connect, lookup, events>>

(* connection.connect: preparation *)

Answer(code) == [pc |-> "done", code |-> code]

At(pc) == [pc |-> pc]

\* Of the request nothing is looked at before the selection.  The refresh that comes
\* first is skipped when auth_write is busy, and its errors are ignored.
ConnectStart ==
    /\ Outside /\ connect.pc = "idle"
    /\ IF auth_write_free /\ session # NoSession
       THEN EnterRefresh(FALSE) /\ connect' = At("refreshing")
       ELSE connect' = At("ensure_config") /\ UNCHANGED <<refresh, timers>>
    /\ UNCHANGED <<session, cached, location, outside, lookup>>

ConnectRefreshed ==
    /\ connect.pc = "refreshing" /\ refresh.pc = "idle"
    /\ connect' = At("ensure_config")
    /\ UNCHANGED <<session, cached, location, timers, outside, refresh, lookup, events>>

EnsureClientConfig ==
    /\ connect.pc = "ensure_config" /\ auth_write_free
    /\ connect' = IF session = NoSession THEN Answer("not_authenticated")
                  ELSE At(IF client_config = "fresh" THEN "ensure_catalog" ELSE "get_config")
    /\ UNCHANGED <<session, cached, location, timers, outside, refresh, lookup, events>>

\* A configuration that is stale is better than none, unless the new one could not
\* be written.
GetClientConfig ==
    /\ connect.pc = "get_config"
    /\ \/ save_client_config /\ connect' = At("ensure_catalog")
       \/ /\ connect' = IF client_config = "none" THEN Answer("api")
                                                  ELSE At("ensure_catalog")
          /\ UNCHANGED <<client_config, config_file>>
       \/ connect' = Answer("save") /\ UNCHANGED <<client_config, config_file>>
    /\ UNCHANGED <<session, catalog, catalog_file, location, timers, outside, refresh, lookup,
                   events>>

ensure_signed_catalog ==
    /\ connect.pc = "ensure_catalog" /\ auth_write_free
    /\ LET signed == catalog # NoCatalog /\ has_endpoint_signatures(catalog.servers)
       IN  connect' = IF session = NoSession THEN Answer("not_authenticated")
                      ELSE IF signed /\ ~catalog.expired THEN At("select")
                      ELSE [pc |-> "get_catalog", signed |-> signed]
    /\ UNCHANGED <<session, cached, location, timers, outside, refresh, lookup, events>>

\* The catalog that was read when the request was sent decides whether its failure
\* matters; an unsigned answer is a failure.
GetCatalog ==
    /\ connect.pc = "get_catalog"
    /\ \/ \E c \in Offered :
            /\ has_endpoint_signatures(c)
            /\ catalog_file' = Fetched(c) /\ catalog' = Fetched(c)
            /\ connect' = At("select")
       \/ /\ connect' = IF connect.signed THEN At("select") ELSE Answer("api")
          /\ UNCHANGED <<catalog, catalog_file>>
       \/ connect' = Answer("save") /\ UNCHANGED <<catalog, catalog_file>>
    /\ UNCHANGED <<session, client_config, config_file, location, timers, outside, refresh,
                   lookup, events>>

(* connection.connect: ServerCatalog::select_validated *)

\* The session is copied before the read lock is taken: a refresh in between is not
\* seen by what follows.
ReadSession ==
    /\ connect.pc = "select"
    /\ connect' = IF session = NoSession THEN Answer("not_authenticated")
                  ELSE [pc |-> "session", tier |-> session.tier, location |-> session.location]
    /\ UNCHANGED <<session, cached, location, timers, outside, refresh, lookup, events>>

device_country == IF physical_location_known THEN connect.location ELSE ""

SelectStart(t, excluded) ==
    /\ connect.pc = "session"
    /\ connect' =
        IF catalog = NoCatalog THEN Answer("catalog_unavailable")
        ELSE IF client_config = "none" THEN Answer("client_config_unavailable")
        ELSE IF TargetError(t, device_country) # "" THEN Answer(TargetError(t, device_country))
        ELSE [pc |-> "loop", t |-> t, excluded |-> excluded, tier |-> connect.tier,
              country |-> device_country, rejected |-> FALSE,
              available |-> {i \in Within(catalog.servers, connect.tier) :
                                enabled(catalog.servers[i])}]
    /\ UNCHANGED <<session, cached, location, timers, outside, refresh, lookup, events>>

Ends(code, server, physical) ==
    connect' = [pc |-> "selected", t |-> connect.t, excluded |-> connect.excluded,
                tier |-> connect.tier, country |-> connect.country,
                code |-> code, server |-> server, physical |-> physical]

\* Variant for a mutant: the first server that is rejected ends the selection.
RejectStops(i) == Ends("server_validation_failed", 0, {})

\* The server the loop chooses has no endpoint that can be trusted: it is not
\* considered again.
Reject(i) ==
    IF connect.t.server_name # "" \/ connect.available = {i}
    THEN Ends("server_validation_failed", 0, {})
    ELSE connect' = [connect EXCEPT !.available = @ \ {i}, !.rejected = TRUE]

NothingLeft == Ends(IF connect.rejected THEN "server_validation_failed" ELSE "server_not_found", 0, {})

Take(i) ==
    LET s == catalog.servers[i]
    IN  IF ~(connect.t.features \subseteq s.features)
        THEN Ends("server_feature_mismatch", 0, {})
        ELSE \/ Verified(s) = {} /\ Reject(i)
             \/ \E p \in Verified(s) : Ends("", i, {p})

Named == {i \in connect.available : catalog.servers[i].name = connect.t.server_name}

Candidates ==
    {i \in connect.available :
        matches(catalog.servers, connect.t, connect.country, catalog.servers[i])}

Permitted ==
    IF ExclusionsApply(connect.t, connect.tier, connect.excluded)
    THEN {i \in Candidates : ~IsExcluded(catalog.servers, catalog.servers[i], connect.excluded)}
    ELSE Candidates

\* One round of the loop of select_validated.
SelectStep ==
    /\ connect.pc = "loop"
    /\ CASE connect.t.server_name # "" /\ Named # {} ->
              Take(CHOOSE i \in Named : \A j \in Named : i <= j)
         [] connect.t.server_name # "" /\ Named = {} -> NothingLeft
         [] connect.t.server_name = "" /\ Permitted # {} ->
              \E i \in Choices(catalog.servers, connect.t, Permitted) : Take(i)
         [] connect.t.server_name = "" /\ Permitted = {} ->
              IF Candidates # {} THEN Ends("all_candidates_excluded", 0, {}) ELSE NothingLeft
    /\ UNCHANGED <<session, cached, location, timers, outside, refresh, lookup, events>>

\* The read lock is released, and the attempt goes on in Connection with copies of
\* what was selected.  An attempt that is cancelled before it has network_write still
\* has its preparation done to the end.
ConnectGone ==
    /\ connect.pc \in {"select", "done", "selected"}
    /\ connect' = Idle
    /\ UNCHANGED <<session, cached, location, timers, outside, refresh, lookup, events>>

(* servers.lookup *)

\* A name that the catalog has within the tier is answered from it.
LookupStart(s) ==
    /\ Outside /\ lookup.pc = "idle" /\ session # NoSession
    /\ catalog # NoCatalog =>
        \A i \in Within(catalog.servers, session.tier) : catalog.servers[i].name # s.name
    /\ lookup' = [pc |-> "asked", server |-> s, tier |-> session.tier]
    /\ UNCHANGED <<session, cached, location, timers, outside, refresh, connect>>

WithServer(servers, s) ==
    IF \E i \in DOMAIN servers : servers[i].id = s.id
    THEN [i \in DOMAIN servers |-> IF servers[i].id = s.id THEN s ELSE servers[i]]
    ELSE Append(servers, s)

\* The answer is put into the catalog there is when it arrives, and not saved.
LookupEnd ==
    /\ lookup.pc = "asked" /\ state_free
    /\ lookup' = Idle
    /\ \/ /\ lookup.server.tier <= lookup.tier /\ catalog # NoCatalog
          /\ catalog' = [catalog EXCEPT !.servers = WithServer(@, lookup.server)]
       \/ UNCHANGED catalog
    /\ UNCHANGED <<session, catalog_file, client_config, config_file, location, timers, outside,
                   refresh, connect, events>>

(* Login, logout and restart *)

\* finalize_auth: the files are written, then the session, then memory; a failure
\* leaves the files that were written.
Login ==
    /\ Outside /\ state_free /\ auth_write_free /\ session = NoSession /\ network # NoNetwork
    /\ \E c \in Offered, tier \in Tiers, config_saved, session_saved \in BOOLEAN :
        /\ has_endpoint_signatures(c)
        /\ catalog_file' = Fetched(c)
        /\ config_file' = IF config_saved THEN "fresh" ELSE config_file
        /\ IF config_saved /\ session_saved
           THEN /\ session' = [tier |-> tier, location |-> IF tunnel THEN Exit ELSE CountryOf[network]]
                /\ catalog' = Fetched(c) /\ client_config' = "fresh"
                /\ refresh_due' = FALSE /\ physical_location_known' = FALSE
           ELSE UNCHANGED <<session, catalog, client_config, refresh_due, physical_location_known>>
    /\ UNCHANGED <<location_identity, doubtful, location_due, outside, tasks>>

\* A cache file that cannot be removed stays.
Logout ==
    /\ Outside /\ state_free /\ auth_write_free /\ session # NoSession
    /\ session' = NoSession /\ catalog' = NoCatalog /\ client_config' = "none"
    /\ physical_location_known' = FALSE /\ location_identity' = NoNetwork
    /\ refresh_due' = TRUE /\ location_due' = TRUE
    /\ catalog_file' \in {catalog_file, NoCatalog} /\ config_file' \in {config_file, "none"}
    /\ UNCHANGED <<doubtful, outside, tasks>>

\* load_cached_state: a file that is missing, too large or corrupt is no cache.
Restart ==
    /\ Outside
    /\ catalog' \in {catalog_file, NoCatalog} /\ client_config' \in {config_file, "none"}
    /\ physical_location_known' = FALSE /\ location_identity' = NoNetwork
    /\ refresh_due' = TRUE /\ location_due' = TRUE
    /\ refresh' = Idle /\ connect' = Idle /\ lookup' = Idle
    /\ UNCHANGED <<session, catalog_file, config_file, doubtful, outside>>

(* Time, network and tunnel *)

Expire ==
    /\ Outside
    /\ catalog' = Aged(catalog) /\ catalog_file' = Aged(catalog_file)
    /\ client_config' = IF client_config = "none" THEN "none" ELSE "stale"
    /\ config_file' = IF config_file = "none" THEN "none" ELSE "stale"
    /\ refresh_due' = TRUE /\ location_due' = TRUE
    /\ UNCHANGED <<session, location, outside, tasks>>

\* History: what the answer of the API was about has changed back by the time it is
\* looked at.
Moved(changed) ==
    refresh' = IF refresh.pc = "located" /\ changed THEN [refresh EXCEPT !.back = TRUE] ELSE refresh

NetworkChange ==
    /\ Outside
    /\ network' \in (Network \cup {NoNetwork}) \ {network}
    /\ Moved(refresh.pc = "located" /\ network' = refresh.identity)
    /\ UNCHANGED <<session, cached, location, timers, tunnel, connect, lookup>>

TunnelChange ==
    /\ Outside
    /\ tunnel' = ~tunnel
    /\ Moved(tunnel)
    /\ UNCHANGED <<session, cached, location, timers, network, connect, lookup>>

Next ==
    \/ \E force \in BOOLEAN : RefreshStart(force)
    \/ RefreshAccount \/ RefreshConfig \/ RefreshObserve \/ LocationRequest \/ LocationCheck
    \/ ConnectStart \/ ConnectRefreshed \/ EnsureClientConfig \/ GetClientConfig
    \/ ensure_signed_catalog \/ GetCatalog
    \/ ReadSession
    \/ \E t \in Targets, excluded \in Exclusions : SelectStart(t, excluded)
    \/ SelectStep \/ ConnectGone
    \/ \E s \in LookedUp : LookupStart(s)
    \/ LookupEnd
    \/ Login \/ Logout \/ Restart
    \/ Expire \/ NetworkChange \/ TunnelChange

Spec == Init /\ [][Next]_vars

\* The selection has no await in it: once it has begun it goes on.
FairSpec == Spec /\ WF_vars(SelectStep)

(* Properties *)

CatalogType == [servers : {c \in Seq(Server) : OneEach(c)}, expired : BOOLEAN]

RefreshType ==
    [pc : {"idle"}]
        \cup [pc : {"account", "config", "observe"}, force : BOOLEAN, account : BOOLEAN]
        \cup [pc : {"location"}, identity : Network]
        \cup [pc : {"located"}, identity : Network, back : BOOLEAN, country : Countries]

\* Every variable has its type, but for the task of connect, and no catalog has two
\* servers with one id, whatever a lookup has put into it.
TypeOK ==
    /\ session \in {NoSession} \cup [tier : Tiers, location : Countries]
    /\ {catalog, catalog_file} \subseteq {NoCatalog} \cup CatalogType
    /\ {client_config, config_file} \subseteq {"none", "stale", "fresh"}
    /\ {physical_location_known, refresh_due, location_due, tunnel, doubtful} \subseteq BOOLEAN
    /\ {location_identity, network} \subseteq {NoNetwork} \cup Network
    /\ refresh \in RefreshType
    /\ lookup \in [pc : {"idle"}] \cup [pc : {"asked"}, server : LookedUp, tier : Tiers]
    /\ events \in 0 .. MaxEvents

\* The servers that a request means: those with its name, or those that match it and
\* are not excluded.
Meant ==
    {i \in Within(catalog.servers, connect.tier) :
        LET s == catalog.servers[i] IN
        /\ enabled(s)
        /\ IF connect.t.server_name # ""
           THEN s.name = connect.t.server_name /\ connect.t.features \subseteq s.features
           ELSE /\ matches(catalog.servers, connect.t, connect.country, s)
                /\ ExclusionsApply(connect.t, connect.tier, connect.excluded)
                   => ~IsExcluded(catalog.servers, s, connect.excluded)}

Usable == {i \in Meant : Verified(catalog.servers[i]) # {}}

\* The servers that the one selected is compared with.
Rivals ==
    IF connect.t.random_server \/ connect.t.server_name # "" THEN {}
    ELSE IF connect.t.random \/ connect.t.free_random
    THEN {i \in Usable : catalog.servers[i].exit = catalog.servers[connect.server].exit}
    ELSE Usable

RightAnswer ==
    IF connect.code = ""
    THEN /\ connect.server \in Usable
         /\ connect.physical \subseteq Verified(catalog.servers[connect.server])
         /\ \A i \in Rivals : catalog.servers[connect.server].score <= catalog.servers[i].score
    ELSE /\ Usable = {}
         /\ connect.code = "server_not_found" => Meant = {}
         /\ connect.code = "server_validation_failed" => Meant # {}

\* Whatever the selection ends with is the right answer: the safety half of
\* SelectionIsBest.
SelectedIsRight == connect.pc = "selected" => RightAnswer

\* Why a selection ends: every round of the loop is its last or leaves fewer servers
\* for the next, so there are no more rounds than servers.
Advances ==
    \/ connect'.pc = "selected"
    \/ /\ connect'.pc = "loop"
       /\ Cardinality(connect'.available) < Cardinality(connect.available)

SelectionAdvances == [][SelectStep => Advances]_vars

\* However many servers are rejected for their endpoints on the way, a selection ends
\* (unless the agent is killed), and its answer is the fastest server the request means,
\* of the country drawn if one was, with a verified endpoint; it is an error only if no
\* such server has one, and "not found" only if there is no such server at all
\* (schema.md: "chooses an eligible country uniformly and then that country's best
\* logical server").
SelectionIsBest ==
    connect.pc = "loop" ~> (connect.pc = "selected" /\ RightAnswer) \/ connect.pc = "idle"

\* A target is accepted and means a server of the account's tier, whatever its status.
CanBeSelected(t) ==
    /\ TargetError(t, "") = ""
    /\ \E i \in Within(catalog.servers, session.tier) :
        matches(catalog.servers, t, "", catalog.servers[i])

\* The name of a server finds it and no other.
NamedCanBeSelected(i, features) ==
    /\ features \subseteq catalog.servers[i].features
    /\ \A j \in Within(catalog.servers, session.tier) \ {i} :
        catalog.servers[j].name # catalog.servers[i].name

CountryCanBeSelected(code, country) ==
    LET Place(place, features) == [AnyTarget EXCEPT !.country = code, !.state = place.state,
                                                 !.city = place.city, !.features = features]
        Anywhere == [state |-> "", city |-> ""]
    IN  /\ country.standard => CanBeSelected(Place(Anywhere, {}))
        /\ \A f \in country.features \cap {"secure_core", "p2p", "tor"} :
            CanBeSelected(Place(Anywhere, {f}))
        /\ \A place \in country.places : CanBeSelected(Place(place, {}))
        /\ \A place \in country.p2p_places : CanBeSelected(Place(place, {"p2p"}))
        /\ \A entry \in country.secure_core_entries :
            CanBeSelected([Place(Anywhere, {"secure_core"}) EXCEPT !.entry = entry])

\* Whatever refreshes and lookups have made of the catalog, everything the lists of
\* countries, states, cities, entry countries, gateways and servers show can be
\* connected to: the lists and the selection agree about states that are left out,
\* about tiers and about names (WINDOWS_PARITY: "Apply the same mapping to
\* Standard/P2P subdivisions, server lists, profile/target selection").
ListedCanBeSelected ==
    catalog # NoCatalog /\ session # NoSession =>
        LET servers == catalog.servers
            lists   == locations(servers, session.tier)
        IN  /\ \A code \in DOMAIN lists.countries :
                CountryCanBeSelected(code, lists.countries[code])
            /\ \A name \in DOMAIN lists.gateways :
                CanBeSelected([AnyTarget EXCEPT !.gateway = name])
            /\ \A gateway \in {""} \cup DOMAIN lists.gateways, feature \in Feature \cup {""} :
                ~PageRefused(gateway, feature, "all") =>
                    \A i \in servers_page(servers, session.tier, "", gateway, feature, "all") :
                        NamedCanBeSelected(i, {feature} \ {""})

\* The location that is taken for the device's is that of the network it was asked
\* on, and never the tunnel's exit, unless the tunnel or the network changed and
\* changed back between the answer and the second look (refresh_remote_data: "Never
\* relabel a VPN exit address as the physical IP").
LocationIsPhysical ==
    physical_location_known /\ ~doubtful =>
        /\ session # NoSession /\ location_identity # NoNetwork
        /\ session.location = CountryOf[location_identity]
============================================================================
