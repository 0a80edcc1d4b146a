-------------------------- MODULE BackgroundProofs --------------------------
(***************************************************************************)
(* What is proved about the parts of the agent that work beside the        *)
(* requests of the user.                                                   *)
(*                                                                         *)
(* First RemoteData, for every catalog and server the API may return,      *)
(* every tier, network and target: the exit of a tunnel is not taken for   *)
(* the device's location, what the lists show can be selected, and what is *)
(* selected is the right server.  Then Reconnect, for every limit of the   *)
(* journal and every number of attempts: it uses the coordinator as        *)
(* Operations allows, and stops when the user has acted.                   *)
(***************************************************************************)
EXTENDS RemoteData, Reconnect, FiniteSetTheorems, WellFoundedInduction, TLAPS

-----------------------------------------------------------------------------
(* The inductive invariant. *)

\* A refresh that is under way keeps the session, because it holds auth_write.
RefreshHasSession == refresh.pc # "idle" => session # NoSession

\* If network and tunnel are found as they were, and did not change to it since the
\* API answered, the answer is about the network it was asked on.
AnswerIsPhysical ==
    refresh.pc = "located" /\ ~refresh.back /\ ~tunnel /\ network = refresh.identity =>
        refresh.country = CountryOf[refresh.identity]

IInv == TypeOK /\ RefreshHasSession /\ AnswerIsPhysical /\ LocationIsPhysical

\* What the invariant is about.
subject == <<session, catalog, catalog_file, client_config, config_file,
             physical_location_known, location_identity, doubtful, refresh_due, location_due,
             network, tunnel, refresh, lookup>>

LEMMA Subject ==
    ASSUME IInv, UNCHANGED subject, events' \in 0 .. MaxEvents
    PROVE  IInv'
BY DEF IInv, subject, TypeOK, RefreshHasSession, AnswerIsPhysical, LocationIsPhysical

LEMMA Bound == MaxEvents \in Nat
BY RemoteAssumption

LEMMA OutsideType == ASSUME TypeOK, Outside PROVE events' \in 0 .. MaxEvents
BY RemoteAssumption DEF TypeOK, Outside

\* Steps of a connection attempt, which only reads.
LEMMA ConnectInv ==
    ASSUME IInv,
           \/ ConnectRefreshed \/ EnsureClientConfig \/ ensure_signed_catalog \/ ReadSession
           \/ (\E t \in Targets, excluded \in Exclusions : SelectStart(t, excluded))
           \/ SelectStep \/ ConnectGone
    PROVE  IInv'
<1>1. UNCHANGED <<session, cached, location, timers, outside, refresh, lookup, events>>
  BY DEF ConnectRefreshed, EnsureClientConfig, ensure_signed_catalog, ReadSession, SelectStart,
         SelectStep, ConnectGone
<1>2. UNCHANGED subject /\ events' = events
  BY <1>1 DEF subject, cached, location, timers, outside
<1> QED
  BY <1>2, Subject DEF IInv, TypeOK

LEMMA SessionNext ==
    ASSUME session \in [tier : Tiers, location : Countries], NEW tier \in Tiers, NEW place \in Countries
    PROVE  /\ [session EXCEPT !.tier = tier] \in [tier : Tiers, location : Countries]
           /\ [session EXCEPT !.tier = tier].location = session.location
           /\ [session EXCEPT !.location = place] \in [tier : Tiers, location : Countries]
           /\ [session EXCEPT !.location = place].location = place
OBVIOUS

\* A catalog as it is fetched, and when it has expired.
LEMMA FetchedType == ASSUME NEW c \in Offered \cup Cached PROVE Fetched(c) \in CatalogType
<1>1. c \in Seq(Server) /\ OneEach(c)
  BY RemoteAssumption
<1> QED
  BY <1>1 DEF Fetched, CatalogType

LEMMA AgedType ==
    ASSUME NEW c \in {NoCatalog} \cup CatalogType
    PROVE  /\ Aged(c) \in {NoCatalog} \cup CatalogType
           /\ c \in CatalogType => Aged(c) \in CatalogType
<1>1. NoCatalog \notin CatalogType
  BY RemoteAssumption DEF CatalogType
<1> QED
  BY <1>1 DEF Aged, CatalogType

LEMMA InitIInv == Init => IInv
<1> SUFFICES ASSUME Init PROVE IInv
  OBVIOUS
<1>1. ASSUME NEW c \in Cached PROVE Aged(Fetched(c)) \in CatalogType
  BY FetchedType, AgedType
<1>2. TypeOK
  <2>1. session \in {NoSession} \cup [tier : Tiers, location : Countries]
    <3>1. [tier : Tiers, location : {""}] \subseteq [tier : Tiers, location : Countries]
      BY DEF Countries
    <3>2. session \in {NoSession} \cup [tier : Tiers, location : {""}]
      BY Zenon DEF Init
    <3> QED
      BY <3>1, <3>2
  <2>2. {catalog, catalog_file} \subseteq {NoCatalog} \cup CatalogType
    BY <1>1 DEF Init
  <2>3. refresh \in RefreshType /\ lookup \in [pc : {"idle"}]
    BY DEF Init, Idle, RefreshType
  <2>4. events \in 0 .. MaxEvents
    <3>1. events = 0
      BY Zenon DEF Init
    <3> QED
      BY <3>1, Bound
  <2> QED
    BY <2>1, <2>2, <2>3, <2>4 DEF Init, TypeOK
<1> QED
  BY <1>2 DEF Init, IInv, RefreshHasSession, AnswerIsPhysical, LocationIsPhysical, Idle

\* The beginning of a refresh.
LEMMA EnterRefreshInv ==
    ASSUME IInv, NEW force \in BOOLEAN, EnterRefresh(force), session # NoSession,
           UNCHANGED <<session, cached, location, outside, lookup>>, events' \in 0 .. MaxEvents
    PROVE  IInv'
<1>1. refresh' \in RefreshType /\ refresh'.pc \in {"account", "observe"}
  BY DEF IInv, TypeOK, EnterRefresh, RefreshType
<1>2. TypeOK'
  BY <1>1 DEF IInv, TypeOK, cached, location, outside, EnterRefresh
<1>3. RefreshHasSession' /\ AnswerIsPhysical' /\ LocationIsPhysical'
  BY <1>1 DEF IInv, RefreshHasSession, AnswerIsPhysical, LocationIsPhysical, location
<1> QED
  BY <1>2, <1>3 DEF IInv

LEMMA RefreshStartInv ==
    ASSUME IInv, NEW force \in BOOLEAN, RefreshStart(force) PROVE IInv'
BY EnterRefreshInv, OutsideType DEF IInv, RefreshStart

LEMMA ConnectStartInv == ASSUME IInv, ConnectStart PROVE IInv'
<1>1. CASE auth_write_free /\ session # NoSession
  BY <1>1, EnterRefreshInv, OutsideType DEF IInv, ConnectStart
<1>2. CASE ~(auth_write_free /\ session # NoSession)
  <2>1. UNCHANGED subject /\ Outside
    BY <1>2 DEF ConnectStart, subject, cached, location, timers, outside
  <2> QED
    BY <2>1, Subject, OutsideType DEF IInv
<1> QED
  BY <1>1, <1>2

\* Steps of a refresh that leave the location alone.
LEMMA RefreshAccountInv == ASSUME IInv, RefreshAccount PROVE IInv'
<1>1. session \in [tier : Tiers, location : Countries] /\ session # NoSession
  BY RemoteAssumption DEF IInv, TypeOK, RefreshHasSession, RefreshAccount
<1>2. /\ session' \in [tier : Tiers, location : Countries]
      /\ session'.location = session.location
  BY <1>1, SessionNext DEF RefreshAccount
<1>3. refresh' \in RefreshType /\ refresh'.pc \in {"config", "idle"}
  BY DEF IInv, TypeOK, RefreshAccount, RefreshType, Idle
<1>4. session' # NoSession
  BY <1>2, RemoteAssumption
<1>5. TypeOK'
  BY <1>2, <1>3 DEF IInv, TypeOK, RefreshAccount, cached, location, timers, outside
<1> QED
  BY <1>1, <1>2, <1>3, <1>4, <1>5
     DEF IInv, RefreshHasSession, AnswerIsPhysical, LocationIsPhysical, RefreshAccount, location

LEMMA RefreshConfigInv == ASSUME IInv, RefreshConfig PROVE IInv'
<1>1. refresh' \in RefreshType /\ refresh'.pc \in {"observe", "idle"}
  BY DEF IInv, TypeOK, RefreshConfig, RefreshType, Idle
<1>2. TypeOK'
  BY <1>1 DEF IInv, TypeOK, RefreshConfig, save_client_config, location, timers, outside
<1> QED
  BY <1>1, <1>2 DEF IInv, RefreshHasSession, AnswerIsPhysical, LocationIsPhysical, RefreshConfig,
                    location

LEMMA RefreshObserveInv == ASSUME IInv, RefreshObserve PROVE IInv'
<1>1. refresh' \in RefreshType /\ refresh'.pc \in {"location", "idle"}
  BY DEF IInv, TypeOK, RefreshObserve, RefreshType, Idle
<1>2. physical_location_known' \in BOOLEAN /\ (physical_location_known' => physical_location_known)
  <2>1. \/ physical_location_known' = physical_location_known
        \/ physical_location_known' = (physical_location_known /\ location_identity = network)
    BY Zenon DEF RefreshObserve
  <2>2. physical_location_known \in BOOLEAN
    BY DEF IInv, TypeOK
  <2>3. CASE physical_location_known = TRUE
    BY <2>1, <2>3
  <2>4. CASE physical_location_known = FALSE
    BY <2>1, <2>4
  <2> QED
    BY <2>2, <2>3, <2>4
<1>3. location_due' \in BOOLEAN
  BY DEF IInv, TypeOK, RefreshObserve
<1>4. TypeOK'
  BY <1>1, <1>2, <1>3 DEF IInv, TypeOK, RefreshObserve, cached, outside
<1> QED
  BY <1>1, <1>2, <1>4 DEF IInv, RefreshHasSession, AnswerIsPhysical, LocationIsPhysical,
                          RefreshObserve

\* The API sees the exit if the tunnel is up, and then the invariant says nothing.
LEMMA LocationRequestInv == ASSUME IInv, LocationRequest PROVE IInv'
<1>1. refresh.identity \in Network
  BY DEF IInv, TypeOK, LocationRequest, RefreshType
<1>2. refresh' \in RefreshType
  <2>1. ASSUME network # NoNetwork
        PROVE  (IF tunnel THEN Exit ELSE CountryOf[network]) \in Countries
    BY <2>1 DEF IInv, TypeOK, Countries
  <2>2. \/ refresh' = Idle
        \/ \E c \in Countries :
            refresh' = [pc |-> "located", identity |-> refresh.identity, back |-> FALSE,
                        country |-> c]
    BY <2>1, Zenon DEF LocationRequest
  <2>3. ASSUME NEW c \in Countries
        PROVE  [pc |-> "located", identity |-> refresh.identity, back |-> FALSE, country |-> c]
                    \in RefreshType
    BY <1>1, <2>3 DEF RefreshType
  <2>4. Idle \in RefreshType
    BY DEF RefreshType, Idle
  <2> QED
    BY <2>2, <2>3, <2>4, Zenon
<1>3. TypeOK'
  BY <1>2 DEF IInv, TypeOK, LocationRequest, cached, location, timers, outside
<1>4. AnswerIsPhysical'
  BY DEF LocationRequest, AnswerIsPhysical, Idle, outside
<1>5. RefreshHasSession' /\ LocationIsPhysical'
  BY DEF IInv, LocationRequest, RefreshHasSession, LocationIsPhysical, location
<1> QED
  BY <1>3, <1>4, <1>5 DEF IInv

\* The answer is taken only if it is about the network it was asked on.
LEMMA LocationCheckInv == ASSUME IInv, LocationCheck PROVE IInv'
<1>1. /\ refresh.identity \in Network /\ refresh.country \in Countries
      /\ refresh.back \in BOOLEAN
  BY DEF IInv, TypeOK, LocationCheck, RefreshType
<1>2. refresh' \in RefreshType /\ refresh'.pc = "idle"
  BY DEF LocationCheck, Idle, RefreshType
<1>3. session \in [tier : Tiers, location : Countries]
  BY DEF IInv, TypeOK, RefreshHasSession, LocationCheck
<1>4. CASE UNCHANGED <<session, location>>
  <2>1. TypeOK'
    BY <1>2, <1>4 DEF IInv, TypeOK, LocationCheck, cached, location, timers, outside
  <2> QED
    BY <1>2, <1>4, <2>1 DEF IInv, RefreshHasSession, AnswerIsPhysical, LocationIsPhysical, location
<1>5. CASE /\ Unchanged
           /\ session' = [session EXCEPT !.location = refresh.country]
           /\ location_identity' = refresh.identity
           /\ physical_location_known' = TRUE
           /\ doubtful' = refresh.back
  <2>1. /\ session' \in [tier : Tiers, location : Countries]
        /\ session'.location = refresh.country
    BY <1>1, <1>3, <1>5, SessionNext
  <2>2. session' # NoSession /\ location_identity' # NoNetwork
    BY <1>1, <1>5, <2>1, RemoteAssumption
  <2>3. ~refresh.back => refresh.country = CountryOf[refresh.identity]
    BY <1>5 DEF IInv, AnswerIsPhysical, Unchanged, LocationCheck
  <2>4. TypeOK'
    BY <1>1, <1>2, <1>5, <2>1 DEF IInv, TypeOK, LocationCheck, cached, timers, outside
  <2>5. LocationIsPhysical'
    BY <1>5, <2>1, <2>2, <2>3 DEF LocationIsPhysical
  <2> QED
    BY <1>2, <2>4, <2>5 DEF IInv, RefreshHasSession, AnswerIsPhysical
<1> QED
  BY <1>4, <1>5 DEF LocationCheck

\* Steps that are only about the catalog and the client configuration.
LEMMA CacheInv ==
    ASSUME IInv, TypeOK', UNCHANGED <<session, location, outside, refresh>>
    PROVE  IInv'
BY DEF IInv, RefreshHasSession, AnswerIsPhysical, LocationIsPhysical, location, outside

LEMMA GetClientConfigInv == ASSUME IInv, GetClientConfig PROVE IInv'
<1>1. TypeOK'
  BY DEF IInv, TypeOK, GetClientConfig, save_client_config, location, timers, outside
<1> QED
  BY <1>1, CacheInv DEF GetClientConfig

LEMMA GetCatalogInv == ASSUME IInv, GetCatalog PROVE IInv'
<1>1. {catalog', catalog_file'} \subseteq {NoCatalog} \cup CatalogType
  BY FetchedType DEF IInv, TypeOK, GetCatalog
<1>2. TypeOK'
  BY <1>1 DEF IInv, TypeOK, GetCatalog, location, timers, outside
<1> QED
  BY <1>2, CacheInv DEF GetCatalog

LEMMA LookupStartInv == ASSUME IInv, NEW s \in LookedUp, LookupStart(s) PROVE IInv'
<1>1. lookup' \in [pc : {"asked"}, server : LookedUp, tier : Tiers]
  BY DEF IInv, TypeOK, LookupStart
<1>2. events' \in 0 .. MaxEvents
  BY OutsideType DEF IInv, LookupStart
<1>3. TypeOK'
  BY <1>1, <1>2 DEF IInv, TypeOK, LookupStart, cached, location, timers, outside
<1> QED
  BY <1>3, CacheInv DEF LookupStart

\* A server that is looked up replaces the one with its id, or there was none.
LEMMA WithServerType ==
    ASSUME NEW servers \in Seq(Server), OneEach(servers), NEW s \in LookedUp
    PROVE  WithServer(servers, s) \in Seq(Server) /\ OneEach(WithServer(servers, s))
<1> DEFINE known == \E i \in DOMAIN servers : servers[i].id = s.id
           replaced == [i \in DOMAIN servers |-> IF servers[i].id = s.id THEN s ELSE servers[i]]
<1>1. s \in Server
  BY DEF Server
<1>2. replaced \in Seq(Server) /\ \A i \in DOMAIN servers : replaced[i].id = servers[i].id
  BY <1>1
<1>3. OneEach(replaced)
  BY <1>2 DEF OneEach
<1>4. Append(servers, s) \in Seq(Server)
  BY <1>1
<1>5. ASSUME ~known PROVE OneEach(Append(servers, s))
  <2>1. /\ DOMAIN Append(servers, s) = 1 .. Len(servers) + 1
        /\ \A i \in 1 .. Len(servers) : Append(servers, s)[i] = servers[i]
        /\ Append(servers, s)[Len(servers) + 1] = s
    BY <1>1
  <2>2. DOMAIN servers = 1 .. Len(servers) /\ Len(servers) \in Nat
    OBVIOUS
  <2>3. ASSUME NEW i \in 1 .. Len(servers) + 1, NEW j \in 1 .. Len(servers) + 1,
               Append(servers, s)[i].id = Append(servers, s)[j].id
        PROVE  i = j
    <3>1. CASE i \in 1 .. Len(servers) /\ j \in 1 .. Len(servers)
      BY <2>1, <2>2, <2>3, <3>1 DEF OneEach
    <3>2. CASE i = Len(servers) + 1 /\ j \in 1 .. Len(servers)
      BY <1>5, <2>1, <2>2, <2>3, <3>2
    <3>3. CASE i \in 1 .. Len(servers) /\ j = Len(servers) + 1
      BY <1>5, <2>1, <2>2, <2>3, <3>3
    <3> QED
      BY <2>2, <3>1, <3>2, <3>3
  <2> QED
    BY <2>1, <2>3 DEF OneEach
<1>6. CASE known
  <2>1. WithServer(servers, s) = replaced
    BY <1>6, Zenon DEF WithServer
  <2> QED
    BY <2>1, <1>2, <1>3
<1>7. CASE ~known
  <2>1. WithServer(servers, s) = Append(servers, s)
    BY <1>7, Zenon DEF WithServer
  <2> QED
    BY <1>4, <1>5, <1>7, <2>1
<1> QED
  BY <1>6, <1>7

LEMMA LookupEndInv == ASSUME IInv, LookupEnd PROVE IInv'
<1>1. catalog' \in {NoCatalog} \cup CatalogType
  <2>1. CASE catalog' = catalog
    BY <2>1 DEF IInv, TypeOK
  <2>2. CASE /\ catalog # NoCatalog
             /\ catalog' = [catalog EXCEPT !.servers = WithServer(@, lookup.server)]
    <3>1. catalog \in CatalogType /\ lookup.server \in LookedUp
      BY <2>2 DEF IInv, TypeOK, LookupEnd
    <3>2. /\ catalog.servers \in Seq(Server) /\ OneEach(catalog.servers)
      BY <3>1 DEF CatalogType
    <3>3. WithServer(catalog.servers, lookup.server) \in {c \in Seq(Server) : OneEach(c)}
      BY <3>1, <3>2, WithServerType
    <3> QED
      BY <2>2, <3>1, <3>3 DEF CatalogType
  <2> QED
    BY <2>1, <2>2 DEF LookupEnd
<1>2. TypeOK'
  BY <1>1 DEF IInv, TypeOK, LookupEnd, location, timers, outside, Idle
<1> QED
  BY <1>2, CacheInv DEF LookupEnd

LEMMA ExpireInv == ASSUME IInv, Expire PROVE IInv'
<1>1. {catalog', catalog_file'} \subseteq {NoCatalog} \cup CatalogType
  BY AgedType DEF IInv, TypeOK, Expire
<1>2. events' \in 0 .. MaxEvents
  BY OutsideType DEF IInv, Expire
<1>3. TypeOK'
  BY <1>1, <1>2 DEF IInv, TypeOK, Expire, location, outside, tasks
<1> QED
  BY <1>3, CacheInv DEF Expire, tasks

\* Login has no location to be trusted, and no refresh is under way.
LEMMA LoginInv == ASSUME IInv, Login PROVE IInv'
<1>1. PICK c \in Offered, tier \in Tiers, config_saved \in BOOLEAN, session_saved \in BOOLEAN :
        /\ catalog_file' = Fetched(c)
        /\ config_file' = IF config_saved THEN "fresh" ELSE config_file
        /\ IF config_saved /\ session_saved
           THEN /\ session' = [tier |-> tier, location |-> IF tunnel THEN Exit ELSE CountryOf[network]]
                /\ catalog' = Fetched(c) /\ client_config' = "fresh"
                /\ refresh_due' = FALSE /\ physical_location_known' = FALSE
           ELSE UNCHANGED <<session, catalog, client_config, refresh_due, physical_location_known>>
  BY Zenon DEF Login
<1>2. (IF tunnel THEN Exit ELSE CountryOf[network]) \in Countries
  BY DEF IInv, TypeOK, Login, Countries
<1>3. /\ session' \in {NoSession} \cup [tier : Tiers, location : Countries]
      /\ {catalog', catalog_file'} \subseteq {NoCatalog} \cup CatalogType
      /\ {client_config', config_file'} \subseteq {"none", "stale", "fresh"}
      /\ {refresh_due', physical_location_known'} \subseteq BOOLEAN
  <2>1. Fetched(c) \in CatalogType
    BY FetchedType
  <2>2. CASE config_saved /\ session_saved
    <3>1. /\ session' = [tier |-> tier, location |-> IF tunnel THEN Exit ELSE CountryOf[network]]
          /\ catalog' = Fetched(c) /\ client_config' = "fresh"
          /\ refresh_due' = FALSE /\ physical_location_known' = FALSE
      BY <1>1, <2>2, Zenon
    <3>2. session' \in [tier : Tiers, location : Countries]
      BY <1>2, <3>1
    <3> QED
      BY <1>1, <2>1, <2>2, <3>1, <3>2
  <2>3. CASE ~(config_saved /\ session_saved)
    BY <1>1, <2>1, <2>3 DEF IInv, TypeOK
  <2> QED
    BY <2>2, <2>3
<1>4. events' \in 0 .. MaxEvents
  BY OutsideType DEF IInv, Login
<1>5. /\ UNCHANGED <<location_identity, doubtful, location_due, network, tunnel, refresh, lookup>>
      /\ refresh.pc = "idle"
  BY DEF Login, outside, tasks, auth_write_free
<1>6. TypeOK'
  BY <1>3, <1>4, <1>5 DEF IInv, TypeOK
<1>7. LocationIsPhysical'
  <2>1. CASE physical_location_known' = FALSE
    BY <2>1 DEF LocationIsPhysical
  <2>2. CASE UNCHANGED <<session, physical_location_known>>
    BY <1>5, <2>2 DEF IInv, LocationIsPhysical
  <2> QED
    BY <1>1, <2>1, <2>2
<1> QED
  BY <1>5, <1>6, <1>7 DEF IInv, RefreshHasSession, AnswerIsPhysical

LEMMA LogoutInv == ASSUME IInv, Logout PROVE IInv'
<1>1. events' \in 0 .. MaxEvents
  BY OutsideType DEF IInv, Logout
<1>2. TypeOK'
  BY <1>1 DEF IInv, TypeOK, Logout, outside, tasks
<1>3. refresh.pc = "idle" /\ refresh' = refresh /\ physical_location_known' = FALSE
  BY DEF Logout, auth_write_free, tasks
<1> QED
  BY <1>2, <1>3 DEF IInv, RefreshHasSession, AnswerIsPhysical, LocationIsPhysical

LEMMA RestartInv == ASSUME IInv, Restart PROVE IInv'
<1>1. events' \in 0 .. MaxEvents
  BY OutsideType DEF IInv, Restart
<1>2. refresh' \in RefreshType /\ refresh'.pc = "idle" /\ lookup' \in [pc : {"idle"}]
  BY DEF Restart, Idle, RefreshType
<1>3. TypeOK'
  BY <1>1, <1>2 DEF IInv, TypeOK, Restart, outside
<1> QED
  BY <1>2, <1>3 DEF IInv, RefreshHasSession, AnswerIsPhysical, LocationIsPhysical, Restart

\* A change that makes network and tunnel what they were when the API was asked is
\* one that is remembered.
LEMMA MovedType ==
    ASSUME TypeOK, NEW changed, Moved(changed)
    PROVE  /\ refresh' \in RefreshType /\ refresh'.pc = refresh.pc
           /\ refresh.pc = "located" =>
                /\ refresh'.identity = refresh.identity /\ refresh'.country = refresh.country
                /\ refresh'.back = (refresh.back \/ changed)
<1>1. CASE refresh.pc = "located" /\ changed
  <2>1. refresh \in [pc : {"located"}, identity : Network, back : BOOLEAN, country : Countries]
    BY <1>1 DEF TypeOK, RefreshType
  <2>2. refresh' = [refresh EXCEPT !.back = TRUE]
    BY <1>1 DEF Moved
  <2> QED
    BY <1>1, <2>1, <2>2 DEF RefreshType
<1>2. CASE ~(refresh.pc = "located" /\ changed)
  <2>1. refresh' = refresh
    BY <1>2 DEF Moved
  <2>2. refresh.pc = "located" => refresh.back \in BOOLEAN
    BY DEF TypeOK, RefreshType
  <2> QED
    BY <1>2, <2>1, <2>2 DEF TypeOK
<1> QED
  BY <1>1, <1>2

LEMMA NetworkChangeInv == ASSUME IInv, NetworkChange PROVE IInv'
<1>1. events' \in 0 .. MaxEvents
  BY OutsideType DEF IInv, NetworkChange
<1> DEFINE changed == refresh.pc = "located" /\ network' = refresh.identity
<1>2. Moved(changed)
  BY DEF NetworkChange
<1> HIDE DEF changed
<1>3. /\ refresh' \in RefreshType /\ refresh'.pc = refresh.pc
      /\ refresh.pc = "located" =>
            /\ refresh'.identity = refresh.identity /\ refresh'.country = refresh.country
            /\ refresh'.back = (refresh.back \/ changed)
  BY <1>2, MovedType DEF IInv
<1>4. TypeOK'
  BY <1>1, <1>3 DEF IInv, TypeOK, NetworkChange, cached, location, timers
<1>5. AnswerIsPhysical'
  BY <1>3 DEF AnswerIsPhysical, changed
<1> QED
  BY <1>3, <1>4, <1>5 DEF IInv, RefreshHasSession, LocationIsPhysical, NetworkChange, location

LEMMA TunnelChangeInv == ASSUME IInv, TunnelChange PROVE IInv'
<1>1. events' \in 0 .. MaxEvents
  BY OutsideType DEF IInv, TunnelChange
<1>2. /\ refresh' \in RefreshType /\ refresh'.pc = refresh.pc
      /\ refresh.pc = "located" =>
            /\ refresh'.identity = refresh.identity /\ refresh'.country = refresh.country
            /\ refresh'.back = (refresh.back \/ tunnel)
  BY MovedType DEF IInv, TunnelChange
<1>3. tunnel' = ~tunnel /\ tunnel' \in BOOLEAN
  BY DEF TunnelChange
<1>4. TypeOK'
  BY <1>1, <1>2, <1>3 DEF IInv, TypeOK, TunnelChange, cached, location, timers
<1>5. AnswerIsPhysical'
  BY <1>2, <1>3 DEF AnswerIsPhysical
<1> QED
  BY <1>2, <1>4, <1>5 DEF IInv, RefreshHasSession, LocationIsPhysical, TunnelChange, location

LEMMA NextIInv == ASSUME IInv, [Next]_vars PROVE IInv'
<1>1. CASE UNCHANGED vars
  <2>1. UNCHANGED subject /\ events' = events
    BY <1>1 DEF vars, subject, cached, location, timers, outside, tasks
  <2> QED
    BY <2>1, Subject DEF IInv, TypeOK
<1>2. CASE Next
  BY <1>2, ConnectInv, RefreshStartInv, ConnectStartInv, RefreshAccountInv, RefreshConfigInv,
     RefreshObserveInv, LocationRequestInv, LocationCheckInv, GetClientConfigInv, GetCatalogInv,
     LookupStartInv, LookupEndInv, LoginInv, LogoutInv, RestartInv, ExpireInv, NetworkChangeInv,
     TunnelChangeInv DEF Next
<1> QED
  BY <1>1, <1>2

-----------------------------------------------------------------------------
(* The lists and the selection. *)

LEMMA AtMostOne ==
    ASSUME NEW features, features = {} \/ \E f : features = {f}
    PROVE  ~(Cardinality(features) > 1)
<1>1. CASE features = {}
  BY <1>1, FS_EmptySet
<1>2. ASSUME NEW f, features = {f} PROVE ~(Cardinality(features) > 1)
  <2>1. Cardinality({f}) = 1
    BY FS_Singleton, Zenon
  <2>2. Cardinality(features) = 1
    BY <1>2, <2>1, Zenon
  <2> QED
    BY <2>2
<1> QED
  BY <1>1, <1>2

\* The targets that the lists stand for: nothing is random or left out, a gateway is
\* without a feature, a place in a country, and an entry country with Secure Core.
Listed(t) ==
    /\ t.features = {} \/ \E f : t.features = {f}
    /\ t.gateway # "" => t.features = {}
    /\ t.state # "" \/ t.city # "" => t.country # ""
    /\ t.entry # "" => "secure_core" \in t.features
    /\ t.random = FALSE /\ t.free_random = FALSE
    /\ t.exclude_my_country = FALSE /\ t.exclude_server_name = ""

LEMMA ListedAccepted == ASSUME NEW t, Listed(t) PROVE TargetError(t, "") = ""
<1>1. ~(Cardinality(t.features) > 1)
  BY AtMostOne DEF Listed
<1> QED
  BY <1>1 DEF Listed, TargetError

\* A server of the account's tier makes the targets that it fits selectable.
LEMMA ListedSelected ==
    ASSUME NEW t, Listed(t), NEW i \in Within(catalog.servers, session.tier),
           NEW s, s = catalog.servers[i],
           t.gateway \in {"", s.gateway}, t.country \in {"", s.exit}, t.entry \in {"", s.entry},
           t.state \in {"", canonical_state(catalog.servers, s)}, t.city \in {"", s.city},
           t.features \subseteq s.features, t.features = {} /\ t.gateway = "" => standard(s)
    PROVE  CanBeSelected(t)
<1>1. matches(catalog.servers, t, "", catalog.servers[i])
  BY DEF Listed, matches, InState
<1> QED
  BY <1>1, ListedAccepted DEF CanBeSelected

\* A place of a country, or all of it, with a feature or without.
InPlace(code, state, city, features) ==
    [AnyTarget EXCEPT !.country = code, !.state = state, !.city = city, !.features = features]

LEMMA PlaceSelected ==
    ASSUME NEW i \in Within(catalog.servers, session.tier),
           NEW s, s = catalog.servers[i], s.exit # "",
           NEW state \in {"", canonical_state(catalog.servers, s)}, NEW city \in {"", s.city},
           NEW features, features \subseteq s.features,
           (features = {} /\ standard(s)) \/ \E f : features = {f}
    PROVE  CanBeSelected(InPlace(s.exit, state, city, features))
<1> DEFINE t == InPlace(s.exit, state, city, features)
<1>1. /\ t.country = s.exit /\ t.entry = "" /\ t.state = state /\ t.city = city
      /\ t.gateway = "" /\ t.features = features
      /\ t.random = FALSE /\ t.free_random = FALSE
      /\ t.exclude_my_country = FALSE /\ t.exclude_server_name = ""
  BY DEF InPlace, AnyTarget
<1> HIDE DEF t
<1>2. Listed(t)
  BY <1>1 DEF Listed
<1>3. CanBeSelected(t)
  BY <1>1, <1>2, ListedSelected
<1> QED
  BY <1>3 DEF t

\* The same with an entry country.
LEMMA EntrySelected ==
    ASSUME NEW i \in Within(catalog.servers, session.tier),
           NEW s, s = catalog.servers[i], s.exit # "", "secure_core" \in s.features
    PROVE  CanBeSelected([InPlace(s.exit, "", "", {"secure_core"}) EXCEPT !.entry = s.entry])
<1> DEFINE t == [InPlace(s.exit, "", "", {"secure_core"}) EXCEPT !.entry = s.entry]
<1>1. /\ t.country = s.exit /\ t.entry = s.entry /\ t.state = "" /\ t.city = ""
      /\ t.gateway = "" /\ t.features = {"secure_core"}
      /\ t.random = FALSE /\ t.free_random = FALSE
      /\ t.exclude_my_country = FALSE /\ t.exclude_server_name = ""
  BY DEF InPlace, AnyTarget
<1> HIDE DEF t
<1>2. Listed(t)
  BY <1>1 DEF Listed
<1>3. CanBeSelected(t)
  BY <1>1, <1>2, ListedSelected
<1> QED
  BY <1>3 DEF t

LEMMA GatewaySelected ==
    ASSUME NEW i \in Within(catalog.servers, session.tier),
           NEW name, name = catalog.servers[i].gateway, name # ""
    PROVE  CanBeSelected([AnyTarget EXCEPT !.gateway = name])
<1> DEFINE t == [AnyTarget EXCEPT !.gateway = name]
<1>1. /\ t.country = "" /\ t.entry = "" /\ t.state = "" /\ t.city = ""
      /\ t.gateway = name /\ t.features = {}
      /\ t.random = FALSE /\ t.free_random = FALSE
      /\ t.exclude_my_country = FALSE /\ t.exclude_server_name = ""
  BY DEF AnyTarget
<1> HIDE DEF t
<1>2. Listed(t)
  BY <1>1 DEF Listed
<1>3. CanBeSelected(t)
  BY <1>1, <1>2, ListedSelected
<1> QED
  BY <1>3 DEF t

\* Each entry of a country is there for one of its servers.
LEMMA CountrySelected ==
    ASSUME NEW code, code # "", NEW group \in SUBSET Within(catalog.servers, session.tier),
           \A i \in group : catalog.servers[i].exit = code
    PROVE  CountryCanBeSelected(code, Country(catalog.servers, group))
<1> DEFINE country == Country(catalog.servers, group)
<1>1. /\ country.standard = \E i \in group : standard(catalog.servers[i])
      /\ country.features = UNION {catalog.servers[i].features : i \in group}
      /\ country.places =
            Subdivisions(catalog.servers, {i \in group : standard(catalog.servers[i])})
      /\ country.p2p_places =
            Subdivisions(catalog.servers, {i \in group : "p2p" \in catalog.servers[i].features})
      /\ country.secure_core_entries =
            {catalog.servers[i].entry :
                i \in {j \in group : "secure_core" \in catalog.servers[j].features}} \ {""}
  BY DEF Country
<1> HIDE DEF country
<1>2. country.standard => CanBeSelected(InPlace(code, "", "", {}))
  <2> SUFFICES ASSUME country.standard PROVE CanBeSelected(InPlace(code, "", "", {}))
    OBVIOUS
  <2>1. PICK i \in group : standard(catalog.servers[i])
    BY <1>1
  <2>2. {} \subseteq catalog.servers[i].features /\ i \in Within(catalog.servers, session.tier)
    OBVIOUS
  <2>3. catalog.servers[i].exit = code
    OBVIOUS
  <2>4. CanBeSelected(InPlace(catalog.servers[i].exit, "", "", {}))
    BY <1>1, <2>1, <2>2, <2>3, PlaceSelected
  <2> QED
    BY <2>3, <2>4
<1>3. ASSUME NEW f \in country.features \cap {"secure_core", "p2p", "tor"}
      PROVE  CanBeSelected(InPlace(code, "", "", {f}))
  <2>1. PICK i \in group : f \in catalog.servers[i].features
    BY <1>1
  <2> QED
    BY <2>1, PlaceSelected
<1>4. ASSUME NEW place \in country.places
      PROVE  CanBeSelected(InPlace(code, place.state, place.city, {}))
  <2> DEFINE part == {i \in group : standard(catalog.servers[i])}
  <2>1. place \in Subdivisions(catalog.servers, part)
    BY <1>1, Zenon
  <2>2. part \subseteq group
    OBVIOUS
  <2>3. ASSUME NEW i \in part PROVE standard(catalog.servers[i])
    OBVIOUS
  <2> HIDE DEF part
  <2>4. PICK i \in part :
            place = [state |-> canonical_state(catalog.servers, catalog.servers[i]),
                     city  |-> catalog.servers[i].city]
    BY <2>1, Zenon DEF Subdivisions
  <2>5. i \in group /\ standard(catalog.servers[i])
    BY <2>2, <2>3
  <2>6. /\ place.state = canonical_state(catalog.servers, catalog.servers[i])
        /\ place.city = catalog.servers[i].city
    BY <2>4
  <2>7. /\ catalog.servers[i].exit = code /\ i \in Within(catalog.servers, session.tier)
        /\ {} \subseteq catalog.servers[i].features
    BY <2>5
  <2>8. CanBeSelected(InPlace(catalog.servers[i].exit, place.state, place.city, {}))
    BY <2>5, <2>6, <2>7, PlaceSelected
  <2> QED
    BY <2>7, <2>8
<1>5. ASSUME NEW place \in country.p2p_places
      PROVE  CanBeSelected(InPlace(code, place.state, place.city, {"p2p"}))
  <2> DEFINE part == {i \in group : "p2p" \in catalog.servers[i].features}
  <2>1. place \in Subdivisions(catalog.servers, part)
    BY <1>1, Zenon
  <2>2. part \subseteq group
    OBVIOUS
  <2>3. ASSUME NEW i \in part PROVE "p2p" \in catalog.servers[i].features
    OBVIOUS
  <2> HIDE DEF part
  <2>4. PICK i \in part :
            place = [state |-> canonical_state(catalog.servers, catalog.servers[i]),
                     city  |-> catalog.servers[i].city]
    BY <2>1, Zenon DEF Subdivisions
  <2>5. i \in group /\ "p2p" \in catalog.servers[i].features
    BY <2>2, <2>3
  <2>6. /\ place.state = canonical_state(catalog.servers, catalog.servers[i])
        /\ place.city = catalog.servers[i].city
    BY <2>4
  <2>7. /\ catalog.servers[i].exit = code /\ i \in Within(catalog.servers, session.tier)
        /\ {"p2p"} \subseteq catalog.servers[i].features
    BY <2>5
  <2>8. CanBeSelected(InPlace(catalog.servers[i].exit, place.state, place.city, {"p2p"}))
    BY <2>5, <2>6, <2>7, PlaceSelected
  <2> QED
    BY <2>7, <2>8
<1>6. ASSUME NEW entry \in country.secure_core_entries
      PROVE  CanBeSelected([InPlace(code, "", "", {"secure_core"}) EXCEPT !.entry = entry])
  <2>1. PICK i \in group :
            "secure_core" \in catalog.servers[i].features /\ entry = catalog.servers[i].entry
    BY <1>1
  <2>2. catalog.servers[i].exit = code /\ i \in Within(catalog.servers, session.tier)
    OBVIOUS
  <2>3. CanBeSelected([InPlace(catalog.servers[i].exit, "", "", {"secure_core"})
                          EXCEPT !.entry = catalog.servers[i].entry])
    BY <2>1, <2>2, EntrySelected, Zenon
  <2> QED
    BY <2>1, <2>2, <2>3
<1>7. CountryCanBeSelected(code, country)
  BY <1>2, <1>3, <1>4, <1>5, <1>6 DEF CountryCanBeSelected, InPlace
<1> QED
  BY <1>7 DEF country

\* A server's name is its own, because no two servers have one id.
LEMMA NamesDiffer ==
    ASSUME TypeOK, catalog # NoCatalog, NEW i \in DOMAIN catalog.servers,
           NEW j \in DOMAIN catalog.servers, catalog.servers[i].name = catalog.servers[j].name
    PROVE  i = j
<1>1. catalog.servers \in Seq(Server) /\ OneEach(catalog.servers)
  BY DEF TypeOK, CatalogType
<1>2. catalog.servers[i] \in Server /\ catalog.servers[j] \in Server
  BY <1>1
<1>3. catalog.servers[i].id = catalog.servers[j].id
  BY <1>2, RemoteAssumption
<1> QED
  BY <1>1, <1>3 DEF OneEach

LEMMA ServerNamed ==
    ASSUME TypeOK, catalog # NoCatalog, NEW gateway, NEW feature \in Feature \cup {""},
           ~PageRefused(gateway, feature, "all"),
           NEW i \in servers_page(catalog.servers, session.tier, "", gateway, feature, "all")
    PROVE  NamedCanBeSelected(i, {feature} \ {""})
<1>1. /\ i \in DOMAIN catalog.servers
      /\ feature \in {"secure_core", "p2p", "tor"} => feature \in catalog.servers[i].features
  BY DEF servers_page, Within
<1>2. feature \in {"", "secure_core", "p2p", "tor"}
  BY DEF PageRefused, Feature
<1>3. {feature} \ {""} \subseteq catalog.servers[i].features
  BY <1>1, <1>2
<1>4. \A j \in Within(catalog.servers, session.tier) \ {i} :
        catalog.servers[j].name # catalog.servers[i].name
  BY <1>1, NamesDiffer DEF Within
<1> QED
  BY <1>3, <1>4 DEF NamedCanBeSelected

LEMMA ListsAgree == TypeOK => ListedCanBeSelected
<1> SUFFICES ASSUME TypeOK, catalog # NoCatalog, session # NoSession PROVE ListedCanBeSelected
  BY DEF ListedCanBeSelected
<1> DEFINE servers   == catalog.servers
           known     == Within(servers, session.tier)
           consumers == {i \in known : Consumer(servers[i])}
           lists     == locations(servers, session.tier)
<1>1. lists.countries = [code \in {servers[i].exit : i \in consumers} |->
                            Country(servers, {i \in consumers : servers[i].exit = code})]
  BY DEF locations
<1>2. DOMAIN lists.gateways = {servers[i].gateway : i \in known} \ {""}
  BY DEF locations
<1> HIDE DEF lists
<1>3. ASSUME NEW code \in DOMAIN lists.countries
      PROVE  CountryCanBeSelected(code, lists.countries[code])
  <2> DEFINE group == {i \in consumers : servers[i].exit = code}
  <2>1. code \in {servers[i].exit : i \in consumers} /\ lists.countries[code] = Country(servers, group)
    BY <1>1
  <2>2. PICK one \in consumers : code = servers[one].exit
    BY <2>1
  <2>3. code # ""
    BY <2>2 DEF Consumer
  <2>4. group \in SUBSET known /\ \A i \in group : servers[i].exit = code
    OBVIOUS
  <2> HIDE DEF group
  <2>5. CountryCanBeSelected(code, Country(servers, group))
    BY <2>3, <2>4, CountrySelected
  <2> QED
    BY <2>1, <2>5
<1>4. ASSUME NEW name \in DOMAIN lists.gateways
      PROVE  CanBeSelected([AnyTarget EXCEPT !.gateway = name])
  <2>1. PICK one \in known : name = servers[one].gateway /\ name # ""
    BY <1>2
  <2> QED
    BY <2>1, GatewaySelected
<1> QED
  BY <1>3, <1>4, ServerNamed DEF ListedCanBeSelected, lists

-----------------------------------------------------------------------------
(* The loop of select_validated. *)

\* The servers the loop begins with.
Working ==
    {i \in Within(catalog.servers, connect.tier) : enabled(catalog.servers[i])}

\* What the loop has put aside was meant and has no endpoint to trust; `rejected`
\* says whether there is such a server.
LoopInv ==
    connect.pc = "loop" =>
        /\ catalog # NoCatalog
        /\ connect = [pc |-> "loop", t |-> connect.t, excluded |-> connect.excluded,
                      tier |-> connect.tier, country |-> connect.country,
                      rejected |-> connect.rejected, available |-> connect.available]
        /\ connect.available \subseteq Working
        /\ \A i \in Working \ connect.available :
            i \in Meant /\ Verified(catalog.servers[i]) = {}
        /\ connect.rejected => Meant # {}
        /\ ~connect.rejected => connect.available = Working

SelInv == LoopInv /\ SelectedIsRight

\* The servers that server k is compared with if it is the one selected.
RivalsOf(k) ==
    IF connect.t.random_server \/ connect.t.server_name # "" THEN {}
    ELSE IF connect.t.random \/ connect.t.free_random
    THEN {i \in Usable : catalog.servers[i].exit = catalog.servers[k].exit}
    ELSE Usable

\* The answer is the right one to give, said before it is given.
RightToGive(code, server, physical) ==
    IF code = ""
    THEN /\ server \in Usable
         /\ physical \subseteq Verified(catalog.servers[server])
         /\ \A i \in RivalsOf(server) : catalog.servers[server].score <= catalog.servers[i].score
    ELSE /\ Usable = {}
         /\ code = "server_not_found" => Meant = {}
         /\ code = "server_validation_failed" => Meant # {}

SameRequest ==
    /\ connect'.t = connect.t /\ connect'.excluded = connect.excluded
    /\ connect'.tier = connect.tier /\ connect'.country = connect.country

LEMMA SameMeant ==
    ASSUME SameRequest, catalog'.servers = catalog.servers
    PROVE  Meant' = Meant /\ Usable' = Usable /\ Working' = Working
<1>1. Meant' = Meant
  BY DEF SameRequest, Meant
<1>2. Working' = Working
  BY DEF SameRequest, Working
<1> QED
  BY <1>1, <1>2 DEF Usable

LEMMA EndsRight ==
    ASSUME NEW code, NEW server, NEW physical, Ends(code, server, physical),
           catalog'.servers = catalog.servers, RightToGive(code, server, physical)
    PROVE  SelInv'
<1>1. /\ connect'.pc = "selected" /\ connect'.code = code /\ connect'.server = server
      /\ connect'.physical = physical /\ SameRequest
  BY DEF Ends, SameRequest
<1>2. Meant' = Meant /\ Usable' = Usable
  BY <1>1, SameMeant
<1>3. Rivals' = RivalsOf(server)
  BY <1>1, <1>2 DEF Rivals, RivalsOf, SameRequest
<1>4. RightAnswer'
  <2>1. CASE code = ""
    BY <1>1, <1>2, <1>3, <2>1 DEF RightAnswer, RightToGive
  <2>2. CASE code # ""
    BY <1>1, <1>2, <2>2 DEF RightAnswer, RightToGive
  <2> QED
    BY <2>1, <2>2
<1> QED
  BY <1>1, <1>4 DEF SelInv, LoopInv, SelectedIsRight

\* The least of a set of numbers, and the fastest of a set of servers.
LEMMA Least ==
    ASSUME NEW T, T \subseteq Nat, T # {}
    PROVE  \E i \in T : \A j \in T : i <= j
<1>1. PICK i \in T : \A j \in T : ~(<<j, i>> \in OpToRel(<, Nat))
  BY NatLessThanWellFounded, WFMin
<1>2. \A j \in T : ~(j < i)
  BY <1>1 DEF OpToRel
<1>3. \A j \in T : i <= j
  BY <1>2
<1> QED
  BY <1>3

LEMMA Positions ==
    ASSUME NEW servers \in Seq(Server)
    PROVE  DOMAIN servers \subseteq Nat
<1>1. DOMAIN servers = 1 .. Len(servers)
  OBVIOUS
<1> QED
  BY <1>1

LEMMA FastestIs ==
    ASSUME NEW servers \in Seq(Server), NEW g, g \subseteq DOMAIN servers, g # {}
    PROVE  /\ Fastest(servers, g) \in g
           /\ \A j \in g : servers[Fastest(servers, g)].score <= servers[j].score
<1>1. \A j \in g : j \in Nat /\ servers[j].score \in Nat
  BY RemoteAssumption
<1> DEFINE scores == {servers[j].score : j \in g}
<1>2. PICK best \in scores : \A x \in scores : best <= x
  <2>1. scores \subseteq Nat /\ scores # {}
    BY <1>1
  <2> HIDE DEF scores
  <2> QED
    BY <2>1, Least
<1> DEFINE ties == {j \in g : servers[j].score = best}
<1>3. PICK i \in ties : \A j \in ties : i <= j
  <2>1. ties \subseteq Nat /\ ties # {}
    BY <1>1, <1>2
  <2> HIDE DEF ties
  <2> QED
    BY <2>1, Least
<1> DEFINE First(k) == \A j \in g \ {k} :
              \/ servers[k].score < servers[j].score
              \/ servers[k].score = servers[j].score /\ k < j
<1>4. i \in g /\ First(i)
  <2>1. SUFFICES ASSUME NEW j \in g \ {i}
                 PROVE  \/ servers[i].score < servers[j].score
                        \/ servers[i].score = servers[j].score /\ i < j
    BY <1>3
  <2>2. servers[i].score = best /\ best <= servers[j].score
    BY <1>2, <1>3
  <2>3. CASE servers[j].score = best
    BY <1>1, <1>3, <2>2, <2>3
  <2>4. CASE servers[j].score # best
    BY <1>1, <2>2, <2>4
  <2> QED
    BY <2>3, <2>4
<1>5. Fastest(servers, g) = CHOOSE k \in g : First(k)
  BY DEF Fastest
<1> HIDE DEF First
<1>6. Fastest(servers, g) \in g /\ First(Fastest(servers, g))
  BY <1>4, <1>5, Zenon
<1> QED
  BY <1>1, <1>6 DEF First

LEMMA ServersTyped ==
    ASSUME TypeOK, catalog # NoCatalog
    PROVE  catalog.servers \in Seq(Server)
BY DEF TypeOK, CatalogType

LEMMA LoopFacts ==
    ASSUME LoopInv, connect.pc = "loop"
    PROVE  /\ Meant \subseteq Working
           /\ Usable \subseteq connect.available
           /\ connect.t.server_name = "" => Permitted = Meant \cap connect.available
<1>1. Meant \subseteq Working
  BY DEF Meant, Working
<1>2. Usable \subseteq connect.available
  BY <1>1 DEF Usable, LoopInv
<1>3. ASSUME connect.t.server_name = "" PROVE Permitted = Meant \cap connect.available
  <2>1. \A i \in connect.available :
          i \in Within(catalog.servers, connect.tier) /\ enabled(catalog.servers[i])
    BY DEF LoopInv, Working
  <2>2. CASE ExclusionsApply(connect.t, connect.tier, connect.excluded)
    BY <1>3, <2>1, <2>2 DEF Permitted, Candidates, Meant
  <2>3. CASE ~ExclusionsApply(connect.t, connect.tier, connect.excluded)
    BY <1>3, <2>1, <2>3 DEF Permitted, Candidates, Meant
  <2> QED
    BY <2>2, <2>3
<1> QED
  BY <1>1, <1>2, <1>3

\* A server is rejected: the loop goes on without it, or there is no other.
LEMMA RejectRight ==
    ASSUME LoopInv, connect.pc = "loop", UNCHANGED catalog, NEW i \in Meant \cap connect.available,
           Verified(catalog.servers[i]) = {},
           connect.t.server_name # "" => Meant \subseteq {i},
           Reject(i)
    PROVE  SelInv'
<1>1. CASE connect.t.server_name # "" \/ connect.available = {i}
  <2>1. Ends("server_validation_failed", 0, {})
    BY <1>1 DEF Reject
  <2>2. Usable = {}
    BY <1>1, LoopFacts DEF Usable
  <2>3. RightToGive("server_validation_failed", 0, {})
    BY <2>2 DEF RightToGive
  <2> QED
    BY <2>1, <2>3, EndsRight
<1>2. CASE ~(connect.t.server_name # "" \/ connect.available = {i})
  <2>1. connect' = [connect EXCEPT !.available = @ \ {i}, !.rejected = TRUE]
    BY <1>2 DEF Reject
  <2>2. connect' = [pc |-> "loop", t |-> connect.t, excluded |-> connect.excluded,
                    tier |-> connect.tier, country |-> connect.country,
                    rejected |-> TRUE, available |-> connect.available \ {i}]
    BY <2>1 DEF LoopInv
  <2>3. SameRequest /\ connect'.pc = "loop" /\ connect'.rejected = TRUE
        /\ connect'.available = connect.available \ {i}
    BY <2>2 DEF SameRequest
  <2>4. Meant' = Meant /\ Working' = Working
    BY <2>3, SameMeant
  <2>5. LoopInv'
    BY <2>2, <2>3, <2>4 DEF LoopInv, SameRequest
  <2> QED
    BY <2>3, <2>5 DEF SelInv, SelectedIsRight
<1> QED
  BY <1>1, <1>2

LEMMA TakeRight ==
    ASSUME LoopInv, connect.pc = "loop", UNCHANGED catalog, NEW i \in Meant \cap connect.available,
           connect.t.server_name # "" => Meant \subseteq {i},
           \A j \in RivalsOf(i) : catalog.servers[i].score <= catalog.servers[j].score,
           Take(i)
    PROVE  SelInv'
<1>1. connect.t.features \subseteq catalog.servers[i].features
  BY DEF Meant, matches
<1>2. CASE Verified(catalog.servers[i]) = {} /\ Reject(i)
  BY <1>2, RejectRight
<1>3. ASSUME NEW p \in Verified(catalog.servers[i]), Ends("", i, {p}) PROVE SelInv'
  <2>1. RightToGive("", i, {p})
    BY DEF RightToGive, Usable
  <2> QED
    BY <1>3, <2>1, EndsRight
<1> QED
  BY <1>1, <1>2, <1>3 DEF Take

LEMMA NothingLeftRight ==
    ASSUME LoopInv, connect.pc = "loop", UNCHANGED catalog, Usable = {},
           Meant \cap connect.available = {}, NothingLeft
    PROVE  SelInv'
<1>1. CASE connect.rejected
  <2>1. Ends("server_validation_failed", 0, {})
    BY <1>1 DEF NothingLeft
  <2>2. RightToGive("server_validation_failed", 0, {})
    BY <1>1 DEF RightToGive, LoopInv
  <2> QED
    BY <2>1, <2>2, EndsRight
<1>2. CASE ~connect.rejected
  <2>1. Ends("server_not_found", 0, {})
    BY <1>2 DEF NothingLeft
  <2>2. RightToGive("server_not_found", 0, {})
    BY <1>2, LoopFacts DEF RightToGive, LoopInv
  <2> QED
    BY <2>1, <2>2, EndsRight
<1> QED
  BY <1>1, <1>2

\* A name means one server, because no two have one id.
LEMMA NamedRight ==
    ASSUME TypeOK, LoopInv, connect.pc = "loop", UNCHANGED catalog, SelectStep,
           connect.t.server_name # ""
    PROVE  SelInv'
<1>1. catalog # NoCatalog /\ connect.available \subseteq DOMAIN catalog.servers
  BY DEF LoopInv, Working, Within
<1>2. Meant \subseteq DOMAIN catalog.servers
      /\ \A i \in Meant : catalog.servers[i].name = connect.t.server_name
  BY DEF Meant, Within
<1>3. CASE Named = {}
  <2>1. NothingLeft
    BY <1>3 DEF SelectStep
  <2>2. Meant \cap connect.available = {}
    BY <1>2, <1>3 DEF Named
  <2>3. Usable = {}
    BY <2>2, LoopFacts DEF Usable
  <2> QED
    BY <2>1, <2>2, <2>3, NothingLeftRight
<1>4. CASE Named # {}
  <2>1. PICK i \in Named : \A j \in Named : i <= j
    <3>1. Named \subseteq DOMAIN catalog.servers
      BY <1>1 DEF Named
    <3>2. catalog.servers \in Seq(Server)
      BY <1>1, ServersTyped
    <3>3. DOMAIN catalog.servers \subseteq Nat
      BY <3>2, Positions
    <3> QED
      BY <1>4, <3>1, <3>3, Least
  <2>2. Named = {i}
    BY <1>1, NamesDiffer DEF Named
  <2>3. Take(i)
    <3>1. (CHOOSE k \in Named : \A j \in Named : k <= j) = i
      BY <2>1, <2>2
    <3> QED
      BY <1>4, <3>1 DEF SelectStep
  <2>4. Meant \subseteq {i} /\ i \in connect.available
    BY <1>1, <1>2, NamesDiffer DEF Named
  <2>5. CASE i \in Meant
    <3>1. RivalsOf(i) = {}
      BY DEF RivalsOf
    <3> QED
      BY <2>3, <2>4, <2>5, <3>1, TakeRight
  <2>6. CASE i \notin Meant
    <3>1. ~(connect.t.features \subseteq catalog.servers[i].features)
      BY <2>4, <2>6 DEF Meant, Named, LoopInv, Working
    <3>2. Ends("server_feature_mismatch", 0, {})
      BY <2>3, <3>1 DEF Take
    <3>3. RightToGive("server_feature_mismatch", 0, {})
      BY <2>4, <2>6 DEF RightToGive, Usable
    <3> QED
      BY <3>2, <3>3, EndsRight
  <2> QED
    BY <2>5, <2>6
<1> QED
  BY <1>3, <1>4

\* A choice among the servers still available that are meant.
LEMMA ChoiceRight ==
    ASSUME TypeOK, LoopInv, connect.pc = "loop", connect.t.server_name = "", Permitted # {},
           NEW i \in Choices(catalog.servers, connect.t, Permitted)
    PROVE  /\ i \in Meant \cap connect.available
           /\ \A j \in RivalsOf(i) : catalog.servers[i].score <= catalog.servers[j].score
<1> DEFINE servers == catalog.servers
           t == connect.t
           Of(k) == {j \in Permitted : servers[j].exit = servers[k].exit}
           groups == IF t.random \/ t.free_random THEN {Of(k) : k \in Permitted} ELSE {Permitted}
<1>1. servers \in Seq(Server) /\ connect.available \subseteq DOMAIN servers
  BY ServersTyped DEF LoopInv, Working, Within
<1>2. Permitted = Meant \cap connect.available /\ Usable \subseteq Permitted
  BY LoopFacts DEF Usable
<1>3. PICK g \in groups : i \in (IF t.random_server THEN g ELSE {Fastest(servers, g)})
  BY DEF Choices
<1>4. g \subseteq Permitted /\ g # {}
  BY <1>3
<1>5. CASE t.random_server
  <2>1. i \in g
    BY <1>3, <1>5
  <2>2. RivalsOf(i) = {}
    BY <1>5 DEF RivalsOf
  <2> QED
    BY <1>2, <1>4, <2>1, <2>2
<1>6. CASE ~t.random_server
  <2>1. i = Fastest(servers, g)
    BY <1>3, <1>6
  <2>2. i \in g /\ \A j \in g : servers[i].score <= servers[j].score
    BY <1>1, <1>2, <1>4, <1>6, <2>1, FastestIs
  <2>3. RivalsOf(i) \subseteq g
    <3>1. CASE t.random \/ t.free_random
      <4>1. PICK k \in Permitted : g = Of(k)
        BY <1>3, <3>1
      <4>2. servers[i].exit = servers[k].exit
        BY <2>2, <4>1
      <4> QED
        BY <1>2, <3>1, <4>1, <4>2 DEF RivalsOf
    <3>2. CASE ~(t.random \/ t.free_random)
      BY <1>2, <1>3, <3>2 DEF RivalsOf
    <3> QED
      BY <3>1, <3>2
  <2> QED
    BY <1>2, <1>4, <2>2, <2>3
<1> QED
  BY <1>5, <1>6

LEMMA SelectStepRight ==
    ASSUME TypeOK, SelInv, SelectStep
    PROVE  SelInv'
<1>1. LoopInv /\ connect.pc = "loop" /\ UNCHANGED catalog
  BY DEF SelInv, SelectStep, cached
<1>2. CASE connect.t.server_name # ""
  BY <1>1, <1>2, NamedRight
<1>3. CASE connect.t.server_name = "" /\ Permitted # {}
  <2>1. PICK i \in Choices(catalog.servers, connect.t, Permitted) : Take(i)
    BY <1>3 DEF SelectStep
  <2> QED
    BY <1>1, <1>3, <2>1, ChoiceRight, TakeRight
<1>4. CASE connect.t.server_name = "" /\ Permitted = {}
  <2>1. Meant \cap connect.available = {} /\ Usable = {}
    BY <1>1, <1>4, LoopFacts DEF Usable
  <2>2. CASE Ends("all_candidates_excluded", 0, {})
    <3>1. RightToGive("all_candidates_excluded", 0, {})
      BY <2>1 DEF RightToGive
    <3> QED
      BY <1>1, <2>2, <3>1, EndsRight
  <2>3. CASE NothingLeft
    BY <1>1, <2>1, <2>3, NothingLeftRight
  <2> QED
    BY <1>4, <2>2, <2>3 DEF SelectStep
<1> QED
  BY <1>2, <1>3, <1>4

LEMMA SelectStartRight ==
    ASSUME SelInv, NEW t, NEW excluded, SelectStart(t, excluded)
    PROVE  SelInv'
<1> DEFINE begun == [pc |-> "loop", t |-> t, excluded |-> excluded, tier |-> connect.tier,
                     country |-> device_country, rejected |-> FALSE,
                     available |-> {i \in Within(catalog.servers, connect.tier) :
                                        enabled(catalog.servers[i])}]
<1>1. CASE \E code : connect' = Answer(code)
  <2>1. connect'.pc = "done"
    BY <1>1 DEF Answer
  <2> QED
    BY <2>1 DEF SelInv, LoopInv, SelectedIsRight
<1>2. CASE catalog # NoCatalog /\ connect' = begun
  <2>1. UNCHANGED catalog
    BY DEF SelectStart, cached
  <2>2. connect'.available = Working'
    BY <1>2, <2>1 DEF Working
  <2> QED
    BY <1>2, <2>1, <2>2 DEF SelInv, LoopInv, SelectedIsRight
<1> QED
  BY <1>1, <1>2 DEF SelectStart

\* What is selected from is not written while the selection holds the read lock.
LEMMA OthersRight ==
    ASSUME SelInv, UNCHANGED connect,
           connect.pc \in {"loop", "selected"} =>
              catalog'.servers = catalog.servers /\ (catalog # NoCatalog => catalog' # NoCatalog)
    PROVE  SelInv'
<1>1. CASE connect.pc \notin {"loop", "selected"}
  BY <1>1 DEF SelInv, LoopInv, SelectedIsRight
<1>2. CASE connect.pc \in {"loop", "selected"}
  <2>1. Meant' = Meant /\ Usable' = Usable /\ Working' = Working
    BY <1>2, SameMeant DEF SameRequest
  <2>2. Rivals' = Rivals
    BY <1>2, <2>1 DEF Rivals
  <2>3. RightAnswer' = RightAnswer
    BY <1>2, <2>1, <2>2 DEF RightAnswer
  <2> QED
    BY <1>2, <2>1, <2>3 DEF SelInv, LoopInv, SelectedIsRight
<1> QED
  BY <1>1, <1>2

LEMMA ElsewhereRight == ASSUME connect'.pc \notin {"loop", "selected"} PROVE SelInv'
BY DEF SelInv, LoopInv, SelectedIsRight

LEMMA AgedKeeps ==
    ASSUME TypeOK
    PROVE  catalog # NoCatalog => /\ Aged(catalog).servers = catalog.servers
                                  /\ Aged(catalog) # NoCatalog
<1> SUFFICES ASSUME catalog # NoCatalog
             PROVE  Aged(catalog).servers = catalog.servers /\ Aged(catalog) # NoCatalog
  OBVIOUS
<1>1. catalog \in CatalogType
  BY DEF TypeOK
<1>2. NoCatalog \notin CatalogType
  BY RemoteAssumption DEF CatalogType
<1>3. Aged(catalog) \in CatalogType
  BY <1>1, AgedType
<1> QED
  BY <1>1, <1>2, <1>3 DEF Aged, CatalogType

LEMMA NextRight == ASSUME TypeOK, SelInv, [Next]_vars PROVE SelInv'
<1>1. CASE \/ UNCHANGED vars \/ (\E force \in BOOLEAN : RefreshStart(force))
           \/ RefreshAccount \/ RefreshConfig \/ RefreshObserve \/ LocationRequest
           \/ LocationCheck \/ (\E s \in LookedUp : LookupStart(s)) \/ NetworkChange
           \/ TunnelChange
  <2>1. UNCHANGED <<connect, catalog>>
    BY <1>1 DEF vars, tasks, cached, RefreshStart, RefreshAccount, RefreshConfig, RefreshObserve,
       LocationRequest, LocationCheck, LookupStart, NetworkChange, TunnelChange
  <2> QED
    BY <2>1, OthersRight
<1>2. CASE LookupEnd \/ Login \/ Logout
  <2>1. connect' = connect /\ connect.pc \notin {"loop", "selected"}
    BY <1>2 DEF LookupEnd, Login, Logout, state_free, tasks
  <2> QED
    BY <2>1, OthersRight
<1>3. CASE Expire
  <2>1. connect' = connect /\ catalog' = Aged(catalog)
    BY <1>3 DEF Expire, tasks
  <2>2. catalog = NoCatalog => catalog' = catalog
    BY <2>1 DEF Aged
  <2> QED
    BY <2>1, <2>2, AgedKeeps, OthersRight
<1>4. CASE ConnectStart \/ ConnectRefreshed
  <2>1. connect' = At("refreshing") \/ connect' = At("ensure_config")
    BY <1>4, Zenon DEF ConnectStart, ConnectRefreshed
  <2>2. connect'.pc \in {"refreshing", "ensure_config"}
    BY <2>1 DEF At
  <2> QED
    BY <2>2, ElsewhereRight
<1>5. CASE EnsureClientConfig \/ GetClientConfig
  <2>1. connect'.pc \in {"done", "ensure_catalog", "get_config"}
    BY <1>5 DEF EnsureClientConfig, GetClientConfig, At, Answer
  <2> QED
    BY <2>1, ElsewhereRight
<1>6. CASE ensure_signed_catalog \/ GetCatalog
  <2>1. connect'.pc \in {"done", "select", "get_catalog"}
    BY <1>6 DEF ensure_signed_catalog, GetCatalog, At, Answer
  <2> QED
    BY <2>1, ElsewhereRight
<1>7. CASE ReadSession
  <2>1. connect'.pc \in {"done", "session"}
    BY <1>7 DEF ReadSession, Answer
  <2> QED
    BY <2>1, ElsewhereRight
<1>8. CASE ConnectGone \/ Restart
  <2>1. connect'.pc = "idle"
    BY <1>8 DEF ConnectGone, Restart, Idle
  <2> QED
    BY <2>1, ElsewhereRight
<1>9. CASE \E t \in Targets, excluded \in Exclusions : SelectStart(t, excluded)
  BY <1>9, SelectStartRight
<1>10. CASE SelectStep
  BY <1>10, SelectStepRight
<1> QED
  BY <1>1, <1>2, <1>3, <1>4, <1>5, <1>6, <1>7, <1>8, <1>9, <1>10 DEF Next

\* A round that rejects a server goes on with one less.
LEMMA TakeAdvances ==
    ASSUME TypeOK, LoopInv, connect.pc = "loop", NEW i \in connect.available, Take(i)
    PROVE  Advances
<1>1. CASE \E code, server, physical : Ends(code, server, physical)
  BY <1>1 DEF Ends, Advances
<1>2. CASE connect' = [connect EXCEPT !.available = @ \ {i}, !.rejected = TRUE]
  <2>1. connect' = [pc |-> "loop", t |-> connect.t, excluded |-> connect.excluded,
                    tier |-> connect.tier, country |-> connect.country,
                    rejected |-> TRUE, available |-> connect.available \ {i}]
    BY <1>2 DEF LoopInv
  <2>2. connect'.pc = "loop" /\ connect'.available = connect.available \ {i}
    BY <2>1
  <2>3. IsFiniteSet(connect.available)
    <3>1. PICK servers \in Seq(Server) : servers = catalog.servers
      BY ServersTyped DEF LoopInv
    <3>2. connect.available \subseteq 1 .. Len(servers) /\ Len(servers) \in Nat
      BY <3>1 DEF LoopInv, Working, Within
    <3>3. IsFiniteSet(1 .. Len(servers))
      BY <3>2, FS_Interval
    <3> QED
      BY <3>2, <3>3, FS_Subset
  <2>4. PICK n \in Nat : n = Cardinality(connect.available)
    BY <2>3, FS_CardinalityType
  <2>5. Cardinality(connect.available \ {i}) = Cardinality(connect.available) - 1
    BY <2>3, FS_RemoveElement
  <2> QED
    BY <2>2, <2>4, <2>5 DEF Advances
<1> QED
  BY <1>1, <1>2, Zenon DEF Take, Reject

LEMMA StepAdvances ==
    ASSUME TypeOK, SelInv, SelectStep
    PROVE  Advances
<1>1. LoopInv /\ connect.pc = "loop"
  BY DEF SelInv, SelectStep
<1>2. CASE \E code, server, physical : Ends(code, server, physical)
  BY <1>2 DEF Ends, Advances
<1>3. CASE connect.t.server_name # "" /\ Named # {}
  <2>1. Take(CHOOSE i \in Named : \A j \in Named : i <= j)
    BY <1>3 DEF SelectStep
  <2>2. catalog.servers \in Seq(Server) /\ Named \subseteq DOMAIN catalog.servers
    BY <1>1, ServersTyped DEF LoopInv, Working, Within, Named
  <2>3. \E i \in Named : \A j \in Named : i <= j
    BY <1>3, <2>2, Positions, Least
  <2>4. (CHOOSE i \in Named : \A j \in Named : i <= j) \in Named
    BY <2>3, Zenon
  <2>5. (CHOOSE i \in Named : \A j \in Named : i <= j) \in connect.available
    BY <2>4 DEF Named
  <2> QED
    BY <1>1, <2>1, <2>5, TakeAdvances
<1>4. CASE connect.t.server_name = "" /\ Permitted # {}
  <2>1. PICK i \in Choices(catalog.servers, connect.t, Permitted) : Take(i)
    BY <1>4 DEF SelectStep
  <2> QED
    BY <1>1, <1>4, <2>1, ChoiceRight, TakeAdvances
<1> QED
  BY <1>2, <1>3, <1>4, Zenon DEF SelectStep, NothingLeft

-----------------------------------------------------------------------------
(* What follows. *)

\* The types, and that no lookup or refresh gives a catalog two servers with one id;
\* that a refresh never loses the session under it, because logout waits for
\* auth_write; and what an answer of the API is about while it is looked at.
THEOREM InvariantHolds == Spec => []IInv
BY InitIInv, NextIInv, PTL DEF Spec

\* The exit of a tunnel is never taken for the device's location, whatever networks
\* and tunnels come and go while the API is asked, except when one changes and changes
\* back between the answer and the second look.
THEOREM LocationNeverExit == Spec => []LocationIsPhysical
BY InvariantHolds, PTL DEF IInv

\* Whatever refreshes and lookups have made of the catalog, what the lists of
\* countries, places, entry countries, gateways and servers show is a target that is
\* accepted and means a server of the account's tier.
THEOREM ListsMatchSelection == Spec => []ListedCanBeSelected
BY InvariantHolds, ListsAgree, PTL DEF IInv

\* At every round of select_validated, what has been put aside was meant and has no
\* endpoint to trust, and `rejected` tells whether there is such a server.
THEOREM SelectionInvariant == Spec => []SelInv
<1>1. Init => SelInv
  <2>1. Init => connect = Idle
    BY Zenon DEF Init
  <2> QED
    BY <2>1 DEF Idle, SelInv, LoopInv, SelectedIsRight
<1>2. IInv /\ SelInv /\ [Next]_vars => SelInv'
  BY NextRight DEF IInv
<1> QED
  BY <1>1, <1>2, InvariantHolds, PTL DEF Spec

\* The safety half of SelectionIsBest: what connection.connect goes on with is the
\* fastest server that the request means and that has a verified endpoint, of the
\* country that was drawn if one was; an error is only given when there is no such
\* server, "not found" only when none is meant, "validation failed" only when one is.
THEOREM SelectionIsRight == Spec => []SelectedIsRight
BY SelectionInvariant, PTL DEF SelInv

\* Why the loop ends: a round that is not the last leaves fewer servers.  What is
\* missing for SelectionIsBest is only that a selection under way goes on.
THEOREM EveryRoundAdvances == Spec => SelectionAdvances
<1>1. IInv /\ SelInv /\ [Next]_vars => [SelectStep => Advances]_vars
  BY StepAdvances DEF IInv
<1> QED
  BY <1>1, InvariantHolds, SelectionInvariant, PTL DEF Spec, SelectionAdvances

-----------------------------------------------------------------------------
(* Reconnect. *)

\* The coordinator they run on, with what is proved about it.
OpsP == INSTANCE OperationsProofs WITH
          Client <- {"ui"} \cup {Initiator(t) : t \in Task},
          Request <- {"ui"} \cup Task,
          Method <- UserMethod \cup {"connection.connect"}

-----------------------------------------------------------------------------
(* Types *)

Accounts == {"Restoring", "SignedIn", "SignedOut"}

RunRecord == [pc : {"start", "first", "loop"}, auto : BOOLEAN, account : Accounts,
              stopped : BOOLEAN]

\* A sequence in progress keeps within its attempts.
TasksTyped == task \in [Task -> TaskRecord] /\ \A t \in Task : task[t].n < Attempts(t)

Sets ==
    /\ account \in Accounts
    /\ status \in {"Disconnected", "Connecting", "Connected"}
    /\ run \in RunRecord
    /\ owned \subseteq 0 .. MaxOperations

FlagsTyped ==
    /\ vpn \in BOOLEAN /\ auto \in BOOLEAN
    /\ erased \in BOOLEAN /\ restarted \in BOOLEAN /\ tried \in BOOLEAN
    /\ manual \in [Task -> BOOLEAN]

\* Only the record of t changes, and it is v afterwards.
TaskBecomes(t, v) ==
    /\ task' \in [Task -> TaskRecord]
    /\ \A u \in Task : task'[u].n < Attempts(u)
    /\ task'[t] = v
    /\ \A u \in Task : u # t => task'[u] = task[u]

LEMMA Change ==
    ASSUME TasksTyped, NEW t \in Task, NEW v \in TaskRecord, v.n < Attempts(t),
           task' = [task EXCEPT ![t] = v]
    PROVE  TaskBecomes(t, v)
BY DEF TasksTyped, TaskBecomes

LEMMA Limits == \A t \in Task : Attempts(t) \in Nat /\ 0 < Attempts(t)
BY ReconnectAssumption DEF Attempts

LEMMA RecordFields ==
    ASSUME TasksTyped, NEW t \in Task
    PROVE  /\ task[t] \in TaskRecord
           /\ task[t] = [pc |-> task[t].pc, baseline |-> task[t].baseline, n |-> task[t].n,
                         was_active |-> task[t].was_active,
                         authenticated |-> task[t].authenticated, result |-> task[t].result,
                         known |-> task[t].known]
BY DEF TasksTyped, TaskRecord

Pcs == {"idle", "look", "check", "account", "observe", "resolve", "connect", "wait", "after",
        "sleep"}
Results == {"ok", "retry", "fatal", "cancelled"}

\* The same, by the fields that the invariants speak of.
Moves(t, pc, baseline, known) ==
    /\ task' \in [Task -> TaskRecord]
    /\ \A u \in Task : task'[u].n < Attempts(u)
    /\ task'[t].pc = pc /\ task'[t].baseline = baseline /\ task'[t].known = known
    /\ \A u \in Task : u # t => task'[u] = task[u]

LEMMA GotoEffect ==
    ASSUME TasksTyped, NEW t \in Task, NEW pc \in Pcs, Goto(t, pc)
    PROVE  Moves(t, pc, task[t].baseline, task[t].known)
<1> DEFINE v == [task[t] EXCEPT !.pc = pc]
<1>1. v \in TaskRecord /\ v.n = task[t].n /\ v.pc = pc /\ v.baseline = task[t].baseline
      /\ v.known = task[t].known
  BY RecordFields DEF TaskRecord, Pcs
<1>2. task' = [task EXCEPT ![t] = v]
  BY DEF Goto
<1>3. TaskBecomes(t, v)
  <2> HIDE DEF v
  <2> QED
    BY <1>1, <1>2, Change DEF TasksTyped
<1> QED
  BY <1>1, <1>3 DEF TaskBecomes, Moves

LEMMA OutcomeEffect ==
    ASSUME TasksTyped, NEW t \in Task, NEW result \in Results, Outcome(t, result)
    PROVE  Moves(t, "after", task[t].baseline, FALSE)
<1> DEFINE v == [task[t] EXCEPT !.pc = "after", !.result = result, !.known = FALSE]
<1>1. v \in TaskRecord /\ v.n = task[t].n /\ v.pc = "after" /\ v.baseline = task[t].baseline
      /\ v.known = FALSE
  BY RecordFields DEF TaskRecord, Results
<1>2. task' = [task EXCEPT ![t] = v]
  BY DEF Outcome, TasksTyped
<1>3. TaskBecomes(t, v)
  <2> HIDE DEF v
  <2> QED
    BY <1>1, <1>2, Change DEF TasksTyped
<1> QED
  BY <1>1, <1>3 DEF TaskBecomes, Moves

LEMMA IdleTyped ==
    ASSUME NEW b \in SUBSET (1 .. MaxOperations), NEW pc \in Pcs, NEW w \in BOOLEAN
    PROVE  /\ [IdleTask EXCEPT !.pc = pc, !.baseline = b, !.was_active = w] \in TaskRecord
           /\ [IdleTask EXCEPT !.pc = pc, !.baseline = b] \in TaskRecord
           /\ [IdleTask EXCEPT !.baseline = b] \in TaskRecord
           /\ IdleTask \in TaskRecord
BY DEF IdleTask, TaskRecord, Pcs

LEMMA EndEffect ==
    ASSUME TasksTyped, NEW t \in Task, NEW outcome, End(t, outcome)
    PROVE  Moves(t, "idle", IF t = "autoconnect" THEN task[t].baseline ELSE {}, FALSE)
<1> DEFINE b == IF t = "autoconnect" THEN task[t].baseline ELSE {}
           v == [IdleTask EXCEPT !.baseline = b]
<1>1. b \in SUBSET (1 .. MaxOperations)
  BY RecordFields DEF TaskRecord
<1>2. v \in TaskRecord /\ v.n = 0 /\ v.pc = "idle" /\ v.baseline = b /\ v.known = FALSE
  BY <1>1, IdleTyped DEF IdleTask, Pcs
<1>3. task' = [task EXCEPT ![t] = v]
  BY DEF End
<1>4. TaskBecomes(t, v)
  <2> HIDE DEF v, b
  <2> QED
    BY <1>2, <1>3, Change, Limits DEF TasksTyped
<1> QED
  BY <1>2, <1>4 DEF TaskBecomes, Moves

-----------------------------------------------------------------------------
(* What the steps of a sequence do. *)

\* t goes on in its sequence, or ends it; it does not get to its connect.
Proceeds(t) ==
    /\ InSequence(t)
    /\ \E pc \in Pcs \ {"connect", "look"} : \E b, known :
        /\ Moves(t, pc, b, known)
        /\ \/ b = task[t].baseline
           \/ b = {} /\ pc = "idle" /\ t # "autoconnect"

LEMMA GotoProceeds ==
    ASSUME TasksTyped, NEW t \in Task, NEW pc \in Pcs \ {"connect", "look"}, Goto(t, pc),
           InSequence(t)
    PROVE  Proceeds(t)
BY GotoEffect DEF Proceeds

LEMMA OutcomeProceeds ==
    ASSUME TasksTyped, NEW t \in Task, NEW result \in Results, Outcome(t, result),
           InSequence(t)
    PROVE  Proceeds(t)
BY OutcomeEffect DEF Proceeds, Pcs

LEMMA EndProceeds ==
    ASSUME TasksTyped, NEW t \in Task, NEW outcome, End(t, outcome),
           InSequence(t)
    PROVE  Proceeds(t)
BY EndEffect DEF Proceeds, Pcs

LEMMA CheckShape ==
    ASSUME TasksTyped, NEW t \in Task, Check(t)
    PROVE  Proceeds(t)
<1>1. InSequence(t)
  BY DEF Check, TaskAt, InSequence
<1>2. \/ \E outcome : End(t, outcome)
      \/ Goto(t, "account")
  BY DEF Check
<1> QED
  BY <1>1, <1>2, EndProceeds, GotoProceeds DEF Pcs

LEMMA AccountShape ==
    ASSUME TasksTyped, NEW t \in Task, Account(t)
    PROVE  Proceeds(t)
<1>1. InSequence(t)
  BY DEF Account, TaskAt, InSequence
<1>2. CASE task' = [task EXCEPT ![t].pc = "observe", ![t].authenticated = TRUE]
  <2> DEFINE v == [task[t] EXCEPT !.pc = "observe", !.authenticated = TRUE]
  <2>1. v \in TaskRecord /\ v.n = task[t].n /\ v.pc = "observe" /\ v.baseline = task[t].baseline
    BY RecordFields DEF TaskRecord
  <2>2. task' = [task EXCEPT ![t] = v]
    BY <1>2 DEF TasksTyped
  <2>3. TaskBecomes(t, v)
    <3> HIDE DEF v
    <3> QED
      BY <2>1, <2>2, Change DEF TasksTyped
  <2> QED
    BY <1>1, <2>1, <2>3 DEF TaskBecomes, Moves, Proceeds, Pcs
<1>3. CASE \E result \in Results : Outcome(t, result)
  BY <1>1, <1>3, OutcomeProceeds
<1> QED
  BY <1>2, <1>3 DEF Account, Results

LEMMA ObserveShape ==
    ASSUME TasksTyped, NEW t \in Task, Observe(t)
    PROVE  Proceeds(t)
<1>1. InSequence(t)
  BY DEF Observe, TaskAt, InSequence
<1>2. Goto(t, "resolve") \/ Outcome(t, "retry")
  BY DEF Observe
<1> QED
  BY <1>1, <1>2, GotoProceeds, OutcomeProceeds DEF Pcs, Results

LEMMA ResolveShape ==
    ASSUME TasksTyped, FlagsTyped, NEW t \in Task, Resolve(t)
    PROVE  /\ InSequence(t)
           /\ \/ Proceeds(t)
              \/ /\ Moves(t, "connect", task[t].baseline, manual[t])
                 /\ ~Interrupted(t)
<1>1. InSequence(t)
  BY DEF Resolve, TaskAt, InSequence
<1>2. CASE \E result \in Results : Outcome(t, result)
  BY <1>1, <1>2, OutcomeProceeds
<1>3. CASE /\ task' = [task EXCEPT ![t].pc = "connect", ![t].known = manual[t]]
           /\ ~Interrupted(t)
  <2> DEFINE v == [task[t] EXCEPT !.pc = "connect", !.known = manual[t]]
  <2>1. manual[t] \in BOOLEAN
    BY DEF FlagsTyped
  <2>2. v \in TaskRecord /\ v.n = task[t].n /\ v.pc = "connect" /\ v.baseline = task[t].baseline
        /\ v.known = manual[t]
    BY <2>1, RecordFields DEF TaskRecord
  <2>3. task' = [task EXCEPT ![t] = v]
    BY <1>3 DEF TasksTyped
  <2>4. TaskBecomes(t, v)
    <3> HIDE DEF v
    <3> QED
      BY <2>2, <2>3, Change DEF TasksTyped
  <2> QED
    BY <1>1, <1>3, <2>2, <2>4 DEF TaskBecomes, Moves
<1> QED
  BY <1>1, <1>2, <1>3 DEF Resolve, Results

LEMMA ConnectShape ==
    ASSUME TasksTyped, NEW t \in Task, Connect(t)
    PROVE  Proceeds(t)
<1>1. InSequence(t)
  BY DEF Connect, TaskAt, InSequence
<1>2. CASE task' = [task EXCEPT ![t].pc = "wait", ![t].known = FALSE]
  <2> DEFINE v == [task[t] EXCEPT !.pc = "wait", !.known = FALSE]
  <2>1. v \in TaskRecord /\ v.n = task[t].n /\ v.pc = "wait" /\ v.baseline = task[t].baseline
    BY RecordFields DEF TaskRecord
  <2>2. task' = [task EXCEPT ![t] = v]
    BY <1>2 DEF TasksTyped
  <2>3. TaskBecomes(t, v)
    <3> HIDE DEF v
    <3> QED
      BY <2>1, <2>2, Change DEF TasksTyped
  <2> QED
    BY <1>1, <2>1, <2>3 DEF TaskBecomes, Moves, Proceeds, Pcs
<1>3. CASE Outcome(t, "retry")
  BY <1>1, <1>3, OutcomeProceeds DEF Results
<1> QED
  BY <1>2, <1>3 DEF Connect

LEMMA WaitShape ==
    ASSUME TasksTyped, NEW t \in Task, Wait(t)
    PROVE  Proceeds(t)
<1>1. InSequence(t)
  BY DEF Wait, TaskAt, InSequence
<1>2. \E answer \in Results : Outcome(t, answer)
  <2>1. PICK result \in Ops!Result : \E answer \in AnswerOf(result) : Outcome(t, answer)
    BY DEF Wait
  <2>2. AnswerOf(result) \subseteq Results
    BY DEF AnswerOf, Results
  <2> QED
    BY <2>1, <2>2
<1> QED
  BY <1>1, <1>2, OutcomeProceeds

LEMMA AfterShape ==
    ASSUME TasksTyped, NEW t \in Task, After(t)
    PROVE  Proceeds(t)
<1>1. InSequence(t)
  BY DEF After, TaskAt, InSequence
<1>2. CASE \E outcome : End(t, outcome)
  BY <1>1, <1>2, EndProceeds
<1>3. CASE /\ TriesAgain(t)
           /\ task' = [task EXCEPT ![t].pc = "sleep", ![t].n = @ + 1, ![t].result = "ok"]
  <2>1. task[t].n \in Nat /\ task[t].n + 1 < Attempts(t)
    BY <1>3, RecordFields DEF TriesAgain, TaskRecord
  <2>2. PICK m \in Nat : m = task[t].n + 1
    BY <2>1
  <2> DEFINE v == [task[t] EXCEPT !.pc = "sleep", !.n = m, !.result = "ok"]
  <2>3. v \in TaskRecord /\ v.n = m /\ v.pc = "sleep" /\ v.baseline = task[t].baseline
    BY RecordFields DEF TaskRecord
  <2>4. task' = [task EXCEPT ![t] = v]
    BY <1>3, <2>2 DEF TasksTyped
  <2>5. TaskBecomes(t, v)
    <3> HIDE DEF v
    <3> QED
      BY <2>1, <2>2, <2>3, <2>4, Change
  <2> QED
    BY <1>1, <2>3, <2>5 DEF TaskBecomes, Moves, Proceeds, Pcs
<1> QED
  BY <1>2, <1>3 DEF After

LEMMA SleepShape ==
    ASSUME TasksTyped, NEW t \in Task, Sleep(t)
    PROVE  Proceeds(t)
<1>1. InSequence(t)
  BY DEF Sleep, TaskAt, InSequence
<1>2. (\E outcome : End(t, outcome)) \/ Goto(t, "check")
  BY DEF Sleep
<1> QED
  BY <1>1, <1>2, EndProceeds, GotoProceeds DEF Pcs

-----------------------------------------------------------------------------
(* The tasks that start the sequences. *)

\* t begins a sequence with a baseline of its own, or rests, or goes on; the user's
\* actions that it has to know of are not more than before.
Renews(t) ==
    /\ \E pc \in Pcs \ {"connect"} : \E b \in {task[t].baseline, recent_operation_ids, {}} :
       \E known :
        /\ Moves(t, pc, b, known)
        /\ \/ b = task[t].baseline /\ InSequence(t) /\ (manual'[t] => manual[t])
           \/ ~manual'[t]
           \/ t # "autoconnect" /\ pc \in {"idle", "look"}
    /\ \A u \in Task : u # t => manual'[u] = manual[u]

LEMMA JournalIds ==
    ASSUME Ops!TypeOK
    PROVE  recent_operation_ids \in SUBSET (1 .. MaxOperations)
<1>1. \A i \in DOMAIN recent : recent[i] \in Ops!OperationRecord
  BY DEF Ops!TypeOK
<1>2. \A op \in Ops!OperationRecord : op.id \in 1 .. MaxOperations
  BY DEF Ops!OperationRecord, Ops!Id
<1> QED
  BY <1>1, <1>2 DEF recent_operation_ids

LEMMA FreshRecord ==
    ASSUME TasksTyped, NEW t \in Task, NEW b \in SUBSET (1 .. MaxOperations),
           NEW pc \in Pcs, NEW v,
           \/ v = [IdleTask EXCEPT !.pc = pc, !.baseline = b]
           \/ \E w \in BOOLEAN :
                v = [IdleTask EXCEPT !.pc = pc, !.baseline = b, !.was_active = w],
           task' = [task EXCEPT ![t] = v]
    PROVE  Moves(t, pc, b, FALSE)
<1>1. v \in TaskRecord /\ v.n = 0 /\ v.pc = pc /\ v.baseline = b /\ v.known = FALSE
  <2>1. CASE v = [IdleTask EXCEPT !.pc = pc, !.baseline = b]
    BY <2>1 DEF IdleTask, TaskRecord, Pcs
  <2>2. ASSUME NEW w \in BOOLEAN,
               v = [IdleTask EXCEPT !.pc = pc, !.baseline = b, !.was_active = w]
        PROVE  v \in TaskRecord /\ v.n = 0 /\ v.pc = pc /\ v.baseline = b /\ v.known = FALSE
    BY <2>2 DEF IdleTask, TaskRecord, Pcs
  <2> QED
    BY <2>1, <2>2
<1>2. TaskBecomes(t, v)
  BY <1>1, Change, Limits
<1> QED
  BY <1>1, <1>2 DEF TaskBecomes, Moves

LEMMA StartShape ==
    ASSUME TasksTyped, FlagsTyped, Ops!TypeOK, Start
    PROVE  Renews("autoconnect")
<1> DEFINE pc == IF auto THEN "check" ELSE "idle"
           v == [Begin("autoconnect", FALSE) EXCEPT !.pc = pc]
<1>1. task' = [task EXCEPT !["autoconnect"] = v]
  BY DEF Start
<1>2. v = [IdleTask EXCEPT !.pc = pc, !.baseline = recent_operation_ids, !.was_active = FALSE]
  BY DEF Begin, IdleTask
<1>3. Moves("autoconnect", pc, recent_operation_ids, FALSE)
  <2> HIDE DEF v
  <2> QED
    BY <1>1, <1>2, FreshRecord, JournalIds DEF Pcs, Task
<1>4. ~manual'["autoconnect"] /\ \A u \in Task : u # "autoconnect" => manual'[u] = manual[u]
  BY DEF Start, FlagsTyped, Task
<1> QED
  BY <1>3, <1>4 DEF Renews, Pcs

LEMMA WakeShape ==
    ASSUME TasksTyped, FlagsTyped, Ops!TypeOK, Wake
    PROVE  Renews("autoconnect")
<1> DEFINE now == auto /\ ~run.auto
           b == IF now THEN recent_operation_ids ELSE task["autoconnect"].baseline
<1>1. PICK pc \in {"check", "idle"} :
        task' = [task EXCEPT !["autoconnect"] =
                   [IdleTask EXCEPT !.baseline = b, !.pc = pc]]
  BY DEF Wake
<1>2. [IdleTask EXCEPT !.baseline = b, !.pc = pc] = [IdleTask EXCEPT !.pc = pc,
   !.baseline = b]
  BY DEF IdleTask
<1>3. b \in SUBSET (1 .. MaxOperations)
  BY JournalIds, RecordFields DEF TaskRecord, Task
<1>4. Moves("autoconnect", pc, b, FALSE)
  <2> HIDE DEF b
  <2> QED
    BY <1>1, <1>2, <1>3, FreshRecord DEF Pcs, Task
<1>5. manual'["autoconnect"] = (manual["autoconnect"] /\ ~now)
  BY DEF Wake, FlagsTyped, Task
<1>6. \A u \in Task : u # "autoconnect" => manual'[u] = manual[u]
  BY DEF Wake, FlagsTyped, Task
<1>7. CASE now
  BY <1>4, <1>5, <1>6, <1>7 DEF Renews, Pcs
<1>8. CASE ~now
  BY <1>4, <1>5, <1>6, <1>8 DEF Renews, Pcs, InSequence
<1> QED
  BY <1>7, <1>8

LEMMA MonitorTickShape ==
    ASSUME TasksTyped, FlagsTyped, Ops!TypeOK, MonitorTick
    PROVE  Renews("monitor") \/ UNCHANGED task
<1>1. CASE task' = [task EXCEPT !["monitor"] =
                      [IdleTask EXCEPT !.pc = "look", !.baseline = recent_operation_ids]]
  <2>1. Moves("monitor", "look", recent_operation_ids, FALSE)
    BY <1>1, FreshRecord, JournalIds DEF Pcs, Task
  <2> QED
    BY <2>1 DEF Renews, Pcs, MonitorTick, hist
<1> QED
  BY <1>1 DEF MonitorTick

LEMMA MonitorLookShape ==
    ASSUME TasksTyped, FlagsTyped, Ops!TypeOK, MonitorLook
    PROVE  Renews("monitor")
<1>1. CASE Goto("monitor", "idle") /\ UNCHANGED manual
  <2>1. Moves("monitor", "idle", task["monitor"].baseline, task["monitor"].known)
    BY <1>1, GotoEffect DEF Pcs, Task
  <2> QED
    BY <1>1, <2>1 DEF Renews, Pcs
<1>2. CASE /\ \/ task' = [task EXCEPT !["monitor"] = Begin("monitor", TRUE)]
              \/ task' = [task EXCEPT !["monitor"] = IdleTask]
           /\ manual' = [manual EXCEPT !["monitor"] = FALSE]
  <2>1. PICK pc \in {"check", "idle"}, b \in {recent_operation_ids, {}}, w \in BOOLEAN :
          task' = [task EXCEPT !["monitor"] =
                     [IdleTask EXCEPT !.pc = pc, !.baseline = b, !.was_active = w]]
    BY <1>2 DEF Begin, IdleTask
  <2>2. Moves("monitor", pc, b, FALSE)
    BY <2>1, FreshRecord, JournalIds DEF Pcs, Task
  <2>3. ~manual'["monitor"] /\ \A u \in Task : u # "monitor" => manual'[u] = manual[u]
    BY <1>2 DEF FlagsTyped, Task
  <2> QED
    BY <2>2, <2>3 DEF Renews, Pcs
<1> QED
  BY <1>1, <1>2 DEF MonitorLook

LEMMA HandleSleepShape ==
    ASSUME TasksTyped, FlagsTyped, Ops!TypeOK, HandleSleep
    PROVE  Renews("resume") \/ UNCHANGED <<task, manual>>
<1>1. CASE /\ task' = [task EXCEPT !["resume"] = Begin("resume", before = "active")]
           /\ manual' = [manual EXCEPT !["resume"] = FALSE]
  <2>1. PICK w \in BOOLEAN :
          task' = [task EXCEPT !["resume"] =
                     [IdleTask EXCEPT !.pc = "check", !.baseline = recent_operation_ids,
                                      !.was_active = w]]
    BY <1>1 DEF Begin
  <2>2. Moves("resume", "check", recent_operation_ids, FALSE)
    BY <2>1, FreshRecord, JournalIds DEF Pcs, Task
  <2>3. ~manual'["resume"] /\ \A u \in Task : u # "resume" => manual'[u] = manual[u]
    BY <1>1 DEF FlagsTyped, Task
  <2> QED
    BY <2>2, <2>3 DEF Renews, Pcs
<1> QED
  BY <1>1 DEF HandleSleep

-----------------------------------------------------------------------------
(* The coordinator *)

\* The tables of the coordinator are the same in both instances.
LEMMA SameMethods ==
    /\ OpsP!Mutations = Ops!Mutations
    /\ OpsP!Controls = Ops!Controls
    /\ OpsP!StableSessionReads = Ops!StableSessionReads /\ OpsP!PlainReads = Ops!PlainReads
    /\ \A m : OpsP!DomainOf(m) = Ops!DomainOf(m)
    /\ \A m : OpsP!TargetKind(m) = Ops!TargetKind(m)
    /\ \A m : OpsP!RequiresTarget(m) <=> Ops!RequiresTarget(m)
    /\ \A l, r : OpsP!domains_conflict(l, r) <=> Ops!domains_conflict(l, r)
    /\ \A m : OpsP!ControlStage(m) = Ops!ControlStage(m)
    /\ \A m : OpsP!InitialStage(m) = Ops!InitialStage(m)
    /\ OpsP!NoLease = Ops!NoLease /\ OpsP!Result = Ops!Result
BY Zenon DEF OpsP!Mutations, Ops!Mutations, Ops!AuthMethods, OpsP!AuthMethods,
   Ops!TunnelMethods,
       OpsP!TunnelMethods, Ops!SupportMethods, OpsP!SupportMethods, Ops!StoreMethods,
       OpsP!StoreMethods, OpsP!DomainOf, Ops!DomainOf,
       OpsP!Controls, Ops!Controls, OpsP!Fido2Controls, Ops!Fido2Controls,
          OpsP!TunnelControls,
       Ops!TunnelControls, OpsP!TargetKind, Ops!TargetKind, OpsP!RequiresTarget,
          Ops!RequiresTarget,
       OpsP!domains_conflict, Ops!domains_conflict, OpsP!ControlStage, Ops!ControlStage,
       OpsP!InitialStage, Ops!InitialStage, OpsP!StableSessionReads, Ops!StableSessionReads,
       OpsP!PlainReads, Ops!PlainReads, OpsP!NoLease, Ops!NoLease, OpsP!Result, Ops!Result

LEMMA SameAssumptions == OpsP!MethodAssumption /\ OpsP!LimitAssumption
BY SameMethods, CoordinatorAssumption
   DEF Ops!MethodAssumption, OpsP!MethodAssumption, Ops!LimitAssumption, OpsP!LimitAssumption

\* So are its calls.
LEMMA SameBegin ==
    ASSUME NEW r, NEW c, NEW m, Ops!begin(r, c, m)
    PROVE  OpsP!begin(r, c, m)
<1>1. Ops!AttachControl(r, m) => OpsP!AttachControl(r, m)
  BY SameMethods, Zenon DEF Ops!AttachControl, OpsP!AttachControl, Ops!IsTarget,
     OpsP!IsTarget,
     Ops!SetStage, OpsP!SetStage
<1>2. Ops!Open(r, c, m) => OpsP!Open(r, c, m)
  BY SameMethods, Zenon DEF Ops!Open, OpsP!Open, Ops!IsTarget, OpsP!IsTarget, Ops!CanOpen,
     OpsP!CanOpen, Ops!NewRecord, OpsP!NewRecord
<1>3. Ops!BeginRead(r, m) => OpsP!BeginRead(r, m)
  BY SameMethods, Zenon DEF Ops!BeginRead, OpsP!BeginRead
<1> QED
  BY <1>1, <1>2, <1>3 DEF Ops!begin, OpsP!begin

LEMMA SameFinish ==
    ASSUME NEW r, NEW result, Ops!finish(r, result)
    PROVE  OpsP!finish(r, result)
BY SameMethods, Zenon DEF Ops!finish, OpsP!finish, Ops!FinishOwner, OpsP!FinishOwner,
   Ops!FinishControl, OpsP!FinishControl, Ops!FinishRead, OpsP!FinishRead, Ops!SetStage,
   OpsP!SetStage, Ops!FinalState, OpsP!FinalState, Ops!PushFront, OpsP!PushFront

LEMMA SameUpdate ==
    ASSUME NEW m, NEW s, Ops!update_stage(m, s)
    PROVE  OpsP!update_stage(m, s)
BY Zenon DEF Ops!update_stage, OpsP!update_stage, Ops!SetStage, OpsP!SetStage

\* And its properties.
LEMMA SameInv ==
    OpsP!IInv => /\ Ops!TypeOK /\ Ops!IdsNameOneRecord
                 /\ Ops!NoConflictingOperations /\ Ops!LeaseDiscipline
<1>1. OpsP!OperationRecord = Ops!OperationRecord /\ OpsP!Lease = Ops!Lease
   /\ OpsP!Id = Ops!Id
  BY SameMethods, Zenon DEF OpsP!OperationRecord, Ops!OperationRecord, OpsP!Lease, Ops!Lease,
     OpsP!Id, Ops!Id, OpsP!Terminal, Ops!Terminal, OpsP!Stage, Ops!Stage
<1>2. OpsP!TypeOK => Ops!TypeOK
  BY <1>1, Zenon DEF OpsP!TypeOK, Ops!TypeOK
<1>3. OpsP!IdsNameOneRecord => Ops!IdsNameOneRecord
  BY Zenon DEF OpsP!IdsNameOneRecord, Ops!IdsNameOneRecord, OpsP!Journal, Ops!Journal
<1> QED
  BY <1>2, <1>3, SameMethods, Zenon DEF OpsP!IInv, OpsP!NoConflictingOperations,
     Ops!NoConflictingOperations, OpsP!LeaseDiscipline, Ops!LeaseDiscipline

\* What a step does to the coordinator and to the traces in it: nothing, or one of
\* these calls.
CoordinatorStep ==
    \/ UNCHANGED <<ops, erased>>
    \/ /\ \/ \E t \in Task : Ops!Open(t, Initiator(t), "connection.connect")
          \/ \E m \in UserMethod : Ops!AttachControl("ui", m) \/ Ops!Open("ui", "ui", m)
       /\ UNCHANGED erased
    \/ \E r \in {"ui"} \cup Task, result \in Ops!Result : Finish(r, result)
    \/ \E result \in Ops!Result :
          Ops!FinishControl("ui", result) /\ erased' = (erased \/ result # "Ok")
    \/ Ops!update_stage("connection.connect", "working") /\ erased' = TRUE

LEMMA CoordinatorSteps ==
    ASSUME [SequencesNext]_sequenceVars
    PROVE  CoordinatorStep
<1>1. ASSUME NEW t \in Task, Sequence(t) PROVE CoordinatorStep
  <2>1. CASE Check(t) \/ Account(t) \/ Observe(t) \/ Resolve(t) \/ After(t)
     \/ Sleep(t)
    BY <2>1 DEF Check, Account, Observe, Resolve, After, Sleep, hist,
       CoordinatorStep
  <2>2. CASE Connect(t)
    BY <2>2 DEF Connect, CoordinatorStep
  <2>3. CASE Wait(t)
    BY <2>3 DEF Wait, CoordinatorStep
  <2> QED
    BY <1>1, <2>1, <2>2, <2>3 DEF Sequence
<1>2. ASSUME Agent PROVE CoordinatorStep
  BY <1>2 DEF Agent, Start, Wake, MonitorTick, MonitorLook, HandleSleep, hist,
     CoordinatorStep
<1>3. ASSUME User PROVE CoordinatorStep
  <2>1. ASSUME NEW m \in UserMethod, UserBegins(m) PROVE CoordinatorStep
    BY <2>1 DEF UserBegins, CoordinatorStep
  <2>2. ASSUME NEW op \in active, NEW result \in Ops!Result, UserAnswered(op, result)
        PROVE  CoordinatorStep
    BY <2>2 DEF UserAnswered, CoordinatorStep
  <2>3. ASSUME NEW result \in Ops!Result, ControlAnswered(result) PROVE CoordinatorStep
    BY <2>3 DEF ControlAnswered, CoordinatorStep
  <2> QED
    BY <1>3, <2>1, <2>2, <2>3 DEF User
<1>4. ASSUME Progress PROVE CoordinatorStep
  BY <1>4 DEF Progress, CoordinatorStep
<1>5. ASSUME AccountChanges \/ Switch \/ TunnelDrops \/ Suspend PROVE CoordinatorStep
  BY <1>5 DEF AccountChanges, Switch, TunnelDrops, Suspend, World, CoordinatorStep
<1>6. ASSUME UNCHANGED sequenceVars PROVE CoordinatorStep
  BY <1>6 DEF sequenceVars, hist, CoordinatorStep
<1> QED
  BY <1>1, <1>2, <1>3, <1>4, <1>5, <1>6 DEF SequencesNext

LEMMA CoordinatorCalls ==
    ASSUME [SequencesNext]_sequenceVars
    PROVE  \/ UNCHANGED ops
           \/ \E r \in {"ui"} \cup Task, c \in {"ui"} \cup {Initiator(t) : t \in Task},
                 m \in UserMethod \cup {"connection.connect"} : Ops!begin(r, c, m)
           \/ \E r \in {"ui"} \cup Task, result \in Ops!Result : Ops!finish(r, result)
           \/ Ops!update_stage("connection.connect", "working")
BY CoordinatorSteps DEF CoordinatorStep, Ops!begin, Ops!finish, Finish, ops

LEMMA ConnectMutates == "connection.connect" \in Ops!Mutations
BY DEF Ops!Mutations, Ops!TunnelMethods

\* What auto-connect, the monitor, the handler of sleep signals and the user do to the
\* operation coordinator are steps of Operations: they only go through begin, finish
\* and update_stage.
THEOREM SequencesDriveCoordinator == SequencesSpec => Ops!Spec
<1>1. SequencesInit => Ops!Init
  BY DEF SequencesInit
<1>2. [SequencesNext]_sequenceVars => [Ops!Next]_(Ops!vars)
  BY CoordinatorCalls, ConnectMutates DEF Ops!Next, Ops!Progress, Ops!vars, ops
<1> QED
  BY <1>1, <1>2, PTL DEF SequencesSpec, Ops!Spec

LEMMA InitCoordinator == SequencesInit => OpsP!IInv
<1>1. SequencesInit => OpsP!Init
  BY SameMethods DEF SequencesInit, Ops!Init, OpsP!Init
<1> QED
  BY <1>1, SameAssumptions, OpsP!InitIInv

LEMMA NextCoordinator == OpsP!IInv /\ [SequencesNext]_sequenceVars => (OpsP!IInv)'
<1>1. [SequencesNext]_sequenceVars => [OpsP!Next]_(OpsP!vars)
  BY CoordinatorCalls, ConnectMutates, SameMethods, SameBegin, SameFinish, SameUpdate
     DEF OpsP!Next, OpsP!Progress, OpsP!vars, ops
<1> QED
  BY <1>1, SameAssumptions, OpsP!NextIInv

-----------------------------------------------------------------------------
(* The traces that the user's actions leave in the journal. *)

\* Everything in the active list runs.
Running == \A op \in active : op.state = "Running"

\* b holds ids of operations that had ended when it was taken.
Past(b) == b \subseteq 1 .. next_id - 1 /\ \A op \in active : op.id \notin b

\* new is the record of op after a step, and tells a sequence as much.
Keeps(op, new) ==
    /\ new.id = op.id /\ new.kind = op.kind /\ new.initiator = op.initiator
    /\ op.kind = "connection.connect" /\ (op.stage = "cancelling" \/ op.state = "Cancelled") =>
         new.stage = "cancelling" \/ new.state = "Cancelled"

RecordsKept == \A op \in Ops!Journal : \E new \in (Ops!Journal)' : Keeps(op, new)

JournalKept ==
    /\ erased => erased'
    /\ erased' \/ RecordsKept
    /\ Running'
    /\ \A b : Past(b) => Past(b)'

LEMMA SameKept ==
    ASSUME Running, UNCHANGED <<ops, erased>>
    PROVE  JournalKept
BY DEF Running, ops, JournalKept, RecordsKept, Past, Keeps, Ops!Journal

LEMMA OpenKept ==
    ASSUME Ops!TypeOK, Running, NEW r, NEW c, NEW m, Ops!Open(r, c, m),
           UNCHANGED erased
    PROVE  JournalKept
<1>1. next_id \in Nat /\ next_id' = next_id + 1
  BY CoordinatorAssumption DEF Ops!TypeOK, Ops!Open, Ops!LimitAssumption
<1>2. PICK new : new = Ops!NewRecord(c, m)
  OBVIOUS
<1>3. new.id = next_id /\ new.state = "Running"
  BY <1>2 DEF Ops!NewRecord
<1>4. active' = active \cup {new} /\ recent' = recent
  BY <1>2 DEF Ops!Open
<1>5. Running'
  BY <1>3, <1>4 DEF Running
<1>6. RecordsKept
  BY <1>4 DEF RecordsKept, Keeps, Ops!Journal
<1>7. ASSUME NEW b, Past(b) PROVE Past(b)'
  BY <1>1, <1>3, <1>4, <1>7 DEF Past
<1> QED
  BY <1>5, <1>6, <1>7 DEF JournalKept

LEMMA StageKept ==
    ASSUME Ops!TypeOK, Running, NEW op \in active, NEW s,
           active' = Ops!SetStage(op, s), UNCHANGED <<next_id, recent>>,
           erased => erased',
           erased' \/ op.kind # "connection.connect" \/ s = "cancelling"
    PROVE  JournalKept
<1>1. op \in Ops!OperationRecord
  BY DEF Ops!TypeOK
<1>2. PICK new : new = [op EXCEPT !.stage = s]
  OBVIOUS
<1>3. /\ new.id = op.id /\ new.kind = op.kind /\ new.initiator = op.initiator
      /\ new.state = op.state /\ new.stage = s
  BY <1>1, <1>2 DEF Ops!OperationRecord
<1>4. active' = (active \ {op}) \cup {new}
  BY <1>2 DEF Ops!SetStage
<1>5. Running'
  BY <1>3, <1>4 DEF Running
<1>6. erased' \/ RecordsKept
  <2>1. SUFFICES ASSUME ~erased', NEW old \in Ops!Journal
                 PROVE  \E n \in (Ops!Journal)' : Keeps(old, n)
    BY DEF RecordsKept
  <2>2. CASE old = op
    BY <1>3, <1>4, <2>1, <2>2 DEF Keeps, Ops!Journal
  <2>3. CASE old # op
    BY <1>4, <2>1, <2>3 DEF Keeps, Ops!Journal
  <2> QED
    BY <2>2, <2>3
<1>7. ASSUME NEW b, Past(b) PROVE Past(b)'
  BY <1>3, <1>4, <1>7 DEF Past
<1> QED
  BY <1>5, <1>6, <1>7 DEF JournalKept

LEMMA FinishKept ==
    ASSUME Ops!TypeOK, Running, NEW r, NEW result, Finish(r, result)
    PROVE  JournalKept
<1>1. PICK op \in active :
        /\ active' = active \ {op}
        /\ recent' = Ops!PushFront([op EXCEPT !.state = Ops!FinalState(op, result),
                                              !.stage = "ended"], recent)
  BY DEF Finish, Ops!FinishOwner
<1>2. op \in Ops!OperationRecord /\ op.state = "Running"
  BY DEF Ops!TypeOK, Running
<1>3. PICK new : new = [op EXCEPT !.state = Ops!FinalState(op, result), !.stage = "ended"]
  OBVIOUS
<1>4. /\ new.id = op.id /\ new.kind = op.kind /\ new.initiator = op.initiator
      /\ new.state = Ops!FinalState(op, result)
  BY <1>2, <1>3 DEF Ops!OperationRecord
<1>5. Keeps(op, new)
  BY <1>2, <1>4 DEF Keeps, Ops!FinalState
<1>6. erased' = (erased \/ Len(recent) = RECENT_OPERATION_LIMIT)
  BY DEF Finish
<1>7. Running'
  BY <1>1 DEF Running
<1>8. ASSUME NEW b, Past(b) PROVE Past(b)'
  BY <1>1, <1>8 DEF Past, Finish, Ops!FinishOwner
<1>9. erased' \/ RecordsKept
  <2>1. SUFFICES ASSUME Len(recent) # RECENT_OPERATION_LIMIT
                 PROVE  RecordsKept
    BY <1>6
  <2>2. recent' = <<new>> \o recent
    <3>1. recent \in Seq(Ops!OperationRecord) /\ Len(recent) < RECENT_OPERATION_LIMIT
      BY <2>1, CoordinatorAssumption DEF Ops!TypeOK, Ops!LimitAssumption
    <3>2. Len(<<new>> \o recent) <= RECENT_OPERATION_LIMIT
      BY <3>1, CoordinatorAssumption DEF Ops!LimitAssumption
    <3> QED
      BY <1>1, <1>3, <3>2 DEF Ops!PushFront
  <2>3. new \in (Ops!Journal)' /\ \A i \in DOMAIN recent : recent[i] \in (Ops!Journal)'
    <3>1. 1 \in DOMAIN recent' /\ recent'[1] = new
      BY <2>2 DEF Ops!TypeOK
    <3>2. ASSUME NEW i \in DOMAIN recent
          PROVE  i + 1 \in DOMAIN recent' /\ recent'[i + 1] = recent[i]
      BY <2>2 DEF Ops!TypeOK
    <3> QED
      BY <3>1, <3>2 DEF Ops!Journal
  <2>4. SUFFICES ASSUME NEW old \in Ops!Journal
                 PROVE  \E n \in (Ops!Journal)' : Keeps(old, n)
    BY DEF RecordsKept
  <2>5. CASE old = op
    BY <1>5, <2>3, <2>5
  <2>6. CASE old \in active' \/ \E i \in DOMAIN recent : old = recent[i]
    <3>1. old \in (Ops!Journal)'
      BY <2>3, <2>6 DEF Ops!Journal
    <3> QED
      BY <3>1 DEF Keeps
  <2> QED
    BY <1>1, <2>5, <2>6 DEF Ops!Journal
<1> QED
  BY <1>6, <1>7, <1>8, <1>9 DEF JournalKept

LEMMA StepKept ==
    ASSUME Ops!TypeOK, Running, [SequencesNext]_sequenceVars
    PROVE  JournalKept
<1>1. ASSUME NEW m, Ops!AttachControl("ui", m), UNCHANGED erased PROVE JournalKept
  <2>1. PICK op \in active : /\ op.kind = Ops!TargetKind(m)
                             /\ active' = Ops!SetStage(op, Ops!ControlStage(m))
    BY <1>1 DEF Ops!AttachControl, Ops!IsTarget
  <2>2. m \in Ops!Controls /\ UNCHANGED <<next_id, recent>>
    BY <1>1 DEF Ops!AttachControl
  <2>3. op.kind # "connection.connect" \/ Ops!ControlStage(m) = "cancelling"
    BY <2>1, <2>2 DEF Ops!TargetKind, Ops!ControlStage, Ops!Controls, Ops!Fido2Controls,
       Ops!TunnelControls
  <2> QED
    BY <1>1, <2>1, <2>2, <2>3, StageKept
<1>2. ASSUME NEW result, Ops!FinishControl("ui", result), erased' = (erased \/ result # "Ok")
      PROVE  JournalKept
  <2>1. CASE UNCHANGED active /\ result = "Ok"
    BY <1>2, <2>1 DEF Ops!FinishControl, JournalKept, RecordsKept, Past, Keeps, Ops!Journal,
       Running
  <2>2. CASE UNCHANGED active /\ result # "Ok"
    BY <1>2, <2>2 DEF Ops!FinishControl, JournalKept, Past, Running
  <2>3. CASE \E op \in active : result # "Ok" /\ active' = Ops!SetStage(op, "control_failed")
    BY <1>2, <2>3, StageKept DEF Ops!FinishControl
  <2> QED
    BY <1>2, <2>1, <2>2, <2>3 DEF Ops!FinishControl
<1>3. ASSUME Ops!update_stage("connection.connect", "working"), erased' = TRUE
      PROVE  JournalKept
  <2>1. CASE UNCHANGED active
    BY <1>3, <2>1 DEF Ops!update_stage, JournalKept, Past, Running
  <2>2. CASE \E op \in active : active' = Ops!SetStage(op, "working")
    BY <1>3, <2>2, StageKept DEF Ops!update_stage
  <2> QED
    BY <1>3, <2>1, <2>2 DEF Ops!update_stage
<1> QED
  BY <1>1, <1>2, <1>3, CoordinatorSteps, SameKept, OpenKept, FinishKept DEF CoordinatorStep

LEMMA MarkKept ==
    ASSUME JournalKept, NEW b, NEW i, connection_sequence_interrupted(b, i)
    PROVE  erased' \/ connection_sequence_interrupted(b, i)'
BY DEF JournalKept, RecordsKept, Keeps, connection_sequence_interrupted

-----------------------------------------------------------------------------
(* The inductive invariant. *)

\* A baseline only holds ids of operations that had ended.
Fresh == \A t \in Task : Past(task[t].baseline)

\* What the user did since the baseline was taken can be seen in the journal, unless
\* the journal has lost a trace.
Trace == \A t \in Task : InSequence(t) /\ manual[t] => erased \/ Interrupted(t)

Seen == Running /\ Fresh /\ Trace /\ ManualActionStops

LEMMA PastIds ==
    ASSUME Ops!TypeOK, Ops!IdsNameOneRecord
    PROVE  Past(recent_operation_ids) /\ Past({})
<1>1. ASSUME NEW i \in DOMAIN recent PROVE recent[i].id \in 1 .. next_id - 1
  <2>1. recent[i] \in Ops!OperationRecord /\ recent[i] \in Ops!Journal
    BY DEF Ops!TypeOK, Ops!Journal
  <2>2. recent[i].id \in Nat /\ 1 <= recent[i].id /\ next_id \in Nat
    BY <2>1, CoordinatorAssumption DEF Ops!TypeOK, Ops!OperationRecord, Ops!Id,
       Ops!LimitAssumption
  <2>3. recent[i].id < next_id
    BY <2>1 DEF Ops!IdsNameOneRecord
  <2> QED
    BY <2>2, <2>3
<1>2. \A op \in active : op.id \notin recent_operation_ids
  BY DEF Ops!IdsNameOneRecord, recent_operation_ids
<1> QED
  BY <1>1, <1>2 DEF Past, recent_operation_ids

\* A task whose record stays as it is.
LEMMA OthersSeen ==
    ASSUME JournalKept, Seen, NEW u \in Task, task'[u] = task[u], manual'[u] = manual[u]
    PROVE  /\ Past(task[u].baseline)'
           /\ (InSequence(u) /\ manual[u] => erased \/ Interrupted(u))'
           /\ (TaskAt(u, "connect") /\ task[u].known => erased)'
<1>1. Past(task[u].baseline)'
  BY DEF Seen, Fresh, JournalKept, Past
<1>2. ASSUME InSequence(u)', manual'[u] PROVE erased' \/ Interrupted(u)'
  <2>1. erased \/ connection_sequence_interrupted(task[u].baseline, Initiator(u))
    BY <1>2 DEF Seen, Trace, InSequence, Interrupted
  <2>2. PICK b : b = task[u].baseline
    OBVIOUS
  <2>3. erased' \/ connection_sequence_interrupted(b, Initiator(u))'
    BY <2>1, <2>2, MarkKept DEF JournalKept
  <2> QED
    BY <2>2, <2>3 DEF Interrupted, connection_sequence_interrupted, Initiator
<1>3. (TaskAt(u, "connect") /\ task[u].known => erased)'
  BY DEF Seen, ManualActionStops, TaskAt, JournalKept
<1> QED
  BY <1>1, <1>2, <1>3

LEMMA RenewsSeen ==
    ASSUME Ops!TypeOK, Ops!IdsNameOneRecord, JournalKept, Seen,
           NEW t \in Task, Renews(t)
    PROVE  Seen'
<1>1. PICK pc \in Pcs \ {"connect"} :
        \E b \in {task[t].baseline, recent_operation_ids, {}} : \E known :
            /\ Moves(t, pc, b, known)
            /\ \/ b = task[t].baseline /\ InSequence(t) /\ (manual'[t] => manual[t])
               \/ ~manual'[t]
               \/ t # "autoconnect" /\ pc \in {"idle", "look"}
  BY DEF Renews
<1>2. PICK b \in {task[t].baseline, recent_operation_ids, {}}, known \in {task'[t].known} :
            /\ Moves(t, pc, b, known)
            /\ \/ b = task[t].baseline /\ InSequence(t) /\ (manual'[t] => manual[t])
               \/ ~manual'[t]
               \/ t # "autoconnect" /\ pc \in {"idle", "look"}
  BY <1>1 DEF Moves
<1>3. task'[t].pc = pc /\ task'[t].baseline = b
  BY <1>2 DEF Moves
<1>4. Past(b)'
  BY PastIds DEF Seen, Fresh, JournalKept
<1>5. Past(task[t].baseline)'
  BY <1>3, <1>4 DEF Past
<1>6. ASSUME InSequence(t)', manual'[t] PROVE erased' \/ Interrupted(t)'
  <2>1. b = task[t].baseline /\ InSequence(t) /\ manual[t]
    BY <1>2, <1>3, <1>6 DEF InSequence
  <2>2. erased \/ connection_sequence_interrupted(b, Initiator(t))
    BY <2>1 DEF Seen, Trace, Interrupted
  <2>3. erased' \/ connection_sequence_interrupted(b, Initiator(t))'
    BY <2>2, MarkKept DEF JournalKept
  <2> QED
    BY <1>3, <2>3 DEF Interrupted, connection_sequence_interrupted, Initiator
<1>7. ~TaskAt(t, "connect")'
  BY <1>3 DEF TaskAt
<1>8. \A u \in Task : u # t => task'[u] = task[u] /\ manual'[u] = manual[u]
  BY <1>2 DEF Moves, Renews
<1>9. Fresh'
  BY <1>5, <1>8, OthersSeen DEF Fresh
<1>10. Trace'
  BY <1>6, <1>8, OthersSeen DEF Trace
<1>11. ManualActionStops'
  BY <1>7, <1>8, OthersSeen DEF ManualActionStops
<1> QED
  BY <1>9, <1>10, <1>11 DEF Seen, JournalKept

LEMMA RestSeen ==
    ASSUME JournalKept, Seen, UNCHANGED <<task, manual>>
    PROVE  Seen'
BY OthersSeen DEF Seen, Fresh, Trace, ManualActionStops, JournalKept

LEMMA ProceedsSeen ==
    ASSUME Ops!TypeOK, Ops!IdsNameOneRecord, JournalKept, Seen,
           NEW t \in Task, Proceeds(t),
           UNCHANGED manual
    PROVE  Seen'
<1>1. Renews(t)
  BY DEF Proceeds, Renews
<1> QED
  BY <1>1, RenewsSeen

LEMMA ResolveSeen ==
    ASSUME TasksTyped, FlagsTyped, Ops!TypeOK, Ops!IdsNameOneRecord,
           JournalKept, Seen,
           NEW t \in Task, Resolve(t)
    PROVE  Seen'
<1>1. UNCHANGED <<manual, erased>>
  BY DEF Resolve
<1>2. CASE Proceeds(t)
  BY <1>1, <1>2, ProceedsSeen
<1>3. CASE InSequence(t) /\ Moves(t, "connect", task[t].baseline,
   manual[t]) /\ ~Interrupted(t)
  <2>1. /\ task'[t].pc = "connect" /\ task'[t].baseline = task[t].baseline
        /\ task'[t].known = manual[t] /\ \A u \in Task : u # t => task'[u] = task[u]
    BY <1>3 DEF Moves
  <2>2. manual[t] => erased
    BY <1>3 DEF Seen, Trace
  <2>3. Past(task[t].baseline)'
    BY <2>1 DEF Seen, Fresh, JournalKept, Past
  <2>4. \A u \in Task : u # t => task'[u] = task[u] /\ manual'[u] = manual[u]
    BY <1>1, <2>1
  <2>5. Fresh'
    BY <2>3, <2>4, OthersSeen DEF Fresh
  <2>6. Trace'
    BY <1>1, <2>2, <2>4, OthersSeen DEF Trace
  <2>7. ManualActionStops'
    BY <1>1, <2>1, <2>2, <2>4, OthersSeen DEF ManualActionStops
  <2> QED
    BY <2>5, <2>6, <2>7 DEF Seen, JournalKept
<1> QED
  BY <1>2, <1>3, ResolveShape

\* What the user asks for leaves its trace: the attempt is cancelling, or there is an
\* operation of the user's own.
LEMMA UserLeavesTrace ==
    ASSUME Ops!TypeOK, Seen, NEW m \in Manual, NEW t \in Task,
           Ops!AttachControl("ui", m) \/ Ops!Open("ui", "ui", m)
    PROVE  connection_sequence_interrupted(task[t].baseline, Initiator(t))'
           \/ ~UNCHANGED task
<1>1. SUFFICES ASSUME UNCHANGED task
               PROVE  \E op \in (Ops!Journal)' :
                        /\ op.id \notin task[t].baseline
                        /\ \/ /\ op.kind = "connection.connect"
                              /\ op.stage = "cancelling" \/ op.state = "Cancelled"
                           \/ op.initiator # Initiator(t) /\ op.kind \in Manual
  BY DEF connection_sequence_interrupted, Initiator, Manual
<1>2. Past(task[t].baseline)
  BY DEF Seen, Fresh
<1>3. CASE Ops!AttachControl("ui", m)
  <2>1. PICK op \in active : /\ op.kind = Ops!TargetKind(m)
                             /\ active' = Ops!SetStage(op, Ops!ControlStage(m))
    BY <1>3 DEF Ops!AttachControl, Ops!IsTarget
  <2>2. op.kind = "connection.connect" /\ Ops!ControlStage(m) = "cancelling"
    BY <1>3, <2>1 DEF Ops!AttachControl, Ops!TargetKind, Ops!ControlStage, Ops!Controls,
       Ops!Fido2Controls, Ops!TunnelControls, Manual
  <2>3. op \in Ops!OperationRecord
    BY DEF Ops!TypeOK
  <2>4. PICK new : new = [op EXCEPT !.stage = "cancelling"]
    OBVIOUS
  <2>5. new.id = op.id /\ new.kind = op.kind /\ new.stage = "cancelling"
    BY <2>3, <2>4 DEF Ops!OperationRecord
  <2>6. new \in (Ops!Journal)'
    BY <2>1, <2>2, <2>4 DEF Ops!SetStage, Ops!Journal
  <2> QED
    BY <1>2, <2>2, <2>5, <2>6 DEF Past
<1>4. CASE Ops!Open("ui", "ui", m)
  <2>1. PICK new : new = Ops!NewRecord("ui", m)
    OBVIOUS
  <2>2. new.id = next_id /\ new.initiator = "ui" /\ new.kind = m
    BY <2>1 DEF Ops!NewRecord
  <2>3. new \in (Ops!Journal)'
    BY <1>4, <2>1 DEF Ops!Open, Ops!Journal
  <2>4. next_id \notin task[t].baseline
    BY <1>2, CoordinatorAssumption DEF Past, Ops!TypeOK, Ops!LimitAssumption
  <2> QED
    BY <2>2, <2>3, <2>4 DEF Initiator
<1> QED
  BY <1>3, <1>4

LEMMA UserBeginsSeen ==
    ASSUME FlagsTyped, Ops!TypeOK, JournalKept, Seen, NEW m, UserBegins(m)
    PROVE  Seen'
<1>1. UNCHANGED <<task, erased>>
      /\ \A t \in Task : manual'[t] = (manual[t] \/ (m \in Manual /\ InSequence(t)))
  BY DEF UserBegins, TaskVars
<1>2. Fresh'
  BY <1>1 DEF Seen, Fresh, JournalKept, Past
<1>3. ManualActionStops'
  BY <1>1 DEF Seen, ManualActionStops, TaskAt
<1>4. ASSUME NEW t \in Task, InSequence(t)', manual'[t] PROVE erased' \/ Interrupted(t)'
  <2>1. CASE m \in Manual
    <3>1. Ops!AttachControl("ui", m) \/ Ops!Open("ui", "ui", m)
      BY DEF UserBegins
    <3> QED
      BY <1>1, <2>1, <3>1, UserLeavesTrace DEF Interrupted
  <2>2. CASE m \notin Manual
    <3>1. manual'[t] = manual[t]
      BY <1>1, <2>2 DEF FlagsTyped
    <3> QED
      BY <1>1, <1>4, <3>1, OthersSeen
  <2> QED
    BY <2>1, <2>2
<1>5. Trace'
  BY <1>4 DEF Trace
<1> QED
  BY <1>2, <1>3, <1>5 DEF Seen, JournalKept

-----------------------------------------------------------------------------
(* Every step keeps the types. *)

LEMMA SequenceShape ==
    ASSUME TasksTyped, FlagsTyped, NEW t \in Task, Sequence(t)
    PROVE  Proceeds(t) \/ Moves(t, "connect", task[t].baseline, manual[t])
BY CheckShape, AccountShape, ObserveShape, ResolveShape, ConnectShape, WaitShape, AfterShape,
   SleepShape DEF Sequence

LEMMA AgentShape ==
    ASSUME TasksTyped, FlagsTyped, Ops!TypeOK, Agent
    PROVE  (\E t \in Task : Renews(t)) \/ UNCHANGED <<task, manual>>
<1>1. CASE Start
  BY <1>1, StartShape DEF Task
<1>2. CASE Wake
  BY <1>2, WakeShape DEF Task
<1>3. CASE MonitorTick
  BY <1>3, MonitorTickShape DEF Task, MonitorTick, hist
<1>4. CASE MonitorLook
  BY <1>4, MonitorLookShape DEF Task
<1>5. CASE HandleSleep
  BY <1>5, HandleSleepShape DEF Task
<1> QED
  BY <1>1, <1>2, <1>3, <1>4, <1>5 DEF Agent

\* The steps of the user and of the rest of the world.
OutsideSteps == User \/ Progress \/ AccountChanges \/ Switch \/ TunnelDrops
   \/ Suspend

LEMMA OutsideIdle == OutsideSteps => UNCHANGED TaskVars
BY DEF OutsideSteps, User, UserBegins, UserAnswered, ControlAnswered, Progress,
   AccountChanges, Switch,
   TunnelDrops, Suspend, World

LEMMA TasksNext ==
    ASSUME TasksTyped, FlagsTyped, Ops!TypeOK, [SequencesNext]_sequenceVars
    PROVE  TasksTyped'
<1>1. ASSUME NEW t \in Task, Sequence(t) PROVE TasksTyped'
  BY <1>1, SequenceShape DEF Proceeds, Moves, TasksTyped, Attempts
<1>2. ASSUME Agent PROVE TasksTyped'
  BY <1>2, AgentShape DEF Renews, Moves, TasksTyped, Attempts
<1>3. ASSUME UNCHANGED task PROVE TasksTyped'
  BY <1>3 DEF TasksTyped, Attempts
<1> QED
  BY <1>1, <1>2, <1>3, OutsideIdle DEF SequencesNext, OutsideSteps, TaskVars, sequenceVars

Statuses == {"Disconnected", "Connecting", "Connected"}

LEMMA ObservedTyped == Observed \in Statuses
BY DEF Observed, Statuses

LEMMA EndedTyped ==
    ASSUME Sets, FlagsTyped, NEW outcome
    PROVE  Ended(outcome) \in RunRecord
<1>1. run \in RunRecord /\ auto \in BOOLEAN /\ account \in Accounts
  BY DEF Sets, FlagsTyped
<1>2. PICK s \in BOOLEAN : s = (run.stopped \/ outcome = "Interrupted")
  OBVIOUS
<1>3. PICK a \in BOOLEAN : a = IF run.pc = "first" THEN run.auto ELSE auto
  BY <1>1 DEF RunRecord
<1>4. PICK c \in Accounts : c = IF run.pc = "first" /\ outcome # "Finished"
                                  THEN run.account ELSE account
  BY <1>1 DEF RunRecord
<1>5. Ended(outcome) = [run EXCEPT !.pc = "loop", !.stopped = s, !.auto = a, !.account = c]
  BY <1>1, <1>2, <1>3, <1>4 DEF Ended, RunRecord
<1> QED
  BY <1>1, <1>5 DEF RunRecord

LEMMA EndSets ==
    ASSUME Sets, FlagsTyped, NEW t, NEW outcome, End(t, outcome)
    PROVE  run' \in RunRecord
BY EndedTyped DEF End, Sets

LEMMA SequenceSets ==
    ASSUME TasksTyped, Sets, FlagsTyped, NEW t \in Task, Sequence(t)
    PROVE  Sets'
<1>1. CASE Check(t) \/ After(t) \/ Sleep(t)
  <2>1. run' \in RunRecord
    BY <1>1, EndSets DEF Check, After, Sleep, Sets
  <2> QED
    BY <1>1, <2>1 DEF Check, After, Sleep, Sets, Environment
<1>2. CASE Account(t) \/ Resolve(t)
  BY <1>2 DEF Account, Resolve, Sets, Environment
<1>3. CASE Observe(t)
  BY <1>3, ObservedTyped DEF Observe, Sets, Environment, Statuses
<1>4. CASE Connect(t)
  BY <1>4 DEF Connect, Sets, Environment
<1>5. CASE Wait(t)
  BY <1>5 DEF Wait, Sets, Environment
<1> QED
  BY <1>1, <1>2, <1>3, <1>4, <1>5 DEF Sequence

LEMMA AgentSets ==
    ASSUME TasksTyped, Sets, FlagsTyped, Agent
    PROVE  Sets'
<1>0. run \in RunRecord /\ auto \in BOOLEAN /\ account \in Accounts
  BY DEF Sets, FlagsTyped
<1>1. CASE Start
  <2>1. run' \in RunRecord
    BY <1>0, <1>1 DEF Start, RunRecord
  <2> QED
    BY <1>1, <2>1 DEF Start, Sets, Environment
<1>2. CASE Wake
  <2>1. PICK s : run' = [run EXCEPT !.auto = auto, !.account = account, !.stopped = s]
                 /\ s = (~(auto /\ ~run.auto) /\ (run.stopped \/ Interrupted("autoconnect")))
    BY <1>2 DEF Wake
  <2>2. s \in BOOLEAN
    BY <2>1
  <2>3. run' \in RunRecord
    BY <1>0, <2>1, <2>2 DEF RunRecord
  <2> QED
    BY <1>2, <2>3 DEF Wake, Sets, Environment
<1>3. CASE MonitorTick
  BY <1>3, ReconnectAssumption DEF MonitorTick, Sets, Environment, NoSet
<1>4. CASE MonitorLook
  <2>1. NoSet \subseteq 0 .. MaxOperations
     /\ task["monitor"].baseline \subseteq 0 .. MaxOperations
    <3>1. MaxOperations \in Nat
      BY ReconnectAssumption
    <3>2. task["monitor"].baseline \in SUBSET (1 .. MaxOperations)
      BY RecordFields DEF Task, TaskRecord
    <3> QED
      BY <3>1, <3>2 DEF NoSet
  <2>2. CASE CanObserve /\ status' = Observed
    <3>1. owned' \in {task["monitor"].baseline, NoSet, owned}
      BY <1>4, <2>2 DEF MonitorLook
    <3> QED
      BY <1>4, <2>1, <2>2, <3>1, ObservedTyped DEF MonitorLook, Sets, Environment, Statuses
  <2>3. CASE UNCHANGED <<status, owned>>
    BY <1>4, <2>3 DEF MonitorLook, Sets, Environment
  <2> QED
    BY <1>4, <2>2, <2>3 DEF MonitorLook
<1>5. CASE HandleSleep
  BY <1>5, ObservedTyped DEF HandleSleep, Sets, Statuses
<1> QED
  BY <1>1, <1>2, <1>3, <1>4, <1>5 DEF Agent

LEMMA OutsideSets ==
    ASSUME Sets, OutsideSteps
    PROVE  Sets'
<1>1. UNCHANGED <<run, owned>>
  BY OutsideIdle DEF TaskVars
<1>2. account' \in Accounts
  BY DEF OutsideSteps, User, UserBegins, UserAnswered, ControlAnswered, Progress,
     AccountChanges,
     Switch, TunnelDrops, Suspend, World, Environment, Sets, Accounts
<1>3. status' \in Statuses
  BY DEF OutsideSteps, User, UserBegins, UserAnswered, ControlAnswered, Progress,
     AccountChanges,
     Switch, TunnelDrops, Suspend, World, Sets, Statuses
<1> QED
  BY <1>1, <1>2, <1>3 DEF Sets, Statuses

LEMMA SequenceFlags ==
    ASSUME FlagsTyped, NEW t \in Task, Sequence(t)
    PROVE  FlagsTyped'
<1>1. CASE Check(t)
  BY <1>1 DEF Check, FlagsTyped, Environment, hist
<1>2. CASE Account(t)
  BY <1>2 DEF Account, FlagsTyped, Environment, hist
<1>3. CASE Observe(t)
  BY <1>3 DEF Observe, FlagsTyped, Environment, hist
<1>4. CASE Resolve(t)
  BY <1>4 DEF Resolve, FlagsTyped, Environment
<1>5. CASE Connect(t)
  BY <1>5 DEF Connect, FlagsTyped, Environment
<1>6. CASE Wait(t)
  BY <1>6 DEF Wait, FlagsTyped, Environment, Finish
<1>7. CASE After(t)
  BY <1>7 DEF After, FlagsTyped, Environment
<1>8. CASE Sleep(t)
  BY <1>8 DEF Sleep, FlagsTyped, Environment
<1> QED
  BY <1>1, <1>2, <1>3, <1>4, <1>5, <1>6, <1>7, <1>8 DEF Sequence

LEMMA AgentFlags ==
    ASSUME FlagsTyped, Agent
    PROVE  FlagsTyped'
<1>1. CASE Start
  BY <1>1 DEF Start, FlagsTyped, Environment
<1>2. CASE Wake
  <2>1. PICK m \in BOOLEAN : manual' = [manual EXCEPT !["autoconnect"] = m]
    <3>1. manual' = [manual EXCEPT !["autoconnect"] = manual["autoconnect"] /\ ~(auto /\ ~run.auto)]
      BY <1>2 DEF Wake, FlagsTyped, Task
    <3> QED
      BY <3>1
  <2> QED
    BY <1>2, <2>1 DEF Wake, FlagsTyped, Environment
<1>3. CASE MonitorTick
  BY <1>3 DEF MonitorTick, FlagsTyped, Environment, hist
<1>4. CASE MonitorLook
  BY <1>4 DEF MonitorLook, FlagsTyped, Environment
<1>5. CASE HandleSleep
  BY <1>5 DEF HandleSleep, FlagsTyped
<1> QED
  BY <1>1, <1>2, <1>3, <1>4, <1>5 DEF Agent

LEMMA OutsideFlags ==
    ASSUME FlagsTyped, OutsideSteps
    PROVE  FlagsTyped'
<1>1. ASSUME NEW m, UserBegins(m) PROVE FlagsTyped'
  BY <1>1 DEF UserBegins, FlagsTyped, Environment
<1>2. ASSUME NEW op, NEW result, UserAnswered(op, result) PROVE FlagsTyped'
  BY <1>2 DEF UserAnswered, FlagsTyped, Finish
<1>3. ASSUME NEW result, ControlAnswered(result) PROVE FlagsTyped'
  BY <1>3 DEF ControlAnswered, FlagsTyped, Environment
<1>4. ASSUME Progress PROVE FlagsTyped'
  BY <1>4 DEF Progress, FlagsTyped, Environment
<1>5. ASSUME AccountChanges PROVE FlagsTyped'
  BY <1>5 DEF AccountChanges, World, FlagsTyped
<1>6. ASSUME Switch \/ TunnelDrops \/ Suspend PROVE FlagsTyped'
  BY <1>6 DEF Switch, TunnelDrops, Suspend, World, FlagsTyped
<1> QED
  BY <1>1, <1>2, <1>3, <1>4, <1>5, <1>6 DEF OutsideSteps, User

-----------------------------------------------------------------------------
(* The theorems about the sequences. *)

Typed == TasksTyped /\ Sets /\ FlagsTyped

SequenceInv == OpsP!IInv /\ Typed /\ Seen

LEMMA NextTyped ==
    ASSUME Typed, Ops!TypeOK, [SequencesNext]_sequenceVars
    PROVE  Typed'
<1>1. TasksTyped'
  BY TasksNext DEF Typed
<1>2. ASSUME NEW t \in Task, Sequence(t) PROVE Sets' /\ FlagsTyped'
  BY <1>2, SequenceSets, SequenceFlags DEF Typed
<1>3. ASSUME Agent PROVE Sets' /\ FlagsTyped'
  BY <1>3, AgentSets, AgentFlags DEF Typed
<1>4. ASSUME OutsideSteps PROVE Sets' /\ FlagsTyped'
  BY <1>4, OutsideSets, OutsideFlags DEF Typed
<1>5. ASSUME UNCHANGED sequenceVars PROVE Sets' /\ FlagsTyped'
  BY <1>5 DEF Typed, Sets, FlagsTyped, sequenceVars, hist
<1> QED
  BY <1>1, <1>2, <1>3, <1>4, <1>5 DEF Typed, SequencesNext, OutsideSteps

LEMMA NextSeen ==
    ASSUME Typed, Ops!TypeOK, Ops!IdsNameOneRecord, Seen,
           [SequencesNext]_sequenceVars
    PROVE  Seen'
<1>0. JournalKept
  BY StepKept DEF Seen
<1>1. ASSUME NEW t \in Task, Sequence(t) PROVE Seen'
  <2>1. CASE Resolve(t)
    BY <1>0, <2>1, ResolveSeen DEF Typed
  <2>2. CASE ~Resolve(t)
    <3>1. Proceeds(t)
      BY <1>1, <2>2, CheckShape, AccountShape, ObserveShape, ConnectShape, WaitShape,
         AfterShape, SleepShape DEF Sequence, Typed
    <3>2. UNCHANGED manual
      BY <1>1, <2>2 DEF Sequence, Check, Account, Observe, Connect, Wait,
         After, Sleep, hist
    <3> QED
      BY <1>0, <3>1, <3>2, ProceedsSeen
  <2> QED
    BY <2>1, <2>2
<1>2. ASSUME Agent PROVE Seen'
  BY <1>0, <1>2, AgentShape, RenewsSeen, RestSeen DEF Typed
<1>3. ASSUME NEW m, UserBegins(m) PROVE Seen'
  BY <1>0, <1>3, UserBeginsSeen DEF Typed
<1>4. ASSUME OutsideSteps, UNCHANGED manual PROVE Seen'
  BY <1>0, <1>4, OutsideIdle, RestSeen DEF TaskVars
<1>5. ASSUME OutsideSteps PROVE Seen'
  <2>1. UNCHANGED manual \/ \E m : UserBegins(m)
    BY <1>5 DEF OutsideSteps, User, UserAnswered, ControlAnswered, Progress,
       AccountChanges, Switch,
       TunnelDrops, Suspend, World
  <2> QED
    BY <1>3, <1>4, <1>5, <2>1
<1>6. ASSUME UNCHANGED sequenceVars PROVE Seen'
  BY <1>0, <1>6, RestSeen DEF sequenceVars, hist
<1> QED
  BY <1>1, <1>2, <1>5, <1>6 DEF SequencesNext, OutsideSteps

LEMMA InitSequences == SequencesInit => Typed /\ Seen
<1> SUFFICES ASSUME SequencesInit PROVE Typed /\ Seen
  OBVIOUS
<1>2. \A t \in Task : task[t] = IdleTask
  BY DEF SequencesInit
<1>3. IdleTask \in TaskRecord /\ IdleTask.n = 0 /\ IdleTask.baseline = {}
   /\ IdleTask.pc = "idle"
  BY DEF IdleTask, TaskRecord
<1>4. TasksTyped
  BY <1>2, <1>3, Limits DEF SequencesInit, TasksTyped
<1>5. Sets
  BY ReconnectAssumption DEF SequencesInit, Sets, RunRecord, Accounts, NoSet
<1>6. FlagsTyped
  BY DEF SequencesInit, FlagsTyped
<1>7. active = {} /\ next_id = 1
  BY DEF SequencesInit, Ops!Init
<1>8. \A t \in Task : ~manual[t]
  BY DEF SequencesInit
<1> QED
  BY <1>2, <1>3, <1>4, <1>5, <1>6, <1>7, <1>8
     DEF Typed, Seen, Running, Fresh, Past, Trace, ManualActionStops, TaskAt

LEMMA NextSequences == SequenceInv /\ [SequencesNext]_sequenceVars => SequenceInv'
BY NextCoordinator, SameInv, NextTyped, NextSeen DEF SequenceInv

\* The coordinator's invariant, the types, and the traces: a baseline only holds ids of
\* operations that had ended when it was taken, and what the user did since then is in
\* the journal that autoconnect.rs and lifecycle.rs look at, unless it was erased.
THEOREM SequenceInvariant == SequencesSpec => []SequenceInv
<1>1. SequencesInit => SequenceInv
  BY InitCoordinator, InitSequences DEF SequenceInv
<1> QED
  BY <1>1, NextSequences, PTL DEF SequencesSpec

\* The types; no sequence makes more attempts than MAX_ATTEMPTS or the delays of a
\* resume allow.
THEOREM SequenceTypes == SequencesSpec => []SequencesTypeOK
<1>1. SequenceInv => SequencesTypeOK
  <2> SUFFICES ASSUME SequenceInv PROVE SequencesTypeOK
    OBVIOUS
  <2>2. Ops!TypeOK
    BY SameInv DEF SequenceInv
  <2>3. run.pc \in {"start", "first", "loop"} /\ run.stopped \in BOOLEAN
    BY DEF SequenceInv, Typed, Sets, RunRecord
  <2> QED
    BY <2>2, <2>3 DEF SequenceInv, Typed, TasksTyped, Sets, FlagsTyped, Accounts, SequencesTypeOK
<1> QED
  BY <1>1, SequenceInvariant, PTL

\* No task goes on to connect after the user has connected, cancelled, disconnected or
\* signed out since its baseline was taken, unless the journal has lost the trace.
THEOREM ManualActions == SequencesSpec => []ManualActionStops
<1>1. SequenceInv => ManualActionStops
  BY DEF SequenceInv, Seen
<1> QED
  BY <1>1, SequenceInvariant, PTL

\* Beside the tasks too, operations exclude each other, each has one request that will
\* end it, and the ids that the baselines remember name one record.
THEOREM SequencesStayApart ==
    SequencesSpec => [](/\ Ops!NoConflictingOperations /\ Ops!LeaseDiscipline
                        /\ Ops!IdsNameOneRecord)
<1>1. SequenceInv => /\ Ops!NoConflictingOperations /\ Ops!LeaseDiscipline
                     /\ Ops!IdsNameOneRecord
  BY SameInv DEF SequenceInv
<1> QED
  BY <1>1, SequenceInvariant, PTL
=============================================================================
