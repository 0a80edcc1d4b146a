------------------------------ MODULE Catalog ------------------------------
(***************************************************************************)
(* The server catalog (agent/src/native_backend/catalog.rs, models.rs and  *)
(* server_validation.rs): which endpoints can be trusted, what the lists   *)
(* of the clients show, and which logical servers a target can mean.       *)
(*                                                                         *)
(* A catalog is the sequence of its logical servers, and a server that a   *)
(* selection considers is its position in it.  Names and codes are in      *)
(* their normal form, so equality stands for eq_ignore_ascii_case, and ""  *)
(* is a field that is missing.  The bits of `features` are a set; names    *)
(* are searched whole and lists are sets, so neither the ranks of a search *)
(* nor the order and the pages of a list are represented.                  *)
(***************************************************************************)
EXTENDS Naturals, Sequences, FiniteSets

Feature == {"secure_core", "tor", "p2p", "streaming", "restricted", "partner"}

FEATURE_B2B          == {"restricted"}
FEATURE_NON_STANDARD == {"secure_core", "tor", "restricted", "partner"}

(* Servers *)

\* A signature is missing, there but wrong, or made by the pinned key over the
\* address and the label.
Signature == {"none", "wrong", "good"}

PhysicalServer == [active : BOOLEAN, well_formed : BOOLEAN, signature : Signature]

enabled(s)  == s.active /\ \E p \in s.servers : p.active
standard(s) == s.features \cap FEATURE_NON_STANDARD = {}

\* The address, the label and the key are looked at before the signature.
validate(p) == p.well_formed /\ p.signature = "good"

Verified(s) == {p \in s.servers : p.active /\ validate(p)}

has_endpoint_signatures(catalog) ==
    LET endpoints == UNION {{p \in catalog[i].servers : p.active} : i \in DOMAIN catalog}
    IN  /\ endpoints # {}
        /\ \A p \in endpoints : p.signature # "none"

(* States that the catalog leaves out *)

city_states(catalog, country, city) ==
    {catalog[i].state : i \in {j \in DOMAIN catalog :
        /\ city # "" /\ catalog[j].state # ""
        /\ catalog[j].exit = country /\ catalog[j].city = city}}

canonical_state(catalog, s) ==
    LET states == city_states(catalog, s.exit, s.city)
    IN  IF s.state = "" /\ Cardinality(states) = 1 THEN CHOOSE state \in states : TRUE
                                                   ELSE s.state

(* Lists *)

Within(catalog, tier) == {i \in DOMAIN catalog : catalog[i].tier <= tier}

Consumer(s) ==
    s.gateway = "" /\ s.features \cap (FEATURE_B2B \cup {"partner"}) = {} /\ s.exit # ""

\* The places of the servers of a country that have the feature, with the state
\* they are shown under.
Subdivisions(catalog, group) ==
    {[state |-> canonical_state(catalog, catalog[i]), city |-> catalog[i].city] : i \in group}

Country(catalog, group) ==
    [server_count           |-> Cardinality(group),
     available_server_count |-> Cardinality({i \in group : enabled(catalog[i])}),
     standard               |-> \E i \in group : standard(catalog[i]),
     features               |-> UNION {catalog[i].features : i \in group},
     places     |-> Subdivisions(catalog, {i \in group : standard(catalog[i])}),
     p2p_places |-> Subdivisions(catalog, {i \in group : "p2p" \in catalog[i].features}),
     secure_core_entries |->
        {catalog[i].entry : i \in {j \in group : "secure_core" \in catalog[j].features}} \ {""}]

Gateway(catalog, group) ==
    [server_count           |-> Cardinality(group),
     available_server_count |-> Cardinality({i \in group : enabled(catalog[i])})]

locations(catalog, tier) ==
    LET known     == Within(catalog, tier)
        consumers == {i \in known : Consumer(catalog[i])}
        gateways  == {catalog[i].gateway : i \in known} \ {""}
    IN  [countries |-> [code \in {catalog[i].exit : i \in consumers} |->
                           Country(catalog, {i \in consumers : catalog[i].exit = code})],
         gateways  |-> [name \in gateways |->
                           Gateway(catalog, {i \in known : catalog[i].gateway = name})]]

\* What a client asks of servers.get: "" is a filter that is not used.
servers_page(catalog, tier, country, gateway, feature, scope) ==
    {i \in Within(catalog, tier) :
        LET s == catalog[i] IN
        /\ country \in {"", s.exit}
        /\ gateway \in {"", s.gateway}
        /\ CASE scope = "consumer" -> s.gateway = ""
             [] scope = "gateways" -> s.gateway # ""
             [] OTHER -> TRUE
        /\ CASE feature = "standard" -> standard(s)
             [] feature \in {"secure_core", "p2p", "tor"} -> feature \in s.features
             [] OTHER -> TRUE}

\* The filters that servers.get refuses.
PageRefused(gateway, feature, scope) ==
    \/ feature \notin {"", "all", "standard", "secure_core", "p2p", "tor"}
    \/ gateway # "" /\ feature \notin {"", "all"}
    \/ scope \notin {"", "all", "consumer", "gateways"}

(* Targets *)

\* The target {} of connection.connect: every key is optional.
AnyTarget ==
    [server_name |-> "", country |-> "", entry |-> "", state |-> "", city |-> "",
     gateway |-> "", features |-> {}, random |-> FALSE, random_server |-> FALSE,
     free_random |-> FALSE, exclude_my_country |-> FALSE, exclude_server_name |-> ""]

\* The error a target is refused with before any server is looked at, or "".
TargetError(t, device_country) ==
    IF \/ Cardinality(t.features) > 1
       \/ t.gateway # "" /\ t.features # {}
       \/ (t.state # "" \/ t.city # "") /\ t.country = ""
       \/ t.entry # "" /\ "secure_core" \notin t.features
       \/ t.random /\ t.random_server
    THEN "invalid_params"
    ELSE IF t.exclude_my_country /\ device_country = "" THEN "device_location_unavailable"
    ELSE ""

\* Variant for a mutant: a state that the catalog leaves out is not inferred.
InOwnState(catalog, t, s) == t.state \in {"", s.state}

InState(catalog, t, s) == t.state \in {"", canonical_state(catalog, s)}

matches(catalog, t, device_country, s) ==
    /\ t.gateway \in {"", s.gateway}
    /\ t.country \in {"", s.exit}
    /\ t.exclude_my_country => s.exit # device_country
    /\ t.entry \in {"", s.entry}
    /\ InState(catalog, t, s)
    /\ t.city \in {"", s.city}
    /\ t.features \subseteq s.features
    /\ t.features = {} /\ t.gateway = "" => standard(s)
    /\ t.free_random => s.tier = 0
    /\ t.exclude_server_name # "" => t.exclude_server_name # s.name

explicit_location(t) ==
    \E place \in {t.server_name, t.country, t.entry, t.state, t.city, t.gateway} : place # ""

excluded_location_matches(location, s, state) ==
    \/ "secure_core" \in s.features /\ location.kind = "country" /\ s.entry = location.country
    \/ /\ s.exit = location.country
       /\ \/ location.kind = "country"
          \/ location.kind = "state" /\ state = location.state
          \/ /\ location.kind = "city"
             /\ location.state \in {"", state} /\ s.city = location.city

IsExcluded(catalog, s, excluded) ==
    \E location \in excluded :
        excluded_location_matches(location, s, canonical_state(catalog, s))

ExclusionsApply(t, tier, excluded) == tier > 0 /\ ~explicit_location(t) /\ excluded # {}

(* One choice among the servers still available *)

\* The sort is stable, so the earliest of the servers with the best score.
Fastest(catalog, group) ==
    CHOOSE i \in group : \A j \in group \ {i} :
        catalog[i].score < catalog[j].score \/ (catalog[i].score = catalog[j].score /\ i < j)

\* The servers that may be chosen from a nonempty set of candidates: any of them,
\* or the fastest, of all countries or of the one that was drawn.
Choices(catalog, t, candidates) ==
    LET groups == IF t.random \/ t.free_random
                  THEN {{i \in candidates : catalog[i].exit = catalog[k].exit} : k \in candidates}
                  ELSE {candidates}
    IN  UNION {IF t.random_server THEN g ELSE {Fastest(catalog, g)} : g \in groups}
============================================================================
