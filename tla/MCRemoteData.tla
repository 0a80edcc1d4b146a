--------------------------- MODULE MCRemoteData ----------------------------
(* Instance of RemoteData: two catalogs with a server whose endpoint is not *)
(* verified, a city that is in one state or, after a lookup, in two, and a  *)
(* gateway.                                                                 *)
EXTENDS RemoteData, TLC

CONSTANTS n1, n2

Good     == {[active |-> TRUE, well_formed |-> TRUE, signature |-> "good"]}
Wrong    == {[active |-> TRUE, well_formed |-> TRUE, signature |-> "wrong"]}
Unsigned == {[active |-> TRUE, well_formed |-> TRUE, signature |-> "none"]}

Logical(name, country, city, state, tier, features, score, servers) ==
    [id |-> name, name |-> name, entry |-> country, exit |-> country, city |-> city,
     state |-> state, tier |-> tier, features |-> features, gateway |-> "", score |-> score,
     active |-> TRUE, servers |-> servers]

us1  == Logical("US#1", "US", "Springfield", "IL", 1, {}, 2, Good)
us2  == Logical("US#2", "US", "Springfield", "", 1, {"p2p"}, 1, Wrong)
us3  == Logical("US#3", "US", "Springfield", "OR", 1, {"p2p"}, 3, Good)
ch1  == Logical("CH#1", "CH", "Zurich", "", 0, {}, 3, Good)
mx1  == Logical("MX#1", "MX", "", "", 0, {"streaming"}, 1, Wrong)
sc1  == [Logical("CH-US#1", "US", "", "", 1, {"secure_core"}, 1, Good) EXCEPT !.entry = "CH"]
acme == [Logical("ACME#1", "US", "", "", 1, {"restricted"}, 1, Good) EXCEPT !.gateway = "ACME"]
down == [ch1 EXCEPT !.active = FALSE]

MCOffered  == {<<us2, us1, ch1, sc1>>, <<down, us2, acme, mx1>>}
MCCached   == {<<[ch1 EXCEPT !.servers = Unsigned], us1>>}
\* One the catalogs do not have, and one they have for a higher tier.
MCLookedUp == {us3, [us1 EXCEPT !.tier = 0, !.servers = Unsigned \cup Good]}

MCCountryOf == (n1 :> "CH") @@ (n2 :> "MX")

In(country) == [AnyTarget EXCEPT !.country = country]

MCTargets ==
    {AnyTarget, In("US"),
     [In("US") EXCEPT !.state = "IL", !.city = "Springfield"],
     [In("US") EXCEPT !.features = {"p2p"}],
     [AnyTarget EXCEPT !.random = TRUE],
     [AnyTarget EXCEPT !.random_server = TRUE, !.exclude_server_name = "US#1"],
     [AnyTarget EXCEPT !.free_random = TRUE], [AnyTarget EXCEPT !.exclude_my_country = TRUE],
     [AnyTarget EXCEPT !.features = {"secure_core"}, !.entry = "CH"],
     [AnyTarget EXCEPT !.gateway = "ACME"],
     [AnyTarget EXCEPT !.server_name = "US#2"], [AnyTarget EXCEPT !.server_name = "US#3"],
     [AnyTarget EXCEPT !.server_name = "US#1", !.features = {"tor"}],
     [AnyTarget EXCEPT !.features = {"tor", "p2p"}]}

MCExclusions ==
    {{},
     {[kind |-> "country", country |-> "CH", state |-> "", city |-> ""],
      [kind |-> "state", country |-> "US", state |-> "IL", city |-> ""],
      [kind |-> "city", country |-> "US", state |-> "", city |-> "Chicago"]}}
============================================================================
