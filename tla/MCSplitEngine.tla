--------------------------- MODULE MCSplitEngine ---------------------------
(***************************************************************************)
(* An instance of SplitEngine for TLC.                                     *)
(***************************************************************************)
EXTENDS SplitEngine, FiniteSetsExt, TLC

Cfg(m, apps, ranges) == [mode |-> m, app_paths |-> apps, ip_ranges |-> ranges]

Configs == {Cfg("Exclude", {"app"}, {}), Cfg("Include", {"app"}, {"lan"}),
            Cfg("Exclude", {}, {})}

Via(f, l) == [family |-> f, link |-> l]

Offers == {{Via("Ipv4", 1), Via("Ipv4", 2)}, {Via("Ipv4", 2), Via("Ipv6", 1)}}

\* A rule or a route is worth one byte, a destination policy two: the limit of five is
\* reached exactly and passed.
RuleCount(f) ==
    MapThenSumSet(LAMBDA u : Cardinality(f.configs[u].app_paths) + Cardinality(f.configs[u].ip_ranges)
                                + 2 * Cardinality(f.policies[u]) + Cardinality(f.bypass[u]), Uid)

\* Two processes of the first user, from which the others are forked.
AgentAndApp == 1 :> [uid |-> 1, ppid |-> 0, image |-> "agent"]
               @@ 2 :> [uid |-> 1, ppid |-> 1, image |-> "app"]
=============================================================================
