-------------------------- MODULE MCCanonicalStore --------------------------
(* Instance of CanonicalStore: one account besides the unscoped one, with  *)
(* room for two profiles, which the two seeded ones fill.                  *)
EXTENDS CanonicalStore

CONSTANTS k1, u1, o1, s1

\* A Qt store with one profile and a pinned recent that is its default.
LegacyStore ==
    [NewAccount EXCEPT !.profiles = {u1}, !.default_connection = <<"recent", 0>>,
        !.recents = {[key |-> <<"server", s1>>, id |-> 0, pinned |-> TRUE, pin |-> 0, last |-> 0]}]

\* One with more profiles than are imported, and a recent of one of them.
LargeStore ==
    [NewAccount EXCEPT !.profiles = {u1, o1, Fastest}, !.default_connection = <<"recent", 0>>,
        !.recents = {[key |-> <<"profile", u1>>, id |-> 0, pinned |-> FALSE, pin |-> 0, last |-> 0]}]

MCLegacy == {LegacyStore, LargeStore}
=============================================================================
