---------------------------- MODULE MCDiscovery -----------------------------
(* Discovery for two providers, the second under a prefix that the first    *)
(* one's begins, so that a name may be a model of either; the reload drops  *)
(* the second and the static alias and renames the first one's prefix.      *)
EXTENDS Discovery

CONSTANTS l1, l2

MCConfigs ==
  <<[static |-> {<<"s">>}, prefix |-> <<<<"a">>, <<"a", "b">>>>],
    [static |-> {}, prefix |-> <<<<"c">>>>]>>

MCIDs == {<<"m">>, <<"b", "m">>}
MCAliases == {<<"a", "m">>, <<"a", "b", "m">>, <<"c", "m">>, <<"x">>}
Symmetry == Permutations(Lookups)
=============================================================================
