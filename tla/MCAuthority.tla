---------------------------- MODULE MCAuthority ----------------------------
(* Two stations, two keys, room for three entries after the genesis.        *)
EXTENDS AuthorityTransition, TLC
CONSTANTS station_a, station_b, key_a, key_b
MCStations == {station_a, station_b}
MCKeys == {key_a, key_b}
Symmetry == Permutations(MCStations) \cup Permutations(MCKeys)
=============================================================================
