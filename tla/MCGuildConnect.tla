--------------------------- MODULE MCGuildConnect ---------------------------
(* Instance of GuildConnect for TLC. *)
EXTENDS GuildConnect, TLC
CONSTANTS s1, s2, g1, g2

\* Guilds are alike; used only where safety is checked.
Symmetry == Permutations({g1, g2})
=============================================================================
