--------------------------- MODULE MCGuildManager ---------------------------
(* Instance of GuildManager for TLC. *)
EXTENDS GuildManager
CONSTANTS w, k, a
=============================================================================
