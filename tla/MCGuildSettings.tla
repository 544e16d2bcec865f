-------------------------- MODULE MCGuildSettings --------------------------
(* Instances of GuildSettings for TLC; the .cfg files give the constants.  *)
EXTENDS GuildSettings, TLC

\* Handlers differ in nothing but their name.
SetupSymmetry == Permutations(Setups)
=============================================================================
