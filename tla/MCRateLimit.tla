----------------------------- MODULE MCRateLimit -----------------------------
(* Instances of RateLimit for TLC; the .cfg files give the constants.      *)
EXTENDS RateLimit, TLC

\* Callers on hosts with the right time differ in nothing but their name.
CallerSymmetry == Permutations(Callers \ Ahead)
=============================================================================
