---------------------------- MODULE MCJobControl ----------------------------
(* Instances of JobControl for TLC; the .cfg files give the constants.     *)
EXTENDS JobControl, TLC

CONSTANT owner  \* the user who owns every guild of the instance

AllOwnedBy == [g \in Guilds |-> owner]

\* Handlers differ in nothing but their name.
CallSymmetry == Permutations(Calls)
=============================================================================
