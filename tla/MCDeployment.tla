---------------------------- MODULE MCDeployment ----------------------------
(* Deployment on a small instance. *)
EXTENDS Deployment, TLC

CONSTANTS d1, e1, e2

OneDraft == {d1}
TwoPaths == {e1, e2}

(* Of the three plain secrets the token: the others are made like it. *)
TokenOnly == <<"token">>

(* A file of each kind that the tool accepts, repairs or refuses. *)
MCFound == {<<"url", 0>>, <<"seed", Short>>, <<"token", Empty>>}

MCSymmetry == Permutations(EvidencePaths)
=============================================================================
