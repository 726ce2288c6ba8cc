---------------------------- MODULE MCMembership ----------------------------
(* Membership on a small instance. *)
EXTENDS Membership, TLC

CONSTANTS s1, s2, q1

TwoSubjects == {s1, s2}
OnePoll == {q1}

(* The ordinary release, and one with another notice that closes enrolment. *)
MCReleases == {[version |-> 2, notice |-> 1], [version |-> 3, notice |-> 2]}

MCSymmetry == Permutations(Subjects)
=============================================================================
