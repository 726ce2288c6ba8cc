----------------------------- MODULE MCIdentity -----------------------------
(* Identity on small instances. *)
EXTENDS Identity, TLC

CONSTANTS kc, p, c1, m1, k1, k2, k3

TwoSubjects == {kc, p}
MCKeys == {k1, k2, k3}
MCInitialKey ==
    CHOOSE f \in [Subjects -> Keys] : \A s, t \in Subjects : f[s] = f[t] => s = t

MCDefinitions ==
    {[key |-> 1, claimType |-> c1, methodClass |-> m1,
      allowed |-> {"bootstrap_vouched"}, required |-> {},
      minAttestations |-> 1, minPaths |-> 1, minAudits |-> 0]}

Empty == {}

(* Release 1 closes ordinary enrolment, release 2 opens it. *)
MCReleases == {[version |-> 1, notice |-> 1], [version |-> 2, notice |-> 2]}
SecondRelease == {[version |-> 2, notice |-> 2]}

MCSymmetry == Permutations(Subjects) \cup Permutations(Keys)
=============================================================================
