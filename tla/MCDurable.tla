------------------------------ MODULE MCDurable ------------------------------
(* DurableService on small instances. *)
EXTENDS DurableService, TLC

CONSTANTS kc, p, kkc, kp, kr, n1, n2, n3, n4, d1, d2, d3

MCActors == {kc, p}
MCKeys == {kkc, kp, kr}
MCNonces == {n1, n2, n3, n4}
MCDeliveries == {d1, d2, d3}

Signed(a, k, n, op, s, bk) ==
    [actor |-> a, key |-> k, nonce |-> n,
     body |-> [op |-> op, subject |-> s, key |-> bk]]

EnrollKc == Signed(kc, kkc, n1, "enroll", kc, kkc)
EnrollP == Signed(p, kp, n1, "enroll", p, kp)
ActKc == Signed(kc, kkc, n2, "act", kc, kkc)
(* the nonce of the enrolment, used again for something else *)
ReuseKc == Signed(kc, kkc, n1, "act", kc, kkc)
(* a recovery: its request under the new key, its approval, and a command  *)
(* under the key that was bound                                            *)
RequestKc == Signed(kc, kr, n2, "request", kc, kr)
RebindKc == Signed(kc, kkc, n3, "rebind", kc, kr)
ActNew == Signed(kc, kr, n1, "act", kc, kkc)
DeleteKc == Signed(kc, kkc, n4, "delete", kc, kkc)

MCMessages == {EnrollKc, EnrollP, ActKc, ReuseKc, RequestKc, RebindKc, ActNew, DeleteKc}
RetryMessages == {EnrollKc, ActKc, ReuseKc}
=============================================================================
