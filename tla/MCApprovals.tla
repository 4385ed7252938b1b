----------------------------- MODULE MCApprovals -----------------------------
(* Approvals with small sets of kinds, changes and concurrent transactions. *)
EXTENDS Approvals, TLC

CONSTANTS k1, k2, k3, k4, t1, x1, x2, id1, p1, b1, s1, s2, c1, c2

OneKind == {k1}
Kinds == {k1, k2}
ThreeKinds == {k1, k2, k3}
FourKinds == {k1, k2, k3, k4}
JustK1 == {k1}
JustK2 == {k2}
Targets == {t1}
OneChange == {x1}
Changes == {x1, x2}
SameIdentities == [x \in Changes |-> id1]
OneIdentity == [x \in OneChange |-> id1]
Passports == {p1}
OneBundle == {b1}
Stagers == {s1, s2}
OneStager == {s1}
Callers == {c1, c2}
OneCaller == {c1}

\* Interchangeable transactions.
StagerSymmetry == Permutations(Stagers)
CallerSymmetry == Permutations(Callers)

Req(op, kind, change, by, bundle) ==
    [op |-> op, kind |-> kind, target |-> t1, change |-> change, by |-> by, bundle |-> bundle]

\* Racing offers of one identity, in a bundle or not, with and without memory.
OfferRequests ==
    {Req("unless", k1, x1, Server, b1), Req("unless", k1, x2, Server, NoBundle),
     Req("identity", k1, x1, Server, NoBundle)}

\* Three pinned kinds: an agent call whose write carries its pin (k1), and two
\* server proposals, whose executors spend and apply in one transaction (k2) and
\* write without the pin in a second one (k3).  An agent call that pins nothing.
RedeemRequests ==
    {Req("call", k1, x1, p1, NoBundle), Req("create", k2, x1, Server, NoBundle),
     Req("create", k3, x1, Server, NoBundle), Req("call", k4, x1, p1, NoBundle)}

\* One proposal of a pinned kind.
PinnedSameTxRequests == {Req("create", k1, x1, Server, NoBundle)}

\* Racing calls of one agent and a joining flow, of a kind that expires, and a
\* proposal of a kind that does not.
LiveRequests ==
    {Req("call", k1, x1, p1, NoBundle), Req("join", k1, x1, Server, b1),
     Req("create", k2, x1, Server, NoBundle)}

=============================================================================
