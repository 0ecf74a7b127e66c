----------------------------- MODULE MCViolaApi -----------------------------
(***************************************************************************)
(* Two requests of two providers, or of the same one, under routing files  *)
(* that give each provider a cluster or a namespace of its own.            *)
(***************************************************************************)
EXTENDS ViolaApi, TLC

CONSTANTS r1, r2

Node(n, x) == [nodeName |-> n, interfaces |-> x]

MCBodies ==
    {<<>>,
     <<Node("n1", "a")>>,
     <<Node("n1", "b"), Node("n2", "a")>>,
     <<Node("n1", "a"), Node("n1", "b")>>,
     <<Node("N2", "a")>>,
     <<Node("n2", "b"), Node(Blank, "a")>>}

\* Two names make one object name.
MCSanitized == [n \in {"n1", "n2", "N2"} |-> IF n = "N2" THEN "n2" ELSE n]

\* A target with the given fields.
With(fields) == fields @@ EmptyTarget

Here == With([mode |-> "local", kubeApi |-> "here", kubeAuth |-> "token"])
Far == With([mode |-> "ssh", sshHost |-> "far", sshAuth |-> "pass"])
InNamespace(ns) == With([namespace |-> ns])
Route(p, t) == [providerID |-> p, target |-> t]

LocalOnly == [file |-> FALSE, local |-> Here, default |-> NoTarget,
              targets |-> <<>>, strict |-> FALSE]

\* p1 over ssh and p2 nowhere, but for an older route of p1.
StrictFile == [file |-> TRUE, local |-> Here, default |-> NoTarget, strict |-> TRUE,
               targets |-> <<Route("p1", InNamespace("old")), Route("p1", Far)>>]

\* Both in namespaces of the far cluster, all others here.
DefaultFile == [file |-> TRUE, local |-> Here, default |-> InNamespace("rest"),
                strict |-> FALSE,
                targets |-> <<Route("p1", Far), Route("p2", InNamespace("ns2"))>>]

\* No local target, a default that is no target, and a mode that is none.
BrokenFile == [file |-> TRUE, local |-> NoTarget, default |-> InNamespace("rest"),
               strict |-> FALSE,
               targets |-> <<Route("p1", Far), Route("p2", With([mode |-> "vpn"]))>>]

MCRoutingOf == [none |-> LocalOnly, strict |-> StrictFile,
                default |-> DefaultFile, broken |-> BrokenFile]

Symmetry == Permutations(Requests)
=============================================================================
