--------------------------- MODULE MCObjectStatus ---------------------------
(* Specs, Secrets and catalogs to check ObjectStatus with.                 *)
EXTENDS ObjectStatus

CONSTANTS named, half, right, wrong, garbled, url, near, far, here

\* A spec that leaves everything to the defaults.
Plain ==
    [contrabassEndpoint |-> url, contrabassEncryptKey |-> Blank, ref |-> NoRef,
     violaEndpoint |-> Blank, k8sProviderID |-> url,
     contrabassTimeout |-> Blank, openstackTimeout |-> Blank,
     pollFast |-> Blank, pollSlow |-> Blank, pollError |-> Blank, pollFastWindow |-> Blank,
     downPortFastRetryMax |-> Blank,
     neutronEndpoint |-> Blank, interface |-> Blank, region |-> Blank, selector |-> "id"]

Specs1 == [Plain EXCEPT !.ref = named, !.contrabassEncryptKey = right, !.pollError = -5,
                        !.region = here]
Specs2 == [Plain EXCEPT !.contrabassEncryptKey = garbled, !.selector = "none", !.pollFast = 0]
Specs3 == [Plain EXCEPT !.selector = "name", !.neutronEndpoint = url, !.openstackTimeout = 0]
Specs4 == [Plain EXCEPT !.pollFastWindow = Unparsable, !.ref = half]

MCSpecs == {Specs1, Specs2, Specs3, Specs4}

\* Values of the named and the default Secret.
Holding(n, d) == [r \in {named, DefaultRef} |-> IF r = named THEN n ELSE d]

MCSecretStates == {Holding(right, Blank), Holding(Blank, right), Holding(wrong, right)}

Endpoint(i, r, u) == [interface |-> i, regions |-> r, url |-> u]
Service(t, e) == [type |-> t, endpoints |-> e]

\* No endpoint of Neutron; an endpoint in the region but not on the interface,
\* after an empty service; and none in the region.
NoNeutron == <<Service("compute", <<Endpoint("public", {here}, url)>>), Service("network", <<>>)>>
TwoServices == <<Service("network", <<>>),
                 Service("network", <<Endpoint("public", {}, far), Endpoint("admin", {here}, near)>>)>>
OtherRegion == <<Service("network", <<Endpoint("admin", {}, far), Endpoint("public", {}, near),
                                      Endpoint("public", {}, url)>>)>>

MCCatalogs == {NoNeutron, TwoServices, OtherRegion}

Scenario(s, h, c) == [spec |-> s, secrets |-> h, catalog |-> c]

MCScenarios ==
    {Scenario(Specs1, Holding(right, Blank), TwoServices),
     Scenario(Specs2, Holding(wrong, right), OtherRegion)}
=============================================================================
