------------------------------ MODULE Settings ------------------------------
(***************************************************************************)
(* What Reconcile makes of spec.settings, the Secrets and the defaults     *)
(* (resolveSettings in internal/controller/openstackconfig_controller.go), *)
(* and the endpoint it takes from Keystone's catalog (FindEndpoint in      *)
(* pkg/openstack/keystone.go).                                             *)
(*                                                                         *)
(* A text is Blank when nothing is left of it after TrimSpace.  A duration *)
(* is Blank, Unparsable, or a number of seconds, of any sign.  A Secret and*)
(* a key in it are one reference; an unreadable one has the value Blank.   *)
(***************************************************************************)
EXTENDS Integers, Sequences, FiniteSetsExt

CONSTANTS
    Blank,          \* "" or nil
    Unparsable,     \* a text that time.ParseDuration refuses
    NoRef,          \* no contrabassEncryptKeySecretRef
    DefaultRef,     \* Secret contrabass-encrypt-key, key CONTRABASS_ENCRYPT_KEY
    EnvViola        \* VIOLA_ENDPOINT

Durations == Int \cup {Blank, Unparsable}

DurationsOf(spec) ==
    {spec.contrabassTimeout, spec.openstackTimeout,
     spec.pollFast, spec.pollSlow, spec.pollError, spec.pollFastWindow}

\* resolveString and resolveInt, and resolveDuration of a text that parses.
Resolve(value, default) == IF value # Blank THEN value ELSE default

\* readSecretKey.  A reference with a blank name or key is none of secrets.
ReadSecretKey(secrets, ref) == IF ref \in DOMAIN secrets THEN secrets[ref] ELSE Blank

\* Mutated form: a named Secret that cannot be read is replaced by the others.
EncryptKeyFallback(spec, secrets) ==
    Resolve(Resolve(ReadSecretKey(secrets, spec.ref), ReadSecretKey(secrets, DefaultRef)),
            spec.contrabassEncryptKey)

\* resolveContrabassEncryptKey, Blank for its error.
EncryptKey(spec, secrets) ==
    IF spec.ref # NoRef
    THEN ReadSecretKey(secrets, spec.ref)
    ELSE Resolve(ReadSecretKey(secrets, DefaultRef), spec.contrabassEncryptKey)

\* resolveSettings returns no error, and k8sProviderID is given.
Accepted(spec, secrets) ==
    /\ spec.contrabassEndpoint # Blank
    /\ EncryptKey(spec, secrets) # Blank
    /\ Resolve(spec.violaEndpoint, EnvViola) # Blank
    /\ Unparsable \notin DurationsOf(spec)
    /\ spec.k8sProviderID # Blank

Positive(d, default) == IF d <= 0 THEN default ELSE d

PollFast(spec) == Positive(Resolve(spec.pollFast, 20), 20)

PollSlow(spec) ==
    LET slow == Positive(Resolve(spec.pollSlow, 120), 120)
    IN  IF slow < PollFast(spec) THEN PollFast(spec) ELSE slow

\* Mutated form: the interval is taken as it is given.
PollErrorAsGiven(spec) == Resolve(spec.pollError, 30)

PollError(spec) == Positive(Resolve(spec.pollError, 30), 30)

PollFastWindow(spec) ==
    LET window == Resolve(spec.pollFastWindow, 180) IN IF window < 0 THEN 0 ELSE window

DownPortFastMax(spec) ==
    LET max == Resolve(spec.downPortFastRetryMax, 5) IN IF max < 1 THEN 1 ELSE max

\* The requeue after a ConfigError, when there are no settings to ask.
ConfigErrorWait == 30

----------------------------------------------------------------------------
(* Endpoints.  A catalog is a sequence of services, a service has a type   *)
(* and a sequence of endpoints; regions is the set of the region and the   *)
(* region_id of an endpoint.                                               *)

\* The endpoints among which one is chosen: those of the first service of the
\* type that has any.
EndpointsOf(catalog, type) ==
    LET offers == {i \in DOMAIN catalog :
                      catalog[i].type = type /\ catalog[i].endpoints # <<>>}
    IN  IF offers = {} THEN <<>> ELSE catalog[Min(offers)].endpoints

\* The places in which a slice is looked through: some of all, or all if there
\* are none of them.
Preferred(some, all) == IF some # {} THEN some ELSE all

InRegion(es, places, region) ==
    Preferred({j \in places : region \in es[j].regions}, places)

OnInterface(es, places, iface) ==
    Preferred({j \in places : es[j].interface = iface}, places)

\* Mutated form: the interface counts more than the region.
FindEndpointByInterface(catalog, type, iface, region) ==
    LET es == EndpointsOf(catalog, type)
    IN  IF es = <<>> THEN Blank
        ELSE es[Min(InRegion(es, OnInterface(es, DOMAIN es, iface), region))].url

\* FindEndpoint.  A Blank region is the region of no endpoint.
FindEndpoint(catalog, type, iface, region) ==
    LET es == EndpointsOf(catalog, type)
    IN  IF es = <<>> THEN Blank
        ELSE es[Min(OnInterface(es, InRegion(es, DOMAIN es, region), iface))].url

NeutronEndpoint(spec, catalog) ==
    Resolve(spec.neutronEndpoint,
            FindEndpoint(catalog, "network", Resolve(spec.interface, "public"), spec.region))
=============================================================================
