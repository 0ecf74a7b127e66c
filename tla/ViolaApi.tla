------------------------------ MODULE ViolaApi ------------------------------
(***************************************************************************)
(* The receiving side of the operator's requests (cmd/viola-test-api): the *)
(* router that maps a provider to a target cluster, and handleApply, which *)
(* checks a request, turns it into a manifest and runs kubectl apply.      *)
(*                                                                         *)
(* net/http serves every request in a goroutine of its own and nothing     *)
(* keeps two kubectl processes apart.  kubectl applies the documents one by*)
(* one and goes on after one is refused.  It is killed after               *)
(* KUBECTL_TIMEOUT, when the client gives up, and when the process dies;   *)
(* the call it had in flight may still take effect, and over ssh so may    *)
(* everything after it.                                                    *)
(***************************************************************************)
EXTENDS Naturals, Sequences

CONSTANTS
    Requests,       \* requests in a behaviour
    Bodies,         \* their payloads: sequences of node configs
    Providers,      \* values of x-provider-id
    NoProvider,     \* no such header
    NodeNames,
    Blank,          \* a node name of blanks
    Ifaces,         \* interface lists
    Sanitized,      \* [NodeNames -> object names], sanitizeName
    Files,          \* routing files, by a name
    RoutingOf,      \* what each says, with the local target found beside it
    Unset,          \* a target field that is not given
    Namespace,      \* TARGET_NAMESPACE
    NoTarget,       \* no such target
    NoRequest,      \* not sent yet
    NoObject,       \* no such object in the cluster
    MaxFaults,      \* bound: refused documents and killed kubectls
    MaxCrashes      \* bound: kills of the process

Docs == [nodeName : NodeNames \cup {Blank}, interfaces : Ifaces]

ASSUME ViolaAssumption ==
    /\ Bodies \subseteq Seq(Docs)
    /\ NoProvider \notin Providers
    /\ Blank \notin NodeNames
    /\ DOMAIN Sanitized = NodeNames
    /\ DOMAIN RoutingOf = Files
    /\ Unset \notin {"local", "ssh"}
    /\ MaxFaults \in Nat /\ MaxCrashes \in Nat

\* What the operator posts.
Posts == [provider : Providers \cup {NoProvider}, body : Bodies]

\* An object, its provider label, and (history) the document that it is from.
Objects == [nodeName : NodeNames, provider : Providers \cup {NoProvider},
            interfaces : Ifaces, by : Requests, doc : Nat]

ASSUME ViolaNilAssumption == NoRequest \notin Posts /\ NoObject \notin Objects

VARIABLES
    routing,    \* the router's configuration
    request,    \* provider and body of each request
    pc,         \* where each request is
    next,       \* index of the document kubectl applies next
    failed,     \* kubectl reported an error for a document
    answer,     \* the status each client got
    objects,    \* MultiNicNodeConfigs by cluster and object name
    overlap,    \* history: requests that kubectl ran for at the same time
    faults, crashes

vars == <<routing, request, pc, next, failed, answer, objects, overlap, faults, crashes>>

----------------------------------------------------------------------------
(* The router.                                                             *)

EmptyTarget == [mode |-> Unset, namespace |-> Unset, kubeApi |-> Unset,
                kubeAuth |-> Unset, sshHost |-> Unset, sshAuth |-> Unset]

\* Mutated form: a target does not override what the default has.
MergeKeepingBase(base, override) ==
    [f \in DOMAIN base |-> IF base[f] # Unset THEN base[f] ELSE override[f]]

\* mergeTarget: the fields that a target gives win.
MergeTarget(base, override) ==
    [f \in DOMAIN base |-> IF override[f] # Unset THEN override[f] ELSE base[f]]

\* A local target has all of its fields, the ones that are not given too.
ASSUME LocalTargetAssumption ==
    \A f \in Files : RoutingOf[f].local # NoTarget =>
        DOMAIN RoutingOf[f].local = DOMAIN EmptyTarget

NormalizeTarget(t) ==
    [t EXCEPT !.mode = IF @ = Unset THEN "local" ELSE @,
              !.namespace = IF @ = Unset THEN Namespace ELSE @]

\* validateTarget; the tokens and names that go with an address are one field.
ValidTarget(t) ==
    \/ t.mode = "local" /\ t.kubeApi # Unset /\ t.kubeAuth # Unset
    \/ t.mode = "ssh" /\ t.sshHost # Unset /\ t.sshAuth # Unset

\* newRouter: the local target, under the default of the routing file.
DefaultTarget(r) ==
    LET own == NormalizeTarget(IF r.local = NoTarget THEN EmptyTarget ELSE r.local)
    IN IF r.default = NoTarget THEN own ELSE NormalizeTarget(MergeTarget(own, r.default))

HasDefault(r) == r.local # NoTarget \/ r.default # NoTarget

\* Without a routing file the local target must be there and valid.
Starts(r) == r.file \/ (r.local # NoTarget /\ ValidTarget(DefaultTarget(r)))

\* Routes of a provider; the last one of a file replaces the others.
RoutesOf(r, p) == {n \in DOMAIN r.targets : p # NoProvider /\ r.targets[n].providerID = p}

RouteOf(r, p) ==
    r.targets[CHOOSE n \in RoutesOf(r, p) : \A m \in RoutesOf(r, p) : m <= n].target

\* Mutated form: every provider goes to the default.
PickDefault(r, p) == IF HasDefault(r) THEN DefaultTarget(r) ELSE NoTarget

\* pickTarget
PickTarget(r, p) ==
    IF RoutesOf(r, p) # {}
    THEN NormalizeTarget(MergeTarget(DefaultTarget(r), RouteOf(r, p)))
    ELSE IF ~r.strict /\ HasDefault(r) THEN DefaultTarget(r) ELSE NoTarget

\* The namespace of a cluster that kubectl reaches with this target.
Address(t) == <<IF t.mode = "ssh" THEN t.sshHost ELSE t.kubeApi, t.namespace>>

----------------------------------------------------------------------------
(* A request.                                                              *)

\* pickTarget for every routing file and provider.
Targets == [f \in Files |->
    [p \in Providers \cup {NoProvider} |-> PickTarget(RoutingOf[f], p)]]

Target(q) == Targets[routing][request[q].provider]

\* Mutated form: nodes without a name are left out.
ManifestSkipping(body) == SelectSeq(body, LAMBDA d : d.nodeName # Blank)

\* buildManifest: no manifest at all when a node has no name.
Manifest(body) ==
    IF \E j \in DOMAIN body : body[j].nodeName = Blank THEN <<>> ELSE body

DocsOf(q) == Manifest(request[q].body)

\* Mutated form: kubectl is not given the target of the request.
PlaceOfDefault(q, j) ==
    <<Address(DefaultTarget(RoutingOf[routing])), Sanitized[DocsOf(q)[j].nodeName]>>

\* Where a document of a request goes.
PlaceOf(q, j) == <<Address(Target(q)), Sanitized[DocsOf(q)[j].nodeName]>>

Addresses == UNION {{Address(Targets[f][p]) :
    p \in {o \in Providers \cup {NoProvider} : Targets[f][o] # NoTarget}} : f \in Files}

Places == Addresses \X {Sanitized[n] : n \in NodeNames}

TypeOK ==
    /\ routing \in Files
    /\ request \in [Requests -> Posts \cup {NoRequest}]
    /\ pc \in [Requests -> {"unsent", "received", "applying", "orphan", "done"}]
    /\ next \in [Requests -> Nat \ {0}]
    /\ failed \in [Requests -> BOOLEAN]
    /\ answer \in [Requests -> {"none", "lost", "200", "400", "500"}]
    /\ objects \in [Places -> Objects \cup {NoObject}]
    /\ overlap \in [Requests -> SUBSET Requests]
    /\ \A q \in Requests : pc[q] \in {"applying", "orphan"} =>
           Target(q) # NoTarget /\ Target(q).mode \in {"local", "ssh"}
    /\ faults \in 0..MaxFaults /\ crashes \in 0..MaxCrashes

Init ==
    /\ routing \in {f \in Files : Starts(RoutingOf[f])}
    /\ request = [q \in Requests |-> NoRequest]
    /\ pc = [q \in Requests |-> "unsent"]
    /\ next = [q \in Requests |-> 1]
    /\ failed = [q \in Requests |-> FALSE]
    /\ answer = [q \in Requests |-> "none"]
    /\ objects = [x \in Places |-> NoObject]
    /\ overlap = [q \in Requests |-> {}]
    /\ faults = 0 /\ crashes = 0

Running == {q \in Requests : pc[q] \in {"applying", "orphan"}}

Post(q, p, body) ==
    /\ pc[q] = "unsent"
    /\ request' = [request EXCEPT ![q] = [provider |-> p, body |-> body]]
    /\ pc' = [pc EXCEPT ![q] = "received"]
    /\ UNCHANGED <<routing, next, failed, answer, objects, overlap, faults, crashes>>

\* What handleApply checks before it runs kubectl: that there are nodes, a
\* valid target for the provider, and a name for each node.
Acceptable(q) ==
    Target(q) # NoTarget /\ ValidTarget(Target(q)) /\ DocsOf(q) # <<>>

Accept(q) ==
    /\ pc[q] = "received" /\ Acceptable(q)
    /\ pc' = [pc EXCEPT ![q] = "applying"]
    /\ overlap' = [o \in Requests |->
                      IF o = q THEN Running
                      ELSE IF o \in Running THEN overlap[o] \cup {q} ELSE overlap[o]]
    /\ UNCHANGED <<routing, request, next, failed, answer, objects, faults, crashes>>

Reject(q) ==
    /\ pc[q] = "received" /\ ~Acceptable(q)
    /\ pc' = [pc EXCEPT ![q] = "done"]
    /\ answer' = [answer EXCEPT ![q] = "400"]
    /\ UNCHANGED <<routing, request, next, failed, objects, overlap, faults, crashes>>

\* kubectl creates or replaces the object of the next document.
Apply(q) ==
    /\ next[q] <= Len(DocsOf(q))
    /\ objects' = [objects EXCEPT ![PlaceOf(q, next[q])] =
           [nodeName |-> DocsOf(q)[next[q]].nodeName,
            provider |-> request[q].provider,
            interfaces |-> DocsOf(q)[next[q]].interfaces,
            by |-> q, doc |-> next[q]]]
    /\ next' = [next EXCEPT ![q] = @ + 1]

ApplyDoc(q) ==
    /\ pc[q] = "applying"
    /\ Apply(q)
    /\ UNCHANGED <<routing, request, pc, failed, answer, overlap, faults, crashes>>

Fault == faults < MaxFaults /\ faults' = faults + 1

\* The API server refuses a document; kubectl goes on with the next.
RefuseDoc(q) ==
    /\ pc[q] = "applying" /\ next[q] <= Len(DocsOf(q))
    /\ Fault
    /\ failed' = [failed EXCEPT ![q] = TRUE]
    /\ next' = [next EXCEPT ![q] = @ + 1]
    /\ UNCHANGED <<routing, request, pc, answer, objects, overlap, crashes>>

\* Mutated form: the exit code of kubectl is not looked at.
SucceededAnyway(q) == TRUE

\* kubectl exits with 0.
Succeeded(q) == ~failed[q]

Answer(q) ==
    /\ pc[q] = "applying" /\ next[q] > Len(DocsOf(q))
    /\ pc' = [pc EXCEPT ![q] = "done"]
    /\ answer' = [answer EXCEPT ![q] = IF Succeeded(q) THEN "200" ELSE "500"]
    /\ UNCHANGED <<routing, request, next, failed, objects, overlap, faults, crashes>>

\* kubectl is killed by the timeout, or because the client has gone.  What it
\* had in flight may or may not take effect later.
Kill(q) ==
    /\ pc[q] = "applying"
    /\ Fault
    /\ \E l \in {"orphan", "done"} : pc' = [pc EXCEPT ![q] = l]
    /\ \E a \in {"500", "lost"} : answer' = [answer EXCEPT ![q] = a]
    /\ UNCHANGED <<routing, request, next, failed, objects, overlap, crashes>>

\* A call that was in flight takes effect; a remote kubectl goes on.
ApplyLate(q) ==
    /\ pc[q] = "orphan"
    /\ Apply(q)
    /\ pc' = [pc EXCEPT ![q] =
                 IF Target(q).mode = "ssh" /\ next'[q] <= Len(DocsOf(q)) THEN @ ELSE "done"]
    /\ UNCHANGED <<routing, request, failed, answer, overlap, faults, crashes>>

\* The process dies, with the kubectls it was waiting for.
Crash ==
    /\ crashes < MaxCrashes /\ crashes' = crashes + 1
    /\ \E orphans \in SUBSET {q \in Requests : pc[q] = "applying"} :
          pc' = [q \in Requests |-> IF q \in orphans THEN "orphan"
                                    ELSE IF pc[q] \in {"received", "applying"} THEN "done"
                                    ELSE pc[q]]
    /\ answer' = [q \in Requests |->
                     IF pc[q] \in {"received", "applying"} THEN "lost" ELSE answer[q]]
    /\ UNCHANGED <<routing, request, next, failed, objects, overlap, faults>>

Next ==
    \/ \E q \in Requests :
          \/ \E p \in Providers \cup {NoProvider}, body \in Bodies : Post(q, p, body)
          \/ Accept(q) \/ Reject(q)
          \/ ApplyDoc(q) \/ RefuseDoc(q) \/ Answer(q)
          \/ Kill(q) \/ ApplyLate(q)
    \/ Crash

Spec == Init /\ [][Next]_vars

----------------------------------------------------------------------------
(* Properties.                                                             *)

\* The last document of a request with the same object as its j-th.
LastDoc(q, j) ==
    CHOOSE l \in DOMAIN DocsOf(q) :
        /\ PlaceOf(q, l) = PlaceOf(q, j)
        /\ \A m \in DOMAIN DocsOf(q) : PlaceOf(q, m) = PlaceOf(q, j) => m <= l

(* When a client is answered 200, each of its nodes has the config it sent:*)
(* its own last document for the object, unless kubectl was applying       *)
(* another request to it at the same time.  The operator records a hash on *)
(* the strength of this answer.                                            *)
AppliedWhenAnswered ==
    [][\A q \in Requests : answer[q] = "none" /\ answer'[q] = "200" =>
          \A j \in DOMAIN DocsOf(q) :
              LET o == objects[PlaceOf(q, j)] IN
              /\ o # NoObject
              /\ \/ o.by = q /\ o.doc = LastDoc(q, j)
                 \/ o.by \in overlap[q]]_vars

(* A request is refused as a whole: when one of its nodes has no name, or  *)
(* its provider no target, none of its nodes is applied, not even late.    *)
RefusedAsAWhole ==
    \A x \in Places : objects[x] # NoObject =>
        LET q == objects[x].by IN
        /\ answer[q] # "400"
        /\ \A j \in DOMAIN request[q].body : request[q].body[j].nodeName # Blank

(* The configs of a provider are only in the cluster its own route names,  *)
(* whatever the default and the local target are; under strict routing a   *)
(* provider without a route has none.                                      *)
KeepsToItsRoute ==
    \A x \in Places : objects[x] # NoObject =>
        LET p == objects[x].provider
            routed == RoutesOf(RoutingOf[routing], p) # {}
            own == RouteOf(RoutingOf[routing], p)
        IN /\ RoutingOf[routing].strict => routed
           /\ routed =>
              /\ own.namespace # Unset => x[1][2] = own.namespace
              /\ own.mode = "ssh" /\ own.sshHost # Unset => x[1][1] = own.sshHost
              /\ own.mode = "local" /\ own.kubeApi # Unset => x[1][1] = own.kubeApi

NodeKeys == (Providers \cup {NoProvider}) \X NodeNames

\* The nodes with an object of their own: no other provider is routed to the
\* same place, and no other name makes the same object name.
OwnObjects == [f \in Files |->
    {k \in NodeKeys :
        /\ Targets[f][k[1]] # NoTarget
        /\ \A l \in NodeKeys \ {k} :
              \/ Targets[f][l[1]] = NoTarget
              \/ Address(Targets[f][l[1]]) # Address(Targets[f][k[1]])
              \/ Sanitized[l[2]] # Sanitized[k[2]]}]

ConfigOf(k) ==
    IF k \notin OwnObjects[routing] THEN NoObject
    ELSE LET o == objects[<<Address(Targets[routing][k[1]]), Sanitized[k[2]]>>] IN
         IF o # NoObject /\ <<o.provider, o.nodeName>> = k THEN o.interfaces ELSE NoObject

Sent == UNION {{<< <<request[q].provider, DocsOf(q)[j].nodeName>>, DocsOf(q)[j].interfaces>> :
                    j \in DOMAIN DocsOf(q)} : q \in {r \in Requests : request[r] # NoRequest}}

Viola == INSTANCE AppliedConfigs WITH
    Keys <- NodeKeys, NoConfig <- NoObject,
    sent <- Sent, applied <- [k \in NodeKeys |-> ConfigOf(k)]

(* For each node with an object of its own the API keeps what NodeSync     *)
(* assumes of it: documents of other providers, late ones and killed       *)
(* requests never make the node lose its config, or have one that was not  *)
(* sent for it.                                                            *)
ImplementsAppliedConfigs == Viola!AppliedSpec
=============================================================================
