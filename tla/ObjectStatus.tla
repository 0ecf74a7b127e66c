---------------------------- MODULE ObjectStatus ----------------------------
(***************************************************************************)
(* The life of one OpenstackConfig: what its conditions say, and that      *)
(* Reconcile comes back to it (Reconcile and setReadyCondition in internal/*)
(* controller/openstackconfig_controller.go).                              *)
(*                                                                         *)
(* Reconcile reads the object from the watch cache, asks Contrabass,       *)
(* Keystone, Neutron and Viola in turn, and writes the outcome to a copy   *)
(* that it reads from the cache again.  Only the object is watched: that a *)
(* Secret or a service is repaired shows at the next requeue.  What is sent*)
(* is left to NodeSync, and when the requeue is due to DownPortRetry.      *)
(***************************************************************************)
EXTENDS Settings, SequencesExt

CONSTANTS
    Specs,          \* the specs the object may be given
    SecretStates,   \* what the Secrets may hold: functions on references
    Catalogs,       \* the catalogs Keystone may answer with
    Scenarios,      \* what the object may be created with
    RightKey,       \* decrypts the password Contrabass stores
    PaddingFits,    \* wrong keys that pkcs7Unpad lets pass
    NoObject,       \* no object is being reconciled
    MaxChanges,     \* bound: edits, and changes of the world
    MaxFaults,      \* bound: status writes that fail
    MaxCrashes      \* bound: kills of the process

Services == {"contrabass", "keystone", "neutron", "viola"}

\* The reasons of Ready.
Failures == {"ConfigError", "ContrabassError", "KeystoneError", "NeutronEndpointError",
             "NeutronPortError", "SubnetRequired", "NeutronSubnetError", "SubnetNotFound",
             "SubnetNotUnique", "ViolaPostError"}
Successes == {"NoChange", "Synced"}

\* Ready, Degraded and lastError.  Both conditions have one observedGeneration;
\* the message of a failure is named by its reason.
Statuses == [reason : Failures \cup Successes \cup {Blank},
             observed : 0..MaxChanges + 1,
             lastError : Failures \cup {Blank}]

Objects == [exists : BOOLEAN, gen : 1..MaxChanges + 1, spec : Specs, status : Statuses]

ASSUME ObjectStatusAssumption ==
    /\ MaxChanges \in Nat /\ MaxFaults \in Nat /\ MaxCrashes \in Nat
    /\ Scenarios \subseteq [spec : Specs, secrets : SecretStates, catalog : Catalogs]
    /\ NoObject \notin Objects
    /\ \A s \in Specs :
          /\ DurationsOf(s) \subseteq Durations
          /\ s.downPortFastRetryMax \in Int \cup {Blank}
    /\ \A c \in Catalogs :
          /\ c \in Seq(ToSet(c))
          /\ \A s \in ToSet(c) : s.endpoints \in Seq(ToSet(s.endpoints))
    /\ Blank \notin Int /\ Unparsable \notin Int
    /\ Blank \notin Failures \cup Successes

VARIABLES
    health,         \* whether a service answers, answers an error, or hangs
    secrets,        \* the values of the Secrets
    catalog,        \* the endpoints in Keystone's catalog
    found,          \* how many subnets the selector of the spec matches
    unsent,         \* some node differs from what was recorded for it
    api,            \* the object at the API server
    cached,         \* the object in the watch cache
    lag,            \* the cache has not seen the last write
    queued,         \* the object is in the work queue
    wake,           \* the delaying queue is going to add it
    pc,             \* where Reconcile is
    cfg,            \* the object Reconcile has read
    key,            \* cbEncKey
    outcome,        \* the reason Reconcile sets, or that the last one has set
    told,           \* history: generation of the spec the status is about
    dropped,        \* history: the last status write failed at the API server
    changes, faults, crashes

world == <<health, secrets, catalog, found, unsent>>
object == <<api, cached, lag>>
queue == <<queued, wake>>
locals == <<pc, cfg, key, outcome>>
history == <<told, dropped>>
bounds == <<changes, faults, crashes>>
vars == <<world, object, queue, locals, history, bounds>>

\* The requests, and what each asks.
Calls == [provider |-> "contrabass", token |-> "keystone", ports |-> "neutron",
          subnet |-> "neutron", post |-> "viola"]

TypeOK ==
    /\ health \in [Services -> {"up", "fails", "hangs"}]
    /\ secrets \in SecretStates
    /\ catalog \in Catalogs
    /\ found \in 0..2
    /\ unsent \in BOOLEAN
    /\ api \in Objects /\ cached \in Objects /\ lag \in BOOLEAN
    /\ queued \in BOOLEAN /\ wake \in BOOLEAN
    /\ pc \in DOMAIN Calls \cup {"idle", "settings", "compare", "ready"}
    /\ cfg \in Objects \cup {NoObject}
    /\ outcome \in Failures \cup Successes \cup {Blank}
    /\ told \in 0..MaxChanges + 1
    /\ dropped \in BOOLEAN
    /\ changes \in 0..MaxChanges
    /\ faults \in 0..MaxFaults
    /\ crashes \in 0..MaxCrashes
    /\ api.gen <= changes + 1
    /\ pc # "idle" => cfg # NoObject
    /\ pc = "ready" => outcome # Blank

Init ==
    /\ health = [s \in Services |-> "up"]
    /\ found = 1 /\ unsent = TRUE
    /\ \E s \in Scenarios :
          /\ secrets = s.secrets /\ catalog = s.catalog
          /\ api = [exists |-> TRUE, gen |-> 1, spec |-> s.spec,
                    status |-> [reason |-> Blank, observed |-> 0, lastError |-> Blank]]
    /\ cached = api /\ lag = FALSE
    /\ queued = TRUE /\ wake = FALSE
    /\ pc = "idle" /\ cfg = NoObject /\ key = Blank /\ outcome = Blank
    /\ told = 0 /\ dropped = FALSE
    /\ changes = 0 /\ faults = 0 /\ crashes = 0

----------------------------------------------------------------------------
(* One Reconcile, up to its outcome.                                       *)

Goto(step) == pc' = step /\ UNCHANGED outcome

\* Mutated form: the status is set from a variable that was not assigned.
ConcludeUnset(reason) == pc' = "ready" /\ UNCHANGED outcome

Conclude(reason) == pc' = "ready" /\ outcome' = reason

\* Mutated form: an object that is gone is an error, and tried again.
RequeueWhenGone == wake' = TRUE

\* IgnoreNotFound.
LeaveWhenGone == UNCHANGED wake

\* The worker takes the object and Get reads it from the watch cache.
Begin ==
    /\ pc = "idle" /\ queued
    /\ queued' = FALSE
    /\ IF cached.exists
       THEN cfg' = cached /\ pc' = "settings" /\ outcome' = Blank /\ UNCHANGED wake
       ELSE LeaveWhenGone /\ UNCHANGED <<cfg, pc, outcome>>
    /\ UNCHANGED <<world, object, key, history, bounds>>

ResolveSettings ==
    /\ pc = "settings"
    /\ key' = EncryptKey(cfg.spec, secrets)
    /\ IF Accepted(cfg.spec, secrets) THEN Goto("provider") ELSE Conclude("ConfigError")
    /\ UNCHANGED <<world, object, queue, cfg, history, bounds>>

\* The timeout of a request ends it: http.Client has none when it is not
\* positive, and that of Viola always is.
TimesOut(spec, call) ==
    CASE call = "provider" -> Resolve(spec.contrabassTimeout, 30) > 0
      [] call = "post"     -> TRUE
      [] OTHER             -> Resolve(spec.openstackTimeout, 30) > 0

FailureOf == [provider |-> "ContrabassError", token |-> "KeystoneError",
              ports |-> "NeutronPortError", subnet |-> "NeutronSubnetError",
              post |-> "ViolaPostError"]

CallFails ==
    /\ pc \in DOMAIN Calls
    /\ \/ health[Calls[pc]] = "fails"
       \/ health[Calls[pc]] = "hangs" /\ TimesOut(cfg.spec, pc)
    /\ Conclude(FailureOf[pc])
    /\ UNCHANGED <<world, object, queue, cfg, key, history, bounds>>

Answered(call) ==
    /\ pc = call
    /\ health[Calls[call]] = "up"
    /\ UNCHANGED <<health, secrets, catalog, found, object, queue, cfg, history, bounds>>

\* GetProvider decrypts the password.
GetProvider ==
    /\ Answered("provider")
    /\ IF key \in PaddingFits \cup {RightKey} THEN Goto("token") ELSE Conclude("ContrabassError")
    /\ UNCHANGED <<unsent, key>>

\* AuthTokenWithCatalog, and the endpoint of Neutron.
GetToken ==
    /\ Answered("token")
    /\ IF key # RightKey THEN Conclude("KeystoneError")
       ELSE IF NeutronEndpoint(cfg.spec, catalog) = Blank THEN Conclude("NeutronEndpointError")
       ELSE Goto("ports")
    /\ key' = Blank
    /\ UNCHANGED unsent

ListPorts ==
    /\ Answered("ports")
    /\ IF cfg.spec.selector = "none" THEN Conclude("SubnetRequired") ELSE Goto("subnet")
    /\ UNCHANGED <<unsent, key>>

\* GetSubnet of an id, or ListSubnets with a name.
FindSubnet ==
    /\ Answered("subnet")
    /\ \/ cfg.spec.selector = "id" /\ found = 0 /\ Conclude("NeutronSubnetError")
       \/ cfg.spec.selector = "name" /\ found = 0 /\ Conclude("SubnetNotFound")
       \/ cfg.spec.selector = "name" /\ found > 1 /\ Conclude("SubnetNotUnique")
       \/ (found = 1 \/ (cfg.spec.selector = "id" /\ found > 1)) /\ Goto("compare")
    /\ UNCHANGED <<unsent, key>>

\* The nodes are mapped and compared with what was recorded for them.
Compare ==
    /\ pc = "compare"
    /\ IF unsent THEN Goto("post") ELSE Conclude("NoChange")
    /\ UNCHANGED <<world, object, queue, cfg, key, history, bounds>>

\* SendNodeConfigs, and the nodes are recorded.
Post ==
    /\ Answered("post")
    /\ unsent' = FALSE
    /\ Conclude("Synced")
    /\ UNCHANGED key

----------------------------------------------------------------------------
(* The status, and the return.                                             *)

StatusOf(reason) ==
    [reason |-> reason,
     observed |-> cached.gen,
     lastError |-> IF reason \in Failures THEN reason ELSE Blank]

\* Mutated form: only a new reason is written.
DiffersByReason(new) == cached.status.reason # new.reason

\* The copy has changed: Synced also sets lastSyncedAt.
Differs(new) == new.reason = "Synced" \/ cached.status # new

\* setReadyCondition.  RetryOnConflict gives up while the cache is behind,
\* and an object that is gone is not found.
SetReady(reason) ==
    LET new == StatusOf(reason) IN
    \/ /\ cached.exists /\ Differs(new) /\ ~lag
       /\ api' = [api EXCEPT !.status = new] /\ lag' = TRUE
       /\ told' = cfg.gen /\ dropped' = FALSE
       /\ UNCHANGED faults
    \/ /\ cached.exists /\ ~Differs(new)
       /\ told' = cfg.gen /\ dropped' = FALSE
       /\ UNCHANGED <<api, lag, faults>>
    \/ /\ ~cached.exists \/ (Differs(new) /\ lag)
       /\ UNCHANGED <<api, lag, history, faults>>
    \/ /\ cached.exists /\ Differs(new)
       /\ faults < MaxFaults /\ faults' = faults + 1
       /\ dropped' = TRUE
       /\ UNCHANGED <<api, lag, told>>

\* The interval Reconcile returns with: NoChange polls fast or slow.
Requeue(reason) ==
    CASE reason = "ConfigError" -> {ConfigErrorWait}
      [] reason = "NoChange"    -> {PollFast(cfg.spec), PollSlow(cfg.spec)}
      [] reason = "Synced"      -> {PollFast(cfg.spec)}
      [] OTHER                  -> {PollError(cfg.spec)}

\* A RequeueAfter that is not positive means no requeue at all.
Return ==
    /\ pc = "ready"
    /\ SetReady(outcome)
    /\ \E after \in Requeue(outcome) : wake' = (wake \/ after > 0)
    /\ pc' = "idle" /\ cfg' = NoObject /\ key' = Blank
    /\ UNCHANGED <<world, cached, queued, outcome, changes, crashes>>

----------------------------------------------------------------------------
(* The queue, the watch, and the rest of the world.                        *)

\* The delaying queue adds the object.
WakeUp ==
    /\ wake
    /\ wake' = FALSE /\ queued' = TRUE
    /\ UNCHANGED <<world, object, locals, history, bounds>>

\* The event of the last write reaches the cache and the work queue.
Deliver ==
    /\ lag
    /\ cached' = api /\ lag' = FALSE
    /\ queued' = TRUE
    /\ UNCHANGED <<world, api, wake, locals, history, bounds>>

Change ==
    /\ changes < MaxChanges /\ changes' = changes + 1
    /\ UNCHANGED <<cached, queue, locals, history, faults, crashes>>

\* The spec is edited.
Edit ==
    /\ Change /\ api.exists
    /\ \E s \in Specs \ {api.spec} : api' = [api EXCEPT !.spec = s, !.gen = @ + 1]
    /\ lag' = TRUE
    /\ UNCHANGED world

Delete ==
    /\ Change /\ api.exists
    /\ api' = [api EXCEPT !.exists = FALSE] /\ lag' = TRUE
    /\ UNCHANGED world

ServiceChanges ==
    /\ Change
    /\ \E s \in Services, h \in {"up", "fails", "hangs"} :
          h # health[s] /\ health' = [health EXCEPT ![s] = h]
    /\ UNCHANGED <<secrets, catalog, found, unsent, api, lag>>

DataChanges ==
    /\ Change
    /\ \/ secrets' \in SecretStates \ {secrets} /\ UNCHANGED <<catalog, found, unsent>>
       \/ catalog' \in Catalogs \ {catalog} /\ UNCHANGED <<secrets, found, unsent>>
       \/ found' \in (0..2) \ {found} /\ UNCHANGED <<secrets, catalog, unsent>>
       \/ ~unsent /\ unsent' = TRUE /\ UNCHANGED <<secrets, catalog, found>>
    /\ UNCHANGED <<health, api, lag>>

\* The process is killed and started again: it lists all objects.
Crash ==
    /\ crashes < MaxCrashes /\ crashes' = crashes + 1
    /\ cached' = api /\ lag' = FALSE
    /\ queued' = api.exists /\ wake' = FALSE
    /\ pc' = "idle" /\ cfg' = NoObject /\ key' = Blank
    /\ UNCHANGED <<world, api, outcome, history, changes, faults>>

----------------------------------------------------------------------------
Reconciling ==
    \/ Begin \/ ResolveSettings
    \/ CallFails \/ GetProvider \/ GetToken \/ ListPorts \/ FindSubnet
    \/ Compare \/ Post
    \/ Return

Next ==
    \/ Reconciling
    \/ WakeUp \/ Deliver
    \/ Edit \/ Delete \/ ServiceChanges \/ DataChanges
    \/ Crash

Spec == Init /\ [][Next]_vars

\* The worker goes on, requeues come due and the watch delivers.
FairSpec == Spec /\ WF_vars(Reconciling) /\ WF_vars(WakeUp) /\ WF_vars(Deliver)

----------------------------------------------------------------------------
(* Properties.                                                             *)

(* An object that exists is never left alone: when the worker is not at it,*)
(* it is queued, a requeue is due, or an event is on its way, whatever the *)
(* intervals in its spec.  Nothing else would bring a repaired Secret or   *)
(* service to the operator's notice.                                       *)
NeverForgotten == api.exists /\ pc = "idle" => queued \/ wake \/ lag

(* The conditions may claim the generation of a spec that no Reconcile has *)
(* read, because observedGeneration is that of the copy they are written   *)
(* to.  But the claim is not left standing: with nothing queued, no event  *)
(* on its way and the last write not failed, they are what the last        *)
(* Reconcile found out, and about the present spec.                        *)
RestIsCurrent ==
    (/\ api.exists /\ pc = "idle"
     /\ ~queued /\ ~lag /\ ~dropped)
    => /\ told = api.gen
       /\ api.status = [reason |-> outcome, observed |-> api.gen,
                        lastError |-> IF outcome \in Failures THEN outcome ELSE Blank]

\* e is nearer to what the spec asks for than f.
Nearer(e, f, spec) ==
    LET inRegion(x) == spec.region \in x.regions
        onInterface(x) == x.interface = Resolve(spec.interface, "public")
    IN  \/ inRegion(e) /\ ~inRegion(f)
        \/ (inRegion(e) <=> inRegion(f)) /\ onInterface(e) /\ ~onInterface(f)

(* Ports are listed at the endpoint the spec gives, or at one of the first *)
(* network service that has any: the first of those to which none is nearer*)
(* in region, and then in interface.  An endpoint of another region serves *)
(* only when there is none in the region asked for.                        *)
EndpointIsNearest ==
    pc = "token" /\ cfg.spec.neutronEndpoint = Blank =>
        LET offers(i) == catalog[i].type = "network" /\ catalog[i].endpoints # <<>>
            first(i) == offers(i) /\ \A h \in 1..i - 1 : ~offers(h)
        IN  IF \E i \in 1..Len(catalog) : offers(i)
            THEN \E i \in 1..Len(catalog) : LET es == catalog[i].endpoints IN
                 /\ first(i)
                 /\ \E j \in 1..Len(es) :
                       /\ NeutronEndpoint(cfg.spec, catalog) = es[j].url
                       /\ \A k \in 1..Len(es) : ~Nearer(es[k], es[j], cfg.spec)
                       /\ \A k \in 1..j - 1 : Nearer(es[j], es[k], cfg.spec)
            ELSE NeutronEndpoint(cfg.spec, catalog) = Blank

\* The key the operator is meant to decrypt with.
KeyMeant(spec) ==
    IF spec.ref # NoRef
    THEN IF spec.ref \in DOMAIN secrets THEN secrets[spec.ref] ELSE Blank
    ELSE IF secrets[DefaultRef] # Blank THEN secrets[DefaultRef] ELSE spec.contrabassEncryptKey

\* All that the object needs is there, and works.
Healthy(spec) ==
    /\ Blank \notin {spec.contrabassEndpoint, spec.k8sProviderID}
    /\ {spec.violaEndpoint, EnvViola} # {Blank}
    /\ Unparsable \notin DurationsOf(spec)
    /\ KeyMeant(spec) = RightKey
    /\ \A s \in Services \ {"viola"} : health[s] = "up"
    /\ unsent => health["viola"] = "up"
    /\ \/ spec.neutronEndpoint # Blank
       \/ \E i \in 1..Len(catalog) : catalog[i].type = "network" /\ catalog[i].endpoints # <<>>
    /\ \/ spec.selector = "id" /\ found > 0
       \/ spec.selector = "name" /\ found = 1

\* The conditions say whether it is so, of the present spec.
TellsTruth ==
    LET status == api.status IN
    /\ status.observed = api.gen
    /\ IF Healthy(api.spec)
       THEN status.reason = "NoChange" /\ status.lastError = Blank
       ELSE status.reason \in Failures /\ status.lastError = status.reason

\* A service hangs, and no timeout ends the request.
HeldUp == pc \in DOMAIN Calls /\ health[Calls[pc]] = "hangs" /\ ~TimesOut(cfg.spec, pc)

(* Once edits, faults and the world come to rest, the conditions tell the  *)
(* truth: Ready with no error left over when everything the spec names     *)
(* works, Degraded with the error otherwise.  In particular nothing stands *)
(* in for a named Secret.  The one exception is a timeout that is not      *)
(* positive, which is none: a service that hangs then holds the worker.    *)
StatusTellsTruth == <>[](api.exists => TellsTruth \/ HeldUp)

(* A deleted object leaves nothing behind: it is not queued again and      *)
(* again, although a requeue was due when it was deleted.                  *)
DeletedIsDropped == <>[](~api.exists => (pc = "idle" /\ ~queued /\ ~wake) \/ HeldUp)
=============================================================================
