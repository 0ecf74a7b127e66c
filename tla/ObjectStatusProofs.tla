------------------------- MODULE ObjectStatusProofs -------------------------
(***************************************************************************)
(* Theorems about ObjectStatus and the settings it uses, for any specs,    *)
(* Secrets, catalogs and bounds.                                           *)
(***************************************************************************)
EXTENDS ObjectStatus, ListsProofs, TLAPS

\* A spec whose durations are numbers or left out.
Parses(spec) ==
    /\ DurationsOf(spec) \subseteq Int \cup {Blank}
    /\ spec.downPortFastRetryMax \in Int \cup {Blank}

(* Whatever numbers a spec holds, the intervals that resolveSettings makes *)
(* of it are fit for the poll and the retries: each is positive, the slow  *)
(* one is not below the fast one, and at least one fast retry is allowed.  *)
(* These are the assumptions DownPortRetry makes of its constants.         *)
THEOREM PollSettings ==
    ASSUME NEW spec, Parses(spec), Blank \notin Int
    PROVE  /\ PollFast(spec) \in Nat \ {0}
           /\ PollSlow(spec) \in Nat /\ PollSlow(spec) >= PollFast(spec)
           /\ PollError(spec) \in Nat \ {0}
           /\ PollFastWindow(spec) \in Nat
           /\ DownPortFastMax(spec) \in Nat \ {0}
<1>1. \A n \in Int, d \in Nat \ {0} : Positive(n, d) \in Nat \ {0}
  BY DEF Positive
<1>2. /\ Resolve(spec.pollFast, 20) \in Int
      /\ Resolve(spec.pollSlow, 120) \in Int
      /\ Resolve(spec.pollError, 30) \in Int
      /\ Resolve(spec.pollFastWindow, 180) \in Int
      /\ Resolve(spec.downPortFastRetryMax, 5) \in Int
  <2>1. /\ spec.pollFast \in Int \cup {Blank} /\ spec.pollSlow \in Int \cup {Blank}
        /\ spec.pollError \in Int \cup {Blank} /\ spec.pollFastWindow \in Int \cup {Blank}
        /\ spec.downPortFastRetryMax \in Int \cup {Blank}
    BY DEF Parses, DurationsOf
  <2> QED
    BY <2>1 DEF Resolve
<1>3. PollFast(spec) \in Nat \ {0}
  BY <1>1, <1>2 DEF PollFast
<1>4. Positive(Resolve(spec.pollSlow, 120), 120) \in Nat \ {0}
  BY <1>1, <1>2
<1>5. PollSlow(spec) \in Nat /\ PollSlow(spec) >= PollFast(spec)
  BY <1>3, <1>4 DEF PollSlow
<1>6. PollError(spec) \in Nat \ {0}
  BY <1>1, <1>2 DEF PollError
<1>7. PollFastWindow(spec) \in Nat
  BY <1>2 DEF PollFastWindow
<1>8. DownPortFastMax(spec) \in Nat \ {0}
  BY <1>2 DEF DownPortFastMax
<1> QED
  BY <1>3, <1>5, <1>6, <1>7, <1>8
----------------------------------------------------------------------------
(* Types.                                                                  *)

LEMMA StatusTyped ==
    ASSUME TypeOK, pc = "ready"
    PROVE  StatusOf(outcome) \in Statuses
<1>1. cached.gen \in 0..MaxChanges + 1
  BY ObjectStatusAssumption DEF TypeOK, Objects
<1>2. outcome \in Failures \cup Successes
  BY DEF TypeOK
<1> QED
  BY <1>1, <1>2 DEF StatusOf, Statuses

LEMMA InitTyped == Init => TypeOK
<1> SUFFICES ASSUME Init PROVE TypeOK
  OBVIOUS
<1> USE ObjectStatusAssumption
<1>1. PICK s \in Scenarios :
        /\ secrets = s.secrets /\ catalog = s.catalog
        /\ api = [exists |-> TRUE, gen |-> 1, spec |-> s.spec,
                  status |-> [reason |-> Blank, observed |-> 0, lastError |-> Blank]]
  BY DEF Init
<1>2. s.spec \in Specs /\ secrets \in SecretStates /\ catalog \in Catalogs
  BY <1>1
<1>3. [reason |-> Blank, observed |-> 0, lastError |-> Blank] \in Statuses
  BY DEF Statuses
<1>4. api \in Objects /\ api.gen = 1
  BY <1>1, <1>2, <1>3 DEF Objects
<1>5. cached \in Objects /\ api.gen <= changes + 1
  BY <1>4 DEF Init
<1>6. /\ health \in [Services -> {"up", "fails", "hangs"}]
      /\ found \in 0..2 /\ unsent \in BOOLEAN
      /\ changes \in 0..MaxChanges /\ faults \in 0..MaxFaults /\ crashes \in 0..MaxCrashes
      /\ told \in 0..MaxChanges + 1
  BY DEF Init
<1> QED
  BY <1>2, <1>4, <1>5, <1>6 DEF Init, TypeOK, Calls

LEMMA ReconcilingTyped ==
    ASSUME TypeOK,
           \/ Begin \/ ResolveSettings \/ CallFails \/ GetProvider \/ GetToken
           \/ ListPorts \/ FindSubnet \/ Compare \/ Post
    PROVE  TypeOK'
<1> USE DEF world, object, queue, history, bounds, Calls
<1>1. CASE Begin
  <2>1. cached.exists => cached # NoObject
    BY ObjectStatusAssumption DEF TypeOK
  <2>2. CASE cached.exists
    BY <1>1, <2>1, <2>2 DEF Begin, TypeOK
  <2>3. CASE ~cached.exists
    BY <1>1, <2>3 DEF Begin, LeaveWhenGone, TypeOK
  <2> QED
    BY <2>2, <2>3
<1>2. ASSUME NEW r \in Failures \cup Successes, Conclude(r), pc # "idle",
             UNCHANGED <<health, secrets, catalog, found, object, queue, cfg, history, bounds>>,
             unsent' \in BOOLEAN
      PROVE  TypeOK'
  BY <1>2, ObjectStatusAssumption DEF Conclude, TypeOK
<1>3. ASSUME NEW p \in DOMAIN Calls \cup {"compare"}, Goto(p), pc # "idle",
             UNCHANGED <<health, secrets, catalog, found, object, queue, cfg, history, bounds>>,
             unsent' \in BOOLEAN
      PROVE  TypeOK'
  BY <1>3 DEF Goto, TypeOK
<1>4. CASE ResolveSettings
  BY <1>2, <1>3, <1>4 DEF ResolveSettings, TypeOK, Failures
<1>5. CASE CallFails
  <2>1. FailureOf[pc] \in Failures /\ pc # "idle"
    BY <1>5 DEF CallFails, FailureOf, Failures
  <2> QED
    BY <1>2, <1>5, <2>1 DEF CallFails, TypeOK
<1>6. CASE GetProvider
  BY <1>2, <1>3, <1>6 DEF GetProvider, Answered, TypeOK, Failures
<1>7. CASE GetToken
  BY <1>2, <1>3, <1>7 DEF GetToken, Answered, TypeOK, Failures
<1>8. CASE ListPorts
  BY <1>2, <1>3, <1>8 DEF ListPorts, Answered, TypeOK, Failures
<1>9. CASE FindSubnet
  BY <1>2, <1>3, <1>9 DEF FindSubnet, Answered, TypeOK, Failures
<1>10. CASE Compare
  BY <1>2, <1>3, <1>10 DEF Compare, TypeOK, Successes
<1>11. CASE Post
  BY <1>2, <1>11 DEF Post, Answered, TypeOK, Successes
<1> QED
  BY <1>1, <1>4, <1>5, <1>6, <1>7, <1>8, <1>9, <1>10, <1>11

LEMMA ReturnTyped ==
    ASSUME TypeOK, Return
    PROVE  TypeOK'
<1> USE DEF world, object, queue, history, bounds, Calls
<1>1. StatusOf(outcome) \in Statuses
  BY StatusTyped DEF Return
<1>2. cfg.gen \in 0..MaxChanges + 1
  BY ObjectStatusAssumption DEF Return, TypeOK, Objects
<1>3. /\ api' \in Objects /\ api'.gen = api.gen
      /\ lag' \in BOOLEAN /\ told' \in 0..MaxChanges + 1 /\ dropped' \in BOOLEAN
      /\ faults' \in 0..MaxFaults
  <2>1. [api EXCEPT !.status = StatusOf(outcome)] \in Objects
    BY <1>1 DEF TypeOK, Objects
  <2>2. [api EXCEPT !.status = StatusOf(outcome)].gen = api.gen
    BY DEF TypeOK, Objects
  <2>3. faults < MaxFaults => faults + 1 \in 0..MaxFaults
    BY ObjectStatusAssumption DEF TypeOK
  <2> QED
    BY <1>2, <2>1, <2>2, <2>3 DEF Return, SetReady, TypeOK
<1>4. wake' \in BOOLEAN
  <2>1. PICK after \in Requeue(outcome) : wake' = (wake \/ after > 0)
    BY DEF Return
  <2> QED
    BY <2>1
<1> QED
  BY <1>3, <1>4 DEF Return, TypeOK

LEMMA EnvironmentTyped ==
    ASSUME TypeOK,
           WakeUp \/ Deliver \/ Edit \/ Delete \/ ServiceChanges \/ DataChanges \/ Crash
    PROVE  TypeOK'
<1> USE ObjectStatusAssumption DEF world, object, queue, locals, history, bounds, Calls
<1>1. CASE WakeUp
  BY <1>1 DEF WakeUp, TypeOK
<1>2. CASE Deliver
  BY <1>2 DEF Deliver, TypeOK
<1>3. ASSUME Change
      PROVE  /\ changes' \in 0..MaxChanges /\ changes' = changes + 1
             /\ changes \in 0..MaxChanges /\ changes + 1 \in 1..MaxChanges
  BY <1>3 DEF Change, TypeOK
<1>4. api \in Objects /\ api.gen \in 1..changes + 1 /\ api.gen \in Nat
  BY DEF TypeOK, Objects
<1>5. CASE Edit
  <2>1. PICK s \in Specs : api' = [api EXCEPT !.spec = s, !.gen = @ + 1]
    BY <1>5 DEF Edit
  <2>2. Change
    BY <1>5 DEF Edit
  <2>3. api.gen + 1 \in 1..MaxChanges + 1 /\ api.gen + 1 <= changes + 2
    BY <1>3, <1>4, <2>2 DEF TypeOK
  <2>4. api' \in Objects /\ api'.gen = api.gen + 1
    BY <1>4, <2>1, <2>3 DEF Objects
  <2>5. api'.gen <= changes' + 1
    BY <1>3, <2>2, <2>3, <2>4 DEF TypeOK
  <2>6. lag' \in BOOLEAN /\ changes' \in 0..MaxChanges
    BY <1>3, <1>5, <2>2 DEF Edit
  <2> QED
    BY <1>5, <2>2, <2>4, <2>5, <2>6 DEF Edit, Change, TypeOK
<1>6. CASE Delete
  <2>1. api' \in Objects /\ api'.gen = api.gen
    BY <1>4, <1>6 DEF Delete, Objects
  <2> QED
    BY <1>3, <1>4, <1>6, <2>1 DEF Delete, Change, TypeOK
<1>7. CASE ServiceChanges
  BY <1>3, <1>4, <1>7 DEF ServiceChanges, Change, TypeOK
<1>8. CASE DataChanges
  <2>1. /\ secrets' \in SecretStates /\ catalog' \in Catalogs
        /\ found' \in 0..2 /\ unsent' \in BOOLEAN
    BY <1>8 DEF DataChanges, TypeOK
  <2>2. changes' \in 0..MaxChanges /\ api.gen <= changes' + 1
    BY <1>3, <1>4, <1>8 DEF DataChanges, TypeOK
  <2> QED
    BY <1>8, <2>1, <2>2 DEF DataChanges, Change, TypeOK
<1>9. CASE Crash
  <2>1. api.exists \in BOOLEAN /\ crashes' \in 0..MaxCrashes
    BY <1>4, <1>9 DEF Crash, Objects, TypeOK
  <2> QED
    BY <1>9, <2>1 DEF Crash, TypeOK
<1> QED
  BY <1>1, <1>2, <1>5, <1>6, <1>7, <1>8, <1>9

LEMMA StepTyped == TypeOK /\ [Next]_vars => TypeOK'
<1> SUFFICES ASSUME TypeOK, [Next]_vars PROVE TypeOK'
  OBVIOUS
<1>1. CASE UNCHANGED vars
  BY <1>1 DEF vars, world, object, queue, locals, history, bounds, TypeOK
<1>2. CASE Next
  BY <1>2, ReconcilingTyped, ReturnTyped, EnvironmentTyped DEF Next, Reconciling
<1> QED
  BY <1>1, <1>2

(* The machine keeps its types; a generation never passes the bound, and   *)
(* Reconcile never sets a condition without having concluded something.    *)
THEOREM StatusIsTyped == Spec => []TypeOK
<1> QED
  BY InitTyped, StepTyped, PTL DEF Spec
----------------------------------------------------------------------------
(* The conditions and the requeue.                                         *)

\* A cache that is not behind has the object.
CacheCurrent == ~lag => cached = api

\* What Reconcile has read is the present spec, unless it is queued again.
ReadIsCurrent == pc # "idle" /\ ~queued /\ ~lag => cfg.gen = api.gen

\* Past the settings, every duration is a number, but for a ConfigError.
SettingsParsed ==
    pc \notin {"idle", "settings"} /\ (pc = "ready" => outcome # "ConfigError")
    => Unparsable \notin DurationsOf(cfg.spec)

ObjectInv ==
    /\ TypeOK
    /\ CacheCurrent /\ ReadIsCurrent /\ SettingsParsed
    /\ NeverForgotten /\ RestIsCurrent

LEMMA InitObject == Init => ObjectInv
<1> SUFFICES ASSUME Init PROVE ObjectInv
  OBVIOUS
<1>1. TypeOK
  BY InitTyped
<1> QED
  BY <1>1 DEF Init, ObjectInv, CacheCurrent, ReadIsCurrent, SettingsParsed,
              NeverForgotten, RestIsCurrent

\* Every return but that of an object that is gone requeues.
LEMMA RequeueIsPositive ==
    ASSUME ObjectInv, pc = "ready", NEW after \in Requeue(outcome)
    PROVE  after > 0
<1>1. cfg \in Objects /\ cfg.spec \in Specs
  BY DEF ObjectInv, TypeOK, Objects
<1>2. CASE outcome = "ConfigError"
  BY <1>2 DEF Requeue, ConfigErrorWait
<1>3. CASE outcome # "ConfigError"
  <2>1. Unparsable \notin DurationsOf(cfg.spec)
    BY <1>3 DEF ObjectInv, SettingsParsed
  <2>2. Parses(cfg.spec) /\ Blank \notin Int
    BY <1>1, <2>1, ObjectStatusAssumption DEF Parses, Durations
  <2>3. /\ PollFast(cfg.spec) \in Nat \ {0} /\ PollError(cfg.spec) \in Nat \ {0}
        /\ PollSlow(cfg.spec) \in Nat /\ PollSlow(cfg.spec) >= PollFast(cfg.spec)
    BY <2>2, PollSettings
  <2>4. after \in {PollFast(cfg.spec), PollSlow(cfg.spec), PollError(cfg.spec)}
    BY <1>3 DEF Requeue
  <2> QED
    BY <2>3, <2>4
<1> QED
  BY <1>2, <1>3

LEMMA ReconcilingObject ==
    ASSUME ObjectInv, TypeOK',
           \/ Begin \/ ResolveSettings \/ CallFails \/ GetProvider \/ GetToken
           \/ ListPorts \/ FindSubnet \/ Compare \/ Post
    PROVE  ObjectInv'
<1> USE DEF ObjectInv, CacheCurrent, ReadIsCurrent, SettingsParsed, NeverForgotten,
            RestIsCurrent, object, queue, history
<1>1. CASE Begin
  <2>1. CASE cached.exists
    BY <1>1, <2>1 DEF Begin
  <2>2. CASE ~cached.exists
    BY <1>1, <2>2 DEF Begin, LeaveWhenGone
  <2> QED
    BY <2>1, <2>2
<1>2. CASE ResolveSettings
  <2>1. Accepted(cfg.spec, secrets) => Unparsable \notin DurationsOf(cfg.spec)
    BY DEF Accepted
  <2>2. pc' # "idle" /\ UNCHANGED <<object, queue, cfg, history>>
    BY <1>2 DEF ResolveSettings, Goto, Conclude
  <2>3. (pc' = "ready" => outcome' # "ConfigError")
        => Unparsable \notin DurationsOf(cfg.spec)
    BY <1>2, <2>1 DEF ResolveSettings, Goto, Conclude
  <2> QED
    BY <1>2, <2>2, <2>3 DEF ResolveSettings
<1>3. ASSUME pc \in DOMAIN Calls \cup {"compare"}, pc' \notin {"idle", "settings"},
             UNCHANGED <<object, queue, cfg, history>>
      PROVE  ObjectInv'
  BY <1>3 DEF Calls
<1>4. CASE CallFails
  BY <1>3, <1>4 DEF CallFails, Conclude
<1>5. CASE GetProvider
  BY <1>3, <1>5 DEF GetProvider, Answered, Goto, Conclude, Calls
<1>6. CASE GetToken
  BY <1>3, <1>6 DEF GetToken, Answered, Goto, Conclude, Calls
<1>7. CASE ListPorts
  BY <1>3, <1>7 DEF ListPorts, Answered, Goto, Conclude, Calls
<1>8. CASE FindSubnet
  BY <1>3, <1>8 DEF FindSubnet, Answered, Goto, Conclude, Calls
<1>9. CASE Compare
  BY <1>3, <1>9 DEF Compare, Goto, Conclude
<1>10. CASE Post
  BY <1>3, <1>10 DEF Post, Answered, Conclude, Calls
<1> QED
  BY <1>1, <1>2, <1>4, <1>5, <1>6, <1>7, <1>8, <1>9, <1>10

\* The write of the conditions, and the requeue.
LEMMA ReturnObject ==
    ASSUME ObjectInv, TypeOK', Return
    PROVE  ObjectInv'
<1> USE DEF history
<1>1. /\ pc = "ready" /\ pc' = "idle" /\ SetReady(outcome)
      /\ cached' = cached /\ queued' = queued /\ outcome' = outcome
  BY DEF Return
<1>2. /\ api'.exists = api.exists /\ api'.gen = api.gen
      /\ lag => lag'
      /\ ~lag' => ~lag /\ api' = api
  BY <1>1 DEF SetReady, ObjectInv, TypeOK, Objects
<1>3. CacheCurrent'
  BY <1>1, <1>2 DEF ObjectInv, CacheCurrent
<1>4. wake'
  <2>1. PICK after \in Requeue(outcome) : wake' = (wake \/ after > 0)
    BY DEF Return
  <2> QED
    BY <1>1, <2>1, RequeueIsPositive
<1>5. RestIsCurrent'
  <2> SUFFICES ASSUME api'.exists, ~queued', ~lag', ~dropped'
               PROVE  /\ told' = api'.gen
                      /\ api'.status = [reason |-> outcome', observed |-> api'.gen,
                             lastError |-> IF outcome' \in Failures THEN outcome' ELSE Blank]
    BY DEF RestIsCurrent
  <2>1. ~lag /\ api' = api /\ cached = api /\ cached.exists
    BY <1>2 DEF ObjectInv, CacheCurrent
  <2>2. ~Differs(StatusOf(outcome)) /\ told' = cfg.gen
    BY <1>1, <2>1 DEF SetReady
  <2>3. cached.status = StatusOf(outcome)
    BY <2>2 DEF Differs
  <2>4. cfg.gen = api.gen
    BY <1>1, <2>1 DEF ObjectInv, ReadIsCurrent
  <2> QED
    BY <1>1, <2>1, <2>2, <2>3, <2>4 DEF StatusOf
<1> QED
  BY <1>1, <1>3, <1>4, <1>5 DEF ObjectInv, ReadIsCurrent, SettingsParsed, NeverForgotten

LEMMA EnvironmentObject ==
    ASSUME ObjectInv, TypeOK',
           WakeUp \/ Deliver \/ Edit \/ Delete \/ ServiceChanges \/ DataChanges \/ Crash
    PROVE  ObjectInv'
<1> USE DEF ObjectInv, CacheCurrent, ReadIsCurrent, SettingsParsed, NeverForgotten,
            RestIsCurrent, world, object, queue, locals, history, bounds
<1>1. CASE WakeUp
  BY <1>1 DEF WakeUp
<1>2. CASE Deliver
  BY <1>2 DEF Deliver
<1>3. CASE Edit
  BY <1>3 DEF Edit, Change
<1>4. CASE Delete
  BY <1>4 DEF Delete, Change
<1>5. CASE ServiceChanges
  BY <1>5 DEF ServiceChanges, Change
<1>6. CASE DataChanges
  BY <1>6 DEF DataChanges, Change
<1>7. CASE Crash
  BY <1>7 DEF Crash
<1> QED
  BY <1>1, <1>2, <1>3, <1>4, <1>5, <1>6, <1>7

LEMMA StepObject == ObjectInv /\ [Next]_vars => ObjectInv'
<1> SUFFICES ASSUME ObjectInv, [Next]_vars PROVE ObjectInv'
  OBVIOUS
<1>1. TypeOK'
  BY StepTyped DEF ObjectInv
<1>2. CASE UNCHANGED vars
  BY <1>1, <1>2 DEF vars, world, object, queue, locals, history, bounds, ObjectInv,
       CacheCurrent, ReadIsCurrent, SettingsParsed, NeverForgotten, RestIsCurrent
<1>3. CASE Next
  BY <1>1, <1>3, ReconcilingObject, ReturnObject, EnvironmentObject DEF Next, Reconciling
<1> QED
  BY <1>2, <1>3

(* An object that exists is always queued, due for a requeue, on its way as*)
(* an event, or being reconciled: for any durations its spec may hold.     *)
THEOREM ObjectIsNeverForgotten == Spec => []NeverForgotten
<1>1. ObjectInv => NeverForgotten
  BY DEF ObjectInv
<1> QED
  BY <1>1, InitObject, StepObject, PTL DEF Spec

(* When nothing is queued or on its way and the last write did not fail,   *)
(* the conditions are the outcome of the last Reconcile, and it had read   *)
(* the present spec.                                                       *)
THEOREM ConditionsAtRest == Spec => []RestIsCurrent
<1>1. ObjectInv => RestIsCurrent
  BY DEF ObjectInv
<1> QED
  BY <1>1, InitObject, StepObject, PTL DEF Spec
----------------------------------------------------------------------------
(* The endpoint.                                                           *)

\* The first endpoint to which none is nearer is that in place j.
FirstNearest(es, j, spec) ==
    /\ j \in 1..Len(es)
    /\ \A k \in 1..Len(es) : ~Nearer(es[k], es[j], spec)
    /\ \A k \in 1..j - 1 : Nearer(es[j], es[k], spec)

\* The first place of those preferred by region, and then by interface, is one
\* to which none is nearer, and it is nearer than each before it.
LEMMA FirstPreferred ==
    ASSUME NEW es, Len(es) \in Nat \ {0}, DOMAIN es = 1..Len(es),
           NEW spec, NEW j, NEW iface, iface = Resolve(spec.interface, "public"),
           j = Min(OnInterface(es, InRegion(es, DOMAIN es, spec.region), iface))
    PROVE  FirstNearest(es, j, spec)
  <1> DEFINE all == 1..Len(es)
             near == InRegion(es, all, spec.region)
             best == OnInterface(es, near, iface)
  <1>1. /\ near \subseteq all /\ near # {}
        /\ \A k \in all, l \in near : k \notin near => spec.region \in es[l].regions /\ spec.region \notin es[k].regions
        /\ \A k, l \in near : spec.region \in es[k].regions <=> spec.region \in es[l].regions
    <2>1. all # {}
      <3>1. 1 \in all
        OBVIOUS
      <3> QED
        BY <3>1
    <2> DEFINE inside == {k \in all : spec.region \in es[k].regions}
    <2>2. near = IF inside # {} THEN inside ELSE all
      BY DEF InRegion, Preferred
    <2> HIDE DEF near, all
    <2> QED
      BY <2>1, <2>2
  <1> HIDE DEF near, all
  <1>2. /\ best \subseteq near /\ best # {}
        /\ \A k \in near, l \in best : k \notin best => es[l].interface = iface /\ es[k].interface # iface
        /\ \A k, l \in best : es[k].interface = iface <=> es[l].interface = iface
    BY <1>1 DEF OnInterface, Preferred
  <1> HIDE DEF best
  <1>3. j \in best /\ \A k \in best : j <= k
    <2>1. best \in SUBSET Nat
      BY <1>1, <1>2 DEF all
    <2>2. j = Min(best)
      BY DEF best, near, all
    <2> QED
      BY <1>2, <2>1, <2>2, MinIsLeast
  <1>4. j \in near /\ j \in all
    BY <1>1, <1>2, <1>3
  <1>5. ASSUME NEW k \in all PROVE ~Nearer(es[k], es[j], spec)
    BY <1>1, <1>2, <1>3, <1>4 DEF Nearer
  <1>6. ASSUME NEW k \in 1..j - 1 PROVE Nearer(es[j], es[k], spec)
    <2>1. k \in all /\ k \notin best
      BY <1>3, <1>4 DEF all
    <2> QED
      BY <2>1, <1>1, <1>2, <1>3, <1>4 DEF Nearer
  <1> QED
    BY <1>4, <1>5, <1>6 DEF all, FirstNearest

LEMMA EndpointsAreFound ==
    ASSUME TypeOK
    PROVE  EndpointIsNearest
  <1> SUFFICES ASSUME pc = "token", cfg.spec.neutronEndpoint = Blank PROVE EndpointIsNearest
    BY DEF EndpointIsNearest
  <1> DEFINE spec == cfg.spec
             iface == Resolve(spec.interface, "public")
             offers(i) == catalog[i].type = "network" /\ catalog[i].endpoints # <<>>
             offering == {i \in DOMAIN catalog : offers(i)}
             es == EndpointsOf(catalog, "network")
  <1>1. NeutronEndpoint(spec, catalog) = FindEndpoint(catalog, "network", iface, spec.region)
    BY DEF NeutronEndpoint, Resolve
  <1>2. catalog \in Catalogs
    BY DEF TypeOK
  <1>3. catalog \in Seq(ToSet(catalog)) /\ DOMAIN catalog = 1..Len(catalog) /\ Len(catalog) \in Nat
    BY <1>2, ObjectStatusAssumption
  <1>4. ASSUME NEW i \in 1..Len(catalog)
        PROVE  catalog[i].endpoints \in Seq(ToSet(catalog[i].endpoints))
    <2>1. catalog[i] \in ToSet(catalog)
      BY <1>3 DEF ToSet
    <2> QED
      BY <1>2, <2>1, ObjectStatusAssumption
  <1>5. CASE offering = {}
    <2>1. ~\E i \in 1..Len(catalog) : offers(i)
      BY <1>3, <1>5
    <2>2. es = <<>>
      BY <1>5 DEF EndpointsOf
    <2>3. NeutronEndpoint(spec, catalog) = Blank
      BY <1>1, <2>2 DEF FindEndpoint
    <2> QED
      BY <2>1, <2>3 DEF EndpointIsNearest
  <1>6. CASE offering # {}
    <2> DEFINE i == Min(offering)
    <2>1. i \in offering /\ \A h \in offering : i <= h
      <3>1. offering \in SUBSET Nat
        BY <1>3
      <3> HIDE DEF offering
      <3> QED
        BY <1>6, <3>1, MinIsLeast
    <2>2. es = catalog[i].endpoints
      BY <1>6 DEF EndpointsOf
    <2> HIDE DEF i
    <2>3. i \in 1..Len(catalog) /\ offers(i) /\ \A h \in 1..i - 1 : ~offers(h)
      BY <2>1, <1>3
    <2>4. es \in Seq(ToSet(es)) /\ es # <<>>
      BY <1>4, <2>2, <2>3
    <2> HIDE DEF es
    <2>5. DOMAIN es = 1..Len(es) /\ Len(es) \in Nat \ {0}
      BY <2>4, EmptySeq
    <2> DEFINE j == Min(OnInterface(es, InRegion(es, DOMAIN es, spec.region), iface))
    <2>6. NeutronEndpoint(spec, catalog) = es[j].url
      BY <1>1, <2>4 DEF FindEndpoint, es
    <2> HIDE DEF j, iface, spec
    <2>7. FirstNearest(es, j, spec)
      BY <2>5, FirstPreferred DEF j, iface
    <2> QED
      BY <2>2, <2>3, <2>6, <2>7 DEF EndpointIsNearest, spec, FirstNearest
  <1> QED
    BY <1>5, <1>6

(* The ports are listed at the nearest endpoint, whatever endpoints the    *)
(* catalog offers and whatever the spec asks for.                          *)
THEOREM PortsAreListedAtTheNearest == Spec => []EndpointIsNearest
  <1> QED
    BY StatusIsTyped, EndpointsAreFound, PTL DEF Spec
=============================================================================
