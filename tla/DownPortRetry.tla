---------------------------- MODULE DownPortRetry ----------------------------
(***************************************************************************)
(* When Reconcile runs again, and when it sends the nodes with DOWN ports  *)
(* again: the requeue intervals of one OpenstackConfig, and the retry      *)
(* record kept in its status (internal/controller/                         *)
(* openstackconfig_controller.go).                                         *)
(*                                                                         *)
(* The status is read from the watch cache of the manager and written to   *)
(* the API server, which refuses a write made from an old copy; every write*)
(* comes back as an event that starts Reconcile once more.  What is sent is*)
(* left to NodeSync: here only whether some node changed, and which set of *)
(* ports is DOWN.  Times are ages in ticks, and time passes between two    *)
(* Reconciles and during the calls to OpenStack and Viola.                 *)
(***************************************************************************)
EXTENDS Naturals

CONSTANTS
    Hashes,         \* hashes of the sets of DOWN ports
    NoDown,         \* "", no port is DOWN
    NoRetry,        \* status.downPortRetry is nil
    NoWake,         \* nothing waits in the delaying queue
    Second,         \* ticks of a second, the resolution of a stored time
    Fast,           \* pollFastInterval
    Slow,           \* pollSlowInterval
    Window,         \* pollFastWindow
    ErrorWait,      \* pollErrorInterval
    MaxFast,        \* downPortFastRetryMax
    MaxStale,       \* bound: staleSends is not counted further
    MaxChanges,     \* bound: changes of ports and edits of the object
    MaxFaults,      \* bound: failures of calls
    MaxCrashes      \* bound: kills of the process

ASSUME DownPortRetryAssumption ==
    /\ NoDown \notin Hashes
    /\ Second \in Nat \ {0}
    /\ Fast \in Nat \ {0} /\ Slow \in Nat /\ Slow >= Fast
    /\ Window \in Nat
    /\ ErrorWait \in Nat \ {0}
    /\ MaxFast \in Nat \ {0}
    /\ MaxStale \in Nat
    /\ MaxChanges \in Nat /\ MaxFaults \in Nat /\ MaxCrashes \in Nat

\* status.downPortRetry: hash, fastAttempts, and the age of lastAttempt.
Retries == [hash : Hashes, attempts : 1..MaxFast, age : 0..Slow]

Reasons == {"none", "NoChange", "Synced", "Error"}

\* The status of the object: the reason of Ready, and the retry record.
Statuses == [reason : Reasons, retry : Retries \cup {NoRetry}]

ASSUME NilRetryAssumption == NoRetry \notin Retries /\ NoWake \notin Nat

VARIABLES
    down,           \* the DOWN ports that Neutron would list
    changed,        \* some node differs from what was recorded for it
    clock,          \* ticks since the last whole second
    api,            \* the status at the API server
    cached,         \* the status in the watch cache
    lag,            \* the cache has not seen the last write
    queued,         \* the object is in the work queue
    wake,           \* ticks until the delaying queue adds it
    sinceChange,    \* age of r.lastChange, Window + 1 when old or unset
    pc,             \* where Reconcile is
    cfg,            \* the retry record Reconcile has read
    seen,           \* downPortHash of the last collection
    due, wait,      \* retryDue and retryWait
    toSend,         \* filterChanged found changed nodes
    outcome,        \* the reason Reconcile sets, or has set last
    sentHash,       \* history: downPortHash of the last request
    sentAgo,        \* history: its age
    saved,          \* history: its attempt is in the status
    misread,        \* history: Reconcile read a record older than the status
    fastSends,      \* history: requests for sentHash at less than Slow
    staleSends,     \* history: and those of a Reconcile that misread
    unsaved,        \* history: attempts that were never written
    changes, faults, crashes

world == <<down, changed, clock>>
status == <<api, cached, lag>>
queue == <<queued, wake, sinceChange>>
locals == <<pc, cfg, seen, due, wait, toSend, outcome>>
history == <<sentHash, sentAgo, saved, misread, fastSends, staleSends, unsaved>>
bounds == <<changes, faults, crashes>>
vars == <<world, status, queue, locals, history, bounds>>

\* More sends at the fast rate than any lost attempt explains.
TooMany == MaxFast + MaxFaults + MaxCrashes + 1

TypeOK ==
    /\ down \in Hashes \cup {NoDown}
    /\ changed \in BOOLEAN
    /\ clock \in 0..Second - 1
    /\ api \in Statuses /\ cached \in Statuses /\ lag \in BOOLEAN
    /\ queued \in BOOLEAN
    /\ wake \in (Nat \ {0}) \cup {NoWake}
    /\ sinceChange \in 0..Window + 1
    /\ pc \in {"idle", "collect", "clear", "decide", "post", "ready", "save"}
    /\ cfg \in Retries \cup {NoRetry}
    /\ seen \in Hashes \cup {NoDown}
    /\ due \in BOOLEAN /\ wait \in 0..Slow
    /\ toSend \in BOOLEAN
    /\ outcome \in Reasons
    /\ sentHash \in Hashes \cup {NoDown}
    /\ sentAgo \in 0..Slow
    /\ saved \in BOOLEAN /\ misread \in BOOLEAN
    /\ fastSends \in 0..TooMany /\ staleSends \in 0..MaxStale
    /\ unsaved \in 0..faults + crashes
    /\ changes \in 0..MaxChanges
    /\ faults \in 0..MaxFaults
    /\ crashes \in 0..MaxCrashes

NewStatus == [reason |-> "none", retry |-> NoRetry]

Init ==
    /\ down \in Hashes \cup {NoDown}
    /\ changed = TRUE
    /\ clock = 0
    /\ api = NewStatus /\ cached = NewStatus /\ lag = FALSE
    /\ queued = TRUE /\ wake = NoWake /\ sinceChange = Window + 1
    /\ pc = "idle" /\ cfg = NoRetry /\ seen = NoDown
    /\ due = FALSE /\ wait = 0 /\ toSend = FALSE /\ outcome = "none"
    /\ sentHash = NoDown /\ sentAgo = Slow /\ saved = FALSE
    /\ misread = FALSE /\ fastSends = 0 /\ staleSends = 0 /\ unsaved = 0
    /\ changes = 0 /\ faults = 0 /\ crashes = 0

----------------------------------------------------------------------------
(* The rules for the next retry and the next poll.                         *)

Least(x, y) == IF x <= y THEN x ELSE y

\* How long a record keeps the next retry away.
Interval(r) == IF r.attempts < MaxFast THEN Fast ELSE Slow

\* Mutated form: once the fast retries are used up there are no more.
RetryUntilMax(r, h) == h # NoDown /\ (r = NoRetry \/ r.hash # h \/
                           (r.attempts < MaxFast /\ r.age >= Interval(r)))

\* Mutated form: the interval is not looked at.
RetryAlways(r, h) == h # NoDown

\* shouldRetryDownPorts, its first result and its second.
RetryDue(r, h) == h # NoDown /\ (r = NoRetry \/ r.hash # h \/ r.age >= Interval(r))

RetryWait(r, h) ==
    IF h = NoDown \/ RetryDue(r, h) THEN 0 ELSE Interval(r) - r.age

\* Mutated form: the attempts are not limited.
NextRetryUncapped(r, h) ==
    [hash |-> h,
     attempts |-> IF r = NoRetry \/ r.hash # h THEN 1 ELSE r.attempts + 1,
     age |-> Least(clock, Slow)]

\* Mutated form: the attempts made before are forgotten.
NextRetryFirst(r, h) == [hash |-> h, attempts |-> 1, age |-> Least(clock, Slow)]

\* nextDownPortRetryStatus.  The API keeps lastAttempt in whole seconds, so it
\* is as old as the second has ticks behind it.
NextRetry(r, h) ==
    [hash |-> h,
     attempts |-> IF r = NoRetry \/ r.hash # h THEN 1
                  ELSE Least(r.attempts + 1, MaxFast),
     age |-> Least(clock, Slow)]

\* adaptiveRequeue when nothing was sent.
AdaptiveRequeue == IF Window > 0 /\ sinceChange <= Window THEN Fast ELSE Slow

\* Mutated form: the poll interval alone decides.
NoChangeRequeueOfPoll == AdaptiveRequeue

\* The requeue of a Reconcile that found nothing to send.
NoChangeRequeue ==
    IF seen # NoDown /\ ~due /\ wait > 0
    THEN Least(wait, AdaptiveRequeue) ELSE AdaptiveRequeue

----------------------------------------------------------------------------
(* Writing the status.                                                     *)

Fault == faults < MaxFaults /\ faults' = faults + 1

\* RetryOnConflict around Get from the cache and Status().Update: written when
\* the copy is the latest one; otherwise every try conflicts, or the API
\* server fails, and the error is logged at most.
Write(new) ==
    \/ ~lag /\ api' = new /\ lag' = TRUE /\ UNCHANGED faults
    \/ Fault /\ UNCHANGED <<api, lag>>

NoWrite == UNCHANGED <<api, lag, faults>>

\* Mutated form: the status is written even when it says so already.
ReadyAlwaysDiffers(reason) == TRUE

\* setReadyCondition writes a new reason, and for Synced a new lastSyncedAt.
ReadyDiffers(reason) == reason = "Synced" \/ cached.reason # reason

SetReady(reason) ==
    IF ReadyDiffers(reason)
    THEN Write([cached EXCEPT !.reason = reason])
    ELSE NoWrite

\* Reconcile returns RequeueAfter: the delaying queue keeps the earlier time.
Return(after) ==
    /\ pc' = "idle"
    /\ wake' = IF wake = NoWake THEN after ELSE Least(wake, after)
    /\ cfg' = NoRetry /\ due' = FALSE /\ wait' = 0 /\ toSend' = FALSE
    /\ UNCHANGED <<seen, outcome, queued>>

----------------------------------------------------------------------------
(* Reconcile.                                                              *)

\* The worker takes the object and Get reads it from the watch cache, which
\* may not have seen the last write of the retry record.
Begin ==
    /\ pc = "idle" /\ queued
    /\ queued' = FALSE
    /\ cfg' = cached.retry
    /\ misread' = (cached.retry # api.retry)
    /\ pc' = "collect"
    /\ UNCHANGED <<world, status, wake, sinceChange, seen, due, wait, toSend,
                   outcome, sentHash, sentAgo, saved, fastSends, staleSends,
                   unsaved, bounds>>

\* The ports are listed and mapped, and what the retry record asks is decided.
Collect ==
    /\ pc = "collect"
    /\ seen' = down
    /\ toSend' = changed /\ changed' = FALSE
    /\ due' = RetryDue(cfg, down)
    /\ wait' = RetryWait(cfg, down)
    /\ pc' = IF down = NoDown /\ cfg # NoRetry THEN "clear" ELSE "decide"
    /\ IF down = NoDown
       THEN sentHash' = NoDown /\ fastSends' = 0 /\ staleSends' = 0
       ELSE UNCHANGED <<sentHash, fastSends, staleSends>>
    /\ UNCHANGED <<down, clock, status, queue, cfg, outcome, sentAgo, saved, misread,
                   unsaved, bounds>>

\* A call before that fails.
CollectFails ==
    /\ pc = "collect" /\ Fault
    /\ outcome' = "Error" /\ pc' = "ready"
    /\ UNCHANGED <<world, status, queue, cfg, seen, due, wait, toSend, history,
                   changes, crashes>>

\* No port is DOWN any more: the record is removed.
Clear ==
    /\ pc = "clear"
    /\ IF cached.retry # NoRetry
       THEN Write([cached EXCEPT !.retry = NoRetry])
       ELSE NoWrite
    /\ pc' = "decide"
    /\ UNCHANGED <<world, cached, queue, cfg, seen, due, wait, toSend, outcome,
                   history, changes, crashes>>

SomethingToSend == toSend \/ (seen # NoDown /\ due)

NothingToSend ==
    /\ pc = "decide" /\ ~SomethingToSend
    /\ outcome' = "NoChange" /\ pc' = "ready"
    /\ UNCHANGED <<world, status, queue, cfg, seen, due, wait, toSend, history, bounds>>

Send ==
    /\ pc = "decide" /\ SomethingToSend
    /\ pc' = "post"
    /\ UNCHANGED <<world, status, queue, cfg, seen, due, wait, toSend, outcome,
                   history, bounds>>

PostFails ==
    /\ pc = "post" /\ Fault
    /\ changed' = (changed \/ toSend)
    /\ outcome' = "Error" /\ pc' = "ready"
    /\ UNCHANGED <<down, clock, status, queue, cfg, seen, due, wait, toSend, history,
                   changes, crashes>>

\* The request repeats the last one for the sake of DOWN ports alone, before
\* the slow interval has passed.
FastRetry == ~toSend /\ seen = sentHash /\ sentAgo + (Second - 1) < Slow

\* Viola answers, and the nodes are recorded.
PostSucceeds ==
    /\ pc = "post"
    /\ outcome' = "Synced" /\ pc' = "ready"
    /\ sentHash' = seen /\ sentAgo' = 0 /\ saved' = FALSE
    /\ fastSends' = IF seen = NoDown THEN 0
                    ELSE IF seen # sentHash THEN 1
                    ELSE IF FastRetry /\ ~misread THEN Least(fastSends + 1, TooMany)
                    ELSE fastSends
    /\ staleSends' = IF seen # sentHash THEN 0
                     ELSE IF FastRetry /\ misread THEN Least(staleSends + 1, MaxStale)
                     ELSE staleSends
    /\ UNCHANGED <<world, status, queue, cfg, seen, due, wait, toSend, misread, unsaved,
                   bounds>>

\* Ready is set; a Reconcile that sent nothing returns.
ReadyAndReturn(reason, after) ==
    /\ pc = "ready" /\ outcome = reason
    /\ SetReady(reason)
    /\ Return(after)
    /\ UNCHANGED <<world, cached, sinceChange, history, changes, crashes>>

ReadyNoChange == ReadyAndReturn("NoChange", NoChangeRequeue)
ReadyError == ReadyAndReturn("Error", ErrorWait)

\* Ready is Synced, and recordChange; requests with DOWN ports are counted.
ReadySynced ==
    /\ pc = "ready" /\ outcome = "Synced"
    /\ SetReady("Synced")
    /\ sinceChange' = 0
    /\ IF seen # NoDown
       THEN pc' = "save" /\ UNCHANGED <<wake, cfg, seen, due, wait, toSend, outcome, queued>>
       ELSE Return(Fast)
    /\ UNCHANGED <<world, cached, history, changes, crashes>>

\* updateDownPortRetryStatus, and the return.
SaveRetry ==
    /\ pc = "save"
    /\ Write([cached EXCEPT !.retry = NextRetry(cfg, seen)])
    /\ IF faults' = faults
       THEN saved' = TRUE /\ UNCHANGED unsaved
       ELSE unsaved' = unsaved + 1 /\ UNCHANGED saved
    /\ Return(Fast)
    /\ UNCHANGED <<world, cached, sinceChange, sentHash, sentAgo, misread,
                   fastSends, staleSends, changes, crashes>>

----------------------------------------------------------------------------
(* The watch, the clock, and the rest of the world.                        *)

\* The event of the last write reaches the cache and the work queue.
Deliver ==
    /\ lag
    /\ cached' = api /\ lag' = FALSE
    /\ queued' = TRUE
    /\ UNCHANGED <<world, api, wake, sinceChange, locals, history, bounds>>

Older(r) == IF r = NoRetry THEN r ELSE [r EXCEPT !.age = Least(@ + 1, Slow)]

Tick ==
    /\ pc \in {"idle", "collect", "post"}
    /\ clock' = (clock + 1) % Second
    /\ api' = [api EXCEPT !.retry = Older(@)]
    /\ cached' = [cached EXCEPT !.retry = Older(@)]
    /\ cfg' = Older(cfg)
    /\ IF wake = 1 THEN wake' = NoWake /\ queued' = TRUE
       ELSE wake' = (IF wake = NoWake THEN wake ELSE wake - 1) /\ UNCHANGED queued
    /\ sinceChange' = Least(sinceChange + 1, Window + 1)
    /\ sentAgo' = Least(sentAgo + 1, Slow)
    /\ UNCHANGED <<down, changed, lag, pc, seen, due, wait, toSend, outcome, sentHash,
                   saved, misread, fastSends, staleSends, unsaved, bounds>>

Change == changes < MaxChanges /\ changes' = changes + 1

\* The set of DOWN ports changes.
PortStatus(h) ==
    /\ Change /\ h # down
    /\ down' = h
    /\ UNCHANGED <<changed, clock, status, queue, locals, history, faults, crashes>>

\* The interfaces of some node change.
PortChange ==
    /\ Change
    /\ changed' = TRUE
    /\ UNCHANGED <<down, clock, status, queue, locals, history, faults, crashes>>

\* Somebody writes the object: copies read before are old.
Edit ==
    /\ Change
    /\ lag' = TRUE
    /\ UNCHANGED <<world, api, cached, queue, locals, history, faults, crashes>>

\* The process is killed and started again: it lists all objects.
Crash ==
    /\ crashes < MaxCrashes /\ crashes' = crashes + 1
    /\ cached' = api /\ lag' = FALSE
    /\ queued' = TRUE /\ wake' = NoWake /\ sinceChange' = Window + 1
    /\ pc' = "idle" /\ cfg' = NoRetry /\ due' = FALSE /\ wait' = 0 /\ toSend' = FALSE
    /\ outcome' = "none" /\ misread' = FALSE
    /\ LET sent == pc = "save" \/ (pc = "ready" /\ outcome = "Synced") IN
       /\ changed' = (changed \/ (toSend /\ ~sent))
       /\ unsaved' = IF sent /\ seen # NoDown THEN unsaved + 1 ELSE unsaved
    /\ UNCHANGED <<down, clock, api, seen, sentHash, sentAgo, saved, fastSends,
                   staleSends, changes, faults>>

----------------------------------------------------------------------------
Reconciling ==
    \/ Begin \/ Collect \/ Clear \/ NothingToSend \/ Send
    \/ ReadyNoChange \/ ReadyError \/ ReadySynced \/ SaveRetry

Next ==
    \/ Reconciling
    \/ PostSucceeds
    \/ CollectFails \/ PostFails
    \/ Deliver \/ Tick
    \/ \E h \in Hashes \cup {NoDown} : PortStatus(h)
    \/ PortChange \/ Edit
    \/ Crash

Spec == Init /\ [][Next]_vars

\* The worker goes on, Viola answers, the watch delivers and time passes.
FairSpec ==
    /\ Spec
    /\ WF_vars(Reconciling) /\ WF_vars(PostSucceeds) /\ WF_vars(Deliver) /\ WF_vars(Tick)

----------------------------------------------------------------------------
(* Properties.                                                             *)

\* A request for the sake of DOWN ports alone, after one whose attempt is in
\* the status.
SendsAgain ==
    /\ pc = "decide" /\ pc' = "post"
    /\ ~toSend /\ saved /\ seen = sentHash

(* The nodes with DOWN ports are not sent again for the same ports before  *)
(* the fast interval has passed since the last request, but for the second *)
(* that lastAttempt loses when it is stored: neither a restart nor an event*)
(* makes Reconcile resend at once.  The one exception is a Reconcile that  *)
(* read the record before its own last write of it was in the watch cache. *)
ResendSpacing == [][SendsAgain /\ ~misread => sentAgo + (Second - 1) >= Fast]_vars

(* For one set of DOWN ports, no more requests than downPortFastRetryMax   *)
(* come at less than the slow interval, and one more for each attempt that *)
(* could not be written to the status: across ticks, kills, edits, failed  *)
(* requests and requests for changed nodes in between.  A request that a   *)
(* Reconcile decided on an old record comes on top, and is the only one    *)
(* that does: the record it writes still counts all the others.            *)
FastRetriesBounded == fastSends <= MaxFast + unsaved

(* What the README says of all requests: downPortFastRetryMax of them at   *)
(* the fast interval, and then the slow one.                               *)
FastRetriesAsDocumented == fastSends + staleSends <= MaxFast + unsaved

(* When the last Reconcile succeeded and saw DOWN ports, the next one comes*)
(* no later than the retry is due, whatever the poll interval says.  When  *)
(* it went by an old record, the event of the newer one is on its way, and *)
(* starts the next Reconcile.                                              *)
NoOversleep ==
    (/\ pc = "idle" /\ ~queued
     /\ outcome \in {"NoChange", "Synced"} /\ saved
     /\ seen # NoDown /\ api.retry # NoRetry /\ api.retry.hash = seen)
    => \/ misread /\ lag
       \/ /\ wake # NoWake
          /\ wake <= RetryWait(api.retry, seen) + (Second - 1)

(* Ports that stay DOWN are sent again and again: the retries slow down,   *)
(* they never end.                                                         *)
KeepsResending ==
    \A h \in Hashes : <>[](down = h) => []<><<PostSucceeds>>_vars

(* Each status write is an event that starts Reconcile again, yet the      *)
(* writes die out: with no DOWN port left and no more changes, nothing new *)
(* is written to the object.                                               *)
StatusSettles == <>[](down = NoDown) => <>[][lag' => lag]_vars
=============================================================================
