------------------------ MODULE DownPortRetryProofs ------------------------
(***************************************************************************)
(* Proofs about DownPortRetry: its types, and that retries for DOWN ports  *)
(* keep their distance and their number and are not slept over, for any    *)
(* intervals, any number of ports, any failures and kills, and a watch     *)
(* cache that is behind for any time.                                      *)
(***************************************************************************)
EXTENDS DownPortRetry, TLAPS

\* The cache is behind only between a write and its event.
CacheIsFresh == ~lag => cached = api

\* Reconcile works with the record in the status and sees the cache show it,
\* unless it has read an older one or has removed it.
ReadIsCurrent ==
    pc # "idle" => \/ misread
                   \/ cfg = api.retry /\ cached.retry = api.retry
                   \/ seen = NoDown /\ pc # "collect"

\* The event of a record that Reconcile has not read is still to come, or has
\* come and waits.
MisreadHasEvent == misread => queued \/ lag

\* What Collect has decided, as long as the clock has not moved on.
Decided ==
    /\ pc \in {"clear", "decide"} \/ (pc = "ready" /\ outcome = "NoChange")
       => /\ due <=> RetryDue(cfg, seen)
          /\ wait = RetryWait(cfg, seen)
    /\ pc = "clear" => seen = NoDown /\ sentHash = NoDown
    /\ pc = "ready" /\ outcome = "NoChange" => seen = NoDown \/ ~due
    /\ pc = "post" /\ ~toSend => RetryDue(cfg, seen)

\* An attempt is only written for DOWN ports.
SavesDown == pc = "save" => seen # NoDown

\* A request was answered and its attempt is not in the status yet.
Pending == pc = "save" \/ (pc = "ready" /\ outcome = "Synced")

PendingIsLast == Pending => sentHash = seen /\ sentAgo = 0 /\ ~saved

\* The record of the last request, and its age but for the second it loses.
RecordedIsLast ==
    saved /\ sentHash # NoDown =>
        /\ api.retry # NoRetry /\ api.retry.hash = sentHash
        /\ api.retry.age <= sentAgo + (Second - 1)

\* The attempts of a record that are about the ports h, and those of the
\* record that is written after it.
Counted(r, h) == IF r # NoRetry /\ r.hash = h THEN r.attempts ELSE 0
OneMore(r, h) == Least(Counted(r, h) + 1, MaxFast)

\* The attempts in the status that are about the last request.
Attempts == Counted(api.retry, sentHash)

\* No fast request is missing from the record but for the attempts that were
\* not written; and when the last one was not, there is one to spare.
SendsAreCounted ==
    sentHash # NoDown =>
        /\ Pending => fastSends <= Least(Attempts + 1, MaxFast) + unsaved
        /\ ~Pending => /\ fastSends <= Attempts + unsaved
                       /\ ~saved => fastSends + 1 <= MaxFast + unsaved

\* What the cache shows and what Reconcile holds is one attempt behind at most:
\* the attempt written after it makes up for it.
OldIsOneBehind ==
    sentHash # NoDown =>
        /\ fastSends <= OneMore(cached.retry, sentHash) + unsaved
        /\ pc # "idle" => fastSends <= OneMore(cfg, sentHash) + unsaved

NoneSent == sentHash = NoDown => fastSends = 0

RetryInv ==
    /\ TypeOK
    /\ CacheIsFresh /\ ReadIsCurrent /\ Decided /\ SavesDown
    /\ PendingIsLast /\ RecordedIsLast /\ SendsAreCounted /\ NoOversleep
    /\ NoneSent /\ MisreadHasEvent /\ OldIsOneBehind

----------------------------------------------------------------------------
(* Types.                                                                  *)

USE DownPortRetryAssumption, NilRetryAssumption

LEMMA NextRetryType ==
    ASSUME NEW r \in Retries \cup {NoRetry}, NEW h \in Hashes, clock \in 0..Second - 1
    PROVE  NextRetry(r, h) \in Retries
  BY DEF NextRetry, Retries, Least

LEMMA OlderType ==
    ASSUME NEW r \in Retries \cup {NoRetry}
    PROVE  Older(r) \in Retries \cup {NoRetry}
  BY DEF Older, Retries, Least

LEMMA WaitType ==
    ASSUME NEW r \in Retries \cup {NoRetry}, NEW h \in Hashes \cup {NoDown}
    PROVE  RetryWait(r, h) \in 0..Slow /\ RetryDue(r, h) \in BOOLEAN
  BY DEF RetryWait, RetryDue, Interval, Retries

LEMMA StatusType ==
    ASSUME NEW s \in Statuses, NEW r \in Retries \cup {NoRetry}, NEW x \in Reasons
    PROVE  /\ s.retry \in Retries \cup {NoRetry}
           /\ [s EXCEPT !.retry = r] \in Statuses
           /\ [s EXCEPT !.reason = x] \in Statuses
  BY DEF Statuses

LEMMA ReasonsType == {"none", "NoChange", "Synced", "Error"} \subseteq Reasons
  BY DEF Reasons

LEMMA WriteType ==
    ASSUME TypeOK, NEW new \in Statuses, Write(new)
    PROVE  api' \in Statuses /\ lag' \in BOOLEAN
           /\ faults' \in 0..MaxFaults /\ faults' \in {faults, faults + 1}
  <1>1. CASE ~lag /\ api' = new /\ lag' = TRUE /\ UNCHANGED faults
    BY <1>1 DEF TypeOK
  <1>2. CASE Fault /\ UNCHANGED <<api, lag>>
    BY <1>2 DEF TypeOK, Fault
  <1> QED
    BY <1>1, <1>2 DEF Write

LEMMA SetReadyType ==
    ASSUME TypeOK, NEW x \in Reasons, SetReady(x)
    PROVE  api' \in Statuses /\ lag' \in BOOLEAN
           /\ faults' \in 0..MaxFaults /\ faults' \in {faults, faults + 1}
  <1>1. [cached EXCEPT !.reason = x] \in Statuses
    BY DEF TypeOK, Statuses
  <1>2. CASE Write([cached EXCEPT !.reason = x])
    BY <1>1, <1>2, WriteType
  <1>3. CASE NoWrite
    BY <1>3 DEF NoWrite, TypeOK
  <1> QED
    BY <1>2, <1>3 DEF SetReady

LEMMA SaveType ==
    ASSUME TypeOK, NEW r \in Retries \cup {NoRetry}, Write([cached EXCEPT !.retry = r])
    PROVE  api' \in Statuses /\ lag' \in BOOLEAN
           /\ faults' \in 0..MaxFaults /\ faults' \in {faults, faults + 1}
  <1>1. [cached EXCEPT !.retry = r] \in Statuses
    BY DEF TypeOK, Statuses
  <1> QED
    BY <1>1, WriteType

\* What Reconcile holds, and what waits.
LocalsTyped ==
    /\ queued \in BOOLEAN
    /\ wake \in (Nat \ {0}) \cup {NoWake}
    /\ pc \in {"idle", "collect", "clear", "decide", "post", "ready", "save"}
    /\ cfg \in Retries \cup {NoRetry}
    /\ seen \in Hashes \cup {NoDown}
    /\ due \in BOOLEAN /\ wait \in 0..Slow
    /\ toSend \in BOOLEAN
    /\ outcome \in Reasons

LEMMA ReturnType ==
    ASSUME TypeOK, NEW n \in Nat \ {0}, Return(n)
    PROVE  LocalsTyped'
  <1>1. wake' \in (Nat \ {0}) \cup {NoWake}
    BY DEF TypeOK, Return, Least
  <1>2. queued' \in BOOLEAN /\ due' \in BOOLEAN /\ toSend' \in BOOLEAN
    BY DEF TypeOK, Return
  <1> QED
    BY <1>1, <1>2 DEF TypeOK, Return, LocalsTyped

LEMMA RequeueType ==
    ASSUME TypeOK
    PROVE  NoChangeRequeue \in Nat \ {0}
  BY DEF TypeOK, NoChangeRequeue, AdaptiveRequeue, Least

LEMMA FaultsCount ==
    ASSUME TypeOK, faults' \in {faults, faults + 1}, crashes' = crashes
    PROVE  /\ unsaved \in 0..faults' + crashes'
           /\ faults' = faults + 1 => unsaved + 1 \in 0..faults' + crashes'
  <1>1. unsaved \in 0..faults + crashes /\ faults \in Nat /\ crashes \in Nat
    BY DEF TypeOK
  <1>2. CASE faults' = faults
    BY <1>1, <1>2
  <1>3. CASE faults' = faults + 1
    BY <1>1, <1>3
  <1> QED
    BY <1>2, <1>3

LEMMA InitTyped == Init => TypeOK
  <1> SUFFICES ASSUME Init PROVE TypeOK
    OBVIOUS
  <1>1. NewStatus \in Statuses
    BY DEF NewStatus, Statuses, Reasons
  <1>2. 0 \in 0..Slow /\ Slow \in 0..Slow /\ 0 \in 0..TooMany /\ 0 \in 0..Second - 1
        /\ Window + 1 \in 0..Window + 1
    BY DEF TooMany
  <1>3. /\ down \in Hashes \cup {NoDown} /\ changed \in BOOLEAN /\ lag \in BOOLEAN
        /\ queued \in BOOLEAN /\ due \in BOOLEAN /\ toSend \in BOOLEAN /\ saved \in BOOLEAN
        /\ misread \in BOOLEAN
    BY DEF Init
  <1>4. /\ api \in Statuses /\ cached \in Statuses
        /\ cfg \in Retries \cup {NoRetry} /\ outcome \in Reasons
        /\ seen \in Hashes \cup {NoDown} /\ sentHash \in Hashes \cup {NoDown}
    BY <1>1, ReasonsType DEF Init
  <1>5. /\ clock \in 0..Second - 1 /\ wake \in (Nat \ {0}) \cup {NoWake}
        /\ sinceChange \in 0..Window + 1 /\ wait \in 0..Slow /\ sentAgo \in 0..Slow
        /\ fastSends \in 0..TooMany /\ staleSends \in 0..MaxStale
    BY <1>2 DEF Init
  <1>6. /\ unsaved \in 0..faults + crashes /\ changes \in 0..MaxChanges
        /\ faults \in 0..MaxFaults /\ crashes \in 0..MaxCrashes
    BY DEF Init
  <1> QED
    BY <1>3, <1>4, <1>5, <1>6 DEF Init, TypeOK

LEMMA TypeStep == TypeOK /\ SavesDown /\ [Next]_vars => TypeOK'
  <1> SUFFICES ASSUME TypeOK, SavesDown, [Next]_vars PROVE TypeOK'
    OBVIOUS
  <1> USE DEF world, status, queue, locals, history, bounds
  <1>1. CASE Begin
    <2>1. cfg' \in Retries \cup {NoRetry}
      BY <1>1, StatusType, ReasonsType DEF Begin, TypeOK
    <2> QED
      BY <1>1, <2>1 DEF Begin, TypeOK
  <1>2. CASE Collect
    <2>1. due' \in BOOLEAN /\ wait' \in 0..Slow
      BY <1>2, WaitType DEF Collect, TypeOK
    <2>2. sentHash' \in Hashes \cup {NoDown} /\ fastSends' \in 0..TooMany
          /\ staleSends' \in 0..MaxStale
      BY <1>2 DEF Collect, TypeOK, TooMany
    <2>3. pc' \in {"clear", "decide"}
      BY <1>2 DEF Collect
    <2> QED
      BY <1>2, <2>1, <2>2, <2>3 DEF Collect, TypeOK
  <1>3. CASE Clear
    <2>1. /\ api' \in Statuses /\ lag' \in BOOLEAN
          /\ faults' \in 0..MaxFaults /\ faults' \in {faults, faults + 1}
      <3>1. CASE cached.retry # NoRetry
        BY <1>3, <3>1, SaveType DEF Clear
      <3>2. CASE cached.retry = NoRetry
        BY <1>3, <3>2 DEF Clear, NoWrite, TypeOK
      <3> QED
        BY <3>1, <3>2
    <2>2. unsaved' \in 0..faults' + crashes'
      BY <1>3, <2>1, FaultsCount DEF Clear
    <2> QED
      BY <1>3, <2>1, <2>2 DEF Clear, TypeOK
  <1>4. CASE NothingToSend
    BY <1>4, ReasonsType DEF NothingToSend, TypeOK
  <1>5. CASE Send
    BY <1>5 DEF Send, TypeOK
  <1>6. ASSUME NEW x \in Reasons, NEW n \in Nat \ {0}, ReadyAndReturn(x, n)
        PROVE  TypeOK'
    <2>1. LocalsTyped'
      BY <1>6, ReturnType DEF ReadyAndReturn
    <2>2. /\ api' \in Statuses /\ lag' \in BOOLEAN
          /\ faults' \in 0..MaxFaults /\ faults' \in {faults, faults + 1}
      BY <1>6, SetReadyType DEF ReadyAndReturn
    <2>3. unsaved' \in 0..faults' + crashes'
      BY <1>6, <2>2, FaultsCount DEF ReadyAndReturn
    <2> QED
      BY <1>6, <2>1, <2>2, <2>3 DEF ReadyAndReturn, TypeOK, LocalsTyped
  <1>7. CASE ReadyNoChange
    BY <1>6, <1>7, RequeueType, ReasonsType DEF ReadyNoChange
  <1>8. CASE ReadyError
    BY <1>6, <1>8, ReasonsType DEF ReadyError
  <1>9. CASE ReadySynced
    <2>1. /\ api' \in Statuses /\ lag' \in BOOLEAN
          /\ faults' \in 0..MaxFaults /\ faults' \in {faults, faults + 1}
      BY <1>9, SetReadyType, ReasonsType DEF ReadySynced
    <2>2. unsaved' \in 0..faults' + crashes'
      BY <1>9, <2>1, FaultsCount DEF ReadySynced
    <2>3. LocalsTyped'
      <3>1. CASE seen # NoDown
        BY <1>9, <3>1 DEF ReadySynced, TypeOK, LocalsTyped
      <3>2. CASE seen = NoDown
        BY <1>9, <3>2, ReturnType DEF ReadySynced
      <3> QED
        BY <3>1, <3>2
    <2>4. sinceChange' \in 0..Window + 1
      BY <1>9 DEF ReadySynced
    <2> QED
      BY <1>9, <2>1, <2>2, <2>3, <2>4 DEF ReadySynced, TypeOK, LocalsTyped
  <1>10. CASE SaveRetry
    <2>1. NextRetry(cfg, seen) \in Retries \cup {NoRetry}
      BY <1>10, NextRetryType DEF SaveRetry, SavesDown, TypeOK
    <2>2. /\ api' \in Statuses /\ lag' \in BOOLEAN
          /\ faults' \in 0..MaxFaults /\ faults' \in {faults, faults + 1}
      BY <1>10, <2>1, SaveType DEF SaveRetry
    <2>3. unsaved' \in 0..faults' + crashes' /\ saved' \in BOOLEAN
      <3>1. CASE faults' = faults
        BY <1>10, <2>2, <3>1, FaultsCount DEF SaveRetry
      <3>2. CASE faults' # faults
        BY <1>10, <2>2, <3>2, FaultsCount DEF SaveRetry, TypeOK
      <3> QED
        BY <3>1, <3>2
    <2>4. LocalsTyped'
      BY <1>10, ReturnType DEF SaveRetry
    <2> QED
      BY <1>10, <2>2, <2>3, <2>4 DEF SaveRetry, TypeOK, LocalsTyped
  <1>11. CASE PostSucceeds
    <2>1. fastSends' \in 0..TooMany /\ staleSends' \in 0..MaxStale
      BY <1>11 DEF PostSucceeds, TypeOK, Least, TooMany
    <2>2. sentAgo' \in 0..Slow /\ sentHash' \in Hashes \cup {NoDown}
      BY <1>11 DEF PostSucceeds, TypeOK
    <2> QED
      BY <1>11, <2>1, <2>2, ReasonsType DEF PostSucceeds, TypeOK
  <1>12. CASE CollectFails
    BY <1>12, ReasonsType DEF CollectFails, Fault, TypeOK
  <1>13. CASE PostFails
    BY <1>13, ReasonsType DEF PostFails, Fault, TypeOK
  <1>14. CASE Deliver
    <2>1. lag' \in BOOLEAN /\ queued' \in BOOLEAN
      BY <1>14 DEF Deliver
    <2> QED
      BY <1>14, <2>1 DEF Deliver, TypeOK
  <1>15. CASE Tick
    <2>1. clock' \in 0..Second - 1
      BY <1>15 DEF Tick, TypeOK
    <2>2. Older(api.retry) \in Retries \cup {NoRetry} /\ Older(cached.retry) \in Retries \cup {NoRetry}
      BY OlderType, StatusType, ReasonsType DEF TypeOK
    <2>3. api' \in Statuses /\ cached' \in Statuses
      BY <1>15, <2>2, StatusType, ReasonsType DEF Tick, TypeOK
    <2>4. cfg' \in Retries \cup {NoRetry}
      BY <1>15, OlderType DEF Tick, TypeOK
    <2>5. wake' \in (Nat \ {0}) \cup {NoWake} /\ queued' \in BOOLEAN
      <3>1. CASE wake = 1
        BY <1>15, <3>1 DEF Tick
      <3>2. CASE wake # 1
        BY <1>15, <3>2 DEF Tick, TypeOK
      <3> QED
        BY <3>1, <3>2
    <2>6. sinceChange' \in 0..Window + 1 /\ sentAgo' \in 0..Slow
      BY <1>15 DEF Tick, TypeOK, Least
    <2> QED
      BY <1>15, <2>1, <2>3, <2>4, <2>5, <2>6 DEF Tick, TypeOK
  <1>16. ASSUME NEW h \in Hashes \cup {NoDown}, PortStatus(h) PROVE TypeOK'
    BY <1>16 DEF PortStatus, Change, TypeOK
  <1>17. CASE PortChange
    BY <1>17 DEF PortChange, Change, TypeOK
  <1>18. CASE Edit
    BY <1>18 DEF Edit, Change, TypeOK
  <1>19. CASE Crash
    <2>1. crashes' \in 0..MaxCrashes /\ unsaved' \in 0..faults' + crashes'
      BY <1>19 DEF Crash, TypeOK
    <2>2. changed' \in BOOLEAN
      BY <1>19, Zenon DEF Crash, TypeOK
    <2>3. sinceChange' \in 0..Window + 1 /\ wait' \in 0..Slow
      BY <1>19 DEF Crash
    <2> QED
      BY <1>19, <2>1, <2>2, <2>3, ReasonsType DEF Crash, TypeOK
  <1>20. CASE UNCHANGED vars
    BY <1>20 DEF vars, TypeOK
  <1> QED
    BY <1>1, <1>2, <1>3, <1>4, <1>5, <1>7, <1>8, <1>9, <1>10, <1>11, <1>12, <1>13, <1>14,
       <1>15, <1>16, <1>17, <1>18, <1>19, <1>20 DEF Next, Reconciling

LEMMA SavesDownStep == TypeOK /\ SavesDown /\ [Next]_vars => SavesDown'
  BY DEF SavesDown, vars, world, status, queue, locals, history, bounds, Next, Reconciling,
         Begin, Collect, Clear, NothingToSend, Send, ReadyNoChange, ReadyError, ReadyAndReturn,
         ReadySynced, SaveRetry, PostSucceeds, CollectFails, PostFails, Deliver, Tick,
         PortStatus, PortChange, Edit, Crash, Return

(* The status, the queues and Reconcile keep their types: ages and counts  *)
(* stay within their limits, and a requeue is never immediate.             *)
THEOREM RetryIsTyped == Spec => []TypeOK
  <1>1. Init => SavesDown
    BY DEF Init, SavesDown
  <1> QED
    BY <1>1, InitTyped, TypeStep, SavesDownStep, PTL DEF Spec

----------------------------------------------------------------------------
(* The retry record.                                                       *)

LEMMA DueType ==
    ASSUME NEW r \in Retries \cup {NoRetry}, NEW h \in Hashes
    PROVE  /\ r # NoRetry => /\ r.hash \in Hashes /\ r.attempts \in 1..MaxFast
                             /\ r.age \in 0..Slow
                             /\ Interval(r) \in Fast..Slow
                             /\ r.attempts = MaxFast => Interval(r) = Slow
           /\ h # NoDown
  BY DEF Retries, Interval

LEMMA OlderFacts ==
    ASSUME NEW r \in Retries
    PROVE  /\ Older(r) \in Retries /\ Older(r) # NoRetry
           /\ Older(r).hash = r.hash /\ Older(r).attempts = r.attempts
           /\ Older(r).age = Least(r.age + 1, Slow)
           /\ Interval(Older(r)) = Interval(r)
  <1>1. Older(r) = [r EXCEPT !.age = Least(@ + 1, Slow)]
    BY DEF Older
  <1>2. Older(r) \in Retries
    BY <1>1 DEF Retries, Least
  <1> QED
    BY <1>1, <1>2 DEF Retries, Interval

\* A record that is due stays due.
LEMMA DueStays ==
    ASSUME NEW r \in Retries \cup {NoRetry}, NEW h, RetryDue(r, h)
    PROVE  RetryDue(Older(r), h)
  <1>1. CASE r = NoRetry
    BY <1>1 DEF Older
  <1>2. CASE r # NoRetry
    <2>1. r \in Retries /\ r.age \in 0..Slow /\ Interval(r) \in 0..Slow
      BY <1>2 DEF Retries, Interval
    <2>2. h # NoDown /\ (r.hash # h \/ r.age >= Interval(r))
      BY <1>2 DEF RetryDue
    <2>3. r.age >= Interval(r) => Least(r.age + 1, Slow) >= Interval(r)
      BY <2>1 DEF Least
    <2> QED
      BY <2>1, <2>2, <2>3, OlderFacts DEF RetryDue
  <1> QED
    BY <1>1, <1>2

\* Every write but those of the record itself keeps the record.
LEMMA SetReadyKeeps ==
    ASSUME TypeOK, CacheIsFresh, NEW x \in Reasons, SetReady(x)
    PROVE  api'.retry = api.retry /\ (~lag' => ~lag /\ api' = api)
  <1>1. cached \in Statuses /\ [cached EXCEPT !.reason = x].retry = cached.retry
    BY DEF TypeOK, Statuses
  <1> QED
    BY <1>1 DEF CacheIsFresh, SetReady, Write, NoWrite

LEMMA RecordKept ==
    ASSUME RetryInv, [Next]_vars
    PROVE  api'.retry = api.retry \/ Tick \/ Clear \/ SaveRetry
  <1> USE DEF world, status, queue, locals, history, bounds
  <1>1. CASE ReadyNoChange
    BY <1>1, SetReadyKeeps, ReasonsType DEF ReadyNoChange, ReadyAndReturn, RetryInv
  <1>2. CASE ReadyError
    BY <1>2, SetReadyKeeps, ReasonsType DEF ReadyError, ReadyAndReturn, RetryInv
  <1>3. CASE ReadySynced
    BY <1>3, SetReadyKeeps, ReasonsType DEF ReadySynced, RetryInv
  <1> QED
    BY <1>1, <1>2, <1>3 DEF vars, Next, Reconciling, Begin, Collect, NothingToSend, Send,
       PostSucceeds, CollectFails, PostFails, Deliver, PortStatus, PortChange, Edit, Crash

LEMMA TickAges ==
    ASSUME TypeOK, Tick
    PROVE  api'.retry = Older(api.retry) /\ cfg' = Older(cfg)
           /\ cached'.retry = Older(cached.retry)
           /\ (cached = api => cached' = api')
  BY StatusType, ReasonsType DEF TypeOK, Tick, Statuses

LEMMA FreshStep == RetryInv /\ [Next]_vars => CacheIsFresh'
  <1> SUFFICES ASSUME RetryInv, [Next]_vars PROVE CacheIsFresh'
    OBVIOUS
  <1> USE DEF world, status, queue, locals, history, bounds
  <1>1. CASE Clear
    BY <1>1 DEF RetryInv, CacheIsFresh, Clear, Write, NoWrite
  <1>2. CASE ReadyNoChange \/ ReadyError \/ ReadySynced
    BY <1>2 DEF RetryInv, CacheIsFresh, ReadyNoChange, ReadyError, ReadySynced, ReadyAndReturn,
                SetReady, Write, NoWrite
  <1>3. CASE SaveRetry
    BY <1>3 DEF RetryInv, CacheIsFresh, SaveRetry, Write
  <1>4. CASE Tick
    BY <1>4, TickAges DEF RetryInv, CacheIsFresh, Tick
  <1>5. CASE Deliver \/ Crash \/ Edit
    BY <1>5 DEF CacheIsFresh, Deliver, Crash, Edit
  <1> QED
    BY <1>1, <1>2, <1>3, <1>4, <1>5 DEF RetryInv, CacheIsFresh, vars, Next, Reconciling, Begin,
       Collect, NothingToSend, Send, PostSucceeds, CollectFails, PostFails, PortStatus, PortChange

LEMMA ReadStep == RetryInv /\ [Next]_vars => ReadIsCurrent'
  <1> SUFFICES ASSUME RetryInv, [Next]_vars PROVE ReadIsCurrent'
    OBVIOUS
  <1> USE DEF world, status, queue, locals, history, bounds
  <1>1. CASE Begin
    BY <1>1 DEF RetryInv, ReadIsCurrent, Begin
  <1>2. CASE Clear
    BY <1>2 DEF RetryInv, Decided, ReadIsCurrent, Clear
  <1>3. CASE SaveRetry \/ Crash
    BY <1>3 DEF ReadIsCurrent, SaveRetry, Return, Crash
  <1>4. CASE Tick
    BY <1>4, TickAges DEF RetryInv, ReadIsCurrent, Tick
  <1>5. CASE Collect
    BY <1>5 DEF RetryInv, ReadIsCurrent, Collect
  <1>6. CASE ReadyNoChange \/ ReadyError \/ ReadySynced
    <2>1. api'.retry = api.retry
      BY <1>6, SetReadyKeeps, ReasonsType DEF ReadyNoChange, ReadyError, ReadyAndReturn, ReadySynced, RetryInv
    <2> QED
      BY <1>6, <2>1 DEF RetryInv, ReadIsCurrent, ReadyNoChange, ReadyError, ReadyAndReturn, ReadySynced, Return
  <1> QED
    BY <1>1, <1>2, <1>3, <1>4, <1>5, <1>6 DEF RetryInv, ReadIsCurrent, vars, Next, Reconciling,
       NothingToSend, Send, PostSucceeds, CollectFails, PostFails, Deliver, PortStatus, PortChange, Edit

LEMMA MisreadStep == RetryInv /\ [Next]_vars => MisreadHasEvent'
  <1> SUFFICES ASSUME RetryInv, [Next]_vars PROVE MisreadHasEvent'
    OBVIOUS
  <1> USE DEF world, status, queue, locals, history, bounds
  <1>1. CASE Begin
    BY <1>1 DEF RetryInv, CacheIsFresh, MisreadHasEvent, Begin
  <1>2. CASE Clear
    BY <1>2 DEF RetryInv, MisreadHasEvent, Clear, Write, NoWrite
  <1>3. CASE ReadyNoChange \/ ReadyError \/ ReadySynced \/ SaveRetry
    BY <1>3 DEF RetryInv, MisreadHasEvent, ReadyNoChange, ReadyError, ReadyAndReturn, ReadySynced,
       SaveRetry, Return, SetReady, Write, NoWrite
  <1>4. CASE Deliver \/ Crash \/ Tick \/ Edit
    BY <1>4 DEF RetryInv, MisreadHasEvent, Deliver, Crash, Tick, Edit
  <1> QED
    BY <1>1, <1>2, <1>3, <1>4 DEF RetryInv, MisreadHasEvent, vars, Next, Reconciling, Collect,
       NothingToSend, Send, PostSucceeds, CollectFails, PostFails, PortStatus, PortChange

LEMMA DecidedStep == RetryInv /\ [Next]_vars => Decided'
  <1> SUFFICES ASSUME RetryInv, [Next]_vars PROVE Decided'
    OBVIOUS
  <1> USE DEF world, status, queue, locals, history, bounds
  <1>1. CASE Collect
    BY <1>1 DEF Decided, Collect
  <1>2. CASE Clear
    BY <1>2 DEF RetryInv, Decided, Clear
  <1>3. CASE NothingToSend
    BY <1>3 DEF RetryInv, Decided, NothingToSend, SomethingToSend
  <1>4. CASE Send
    BY <1>4 DEF RetryInv, Decided, Send, SomethingToSend
  <1>5. CASE Tick
    <2>1. RetryDue(cfg, seen) => RetryDue(cfg', seen)
      BY <1>5, TickAges, DueStays DEF RetryInv, TypeOK
    <2> QED
      BY <1>5, <2>1 DEF RetryInv, Decided, Tick
  <1>6. CASE ReadyNoChange \/ ReadyError \/ SaveRetry \/ Crash
    BY <1>6 DEF Decided, ReadyNoChange, ReadyError, ReadyAndReturn, SaveRetry, Crash, Return
  <1>7. CASE ReadySynced
    BY <1>7 DEF Decided, ReadySynced, Return
  <1>8. CASE Begin \/ PostSucceeds \/ CollectFails \/ PostFails
    BY <1>8 DEF Decided, Begin, PostSucceeds, CollectFails, PostFails
  <1> QED
    BY <1>1, <1>2, <1>3, <1>4, <1>5, <1>6, <1>7, <1>8 DEF RetryInv, Decided, vars, Next,
       Reconciling, Deliver, PortStatus, PortChange, Edit

LEMMA PendingStep == RetryInv /\ [Next]_vars => PendingIsLast'
  <1> SUFFICES ASSUME RetryInv, [Next]_vars PROVE PendingIsLast'
    OBVIOUS
  <1> USE DEF world, status, queue, locals, history, bounds, PendingIsLast, Pending
  <1>1. CASE PostSucceeds
    BY <1>1 DEF PostSucceeds
  <1>2. CASE ReadySynced
    BY <1>2 DEF RetryInv, ReadySynced, Return
  <1>3. CASE ReadyNoChange \/ ReadyError \/ SaveRetry \/ Crash
    BY <1>3 DEF ReadyNoChange, ReadyError, ReadyAndReturn, SaveRetry, Crash, Return
  <1>4. CASE Begin \/ Collect \/ Clear \/ NothingToSend \/ Send \/ CollectFails \/ PostFails
    BY <1>4 DEF Begin, Collect, Clear, NothingToSend, Send, CollectFails, PostFails
  <1>5. CASE Tick
    BY <1>5 DEF Tick
  <1> QED
    BY <1>1, <1>2, <1>3, <1>4, <1>5 DEF RetryInv, vars, Next, Reconciling, Deliver, PortStatus,
       PortChange, Edit

LEMMA NoneSentStep == RetryInv /\ [Next]_vars => NoneSent'
  BY DEF RetryInv, NoneSent, vars, world, status, queue, locals, history, bounds, Next,
     Reconciling, Begin, Collect, Clear, NothingToSend, Send, ReadyNoChange, ReadyError,
     ReadyAndReturn, ReadySynced, SaveRetry, PostSucceeds, CollectFails, PostFails, Deliver,
     Tick, PortStatus, PortChange, Edit, Crash

LEMMA RecordedStep == RetryInv /\ [Next]_vars => RecordedIsLast'
  <1> SUFFICES ASSUME RetryInv, [Next]_vars PROVE RecordedIsLast'
    OBVIOUS
  <1> USE DEF world, status, queue, locals, history, bounds
  <1>1. CASE SaveRetry
    <2>1. CASE faults' # faults
      BY <1>1, <2>1 DEF RetryInv, PendingIsLast, Pending, SaveRetry, RecordedIsLast
    <2>2. CASE faults' = faults
      <3> DEFINE new == NextRetry(cfg, seen)
      <3>1. api'.retry = new
        <4>1. api' = [cached EXCEPT !.retry = new]
          BY <1>1, <2>2 DEF RetryInv, TypeOK, SaveRetry, Write, Fault
        <4> QED
          BY <4>1 DEF RetryInv, TypeOK, Statuses
      <3>2. new \in Retries /\ new.hash = seen /\ new.age <= Second - 1
        <4>1. seen \in Hashes /\ clock \in 0..Second - 1 /\ cfg \in Retries \cup {NoRetry}
          BY <1>1 DEF RetryInv, SavesDown, TypeOK, SaveRetry
        <4>2. new.hash = seen /\ new.age = Least(clock, Slow)
          BY DEF NextRetry
        <4> QED
          BY <4>1, <4>2, NextRetryType DEF Least
      <3>3. sentHash' = seen /\ sentAgo' = 0
        BY <1>1 DEF RetryInv, PendingIsLast, Pending, SaveRetry
      <3> QED
        BY <3>1, <3>2, <3>3 DEF RecordedIsLast
    <2> QED
      BY <2>1, <2>2
  <1>2. CASE PostSucceeds
    BY <1>2 DEF RecordedIsLast, PostSucceeds
  <1>3. CASE Clear
    BY <1>3 DEF RetryInv, Decided, RecordedIsLast, Clear
  <1>4. CASE Tick
    <2> SUFFICES ASSUME saved, sentHash # NoDown
                 PROVE  /\ api'.retry # NoRetry /\ api'.retry.hash = sentHash
                        /\ api'.retry.age <= sentAgo' + (Second - 1)
      BY <1>4 DEF RecordedIsLast, Tick
    <2>1. /\ api.retry \in Retries /\ api.retry.hash = sentHash
          /\ api.retry.age <= sentAgo + (Second - 1)
      BY StatusType, ReasonsType DEF RetryInv, RecordedIsLast, TypeOK
    <2>2. /\ api'.retry # NoRetry /\ api'.retry.hash = sentHash
          /\ api'.retry.age = Least(api.retry.age + 1, Slow)
      BY <1>4, <2>1, TickAges, OlderFacts DEF RetryInv
    <2>3. api.retry.age \in Nat /\ sentAgo \in Nat /\ sentAgo' = Least(sentAgo + 1, Slow)
      BY <1>4, <2>1 DEF RetryInv, TypeOK, Retries, Tick
    <2> QED
      BY <2>1, <2>2, <2>3 DEF Least
  <1>5. CASE Collect
    BY <1>5 DEF RetryInv, RecordedIsLast, Collect
  <1>6. CASE api'.retry = api.retry /\ ~Tick /\ ~PostSucceeds /\ ~Collect /\ ~SaveRetry
    BY <1>6 DEF RetryInv, RecordedIsLast, vars, Next, Reconciling, Begin, Clear, NothingToSend,
       Send, ReadyNoChange, ReadyError, ReadyAndReturn, ReadySynced, CollectFails, PostFails,
       Deliver, PortStatus, PortChange, Edit, Crash
  <1> QED
    BY <1>1, <1>2, <1>3, <1>4, <1>5, <1>6, RecordKept

LEMMA CountedType ==
    ASSUME NEW r \in Retries \cup {NoRetry}, NEW h
    PROVE  Counted(r, h) \in 0..MaxFast /\ OneMore(r, h) \in 1..MaxFast
  <1>1. Counted(r, h) \in 0..MaxFast
    BY DEF Counted, Retries
  <1> QED
    BY <1>1 DEF OneMore, Least

LEMMA LeastType ==
    ASSUME NEW n \in Nat
    PROVE  Least(n + 1, MaxFast) \in Nat /\ 1 <= Least(n + 1, MaxFast)
  BY DEF Least

LEMMA CountedAges ==
    ASSUME NEW r \in Retries \cup {NoRetry}, NEW h
    PROVE  Counted(Older(r), h) = Counted(r, h) /\ OneMore(Older(r), h) = OneMore(r, h)
  <1>1. Counted(Older(r), h) = Counted(r, h)
    <2>1. CASE r = NoRetry
      BY <2>1 DEF Older
    <2>2. CASE r # NoRetry
      BY <2>2, OlderFacts DEF Counted
    <2> QED
      BY <2>1, <2>2
  <1> QED
    BY <1>1 DEF OneMore

\* Every attempt that is written is one more than the record it was made from.
LEMMA NextCounts ==
    ASSUME NEW r \in Retries \cup {NoRetry}, NEW h \in Hashes, clock \in 0..Second - 1
    PROVE  Counted(NextRetry(r, h), h) = OneMore(r, h)
  <1>1. NextRetry(r, h) # NoRetry /\ NextRetry(r, h).hash = h
    BY NextRetryType DEF NextRetry
  <1>2. Counted(NextRetry(r, h), h) = NextRetry(r, h).attempts
    BY <1>1 DEF Counted
  <1> QED
    BY <1>2 DEF NextRetry, OneMore, Counted, Least

LEMMA CountedStep == RetryInv /\ [Next]_vars => SendsAreCounted'
  <1> SUFFICES ASSUME RetryInv, [Next]_vars, sentHash' # NoDown
               PROVE  SendsAreCounted'
    BY DEF SendsAreCounted
  <1> USE DEF world, status, queue, locals, history, bounds
  <1>0. /\ Attempts \in 0..MaxFast /\ fastSends \in Nat /\ unsaved \in Nat
        /\ api.retry \in Retries \cup {NoRetry}
    <2>1. api.retry \in Retries \cup {NoRetry}
      BY StatusType, ReasonsType DEF RetryInv, TypeOK
    <2>2. Attempts \in 0..MaxFast
      BY <2>1, CountedType DEF Attempts
    <2>3. fastSends \in Nat
      BY DEF RetryInv, TypeOK, TooMany
    <2>4. unsaved \in Nat
      BY DEF RetryInv, TypeOK
    <2> QED
      BY <2>1, <2>2, <2>3, <2>4
  <1>1. CASE PostSucceeds
    <2>1. sentHash' = seen /\ seen # NoDown /\ Pending' /\ unsaved' = unsaved /\ api' = api
      BY <1>1 DEF PostSucceeds, Pending
    <2>2. ~Pending /\ pc = "post"
      BY <1>1 DEF PostSucceeds, Pending
    <2>3. Attempts' \in 0..MaxFast
      BY <1>0, <2>1, CountedType DEF Attempts
    <2>4. CASE seen # sentHash
      <3>1. fastSends' = 1
        BY <1>1, <2>1, <2>4 DEF PostSucceeds
      <3>2. Least(Attempts' + 1, MaxFast) \in Nat /\ 1 <= Least(Attempts' + 1, MaxFast)
        <4>1. Attempts' \in Nat
          BY <2>3
        <4> QED
          BY <4>1, LeastType
      <3>3. unsaved' \in Nat
        BY <1>0, <2>1
      <3> QED
        BY <2>1, <3>1, <3>2, <3>3 DEF SendsAreCounted
    <2>5. CASE seen = sentHash
      <3>1. Attempts' = Attempts
        BY <2>1, <2>5 DEF Attempts
      <3>2. fastSends <= Attempts + unsaved /\ (~saved => fastSends + 1 <= MaxFast + unsaved)
        BY <2>1, <2>2, <2>5 DEF RetryInv, SendsAreCounted
      <3>3. CASE FastRetry /\ ~misread
        <4>1. fastSends' = Least(fastSends + 1, TooMany)
          BY <1>1, <2>1, <2>5, <3>3 DEF PostSucceeds
        <4>2. Attempts = MaxFast => ~saved
          <5> SUFFICES ASSUME Attempts = MaxFast, saved PROVE FALSE
            OBVIOUS
          <5>1. RetryDue(api.retry, seen)
            BY <2>1, <2>2, <3>3 DEF RetryInv, Decided, ReadIsCurrent, FastRetry
          <5>2. /\ api.retry # NoRetry /\ api.retry.hash = seen
                /\ api.retry.attempts = MaxFast
            BY <2>5 DEF Attempts, Counted
          <5>3. Interval(api.retry) = Slow /\ api.retry.age \in Nat
            BY <1>0, <5>2 DEF Interval, Retries
          <5>4. api.retry.age >= Slow
            BY <5>1, <5>2, <5>3 DEF RetryDue
          <5>5. api.retry.age <= sentAgo + (Second - 1)
            BY <2>1, <2>5 DEF RetryInv, RecordedIsLast
          <5>6. sentAgo \in Nat
            BY DEF RetryInv, TypeOK
          <5> QED
            BY <3>3, <5>3, <5>4, <5>5, <5>6 DEF FastRetry
        <4>3. fastSends' <= Least(Attempts + 1, MaxFast) + unsaved
          BY <1>0, <3>2, <4>1, <4>2 DEF Least, TooMany
        <4> QED
          BY <2>1, <3>1, <4>3 DEF SendsAreCounted
      <3>4. CASE ~(FastRetry /\ ~misread)
        <4>1. fastSends' = fastSends
          BY <1>1, <2>1, <2>5, <3>4 DEF PostSucceeds
        <4>2. fastSends' <= Least(Attempts + 1, MaxFast) + unsaved
          BY <1>0, <3>2, <4>1 DEF Least
        <4> QED
          BY <2>1, <3>1, <4>2 DEF SendsAreCounted
      <3> QED
        BY <3>3, <3>4
    <2> QED
      BY <2>4, <2>5
  <1>2. CASE SaveRetry
    <2>1. /\ sentHash = seen /\ sentHash' = seen /\ ~saved /\ fastSends' = fastSends
          /\ pc = "save" /\ pc' = "idle" /\ seen # NoDown /\ Pending /\ ~Pending'
      BY <1>2 DEF RetryInv, PendingIsLast, Pending, SaveRetry, SavesDown, Return
    <2>2. fastSends <= Least(Attempts + 1, MaxFast) + unsaved
      BY <2>1 DEF RetryInv, SendsAreCounted
    <2>3. CASE faults' = faults
      <3>1. api' = [cached EXCEPT !.retry = NextRetry(cfg, seen)] /\ saved' = TRUE /\ unsaved' = unsaved
        BY <1>2, <2>3 DEF RetryInv, TypeOK, SaveRetry, Write, Fault
      <3>2. api'.retry = NextRetry(cfg, seen)
        BY <2>1, <3>1 DEF RetryInv, TypeOK, Statuses
      <3>3. Attempts' = OneMore(cfg, seen)
        BY <2>1, <3>2, NextCounts DEF RetryInv, TypeOK, Attempts
      <3>4. fastSends <= OneMore(cfg, seen) + unsaved
        BY <2>1 DEF RetryInv, OldIsOneBehind
      <3> QED
        BY <2>1, <3>1, <3>3, <3>4 DEF SendsAreCounted
    <2>4. CASE faults' # faults
      <3>1. api' = api /\ saved' = saved /\ unsaved' = unsaved + 1
        BY <1>2, <2>4 DEF SaveRetry, Write
      <3>2. Attempts' = Attempts
        BY <2>1, <3>1 DEF Attempts
      <3>3. fastSends <= Attempts + (unsaved + 1) /\ fastSends + 1 <= MaxFast + (unsaved + 1)
        BY <1>0, <2>2 DEF Least
      <3> QED
        BY <2>1, <3>1, <3>2, <3>3 DEF SendsAreCounted
    <2> QED
      BY <2>3, <2>4
  <1>3. CASE Crash
    <2>1. /\ Attempts' = Attempts /\ fastSends' = fastSends /\ saved' = saved /\ ~Pending'
          /\ sentHash' = sentHash
      BY <1>3 DEF Crash, Attempts, Pending
    <2>2. CASE Pending
      <3>1. fastSends <= Least(Attempts + 1, MaxFast) + unsaved /\ sentHash = seen
        BY <2>1, <2>2 DEF RetryInv, SendsAreCounted, PendingIsLast
      <3>2. unsaved' = unsaved + 1
        BY <1>3, <2>1, <2>2, <3>1 DEF Crash, Pending
      <3>3. fastSends <= Attempts + (unsaved + 1) /\ fastSends + 1 <= MaxFast + (unsaved + 1)
        BY <1>0, <3>1 DEF Least
      <3> QED
        BY <2>1, <3>2, <3>3 DEF SendsAreCounted
    <2>3. CASE ~Pending
      <3>1. unsaved' = unsaved
        BY <1>3, <2>3 DEF Crash, Pending
      <3> QED
        BY <2>1, <2>3, <3>1 DEF RetryInv, SendsAreCounted
    <2> QED
      BY <2>2, <2>3
  <1>4. CASE Tick
    <2>1. /\ pc' = pc /\ outcome' = outcome /\ sentHash' = sentHash /\ fastSends' = fastSends
          /\ unsaved' = unsaved /\ saved' = saved
      BY <1>4 DEF Tick
    <2>2. Attempts' = Attempts
      BY <1>0, <1>4, <2>1, TickAges, CountedAges DEF RetryInv, Attempts
    <2> QED
      BY <2>1, <2>2 DEF RetryInv, SendsAreCounted, Pending
  <1>5. CASE Clear
    BY <1>5 DEF RetryInv, Decided, Clear
  <1>6. CASE Collect
    BY <1>6 DEF RetryInv, SendsAreCounted, Attempts, Collect, Pending
  <1>7. CASE ReadySynced
    <2>1. /\ api'.retry = api.retry /\ sentHash' = sentHash /\ fastSends' = fastSends
          /\ unsaved' = unsaved /\ Pending /\ sentHash = seen
      BY <1>7, SetReadyKeeps, ReasonsType DEF RetryInv, PendingIsLast, Pending, ReadySynced
    <2>2. Pending' /\ Attempts' = Attempts
      BY <1>7, <2>1 DEF ReadySynced, Pending, Attempts
    <2> QED
      BY <2>1, <2>2 DEF RetryInv, SendsAreCounted
  <1>8. CASE api'.retry = api.retry /\ ~Tick /\ ~PostSucceeds /\ ~Collect /\ ~SaveRetry
             /\ ~Crash /\ ~ReadySynced
    <2>1. /\ sentHash' = sentHash /\ fastSends' = fastSends /\ unsaved' = unsaved
          /\ saved' = saved /\ (Pending' <=> Pending)
      BY <1>5, <1>8 DEF Pending, vars, Next, Reconciling, Begin, Clear, NothingToSend,
         Send, ReadyNoChange, ReadyError, ReadyAndReturn, Return, CollectFails, PostFails,
         Deliver, PortStatus, PortChange, Edit
    <2>2. Attempts' = Attempts
      BY <1>8, <2>1 DEF Attempts
    <2> QED
      BY <2>1, <2>2 DEF RetryInv, SendsAreCounted
  <1> QED
    BY <1>1, <1>2, <1>3, <1>4, <1>5, <1>6, <1>7, <1>8, RecordKept

LEMMA OneBehindStep == RetryInv /\ [Next]_vars => OldIsOneBehind'
  <1> SUFFICES ASSUME RetryInv, [Next]_vars, sentHash' # NoDown PROVE OldIsOneBehind'
    BY DEF OldIsOneBehind
  <1> USE DEF world, status, queue, locals, history, bounds
  <1>0. /\ fastSends \in Nat /\ unsaved \in Nat
        /\ api.retry \in Retries \cup {NoRetry} /\ cached.retry \in Retries \cup {NoRetry}
        /\ cfg \in Retries \cup {NoRetry}
    <2>1. fastSends \in Nat
      BY DEF RetryInv, TypeOK, TooMany
    <2>2. unsaved \in Nat /\ cfg \in Retries \cup {NoRetry}
      BY DEF RetryInv, TypeOK
    <2>3. api.retry \in Retries \cup {NoRetry} /\ cached.retry \in Retries \cup {NoRetry}
      BY StatusType, ReasonsType DEF RetryInv, TypeOK
    <2> QED
      BY <2>1, <2>2, <2>3
  <1>1. sentHash # NoDown => fastSends <= OneMore(api.retry, sentHash) + unsaved
    <2>1. Attempts \in 0..MaxFast
      BY <1>0, CountedType DEF Attempts
    <2> QED
      BY <1>0, <2>1 DEF RetryInv, SendsAreCounted, OneMore, Attempts, Least
  <1>2. CASE PostSucceeds
    <2>1. /\ sentHash' = seen /\ seen # NoDown /\ unsaved' = unsaved /\ pc = "post"
          /\ cached' = cached /\ api' = api /\ cfg' = cfg
      BY <1>2 DEF PostSucceeds
    <2>2. OneMore(cached.retry, seen) \in 1..MaxFast /\ OneMore(cfg, seen) \in 1..MaxFast
      BY <1>0, CountedType
    <2>3. CASE seen # sentHash
      <3>1. fastSends' = 1
        BY <1>2, <2>1, <2>3 DEF PostSucceeds
      <3> QED
        BY <1>0, <2>1, <2>2, <3>1 DEF OldIsOneBehind
    <2>4. CASE seen = sentHash /\ fastSends' = fastSends
      BY <2>1, <2>4 DEF RetryInv, OldIsOneBehind
    <2>5. CASE ~misread
      <3>1. cfg = api.retry /\ cached.retry = api.retry
        BY <2>1, <2>5 DEF RetryInv, ReadIsCurrent
      <3>2. SendsAreCounted' /\ Pending'
        BY <1>2, CountedStep DEF PostSucceeds, Pending
      <3>3. fastSends' <= OneMore(api.retry, seen) + unsaved
        BY <2>1, <3>2 DEF SendsAreCounted, OneMore, Attempts
      <3> QED
        BY <2>1, <3>1, <3>3 DEF OldIsOneBehind
    <2>6. seen # sentHash \/ fastSends' = fastSends \/ ~misread
      BY <1>2, <2>1 DEF PostSucceeds
    <2> QED
      BY <2>3, <2>4, <2>5, <2>6
  <1>3. CASE Deliver
    BY <1>1, <1>3 DEF RetryInv, OldIsOneBehind, Deliver
  <1>4. CASE Crash
    <2>1. /\ cached' = api /\ sentHash' = sentHash /\ fastSends' = fastSends /\ pc' = "idle"
          /\ unsaved' = unsaved \/ unsaved' = unsaved + 1
      BY <1>4 DEF Crash
    <2>2. OneMore(api.retry, sentHash) \in Nat
      BY <1>0, CountedType
    <2> QED
      BY <1>0, <1>1, <2>1, <2>2 DEF OldIsOneBehind
  <1>5. CASE Begin
    BY <1>5 DEF RetryInv, OldIsOneBehind, Begin
  <1>6. CASE Tick
    <2>1. /\ OneMore(cached'.retry, sentHash) = OneMore(cached.retry, sentHash)
          /\ OneMore(cfg', sentHash) = OneMore(cfg, sentHash)
      BY <1>0, <1>6, TickAges, CountedAges DEF RetryInv
    <2> QED
      BY <1>6, <2>1 DEF RetryInv, OldIsOneBehind, Tick
  <1>7. CASE SaveRetry
    <2>1. /\ cached' = cached /\ sentHash' = sentHash /\ fastSends' = fastSends /\ pc' = "idle"
          /\ unsaved' = unsaved \/ unsaved' = unsaved + 1
      BY <1>7 DEF SaveRetry, Return
    <2>2. OneMore(cached.retry, sentHash) \in Nat
      BY <1>0, CountedType
    <2> QED
      BY <1>0, <2>1, <2>2 DEF RetryInv, OldIsOneBehind
  <1>8. CASE Collect \/ Clear \/ NothingToSend \/ Send \/ CollectFails \/ PostFails
    BY <1>8 DEF RetryInv, OldIsOneBehind, Collect, Clear, NothingToSend, Send, CollectFails, PostFails
  <1>9. CASE ReadyNoChange \/ ReadyError \/ ReadySynced
    BY <1>9 DEF RetryInv, OldIsOneBehind, ReadyNoChange, ReadyError, ReadyAndReturn, ReadySynced, Return
  <1> QED
    BY <1>2, <1>3, <1>4, <1>5, <1>6, <1>7, <1>8, <1>9 DEF RetryInv, OldIsOneBehind, vars, Next,
       Reconciling, PortStatus, PortChange, Edit

\* What NoOversleep says, without the condition.
WakesInTime == wake # NoWake /\ wake <= RetryWait(api.retry, seen) + (Second - 1)

LEMMA OversleepStep == RetryInv /\ [Next]_vars => NoOversleep'
  <1> SUFFICES ASSUME RetryInv, [Next]_vars, ~(misread' /\ lag'),
                      pc' = "idle", ~queued', outcome' \in {"NoChange", "Synced"}, saved',
                      seen' # NoDown, api'.retry # NoRetry, api'.retry.hash = seen'
               PROVE  WakesInTime'
    BY DEF NoOversleep, WakesInTime
  <1> USE DEF world, status, queue, locals, history, bounds
  <1>0. /\ api.retry \in Retries \cup {NoRetry} /\ cfg \in Retries \cup {NoRetry}
        /\ seen \in Hashes \cup {NoDown}
        /\ wake \in (Nat \ {0}) \cup {NoWake}
    BY StatusType, ReasonsType DEF RetryInv, TypeOK
  <1>m. ~misread'
    BY MisreadStep DEF MisreadHasEvent
  <1>1. CASE ReadyNoChange
    <2>1. /\ pc = "ready" /\ outcome = "NoChange" /\ seen' = seen
          /\ wake' = IF wake = NoWake THEN NoChangeRequeue ELSE Least(wake, NoChangeRequeue)
      BY <1>1 DEF ReadyNoChange, ReadyAndReturn, Return
    <2>2. api'.retry = api.retry /\ cfg = api.retry
      BY <1>1, <1>m, <2>1, SetReadyKeeps, ReasonsType DEF RetryInv, ReadIsCurrent, ReadyNoChange, ReadyAndReturn
    <2>3. ~due /\ ~RetryDue(cfg, seen) /\ wait = RetryWait(cfg, seen)
      BY <2>1 DEF RetryInv, Decided
    <2>4. wait \in Nat /\ wait > 0
      BY <1>0, <2>1, <2>2, <2>3 DEF RetryWait, RetryDue, Interval, Retries
    <2>5. NoChangeRequeue = Least(wait, AdaptiveRequeue)
      BY <2>1, <2>3, <2>4 DEF NoChangeRequeue
    <2>6. AdaptiveRequeue \in Nat
      BY DEF AdaptiveRequeue
    <2>7. wake' \in Nat /\ wake' <= wait
      BY <1>0, <2>1, <2>4, <2>5, <2>6 DEF Least
    <2>8. RetryWait(api'.retry, seen') = wait
      BY <2>1, <2>2, <2>3
    <2> QED
      BY <2>4, <2>7, <2>8 DEF WakesInTime
  <1>2. CASE SaveRetry
    <2>1. faults' = faults /\ ~saved /\ seen' = seen
      BY <1>2 DEF RetryInv, PendingIsLast, Pending, SaveRetry, Return
    <2>2. api' = [cached EXCEPT !.retry = NextRetry(cfg, seen)]
      BY <1>2, <2>1 DEF RetryInv, TypeOK, SaveRetry, Write, Fault
    <2>3. api'.retry = NextRetry(cfg, seen)
      BY <2>2 DEF RetryInv, TypeOK, Statuses
    <2>4. NextRetry(cfg, seen) \in Retries
      BY <1>0, <2>1, NextRetryType DEF RetryInv, TypeOK
    <2>5. /\ api'.retry.age \in Nat /\ api'.retry.age <= Second - 1
          /\ Interval(api'.retry) \in Nat /\ Interval(api'.retry) >= Fast
      <3>1. NextRetry(cfg, seen).age = Least(clock, Slow) /\ clock \in 0..Second - 1
        BY DEF NextRetry, RetryInv, TypeOK
      <3> QED
        BY <2>3, <2>4, <3>1 DEF Retries, Interval, Least
    <2>6. Fast <= RetryWait(api'.retry, seen') + (Second - 1)
      BY <2>5 DEF RetryWait, RetryDue
    <2>7. wake' \in Nat /\ wake' <= Fast
      BY <1>0, <1>2 DEF SaveRetry, Return, Least
    <2>8. RetryWait(api'.retry, seen') \in Nat
      BY <2>5 DEF RetryWait, RetryDue
    <2> QED
      BY <2>6, <2>7, <2>8 DEF WakesInTime
  <1>3. CASE Tick
    <2>1. /\ pc = "idle" /\ seen' = seen /\ outcome' = outcome /\ saved' = saved /\ ~queued
          /\ wake # 1 /\ wake' = IF wake = NoWake THEN wake ELSE wake - 1
      BY <1>3 DEF Tick
    <2>2. /\ api'.retry = Older(api.retry) /\ api.retry \in Retries
          /\ api.retry.hash = seen
      <3>1. api'.retry = Older(api.retry)
        BY <1>3, TickAges DEF RetryInv
      <3>2. api.retry # NoRetry
        BY <3>1 DEF Older
      <3> QED
        BY <1>0, <2>1, <3>1, <3>2, OlderFacts
    <2>3. WakesInTime
      BY <1>3, <1>m, <2>1, <2>2 DEF RetryInv, NoOversleep, WakesInTime, Tick
    <2>4. wake \in Nat /\ wake >= 2 /\ wake' = wake - 1
      BY <1>0, <2>1, <2>3 DEF WakesInTime
    <2>5. /\ Interval(api'.retry) = Interval(api.retry) /\ Interval(api.retry) \in 0..Slow
          /\ api.retry.age \in 0..Slow /\ api'.retry.age = Least(api.retry.age + 1, Slow)
          /\ api'.retry.hash = seen /\ api'.retry # NoRetry
      BY <2>2, OlderFacts DEF Interval, Retries
    <2>6. RetryWait(api.retry, seen) \in Nat /\ RetryWait(api.retry, seen) <= RetryWait(api'.retry, seen) + 1
      BY <2>1, <2>2, <2>5 DEF RetryWait, RetryDue, Least
    <2>7. RetryWait(api'.retry, seen) \in Nat
      BY <2>1, <2>5 DEF RetryWait, RetryDue, Least
    <2>8. wake' <= RetryWait(api'.retry, seen) + (Second - 1)
      BY <2>3, <2>4, <2>6, <2>7 DEF WakesInTime
    <2> QED
      BY <2>1, <2>4, <2>8 DEF WakesInTime
  <1>4. CASE ReadySynced
    BY <1>4 DEF RetryInv, PendingIsLast, Pending, ReadySynced
  <1>5. CASE ReadyError
    BY <1>5 DEF ReadyError, ReadyAndReturn, Return
  <1>6. CASE Crash \/ Deliver \/ Begin \/ Collect \/ Clear \/ NothingToSend \/ Send
             \/ PostSucceeds \/ CollectFails \/ PostFails
    BY <1>6 DEF Crash, Deliver, Begin, Collect, Clear, NothingToSend, Send, PostSucceeds,
       CollectFails, PostFails
  <1>7. CASE UNCHANGED vars \/ PortChange \/ Edit \/ \E h \in Hashes \cup {NoDown} : PortStatus(h)
    BY <1>m, <1>7 DEF RetryInv, NoOversleep, WakesInTime, vars, PortStatus, PortChange, Edit
  <1> QED
    BY <1>1, <1>2, <1>3, <1>4, <1>5, <1>6, <1>7 DEF Next, Reconciling

----------------------------------------------------------------------------
(* What holds of the retries.                                              *)

LEMMA RetryInvInit == Init => RetryInv
  <1> SUFFICES ASSUME Init PROVE RetryInv
    OBVIOUS
  <1>1. TypeOK
    BY InitTyped
  <1>2. CacheIsFresh /\ ReadIsCurrent /\ Decided /\ SavesDown /\ NoneSent
    BY DEF Init, CacheIsFresh, ReadIsCurrent, Decided, SavesDown, NoneSent
  <1>4. MisreadHasEvent /\ OldIsOneBehind
    BY DEF Init, MisreadHasEvent, OldIsOneBehind
  <1>3. PendingIsLast /\ RecordedIsLast /\ SendsAreCounted /\ NoOversleep
    BY DEF Init, PendingIsLast, Pending, RecordedIsLast, SendsAreCounted, NoOversleep
  <1> QED
    BY <1>1, <1>2, <1>3, <1>4 DEF RetryInv

LEMMA RetryInvStep == RetryInv /\ [Next]_vars => RetryInv'
  <1> SUFFICES ASSUME RetryInv, [Next]_vars PROVE RetryInv'
    OBVIOUS
  <1>1. TypeOK' /\ SavesDown'
    BY TypeStep, SavesDownStep DEF RetryInv
  <1> QED
    BY <1>1, FreshStep, ReadStep, DecidedStep, PendingStep, NoneSentStep, RecordedStep,
       CountedStep, OversleepStep, MisreadStep, OneBehindStep DEF RetryInv

LEMMA RetryInvHolds == Spec => []RetryInv
  <1>1. RetryInv /\ [Next]_vars => RetryInv'
    BY RetryInvStep
  <1> QED
    BY <1>1, RetryInvInit, PTL DEF Spec

(* No more requests for one set of DOWN ports come at less than the slow   *)
(* interval than the maximum and the attempts that were not written, not   *)
(* counting those decided on a record that was old when it was read, for   *)
(* any number of ports, any intervals and any number of failures, edits,   *)
(* kills and late watch events.                                            *)
THEOREM RetriesAreBounded == Spec => []FastRetriesBounded
  <1>1. RetryInv => FastRetriesBounded
    <2> SUFFICES ASSUME RetryInv PROVE fastSends <= MaxFast + unsaved
      BY DEF FastRetriesBounded
    <2>1. fastSends \in Nat /\ unsaved \in Nat
      BY DEF RetryInv, TypeOK, TooMany
    <2>2. Attempts \in 0..MaxFast
      <3>1. api.retry \in Retries \cup {NoRetry}
        BY StatusType, ReasonsType DEF RetryInv, TypeOK
      <3> QED
        BY <3>1, CountedType DEF Attempts
    <2>3. CASE sentHash = NoDown
      BY <2>1, <2>3 DEF RetryInv, NoneSent
    <2>4. CASE sentHash # NoDown /\ Pending
      BY <2>1, <2>2, <2>4 DEF RetryInv, SendsAreCounted, Least
    <2>5. CASE sentHash # NoDown /\ ~Pending
      BY <2>1, <2>2, <2>5 DEF RetryInv, SendsAreCounted
    <2> QED
      BY <2>3, <2>4, <2>5
  <1> QED
    BY <1>1, RetryInvHolds, PTL

(* The next Reconcile never comes later than the retry is due, but for the *)
(* second that a stored time loses, or the event of a newer record than the*)
(* one that was read is on its way and starts it.                          *)
THEOREM RetriesAreNotSleptOver == Spec => []NoOversleep
  <1>1. RetryInv => NoOversleep
    BY DEF RetryInv
  <1> QED
    BY <1>1, RetryInvHolds, PTL

(* The same DOWN ports are not sent again before the fast interval has     *)
(* passed, whatever started Reconcile, unless it read the record before its*)
(* own last write of it had reached the cache.                             *)
THEOREM RetriesKeepTheirDistance == Spec => ResendSpacing
  <1>1. RetryInv /\ [Next]_vars => [SendsAgain /\ ~misread => sentAgo + (Second - 1) >= Fast]_vars
    <2> SUFFICES ASSUME RetryInv, [Next]_vars, SendsAgain, ~misread
                 PROVE  sentAgo + (Second - 1) >= Fast
      OBVIOUS
    <2> USE DEF world, status, queue, locals, history, bounds
    <2>1. Send
      BY DEF SendsAgain, vars, Next, Reconciling, Begin, Collect, Clear, NothingToSend,
         ReadyNoChange, ReadyError, ReadyAndReturn, ReadySynced, SaveRetry, Return,
         PostSucceeds, CollectFails, PostFails, Deliver, Tick, PortStatus, PortChange, Edit, Crash
    <2>2. /\ pc = "decide" /\ ~toSend /\ saved /\ seen = sentHash /\ seen # NoDown /\ due
      BY <2>1 DEF SendsAgain, Send, SomethingToSend
    <2>3. RetryDue(api.retry, seen)
      BY <2>2 DEF RetryInv, Decided, ReadIsCurrent
    <2>4. /\ api.retry # NoRetry /\ api.retry.hash = seen
          /\ api.retry.age <= sentAgo + (Second - 1)
      BY <2>2 DEF RetryInv, RecordedIsLast
    <2>5. api.retry \in Retries /\ sentAgo \in Nat
      <3>1. api.retry \in Retries \cup {NoRetry}
        BY StatusType, ReasonsType DEF RetryInv, TypeOK
      <3>2. sentAgo \in Nat
        BY DEF RetryInv, TypeOK
      <3> QED
        BY <2>4, <3>1, <3>2
    <2>6. api.retry.age \in Nat /\ Interval(api.retry) >= Fast /\ Interval(api.retry) \in Nat
      BY <2>5 DEF Retries, Interval
    <2>7. api.retry.age >= Interval(api.retry)
      BY <2>3, <2>4 DEF RetryDue
    <2> QED
      BY <2>4, <2>5, <2>6, <2>7
  <1> QED
    BY <1>1, RetryInvHolds, PTL DEF Spec, ResendSpacing
=============================================================================
