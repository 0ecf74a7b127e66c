--------------------------- MODULE ViolaApiProofs ---------------------------
(***************************************************************************)
(* Proofs about ViolaApi: its types; that a request is refused as a whole; *)
(* that a config is only where the route of its provider says; what an     *)
(* answer of 200 is worth; and that the API implements AppliedConfigs.     *)
(* They hold for any routing files, any number of requests at the same     *)
(* time, and any kills.                                                    *)
(***************************************************************************)
EXTENDS ViolaApi, SequenceTheorems, TLAPS

\* The requests that were not sent are those without a body.
Posted == \A q \in Requests : pc[q] = "unsent" <=> request[q] = NoRequest

Unstarted ==
    \A q \in Requests : pc[q] \in {"unsent", "received"} => next[q] = 1 /\ answer[q] = "none"

\* kubectl only runs for requests that passed the checks.
Accepted ==
    \A q \in Requests : pc[q] \in {"applying", "orphan"} =>
        /\ Acceptable(q) /\ answer[q] # "400"
        /\ next[q] \in 1..Len(DocsOf(q)) + 1

\* Where an object comes from.
FromDoc(x) ==
    LET o == objects[x] IN
    /\ pc[o.by] \notin {"unsent", "received"} /\ answer[o.by] # "400"
    /\ Acceptable(o.by)
    /\ o.doc \in 1..Len(DocsOf(o.by)) /\ x = PlaceOf(o.by, o.doc)
    /\ o.provider = request[o.by].provider

ObjectsFromDocs == \A x \in Places : objects[x] # NoObject => FromDoc(x)

Overlapping == \A q, o \in Running : q # o => o \in overlap[q]

\* What kubectl has applied so far is there, or something that overlapped.
Holds(q, j) ==
    LET o == objects[PlaceOf(q, j)] IN
    /\ o # NoObject
    /\ \/ o.by \in overlap[q]
       \/ /\ o.by = q /\ o.doc \in 1..next[q] - 1
          /\ PlaceOf(q, o.doc) = PlaceOf(q, j)
          /\ \A m \in o.doc + 1..next[q] - 1 : PlaceOf(q, m) # PlaceOf(q, j)

AppliedSoFar ==
    \A q \in Requests : pc[q] = "applying" /\ ~failed[q] =>
        \A j \in 1..next[q] - 1 : Holds(q, j)

ApiInv ==
    /\ TypeOK /\ Posted /\ Unstarted /\ Accepted
    /\ ObjectsFromDocs /\ Overlapping /\ AppliedSoFar

USE ViolaAssumption, ViolaNilAssumption

----------------------------------------------------------------------------
(* Requests, their documents and their targets.                            *)

LEMMA PostsType ==
    ASSUME TypeOK, NEW q \in Requests, request[q] # NoRequest
    PROVE  /\ request[q] \in Posts
           /\ request[q].provider \in Providers \cup {NoProvider}
           /\ request[q].body \in Bodies
  BY DEF TypeOK, Posts

\* A manifest has all documents of the body, all with names, or none.
LEMMA ManifestType ==
    ASSUME NEW body \in Bodies
    PROVE  /\ Manifest(body) \in Seq(Docs)
           /\ Len(Manifest(body)) \in Nat
           /\ DOMAIN Manifest(body) = 1..Len(Manifest(body))
           /\ \A j \in 1..Len(Manifest(body)) :
                 /\ Manifest(body)[j] \in Docs
                 /\ Manifest(body)[j].nodeName \in NodeNames
                 /\ Manifest(body)[j].interfaces \in Ifaces
  <1>1. body \in Seq(Docs)
    OBVIOUS
  <1>2. CASE \E j \in DOMAIN body : body[j].nodeName = Blank
    <2>1. Manifest(body) = <<>>
      BY <1>2 DEF Manifest
    <2> QED
      BY <2>1
  <1>3. CASE \A j \in DOMAIN body : body[j].nodeName # Blank
    <2>1. Manifest(body) = body
      BY <1>3 DEF Manifest
    <2>2. \A j \in 1..Len(body) : body[j] \in Docs /\ body[j].nodeName # Blank
      BY <1>1, <1>3, ElementOfSeq, LenProperties
    <2>3. \A d \in Docs : d.nodeName \in NodeNames \cup {Blank} /\ d.interfaces \in Ifaces
      BY DEF Docs
    <2> QED
      BY <1>1, <2>1, <2>2, <2>3, LenProperties
  <1> QED
    BY <1>2, <1>3

LEMMA DocsType ==
    ASSUME TypeOK, NEW q \in Requests, request[q] # NoRequest
    PROVE  /\ Len(DocsOf(q)) \in Nat
           /\ DOMAIN DocsOf(q) = 1..Len(DocsOf(q))
           /\ \A j \in 1..Len(DocsOf(q)) : /\ DocsOf(q)[j].nodeName \in NodeNames
                                          /\ DocsOf(q)[j].interfaces \in Ifaces
  BY PostsType, ManifestType DEF DocsOf

LEMMA PlaceType ==
    ASSUME TypeOK, NEW q \in Requests, request[q] # NoRequest, Acceptable(q),
           NEW j \in 1..Len(DocsOf(q))
    PROVE  PlaceOf(q, j) \in Places
  <1>1. Address(Target(q)) \in Addresses
    <2>1. routing \in Files /\ request[q].provider \in Providers \cup {NoProvider}
      BY PostsType DEF TypeOK
    <2>2. Targets[routing][request[q].provider] # NoTarget
      BY DEF Acceptable, Target
    <2> QED
      BY <2>1, <2>2 DEF Addresses, Target
  <1>2. Sanitized[DocsOf(q)[j].nodeName] \in {Sanitized[n] : n \in NodeNames}
    BY DocsType
  <1> QED
    BY <1>1, <1>2 DEF PlaceOf, Places

LEMMA SameRequest ==
    ASSUME NEW q \in Requests, routing' = routing, request'[q] = request[q]
    PROVE  /\ DocsOf(q)' = DocsOf(q) /\ Target(q)' = Target(q)
           /\ Acceptable(q)' <=> Acceptable(q)
           /\ \A j : PlaceOf(q, j)' = PlaceOf(q, j)
  <1>1. DocsOf(q)' = DocsOf(q) /\ Target(q)' = Target(q)
    BY DEF DocsOf, Target
  <1> QED
    BY <1>1 DEF Acceptable, PlaceOf

\* A request keeps its body, and is never unsent again.
LEMMA RequestKept ==
    ASSUME TypeOK, Posted, [Next]_vars
    PROVE  /\ routing' = routing
           /\ \A q \in Requests : pc[q] # "unsent" =>
                 request'[q] = request[q] /\ pc'[q] # "unsent"
  <1>1. ASSUME NEW q \in Requests, NEW p, NEW body, Post(q, p, body)
        PROVE  /\ routing' = routing
               /\ \A o \in Requests : pc[o] # "unsent" =>
                     request'[o] = request[o] /\ pc'[o] # "unsent"
    BY <1>1 DEF TypeOK, Post
  <1>2. ASSUME NEW q \in Requests, Accept(q) \/ Reject(q) \/ Answer(q) \/ ApplyDoc(q) \/ RefuseDoc(q)
        PROVE  /\ routing' = routing /\ request' = request
               /\ \A o \in Requests : pc[o] # "unsent" => pc'[o] # "unsent"
    BY <1>2 DEF TypeOK, Accept, Reject, Answer, ApplyDoc, RefuseDoc
  <1>3. ASSUME NEW q \in Requests, Kill(q) \/ ApplyLate(q)
        PROVE  /\ routing' = routing /\ request' = request
               /\ \A o \in Requests : pc[o] # "unsent" => pc'[o] # "unsent"
    BY <1>3 DEF TypeOK, Kill, ApplyLate
  <1>4. CASE Crash
    BY <1>4 DEF TypeOK, Crash
  <1>5. CASE UNCHANGED vars
    BY <1>5 DEF vars
  <1> QED
    BY <1>1, <1>2, <1>3, <1>4, <1>5 DEF Next

----------------------------------------------------------------------------
(* Types.                                                                  *)

LEMMA ApplyType ==
    ASSUME TypeOK, Posted, Accepted, NEW q \in Running, Apply(q)
    PROVE  /\ objects' \in [Places -> Objects \cup {NoObject}]
           /\ next' \in [Requests -> Nat \ {0}]
  <1>1. q \in Requests /\ request[q] # NoRequest /\ Acceptable(q)
    BY DEF Running, Posted, Accepted
  <1>2. next[q] \in 1..Len(DocsOf(q))
    BY <1>1, DocsType DEF Apply, TypeOK
  <1>3. PlaceOf(q, next[q]) \in Places
    BY <1>1, <1>2, PlaceType
  <1>4. [nodeName |-> DocsOf(q)[next[q]].nodeName,
         provider |-> request[q].provider,
         interfaces |-> DocsOf(q)[next[q]].interfaces,
         by |-> q, doc |-> next[q]] \in Objects
    BY <1>1, <1>2, DocsType, PostsType DEF Objects
  <1>5. objects' \in [Places -> Objects \cup {NoObject}]
    BY <1>4 DEF Apply, TypeOK
  <1>6. next' \in [Requests -> Nat \ {0}]
    BY <1>1 DEF Apply, TypeOK
  <1> QED
    BY <1>5, <1>6

LEMMA InitTyped == Init => TypeOK
  BY DEF Init, TypeOK

LEMMA TypeStep == TypeOK /\ Posted /\ Accepted /\ [Next]_vars => TypeOK'
  <1> SUFFICES ASSUME TypeOK, Posted, Accepted, [Next]_vars PROVE TypeOK'
    OBVIOUS
  <1>1. ASSUME NEW q \in Requests, pc[q] \in {"applying", "orphan"} \/ Acceptable(q)
        PROVE  Target(q) # NoTarget /\ Target(q).mode \in {"local", "ssh"}
    BY <1>1 DEF Accepted, Acceptable, ValidTarget
  <1>2. \A q \in Requests : pc[q] # "unsent" => Target(q)' = Target(q)
    BY RequestKept, SameRequest
  <1>3. ASSUME NEW q \in Requests, NEW p \in Providers \cup {NoProvider}, NEW body \in Bodies,
               Post(q, p, body)
        PROVE  TypeOK'
    <2>1. request' \in [Requests -> Posts \cup {NoRequest}]
      BY <1>3 DEF Post, TypeOK, Posts
    <2>2. /\ pc' \in [Requests -> {"unsent", "received", "applying", "orphan", "done"}]
          /\ \A o \in Requests : pc'[o] \in {"applying", "orphan"} => pc[o] \in {"applying", "orphan"}
      BY <1>3 DEF Post, TypeOK
    <2>3. \A o \in Requests : pc'[o] \in {"applying", "orphan"} =>
             Target(o)' # NoTarget /\ Target(o)'.mode \in {"local", "ssh"}
      BY <1>1, <1>2, <2>2
    <2> QED
      BY <1>3, <2>1, <2>2, <2>3 DEF Post, TypeOK
  <1>4. ASSUME NEW q \in Requests, Accept(q)
        PROVE  TypeOK'
    <2>1. /\ pc' \in [Requests -> {"unsent", "received", "applying", "orphan", "done"}]
          /\ \A o \in Requests : pc'[o] \in {"applying", "orphan"} => o = q \/ pc[o] \in {"applying", "orphan"}
      BY <1>4 DEF Accept, TypeOK
    <2>2. overlap' \in [Requests -> SUBSET Requests]
      BY <1>4 DEF Accept, TypeOK, Running
    <2>3. \A o \in Requests : pc'[o] \in {"applying", "orphan"} =>
             Target(o)' # NoTarget /\ Target(o)'.mode \in {"local", "ssh"}
      BY <1>1, <1>2, <1>4, <2>1 DEF Accept
    <2> QED
      BY <1>4, <2>1, <2>2, <2>3 DEF Accept, TypeOK
  <1>5. ASSUME NEW q \in Requests, Reject(q) \/ RefuseDoc(q) \/ Answer(q) \/ Kill(q)
        PROVE  TypeOK'
    <2>1. /\ pc' \in [Requests -> {"unsent", "received", "applying", "orphan", "done"}]
          /\ \A o \in Requests : pc'[o] \in {"applying", "orphan"} => pc[o] \in {"applying", "orphan"}
      <3>1. CASE RefuseDoc(q)
        BY <3>1 DEF RefuseDoc, TypeOK
      <3>2. CASE Reject(q) \/ Answer(q)
        <4>1. pc' = [pc EXCEPT ![q] = "done"]
          BY <3>2 DEF Reject, Answer
        <4> QED
          BY <4>1 DEF TypeOK
      <3>3. CASE Kill(q)
        <4>1. PICK l \in {"orphan", "done"} : pc' = [pc EXCEPT ![q] = l]
          BY <3>3 DEF Kill
        <4>2. pc[q] = "applying"
          BY <3>3 DEF Kill
        <4> QED
          BY <4>1, <4>2 DEF TypeOK
      <3> QED
        BY <1>5, <3>1, <3>2, <3>3
    <2>2. answer' \in [Requests -> {"none", "lost", "200", "400", "500"}]
      BY <1>5 DEF Reject, RefuseDoc, Answer, Kill, TypeOK
    <2>3. next' \in [Requests -> Nat \ {0}] /\ faults' \in 0..MaxFaults /\ crashes' \in 0..MaxCrashes
      BY <1>5 DEF Reject, RefuseDoc, Answer, Kill, Fault, TypeOK
    <2>4. failed' \in [Requests -> BOOLEAN]
      BY <1>5 DEF Reject, RefuseDoc, Answer, Kill, TypeOK
    <2>5. \A o \in Requests : pc'[o] \in {"applying", "orphan"} =>
             Target(o)' # NoTarget /\ Target(o)'.mode \in {"local", "ssh"}
      BY <1>1, <1>2, <2>1
    <2> QED
      BY <1>5, <2>1, <2>2, <2>3, <2>4, <2>5 DEF Reject, RefuseDoc, Answer, Kill, TypeOK
  <1>6. ASSUME NEW q \in Requests, ApplyDoc(q) \/ ApplyLate(q)
        PROVE  TypeOK'
    <2>1. q \in Running /\ Apply(q)
      BY <1>6 DEF ApplyDoc, ApplyLate, Running
    <2>2. /\ pc' \in [Requests -> {"unsent", "received", "applying", "orphan", "done"}]
          /\ \A o \in Requests : pc'[o] \in {"applying", "orphan"} => pc[o] \in {"applying", "orphan"}
      BY <1>6 DEF ApplyDoc, ApplyLate, TypeOK
    <2>3. \A o \in Requests : pc'[o] \in {"applying", "orphan"} =>
             Target(o)' # NoTarget /\ Target(o)'.mode \in {"local", "ssh"}
      BY <1>1, <1>2, <2>2
    <2> QED
      BY <1>6, <2>1, <2>2, <2>3, ApplyType DEF ApplyDoc, ApplyLate, TypeOK
  <1>7. CASE Crash
    <2>1. /\ pc' \in [Requests -> {"unsent", "received", "applying", "orphan", "done"}]
          /\ \A o \in Requests : pc'[o] \in {"applying", "orphan"} => pc[o] \in {"applying", "orphan"}
      BY <1>7 DEF Crash, TypeOK
    <2>2. answer' \in [Requests -> {"none", "lost", "200", "400", "500"}]
      BY <1>7 DEF Crash, TypeOK
    <2>3. \A o \in Requests : pc'[o] \in {"applying", "orphan"} =>
             Target(o)' # NoTarget /\ Target(o)'.mode \in {"local", "ssh"}
      BY <1>1, <1>2, <2>1
    <2> QED
      BY <1>7, <2>1, <2>2, <2>3 DEF Crash, TypeOK
  <1>8. CASE UNCHANGED vars
    BY <1>8 DEF vars, TypeOK, Target
  <1> QED
    BY <1>3, <1>4, <1>5, <1>6, <1>7, <1>8 DEF Next

----------------------------------------------------------------------------
(* Where each request is.                                                  *)

LEMMA PostedStep == TypeOK /\ Posted /\ [Next]_vars => Posted'
  <1> SUFFICES ASSUME TypeOK, Posted, [Next]_vars PROVE Posted'
    OBVIOUS
  <1>1. ASSUME NEW q \in Requests, NEW p \in Providers \cup {NoProvider}, NEW body \in Bodies,
               Post(q, p, body)
        PROVE  Posted'
    <2>1. request'[q] \in Posts /\ pc'[q] # "unsent"
      BY <1>1 DEF Post, TypeOK, Posts
    <2>2. \A o \in Requests : o # q => request'[o] = request[o] /\ pc'[o] = pc[o]
      BY <1>1 DEF Post, TypeOK
    <2> QED
      BY <2>1, <2>2 DEF Posted
  <1>2. ASSUME \A q \in Requests : pc'[q] = "unsent" <=> pc[q] = "unsent", request' = request
        PROVE  Posted'
    BY <1>2 DEF Posted
  <1>3. ASSUME NEW q \in Requests, Accept(q) \/ Reject(q) \/ Answer(q) \/ ApplyDoc(q) \/ RefuseDoc(q)
        PROVE  Posted'
    BY <1>2, <1>3 DEF TypeOK, Accept, Reject, Answer, ApplyDoc, RefuseDoc
  <1>4. ASSUME NEW q \in Requests, Kill(q) \/ ApplyLate(q)
        PROVE  Posted'
    BY <1>2, <1>4 DEF TypeOK, Kill, ApplyLate
  <1>5. CASE Crash
    BY <1>2, <1>5 DEF TypeOK, Crash
  <1>6. CASE UNCHANGED vars
    BY <1>2, <1>6 DEF vars
  <1> QED
    BY <1>1, <1>3, <1>4, <1>5, <1>6 DEF Next

LEMMA UnstartedStep == TypeOK /\ Unstarted /\ [Next]_vars => Unstarted'
  <1> SUFFICES ASSUME TypeOK, Unstarted, [Next]_vars PROVE Unstarted'
    OBVIOUS
  <1>1. ASSUME NEW q \in Requests, NEW p, NEW body, Post(q, p, body)
        PROVE  Unstarted'
    BY <1>1 DEF Unstarted, Post, TypeOK
  <1>2. ASSUME NEW q \in Requests, Accept(q) \/ Reject(q) \/ Answer(q) \/ RefuseDoc(q)
        PROVE  Unstarted'
    BY <1>2 DEF Unstarted, TypeOK, Accept, Reject, Answer, RefuseDoc
  <1>3. ASSUME NEW q \in Requests, Kill(q) \/ ApplyDoc(q) \/ ApplyLate(q)
        PROVE  Unstarted'
    BY <1>3 DEF Unstarted, TypeOK, Kill, ApplyDoc, ApplyLate, Apply
  <1>4. CASE Crash
    BY <1>4 DEF Unstarted, TypeOK, Crash
  <1>5. CASE UNCHANGED vars
    BY <1>5 DEF Unstarted, vars
  <1> QED
    BY <1>1, <1>2, <1>3, <1>4, <1>5 DEF Next

LEMMA AcceptedStep == TypeOK /\ Posted /\ Unstarted /\ Accepted /\ [Next]_vars => Accepted'
  <1> SUFFICES ASSUME TypeOK, Posted, Unstarted, Accepted, [Next]_vars,
                      NEW o \in Requests, pc'[o] \in {"applying", "orphan"}
               PROVE  /\ Acceptable(o)' /\ answer'[o] # "400"
                      /\ next'[o] \in 1..Len(DocsOf(o))' + 1
    BY DEF Accepted
  <1>1. ASSUME pc[o] # "unsent", Acceptable(o), answer'[o] # "400",
               next'[o] \in 1..Len(DocsOf(o)) + 1
        PROVE  /\ Acceptable(o)' /\ answer'[o] # "400"
               /\ next'[o] \in 1..Len(DocsOf(o))' + 1
    BY <1>1, RequestKept, SameRequest
  <1>2. ASSUME NEW q \in Requests, NEW p, NEW body, Post(q, p, body)
        PROVE  pc[o] \in {"applying", "orphan"} /\ answer' = answer /\ next' = next
    BY <1>2 DEF Post, TypeOK
  <1>3. ASSUME NEW q \in Requests, Accept(q)
        PROVE  /\ pc[o] # "unsent" /\ Acceptable(o) /\ answer'[o] # "400"
               /\ next'[o] \in 1..Len(DocsOf(o)) + 1
    <2>1. CASE o = q
      <3>1. pc[o] = "received" /\ Acceptable(o) /\ answer'[o] = answer[o] /\ next'[o] = next[o]
        BY <1>3, <2>1 DEF Accept
      <3>2. request[o] # NoRequest
        BY <3>1 DEF Posted
      <3> QED
        BY <3>1, <3>2, DocsType DEF Unstarted
    <2>2. CASE o # q
      BY <1>3, <2>2 DEF Accept, TypeOK, Accepted
    <2> QED
      BY <2>1, <2>2
  <1>4. ASSUME NEW q \in Requests, Reject(q) \/ Answer(q) \/ Kill(q)
        PROVE  pc[o] \in {"applying", "orphan"} /\ answer'[o] # "400" /\ next' = next
    <2>1. pc[o] \in {"applying", "orphan"} /\ next' = next
      BY <1>4 DEF Reject, Answer, Kill, TypeOK
    <2>2. CASE Reject(q)
      BY <2>1, <2>2 DEF Reject, TypeOK, Accepted
    <2>3. CASE Answer(q) \/ Kill(q)
      BY <2>1, <2>3 DEF Answer, Kill, TypeOK, Accepted
    <2> QED
      BY <1>4, <2>1, <2>2, <2>3
  <1>5. ASSUME NEW q \in Requests, ApplyDoc(q) \/ ApplyLate(q) \/ RefuseDoc(q)
        PROVE  /\ pc[o] \in {"applying", "orphan"} /\ answer'[o] # "400"
               /\ next'[o] \in 1..Len(DocsOf(o)) + 1
    <2>1. pc[o] \in {"applying", "orphan"} /\ answer' = answer
      BY <1>5 DEF ApplyDoc, ApplyLate, RefuseDoc, TypeOK
    <2>2. /\ next[q] <= Len(DocsOf(q)) /\ next' = [next EXCEPT ![q] = @ + 1]
      BY <1>5 DEF ApplyDoc, ApplyLate, Apply, RefuseDoc
    <2>3. next[o] \in 1..Len(DocsOf(o)) + 1 /\ Len(DocsOf(o)) \in Nat /\ answer[o] # "400"
      BY <2>1, DocsType DEF Posted, Accepted
    <2>4. next'[o] \in 1..Len(DocsOf(o)) + 1
      BY <2>2, <2>3 DEF TypeOK
    <2> QED
      BY <2>1, <2>3, <2>4
  <1>6. CASE Crash
    <2>1. pc[o] \in {"applying", "orphan"} /\ answer'[o] # "400" /\ next' = next
      BY <1>6 DEF Crash, TypeOK, Accepted
    <2> QED
      BY <1>1, <2>1 DEF Accepted
  <1>7. CASE UNCHANGED vars
    BY <1>1, <1>7 DEF vars, Accepted
  <1>8. ASSUME pc[o] \in {"applying", "orphan"}
        PROVE  pc[o] # "unsent" /\ Acceptable(o) /\ answer[o] # "400" /\ next[o] \in 1..Len(DocsOf(o)) + 1
    BY <1>8 DEF Accepted
  <1> QED
    BY <1>1, <1>2, <1>3, <1>4, <1>5, <1>6, <1>7, <1>8 DEF Next

----------------------------------------------------------------------------
(* Where each object is from.                                              *)

LEMMA FromDocStays ==
    ASSUME TypeOK, Posted, [Next]_vars, NEW x \in Places, objects'[x] = objects[x],
           objects[x] # NoObject, FromDoc(x),
           LET q == objects[x].by IN
               pc'[q] \notin {"unsent", "received"} /\ answer'[q] # "400"
    PROVE  FromDoc(x)'
  <1> DEFINE q == objects[x].by
  <1>1. q \in Requests
    BY DEF TypeOK, Objects
  <1>2. request'[q] = request[q] /\ routing' = routing
    BY <1>1, RequestKept DEF FromDoc
  <1>3. /\ DocsOf(q)' = DocsOf(q) /\ (Acceptable(q)' <=> Acceptable(q))
        /\ \A j : PlaceOf(q, j)' = PlaceOf(q, j)
    BY <1>1, <1>2, SameRequest
  <1> QED
    BY <1>2, <1>3 DEF FromDoc

LEMMA ObjectsStep == ApiInv /\ [Next]_vars => ObjectsFromDocs'
  <1> SUFFICES ASSUME ApiInv, [Next]_vars, NEW x \in Places, objects'[x] # NoObject
               PROVE  FromDoc(x)'
    BY RequestKept DEF ObjectsFromDocs
  <1> USE DEF ApiInv
  <1>1. ASSUME objects'[x] = objects[x]
        PROVE  FromDoc(x)'
    <2> DEFINE q == objects[x].by
    <2>1. FromDoc(x) /\ q \in Requests
      BY <1>1 DEF ObjectsFromDocs, TypeOK, Objects
    <2>2. pc[q] \notin {"unsent", "received"} /\ answer[q] # "400"
      BY <2>1 DEF FromDoc
    <2>3. pc'[q] \notin {"unsent", "received"} /\ answer'[q] # "400"
      <3>1. ASSUME NEW r \in Requests, NEW p, NEW body, Post(r, p, body)
            PROVE  pc'[q] \notin {"unsent", "received"} /\ answer'[q] # "400"
        BY <2>1, <2>2, <3>1 DEF Post, TypeOK
      <3>2. ASSUME NEW r \in Requests, Accept(r) \/ Reject(r) \/ Answer(r) \/ RefuseDoc(r)
            PROVE  pc'[q] \notin {"unsent", "received"} /\ answer'[q] # "400"
        BY <2>1, <2>2, <3>2 DEF TypeOK, Accept, Reject, Answer, RefuseDoc
      <3>3. ASSUME NEW r \in Requests, Kill(r) \/ ApplyDoc(r) \/ ApplyLate(r)
            PROVE  pc'[q] \notin {"unsent", "received"} /\ answer'[q] # "400"
        BY <2>1, <2>2, <3>3 DEF TypeOK, Kill, ApplyDoc, ApplyLate
      <3>4. CASE Crash
        BY <2>1, <2>2, <3>4 DEF TypeOK, Crash
      <3>5. CASE UNCHANGED vars
        BY <2>2, <3>5 DEF vars
      <3> QED
        BY <3>1, <3>2, <3>3, <3>4, <3>5 DEF Next
    <2> QED
      BY <1>1, <2>1, <2>3, FromDocStays
  <1>2. ASSUME NEW q \in Requests, ApplyDoc(q) \/ ApplyLate(q)
        PROVE  FromDoc(x)'
    <2>1. q \in Running /\ Apply(q) /\ request' = request /\ answer' = answer /\ routing' = routing
      BY <1>2 DEF ApplyDoc, ApplyLate, Running
    <2>2. pc'[q] \notin {"unsent", "received"}
      BY <1>2 DEF ApplyDoc, ApplyLate, TypeOK
    <2>3. /\ Acceptable(q) /\ answer[q] # "400" /\ next[q] \in 1..Len(DocsOf(q))
          /\ request[q] # NoRequest
      <3>1. request[q] # NoRequest
        BY <2>1 DEF Posted, Running
      <3> QED
        BY <2>1, <3>1, DocsType DEF Accepted, Running, Apply, TypeOK
    <2>4. CASE x = PlaceOf(q, next[q])
      <3>1. /\ objects'[x].by = q /\ objects'[x].doc = next[q]
            /\ objects'[x].provider = request[q].provider
        BY <2>1, <2>4 DEF Apply, TypeOK
      <3>2. /\ DocsOf(q)' = DocsOf(q) /\ (Acceptable(q)' <=> Acceptable(q))
            /\ \A j : PlaceOf(q, j)' = PlaceOf(q, j)
        BY <2>1, SameRequest
      <3> QED
        BY <2>1, <2>2, <2>3, <2>4, <3>1, <3>2 DEF FromDoc
    <2>5. CASE x # PlaceOf(q, next[q])
      <3>1. objects'[x] = objects[x]
        BY <2>1, <2>5 DEF Apply, TypeOK
      <3> QED
        BY <1>1, <3>1
    <2> QED
      BY <2>4, <2>5
  <1>3. CASE objects' = objects
    BY <1>1, <1>3
  <1> QED
    BY <1>2, <1>3 DEF vars, Next, Post, Accept, Reject, RefuseDoc, Answer, Kill, Crash

----------------------------------------------------------------------------
(* Requests that run at the same time.                                     *)

LEMMA OverlapStep == TypeOK /\ Overlapping /\ [Next]_vars => Overlapping'
  <1> SUFFICES ASSUME TypeOK, Overlapping, [Next]_vars, NEW q \in Running', NEW o \in Running', q # o
               PROVE  o \in overlap'[q]
    BY DEF Overlapping
  <1>1. q \in Requests /\ o \in Requests
    BY DEF Running
  <1>2. ASSUME NEW r \in Requests, Accept(r)
        PROVE  o \in overlap'[q]
    <2>1. \A x \in Requests \ {r} : x \in Running' => x \in Running
      BY <1>2 DEF Accept, TypeOK, Running
    <2>2. CASE q = r
      BY <1>1, <1>2, <2>1, <2>2 DEF Accept
    <2>3. CASE q # r /\ o = r
      BY <1>1, <1>2, <2>1, <2>3 DEF Accept
    <2>4. CASE q # r /\ o # r
      <3>1. o \in overlap[q]
        BY <1>1, <2>1, <2>4 DEF Overlapping
      <3> QED
        BY <1>1, <1>2, <2>4, <3>1 DEF Accept
    <2> QED
      BY <2>2, <2>3, <2>4
  <1>3. ASSUME overlap' = overlap, \A x \in Requests : x \in Running' => x \in Running
        PROVE  o \in overlap'[q]
    BY <1>1, <1>3 DEF Overlapping
  <1>4. ASSUME NEW r \in Requests, NEW p, NEW body, Post(r, p, body)
        PROVE  overlap' = overlap /\ \A x \in Requests : x \in Running' => x \in Running
    BY <1>4 DEF Post, TypeOK, Running
  <1>5. ASSUME NEW r \in Requests, Reject(r) \/ Answer(r) \/ RefuseDoc(r)
        PROVE  overlap' = overlap /\ \A x \in Requests : x \in Running' => x \in Running
    BY <1>5 DEF Reject, Answer, RefuseDoc, TypeOK, Running
  <1>6. ASSUME NEW r \in Requests, Kill(r) \/ ApplyDoc(r) \/ ApplyLate(r)
        PROVE  overlap' = overlap /\ \A x \in Requests : x \in Running' => x \in Running
    BY <1>6 DEF Kill, ApplyDoc, ApplyLate, TypeOK, Running
  <1>7. CASE Crash
    <2>1. overlap' = overlap /\ \A x \in Requests : x \in Running' => x \in Running
      BY <1>7 DEF Crash, TypeOK, Running
    <2> QED
      BY <1>3, <2>1
  <1>8. CASE UNCHANGED vars
    BY <1>3, <1>8 DEF vars, Running
  <1> QED
    BY <1>2, <1>3, <1>4, <1>5, <1>6, <1>7, <1>8 DEF Next

\* What was applied for a request is not disturbed by what does not apply.
LEMMA HoldsStays ==
    ASSUME ApiInv, [Next]_vars, NEW o \in Requests, pc[o] = "applying", ~failed[o],
           objects' = objects, next'[o] = next[o], overlap[o] \subseteq overlap'[o],
           NEW j \in 1..next'[o] - 1
    PROVE  Holds(o, j)'
  <1>1. Holds(o, j)
    BY DEF ApiInv, AppliedSoFar
  <1>2. \A k : PlaceOf(o, k)' = PlaceOf(o, k)
    BY RequestKept, SameRequest DEF ApiInv
  <1> QED
    BY <1>1, <1>2 DEF Holds

LEMMA AppliedStep == ApiInv /\ [Next]_vars => AppliedSoFar'
  <1> SUFFICES ASSUME ApiInv, [Next]_vars, NEW o \in Requests, pc'[o] = "applying", ~failed'[o],
                      NEW j \in 1..next'[o] - 1
               PROVE  Holds(o, j)'
    BY RequestKept DEF AppliedSoFar, ApiInv
  <1>0. TypeOK
    BY DEF ApiInv
  <1>1. ASSUME pc[o] = "applying", ~failed[o], objects' = objects, next'[o] = next[o],
               overlap[o] \subseteq overlap'[o]
        PROVE  Holds(o, j)'
    BY <1>1, HoldsStays
  <1>2. ASSUME NEW q \in Requests, NEW p, NEW body, Post(q, p, body)
        PROVE  Holds(o, j)'
    <2>1. pc[o] = "applying"
      BY <1>0, <1>2 DEF Post, TypeOK
    <2> QED
      BY <1>1, <1>2, <2>1 DEF Post
  <1>3. ASSUME NEW q \in Requests, Accept(q)
        PROVE  Holds(o, j)'
    <2>1. CASE o = q
      BY <1>3, <2>1 DEF ApiInv, Unstarted, Accept
    <2>2. CASE o # q
      <3>1. pc[o] = "applying"
        BY <1>0, <1>3, <2>2 DEF Accept, TypeOK
      <3>2. overlap[o] \subseteq overlap'[o]
        BY <1>3, <2>2 DEF Accept
      <3> QED
        BY <1>1, <1>3, <3>1, <3>2 DEF Accept
    <2> QED
      BY <2>1, <2>2
  <1>4. ASSUME NEW q \in Requests, Reject(q) \/ Answer(q) \/ Kill(q)
        PROVE  Holds(o, j)'
    <2>1. pc[o] = "applying"
      BY <1>0, <1>4 DEF Reject, Answer, Kill, TypeOK
    <2> QED
      BY <1>1, <1>4, <2>1 DEF Reject, Answer, Kill
  <1>5. ASSUME NEW q \in Requests, RefuseDoc(q)
        PROVE  Holds(o, j)'
    <2>1. o # q /\ pc[o] = "applying" /\ ~failed[o] /\ next'[o] = next[o]
      BY <1>0, <1>5 DEF RefuseDoc, TypeOK
    <2> QED
      BY <1>1, <1>5, <2>1 DEF RefuseDoc
  <1>6. CASE Crash
    BY <1>0, <1>6 DEF Crash, TypeOK
  <1>7. CASE UNCHANGED vars
    BY <1>1, <1>7 DEF vars
  <1>8. ASSUME NEW q \in Requests, ApplyDoc(q) \/ ApplyLate(q)
        PROVE  Holds(o, j)'
    <2>1. /\ q \in Running /\ Apply(q) /\ overlap' = overlap /\ failed' = failed
          /\ routing' = routing /\ request' = request
      BY <1>8 DEF ApplyDoc, ApplyLate, Running
    <2>2. pc[o] = "applying" /\ ~failed[o] /\ o \in Running
      BY <1>0, <1>8 DEF ApplyDoc, ApplyLate, TypeOK, Running
    <2>3. \A k : PlaceOf(o, k)' = PlaceOf(o, k)
      BY <2>1, SameRequest
    <2>4. /\ next[o] \in 1..Len(DocsOf(o)) + 1 /\ Len(DocsOf(o)) \in Nat
          /\ \A k \in 1..Len(DocsOf(o)) : PlaceOf(o, k) \in Places
      BY <2>2, DocsType, PlaceType DEF ApiInv, Accepted, Posted
    <2> DEFINE new == [nodeName |-> DocsOf(q)[next[q]].nodeName,
                       provider |-> request[q].provider,
                       interfaces |-> DocsOf(q)[next[q]].interfaces,
                       by |-> q, doc |-> next[q]]
    <2>5. /\ next[q] <= Len(DocsOf(q)) /\ next' = [next EXCEPT ![q] = @ + 1]
          /\ objects' = [objects EXCEPT ![PlaceOf(q, next[q])] = new]
      BY <2>1 DEF Apply
    <2>6. new # NoObject /\ new.by = q /\ new.doc = next[q]
      <3>1. request[q] # NoRequest /\ q \in Requests /\ next[q] \in Nat \ {0}
        BY <1>0, <2>1 DEF ApiInv, Posted, Running, TypeOK
      <3>2. next[q] \in 1..Len(DocsOf(q))
        BY <1>0, <2>5, <3>1, DocsType
      <3>3. new \in Objects
        BY <1>0, <3>1, <3>2, DocsType, PostsType DEF Objects
      <3> QED
        BY <3>3
    <2> HIDE DEF new
    <2>7. CASE o = q
      <3>1. next'[o] = next[o] + 1
        BY <1>0, <2>5, <2>7 DEF TypeOK
      <3>2. j \in 1..next[o] /\ next[o] \in 1..Len(DocsOf(o)) /\ PlaceOf(o, j) \in Places
        BY <2>4, <2>5, <2>7, <3>1
      <3>3. CASE PlaceOf(o, j) = PlaceOf(o, next[o])
        <4>1. objects'[PlaceOf(o, j)] = new
          BY <1>0, <2>5, <2>7, <3>2, <3>3 DEF TypeOK
        <4>2. next[o] \in 1..next'[o] - 1 /\ \A m \in next[o] + 1..next'[o] - 1 : FALSE
          BY <3>1, <3>2
        <4> QED
          BY <2>3, <2>6, <2>7, <3>3, <4>1, <4>2 DEF Holds
      <3>4. CASE PlaceOf(o, j) # PlaceOf(o, next[o])
        <4>1. objects'[PlaceOf(o, j)] = objects[PlaceOf(o, j)]
          BY <1>0, <2>5, <2>7, <3>2, <3>4 DEF TypeOK
        <4>2. j \in 1..next[o] - 1
          BY <3>2, <3>4
        <4>3. Holds(o, j)
          BY <2>2, <4>2 DEF ApiInv, AppliedSoFar
        <4>4. \A k \in 1..next[o] - 1 : k \in 1..next'[o] - 1
          BY <3>1, <3>2
        <4>5. \A k, m : k \in 1..next[o] - 1 /\ m \in k + 1..next'[o] - 1 =>
                           m \in k + 1..next[o] - 1 \/ m = next[o]
          BY <3>1, <3>2
        <4> QED
          BY <2>1, <2>3, <3>4, <4>1, <4>3, <4>4, <4>5 DEF Holds
      <3> QED
        BY <3>3, <3>4
    <2>8. CASE o # q
      <3>1. next'[o] = next[o]
        BY <1>0, <2>5, <2>8 DEF TypeOK
      <3>2. Holds(o, j) /\ PlaceOf(o, j) \in Places
        BY <2>2, <2>4, <3>1 DEF ApiInv, AppliedSoFar
      <3>3. CASE PlaceOf(o, j) = PlaceOf(q, next[q])
        <4>1. objects'[PlaceOf(o, j)] = new
          BY <1>0, <2>5, <3>2, <3>3 DEF TypeOK
        <4>2. q \in overlap[o]
          BY <2>1, <2>2, <2>8 DEF ApiInv, Overlapping
        <4> QED
          BY <2>1, <2>3, <2>6, <4>1, <4>2 DEF Holds
      <3>4. CASE PlaceOf(o, j) # PlaceOf(q, next[q])
        <4>1. objects'[PlaceOf(o, j)] = objects[PlaceOf(o, j)]
          BY <1>0, <2>5, <3>2, <3>4 DEF TypeOK
        <4> QED
          BY <2>1, <2>3, <3>1, <3>2, <4>1 DEF Holds
      <3> QED
        BY <3>3, <3>4
    <2> QED
      BY <2>7, <2>8
  <1> QED
    BY <1>2, <1>3, <1>4, <1>5, <1>6, <1>7, <1>8 DEF Next

LEMMA ApiInvInit == Init => ApiInv
  <1> SUFFICES ASSUME Init PROVE ApiInv
    OBVIOUS
  <1>1. Posted /\ Unstarted /\ Accepted
    BY DEF Init, Posted, Unstarted, Accepted
  <1>2. ObjectsFromDocs /\ Overlapping /\ AppliedSoFar
    BY DEF Init, ObjectsFromDocs, Overlapping, Running, AppliedSoFar
  <1> QED
    BY <1>1, <1>2, InitTyped DEF ApiInv

LEMMA ApiInvStep == ApiInv /\ [Next]_vars => ApiInv'
  BY TypeStep, PostedStep, UnstartedStep, AcceptedStep, ObjectsStep, OverlapStep, AppliedStep
     DEF ApiInv

LEMMA ApiInvHolds == Spec => []ApiInv
  BY ApiInvInit, ApiInvStep, PTL DEF Spec

(* Requests, objects and the routes that are in use keep their types: a    *)
(* kubectl only runs for a target of a known mode.                         *)
THEOREM ApiIsTyped == Spec => []TypeOK
  <1>1. ApiInv => TypeOK
    BY DEF ApiInv
  <1> QED
    BY <1>1, ApiInvHolds, PTL

----------------------------------------------------------------------------
(* What an answer of 200 is worth.                                         *)

\* The last document is the one after which no other has the same object.
LEMMA LastDocIs ==
    ASSUME NEW q \in Requests, NEW j, NEW l \in 1..Len(DocsOf(q)), Len(DocsOf(q)) \in Nat,
           DOMAIN DocsOf(q) = 1..Len(DocsOf(q)),
           PlaceOf(q, l) = PlaceOf(q, j),
           \A m \in l + 1..Len(DocsOf(q)) : PlaceOf(q, m) # PlaceOf(q, j)
    PROVE  LastDoc(q, j) = l
  <1> DEFINE IsLast(k) == /\ PlaceOf(q, k) = PlaceOf(q, j)
                          /\ \A m \in 1..Len(DocsOf(q)) : PlaceOf(q, m) = PlaceOf(q, j) => m <= k
  <1>1. IsLast(l)
    <2>1. \A m \in 1..Len(DocsOf(q)) : m <= l \/ m \in l + 1..Len(DocsOf(q))
      OBVIOUS
    <2> QED
      BY <2>1
  <1>2. \A k \in 1..Len(DocsOf(q)) : IsLast(k) => k = l
    BY <1>1
  <1>3. LastDoc(q, j) = CHOOSE k \in 1..Len(DocsOf(q)) : IsLast(k)
    BY DEF LastDoc
  <1> QED
    BY <1>1, <1>2, <1>3

(* An answer of 200 means that every node has the last config its request  *)
(* sent for it, or that of a request kubectl was applying at the same time:*)
(* for any number of requests, documents and kills.                        *)
THEOREM AnswersAreTrue == Spec => AppliedWhenAnswered
  <1> DEFINE Kept(q, j) == LET o == objects[PlaceOf(q, j)] IN
                           /\ o # NoObject
                           /\ \/ o.by = q /\ o.doc = LastDoc(q, j)
                              \/ o.by \in overlap[q]
             Answered == \A q \in Requests : answer[q] = "none" /\ answer'[q] = "200" =>
                             \A j \in DOMAIN DocsOf(q) : Kept(q, j)
  <1>1. ApiInv /\ [Next]_vars => Answered
    <2> SUFFICES ASSUME ApiInv, [Next]_vars, NEW q \in Requests,
                        answer[q] = "none", answer'[q] = "200", NEW j \in DOMAIN DocsOf(q)
                 PROVE  Kept(q, j)
      OBVIOUS
    <2>1. Answer(q) /\ ~failed[q]
      <3>1. ASSUME NEW r \in Requests, Answer(r)
            PROVE  Answer(q) /\ ~failed[q]
        BY <3>1 DEF ApiInv, TypeOK, Answer, Succeeded
      <3>2. ASSUME NEW r \in Requests, Reject(r) \/ Kill(r)
            PROVE  FALSE
        BY <3>2 DEF ApiInv, TypeOK, Reject, Kill
      <3>3. CASE Crash
        BY <3>3 DEF ApiInv, TypeOK, Crash
      <3>4. CASE answer' = answer
        BY <3>4
      <3> QED
        BY <3>1, <3>2, <3>3, <3>4 DEF vars, Next, Post, Accept, ApplyDoc, ApplyLate, RefuseDoc
    <2>2. /\ pc[q] = "applying" /\ next[q] > Len(DocsOf(q)) /\ request[q] # NoRequest
      BY <2>1 DEF Answer, ApiInv, Posted
    <2>3. /\ Len(DocsOf(q)) \in Nat /\ DOMAIN DocsOf(q) = 1..Len(DocsOf(q))
      BY <2>2, DocsType DEF ApiInv
    <2>4. next[q] = Len(DocsOf(q)) + 1
      BY <2>2, <2>3 DEF ApiInv, Accepted
    <2>5. next[q] - 1 = Len(DocsOf(q)) /\ j \in 1..next[q] - 1
      BY <2>3, <2>4
    <2>6. Holds(q, j)
      BY <2>1, <2>2, <2>5 DEF ApiInv, AppliedSoFar
    <2>7. objects[PlaceOf(q, j)] # NoObject
      BY <2>6 DEF Holds
    <2>8. CASE objects[PlaceOf(q, j)].by \in overlap[q]
      BY <2>7, <2>8
    <2>9. CASE objects[PlaceOf(q, j)].by \notin overlap[q]
      <3> DEFINE l == objects[PlaceOf(q, j)].doc
      <3>1. /\ objects[PlaceOf(q, j)].by = q /\ l \in 1..Len(DocsOf(q))
            /\ PlaceOf(q, l) = PlaceOf(q, j)
            /\ \A m \in l + 1..Len(DocsOf(q)) : PlaceOf(q, m) # PlaceOf(q, j)
        BY <2>5, <2>6, <2>9 DEF Holds
      <3> HIDE DEF l
      <3>2. LastDoc(q, j) = l
        BY <2>3, <3>1, LastDocIs
      <3> QED
        BY <2>7, <3>1, <3>2 DEF l
    <2> QED
      BY <2>8, <2>9
  <1>2. ApiInv /\ [Next]_vars => [Answered]_vars
    BY <1>1
  <1> QED
    BY <1>2, ApiInvHolds, PTL DEF Spec, AppliedWhenAnswered

(* None of the nodes of a request is applied when one of them has no name  *)
(* or there is no target for its provider, whatever else is running.       *)
THEOREM NothingOfARefusedRequest == Spec => []RefusedAsAWhole
  <1>1. ApiInv => RefusedAsAWhole
    <2> SUFFICES ASSUME ApiInv, NEW x \in Places, objects[x] # NoObject
                 PROVE  LET q == objects[x].by IN
                        /\ answer[q] # "400"
                        /\ \A j \in DOMAIN request[q].body : request[q].body[j].nodeName # Blank
      BY DEF RefusedAsAWhole
    <2> DEFINE q == objects[x].by
    <2>1. FromDoc(x)
      BY DEF ApiInv, ObjectsFromDocs
    <2>2. DocsOf(q) # <<>>
      BY <2>1 DEF FromDoc, Acceptable
    <2>3. ~(\E j \in DOMAIN request[q].body : request[q].body[j].nodeName = Blank)
      BY <2>2 DEF DocsOf, Manifest
    <2> QED
      BY <2>1, <2>3 DEF FromDoc
  <1> QED
    BY <1>1, ApiInvHolds, PTL

----------------------------------------------------------------------------
(* Routes.                                                                 *)

Fields == {"mode", "namespace", "kubeApi", "kubeAuth", "sshHost", "sshAuth"}

LEMMA DefaultFields ==
    ASSUME NEW f \in Files
    PROVE  DOMAIN DefaultTarget(RoutingOf[f]) = Fields
  <1>1. DOMAIN EmptyTarget = Fields
    BY DEF EmptyTarget, Fields
  <1> QED
    BY <1>1, LocalTargetAssumption DEF DefaultTarget, NormalizeTarget, MergeTarget

\* What a route says is what the target has.
LEMMA RouteWins ==
    ASSUME NEW base, NEW own, DOMAIN base = Fields
    PROVE  LET t == NormalizeTarget(MergeTarget(base, own)) IN
           /\ own.namespace # Unset => t.namespace = own.namespace
           /\ own.mode \in {"local", "ssh"} => t.mode = own.mode
           /\ own.sshHost # Unset => t.sshHost = own.sshHost
           /\ own.kubeApi # Unset => t.kubeApi = own.kubeApi
  <1> DEFINE m == MergeTarget(base, own)
  <1>1. /\ DOMAIN m = Fields
        /\ \A f \in Fields : own[f] # Unset => m[f] = own[f]
    BY DEF MergeTarget
  <1> HIDE DEF m
  <1>2. LET t == NormalizeTarget(m) IN
        /\ t.namespace = IF m.namespace = Unset THEN Namespace ELSE m.namespace
        /\ t.mode = IF m.mode = Unset THEN "local" ELSE m.mode
        /\ t.sshHost = m.sshHost /\ t.kubeApi = m.kubeApi
    BY <1>1 DEF NormalizeTarget, Fields
  <1>3. \A f \in {"mode", "namespace", "kubeApi", "sshHost"} : own[f] # Unset => m[f] = own[f]
    BY <1>1 DEF Fields
  <1> QED
    BY <1>2, <1>3 DEF m

(* A provider's configs are only where its own route says, for any routing *)
(* file, default and local target.                                         *)
THEOREM RoutesAreKept == Spec => []KeepsToItsRoute
  <1>1. ApiInv => KeepsToItsRoute
    <2> SUFFICES ASSUME ApiInv, NEW x \in Places, objects[x] # NoObject
                 PROVE  LET p == objects[x].provider
                            routed == RoutesOf(RoutingOf[routing], p) # {}
                            own == RouteOf(RoutingOf[routing], p)
                        IN /\ RoutingOf[routing].strict => routed
                           /\ routed =>
                              /\ own.namespace # Unset => x[1][2] = own.namespace
                              /\ own.mode = "ssh" /\ own.sshHost # Unset => x[1][1] = own.sshHost
                              /\ own.mode = "local" /\ own.kubeApi # Unset => x[1][1] = own.kubeApi
      BY DEF KeepsToItsRoute
    <2> DEFINE o == objects[x]
               p == objects[x].provider
               own == RouteOf(RoutingOf[routing], p)
    <2>1. FromDoc(x) /\ o.by \in Requests /\ routing \in Files
      BY DEF ApiInv, ObjectsFromDocs, TypeOK, Objects
    <2>2. request[o.by] # NoRequest /\ request[o.by].provider = p
      BY <2>1 DEF FromDoc, ApiInv, Posted
    <2>3. p \in Providers \cup {NoProvider}
      BY <2>1, <2>2, PostsType DEF ApiInv
    <2>4. Target(o.by) = PickTarget(RoutingOf[routing], p)
      BY <2>1, <2>2, <2>3 DEF Target, Targets
    <2>5. x[1] = Address(Target(o.by)) /\ Target(o.by) # NoTarget
      BY <2>1 DEF FromDoc, PlaceOf, Acceptable
    <2>6. CASE RoutesOf(RoutingOf[routing], p) = {}
      BY <2>4, <2>5, <2>6 DEF PickTarget
    <2>7. CASE RoutesOf(RoutingOf[routing], p) # {}
      <3> DEFINE t == NormalizeTarget(MergeTarget(DefaultTarget(RoutingOf[routing]), own))
      <3>1. Target(o.by) = t
        BY <2>4, <2>7 DEF PickTarget
      <3>2. /\ own.namespace # Unset => t.namespace = own.namespace
            /\ own.mode \in {"local", "ssh"} => t.mode = own.mode
            /\ own.sshHost # Unset => t.sshHost = own.sshHost
            /\ own.kubeApi # Unset => t.kubeApi = own.kubeApi
        BY <2>1, DefaultFields, RouteWins
      <3>3. x[1][2] = t.namespace /\ x[1][1] = IF t.mode = "ssh" THEN t.sshHost ELSE t.kubeApi
        BY <2>5, <3>1 DEF Address
      <3> HIDE DEF t, own
      <3>4. /\ own.namespace # Unset => x[1][2] = own.namespace
            /\ own.mode = "ssh" /\ own.sshHost # Unset => x[1][1] = own.sshHost
            /\ own.mode = "local" /\ own.kubeApi # Unset => x[1][1] = own.kubeApi
        BY <3>2, <3>3
      <3> QED
        BY <2>7, <3>4 DEF own
    <2> QED
      BY <2>6, <2>7
  <1> QED
    BY <1>1, ApiInvHolds, PTL

----------------------------------------------------------------------------
(* What the API promises to the operator.                                  *)

KeyPlace(k) == <<Address(Targets[routing][k[1]]), Sanitized[k[2]]>>

LEMMA KeyPlaceType ==
    ASSUME TypeOK, NEW k \in OwnObjects[routing]
    PROVE  k \in NodeKeys /\ KeyPlace(k) \in Places
  <1>1. routing \in Files
    BY DEF TypeOK
  <1>2. k \in NodeKeys /\ Targets[routing][k[1]] # NoTarget
    BY <1>1 DEF OwnObjects
  <1>3. k[1] \in Providers \cup {NoProvider} /\ k[2] \in NodeNames
    BY <1>2 DEF NodeKeys
  <1>4. Address(Targets[routing][k[1]]) \in Addresses
    BY <1>1, <1>2, <1>3 DEF Addresses
  <1> QED
    BY <1>2, <1>3, <1>4 DEF KeyPlace, Places

\* Nobody else writes to an object of its own.
LEMMA OwnAlone ==
    ASSUME TypeOK, NEW k \in OwnObjects[routing], NEW l \in NodeKeys,
           Targets[routing][l[1]] # NoTarget, KeyPlace(l) = KeyPlace(k)
    PROVE  l = k
  <1>1. routing \in Files
    BY DEF TypeOK
  <1>2. /\ Address(Targets[routing][l[1]]) = Address(Targets[routing][k[1]])
        /\ Sanitized[l[2]] = Sanitized[k[2]]
    BY DEF KeyPlace
  <1> QED
    BY <1>1, <1>2 DEF OwnObjects

LEMMA SentGrows ==
    ASSUME TypeOK, Posted, [Next]_vars
    PROVE  Sent \subseteq Sent'
  <1>1. \A q \in Requests : request[q] # NoRequest =>
            request'[q] = request[q] /\ request'[q] # NoRequest /\ DocsOf(q)' = DocsOf(q)
    BY RequestKept, SameRequest DEF Posted
  <1> QED
    BY <1>1 DEF Sent

\* A document that is applied is one that was sent, and for its key only.
LEMMA ApplyMaps ==
    ASSUME ApiInv, NEW q \in Running, Apply(q), UNCHANGED <<routing, request>>
    PROVE  \/ \A k \in NodeKeys : ConfigOf(k)' = ConfigOf(k)
           \/ \E d \in Sent : /\ d[1] \in NodeKeys /\ ConfigOf(d[1])' = d[2]
                              /\ \A k \in NodeKeys \ {d[1]} : ConfigOf(k)' = ConfigOf(k)
  <1> DEFINE n == next[q]
             new == [nodeName |-> DocsOf(q)[n].nodeName, provider |-> request[q].provider,
                     interfaces |-> DocsOf(q)[n].interfaces, by |-> q, doc |-> n]
  <1>0. TypeOK
    BY DEF ApiInv
  <1>1. /\ q \in Requests /\ request[q] # NoRequest /\ Acceptable(q)
        /\ n \in 1..Len(DocsOf(q))
    <2>1. q \in Requests /\ request[q] # NoRequest /\ Acceptable(q)
      BY DEF ApiInv, Running, Posted, Accepted
    <2> QED
      BY <1>0, <2>1, DocsType DEF Apply, TypeOK
  <1>. PICK k0, c : k0 = <<request[q].provider, DocsOf(q)[n].nodeName>> /\ c = DocsOf(q)[n].interfaces
    OBVIOUS
  <1>2. k0 \in NodeKeys /\ Targets[routing][k0[1]] # NoTarget /\ new \in Objects /\ n \in DOMAIN DocsOf(q)
    BY <1>0, <1>1, DocsType, PostsType DEF NodeKeys, Acceptable, Target, Objects
  <1>3. PlaceOf(q, n) = KeyPlace(k0) /\ objects' = [objects EXCEPT ![PlaceOf(q, n)] = new]
    BY DEF PlaceOf, KeyPlace, Target, Apply
  <1>4. <<k0, c>> \in Sent
    BY <1>1, <1>2 DEF Sent
  <1>5. new # NoObject /\ <<new.provider, new.nodeName>> = k0 /\ new.interfaces = c
    BY <1>2
  <1> HIDE DEF n, new
  <1>6. ASSUME NEW k \in NodeKeys, k # k0
        PROVE  ConfigOf(k)' = ConfigOf(k)
    <2>1. CASE k \in OwnObjects[routing]
      <3>1. KeyPlace(k) \in Places /\ KeyPlace(k) # KeyPlace(k0)
        BY <1>0, <1>2, <1>6, <2>1, KeyPlaceType, OwnAlone
      <3>2. objects'[KeyPlace(k)] = objects[KeyPlace(k)]
        BY <1>0, <1>3, <3>1 DEF TypeOK
      <3> QED
        BY <3>2 DEF ConfigOf, KeyPlace
    <2>2. CASE k \notin OwnObjects[routing]
      BY <2>2 DEF ConfigOf
    <2> QED
      BY <2>1, <2>2
  <1>7. CASE k0 \in OwnObjects[routing]
    <2>1. KeyPlace(k0) \in Places
      BY <1>0, <1>7, KeyPlaceType
    <2>2. objects'[KeyPlace(k0)] = new
      BY <1>0, <1>3, <2>1 DEF TypeOK
    <2>3. ConfigOf(k0)' = c
      BY <1>5, <1>7, <2>2 DEF ConfigOf, KeyPlace
    <2> QED
      BY <1>2, <1>4, <1>5, <1>6, <2>3
  <1>8. CASE k0 \notin OwnObjects[routing]
    <2>1. ConfigOf(k0)' = ConfigOf(k0)
      BY <1>8 DEF ConfigOf
    <2> QED
      BY <1>6, <2>1
  <1> QED
    BY <1>7, <1>8

(* The API implements AppliedConfigs: every step sends documents, applies  *)
(* one document that was sent to its own key, or changes neither.          *)
THEOREM ApiImplementsAppliedConfigs == Spec => ImplementsAppliedConfigs
  <1> DEFINE mapped == [k \in NodeKeys |-> ConfigOf(k)]
  <1>1. Init => Viola!SentInit
    <2> SUFFICES ASSUME Init PROVE Viola!SentInit
      OBVIOUS
    <2>1. Sent = {}
      BY DEF Init, Sent
    <2>2. ASSUME NEW k \in NodeKeys PROVE ConfigOf(k) = NoObject
      <3>1. CASE k \in OwnObjects[routing]
        <4>1. objects[KeyPlace(k)] = NoObject
          BY <3>1, InitTyped, KeyPlaceType DEF Init
        <4> QED
          BY <3>1, <4>1 DEF ConfigOf, KeyPlace
      <3>2. CASE k \notin OwnObjects[routing]
        BY <3>2 DEF ConfigOf
      <3> QED
        BY <3>1, <3>2
    <2> QED
      BY <2>1, <2>2 DEF Viola!SentInit
  <1>2. ApiInv /\ [Next]_vars => [Viola!Send \/ Viola!Apply]_<<Sent, mapped>>
    <2> SUFFICES ASSUME ApiInv, [Next]_vars
                 PROVE  Viola!Send \/ Viola!Apply \/ UNCHANGED <<Sent, mapped>>
      BY DEF mapped
    <2>1. CASE objects' = objects
      <3>1. \A k \in NodeKeys : ConfigOf(k)' = ConfigOf(k)
        BY <2>1, RequestKept DEF ConfigOf, ApiInv
      <3>2. Sent \subseteq Sent'
        BY SentGrows DEF ApiInv
      <3> QED
        BY <3>1, <3>2 DEF Viola!Send
    <2>2. ASSUME NEW q \in Requests, ApplyDoc(q) \/ ApplyLate(q)
          PROVE  Viola!Send \/ Viola!Apply \/ UNCHANGED <<Sent, mapped>>
      <3>1. q \in Running /\ Apply(q) /\ UNCHANGED <<routing, request>>
        BY <2>2 DEF ApplyDoc, ApplyLate, Running
      <3>2. Sent' = Sent
        BY <3>1 DEF Sent, DocsOf
      <3>3. CASE \A k \in NodeKeys : ConfigOf(k)' = ConfigOf(k)
        BY <3>2, <3>3 DEF mapped
      <3>4. CASE \E d \in Sent : /\ d[1] \in NodeKeys /\ ConfigOf(d[1])' = d[2]
                                 /\ \A k \in NodeKeys \ {d[1]} : ConfigOf(k)' = ConfigOf(k)
        <4>1. PICK d \in Sent : /\ d[1] \in NodeKeys /\ ConfigOf(d[1])' = d[2]
                                /\ \A k \in NodeKeys \ {d[1]} : ConfigOf(k)' = ConfigOf(k)
          BY <3>4
        <4>2. mapped' = [mapped EXCEPT ![d[1]] = d[2]]
          BY <4>1
        <4> QED
          BY <3>2, <4>1, <4>2 DEF Viola!Apply
      <3> QED
        BY <3>1, <3>3, <3>4, ApplyMaps
    <2> QED
      BY <2>1, <2>2 DEF vars, Next, Post, Accept, Reject, RefuseDoc, Answer, Kill, Crash
  <1> QED
    BY <1>1, <1>2, ApiInvHolds, PTL DEF Spec, ImplementsAppliedConfigs, Viola!AppliedSpec
=============================================================================
