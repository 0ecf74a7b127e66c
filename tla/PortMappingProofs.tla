------------------------- MODULE PortMappingProofs -------------------------
(***************************************************************************)
(* Theorems about PortMapping, for any ports, subnets and networks, any    *)
(* listing of the ports and any limit: what the filters, the sorts and the *)
(* loop over the sorted ports make of a listing (the lemmas on sequences   *)
(* are in ListsProofs), and that every step maps anew.                     *)
(***************************************************************************)
EXTENDS PortMapping, ListsProofs, TLAPS

----------------------------------------------------------------------------
(* The orders.                                                             *)

Filters == {ids \in Seq(Subnets) : ids # <<>> /\ IsInjective(ids)}

\* The addresses of a port that a filter matches.
Found(ids, p) == {s \in ToSet(FixedIPs[p]) : s \in ToSet(ids)}

Interface(ids, p) == [port |-> p, subnet |-> SelectFixedIP(ids, p)]

LEMMA OrderOfPlace ==
    ASSUME NEW ids \in Seq(Subnets), NEW s
    PROVE  /\ OrderOf(ids, s) \in 1..Len(ids) + 1
           /\ s \in ToSet(ids) <=> OrderOf(ids, s) # Len(ids) + 1
           /\ s \in ToSet(ids) => ids[OrderOf(ids, s)] = s
  <1>1. Len(ids) \in Nat /\ DOMAIN ids = 1..Len(ids)
    OBVIOUS
  <1>2. CASE s \in ToSet(ids)
    <2>1. \E n \in DOMAIN ids : ids[n] = s
      BY <1>2 DEF ToSet
    <2>2. OrderOf(ids, s) \in 1..Len(ids) /\ ids[OrderOf(ids, s)] = s
      BY <1>1, <1>2, <2>1 DEF OrderOf
    <2> QED
      BY <1>1, <1>2, <2>2
  <1>3. CASE s \notin ToSet(ids)
    BY <1>1, <1>3 DEF OrderOf
  <1> QED
    BY <1>2, <1>3

\* The address that is selected has the least order.
LEMMA SelectedIsFirst ==
    ASSUME NEW ids \in Seq(Subnets), NEW p \in Ports, Found(ids, p) # {}
    PROVE  /\ SelectFixedIP(ids, p) \in Found(ids, p)
           /\ SelectFixedIP(ids, p) \in Subnets
           /\ \A t \in Found(ids, p) :
                 OrderOf(ids, SelectFixedIP(ids, p)) <= OrderOf(ids, t)
  <1> DEFINE orders == {OrderOf(ids, s) : s \in Found(ids, p)}
  <1>1. orders \in SUBSET Nat /\ orders # {}
    BY OrderOfPlace
  <1>2. PICK o \in orders : \A other \in orders : o <= other
    BY <1>1, LeastExists
  <1>3. \E s \in Found(ids, p) : \A t \in Found(ids, p) : OrderOf(ids, s) <= OrderOf(ids, t)
    BY <1>2
  <1>4. /\ SelectFixedIP(ids, p) \in Found(ids, p)
        /\ \A t \in Found(ids, p) : OrderOf(ids, SelectFixedIP(ids, p)) <= OrderOf(ids, t)
    BY <1>3 DEF SelectFixedIP, Found
  <1>5. ToSet(ids) \subseteq Subnets
    BY SequencePlaces
  <1> QED
    BY <1>4, <1>5 DEF Found

\* The ports are sorted by the address that is selected.
LEMMA OrderOfSelected ==
    ASSUME NEW ids \in Seq(Subnets), NEW p \in Ports
    PROVE  /\ OrderForPort(ids, p) \in Nat
           /\ Found(ids, p) # {} => OrderForPort(ids, p) = OrderOf(ids, SelectFixedIP(ids, p))
  <1> DEFINE orders == {OrderOf(ids, s) : s \in ToSet(FixedIPs[p])} \cup {Len(ids) + 1}
             least == OrderForPort(ids, p)
  <1>1. Len(ids) \in Nat
    OBVIOUS
  <1>2. orders \in SUBSET Nat /\ orders # {}
    BY <1>1, OrderOfPlace
  <1>3. \E o \in orders : \A other \in orders : o <= other
    BY <1>2, LeastExists
  <1>4. least \in orders /\ \A other \in orders : least <= other
    BY <1>3 DEF OrderForPort
  <1>5. /\ least \in Nat
        /\ least = Len(ids) + 1 \/ \E s \in ToSet(FixedIPs[p]) : least = OrderOf(ids, s)
        /\ \A s \in ToSet(FixedIPs[p]) : least <= OrderOf(ids, s)
    BY <1>2, <1>4
  <1> HIDE DEF least, orders
  <1>6. ASSUME Found(ids, p) # {} PROVE least = OrderOf(ids, SelectFixedIP(ids, p))
    <2> DEFINE f == SelectFixedIP(ids, p)
               of == OrderOf(ids, f)
    <2>1. f \in Found(ids, p) /\ \A t \in Found(ids, p) : of <= OrderOf(ids, t)
      BY <1>6, SelectedIsFirst
    <2>2. of \in Nat /\ of < Len(ids) + 1 /\ f \in ToSet(FixedIPs[p])
      BY <1>1, <2>1, OrderOfPlace DEF Found
    <2>3. least <= of
      BY <1>5, <2>2
    <2> HIDE DEF of, f
    <2>4. PICK s \in ToSet(FixedIPs[p]) : least = OrderOf(ids, s)
      BY <1>1, <1>5, <2>2, <2>3
    <2>5. least < Len(ids) + 1
      BY <1>1, <1>5, <2>2, <2>3
    <2>6. s \in Found(ids, p)
      BY <1>1, <2>4, <2>5, OrderOfPlace DEF Found
    <2>7. of <= least
      BY <2>1, <2>4, <2>6
    <2>8. least = of
      BY <1>5, <2>2, <2>3, <2>7
    <2> QED
      BY <2>8 DEF of, f
  <1> QED
    BY <1>5, <1>6 DEF least

ByFilter(ids) == {pq \in Ports \X Ports : Less(ids, pq[1], pq[2])}

LEMMA MacOrder ==
    /\ \A p \in Ports : ~LessByMac(p, p)
    /\ \A p, q, r \in Ports : LessByMac(p, q) /\ LessByMac(q, r) => LessByMac(p, r)
    /\ \A p, q \in Ports : p # q => LessByMac(p, q) \/ LessByMac(q, p)
  <1>1. \A p \in Ports : p \in Nat /\ Mac[p] \in Nat
    BY PortMappingAssumption
  <1> QED
    BY <1>1 DEF LessByMac

LEMMA FilterOrder ==
    ASSUME NEW ids \in Seq(Subnets)
    PROVE  StrictOrder(ByFilter(ids), Ports)
  <1>1. \A p \in Ports : OrderForPort(ids, p) \in Nat
    BY OrderOfSelected
  <1>2. \A p, q \in Ports : <<p, q>> \in ByFilter(ids) <=> Less(ids, p, q)
    BY DEF ByFilter
  <1>3. \A p \in Ports : ~Less(ids, p, p)
    BY <1>1, MacOrder DEF Less
  <1>4. \A p, q, r \in Ports : Less(ids, p, q) /\ Less(ids, q, r) => Less(ids, p, r)
    BY <1>1, MacOrder DEF Less
  <1>5. \A p, q \in Ports : p # q => Less(ids, p, q) \/ Less(ids, q, p)
    BY <1>1, MacOrder DEF Less
  <1> QED
    BY <1>2, <1>3, <1>4, <1>5 DEF StrictOrder

----------------------------------------------------------------------------
(* The loop over the sorted ports of a VM.                                 *)

Unfinished == [port : Ports, subnet : Subnets]

Accounts == [ifaces : Seq(Unfinished), down : SUBSET Ports]

\* taken is what the loop has after each port.
Takes(taken, ids, status, ports) ==
    /\ taken \in [0..Len(ports) -> Accounts]
    /\ taken[0] = [ifaces |-> <<>>, down |-> {}]
    /\ \A n \in 1..Len(ports) : taken[n] = Take(ids, status, taken[n - 1], ports[n])

LEMMA MatchIsFound ==
    ASSUME NEW ids \in Seq(Subnets), NEW p \in Ports, Matches(ids, p)
    PROVE  Found(ids, p) # {} /\ Interface(ids, p) \in Unfinished
  <1>1. Found(ids, p) # {}
    BY DEF Matches, Found
  <1> QED
    BY <1>1, SelectedIsFirst DEF Interface, Unfinished

LEMMA TakeTyped ==
    ASSUME NEW ids \in Seq(Subnets), NEW status, NEW acc \in Accounts, NEW p \in Ports
    PROVE  Take(ids, status, acc, p) \in Accounts
  <1>1. acc.ifaces \in Seq(Unfinished) /\ acc.down \in SUBSET Ports
    BY DEF Accounts
  <1>2. Matches(ids, p) => Append(acc.ifaces, Interface(ids, p)) \in Seq(Unfinished)
    BY <1>1, MatchIsFound, AppendProperties
  <1>3. (IF status[p] = "DOWN" THEN acc.down \cup {p} ELSE acc.down) \in SUBSET Ports
    BY <1>1
  <1> QED
    BY <1>2, <1>3 DEF Take, Accounts, Interface

LEMMA TakenLoop ==
    ASSUME NEW ids \in Seq(Subnets), NEW status, NEW ports \in Seq(Ports)
    PROVE  \E taken : /\ Takes(taken, ids, status, ports)
                      /\ TakeAll(ids, status, ports) = taken[Len(ports)]
  <1> DEFINE N == Len(ports)
             X == Accounts
             x0 == [ifaces |-> <<>>, down |-> {}]
             next(n, acc) == Take(ids, status, acc, ports[n])
             step == [na \in (1..N) \X X |-> next(na[1], na[2])]
             body(f) == [n \in 0..N |-> IF n = 0 THEN x0 ELSE next(n, f[n - 1])]
             taken == CHOOSE f : f = body(f)
  <1>1. N \in Nat /\ x0 \in X
    <2>1. <<>> \in Seq(Unfinished)
      OBVIOUS
    <2> QED
      BY <2>1 DEF Accounts
  <1>2. \A n \in 1..N, acc \in X : next(n, acc) \in X
    BY TakeTyped, ElementOfSeq
  <1>3. TakeAll(ids, status, ports) = taken[N]
    BY DEF TakeAll
  <1> HIDE DEF N, X, next, x0
  <1>4. step \in [(1..N) \X X -> X]
    BY <1>2
  <1>5. ASSUME NEW n \in 1..N, NEW acc \in X PROVE step[<<n, acc>>] = next(n, acc)
    OBVIOUS
  <1> HIDE DEF step
  <1>6. PICK f : IsLoop(f, X, N, x0, step)
    BY <1>1, <1>4, LoopExists
  <1>7. f = body(f)
    <2>1. ASSUME NEW n \in 0..N PROVE f[n] = body(f)[n]
      <3>1. CASE n = 0
        BY <3>1, <1>6 DEF IsLoop
      <3>2. CASE n # 0
        <4>1. n \in 1..N /\ n - 1 \in 0..N
          BY <3>2, <1>1
        <4>2. f[n - 1] \in X /\ f[n] = step[<<n, f[n - 1]>>]
          BY <4>1, <1>6 DEF IsLoop
        <4> QED
          BY <4>1, <4>2, <1>5, <3>2
      <3> QED
        BY <3>1, <3>2
    <2> QED
      BY <2>1, <1>6 DEF IsLoop
  <1>8. taken = body(taken)
    BY <1>7
  <1> HIDE DEF taken
  <1>9. taken = [n \in 0..N |-> taken[n]] /\ taken[0] = x0
    BY <1>8, <1>1
  <1>10. ASSUME NEW n \in 1..N PROVE taken[n] = next(n, taken[n - 1])
    BY <1>8, <1>1
  <1>11. IsLoop(taken, X, N, x0, step)
    BY <1>9, <1>10, <1>5, <1>1, <1>4, LoopIsTyped
  <1>12. taken \in [0..N -> X]
    BY <1>11 DEF IsLoop
  <1> QED
    BY <1>3, <1>9, <1>10, <1>12 DEF Takes, next, N, X, x0

\* The elements of A before which there are fewer than the limit.
FirstOf(A, R) == {p \in A : Cardinality({q \in A : <<q, p>> \in R}) < MaxInterfaces}

\* x comes after all of A.
ComesLast(A, R, x) == /\ x \notin A /\ <<x, x>> \notin R
                 /\ \A q \in A : <<q, x>> \in R /\ <<x, q>> \notin R

LEMMA FirstOfMore ==
    ASSUME NEW A, NEW R, NEW x, ComesLast(A, R, x)
    PROVE  /\ Cardinality(A) < MaxInterfaces => FirstOf(A \cup {x}, R) = FirstOf(A, R) \cup {x}
           /\ ~(Cardinality(A) < MaxInterfaces) => FirstOf(A \cup {x}, R) = FirstOf(A, R)
  <1> DEFINE before(B, p) == {q \in B : <<q, p>> \in R}
  <1>1. \A p \in A : before(A \cup {x}, p) = before(A, p)
    BY DEF ComesLast
  <1>2. before(A \cup {x}, x) = A
    BY DEF ComesLast
  <1>3. \A p \in A : p \in FirstOf(A \cup {x}, R) <=> p \in FirstOf(A, R)
    BY <1>1 DEF FirstOf
  <1>4. x \in FirstOf(A \cup {x}, R) <=> Cardinality(A) < MaxInterfaces
    BY <1>2 DEF FirstOf
  <1>5. \A B : \A p \in FirstOf(B, R) : p \in B
    BY DEF FirstOf
  <1> QED
    BY <1>3, <1>4, <1>5

\* acc holds the interfaces of the ports of T.
Holds(acc, ids, status, T) ==
    /\ acc.ifaces \in Seq(Unfinished) /\ IsInjective(acc.ifaces)
    /\ ToSet(acc.ifaces) = {Interface(ids, p) : p \in T}
    /\ acc.down = {p \in T : status[p] = "DOWN"}

\* As many as there are, up to the limit.
CutOff(len, n) ==
    /\ n <= MaxInterfaces => len = n
    /\ n >= MaxInterfaces => len = MaxInterfaces

LEMMA TakeHolds ==
    ASSUME NEW ids \in Seq(Subnets), NEW status, NEW acc, NEW T \in SUBSET Ports,
           Holds(acc, ids, status, T), NEW p \in Ports, p \notin T,
           Matches(ids, p), Len(acc.ifaces) < MaxInterfaces
    PROVE  /\ Holds(Take(ids, status, acc, p), ids, status, T \cup {p})
           /\ Len(Take(ids, status, acc, p).ifaces) = Len(acc.ifaces) + 1
  <1> DEFINE x == Interface(ids, p)
             t == acc.ifaces
             u == Append(t, x)
             new == Take(ids, status, acc, p)
  <1>0. Len(t) \in Nat /\ MaxInterfaces \in Nat
    BY PortMappingAssumption DEF Holds
  <1>1. new = [ifaces |-> u, down |-> IF status[p] = "DOWN" THEN acc.down \cup {p} ELSE acc.down]
    BY <1>0 DEF Take, Interface
  <1>2. x \in Unfinished /\ t \in Seq(Unfinished)
    BY MatchIsFound DEF Holds
  <1>3. x \notin ToSet(t)
    <2>1. ASSUME NEW q \in T PROVE Interface(ids, q) # x
      BY DEF Interface
    <2> QED
      BY <2>1 DEF Holds
  <1> HIDE DEF x, t, new
  <1>4. /\ u \in Seq(Unfinished) /\ Len(u) = Len(t) + 1 /\ u[Len(t) + 1] = x
        /\ \A i \in 1..Len(t) : u[i] = t[i]
    BY <1>2, AppendProperties
  <1> HIDE DEF u
  <1>5. /\ DOMAIN t = 1..Len(t) /\ DOMAIN u = 1..Len(t) + 1
        /\ \A i \in 1..Len(t) : t[i] \in ToSet(t)
    BY <1>2, <1>4, SequencePlaces
  <1>6. ToSet(u) = ToSet(t) \cup {x}
    <2>1. ASSUME NEW i \in 1..Len(t) + 1 PROVE u[i] \in ToSet(t) \cup {x}
      <3>1. i = Len(t) + 1 \/ i \in 1..Len(t)
        BY <1>0 DEF t
      <3> QED
        BY <3>1, <1>4, <1>5
    <2>2. \A i \in 1..Len(t) : i \in DOMAIN u /\ u[i] = t[i]
      BY <1>0, <1>4, <1>5 DEF t
    <2>3. Len(t) + 1 \in DOMAIN u
      BY <1>0, <1>5 DEF t
    <2> QED
      BY <2>1, <2>2, <2>3, <1>4, <1>5 DEF ToSet
  <1>7. IsInjective(u)
    <2>1. IsInjective(t)
      BY DEF Holds, t
    <2> SUFFICES ASSUME NEW i \in DOMAIN u, NEW j \in DOMAIN u, u[i] = u[j] PROVE i = j
      BY DEF IsInjective
    <2>2. /\ i = Len(t) + 1 \/ i \in 1..Len(t)
          /\ j = Len(t) + 1 \/ j \in 1..Len(t)
      BY <1>0, <1>5 DEF t
    <2> QED
      BY <2>1, <2>2, <1>3, <1>4, <1>5 DEF IsInjective
  <1>8. ToSet(u) = {Interface(ids, q) : q \in T \cup {p}}
    BY <1>6 DEF Holds, x, t
  <1>9. new.down = {q \in T \cup {p} : status[q] = "DOWN"}
    <2>1. acc.down = {q \in T : status[q] = "DOWN"}
      BY DEF Holds
    <2> QED
      BY <1>1, <2>1
  <1>10. new.ifaces = u
    BY <1>1
  <1> QED
    BY <1>4, <1>7, <1>8, <1>9, <1>10 DEF Holds, new, t

LEMMA TakenPorts ==
    ASSUME NEW ids \in Seq(Subnets), NEW status, NEW ports \in Seq(Ports), IsInjective(ports),
           NEW R, StrictOrder(R, Ports), Ranked(ports, R), NEW A,
           A = {p \in ToSet(ports) : Matches(ids, p)}
    PROVE  /\ Holds(TakeAll(ids, status, ports), ids, status, FirstOf(A, R))
           /\ CutOff(Len(TakeAll(ids, status, ports).ifaces), Cardinality(A))
  <1> DEFINE N == Len(ports)
             Upto(n) == {p \in Ports : (\E k \in 1..n : ports[k] = p) /\ Matches(ids, p)}
             Done(acc, n) == /\ IsFiniteSet(Upto(n))
                             /\ Holds(acc, ids, status, FirstOf(Upto(n), R))
                             /\ CutOff(Len(acc.ifaces), Cardinality(Upto(n)))
  <1>1. N \in Nat /\ DOMAIN ports = 1..N /\ \A k \in 1..N : ports[k] \in Ports
    BY SequencePlaces
  <1>2. Upto(N) = A
    BY <1>1 DEF ToSet
  <1>3. PICK taken : Takes(taken, ids, status, ports) /\ TakeAll(ids, status, ports) = taken[N]
    BY TakenLoop
  <1> DEFINE Claim == {n \in 0..N : Done(taken[n], n)}
  <1>4. MaxInterfaces \in Nat \ {0}
    BY PortMappingAssumption
  <1>5. 0 \in Claim
    <2>1. Upto(0) = {} /\ IsFiniteSet({}) /\ Cardinality({}) = 0
      BY FS_EmptySet
    <2>2. FirstOf({}, R) = {}
      BY DEF FirstOf
    <2> DEFINE none == [ifaces |-> <<>>, down |-> {}]
    <2>3. Holds(none, ids, status, {})
      <3>1. <<>> \in Seq(Unfinished) /\ ToSet(<<>>) = {} /\ IsInjective(<<>>)
        BY DEF ToSet, IsInjective
      <3> QED
        BY <3>1 DEF Holds
    <2>4. CutOff(Len(none.ifaces), 0)
      BY <1>4 DEF CutOff
    <2> HIDE DEF Upto, none
    <2>5. Done(none, 0)
      BY <2>1, <2>2, <2>3, <2>4
    <2>6. taken[0] = none
      BY <1>3 DEF Takes, none
    <2> HIDE DEF Done
    <2> QED
      BY <2>5, <2>6, <1>1
  <1>6. ASSUME NEW n \in 0..N - 1, n \in Claim PROVE n + 1 \in Claim
    <2> DEFINE p == ports[n + 1]
               B == Upto(n)
               acc == taken[n]
               C == Cardinality(B)
    <2>1. n + 1 \in 1..N /\ n \in Nat /\ (n + 1) - 1 = n /\ Done(acc, n)
      BY <1>1, <1>6
    <2>2. p \in Ports /\ \A k \in 1..n : ports[k] # p /\ k \in 1..N /\ k < n + 1
      BY <2>1, <1>1 DEF IsInjective
    <2>3. taken[n + 1] = Take(ids, status, acc, p)
      BY <2>1, <1>3 DEF Takes
    <2>4. ComesLast(B, R, p)
      <3>1. p \notin B
        BY <2>2
      <3>2. ASSUME NEW q \in B PROVE q \in Ports /\ <<q, p>> \in R
        <4>1. PICK k \in 1..n : ports[k] = q
          OBVIOUS
        <4>2. k \in 1..N /\ k < n + 1
          BY <2>2
        <4> QED
          BY <4>1, <4>2, <2>1 DEF Ranked
      <3>3. <<p, p>> \notin R /\ \A q \in B : <<p, q>> \notin R
        BY <3>2, <2>2 DEF StrictOrder
      <3> QED
        BY <3>1, <3>2, <3>3 DEF ComesLast
    <2>5. Upto(n + 1) = IF Matches(ids, p) THEN B \cup {p} ELSE B
      <3>1. \A q \in Ports : (\E k \in 1..n + 1 : ports[k] = q) <=> q = p \/ \E k \in 1..n : ports[k] = q
        BY <2>1
      <3> QED
        BY <3>1, <2>2
    <2>6. IsFiniteSet(B) /\ C \in Nat
      BY <2>1, FS_CardinalityType
    <2>7. /\ Holds(acc, ids, status, FirstOf(B, R)) /\ CutOff(Len(acc.ifaces), C)
          /\ Len(acc.ifaces) \in Nat
      BY <2>1 DEF Holds
    <2>8. B \subseteq Ports
      OBVIOUS
    <2> HIDE DEF p, B, acc, Upto
    <2>9. CASE ~Matches(ids, p)
      <3>1. taken[n + 1] = acc /\ Upto(n + 1) = B
        BY <2>3, <2>5, <2>9 DEF Take
      <3>2. Done(taken[n + 1], n + 1)
        BY <3>1, <2>6, <2>7
      <3> HIDE DEF Done, N
      <3> QED
        BY <2>1, <3>2
    <2>10. CASE Matches(ids, p) /\ ~(C < MaxInterfaces)
      <3>1. ~(Len(acc.ifaces) < MaxInterfaces)
        BY <2>6, <2>7, <2>10, <1>4 DEF CutOff
      <3>2. taken[n + 1] = acc /\ Upto(n + 1) = B \cup {p}
        BY <3>1, <2>3, <2>5, <2>7, <2>10, <1>4 DEF Take
      <3>3. FirstOf(B \cup {p}, R) = FirstOf(B, R)
        BY <2>4, <2>10, FirstOfMore
      <3>4. IsFiniteSet(B \cup {p}) /\ Cardinality(B \cup {p}) = C + 1
        BY <2>4, <2>6, FS_AddElement DEF ComesLast
      <3>5. CutOff(Len(acc.ifaces), C + 1)
        BY <2>6, <2>7, <2>10, <1>4 DEF CutOff
      <3> HIDE DEF C
      <3>6. Done(taken[n + 1], n + 1)
        BY <3>2, <3>3, <3>4, <3>5, <2>7
      <3> HIDE DEF Done, N
      <3> QED
        BY <2>1, <3>6
    <2>11. CASE Matches(ids, p) /\ C < MaxInterfaces
      <3>1. Len(acc.ifaces) < MaxInterfaces /\ Len(acc.ifaces) = C
        BY <2>6, <2>7, <2>11, <1>4 DEF CutOff
      <3>2. Upto(n + 1) = B \cup {p}
        BY <2>5, <2>11
      <3>3. FirstOf(B \cup {p}, R) = FirstOf(B, R) \cup {p}
        BY <2>4, <2>11, FirstOfMore
      <3>4. IsFiniteSet(B \cup {p}) /\ Cardinality(B \cup {p}) = C + 1
        BY <2>4, <2>6, FS_AddElement DEF ComesLast
      <3>5. FirstOf(B, R) \in SUBSET Ports /\ p \notin FirstOf(B, R)
        BY <2>4, <2>8 DEF FirstOf, ComesLast
      <3>6. /\ Holds(Take(ids, status, acc, p), ids, status, FirstOf(B, R) \cup {p})
            /\ Len(Take(ids, status, acc, p).ifaces) = Len(acc.ifaces) + 1
        BY <3>1, <3>5, <2>2, <2>7, <2>11, TakeHolds
      <3>7. CutOff(C + 1, C + 1)
        BY <2>6, <2>11, <1>4 DEF CutOff
      <3> HIDE DEF C
      <3>8. Done(taken[n + 1], n + 1)
        BY <3>1, <3>2, <3>3, <3>4, <3>6, <3>7, <2>3
      <3> HIDE DEF Done, N
      <3> QED
        BY <2>1, <3>8
    <2> HIDE DEF Claim, C
    <2> QED
      BY <2>9, <2>10, <2>11
  <1>7. \A n \in 0..N : n \in Claim
    <2> HIDE DEF Claim, N
    <2> QED
      BY <1>1, <1>5, <1>6, InductionTo
  <1>8. Done(taken[N], N)
    <2>1. N \in Claim
      <3> HIDE DEF Claim, N
      <3> QED
        BY <1>1, <1>7
    <2> QED
      BY <2>1
  <1> HIDE DEF Upto
  <1> QED
    BY <1>2, <1>3, <1>8

----------------------------------------------------------------------------
(* The nodes.                                                              *)

Listings == {list \in Seq(Ports) : IsInjective(list)}

CandidatesIn(list, ids, status, vm) ==
    {p \in ToSet(list) : DeviceOf[p] = vm /\ Eligible(status, p) /\ Matches(ids, p)}

PlacedIn(list, ids, status, vm) ==
    FirstOf(CandidatesIn(list, ids, status, vm), ByFilter(ids))

\* The ports of a VM are those that are placed.
LEMMA PortsAreMapped ==
    ASSUME NEW list \in Listings, NEW ids \in Seq(Subnets), NEW status, NEW vm
    PROVE  /\ Holds(MapVM(list, ids, status, vm), ids, status, PlacedIn(list, ids, status, vm))
           /\ CutOff(Len(MapVM(list, ids, status, vm).ifaces),
                     Cardinality(CandidatesIn(list, ids, status, vm)))
  <1> DEFINE mine == {p \in Ports : DeviceOf[p] = vm /\ Eligible(status, p)}
             own == PortsOfVM(list, status, vm)
             sorted == SortedBy(own, ByFilter(ids))
             A == CandidatesIn(list, ids, status, vm)
  <1>1. list \in Seq(Ports) /\ IsInjective(list)
    BY DEF Listings
  <1>2. own = Selected(list, mine)
    BY DEF PortsOfVM
  <1>3. own \in Seq(Ports) /\ ToSet(own) = ToSet(list) \cap mine /\ IsInjective(own)
    BY <1>1, <1>2, SelectedElements
  <1>4. StrictOrder(ByFilter(ids), Ports) /\ ToSet(own) \subseteq Ports
    BY <1>3, FilterOrder
  <1>5. StrictOrder(ByFilter(ids), ToSet(own))
    BY <1>4, SubOrder
  <1>6. MapVM(list, ids, status, vm) = TakeAll(ids, status, sorted)
    BY DEF MapVM, ByFilter
  <1>7. ToSet(list) \subseteq Ports
    BY <1>1, SequencePlaces
  <1>8. A = {p \in ToSet(own) : Matches(ids, p)}
    BY <1>3, <1>7 DEF CandidatesIn
  <1> HIDE DEF own, A, mine
  <1>9. sorted \in Seq(Ports) /\ ToSet(sorted) = ToSet(own) /\ Ranked(sorted, ByFilter(ids))
    BY <1>3, <1>5, SortedElements
  <1> HIDE DEF sorted
  <1>10. IsInjective(sorted)
    BY <1>5, <1>9, RankedInjective
  <1>11. A = {p \in ToSet(sorted) : Matches(ids, p)}
    BY <1>8, <1>9
  <1>12. /\ Holds(TakeAll(ids, status, sorted), ids, status, FirstOf(A, ByFilter(ids)))
         /\ CutOff(Len(TakeAll(ids, status, sorted).ifaces), Cardinality(A))
    BY <1>4, <1>9, <1>10, <1>11, TakenPorts
  <1> QED
    BY <1>6, <1>12 DEF A, PlacedIn

\* The order of the interfaces of a node.
ByMac(A) == {xy \in A \X A : LessByMac(xy[1].port, xy[2].port)}

InterfacesOf(ids, T) == {Interface(ids, p) : p \in T}

\* t has the interfaces of A in their order.
Normal(t, A) == t \in Seq(Unfinished) /\ ToSet(t) = A /\ Ranked(t, ByMac(A))

LEMMA InterfaceOrder ==
    ASSUME NEW ids, NEW T \in SUBSET Ports
    PROVE  StrictOrder(ByMac(InterfacesOf(ids, T)), InterfacesOf(ids, T))
  <1> DEFINE A == InterfacesOf(ids, T)
  <1>1. ASSUME NEW x \in A PROVE x.port \in Ports /\ x = Interface(ids, x.port)
    BY DEF InterfacesOf, Interface
  <1>2. \A x, y \in A : <<x, y>> \in ByMac(A) <=> LessByMac(x.port, y.port)
    BY DEF ByMac
  <1>3. \A x, y \in A : x # y => x.port # y.port
    BY <1>1
  <1> HIDE DEF A
  <1>4. \A x \in A : <<x, x>> \notin ByMac(A)
    BY <1>1, <1>2, MacOrder
  <1>5. \A x, y, z \in A : <<x, y>> \in ByMac(A) /\ <<y, z>> \in ByMac(A) => <<x, z>> \in ByMac(A)
    BY <1>1, <1>2, MacOrder
  <1>6. \A x, y \in A : x # y => <<x, y>> \in ByMac(A) \/ <<y, x>> \in ByMac(A)
    BY <1>1, <1>2, <1>3, MacOrder
  <1> QED
    BY <1>4, <1>5, <1>6 DEF A, StrictOrder

LEMMA NormalUnique ==
    ASSUME NEW ids, NEW T \in SUBSET Ports, NEW A, A = InterfacesOf(ids, T),
           NEW t, NEW u, Normal(t, A), Normal(u, A)
    PROVE  t = u
  <1>1. StrictOrder(ByMac(A), A)
    BY InterfaceOrder
  <1>2. /\ t \in Seq(Unfinished) /\ ToSet(t) = A /\ Ranked(t, ByMac(A))
        /\ u \in Seq(Unfinished) /\ ToSet(u) = A /\ Ranked(u, ByMac(A))
    BY DEF Normal
  <1> QED
    BY <1>1, <1>2, SortedUnique

LEMMA PlacedArePorts ==
    ASSUME NEW list \in Listings, NEW ids, NEW status, NEW vm
    PROVE  PlacedIn(list, ids, status, vm) \in SUBSET Ports
  <1>1. ToSet(list) \subseteq Ports
    BY SequencePlaces DEF Listings
  <1> QED
    BY <1>1 DEF PlacedIn, FirstOf, CandidatesIn

LEMMA NodeInterfaces ==
    ASSUME NEW list \in Listings, NEW ids \in Seq(Subnets), NEW status, NEW vm
    PROVE  Normal(NodeOf(list, ids, status, vm).interfaces,
                  InterfacesOf(ids, PlacedIn(list, ids, status, vm)))
  <1> DEFINE t == MapVM(list, ids, status, vm).ifaces
             T == PlacedIn(list, ids, status, vm)
             A == InterfacesOf(ids, T)
             R == ByMac(A)
  <1>1. t \in Seq(Unfinished) /\ IsInjective(t) /\ ToSet(t) = A
    BY PortsAreMapped DEF Holds, InterfacesOf
  <1>2. StrictOrder(R, A)
    BY PlacedArePorts, InterfaceOrder
  <1>3. NodeOf(list, ids, status, vm).interfaces = Normalize(t)
    BY DEF NodeOf
  <1> HIDE DEF t, A
  <1>4. Normalize(t) = SortedBy(t, R)
    BY <1>1 DEF Normalize, ByMac
  <1> HIDE DEF R
  <1>5. SortedBy(t, R) \in Seq(Unfinished) /\ ToSet(SortedBy(t, R)) = A /\ Ranked(SortedBy(t, R), R)
    BY <1>1, <1>2, SortedElements
  <1> QED
    BY <1>3, <1>4, <1>5 DEF Normal, R, A

\* The configs, before their MTU is known.
Wired == [instanceID : VMs, interfaces : Seq(Unfinished) \ {<<>>}]

\* The nodes of all VMs, those without interfaces too.
AllNodes(list, ids, status) == [n \in DOMAIN Listed |-> NodeOf(list, ids, status, Listed[n])]

LEMMA AllNodesTyped ==
    ASSUME NEW list \in Listings, NEW ids \in Seq(Subnets), NEW status
    PROVE  /\ AllNodes(list, ids, status) \in Seq([instanceID : VMs, interfaces : Seq(Unfinished)])
           /\ Len(AllNodes(list, ids, status)) = Len(Listed)
  <1>1. /\ Len(Listed) \in Nat /\ DOMAIN Listed = 1..Len(Listed)
        /\ \A n \in 1..Len(Listed) : Listed[n] \in VMs
    BY SequencePlaces, PortMappingAssumption
  <1>2. ASSUME NEW vm \in VMs
        PROVE  NodeOf(list, ids, status, vm) \in [instanceID : VMs, interfaces : Seq(Unfinished)]
    <2>1. NodeOf(list, ids, status, vm).interfaces \in Seq(Unfinished)
      BY NodeInterfaces DEF Normal
    <2> QED
      BY <2>1 DEF NodeOf
  <1> QED
    BY <1>1, <1>2 DEF AllNodes

\* configs has one node for each VM with ports that are placed, and these are
\* its interfaces.
NodesOfVMs(configs, list, ids, status) ==
    /\ configs \in Seq(Wired)
    /\ \A n \in DOMAIN configs :
          /\ configs[n].instanceID \in ToSet(Listed)
          /\ Normal(configs[n].interfaces,
                    InterfacesOf(ids, PlacedIn(list, ids, status, configs[n].instanceID)))
    /\ \A vm \in ToSet(Listed) : PlacedIn(list, ids, status, vm) # {} =>
          \E n \in DOMAIN configs : configs[n].instanceID = vm
    /\ \A m, n \in DOMAIN configs : configs[m].instanceID = configs[n].instanceID => m = n

LEMMA NodesAreMapped ==
    ASSUME NEW list \in Listings, NEW ids \in Seq(Subnets), NEW status
    PROVE  NodesOfVMs(NodesFrom(list, ids, status), list, ids, status)
  <1> DEFINE all == AllNodes(list, ids, status)
             configs == NodesFrom(list, ids, status)
             Placing(vm) == PlacedIn(list, ids, status, vm)
             N == Len(Listed)
  <1>1. /\ N \in Nat /\ DOMAIN Listed = 1..N
        /\ \A n \in 1..N : Listed[n] \in VMs /\ Listed[n] \in ToSet(Listed)
        /\ \A vm \in ToSet(Listed) : \E n \in 1..N : Listed[n] = vm
    BY SequencePlaces, PortMappingAssumption
  <1>2. all \in Seq([instanceID : VMs, interfaces : Seq(Unfinished)]) /\ Len(all) = N
    BY AllNodesTyped
  <1>3. configs = Selected(all, Wired)
    BY DEF NodesFrom, AllNodes, Wired, Unfinished
  <1>4. ASSUME NEW n \in 1..N
        PROVE  /\ all[n].instanceID = Listed[n]
               /\ Normal(all[n].interfaces, InterfacesOf(ids, Placing(Listed[n])))
               /\ all[n] \in [instanceID : VMs, interfaces : Seq(Unfinished)]
    <2>1. all[n] = NodeOf(list, ids, status, Listed[n])
      BY <1>1 DEF AllNodes
    <2>2. all[n] \in [instanceID : VMs, interfaces : Seq(Unfinished)]
      BY <1>2, SequencePlaces
    <2> HIDE DEF all
    <2>3. Normal(all[n].interfaces, InterfacesOf(ids, Placing(Listed[n])))
      BY <2>1, NodeInterfaces
    <2> QED
      BY <2>1, <2>2, <2>3 DEF NodeOf
  <1> HIDE DEF all
  <1>5. ASSUME NEW n \in 1..N, Placing(Listed[n]) # {} PROVE all[n] \in Wired
    <2>1. InterfacesOf(ids, Placing(Listed[n])) # {}
      BY <1>5 DEF InterfacesOf
    <2>2. ToSet(<<>>) = {}
      BY DEF ToSet
    <2>3. all[n].interfaces # <<>>
      BY <1>4, <2>1, <2>2 DEF Normal
    <2> QED
      BY <1>4, <2>3 DEF Wired
  <1>6. configs \in Seq([instanceID : VMs, interfaces : Seq(Unfinished)])
    BY <1>2, <1>3, SelectedPlaces
  <1>7. PICK at : TakenFrom(at, configs, all, Wired, N)
    BY <1>2, <1>3, SelectedPlaces
  <1> HIDE DEF configs, N
  <1>8. Len(configs) \in Nat /\ DOMAIN configs = 1..Len(configs)
    BY <1>6
  <1>9. ASSUME NEW n \in 1..Len(configs)
        PROVE  /\ at[n] \in 1..N /\ configs[n] = all[at[n]] /\ configs[n] \in Wired
               /\ configs[n].instanceID = Listed[at[n]]
    <2>1. at[n] \in 1..N /\ configs[n] = all[at[n]] /\ configs[n] \in Wired
      BY <1>7 DEF TakenFrom
    <2> QED
      BY <2>1, <1>4
  <1>10. configs \in Seq(Wired)
    BY <1>6, <1>9, SequenceOf
  <1>11. ASSUME NEW n \in DOMAIN configs
         PROVE  /\ configs[n].instanceID \in ToSet(Listed)
                /\ Normal(configs[n].interfaces, InterfacesOf(ids, Placing(configs[n].instanceID)))
    BY <1>1, <1>4, <1>8, <1>9
  <1>12. ASSUME NEW vm \in ToSet(Listed), Placing(vm) # {}
         PROVE  \E n \in DOMAIN configs : configs[n].instanceID = vm
    <2>1. PICK k \in 1..N : Listed[k] = vm
      BY <1>1
    <2>2. all[k] \in Wired
      BY <2>1, <1>5, <1>12
    <2>3. PICK n \in 1..Len(configs) : at[n] = k
      BY <2>2, <1>7 DEF TakenFrom
    <2> QED
      BY <2>1, <2>3, <1>8, <1>9
  <1>13. ASSUME NEW m \in DOMAIN configs, NEW n \in DOMAIN configs,
                configs[m].instanceID = configs[n].instanceID
         PROVE  m = n
    <2>1. /\ m \in 1..Len(configs) /\ n \in 1..Len(configs) /\ m \in Nat /\ n \in Nat
          /\ at[m] \in 1..N /\ at[n] \in 1..N /\ Listed[at[m]] = Listed[at[n]]
      BY <1>8, <1>9, <1>13
    <2>2. at[m] = at[n]
      BY <2>1, <1>1, PortMappingAssumption DEF IsInjective
    <2>3. at[m] \in Nat
      BY <2>1
    <2>4. ~(m < n) /\ ~(n < m)
      BY <2>1, <2>2, <2>3, <1>7 DEF TakenFrom
    <2> QED
      BY <2>1, <2>4
  <1> QED
    BY <1>10, <1>11, <1>12, <1>13 DEF NodesOfVMs, configs

DownOf(T, status) == {p \in T : status[p] = "DOWN"}

LEMMA DownPortsAreMapped ==
    ASSUME NEW list \in Listings, NEW ids \in Seq(Subnets), NEW status, NEW vm
    PROVE  MapVM(list, ids, status, vm).down = DownOf(PlacedIn(list, ids, status, vm), status)
  BY PortsAreMapped DEF Holds, DownOf

----------------------------------------------------------------------------
(* What the nodes do not depend on.                                        *)

\* The same interfaces are wired to every VM.
LEMMA SameNodes ==
    ASSUME NEW list1 \in Listings, NEW list2 \in Listings,
           NEW ids1 \in Seq(Subnets), NEW ids2 \in Seq(Subnets), NEW status,
           \A vm \in ToSet(Listed) :
               InterfacesOf(ids1, PlacedIn(list1, ids1, status, vm)) =
               InterfacesOf(ids2, PlacedIn(list2, ids2, status, vm))
    PROVE  NodesFrom(list1, ids1, status) = NodesFrom(list2, ids2, status)
  <1>1. ASSUME NEW vm \in ToSet(Listed)
        PROVE  NodeOf(list1, ids1, status, vm) = NodeOf(list2, ids2, status, vm)
    <2> DEFINE t == NodeOf(list1, ids1, status, vm).interfaces
               u == NodeOf(list2, ids2, status, vm).interfaces
               T == PlacedIn(list1, ids1, status, vm)
               A == InterfacesOf(ids1, T)
    <2>1. T \in SUBSET Ports
      BY PlacedArePorts
    <2>2. Normal(t, A)
      BY NodeInterfaces
    <2>3. Normal(u, InterfacesOf(ids2, PlacedIn(list2, ids2, status, vm)))
      BY NodeInterfaces
    <2>4. Normal(u, A)
      BY <2>3
    <2> HIDE DEF t, u, T
    <2>5. t = u
      BY <2>1, <2>2, <2>4, NormalUnique
    <2> QED
      BY <2>5 DEF t, u, NodeOf
  <1>2. \A n \in DOMAIN Listed : Listed[n] \in ToSet(Listed)
    BY DEF ToSet
  <1>3. AllNodes(list1, ids1, status) = AllNodes(list2, ids2, status)
    BY <1>1, <1>2 DEF AllNodes
  <1> QED
    BY <1>3 DEF NodesFrom, AllNodes

\* The order in which the ports are listed does not count.
LEMMA OrderOfListing ==
    ASSUME NEW list1 \in Listings, NEW list2 \in Listings, ToSet(list1) = ToSet(list2),
           NEW ids \in Seq(Subnets), NEW status
    PROVE  /\ NodesFrom(list1, ids, status) = NodesFrom(list2, ids, status)
           /\ DownFrom(list1, ids, status) = DownFrom(list2, ids, status)
  <1>1. \A vm : PlacedIn(list1, ids, status, vm) = PlacedIn(list2, ids, status, vm)
    BY DEF PlacedIn, CandidatesIn
  <1>2. NodesFrom(list1, ids, status) = NodesFrom(list2, ids, status)
    BY <1>1, SameNodes
  <1>3. DownFrom(list1, ids, status) = DownFrom(list2, ids, status)
    <2>1. \A vm : MapVM(list1, ids, status, vm).down = MapVM(list2, ids, status, vm).down
      BY <1>1, DownPortsAreMapped
    <2> QED
      BY <2>1 DEF DownFrom
  <1> QED
    BY <1>2, <1>3

\* Below the limit, all have a place.
LEMMA AllArePlaced ==
    ASSUME NEW C \in SUBSET Ports, IsFiniteSet(C), Cardinality(C) <= MaxInterfaces,
           NEW R, StrictOrder(R, Ports)
    PROVE  FirstOf(C, R) = C
  <1>1. ASSUME NEW p \in C PROVE Cardinality({q \in C : <<q, p>> \in R}) < MaxInterfaces
    <2> DEFINE B == {q \in C : <<q, p>> \in R}
    <2>1. B \in SUBSET (C \ {p})
      BY DEF StrictOrder
    <2>2. IsFiniteSet(C \ {p}) /\ Cardinality(C \ {p}) = Cardinality(C) - 1
      BY FS_RemoveElement
    <2> HIDE DEF B
    <2>3. IsFiniteSet(B) /\ Cardinality(B) <= Cardinality(C) - 1
      BY <2>1, <2>2, FS_Subset
    <2>4. Cardinality(B) \in Nat /\ Cardinality(C) \in Nat /\ MaxInterfaces \in Nat
      BY <2>3, FS_CardinalityType, PortMappingAssumption
    <2>5. Cardinality(B) < MaxInterfaces
      BY <2>3, <2>4
    <2> QED
      BY <2>5 DEF B
  <1> QED
    BY <1>1 DEF FirstOf

\* The order of the filters does not count for a VM whose ports have all a
\* place, and an address that is the only one to match.
LEMMA OrderOfFilters ==
    ASSUME NEW list \in Listings, NEW ids1 \in Seq(Subnets), NEW ids2 \in Seq(Subnets),
           ToSet(ids1) = ToSet(ids2), NEW status, NEW vm,
           Cardinality(CandidatesIn(list, ids1, status, vm)) <= MaxInterfaces,
           \A p \in ToSet(list) : DeviceOf[p] = vm =>
               Cardinality(ToSet(FixedIPs[p]) \cap ToSet(ids1)) <= 1
    PROVE  InterfacesOf(ids1, PlacedIn(list, ids1, status, vm)) =
           InterfacesOf(ids2, PlacedIn(list, ids2, status, vm))
  <1>1. list \in Seq(Ports) /\ ToSet(list) \subseteq Ports /\ IsFiniteSet(ToSet(list))
    BY SequencePlaces, ListIsFinite DEF Listings
  <1>2. ASSUME NEW p \in ToSet(list), DeviceOf[p] = vm
        PROVE  /\ Matches(ids1, p) <=> Matches(ids2, p)
               /\ Matches(ids1, p) => Interface(ids1, p) = Interface(ids2, p)
    <2> DEFINE X == ToSet(FixedIPs[p]) \cap ToSet(ids1)
    <2>1. p \in Ports /\ Found(ids1, p) = X /\ Found(ids2, p) = X
      BY <1>1 DEF Found
    <2>2. IsFiniteSet(X) /\ Cardinality(X) <= 1
      <3>1. IsFiniteSet(ToSet(FixedIPs[p]))
        BY <2>1, ListIsFinite, PortMappingAssumption
      <3> QED
        BY <3>1, <1>2, FS_Subset
    <2>3. X = ToSet(FixedIPs[p]) \cap ToSet(ids2)
      OBVIOUS
    <2> HIDE DEF X
    <2>4. CASE X = {}
      BY <2>3, <2>4 DEF Matches, X
    <2>5. CASE X # {}
      <3>1. SelectFixedIP(ids1, p) \in X /\ SelectFixedIP(ids2, p) \in X
        BY <2>1, <2>5, SelectedIsFirst
      <3>2. SelectFixedIP(ids1, p) = SelectFixedIP(ids2, p)
        BY <3>1, <2>2, AtMostOne
      <3> QED
        BY <3>2, <2>3 DEF Matches, Interface, X
    <2> QED
      BY <2>4, <2>5
  <1> DEFINE C == CandidatesIn(list, ids1, status, vm)
  <1>3. C = CandidatesIn(list, ids2, status, vm)
    BY <1>2 DEF CandidatesIn
  <1>4. C \in SUBSET Ports /\ C \in SUBSET ToSet(list)
    BY <1>1 DEF CandidatesIn
  <1>5. \A p \in C : Interface(ids1, p) = Interface(ids2, p)
    BY <1>2 DEF CandidatesIn
  <1>6. Cardinality(C) <= MaxInterfaces
    OBVIOUS
  <1> HIDE DEF C
  <1>7. IsFiniteSet(C)
    BY <1>1, <1>4, FS_Subset
  <1>8. FirstOf(C, ByFilter(ids1)) = C /\ FirstOf(C, ByFilter(ids2)) = C
    BY <1>4, <1>6, <1>7, AllArePlaced, FilterOrder
  <1>9. PlacedIn(list, ids1, status, vm) = C /\ PlacedIn(list, ids2, status, vm) = C
    BY <1>3, <1>8 DEF PlacedIn, C
  <1> QED
    BY <1>5, <1>9 DEF InterfacesOf

----------------------------------------------------------------------------
(* The invariant: the nodes are what the present ports and filters make.   *)

Sound ==
    /\ listing \in Listings
    /\ portStatus \in [Ports -> Statuses]
    /\ subnetIDs \in Filters

UpToDate ==
    /\ \E lost : nodes = WithMTU(NodesFrom(listing, subnetIDs, portStatus), subnetIDs, lost)
    /\ downPortIDs = DownFrom(listing, subnetIDs, portStatus)

LEMMA WithMTUTyped ==
    ASSUME NEW configs \in Seq(Wired), NEW ids \in Filters, NEW lost
    PROVE  WithMTU(configs, ids, lost) \in
               Seq([instanceID : VMs, interfaces : Seq(Interfaces) \ {<<>>}])
  <1> DEFINE done(t) == [i \in DOMAIN t |-> [port |-> t[i].port, subnet |-> t[i].subnet,
                                             mtu |-> SubnetMTU(ids, lost, t[i].subnet)]]
  <1>1. ASSUME NEW s \in Subnets PROVE SubnetMTU(ids, lost, s) \in Nat
    <2>1. NetworkMTU[SubnetNetwork[s]] \in Nat
      BY PortMappingAssumption
    <2> QED
      BY <2>1 DEF SubnetMTU
  <1>2. ASSUME NEW t \in Seq(Unfinished), t # <<>>
        PROVE  done(t) \in Seq(Interfaces) \ {<<>>}
    <2>1. Len(t) \in Nat \ {0} /\ DOMAIN t = 1..Len(t) /\ \A i \in 1..Len(t) : t[i] \in Unfinished
      BY <1>2, SequencePlaces, EmptySeq
    <2>2. ASSUME NEW i \in 1..Len(t) PROVE done(t)[i] \in Interfaces
      <3>1. t[i].port \in Ports /\ t[i].subnet \in Subnets
        BY <2>1 DEF Unfinished
      <3> QED
        BY <3>1, <2>1, <1>1 DEF Interfaces
    <2>3. done(t) \in [1..Len(t) -> Interfaces]
      BY <2>1, <2>2
    <2> HIDE DEF done
    <2>4. done(t) \in Seq(Interfaces) /\ Len(done(t)) = Len(t)
      BY <2>1, <2>3
    <2>5. done(t) # <<>>
      BY <2>1, <2>4
    <2> QED
      BY <2>4, <2>5
  <1> DEFINE node(c) == [instanceID |-> c.instanceID, interfaces |-> done(c.interfaces)]
  <1>3. ASSUME NEW c \in Wired
        PROVE  node(c) \in [instanceID : VMs, interfaces : Seq(Interfaces) \ {<<>>}]
    <2>1. c.instanceID \in VMs /\ c.interfaces \in Seq(Unfinished) /\ c.interfaces # <<>>
      BY DEF Wired
    <2>2. done(c.interfaces) \in Seq(Interfaces) \ {<<>>}
      BY <2>1, <1>2
    <2> HIDE DEF done
    <2> QED
      BY <2>1, <2>2
  <1>4. WithMTU(configs, ids, lost) = [n \in DOMAIN configs |-> node(configs[n])]
    BY DEF WithMTU
  <1> HIDE DEF node
  <1>5. Len(configs) \in Nat /\ DOMAIN configs = 1..Len(configs) /\ \A n \in 1..Len(configs) : configs[n] \in Wired
    BY SequencePlaces
  <1> QED
    BY <1>3, <1>4, <1>5

\* The MTU leaves the wiring as it is.
LEMMA WithMTUWiring ==
    ASSUME NEW configs, NEW ids, NEW lost
    PROVE  Wiring(WithMTU(configs, ids, lost)) = Wiring(configs)
  <1> DEFINE w == WithMTU(configs, ids, lost)
             pairs(t) == [i \in DOMAIN t |-> <<t[i].port, t[i].subnet>>]
  <1>1. DOMAIN w = DOMAIN configs
    BY DEF WithMTU
  <1>2. ASSUME NEW n \in DOMAIN configs
        PROVE  /\ w[n].instanceID = configs[n].instanceID
               /\ pairs(w[n].interfaces) = pairs(configs[n].interfaces)
    <2> DEFINE t == configs[n].interfaces
               u == [i \in DOMAIN t |-> [port |-> t[i].port, subnet |-> t[i].subnet,
                                         mtu |-> SubnetMTU(ids, lost, t[i].subnet)]]
    <2>1. w[n] = [instanceID |-> configs[n].instanceID, interfaces |-> u]
      BY DEF WithMTU
    <2>2. pairs(u) = pairs(t)
      <3>1. \A i \in DOMAIN t : u[i].port = t[i].port /\ u[i].subnet = t[i].subnet
        OBVIOUS
      <3> QED
        BY <3>1
    <2> HIDE DEF u, pairs
    <2> QED
      BY <2>1, <2>2
  <1>3. \A c : Wiring(c) = [n \in DOMAIN c |-> [vm |-> c[n].instanceID, ports |-> pairs(c[n].interfaces)]]
    BY DEF Wiring
  <1> HIDE DEF w, pairs
  <1> QED
    BY <1>1, <1>2, <1>3 DEF w

LEMMA PortsWithMTU ==
    ASSUME NEW configs, NEW ids, NEW lost, NEW T, NEW n \in DOMAIN configs,
           ToSet(configs[n].interfaces) = InterfacesOf(ids, T)
    PROVE  /\ n \in DOMAIN WithMTU(configs, ids, lost)
           /\ WithMTU(configs, ids, lost)[n].instanceID = configs[n].instanceID
           /\ PortsOf(WithMTU(configs, ids, lost)[n]) = T
  <1> DEFINE t == configs[n].interfaces
             u == [i \in DOMAIN t |-> [port |-> t[i].port, subnet |-> t[i].subnet,
                                       mtu |-> SubnetMTU(ids, lost, t[i].subnet)]]
  <1>1. /\ n \in DOMAIN WithMTU(configs, ids, lost)
        /\ WithMTU(configs, ids, lost)[n] = [instanceID |-> configs[n].instanceID, interfaces |-> u]
    BY DEF WithMTU
  <1>2. DOMAIN u = DOMAIN t /\ \A i \in DOMAIN t : u[i].port = t[i].port
    OBVIOUS
  <1> HIDE DEF t, u
  <1>3. ToSet(t) = InterfacesOf(ids, T)
    BY DEF t
  <1>4. \A i \in DOMAIN t : t[i].port \in T
    BY <1>3 DEF ToSet, InterfacesOf, Interface
  <1>5. ASSUME NEW p \in T PROVE \E i \in DOMAIN t : t[i].port = p
    <2>1. Interface(ids, p) \in ToSet(t)
      BY <1>3 DEF InterfacesOf
    <2>2. PICK i \in DOMAIN t : t[i] = Interface(ids, p)
      BY <2>1 DEF ToSet
    <2> QED
      BY <2>2 DEF Interface
  <1>6. {u[i].port : i \in DOMAIN u} = T
    BY <1>2, <1>4, <1>5
  <1> QED
    BY <1>1, <1>6 DEF PortsOf

\* The order in the code is that of the properties.
LEMMA OrderIsMeant ==
    ASSUME Sound, NEW vm, NEW p \in Candidates(vm), NEW q \in Candidates(vm)
    PROVE  Before(q, p) <=> <<q, p>> \in ByFilter(subnetIDs)
  <1>1. subnetIDs \in Seq(Subnets) /\ ToSet(listing) \subseteq Ports
    BY SequencePlaces DEF Sound, Filters, Listings
  <1>2. p \in Ports /\ q \in Ports /\ Matches(subnetIDs, p) /\ Matches(subnetIDs, q)
    BY <1>1 DEF Candidates
  <1>3. p \in Nat /\ q \in Nat /\ Mac[p] \in Nat /\ Mac[q] \in Nat
    BY <1>2, PortMappingAssumption
  <1> DEFINE o(x) == OrderOf(subnetIDs, SelectFixedIP(subnetIDs, x))
  <1>4. /\ OrderForPort(subnetIDs, p) = o(p) /\ OrderForPort(subnetIDs, q) = o(q)
        /\ o(p) \in Nat /\ o(q) \in Nat
    BY <1>1, <1>2, MatchIsFound, OrderOfSelected
  <1>5. <<q, p>> \in ByFilter(subnetIDs) <=> o(q) < o(p) \/ (o(q) = o(p) /\ LessByMac(q, p))
    BY <1>2, <1>4 DEF ByFilter, Less
  <1>6. Place(p) = <<o(p), Mac[p], p>> /\ Place(q) = <<o(q), Mac[q], q>>
    BY DEF Place
  <1> HIDE DEF o
  <1>7. Before(q, p) <=>
            \/ o(q) < o(p)
            \/ o(q) = o(p) /\ Mac[q] < Mac[p]
            \/ o(q) = o(p) /\ Mac[q] = Mac[p] /\ q < p
    <2> DEFINE comes(k) == /\ Place(q)[k] < Place(p)[k]
                           /\ \A l \in 1..k - 1 : Place(q)[l] = Place(p)[l]
    <2>1. Before(q, p) <=> comes(1) \/ comes(2) \/ comes(3)
      <3>1. 1..3 = {1, 2, 3}
        OBVIOUS
      <3> QED
        BY <3>1 DEF Before
    <2>2. 1..1 - 1 = {} /\ 1..2 - 1 = {1} /\ 1..3 - 1 = {1, 2}
      OBVIOUS
    <2>3. comes(1) <=> o(q) < o(p)
      BY <2>2, <1>6
    <2>4. comes(2) <=> o(q) = o(p) /\ Mac[q] < Mac[p]
      BY <2>2, <1>6
    <2>5. comes(3) <=> o(q) = o(p) /\ Mac[q] = Mac[p] /\ q < p
      BY <2>2, <1>6
    <2> QED
      BY <2>1, <2>3, <2>4, <2>5
  <1> QED
    BY <1>5, <1>7 DEF LessByMac

LEMMA PlacedIsMeant ==
    ASSUME Sound, NEW vm
    PROVE  Placed(vm) = PlacedIn(listing, subnetIDs, portStatus, vm)
  <1> DEFINE C == Candidates(vm)
             R == ByFilter(subnetIDs)
  <1>1. C = CandidatesIn(listing, subnetIDs, portStatus, vm)
    BY DEF Candidates, CandidatesIn
  <1>2. \A p, q \in C : Before(q, p) <=> <<q, p>> \in R
    BY OrderIsMeant
  <1> HIDE DEF C, R
  <1>3. ASSUME NEW p \in C PROVE {q \in C : Before(q, p)} = {q \in C : <<q, p>> \in R}
    BY <1>2
  <1>4. {p \in C : Cardinality({q \in C : Before(q, p)}) < MaxInterfaces} =
        {p \in C : Cardinality({q \in C : <<q, p>> \in R}) < MaxInterfaces}
    BY <1>3
  <1> QED
    BY <1>1, <1>4 DEF Placed, PlacedIn, FirstOf, C, R

\* What is known of the nodes.
NodesKnown(configs) ==
    /\ NodesOfVMs(configs, listing, subnetIDs, portStatus)
    /\ DOMAIN nodes = DOMAIN configs
    /\ \A n \in DOMAIN nodes :
          /\ nodes[n].instanceID = configs[n].instanceID
          /\ nodes[n].instanceID \in ToSet(Listed)
          /\ PortsOf(nodes[n]) = Placed(nodes[n].instanceID)
          /\ PortsOf(nodes[n]) # {}

LEMMA NodesAreKnown ==
    ASSUME Sound, UpToDate
    PROVE  \E configs : NodesKnown(configs)
  <1>1. PICK lost : nodes = WithMTU(NodesFrom(listing, subnetIDs, portStatus), subnetIDs, lost)
    BY DEF UpToDate
  <1> DEFINE configs == NodesFrom(listing, subnetIDs, portStatus)
  <1>2. listing \in Listings /\ subnetIDs \in Seq(Subnets)
    BY DEF Sound, Filters
  <1>3. NodesOfVMs(configs, listing, subnetIDs, portStatus)
    BY <1>2, NodesAreMapped
  <1>4. nodes = WithMTU(configs, subnetIDs, lost)
    BY <1>1
  <1> HIDE DEF configs
  <1>5. DOMAIN nodes = DOMAIN configs
    BY <1>4 DEF WithMTU
  <1>6. ASSUME NEW n \in DOMAIN configs
        PROVE  /\ nodes[n].instanceID = configs[n].instanceID
               /\ configs[n].instanceID \in ToSet(Listed)
               /\ PortsOf(nodes[n]) = Placed(configs[n].instanceID)
               /\ PortsOf(nodes[n]) # {}
    <2> DEFINE T == PlacedIn(listing, subnetIDs, portStatus, configs[n].instanceID)
               t == configs[n].interfaces
    <2>1. configs[n].instanceID \in ToSet(Listed) /\ Normal(t, InterfacesOf(subnetIDs, T))
      BY <1>3 DEF NodesOfVMs
    <2>2. t \in Seq(Unfinished) /\ t # <<>>
      <3>1. configs[n] \in Wired
        BY <1>3, SequencePlaces DEF NodesOfVMs
      <3> QED
        BY <3>1 DEF Wired
    <2>3. ToSet(t) = InterfacesOf(subnetIDs, T)
      BY <2>1 DEF Normal
    <2> HIDE DEF T
    <2>4. nodes[n].instanceID = configs[n].instanceID /\ PortsOf(nodes[n]) = T
      BY <1>4, <2>3, PortsWithMTU
    <2> HIDE DEF t
    <2>5. T # {}
      <3>1. Len(t) \in Nat \ {0}
        BY <2>2, EmptySeq
      <3>2. t[1] \in ToSet(t)
        BY <2>2, <3>1, SequencePlaces
      <3> QED
        BY <2>3, <3>2 DEF InterfacesOf
    <2>6. Placed(configs[n].instanceID) = T
      BY PlacedIsMeant DEF T
    <2> QED
      BY <2>1, <2>4, <2>5, <2>6
  <1>7. NodesKnown(configs)
    BY <1>3, <1>5, <1>6 DEF NodesKnown
  <1> QED
    BY <1>7

LEMMA PortsAreFirst ==
    ASSUME Sound, UpToDate
    PROVE  FirstPortsWin
  <1>1. PICK configs : NodesKnown(configs)
    BY NodesAreKnown
  <1> SUFFICES ASSUME NEW vm \in ToSet(Listed)
               PROVE  LET own == {n \in DOMAIN nodes : nodes[n].instanceID = vm} IN
                      IF Placed(vm) = {} THEN own = {}
                      ELSE \E n \in own : own = {n} /\ PortsOf(nodes[n]) = Placed(vm)
    BY DEF FirstPortsWin
  <1> DEFINE own == {n \in DOMAIN nodes : nodes[n].instanceID = vm}
  <1>2. \A n \in own : PortsOf(nodes[n]) = Placed(vm) /\ Placed(vm) # {}
    BY <1>1 DEF NodesKnown
  <1>3. CASE Placed(vm) = {}
    BY <1>2, <1>3
  <1>4. CASE Placed(vm) # {}
    <2>1. PlacedIn(listing, subnetIDs, portStatus, vm) # {}
      BY <1>4, PlacedIsMeant
    <2>2. PICK n \in DOMAIN configs : configs[n].instanceID = vm
      BY <1>1, <2>1 DEF NodesKnown, NodesOfVMs
    <2>3. n \in own
      BY <1>1, <2>2 DEF NodesKnown
    <2>4. \A m \in own : m = n
      BY <1>1, <2>2 DEF NodesKnown, NodesOfVMs
    <2>5. own = {n}
      BY <2>3, <2>4
    <2> QED
      BY <1>2, <1>4, <2>3, <2>5
  <1> QED
    BY <1>3, <1>4

LEMMA DownPortsAreKnown ==
    ASSUME Sound, UpToDate
    PROVE  DownPortsAreSent
  <1>1. PICK configs : NodesKnown(configs)
    BY NodesAreKnown
  <1>2. listing \in Listings /\ subnetIDs \in Seq(Subnets)
    BY DEF Sound, Filters
  <1> DEFINE down(vm) == MapVM(listing, subnetIDs, portStatus, vm).down
  <1>3. \A vm : \A p : p \in down(vm) <=> p \in Placed(vm) /\ portStatus[p] = "DOWN"
    <2>1. \A vm : down(vm) = DownOf(Placed(vm), portStatus)
      BY <1>2, DownPortsAreMapped, PlacedIsMeant
    <2> HIDE DEF down
    <2> QED
      BY <2>1 DEF DownOf
  <1>4. downPortIDs = UNION {down(vm) : vm \in ToSet(Listed)}
    BY DEF UpToDate, DownFrom
  <1> HIDE DEF down
  <1>5. ASSUME NEW p \in downPortIDs
        PROVE  portStatus[p] = "DOWN" /\ \E n \in DOMAIN nodes : p \in PortsOf(nodes[n])
    <2>1. PICK vm \in ToSet(Listed) : p \in down(vm)
      BY <1>4
    <2>2. p \in Placed(vm) /\ portStatus[p] = "DOWN"
      BY <1>3, <2>1
    <2>3. PICK n \in DOMAIN nodes : PortsOf(nodes[n]) = Placed(vm)
      BY <2>2, PortsAreFirst DEF FirstPortsWin
    <2> QED
      BY <2>2, <2>3
  <1>6. ASSUME NEW n \in DOMAIN nodes, NEW p \in PortsOf(nodes[n]), portStatus[p] = "DOWN"
        PROVE  p \in downPortIDs
    <2>1. nodes[n].instanceID \in ToSet(Listed) /\ p \in Placed(nodes[n].instanceID)
      BY <1>1 DEF NodesKnown
    <2>2. p \in down(nodes[n].instanceID)
      BY <1>3, <1>6, <2>1
    <2> QED
      BY <1>4, <2>1, <2>2
  <1>7. \A p : p \in UNION {PortsOf(nodes[n]) : n \in DOMAIN nodes} <=>
               \E n \in DOMAIN nodes : p \in PortsOf(nodes[n])
    OBVIOUS
  <1> QED
    BY <1>5, <1>6, <1>7 DEF DownPortsAreSent

LEMMA NodesTyped ==
    ASSUME Sound, UpToDate
    PROVE  TypeOK
  <1>1. listing \in Seq(Ports) /\ IsInjective(listing) /\ listing \in Listings
    BY DEF Sound, Listings
  <1>2. /\ subnetIDs \in Seq(Subnets) /\ subnetIDs # <<>> /\ IsInjective(subnetIDs)
        /\ subnetIDs \in Filters
    BY DEF Sound, Filters
  <1>3. PICK lost : nodes = WithMTU(NodesFrom(listing, subnetIDs, portStatus), subnetIDs, lost)
    BY DEF UpToDate
  <1>4. NodesFrom(listing, subnetIDs, portStatus) \in Seq(Wired)
    BY <1>1, <1>2, NodesAreMapped DEF NodesOfVMs
  <1>5. nodes \in Seq([instanceID : VMs, interfaces : Seq(Interfaces) \ {<<>>}])
    BY <1>2, <1>3, <1>4, WithMTUTyped
  <1>6. downPortIDs \subseteq Ports
    <2>1. \A vm : MapVM(listing, subnetIDs, portStatus, vm).down \subseteq Ports
      BY <1>1, <1>2, DownPortsAreMapped, PlacedArePorts DEF DownOf
    <2> QED
      BY <2>1 DEF UpToDate, DownFrom
  <1> QED
    BY <1>1, <1>2, <1>5, <1>6 DEF TypeOK, Sound

----------------------------------------------------------------------------
(* Every step maps anew.                                                   *)

LEMMA FiltersAreSound ==
    ASSUME NEW ids \in SetToAllKPermutations(Subnets), ids # <<>>
    PROVE  ids \in Filters
  <1>1. PICK T \in SUBSET Subnets : ids \in SetToSeqs(T)
    BY DEF SetToAllKPermutations
  <1>2. Cardinality(T) \in Nat
    BY PortMappingAssumption, FS_Subset, FS_CardinalityType
  <1>3. /\ ids \in [1..Cardinality(T) -> T]
        /\ \A i, j \in 1..Cardinality(T) : i # j => ids[i] # ids[j]
    BY <1>1 DEF SetToSeqs
  <1>4. ids \in Seq(Subnets)
    <2>1. ids \in [1..Cardinality(T) -> Subnets]
      BY <1>3
    <2> QED
      BY <1>2, <2>1
  <1>5. IsInjective(ids)
    BY <1>3 DEF IsInjective
  <1> QED
    BY <1>4, <1>5 DEF Filters

LEMMA InitSound == Init => Sound
  <1> SUFFICES ASSUME Init PROVE Sound
    OBVIOUS
  <1>1. listing \in Listings
    BY DEF Init, Listings, IsInjective
  <1>2. portStatus \in [Ports -> Statuses]
    <2>1. \A p \in Ports : CanBe[p] # {} /\ CanBe[p] \subseteq Statuses
      BY PortMappingAssumption
    <2>2. \A p \in Ports : (CHOOSE s \in CanBe[p] : TRUE) \in Statuses
      BY <2>1
    <2> QED
      BY <2>2 DEF Init
  <1>3. subnetIDs \in Filters
    BY FiltersAreSound DEF Init
  <1> QED
    BY <1>1, <1>2, <1>3 DEF Sound

LEMMA AttachSound ==
    ASSUME NEW list \in Listings, NEW p \in Ports, p \notin ToSet(list), NEW n \in 1..Len(list) + 1
    PROVE  InsertAt(list, n, p) \in Listings
  <1>1. list \in Seq(Ports) /\ IsInjective(list) /\ Len(list) \in Nat
    BY DEF Listings
  <1>2. PICK m \in 0..Len(list) : n = m + 1 /\ n - 1 = m
    <2>1. n - 1 \in 0..Len(list) /\ n = (n - 1) + 1
      BY <1>1
    <2> QED
      BY <2>1
  <1> DEFINE u == InsertedAfter(list, m, p)
  <1>3. InsertAt(list, n, p) = u
    BY <1>2 DEF InsertAt, InsertedAfter
  <1>4. u \in Seq(Ports) /\ HasInserted(u, list, m, p)
    BY <1>1, InsertedElements
  <1> HIDE DEF u
  <1>5. IsInjective(u)
    BY <1>1, <1>4, InsertedSet
  <1> QED
    BY <1>3, <1>4, <1>5 DEF Listings

LEMMA DetachSound ==
    ASSUME NEW list \in Listings, NEW T
    PROVE  Selected(list, T) \in Listings
  BY SelectedElements DEF Listings

LEMMA RelistSound ==
    ASSUME NEW list \in Listings, NEW n \in 1..Len(list) - 1
    PROVE  [list EXCEPT ![n] = list[n + 1], ![n + 1] = list[n]] \in Listings
  <1> DEFINE u == [list EXCEPT ![n] = list[n + 1], ![n + 1] = list[n]]
  <1>1. /\ list \in Seq(Ports) /\ IsInjective(list) /\ Len(list) \in Nat
        /\ DOMAIN list = 1..Len(list) /\ list \in [1..Len(list) -> Ports]
    BY DEF Listings
  <1>2. n \in 1..Len(list) /\ n + 1 \in 1..Len(list) /\ n # n + 1
    BY <1>1
  <1>3. /\ u \in [1..Len(list) -> Ports]
        /\ u[n] = list[n + 1] /\ u[n + 1] = list[n]
        /\ \A k \in 1..Len(list) : k # n /\ k # n + 1 => u[k] = list[k]
    BY <1>1, <1>2
  <1> HIDE DEF u
  <1>4. \A i, j \in 1..Len(list) : u[i] = u[j] => i = j
    BY <1>1, <1>2, <1>3 DEF IsInjective
  <1>5. u \in Seq(Ports) /\ IsInjective(u)
    BY <1>1, <1>3, <1>4 DEF IsInjective
  <1> QED
    BY <1>5 DEF u, Listings

LEMMA StepSound == Sound /\ [Next]_vars => Sound'
  <1> SUFFICES ASSUME Sound, [Next]_vars PROVE Sound'
    OBVIOUS
  <1> USE DEF Sound
  <1>1. CASE UNCHANGED vars
    BY <1>1 DEF vars
  <1>2. ASSUME NEW p \in Ports, NEW n \in 1..Len(listing) + 1, Attach(p, n) PROVE Sound'
    BY <1>2, AttachSound DEF Attach
  <1>3. ASSUME NEW p \in Ports, Detach(p) PROVE Sound'
    BY <1>3, DetachSound DEF Detach
  <1>4. ASSUME NEW p \in Ports, NEW s \in CanBe[p], StatusChange(p, s) PROVE Sound'
    <2>1. s \in Statuses
      BY PortMappingAssumption
    <2> QED
      BY <1>4, <2>1 DEF StatusChange
  <1>5. ASSUME NEW n \in DOMAIN listing, Relist(n) PROVE Sound'
    <2>1. n \in 1..Len(listing) - 1
      BY <1>5 DEF Relist
    <2> QED
      BY <1>5, <2>1, RelistSound DEF Relist
  <1>6. ASSUME NEW ids \in SetToAllKPermutations(Subnets), Reselect(ids) PROVE Sound'
    BY <1>6, FiltersAreSound DEF Reselect
  <1> QED
    BY <1>1, <1>2, <1>3, <1>4, <1>5, <1>6 DEF Next

LEMMA InitUpToDate == Init => UpToDate
  <1> SUFFICES ASSUME Init PROVE UpToDate
    OBVIOUS
  <1>1. Sound /\ listing = <<>> /\ listing \in Listings /\ subnetIDs \in Seq(Subnets)
    BY InitSound DEF Init, Sound, Filters
  <1>2. \A vm : PlacedIn(listing, subnetIDs, portStatus, vm) = {}
    <2>1. ToSet(<<>>) = {}
      BY DEF ToSet
    <2> QED
      BY <1>1, <2>1 DEF PlacedIn, FirstOf, CandidatesIn
  <1> DEFINE configs == NodesFrom(listing, subnetIDs, portStatus)
  <1>3. NodesOfVMs(configs, listing, subnetIDs, portStatus)
    BY <1>1, NodesAreMapped
  <1> HIDE DEF configs
  <1>4. configs = <<>>
    <2>1. configs \in Seq(Wired)
      BY <1>3 DEF NodesOfVMs
    <2>2. ASSUME configs # <<>> PROVE FALSE
      <3> DEFINE t == configs[1].interfaces
      <3>1. 1 \in DOMAIN configs /\ configs[1] \in Wired
        BY <2>1, <2>2, EmptySeq, SequencePlaces
      <3>2. Normal(t, InterfacesOf(subnetIDs, {}))
        <4>1. Normal(t, InterfacesOf(subnetIDs,
                           PlacedIn(listing, subnetIDs, portStatus, configs[1].instanceID)))
          BY <3>1, <1>3 DEF NodesOfVMs
        <4> QED
          BY <4>1, <1>2
      <3>3. t \in Seq(Unfinished) /\ t # <<>>
        BY <3>1 DEF Wired
      <3> HIDE DEF t
      <3>4. 1 \in 1..Len(t)
        BY <3>3, EmptySeq
      <3>5. t[1] \in ToSet(t)
        BY <3>3, <3>4, SequencePlaces
      <3> QED
        BY <3>2, <3>5 DEF Normal, InterfacesOf
    <2> QED
      BY <2>2
  <1>5. nodes = WithMTU(configs, subnetIDs, {})
    <2>1. WithMTU(<<>>, subnetIDs, {}) = <<>>
      BY DEF WithMTU
    <2> QED
      BY <1>4, <2>1 DEF Init
  <1>6. \A vm : MapVM(listing, subnetIDs, portStatus, vm).down = {}
    BY <1>1, <1>2, DownPortsAreMapped DEF DownOf
  <1>7. downPortIDs = DownFrom(listing, subnetIDs, portStatus)
    BY <1>6 DEF DownFrom, Init
  <1> QED
    BY <1>5, <1>7 DEF UpToDate, configs

LEMMA StepUpToDate == UpToDate /\ [Next]_vars => UpToDate'
  <1> SUFFICES ASSUME UpToDate, [Next]_vars PROVE UpToDate'
    OBVIOUS
  <1>1. CASE Mapped
    BY <1>1 DEF Mapped, UpToDate
  <1>2. CASE UNCHANGED vars
    BY <1>2 DEF vars, UpToDate
  <1> QED
    BY <1>1, <1>2 DEF Next, Attach, Detach, StatusChange, Relist, Reselect

MappingInv == Sound /\ UpToDate

LEMMA MappingInvariant == Spec => []MappingInv
  <1>1. Init => MappingInv
    BY InitSound, InitUpToDate DEF MappingInv
  <1>2. MappingInv /\ [Next]_vars => MappingInv'
    BY StepSound, StepUpToDate DEF MappingInv
  <1> QED
    BY <1>1, <1>2, PTL DEF Spec

(* The mapper keeps its types: the listing and the filters are without     *)
(* duplicates, and no node is without an interface.                        *)
THEOREM MappingIsTyped == Spec => []TypeOK
  <1>1. MappingInv => TypeOK
    BY NodesTyped DEF MappingInv
  <1> QED
    BY <1>1, MappingInvariant, PTL

(* The loop over the sorted ports gives each VM the ports that come first  *)
(* among those that match, and no more than the limit.                     *)
THEOREM FirstPortsAreTaken == Spec => []FirstPortsWin
  <1>1. MappingInv => FirstPortsWin
    BY PortsAreFirst DEF MappingInv
  <1> QED
    BY <1>1, MappingInvariant, PTL

(* What is polled fast for is what is sent: the DOWN ports are those of the*)
(* interfaces of the nodes.                                                *)
THEOREM DownPortsAreInterfaces == Spec => []DownPortsAreSent
  <1>1. MappingInv => DownPortsAreSent
    BY DownPortsAreKnown DEF MappingInv
  <1> QED
    BY <1>1, MappingInvariant, PTL

(* However often and in whatever order Neutron lists the same ports, the   *)
(* configs are the same up to the MTU.                                     *)
THEOREM RelistingIsNoChange == Spec => RelistChangesNothing
  <1> DEFINE A == ToSet(listing') = ToSet(listing) /\ UNCHANGED <<portStatus, subnetIDs>>
                  => Wiring(nodes') = Wiring(nodes) /\ UNCHANGED downPortIDs
  <1>1. MappingInv /\ MappingInv' => A
    <2> SUFFICES ASSUME MappingInv, MappingInv', ToSet(listing') = ToSet(listing),
                        UNCHANGED <<portStatus, subnetIDs>>
                 PROVE  Wiring(nodes') = Wiring(nodes) /\ UNCHANGED downPortIDs
      OBVIOUS
    <2>1. listing \in Listings /\ listing' \in Listings /\ subnetIDs \in Seq(Subnets)
      BY DEF MappingInv, Sound, Filters
    <2>2. PICK lost1 : nodes = WithMTU(NodesFrom(listing, subnetIDs, portStatus), subnetIDs, lost1)
      BY DEF MappingInv, UpToDate
    <2>3. PICK lost2 : nodes' = WithMTU(NodesFrom(listing', subnetIDs, portStatus), subnetIDs, lost2)
      BY DEF MappingInv, UpToDate
    <2>4. NodesFrom(listing', subnetIDs, portStatus) = NodesFrom(listing, subnetIDs, portStatus)
      BY <2>1, OrderOfListing
    <2>5. DownFrom(listing', subnetIDs, portStatus) = DownFrom(listing, subnetIDs, portStatus)
      BY <2>1, OrderOfListing
    <2>6. Wiring(nodes') = Wiring(nodes)
      BY <2>2, <2>3, <2>4, WithMTUWiring
    <2>7. downPortIDs' = downPortIDs
      BY <2>5 DEF MappingInv, UpToDate
    <2> QED
      BY <2>6, <2>7
  <1>2. Spec => [][A]_vars
    BY <1>1, MappingInvariant, PTL
  <1> QED
    BY <1>2 DEF RelistChangesNothing

(* Another order of the subnets in the spec, with the same interfaces as a *)
(* result, is no change: below the limit of interfaces, and when no port   *)
(* has addresses in two of the subnets, the wiring is as it was.           *)
THEOREM FilterOrderIsNoChange == Spec => SubnetOrderIsNoChange
  <1> DEFINE few == \A vm \in ToSet(Listed) :
                       /\ Cardinality(Candidates(vm)) <= MaxInterfaces
                       /\ \A p \in ToSet(listing) : DeviceOf[p] = vm =>
                             Cardinality(ToSet(FixedIPs[p]) \cap ToSet(subnetIDs)) <= 1
             A == (/\ ToSet(subnetIDs') = ToSet(subnetIDs)
                   /\ UNCHANGED <<listing, portStatus>>
                   /\ few)
                  => Wiring(nodes') = Wiring(nodes)
  <1>1. MappingInv /\ MappingInv' => A
    <2> SUFFICES ASSUME MappingInv, MappingInv', ToSet(subnetIDs') = ToSet(subnetIDs),
                        UNCHANGED <<listing, portStatus>>, few
                 PROVE  Wiring(nodes') = Wiring(nodes)
      OBVIOUS
    <2>1. listing \in Listings /\ subnetIDs \in Seq(Subnets) /\ subnetIDs' \in Seq(Subnets)
      BY DEF MappingInv, Sound, Filters
    <2>2. PICK lost1 : nodes = WithMTU(NodesFrom(listing, subnetIDs, portStatus), subnetIDs, lost1)
      BY DEF MappingInv, UpToDate
    <2>3. PICK lost2 : nodes' = WithMTU(NodesFrom(listing, subnetIDs', portStatus), subnetIDs', lost2)
      BY DEF MappingInv, UpToDate
    <2>4. ASSUME NEW vm \in ToSet(Listed)
          PROVE  InterfacesOf(subnetIDs, PlacedIn(listing, subnetIDs, portStatus, vm)) =
                 InterfacesOf(subnetIDs', PlacedIn(listing, subnetIDs', portStatus, vm))
      <3>1. Cardinality(CandidatesIn(listing, subnetIDs, portStatus, vm)) <= MaxInterfaces
        BY DEF Candidates, CandidatesIn
      <3>2. \A p \in ToSet(listing) : DeviceOf[p] = vm =>
                Cardinality(ToSet(FixedIPs[p]) \cap ToSet(subnetIDs)) <= 1
        OBVIOUS
      <3> HIDE DEF few
      <3> QED
        BY <2>1, <3>1, <3>2, OrderOfFilters
    <2>5. NodesFrom(listing, subnetIDs, portStatus) = NodesFrom(listing, subnetIDs', portStatus)
      BY <2>1, <2>4, SameNodes
    <2> QED
      BY <2>2, <2>3, <2>5, WithMTUWiring
  <1>2. Spec => [][A]_vars
    BY <1>1, MappingInvariant, PTL
  <1> QED
    BY <1>2 DEF SubnetOrderIsNoChange

----------------------------------------------------------------------------
(* The MTU.                                                                *)

\* The MTUs of the interfaces come from one run over spec.subnetIDs.
ReadInOneRun ==
    nodes = <<>> \/ \E configs, ids, lost : nodes = WithMTU(configs, ids, lost)

\* What is read for a network, whichever of its subnets asks.
MTURead(ids, lost, net) ==
    LET siblings == {n \in DOMAIN ids : SubnetNetwork[ids[n]] = net}
        asked == CHOOSE n \in siblings : \A m \in siblings : n <= m
    IN  IF asked \in lost THEN 0 ELSE NetworkMTU[net]

LEMMA MTUOfNetwork ==
    ASSUME NEW ids, NEW lost, NEW s
    PROVE  SubnetMTU(ids, lost, s) = MTURead(ids, lost, SubnetNetwork[s])
  BY DEF SubnetMTU, MTURead

LEMMA InterfaceMTU ==
    ASSUME NEW configs, NEW ids, NEW lost, nodes = WithMTU(configs, ids, lost),
           NEW n \in DOMAIN nodes, NEW i \in ToSet(nodes[n].interfaces)
    PROVE  i.mtu = MTURead(ids, lost, SubnetNetwork[i.subnet])
  <1> DEFINE ifaces == configs[n].interfaces
             done == [k \in DOMAIN ifaces |->
                         [port |-> ifaces[k].port, subnet |-> ifaces[k].subnet,
                          mtu |-> SubnetMTU(ids, lost, ifaces[k].subnet)]]
  <1>1. n \in DOMAIN configs /\ nodes[n].interfaces = done
    BY DEF WithMTU
  <1>2. PICK k \in DOMAIN done : i = done[k]
    BY <1>1 DEF ToSet
  <1>3. i.subnet = ifaces[k].subnet /\ i.mtu = SubnetMTU(ids, lost, ifaces[k].subnet)
    BY <1>2
  <1> QED
    BY <1>3, MTUOfNetwork

\* The MTUs found for a network.
MTUs(net) ==
    {i.mtu : i \in {i \in UNION {ToSet(nodes[n].interfaces) : n \in DOMAIN nodes} :
                       SubnetNetwork[i.subnet] = net}}

LEMMA OneRunAgrees == ReadInOneRun => NetworksAgreeOnMTU
  <1> SUFFICES ASSUME ReadInOneRun, NEW net \in Networks
               PROVE  MTUs(net) \in {{}, {0}, {NetworkMTU[net]}}
    BY DEF NetworksAgreeOnMTU, MTUs
  <1>1. CASE nodes = <<>>
    BY <1>1 DEF MTUs
  <1>2. CASE \E configs, ids, lost : nodes = WithMTU(configs, ids, lost)
    <2>1. PICK configs, ids, lost : nodes = WithMTU(configs, ids, lost)
      BY <1>2
    <2>2. \A m \in MTUs(net) : m = MTURead(ids, lost, net)
      BY <2>1, InterfaceMTU DEF MTUs
    <2>3. MTUs(net) = {} \/ MTUs(net) = {MTURead(ids, lost, net)}
      BY <2>2
    <2>4. MTURead(ids, lost, net) \in {0, NetworkMTU[net]}
      BY DEF MTURead
    <2> QED
      BY <2>3, <2>4
  <1> QED
    BY <1>1, <1>2 DEF ReadInOneRun

(* The interfaces of one network have its MTU, all of them, or none has it:*)
(* whatever the ports, the subnets of spec.subnetIDs and their order, and  *)
(* the networks that could not be read.                                    *)
THEOREM OneMTUPerNetwork == Spec => []NetworksAgreeOnMTU
  <1>1. Init => ReadInOneRun
    BY DEF Init, ReadInOneRun
  <1>2. ReadInOneRun /\ [Next]_vars => ReadInOneRun'
    <2> SUFFICES ASSUME ReadInOneRun, [Next]_vars PROVE ReadInOneRun'
      OBVIOUS
    <2>1. CASE Mapped
      BY <2>1 DEF Mapped, ReadInOneRun
    <2>2. CASE UNCHANGED vars
      BY <2>2 DEF vars, ReadInOneRun
    <2> QED
      BY <2>1, <2>2 DEF Next, Attach, Detach, StatusChange, Relist, Reselect
  <1> QED
    BY <1>1, <1>2, OneRunAgrees, PTL DEF Spec
=============================================================================
