----------------------------- MODULE ListsProofs -----------------------------
(***************************************************************************)
(* What the loops of Lists compute, for any sequence: the lemmas that the  *)
(* proofs about filtered and sorted slices rest on.  The induction is over *)
(* the sets of numbers for which a claim holds.                            *)
(***************************************************************************)
EXTENDS Lists, SequencesExt, FiniteSetTheorems, SequenceTheorems, TLAPS

----------------------------------------------------------------------------
(* Induction, and the existence of the function a loop defines.            *)

LessThan == {mn \in Nat \X Nat : mn[1] < mn[2]}

LEMMA LeastExists ==
    ASSUME NEW T \in SUBSET Nat, T # {}
    PROVE  \E n \in T : \A m \in T : n <= m
  <1>1. LessThan = OpToRel(<, Nat)
    BY DEF LessThan, OpToRel
  <1>2. IsWellFoundedOn(LessThan, Nat)
    BY <1>1, NatLessThanWellFounded
  <1>3. PICK n \in T : \A m \in T : ~(<<m, n>> \in LessThan)
    BY <1>2, WFMin
  <1>4. ASSUME NEW m \in T PROVE n <= m
    <2>1. n \in Nat /\ m \in Nat /\ ~(m < n)
      BY <1>3 DEF LessThan
    <2> QED
      BY <2>1
  <1> QED
    BY <1>4

LEMMA MinIsLeast ==
    ASSUME NEW T \in SUBSET Nat, T # {}
    PROVE  Min(T) \in T /\ \A n \in T : Min(T) <= n
  <1>1. \E n \in T : \A m \in T : n <= m
    BY LeastExists
  <1> QED
    BY <1>1 DEF Min

\* Induction up to a bound: T holds the numbers for which a claim is true.
LEMMA InductionTo ==
    ASSUME NEW N \in Nat, NEW T, 0 \in T,
           \A n \in 0..N - 1 : n \in T => n + 1 \in T
    PROVE  \A n \in 0..N : n \in T
  <1> DEFINE missing == {n \in 0..N : n \notin T}
  <1> SUFFICES ASSUME missing # {} PROVE FALSE
    OBVIOUS
  <1>1. missing \in SUBSET Nat
    OBVIOUS
  <1>2. PICK n \in missing : \A m \in missing : n <= m
    BY <1>1, LeastExists
  <1>3. n \in 1..N /\ n - 1 \in 0..N - 1
    BY <1>2
  <1>4. n - 1 \in T
    BY <1>2, <1>3
  <1> QED
    BY <1>2, <1>3, <1>4

\* f is what a loop computes: it starts with x0, and round n makes step[n, x] of x.
IsLoop(f, X, N, x0, step) ==
    /\ f \in [0..N -> X]
    /\ f[0] = x0
    /\ \A n \in 1..N : f[n] = step[<<n, f[n - 1]>>]

LEMMA LoopExists ==
    ASSUME NEW X, NEW N \in Nat, NEW x0 \in X, NEW step \in [(1..N) \X X -> X]
    PROVE  \E f : IsLoop(f, X, N, x0, step)
  <1> DEFINE T == {m \in 0..N : \E f : IsLoop(f, X, m, x0, step)}
  <1>1. 0 \in T
    <2>1. IsLoop([n \in 0..0 |-> x0], X, 0, x0, step)
      BY DEF IsLoop
    <2> QED
      BY <2>1
  <1>2. ASSUME NEW m \in 0..N - 1, m \in T PROVE m + 1 \in T
    <2>1. PICK f : IsLoop(f, X, m, x0, step)
      BY <1>2
    <2> DEFINE g == [n \in 0..m + 1 |-> IF n = m + 1 THEN step[<<n, f[m]>>] ELSE f[n]]
    <2>2. g \in [0..m + 1 -> X]
      <3>1. f[m] \in X /\ <<m + 1, f[m]>> \in (1..N) \X X
        BY <2>1 DEF IsLoop
      <3> QED
        BY <2>1, <3>1 DEF IsLoop
    <2>3. g[0] = x0
      BY <2>1 DEF IsLoop
    <2>4. ASSUME NEW n \in 1..m + 1 PROVE g[n] = step[<<n, g[n - 1]>>]
      <3>1. g[n - 1] = f[n - 1]
        OBVIOUS
      <3>2. CASE n = m + 1
        BY <3>1, <3>2
      <3>3. CASE n \in 1..m
        BY <3>1, <3>3, <2>1 DEF IsLoop
      <3> QED
        BY <3>2, <3>3
    <2> HIDE DEF g
    <2>5. IsLoop(g, X, m + 1, x0, step)
      BY <2>2, <2>3, <2>4 DEF IsLoop
    <2> QED
      BY <2>5
  <1> HIDE DEF T
  <1>3. N \in T
    BY <1>1, <1>2, InductionTo
  <1> QED
    BY <1>3 DEF T

\* The function that is chosen for its equations is the one that exists.
LEMMA LoopIsTyped ==
    ASSUME NEW X, NEW N \in Nat, NEW x0 \in X, NEW step \in [(1..N) \X X -> X],
           NEW g, g = [n \in 0..N |-> g[n]], g[0] = x0,
           \A n \in 1..N : g[n - 1] \in X => g[n] = step[<<n, g[n - 1]>>]
    PROVE  IsLoop(g, X, N, x0, step)
  <1> DEFINE T == {n \in 0..N : g[n] \in X}
  <1>1. 0 \in T
    OBVIOUS
  <1>2. ASSUME NEW n \in 0..N - 1, n \in T PROVE n + 1 \in T
    <2>1. n + 1 \in 1..N /\ (n + 1) - 1 = n /\ g[n] \in X
      BY <1>2
    <2>2. g[n + 1] = step[<<n + 1, g[n]>>]
      BY <2>1
    <2>3. <<n + 1, g[n]>> \in (1..N) \X X
      BY <2>1
    <2> QED
      BY <2>1, <2>2, <2>3
  <1>3. \A n \in 0..N : n \in T
    <2> HIDE DEF T
    <2> QED
      BY <1>1, <1>2, InductionTo
  <1>4. \A n \in 0..N : g[n] \in X
    BY <1>3
  <1>5. g \in [0..N -> X]
    BY <1>4
  <1>6. ASSUME NEW n \in 1..N PROVE g[n] = step[<<n, g[n - 1]>>]
    <2>1. n - 1 \in 0..N
      OBVIOUS
    <2> QED
      BY <2>1, <1>4
  <1> QED
    BY <1>5, <1>6 DEF IsLoop

----------------------------------------------------------------------------
(* Sequences and sets.                                                     *)

LEMMA SequencePlaces ==
    ASSUME NEW S, NEW s \in Seq(S)
    PROVE  /\ Len(s) \in Nat /\ DOMAIN s = 1..Len(s)
           /\ ToSet(s) \subseteq S
           /\ \A k \in 1..Len(s) : s[k] \in ToSet(s) /\ s[k] \in S
           /\ \A x \in ToSet(s) : \E k \in 1..Len(s) : s[k] = x
  <1>1. Len(s) \in Nat /\ DOMAIN s = 1..Len(s)
    OBVIOUS
  <1>2. \A k \in 1..Len(s) : s[k] \in S
    BY ElementOfSeq
  <1> QED
    BY <1>1, <1>2 DEF ToSet

LEMMA SequenceOf ==
    ASSUME NEW S, NEW T, NEW s \in Seq(S), \A k \in 1..Len(s) : s[k] \in T
    PROVE  s \in Seq(T)
  <1>1. Len(s) \in Nat /\ s \in [1..Len(s) -> S]
    OBVIOUS
  <1>2. s \in [1..Len(s) -> T]
    BY <1>1
  <1> QED
    BY <1>1, <1>2

LEMMA ListIsFinite ==
    ASSUME NEW S, NEW s \in Seq(S)
    PROVE  IsFiniteSet(ToSet(s))
  <1>1. Len(s) \in Nat /\ s \in [1..Len(s) -> ToSet(s)] /\ DOMAIN s = 1..Len(s)
    BY DEF ToSet
  <1>2. s \in Surjection(1..Len(s), ToSet(s))
    BY <1>1 DEF Surjection, ToSet
  <1>3. ExistsSurjection(1..Len(s), ToSet(s))
    BY <1>2 DEF ExistsSurjection
  <1> QED
    BY <1>1, <1>3, FS_NatSurjection

\* What the values of a function on a finite set make up is finite.
LEMMA ImageIsFinite ==
    ASSUME NEW S, IsFiniteSet(S), NEW T, NEW f \in [S -> T], \A t \in T : \E s \in S : f[s] = t
    PROVE  IsFiniteSet(T)
  <1>1. f \in Surjection(S, T)
    BY DEF Surjection
  <1> QED
    BY <1>1, FS_Surjection

\* s lists the elements of S, each of them once.
Lists(s, S) == s \in Seq(S) /\ ToSet(s) = S /\ IsInjective(s)

LEMMA ListsAreComplete ==
    ASSUME NEW S, IsFiniteSet(S), NEW s \in [1..Cardinality(S) -> S], IsInjective(s)
    PROVE  Lists(s, S)
  <1> DEFINE n == Cardinality(S)
  <1>1. n \in Nat /\ IsFiniteSet(1..n) /\ Cardinality(1..n) = n
    BY FS_CardinalityType, FS_Interval
  <1>2. s \in Injection(1..n, S)
    BY DEF Injection
  <1>3. s \in Surjection(1..n, S)
    BY <1>1, <1>2, FS_Injection
  <1> HIDE DEF n
  <1>4. s \in Seq(S) /\ DOMAIN s = 1..n
    BY <1>1 DEF n
  <1>5. \A x \in S : \E k \in 1..n : s[k] = x
    BY <1>3 DEF Surjection
  <1>6. ToSet(s) = S
    BY <1>4, <1>5 DEF ToSet
  <1> QED
    BY <1>4, <1>6 DEF Lists

LEMMA SetToSeqsLists ==
    ASSUME NEW S, IsFiniteSet(S), NEW s \in SetToSeqs(S)
    PROVE  Lists(s, S)
  <1>1. s \in [1..Cardinality(S) -> S] /\ IsInjective(s)
    BY DEF SetToSeqs, IsInjective
  <1> QED
    BY <1>1, ListsAreComplete

LEMMA SetToSeqLists ==
    ASSUME NEW S, IsFiniteSet(S)
    PROVE  Lists(SetToSeq(S), S)
  <1>1. ExistsBijection(1..Cardinality(S), S)
    BY FS_CardinalityType
  <1>2. \E f \in [1..Cardinality(S) -> S] : IsInjective(f)
    BY <1>1 DEF ExistsBijection, Bijection, Injection
  <1>3. SetToSeq(S) \in [1..Cardinality(S) -> S] /\ IsInjective(SetToSeq(S))
    BY <1>2 DEF SetToSeq
  <1> QED
    BY <1>3, ListsAreComplete

LEMMA AppendedSet ==
    ASSUME NEW S, NEW t \in Seq(S), NEW x \in S
    PROVE  /\ Append(t, x) \in Seq(S)
           /\ Len(Append(t, x)) = Len(t) + 1
           /\ ToSet(Append(t, x)) = ToSet(t) \cup {x}
           /\ IsInjective(t) /\ x \notin ToSet(t) => IsInjective(Append(t, x))
  <1> DEFINE u == Append(t, x)
             N == Len(t)
  <1>1. /\ N \in Nat /\ DOMAIN t = 1..N
        /\ u \in Seq(S) /\ Len(u) = N + 1 /\ DOMAIN u = 1..N + 1
    OBVIOUS
  <1>2. u[N + 1] = x /\ \A k \in 1..N : u[k] = t[k]
    BY AppendProperties
  <1> HIDE DEF u, N
  <1>3. \A k \in 1..N + 1 : k = N + 1 \/ k \in 1..N
    BY <1>1
  <1>4. ToSet(u) = ToSet(t) \cup {x}
    <2>1. \A k \in 1..N + 1 : u[k] \in ToSet(t) \cup {x}
      BY <1>1, <1>2, <1>3 DEF ToSet
    <2>2. x \in ToSet(u)
      BY <1>1, <1>2 DEF ToSet
    <2>3. \A k \in 1..N : k \in 1..N + 1
      BY <1>1
    <2>4. \A y \in ToSet(t) : y \in ToSet(u)
      BY <2>3, <1>1, <1>2 DEF ToSet
    <2>5. \A y \in ToSet(u) : y \in ToSet(t) \cup {x}
      BY <2>1, <1>1 DEF ToSet
    <2> QED
      BY <2>2, <2>4, <2>5
  <1>5. IsInjective(t) /\ x \notin ToSet(t) => IsInjective(u)
    <2>1. \A k \in 1..N : t[k] \in ToSet(t)
      BY <1>1 DEF ToSet
    <2> QED
      BY <2>1, <1>1, <1>2, <1>3 DEF IsInjective
  <1> QED
    BY <1>1, <1>4, <1>5 DEF u, N

LEMMA AtMostOne ==
    ASSUME NEW X, IsFiniteSet(X), Cardinality(X) <= 1, NEW x \in X, NEW y \in X
    PROVE  x = y
  <1> SUFFICES ASSUME x # y PROVE FALSE
    OBVIOUS
  <1>1. IsFiniteSet({x}) /\ Cardinality({x}) = 1
    BY FS_Singleton
  <1>2. IsFiniteSet({x} \cup {y}) /\ Cardinality({x} \cup {y}) = 2
    <2> DEFINE one == {x}
    <2>1. y \notin one /\ IsFiniteSet(one) /\ Cardinality(one) = 1
      BY <1>1
    <2> HIDE DEF one
    <2>2. Cardinality(one \cup {y}) = Cardinality(one) + 1 /\ IsFiniteSet(one \cup {y})
      BY <2>1, FS_AddElement
    <2> QED
      BY <2>1, <2>2 DEF one
  <1>3. Cardinality({x} \cup {y}) <= Cardinality(X)
    <2>1. {x} \cup {y} \in SUBSET X
      OBVIOUS
    <2> QED
      BY <2>1, FS_Subset
  <1>4. Cardinality(X) \in Nat
    BY FS_CardinalityType
  <1> QED
    BY <1>2, <1>3, <1>4

----------------------------------------------------------------------------
(* Selected.                                                               *)

\* kept holds what is kept of s after each round.
Keeps(kept, s, T, S) ==
    /\ kept \in [0..Len(s) -> Seq(S)]
    /\ kept[0] = <<>>
    /\ \A n \in 1..Len(s) : /\ s[n] \in T => kept[n] = Append(kept[n - 1], s[n])
                            /\ s[n] \notin T => kept[n] = kept[n - 1]

LEMMA SelectedLoop ==
    ASSUME NEW S, NEW s \in Seq(S), NEW T
    PROVE  \E kept : Keeps(kept, s, T, S) /\ Selected(s, T) = kept[Len(s)]
  <1> DEFINE N == Len(s)
             X == Seq(S)
             next(n, t) == IF s[n] \in T THEN Append(t, s[n]) ELSE t
             step == [nt \in (1..N) \X X |-> next(nt[1], nt[2])]
             body(f) == [n \in 0..N |-> IF n = 0 THEN <<>> ELSE next(n, f[n - 1])]
             kept == CHOOSE f : f = body(f)
  <1>1. N \in Nat /\ <<>> \in X
    OBVIOUS
  <1>2. \A n \in 1..N, t \in X : next(n, t) \in X
    BY ElementOfSeq, AppendProperties
  <1>3. Selected(s, T) = kept[N]
    BY DEF Selected
  <1> HIDE DEF N, X, next
  <1>4. step \in [(1..N) \X X -> X]
    BY <1>2
  <1>5. ASSUME NEW n \in 1..N, NEW t \in X PROVE step[<<n, t>>] = next(n, t)
    OBVIOUS
  <1> HIDE DEF step
  <1>6. PICK f : IsLoop(f, X, N, <<>>, step)
    BY <1>1, <1>4, LoopExists
  <1>7. f = body(f)
    <2>1. ASSUME NEW n \in 0..N PROVE f[n] = body(f)[n]
      <3>1. CASE n = 0
        BY <3>1, <1>6 DEF IsLoop
      <3>2. CASE n # 0
        <4>1. n \in 1..N /\ n - 1 \in 0..N
          BY <3>2, <1>1
        <4>2. f[n - 1] \in X /\ f[n] = step[<<n, f[n - 1]>>]
          BY <4>1, <1>6 DEF IsLoop
        <4> QED
          BY <4>1, <4>2, <1>5, <3>2
      <3> QED
        BY <3>1, <3>2
    <2> QED
      BY <2>1, <1>6 DEF IsLoop
  <1>8. kept = body(kept)
    BY <1>7
  <1> HIDE DEF kept
  <1>9. kept = [n \in 0..N |-> kept[n]] /\ kept[0] = <<>>
    BY <1>8, <1>1
  <1>10. ASSUME NEW n \in 1..N PROVE kept[n] = next(n, kept[n - 1])
    BY <1>8, <1>1
  <1>11. IsLoop(kept, X, N, <<>>, step)
    BY <1>9, <1>10, <1>5, <1>1, <1>4, LoopIsTyped
  <1> QED
    BY <1>3, <1>9, <1>10, <1>11 DEF IsLoop, Keeps, next, N, X

\* at gives the places in s from which the elements of t were taken: those of
\* the first n places whose element is in T.
TakenFrom(at, t, s, T, n) ==
    /\ at \in [1..Len(t) -> 1..n]
    /\ \A i, j \in 1..Len(t) : i < j => at[i] < at[j]
    /\ \A i \in 1..Len(t) : t[i] = s[at[i]] /\ t[i] \in T
    /\ \A k \in 1..n : s[k] \in T => \E i \in 1..Len(t) : at[i] = k

LEMMA TakenFromAppend ==
    ASSUME NEW S, NEW t \in Seq(S), NEW s, NEW T, NEW n \in Nat, NEW at,
           TakenFrom(at, t, s, T, n), s[n + 1] \in T, s[n + 1] \in S
    PROVE  \E more : TakenFrom(more, Append(t, s[n + 1]), s, T, n + 1)
  <1> DEFINE x == s[n + 1]
             u == Append(t, x)
             more == [i \in 1..Len(t) + 1 |-> IF i = Len(t) + 1 THEN n + 1 ELSE at[i]]
  <1> HIDE DEF x
  <1>0. x \in S /\ x \in T /\ x = s[n + 1]
    BY DEF x
  <1>1. /\ Len(t) \in Nat
        /\ Len(u) = Len(t) + 1
        /\ u[Len(t) + 1] = x
        /\ \A i \in 1..Len(t) : u[i] = t[i]
    BY <1>0, AppendProperties
  <1>2. /\ at \in [1..Len(t) -> 1..n]
        /\ \A i \in 1..Len(t) : more[i] = at[i]
        /\ more[Len(t) + 1] = n + 1
    BY <1>1 DEF TakenFrom
  <1>3. more \in [1..Len(u) -> 1..n + 1]
    BY <1>1, <1>2
  <1> HIDE DEF more, u
  <1>4. ASSUME NEW i \in 1..Len(u), NEW j \in 1..Len(u), i < j PROVE more[i] < more[j]
    <2>1. CASE j = Len(t) + 1
      <3>1. i \in 1..Len(t) /\ at[i] \in 1..n
        BY <2>1, <1>1, <1>2, <1>4
      <3> QED
        BY <3>1, <2>1, <1>2
    <2>2. CASE j # Len(t) + 1
      <3>1. i \in 1..Len(t) /\ j \in 1..Len(t)
        BY <2>2, <1>1, <1>4
      <3> QED
        BY <3>1, <1>2, <1>4 DEF TakenFrom
    <2> QED
      BY <2>1, <2>2
  <1>5. ASSUME NEW i \in 1..Len(u) PROVE u[i] = s[more[i]] /\ u[i] \in T
    <2>1. CASE i = Len(t) + 1
      BY <2>1, <1>0, <1>1, <1>2
    <2>2. CASE i # Len(t) + 1
      BY <2>2, <1>1, <1>2 DEF TakenFrom
    <2> QED
      BY <2>1, <2>2
  <1>6. ASSUME NEW k \in 1..n + 1, s[k] \in T PROVE \E i \in 1..Len(u) : more[i] = k
    <2>1. CASE k = n + 1
      BY <2>1, <1>1, <1>2
    <2>2. CASE k \in 1..n
      BY <2>2, <1>6, <1>1, <1>2 DEF TakenFrom
    <2> QED
      BY <2>1, <2>2
  <1>7. TakenFrom(more, u, s, T, n + 1)
    BY <1>3, <1>4, <1>5, <1>6 DEF TakenFrom
  <1> QED
    BY <1>7 DEF u, x

LEMMA SelectedPlaces ==
    ASSUME NEW S, NEW s \in Seq(S), NEW T
    PROVE  /\ Selected(s, T) \in Seq(S)
           /\ \E at : TakenFrom(at, Selected(s, T), s, T, Len(s))
  <1> DEFINE N == Len(s)
  <1>1. N \in Nat
    OBVIOUS
  <1>2. PICK kept : Keeps(kept, s, T, S) /\ Selected(s, T) = kept[N]
    BY SelectedLoop
  <1>3. \A n \in 1..N : s[n] \in S
    BY ElementOfSeq
  <1> DEFINE Claim == {n \in 0..N : \E at : TakenFrom(at, kept[n], s, T, n)}
  <1> HIDE DEF N
  <1>4. 0 \in Claim
    <2>1. TakenFrom(<<>>, <<>>, s, T, 0)
      BY DEF TakenFrom
    <2> QED
      BY <2>1, <1>1, <1>2 DEF Keeps
  <1>5. ASSUME NEW n \in 0..N - 1, n \in Claim PROVE n + 1 \in Claim
    <2>1. PICK at : TakenFrom(at, kept[n], s, T, n)
      BY <1>5
    <2>2. n \in Nat /\ n + 1 \in 1..N /\ (n + 1) - 1 = n /\ kept[n] \in Seq(S) /\ s[n + 1] \in S
      BY <1>1, <1>2, <1>3 DEF Keeps, N
    <2> SUFFICES \E more : TakenFrom(more, kept[n + 1], s, T, n + 1)
      BY <2>2
    <2>3. CASE s[n + 1] \in T
      <3>1. kept[n + 1] = Append(kept[n], s[n + 1])
        BY <2>2, <2>3, <1>2 DEF Keeps, N
      <3>2. \E more : TakenFrom(more, Append(kept[n], s[n + 1]), s, T, n + 1)
        BY <2>1, <2>2, <2>3, TakenFromAppend
      <3> QED
        BY <3>1, <3>2
    <2>4. CASE s[n + 1] \notin T
      <3>1. kept[n + 1] = kept[n]
        BY <2>2, <2>4, <1>2 DEF Keeps, N
      <3>2. TakenFrom(at, kept[n], s, T, n + 1)
        BY <2>1, <2>2, <2>4 DEF TakenFrom
      <3> QED
        BY <3>1, <3>2
    <2> QED
      BY <2>3, <2>4
  <1>6. \A n \in 0..N : n \in Claim
    <2> HIDE DEF Claim
    <2> QED
      BY <1>1, <1>4, <1>5, InductionTo
  <1> QED
    BY <1>1, <1>2, <1>6 DEF N, Keeps

LEMMA SelectedElements ==
    ASSUME NEW S, NEW s \in Seq(S), NEW T
    PROVE  /\ Selected(s, T) \in Seq(S)
           /\ ToSet(Selected(s, T)) = ToSet(s) \cap T
           /\ IsInjective(s) => IsInjective(Selected(s, T))
  <1> DEFINE t == Selected(s, T)
  <1>1. t \in Seq(S)
    BY SelectedPlaces
  <1>2. PICK at : TakenFrom(at, t, s, T, Len(s))
    BY SelectedPlaces
  <1> HIDE DEF t
  <1>3. DOMAIN s = 1..Len(s) /\ DOMAIN t = 1..Len(t) /\ Len(s) \in Nat /\ Len(t) \in Nat
    BY <1>1
  <1>4. at \in [1..Len(t) -> 1..Len(s)] /\ \A i \in 1..Len(t) : t[i] = s[at[i]] /\ t[i] \in T
    BY <1>2 DEF TakenFrom
  <1>5. ToSet(t) \subseteq ToSet(s) \cap T
    BY <1>3, <1>4 DEF ToSet
  <1>6. ASSUME NEW x \in ToSet(s) \cap T PROVE x \in ToSet(t)
    <2>1. PICK k \in 1..Len(s) : s[k] = x
      BY <1>3 DEF ToSet
    <2>2. PICK i \in 1..Len(t) : at[i] = k
      BY <1>2, <2>1, <1>6 DEF TakenFrom
    <2> QED
      BY <2>1, <2>2, <1>3, <1>4 DEF ToSet
  <1>7. ASSUME IsInjective(s), NEW i \in DOMAIN t, NEW j \in DOMAIN t, t[i] = t[j]
        PROVE  i = j
    <2>1. at[i] = at[j]
      BY <1>3, <1>4, <1>7 DEF IsInjective
    <2>2. i \in Nat /\ j \in Nat /\ at[i] \in Nat
      BY <1>3, <1>4
    <2> QED
      BY <2>1, <2>2, <1>2, <1>3, <1>7 DEF TakenFrom
  <1>8. IsInjective(s) => IsInjective(t)
    BY <1>7 DEF IsInjective
  <1> QED
    BY <1>1, <1>5, <1>6, <1>8 DEF t

\* The first of the selected elements is the first one of T.
LEMMA SelectedHead ==
    ASSUME NEW S, NEW s \in Seq(S), NEW T, NEW k \in 1..Len(s),
           s[k] \in T, \A h \in 1..k - 1 : s[h] \notin T
    PROVE  Selected(s, T) # <<>> /\ Selected(s, T)[1] = s[k]
  <1> DEFINE t == Selected(s, T)
  <1>1. t \in Seq(S)
    BY SelectedPlaces
  <1>2. PICK at : TakenFrom(at, t, s, T, Len(s))
    BY SelectedPlaces
  <1> HIDE DEF t
  <1>3. Len(s) \in Nat /\ Len(t) \in Nat
    BY <1>1
  <1>4. PICK i \in 1..Len(t) : at[i] = k
    BY <1>2 DEF TakenFrom
  <1>5. 1 \in 1..Len(t) /\ at[1] \in 1..Len(s) /\ t[1] = s[at[1]] /\ s[at[1]] \in T
    BY <1>2, <1>3, <1>4 DEF TakenFrom
  <1>6. at[1] = k
    <2>1. at[1] <= k
      <3>1. CASE i = 1
        BY <3>1, <1>4
      <3>2. CASE i # 1
        <4>1. 1 < i
          BY <3>2, <1>3, <1>4
        <4> QED
          BY <4>1, <1>2, <1>4, <1>5 DEF TakenFrom
      <3> QED
        BY <3>1, <3>2
    <2>2. at[1] \notin 1..k - 1
      BY <1>5
    <2> QED
      BY <2>1, <2>2, <1>3, <1>5
  <1> QED
    BY <1>1, <1>3, <1>5, <1>6 DEF t

LEMMA SelectedNone ==
    ASSUME NEW S, NEW s \in Seq(S), NEW T
    PROVE  Selected(s, T) = <<>> <=> \A k \in 1..Len(s) : s[k] \notin T
  <1>1. PICK at : TakenFrom(at, Selected(s, T), s, T, Len(s))
    BY SelectedPlaces
  <1>2. Selected(s, T) \in Seq(S) /\ Len(s) \in Nat /\ Len(Selected(s, T)) \in Nat
    BY SelectedPlaces
  <1>3. Selected(s, T) = <<>> => \A k \in 1..Len(s) : s[k] \notin T
    BY <1>1 DEF TakenFrom
  <1>4. ASSUME Selected(s, T) # <<>> PROVE \E k \in 1..Len(s) : s[k] \in T
    <2>1. 1 \in 1..Len(Selected(s, T))
      BY <1>2, <1>4
    <2> QED
      BY <2>1, <1>1 DEF TakenFrom
  <1> QED
    BY <1>3, <1>4

----------------------------------------------------------------------------
(* SortedBy.                                                               *)

\* R orders the elements of A in one way.
StrictOrder(R, A) ==
    /\ \A x \in A : <<x, x>> \notin R
    /\ \A x, y, z \in A : <<x, y>> \in R /\ <<y, z>> \in R => <<x, z>> \in R
    /\ \A x, y \in A : x # y => <<x, y>> \in R \/ <<y, x>> \in R

\* t is in the order R.
Ranked(t, R) == \A i, j \in 1..Len(t) : i < j => <<t[i], t[j]>> \in R

\* u is t with x behind its first n elements.
HasInserted(u, t, n, x) ==
    /\ Len(u) = Len(t) + 1
    /\ \A i \in 1..n : u[i] = t[i]
    /\ u[n + 1] = x
    /\ \A i \in n + 1..Len(t) : u[i + 1] = t[i]

LEMMA InsertedElements ==
    ASSUME NEW S, NEW t \in Seq(S), NEW n \in 0..Len(t), NEW x \in S
    PROVE  /\ InsertedAfter(t, n, x) \in Seq(S)
           /\ HasInserted(InsertedAfter(t, n, x), t, n, x)
  <1> DEFINE before == SubSeq(t, 1, n)
             after == SubSeq(t, n + 1, Len(t))
  <1>0. Len(t) \in Nat
    OBVIOUS
  <1>1. before \in Seq(S) /\ Len(before) = n /\ \A i \in 1..n : before[i] = t[i]
    OBVIOUS
  <1>2. after \in Seq(S) /\ Len(after) = Len(t) - n /\ \A i \in 1..Len(t) - n : after[i] = t[n + i]
    OBVIOUS
  <1>3. <<x>> \in Seq(S) /\ Len(<<x>>) = 1 /\ <<x>>[1] = x
    OBVIOUS
  <1> HIDE DEF before, after
  <1> DEFINE upto == before \o <<x>>
  <1>4. /\ upto \in Seq(S) /\ Len(upto) = n + 1
        /\ \A i \in 1..n : upto[i] = t[i]
        /\ upto[n + 1] = x
    BY <1>1, <1>3, ConcatProperties
  <1> HIDE DEF upto
  <1>5. /\ upto \o after \in Seq(S) /\ Len(upto \o after) = Len(t) + 1
        /\ \A i \in 1..n + 1 : (upto \o after)[i] = upto[i]
        /\ \A i \in 1..Len(t) - n : (upto \o after)[(n + 1) + i] = after[i]
    BY <1>0, <1>2, <1>4, ConcatProperties
  <1>6. InsertedAfter(t, n, x) = upto \o after
    BY DEF InsertedAfter, upto, before, after
  <1>7. ASSUME NEW i \in n + 1..Len(t) PROVE (upto \o after)[i + 1] = t[i]
    <2>1. i - n \in 1..Len(t) - n /\ (n + 1) + (i - n) = i + 1 /\ n + (i - n) = i
      BY <1>0
    <2>2. after[i - n] = t[n + (i - n)]
      BY <2>1, <1>2
    <2>3. (upto \o after)[(n + 1) + (i - n)] = after[i - n]
      BY <2>1, <1>5
    <2> QED
      BY <2>1, <2>2, <2>3
  <1> QED
    BY <1>0, <1>4, <1>5, <1>6, <1>7 DEF HasInserted

\* The places in u are those of t, moved by one behind x, and that of x.
InsertedAt(i, u, t, n, x) ==
    \/ i \in 1..n /\ i \in 1..Len(t) /\ u[i] = t[i]
    \/ i = n + 1 /\ u[i] = x
    \/ /\ i - 1 \in n + 1..Len(t) /\ i - 1 \in 1..Len(t)
       /\ u[i] = t[i - 1]

LEMMA InsertedSet ==
    ASSUME NEW S, NEW t \in Seq(S), NEW x, NEW n \in 0..Len(t), NEW u \in Seq(S),
           HasInserted(u, t, n, x)
    PROVE  /\ \A i \in 1..Len(t) + 1 : InsertedAt(i, u, t, n, x)
           /\ ToSet(u) = ToSet(t) \cup {x}
           /\ x \notin ToSet(t) /\ IsInjective(t) => IsInjective(u)
  <1>1. Len(t) \in Nat /\ \A k \in 1..Len(t) : t[k] \in ToSet(t)
    BY DEF ToSet
  <1>2. DOMAIN u = 1..Len(t) + 1 /\ DOMAIN t = 1..Len(t) /\ Len(u) = Len(t) + 1
    BY DEF HasInserted
  <1>3. ASSUME NEW i \in 1..Len(t) + 1 PROVE InsertedAt(i, u, t, n, x)
    <2>1. i \in 1..n \/ i = n + 1 \/ i - 1 \in n + 1..Len(t)
      BY <1>1
    <2>2. CASE i \in 1..n
      BY <2>2, <1>1 DEF HasInserted, InsertedAt
    <2>3. CASE i = n + 1
      BY <2>3 DEF HasInserted, InsertedAt
    <2>4. CASE i - 1 \in n + 1..Len(t)
      <3>1. PICK k \in n + 1..Len(t) : k = i - 1
        BY <2>4
      <3>2. u[k + 1] = t[k]
        BY DEF HasInserted
      <3>3. k \in 1..Len(t) /\ k + 1 = i
        BY <3>1, <1>1
      <3> QED
        BY <3>1, <3>2, <3>3 DEF InsertedAt
    <2> QED
      BY <2>1, <2>2, <2>3, <2>4
  <1>4. ToSet(u) = ToSet(t) \cup {x}
    <2>1. ASSUME NEW i \in 1..Len(t) + 1 PROVE u[i] \in ToSet(t) \cup {x}
      BY <1>1, <1>3 DEF InsertedAt
    <2>2. ASSUME NEW k \in 1..Len(t) PROVE t[k] \in ToSet(u)
      <3>1. CASE k \in 1..n
        <4>1. u[k] = t[k] /\ k \in 1..Len(t) + 1
          BY <3>1, <1>1 DEF HasInserted
        <4> QED
          BY <4>1, <1>2 DEF ToSet
      <3>2. CASE k \notin 1..n
        <4>1. k \in n + 1..Len(t) /\ k + 1 \in 1..Len(t) + 1
          BY <3>2, <1>1
        <4>2. u[k + 1] = t[k]
          BY <4>1 DEF HasInserted
        <4> QED
          BY <4>1, <4>2, <1>2 DEF ToSet
      <3> QED
        BY <3>1, <3>2
    <2>3. x \in ToSet(u)
      <3>1. n + 1 \in 1..Len(t) + 1 /\ u[n + 1] = x
        BY <1>1 DEF HasInserted
      <3> QED
        BY <3>1, <1>2 DEF ToSet
    <2> QED
      BY <2>1, <2>2, <2>3, <1>2 DEF ToSet
  <1>5. ASSUME x \notin ToSet(t), IsInjective(t), NEW i \in 1..Len(t) + 1,
               NEW j \in 1..Len(t) + 1, u[i] = u[j]
        PROVE  i = j
    <2>1. InsertedAt(i, u, t, n, x) /\ InsertedAt(j, u, t, n, x)
      BY <1>3
    <2>2. \A k, l \in 1..Len(t) : t[k] = t[l] => k = l
      BY <1>2, <1>5 DEF IsInjective
    <2>3. \A k \in 1..Len(t) : t[k] # x
      BY <1>1, <1>5
    <2>4. i \in Nat /\ j \in Nat /\ n \in Nat
      BY <1>1
    <2> QED
      BY <2>1, <2>2, <2>3, <2>4, <1>1, <1>5 DEF InsertedAt
  <1>6. x \notin ToSet(t) /\ IsInjective(t) => IsInjective(u)
    BY <1>2, <1>5 DEF IsInjective
  <1> QED
    BY <1>3, <1>4, <1>6

LEMMA PlaceIsOne ==
    ASSUME NEW S, NEW t \in Seq(S), NEW R, NEW x
    PROVE  PlaceFor(t, R, x) \in 0..Len(t)
  <1> DEFINE B == {k \in 1..Len(t) : <<x, t[k]>> \notin R}
  <1>1. PICK N \in Nat : N = Len(t)
    OBVIOUS
  <1>2. IsFiniteSet(1..N) /\ Cardinality(1..N) = N
    BY FS_Interval
  <1>3. B \in SUBSET (1..N)
    BY <1>1
  <1> HIDE DEF B
  <1>4. IsFiniteSet(B) /\ Cardinality(B) <= N
    BY <1>2, <1>3, FS_Subset
  <1>5. Cardinality(B) \in Nat
    BY <1>4, FS_CardinalityType
  <1> QED
    BY <1>1, <1>4, <1>5 DEF B, PlaceFor

\* A set of places that has all the places before each of its own.
LEMMA PrefixCardinality ==
    ASSUME NEW N \in Nat, NEW B \in SUBSET (1..N),
           \A k \in B : \A h \in 1..k - 1 : h \in B
    PROVE  \E m \in 0..N : Cardinality(B) = m /\ B = 1..m
  <1>1. \E m \in 0..N : B = 1..m
    <2>1. CASE B = 1..N
      BY <2>1
    <2>2. CASE B # 1..N
      <3> DEFINE missing == {k \in 1..N : k \notin B}
      <3>0. PICK o \in 1..N : o \notin B
        BY <2>2
      <3>1. missing \in SUBSET Nat /\ missing # {}
        BY <3>0
      <3>2. PICK p \in missing : \A q \in missing : p <= q
        BY <3>1, LeastExists
      <3>3. p \in 1..N /\ p \notin B
        BY <3>2
      <3>4. ASSUME NEW k \in 1..p - 1 PROVE k \in B
        BY <3>2, <3>3, <3>4
      <3>5. ASSUME NEW k \in B PROVE k \in 1..p - 1
        <4>1. k \in 1..N /\ k # p
          BY <3>3
        <4>2. p < k => p \in 1..k - 1
          BY <4>1, <3>3
        <4> QED
          BY <4>1, <4>2, <3>3
      <3>6. B = 1..p - 1
        BY <3>4, <3>5
      <3>7. p - 1 \in 0..N
        BY <3>3
      <3> QED
        BY <3>6, <3>7
    <2> QED
      BY <2>1, <2>2
  <1>2. PICK m \in 0..N : B = 1..m
    BY <1>1
  <1>3. Cardinality(1..m) = m
    BY FS_Interval
  <1> QED
    BY <1>2, <1>3

\* One round: x finds its place among those that are sorted already.
LEMMA InsertedRanked ==
    ASSUME NEW S, NEW R, NEW t \in Seq(S), NEW x \in S, x \notin ToSet(t),
           StrictOrder(R, ToSet(t) \cup {x}), Ranked(t, R)
    PROVE  LET u == InsertedAfter(t, PlaceFor(t, R, x), x)
           IN  u \in Seq(S) /\ ToSet(u) = ToSet(t) \cup {x} /\ Len(u) = Len(t) + 1 /\ Ranked(u, R)
  <1> DEFINE B == {k \in 1..Len(t) : <<x, t[k]>> \notin R}
             n == PlaceFor(t, R, x)
             u == InsertedAfter(t, n, x)
             A == ToSet(t) \cup {x}
  <1>1. Len(t) \in Nat /\ \A k \in 1..Len(t) : t[k] \in A /\ t[k] # x
    BY DEF ToSet
  <1>2. x \in A
    OBVIOUS
  <1>3. \A k \in 1..Len(t) : k \in B <=> <<t[k], x>> \in R
    BY <1>1, <1>2 DEF StrictOrder
  <1>4. ASSUME NEW k \in B, NEW h \in 1..k - 1 PROVE h \in B
    <2>1. h \in 1..Len(t) /\ k \in 1..Len(t) /\ h < k
      BY <1>1, <1>4
    <2>2. <<t[h], t[k]>> \in R /\ <<t[k], x>> \in R
      BY <2>1, <1>3, <1>4 DEF Ranked
    <2>3. <<t[h], x>> \in R
      BY <2>1, <2>2, <1>1, <1>2 DEF StrictOrder
    <2> QED
      BY <2>1, <2>3, <1>3
  <1>5. B \in SUBSET (1..Len(t)) /\ n = Cardinality(B)
    BY DEF PlaceFor
  <1> HIDE DEF B, n
  <1>6. n \in 0..Len(t) /\ B = 1..n
    <2>1. PICK m \in 0..Len(t) : Cardinality(B) = m /\ B = 1..m
      BY <1>1, <1>4, <1>5, PrefixCardinality
    <2> QED
      BY <2>1, <1>5
  <1>7. u \in Seq(S) /\ HasInserted(u, t, n, x)
    BY <1>6, InsertedElements
  <1> HIDE DEF u, A
  <1>8. DOMAIN u = 1..Len(t) + 1 /\ DOMAIN t = 1..Len(t) /\ Len(u) = Len(t) + 1
    BY <1>7 DEF HasInserted
  <1>9. \A i \in 1..Len(t) + 1 : InsertedAt(i, u, t, n, x)
    BY <1>6, <1>7, InsertedSet
  <1>10. ToSet(u) = ToSet(t) \cup {x}
    BY <1>6, <1>7, InsertedSet
  <1>11. ASSUME NEW i \in 1..Len(u), NEW j \in 1..Len(u), i < j PROVE <<u[i], u[j]>> \in R
    <2>1. /\ Len(t) \in Nat /\ n \in Nat
          /\ i \in 1..Len(t) + 1 /\ j \in 1..Len(t) + 1 /\ i \in Nat /\ j \in Nat
      BY <1>1, <1>6, <1>8
    <2>2. CASE j \in 1..n /\ j \in 1..Len(t) /\ u[j] = t[j]
      <3>1. i \in 1..n /\ i \in 1..Len(t)
        BY <2>1, <2>2, <1>11
      <3>2. u[i] = t[i]
        BY <3>1, <1>7 DEF HasInserted
      <3> QED
        BY <3>1, <3>2, <2>2, <1>11 DEF Ranked
    <2>3. CASE j = n + 1 /\ u[j] = x
      <3>1. i \in 1..n
        BY <2>1, <2>3, <1>11
      <3>2. u[i] = t[i] /\ i \in B /\ i \in 1..Len(t)
        BY <3>1, <1>5, <1>6, <1>7 DEF HasInserted
      <3> QED
        BY <3>2, <2>3, <1>3
    <2>4. CASE j - 1 \in n + 1..Len(t) /\ j - 1 \in 1..Len(t) /\ u[j] = t[j - 1]
      <3>1. CASE i \in 1..n /\ i \in 1..Len(t) /\ u[i] = t[i]
        <4>1. i < j - 1
          BY <3>1, <2>1, <2>4
        <4> QED
          BY <4>1, <3>1, <2>4 DEF Ranked
      <3>2. CASE i = n + 1 /\ u[i] = x
        <4>1. j - 1 \notin B
          BY <2>1, <2>4, <1>6
        <4> QED
          BY <4>1, <3>2, <2>4 DEF B
      <3>3. CASE i - 1 \in 1..Len(t) /\ u[i] = t[i - 1]
        <4>1. i - 1 < j - 1
          BY <2>1, <1>11
        <4> QED
          BY <4>1, <3>3, <2>4 DEF Ranked
      <3> QED
        BY <3>1, <3>2, <3>3, <2>1, <1>9 DEF InsertedAt
    <2> QED
      BY <2>1, <2>2, <2>3, <2>4, <1>9 DEF InsertedAt
  <1> QED
    BY <1>7, <1>10, <1>11 DEF u, n, Ranked, HasInserted

\* sorted holds what is sorted of s after each round.
Sorts(sorted, s, R, S) ==
    /\ sorted \in [0..Len(s) -> Seq(S)]
    /\ sorted[0] = <<>>
    /\ \A n \in 1..Len(s) :
          sorted[n] = InsertedAfter(sorted[n - 1], PlaceFor(sorted[n - 1], R, s[n]), s[n])

LEMMA SortedLoop ==
    ASSUME NEW S, NEW s \in Seq(S), NEW R
    PROVE  \E sorted : Sorts(sorted, s, R, S) /\ SortedBy(s, R) = sorted[Len(s)]
  <1> DEFINE N == Len(s)
             X == Seq(S)
             next(n, t) == InsertedAfter(t, PlaceFor(t, R, s[n]), s[n])
             step == [nt \in (1..N) \X X |-> next(nt[1], nt[2])]
             body(f) == [n \in 0..N |-> IF n = 0 THEN <<>> ELSE next(n, f[n - 1])]
             sorted == CHOOSE f : f = body(f)
  <1>1. N \in Nat /\ <<>> \in X
    OBVIOUS
  <1>2. \A n \in 1..N, t \in X : next(n, t) \in X
    BY PlaceIsOne, InsertedElements, ElementOfSeq
  <1>3. SortedBy(s, R) = sorted[N]
    BY DEF SortedBy
  <1> HIDE DEF N, X, next
  <1>4. step \in [(1..N) \X X -> X]
    BY <1>2
  <1>5. ASSUME NEW n \in 1..N, NEW t \in X PROVE step[<<n, t>>] = next(n, t)
    OBVIOUS
  <1> HIDE DEF step
  <1>6. PICK f : IsLoop(f, X, N, <<>>, step)
    BY <1>1, <1>4, LoopExists
  <1>7. f = body(f)
    <2>1. ASSUME NEW n \in 0..N PROVE f[n] = body(f)[n]
      <3>1. CASE n = 0
        BY <3>1, <1>6 DEF IsLoop
      <3>2. CASE n # 0
        <4>1. n \in 1..N /\ n - 1 \in 0..N
          BY <3>2, <1>1
        <4>2. f[n - 1] \in X /\ f[n] = step[<<n, f[n - 1]>>]
          BY <4>1, <1>6 DEF IsLoop
        <4> QED
          BY <4>1, <4>2, <1>5, <3>2
      <3> QED
        BY <3>1, <3>2
    <2> QED
      BY <2>1, <1>6 DEF IsLoop
  <1>8. sorted = body(sorted)
    BY <1>7
  <1> HIDE DEF sorted
  <1>9. sorted = [n \in 0..N |-> sorted[n]] /\ sorted[0] = <<>>
    BY <1>8, <1>1
  <1>10. ASSUME NEW n \in 1..N PROVE sorted[n] = next(n, sorted[n - 1])
    BY <1>8, <1>1
  <1>11. IsLoop(sorted, X, N, <<>>, step)
    BY <1>9, <1>10, <1>5, <1>1, <1>4, LoopIsTyped
  <1>12. sorted \in [0..N -> X]
    BY <1>11 DEF IsLoop
  <1> QED
    BY <1>3, <1>9, <1>10, <1>12 DEF Sorts, next, N, X

\* A slice without duplicates, sorted by an order of its elements, has the same
\* elements, each before those that come after it in the order.
LEMMA SortedElements ==
    ASSUME NEW S, NEW s \in Seq(S), NEW R, IsInjective(s), StrictOrder(R, ToSet(s))
    PROVE  /\ SortedBy(s, R) \in Seq(S)
           /\ ToSet(SortedBy(s, R)) = ToSet(s)
           /\ Len(SortedBy(s, R)) = Len(s)
           /\ Ranked(SortedBy(s, R), R)
  <1> DEFINE N == Len(s)
             Upto(n) == {s[k] : k \in 1..n}
             Done(t, n) == /\ t \in Seq(S) /\ ToSet(t) = Upto(n) /\ Len(t) = n
                           /\ Ranked(t, R)
  <1>1. N \in Nat /\ DOMAIN s = 1..N /\ ToSet(s) = Upto(N)
    BY DEF ToSet
  <1>2. PICK sorted : Sorts(sorted, s, R, S) /\ SortedBy(s, R) = sorted[N]
    BY SortedLoop
  <1> DEFINE Claim == {n \in 0..N : Done(sorted[n], n)}
  <1>3. 0 \in Claim
    <2>1. sorted[0] = <<>>
      BY <1>2 DEF Sorts
    <2>2. <<>> \in Seq(S) /\ ToSet(<<>>) = {} /\ Len(<<>>) = 0 /\ Upto(0) = {}
      BY DEF ToSet
    <2>3. Ranked(<<>>, R)
      BY DEF Ranked
    <2>4. Done(<<>>, 0) /\ 0 \in 0..N
      BY <2>2, <2>3, <1>1
    <2> HIDE DEF Done, N
    <2> QED
      BY <2>1, <2>4
  <1>4. ASSUME NEW n \in 0..N - 1, n \in Claim PROVE n + 1 \in Claim
    <2> DEFINE t == sorted[n]
               x == s[n + 1]
               u == InsertedAfter(t, PlaceFor(t, R, x), x)
    <2>1. n + 1 \in 1..N /\ n \in Nat /\ (n + 1) - 1 = n /\ Done(t, n)
      BY <1>1, <1>4
    <2>2. x \in S /\ x \in ToSet(s)
      BY <2>1, <1>1, ElementOfSeq DEF ToSet
    <2>3. x \notin ToSet(t)
      BY <2>1, <1>1 DEF IsInjective
    <2>4. Upto(n + 1) = Upto(n) \cup {x} /\ Upto(n) \cup {x} \subseteq ToSet(s)
      BY <2>1, <1>1
    <2>5. StrictOrder(R, ToSet(t) \cup {x})
      BY <2>1, <2>4 DEF StrictOrder
    <2>6. sorted[n + 1] = u
      BY <2>1, <1>2 DEF Sorts
    <2> HIDE DEF x, t
    <2>7. Ranked(t, R) /\ t \in Seq(S)
      BY <2>1
    <2>8. u \in Seq(S) /\ ToSet(u) = ToSet(t) \cup {x} /\ Len(u) = Len(t) + 1 /\ Ranked(u, R)
      BY <2>2, <2>3, <2>5, <2>7, InsertedRanked
    <2> HIDE DEF u
    <2>9. Done(sorted[n + 1], n + 1)
      BY <2>1, <2>4, <2>6, <2>8
    <2> HIDE DEF Done, N
    <2> QED
      BY <2>1, <2>9
  <1>5. \A n \in 0..N : n \in Claim
    <2> HIDE DEF Claim, N
    <2> QED
      BY <1>1, <1>3, <1>4, InductionTo
  <1>6. Done(sorted[N], N)
    <2>1. N \in Claim
      <3> HIDE DEF Claim, N
      <3> QED
        BY <1>1, <1>5
    <2> QED
      BY <2>1
  <1> QED
    BY <1>1, <1>2, <1>6

LEMMA SubOrder ==
    ASSUME NEW R, NEW A, NEW B \in SUBSET A, StrictOrder(R, A)
    PROVE  StrictOrder(R, B)
  BY DEF StrictOrder

LEMMA RankedInjective ==
    ASSUME NEW S, NEW t \in Seq(S), NEW R, StrictOrder(R, ToSet(t)), Ranked(t, R)
    PROVE  IsInjective(t)
  <1>1. Len(t) \in Nat /\ DOMAIN t = 1..Len(t) /\ \A k \in 1..Len(t) : t[k] \in ToSet(t)
    BY SequencePlaces
  <1>2. ASSUME NEW i \in 1..Len(t), NEW j \in 1..Len(t), i < j PROVE t[i] # t[j]
    BY <1>1, <1>2 DEF Ranked, StrictOrder
  <1>3. ASSUME NEW i \in 1..Len(t), NEW j \in 1..Len(t), t[i] = t[j] PROVE i = j
    <2>1. ~(i < j) /\ ~(j < i)
      BY <1>2, <1>3
    <2> QED
      BY <2>1, <1>1
  <1> QED
    BY <1>1, <1>3 DEF IsInjective

\* There is one way to put elements in order.
LEMMA SortedUnique ==
    ASSUME NEW S, NEW R, NEW t \in Seq(S), NEW u \in Seq(S), ToSet(t) = ToSet(u),
           StrictOrder(R, ToSet(t)), Ranked(t, R), Ranked(u, R)
    PROVE  t = u
  <1>1. /\ Len(t) \in Nat /\ Len(u) \in Nat
        /\ DOMAIN t = 1..Len(t) /\ DOMAIN u = 1..Len(u)
    OBVIOUS
  <1>2. \A i \in 1..Len(t) : \E j \in 1..Len(u) : u[j] = t[i]
    BY <1>1 DEF ToSet
  <1>3. \A j \in 1..Len(u) : \E i \in 1..Len(t) : t[i] = u[j]
    BY <1>1 DEF ToSet
  <1>4. \A x, y \in ToSet(t) : <<x, y>> \in R => <<y, x>> \notin R /\ x # y
    BY DEF StrictOrder
  <1>5. /\ \A i \in 1..Len(t) : t[i] \in ToSet(t)
        /\ \A j \in 1..Len(u) : u[j] \in ToSet(t)
    BY <1>1 DEF ToSet
  <1> DEFINE differ == {n \in Nat : /\ n \in 1..Len(t) /\ n \in 1..Len(u)
                                    /\ t[n] # u[n]}
  <1>6. differ = {}
    <2> SUFFICES ASSUME differ # {} PROVE FALSE
      OBVIOUS
    <2>1. PICK n \in differ : \A m \in differ : n <= m
      BY LeastExists
    <2>2. n \in 1..Len(t) /\ n \in 1..Len(u) /\ t[n] # u[n]
      BY <2>1
    <2>3. PICK j \in 1..Len(u) : u[j] = t[n]
      BY <2>2, <1>2
    <2>4. PICK i \in 1..Len(t) : t[i] = u[n]
      BY <2>2, <1>3
    <2>5. n < j
      <3>1. ASSUME j < n PROVE FALSE
        <4>1. j \in 1..Len(t) /\ j \notin differ
          BY <3>1, <2>1, <2>2
        <4>2. t[j] = t[n]
          BY <4>1, <2>3
        <4> QED
          BY <4>1, <4>2, <3>1, <2>2, <1>4, <1>5 DEF Ranked
      <3> QED
        BY <3>1, <2>2, <2>3
    <2>6. n < i
      <3>1. ASSUME i < n PROVE FALSE
        <4>1. i \in 1..Len(u) /\ i \notin differ
          BY <3>1, <2>1, <2>2
        <4>2. u[i] = u[n]
          BY <4>1, <2>4
        <4> QED
          BY <4>1, <4>2, <3>1, <2>2, <1>4, <1>5 DEF Ranked
      <3> QED
        BY <3>1, <2>2, <2>4
    <2>7. <<u[n], t[n]>> \in R /\ <<t[n], u[n]>> \in R
      BY <2>2, <2>3, <2>4, <2>5, <2>6 DEF Ranked
    <2> QED
      BY <2>2, <2>7, <1>4, <1>5
  <1>7. \A n \in 1..Len(t) : n \in 1..Len(u) => t[n] = u[n]
    BY <1>6, <1>1
  <1>8. ~(Len(t) < Len(u))
    <2> SUFFICES ASSUME Len(t) < Len(u) PROVE FALSE
      OBVIOUS
    <2>1. Len(u) \in 1..Len(u)
      BY <1>1
    <2>2. PICK i \in 1..Len(t) : t[i] = u[Len(u)]
      BY <2>1, <1>3
    <2>3. i \in 1..Len(u) /\ i < Len(u) /\ u[i] = u[Len(u)]
      BY <2>2, <1>1, <1>7
    <2> QED
      BY <2>1, <2>3, <1>4, <1>5 DEF Ranked
  <1>9. ~(Len(u) < Len(t))
    <2> SUFFICES ASSUME Len(u) < Len(t) PROVE FALSE
      OBVIOUS
    <2>1. Len(t) \in 1..Len(t)
      BY <1>1
    <2>2. PICK i \in 1..Len(u) : u[i] = t[Len(t)]
      BY <2>1, <1>2
    <2>3. i \in 1..Len(t) /\ i < Len(t) /\ t[i] = t[Len(t)]
      BY <2>2, <1>1, <1>7
    <2> QED
      BY <2>1, <2>3, <1>4, <1>5 DEF Ranked
  <1>10. Len(t) = Len(u)
    <2>1. Len(t) \in Nat /\ Len(u) \in Nat
      OBVIOUS
    <2> HIDE DEF differ
    <2> QED
      BY <2>1, <1>8, <1>9
  <1> QED
    BY <1>1, <1>7, <1>10, SeqEqual
=============================================================================
