------------------------------- MODULE Orders -------------------------------
(***************************************************************************)
(* What the proofs need to know of orders: of finitely many requests one   *)
(* ranks highest, and of the entries of a list that satisfy a condition    *)
(* one is first.                                                           *)
(***************************************************************************)
EXTENDS FiniteSetTheorems, TLAPS

\* Among finitely many some rank highest. Requests that wait for each other in
\* a circle are finitely many: if each waited for one of a higher rank, none
\* would rank highest.
LEMMA HighestRank ==
    ASSUME NEW G, IsFiniteSet(G), G # {}, NEW rank \in [G -> Int]
    PROVE  \E p \in G : \A q \in G : rank[q] <= rank[p]
<1> DEFINE Above(p) == {q \in G : rank[q] > rank[p]}
           all == {Above(p) : p \in G}
<1>1. IsWellFoundedOn(StrictSubsetOrdering(G), SUBSET G)
  <2>1. FiniteSubsetsOf(G) = SUBSET G
    BY FS_FiniteSubsetsOfFinite
  <2>2. IsWellFoundedOn(StrictSubsetOrdering(G), FiniteSubsetsOf(G))
    BY FS_StrictSubsetOrderingWellFounded
  <2> QED
    BY <2>1, <2>2, Zenon
<1>2. all \subseteq SUBSET G /\ all # {}
  <2>1. \A p \in G : Above(p) \subseteq G
    OBVIOUS
  <2>2. PICK p \in G : TRUE
    OBVIOUS
  <2> HIDE DEF Above
  <2> QED
    BY <2>1, <2>2
<1>3. PICK least \in all : \A other \in all : ~ (<<other, least>> \in StrictSubsetOrdering(G))
  <2> HIDE DEF all
  <2> QED
    BY <1>1, <1>2, WFMin
<1>4. PICK p \in G : least = Above(p)
  BY <1>3
<1>5. ASSUME NEW q \in G, rank[q] > rank[p]
      PROVE  FALSE
  <2>1. Above(q) \subseteq Above(p)
    BY <1>5
  <2>2. q \in Above(p) /\ q \notin Above(q)
    BY <1>5
  <2>3. <<Above(q), Above(p)>> \in StrictSubsetOrdering(G)
    <3>1. Above(q) \in SUBSET G /\ Above(p) \in SUBSET G
      OBVIOUS
    <3> HIDE DEF Above
    <3> QED
      BY <2>1, <2>2, <3>1 DEF StrictSubsetOrdering
  <2> QED
    BY <1>3, <1>4, <2>3
<1>6. \A q \in G : rank[q] \in Int /\ rank[p] \in Int
  OBVIOUS
<1> QED
  BY <1>5, <1>6

\* A set of natural numbers that is not empty has a least one: the first entry
\* of a list that satisfies a condition.
LEMMA LeastOfNumbers ==
    ASSUME NEW S, S \subseteq Nat, S # {}
    PROVE  \E n \in S : \A m \in S : n <= m
<1>1. PICK some \in S : TRUE
  OBVIOUS
<1> DEFINE G == {n \in S : n <= some}
           rank == [n \in G |-> -n]
<1>2. IsFiniteSet(G)
  <2>1. IsFiniteSet(0 .. some)
    <3>1. 0 \in Int /\ some \in Int
      OBVIOUS
    <3> QED
      BY <3>1, FS_Interval
  <2>2. \A n \in G : n \in Nat /\ n <= some
    OBVIOUS
  <2>3. some \in Nat
    OBVIOUS
  <2>4. G \subseteq 0 .. some
    <3> HIDE DEF G
    <3> QED
      BY <2>2, <2>3
  <2> HIDE DEF G
  <2> QED
    BY <2>1, <2>4, FS_Subset
<1>3. G # {} /\ rank \in [G -> Int]
  <2>1. some \in G
    OBVIOUS
  <2>2. \A n \in G : -n \in Int
    OBVIOUS
  <2> QED
    BY <2>1, <2>2
<1>4. PICK n \in G : \A m \in G : rank[m] <= rank[n]
  <2> HIDE DEF G, rank
  <2> QED
    BY <1>2, <1>3, HighestRank
<1>5. ASSUME NEW m \in S
      PROVE  n <= m
  <2>1. CASE m \in G
    <3>1. rank[m] = -m /\ rank[n] = -n
      BY <2>1
    <3> QED
      BY <1>4, <2>1, <3>1
  <2>2. CASE m \notin G
    BY <2>2
  <2> QED
    BY <2>1, <2>2
<1> QED
  BY <1>4, <1>5
=============================================================================
