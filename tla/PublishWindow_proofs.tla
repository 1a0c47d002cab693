------------------------ MODULE PublishWindow_proofs ------------------------
(***************************************************************************)
(* Proofs about PublishWindow, for every sequence of projects, any number  *)
(* of releases and of faults.  The first half is about the plans: what is  *)
(* composed of any recipe and any hooks, and shaped for any mode and       *)
(* strategy, is a LockedPlan with a TailPlan, and a WindowPlan where the   *)
(* recipe has a window.  The second half, about the commands that run      *)
(* them, uses no more of a plan than that.                                 *)
(***************************************************************************)
EXTENDS PublishWindow, FiniteSetTheorems, SequenceTheorems,
        WellFoundedInduction, TLAPS

-----------------------------------------------------------------------------
(* Looking a plan up. *)

LEMMA LeastOf ==
  ASSUME NEW S \in SUBSET Nat, S # {}
  PROVE  Min(S) \in S /\ \A y \in S : Min(S) <= y
  <1>1. PICK x \in S : \A y \in S : ~(<<y, x>> \in OpToRel(<, Nat))
    BY NatLessThanWellFounded, WFMin
  <1>2. \A y \in S : ~(y < x)
    BY <1>1, Zenon DEF OpToRel
  <1>3. \A y \in S : x <= y
    BY <1>2
  <1> QED BY <1>3 DEF Min

LEMMA IndexOfIs ==
  ASSUME NEW plan, IsSequence(plan), NEW id
  PROVE  /\ IndexOf(plan, id) \in 0 .. Len(plan)
         /\ IndexOf(plan, id) # 0 =>
              /\ plan[IndexOf(plan, id)].id = id
              /\ \A k \in 1 .. Len(plan) : plan[k].id = id => IndexOf(plan, id) <= k
         /\ id \in Ids(plan) => IndexOf(plan, id) # 0
  <1> DEFINE I == {i \in 1 .. Len(plan) : plan[i].id = id}
  <1>1. I \in SUBSET Nat
    BY DEF IsSequence
  <1>2. IndexOf(plan, id) = IF I # {} THEN Min(I) ELSE 0
    BY DEF IndexOf, SelectInSeq
  <1>3. I # {} => Min(I) \in I /\ \A k \in I : Min(I) <= k
    BY <1>1, LeastOf
  <1>4. id \in Ids(plan) => I # {}
    BY DEF Ids, IsSequence
  <1> QED BY <1>2, <1>3, <1>4 DEF IsSequence

\* What --from passes is of the plan, and before the task it names.
LEMMA BeforeIsOfThePlan ==
  ASSUME IsSequence(Plan), NEW from
  PROVE  /\ Before(from) \subseteq Ids(Plan)
         /\ \A id \in Before(from) :
              from # "" /\ \E k \in DOMAIN Plan : Plan[k].id = id /\ k < IndexOf(Plan, from)
  <1>1. CASE from = ""
    BY <1>1 DEF Before
  <1>2. CASE from # ""
    <2> DEFINE m == IndexOf(Plan, from) - 1
    <2> DEFINE S == {Plan[i] : i \in 1 .. Len(Plan)}
    <2>1. m \in -1 .. Len(Plan) - 1
      BY IndexOfIs DEF IsSequence
    <2>2. \A i \in 1 .. m : Plan[i] \in S
      BY <2>1 DEF IsSequence
    <2>3. /\ SubSeq(Plan, 1, m) \in Seq(S)
          /\ Len(SubSeq(Plan, 1, m)) = IF 1 <= m THEN m ELSE 0
          /\ \A i \in 1 .. m : SubSeq(Plan, 1, m)[i] = Plan[i]
      <3>1. m \in Int /\ \A i \in 1 .. m - 1 + 1 : 1 + i - 1 = i
        BY <2>1
      <3> HIDE DEF m, S
      <3>2. /\ SubSeq(Plan, 1, m) \in Seq(S)
            /\ Len(SubSeq(Plan, 1, m)) = IF 1 <= m THEN m - 1 + 1 ELSE 0
            /\ \A i \in 1 .. m - 1 + 1 : SubSeq(Plan, 1, m)[i] = Plan[1 + i - 1]
        BY <2>2, <3>1, SubSeqProperties
      <3> QED BY <3>1, <3>2
    <2>4. DOMAIN SubSeq(Plan, 1, m) = 1 .. (IF 1 <= m THEN m ELSE 0)
      BY <2>3
    <2>5. ASSUME NEW i \in DOMAIN SubSeq(Plan, 1, m)
          PROVE  /\ SubSeq(Plan, 1, m)[i].id \in Ids(Plan)
                 /\ \E k \in DOMAIN Plan :
                      Plan[k].id = SubSeq(Plan, 1, m)[i].id /\ k < IndexOf(Plan, from)
      <3>1. i \in 1 .. m /\ i \in 1 .. Len(Plan)
        BY <2>1, <2>4 DEF IsSequence
      <3>2. SubSeq(Plan, 1, m)[i] = Plan[i] /\ i \in DOMAIN Plan
        BY <2>3, <3>1 DEF IsSequence
      <3>3. i < IndexOf(Plan, from)
        BY <3>1, IndexOfIs
      <3> QED BY <3>2, <3>3 DEF Ids
    <2>6. Before(from) = Ids(SubSeq(Plan, 1, m))
      BY <1>2 DEF Before
    <2>7. \A id \in Before(from) :
            \E i \in DOMAIN SubSeq(Plan, 1, m) : SubSeq(Plan, 1, m)[i].id = id
      BY <2>6 DEF Ids
    <2> HIDE DEF m
    <2> QED BY <1>2, <2>5, <2>7
  <1> QED BY <1>1, <1>2

-----------------------------------------------------------------------------
(* Sequences: what is selected from one, inserted in one and moved in one. *)

Rank(at, k) == Cardinality({j \in at : j < k})

\* The positions in a set are counted from below.
LEMMA RankIs ==
  ASSUME NEW m \in Nat, NEW at \in SUBSET (1 .. m)
  PROVE  /\ Cardinality(at) \in Nat
         /\ \A k \in at : Rank(at, k) \in 0 .. Cardinality(at) - 1
         /\ \A j, k \in at : j < k => Rank(at, j) < Rank(at, k)
         /\ \A i \in 1 .. Cardinality(at) : \E k \in at : Rank(at, k) = i - 1
  <1> DEFINE n == Cardinality(at)
  <1>1. IsFiniteSet(at) /\ n \in Nat
    BY FS_Interval, FS_Subset, FS_CardinalityType, 1 \in Int, m \in Int
  <1>2. ASSUME NEW S \in SUBSET at, NEW k \in at, k \notin S
        PROVE  Cardinality(S) \in 0 .. n - 1
    <2>1. S \cup {k} \in SUBSET at /\ IsFiniteSet(S) /\ Cardinality(S) \in Nat
      BY <1>1, <1>2, FS_Subset, FS_CardinalityType
    <2>2. Cardinality(S \cup {k}) = Cardinality(S) + 1
      BY <1>2, <2>1, FS_AddElement
    <2>3. Cardinality(S \cup {k}) <= n
      BY <1>1, <2>1, FS_Subset
    <2> QED BY <1>1, <2>1, <2>2, <2>3
  <1>3. \A k \in at : Rank(at, k) \in 0 .. n - 1
    <2> SUFFICES ASSUME NEW k \in at
                 PROVE  Cardinality({j \in at : j < k}) \in 0 .. n - 1
      BY DEF Rank
    <2>1. {j \in at : j < k} \in SUBSET at /\ k \notin {j \in at : j < k}
      OBVIOUS
    <2> QED BY <1>2, <2>1
  <1>4. ASSUME NEW j \in at, NEW k \in at, j < k
        PROVE  Rank(at, j) < Rank(at, k)
    <2> DEFINE A == {i \in at : i < j}
    <2> DEFINE B == {i \in at : i < k}
    <2>1. A \cup {j} \in SUBSET B /\ j \notin A /\ B \in SUBSET at /\ A \in SUBSET at
      <3>1. \A i \in at : i \in Int
        OBVIOUS
      <3>2. j \in B /\ j \notin A
        BY <1>4, <3>1
      <3>3. \A i \in at : i < j => i < k
        BY <1>4, <3>1
      <3> QED BY <3>2, <3>3
    <2>2. IsFiniteSet(A) /\ IsFiniteSet(B) /\ Cardinality(A) \in Nat /\ Cardinality(B) \in Nat
      BY <1>1, <2>1, FS_Subset, FS_CardinalityType
    <2> HIDE DEF A, B
    <2>3. Cardinality(A \cup {j}) = Cardinality(A) + 1
      BY <2>1, <2>2, FS_AddElement
    <2>4. Cardinality(A \cup {j}) <= Cardinality(B)
      BY <2>1, <2>2, FS_Subset
    <2>5. Cardinality(A) < Cardinality(B)
      BY <2>2, <2>3, <2>4
    <2> QED BY <2>5 DEF Rank, A, B
  <1>5. ASSUME NEW i \in 1 .. n
        PROVE  \E k \in at : Rank(at, k) = i - 1
    <2> SUFFICES ASSUME \A k \in at : Rank(at, k) # i - 1
                 PROVE  FALSE
      OBVIOUS
    <2> DEFINE T == (0 .. n - 1) \ {i - 1}
    <2> DEFINE r == [k \in at |-> Rank(at, k)]
    <2>1. IsFiniteSet(0 .. n - 1) /\ Cardinality(0 .. n - 1) = n
      <3>1. 0 \in Int /\ n - 1 \in Int /\ n >= 1
        BY <1>1, <1>5
      <3> QED BY <1>1, <3>1, FS_Interval
    <2>2. IsFiniteSet(T) /\ Cardinality(T) = n - 1
      <3> DEFINE U == 0 .. n - 1
      <3>1. i - 1 \in U
        BY <1>1, <1>5
      <3>2. IsFiniteSet(U) /\ Cardinality(U) = n
        BY <2>1
      <3> HIDE DEF U
      <3>3. IsFiniteSet(U \ {i - 1}) /\ Cardinality(U \ {i - 1}) = n - 1
        BY <3>1, <3>2, FS_RemoveElement
      <3> QED BY <3>3 DEF U
    <2>3. r \in [at -> T]
      BY <1>3
    <2>4. Cardinality(T) < n
      BY <1>1, <2>2
    <2>5. PICK j \in at, k \in at : j # k /\ r[j] = r[k]
      <3> HIDE DEF T, r
      <3> QED BY <1>1, <2>2, <2>3, <2>4, FS_PigeonHole
    <2>6. j < k \/ k < j
      BY <2>5
    <2>7. Rank(at, j) \in Int /\ Rank(at, k) \in Int
      BY <1>1, <1>3
    <2> QED BY <1>4, <2>5, <2>6, <2>7
  <1> QED BY <1>1, <1>3, <1>4, <1>5

\* The positions in a set, from the lowest to the highest.
Nth(at) == [i \in 1 .. Cardinality(at) |-> CHOOSE k \in at : Rank(at, k) = i - 1]

\* Nth counts the positions of a set from below.
LEMMA NthIs ==
  ASSUME NEW m \in Nat, NEW at \in SUBSET (1 .. m)
  PROVE  /\ \A i \in 1 .. Cardinality(at) : Nth(at)[i] \in at
         /\ \A i, j \in 1 .. Cardinality(at) : i < j => Nth(at)[i] < Nth(at)[j]
         /\ \A k \in at : \E i \in 1 .. Cardinality(at) : Nth(at)[i] = k
  <1> DEFINE n == Cardinality(at)
  <1> DEFINE f == Nth(at)
  <1>1. n \in Nat
    BY RankIs
  <1>2. \A i \in 1 .. n : f[i] \in at /\ Rank(at, f[i]) = i - 1
    BY RankIs DEF Nth
  <1>5. \A k \in at : k \in Int
    OBVIOUS
  <1>6. ASSUME NEW j \in at, NEW k \in at, Rank(at, j) <= Rank(at, k)
        PROVE  j <= k
    <2>1. j \in Int /\ k \in Int /\ Rank(at, j) \in Int /\ Rank(at, k) \in Int
      BY <1>1, RankIs
    <2>2. k < j => Rank(at, k) < Rank(at, j)
      BY RankIs
    <2> QED BY <1>6, <2>1, <2>2
  <1> HIDE DEF f
  <1>7. ASSUME NEW i \in 1 .. n, NEW j \in 1 .. n, i < j
        PROVE  f[i] < f[j]
    <2>1. Rank(at, f[i]) < Rank(at, f[j]) /\ Rank(at, f[i]) \in Int /\ Rank(at, f[j]) \in Int
      BY <1>1, <1>2, <1>7
    <2>2. f[i] \in at /\ f[j] \in at
      BY <1>2
    <2>3. f[i] \in Int /\ f[j] \in Int
      BY <1>5, <2>2
    <2>4. Rank(at, f[i]) <= Rank(at, f[j])
      BY <2>1
    <2>5. f[i] <= f[j]
      BY <1>6, <2>2, <2>4
    <2> QED BY <2>1, <2>3, <2>5
  <1>8. ASSUME NEW k \in at
        PROVE  \E i \in 1 .. n : f[i] = k
    <2>1. Rank(at, k) \in 0 .. n - 1
      BY RankIs
    <2> DEFINE i == Rank(at, k) + 1
    <2>2. i \in 1 .. n /\ i - 1 = Rank(at, k)
      BY <1>1, <2>1
    <2> HIDE DEF i
    <2>3. f[i] \in at /\ Rank(at, f[i]) = Rank(at, k)
      BY <1>2, <2>2
    <2>4. f[i] \in Int /\ k \in Int
      BY <1>5, <2>3
    <2>5. Rank(at, f[i]) <= Rank(at, k) /\ Rank(at, k) <= Rank(at, f[i])
      BY <2>1, <2>3
    <2>6. f[i] <= k /\ k <= f[i]
      BY <1>6, <2>3, <2>5
    <2> QED BY <2>2, <2>4, <2>6
  <1> QED BY <1>2, <1>7, <1>8 DEF f

Elements(s) == {s[i] : i \in DOMAIN s}

Listed(s) == s \in Seq(Elements(s))

\* A sequence over its own elements is one by its domain.
LEMMA ListedIs ==
  ASSUME NEW s, Listed(s)
  PROVE  IsSequence(s)
  BY LenProperties DEF Listed, IsSequence

\* A sequence over any set is one over its own elements.
LEMMA ListedOf ==
  ASSUME NEW S, NEW s \in Seq(S)
  PROVE  Listed(s)
  <1>1. Len(s) \in Nat /\ DOMAIN s = 1 .. Len(s) /\ s \in [1 .. Len(s) -> S]
    BY LenProperties
  <1>2. s \in [1 .. Len(s) -> Elements(s)]
    BY <1>1 DEF Elements
  <1> QED BY <1>1, <1>2, SeqDef DEF Listed

\* A function on an initial interval of the numbers is a sequence.
LEMMA FunctionIsListed ==
  ASSUME NEW n \in Nat, NEW f, NEW S, f \in [1 .. n -> S]
  PROVE  Listed(f) /\ Len(f) = n
  <1>1. f \in Seq(S)
    BY SeqDef
  <1>2. DOMAIN f = 1 .. Len(f) /\ Len(f) \in Nat /\ DOMAIN f = 1 .. n
    BY <1>1, LenProperties
  <1> QED BY <1>1, <1>2, ListedOf

\* What a concatenation has at each position.
LEMMA ConcatIs ==
  ASSUME NEW s, Listed(s), NEW t, Listed(t)
  PROVE  /\ Listed(s \o t)
         /\ Len(s \o t) = Len(s) + Len(t)
         /\ \A i \in 1 .. Len(s) + Len(t) :
              (s \o t)[i] = IF i <= Len(s) THEN s[i] ELSE t[i - Len(s)]
  <1> DEFINE S == Elements(s) \cup Elements(t)
  <1>1. s \in Seq(S) /\ t \in Seq(S)
    <2>1. /\ Len(s) \in Nat /\ s \in [1 .. Len(s) -> Elements(s)]
          /\ Len(t) \in Nat /\ t \in [1 .. Len(t) -> Elements(t)]
      BY LenProperties DEF Listed
    <2>2. s \in [1 .. Len(s) -> S] /\ t \in [1 .. Len(t) -> S]
      BY <2>1
    <2> HIDE DEF S
    <2> QED BY <2>1, <2>2, SeqDef
  <1> HIDE DEF S
  <1> QED BY <1>1, ConcatProperties, ListedOf

\* What a part of a sequence has at each position.
LEMMA SubSeqIs ==
  ASSUME NEW s, Listed(s), NEW m \in 1 .. Len(s) + 1, NEW n \in m - 1 .. Len(s)
  PROVE  /\ Listed(SubSeq(s, m, n))
         /\ Len(SubSeq(s, m, n)) = n - m + 1
         /\ \A i \in 1 .. n - m + 1 : SubSeq(s, m, n)[i] = s[m + i - 1]
  <1>1. Len(s) \in Nat /\ DOMAIN s = 1 .. Len(s)
    BY ListedIs DEF IsSequence
  <1>2. m \in Int /\ n \in Int /\ (m <= n \/ n = m - 1)
    BY <1>1
  <1>3. \A i \in m .. n : s[i] \in Elements(s)
    BY <1>1 DEF Elements
  <1>4. /\ SubSeq(s, m, n) \in Seq(Elements(s))
        /\ Len(SubSeq(s, m, n)) = IF m <= n THEN n - m + 1 ELSE 0
        /\ \A i \in 1 .. n - m + 1 : SubSeq(s, m, n)[i] = s[m + i - 1]
    BY <1>2, <1>3, SubSeqProperties
  <1>5. Len(SubSeq(s, m, n)) = n - m + 1
    BY <1>2, <1>4
  <1>6. Listed(SubSeq(s, m, n))
    BY <1>4, ListedOf
  <1> QED BY <1>4, <1>5, <1>6

\* A sequence of one element.
LEMMA SingleIs ==
  ASSUME NEW x
  PROVE  Listed(<<x>>) /\ Len(<<x>>) = 1 /\ <<x>>[1] = x
  <1>1. <<x>> \in Seq({x})
    OBVIOUS
  <1> QED BY <1>1, ListedOf

\* InsertAt puts a step at a position, and moves those from there on up by one.
LEMMA InsertedIs ==
  ASSUME NEW s, Listed(s), NEW at \in 1 .. Len(s) + 1, NEW x
  PROVE  /\ Listed(InsertAt(s, at, x))
         /\ Len(InsertAt(s, at, x)) = Len(s) + 1
         /\ \A k \in 1 .. Len(s) + 1 :
              InsertAt(s, at, x)[k] = IF k < at THEN s[k] ELSE IF k = at THEN x ELSE s[k - 1]
  <1> DEFINE a == SubSeq(s, 1, at - 1)
  <1> DEFINE b == SubSeq(s, at, Len(s))
  <1>1. Len(s) \in Nat /\ at \in Nat
    BY ListedIs DEF IsSequence
  <1>2. Listed(a) /\ Len(a) = at - 1 /\ \A i \in 1 .. at - 1 : a[i] = s[i]
    <2>1. 1 \in 1 .. Len(s) + 1 /\ at - 1 \in 1 - 1 .. Len(s)
      BY <1>1
    <2>2. /\ Listed(a) /\ Len(a) = (at - 1) - 1 + 1
          /\ \A i \in 1 .. (at - 1) - 1 + 1 : a[i] = s[1 + i - 1]
      BY <2>1, SubSeqIs
    <2> HIDE DEF a
    <2> QED BY <1>1, <2>2
  <1>3. /\ Listed(b) /\ Len(b) = Len(s) - at + 1
        /\ \A i \in 1 .. Len(s) - at + 1 : b[i] = s[at + i - 1]
    <2>1. Len(s) \in at - 1 .. Len(s)
      BY <1>1
    <2> QED BY <2>1, SubSeqIs
  <1>4. InsertAt(s, at, x) = (a \o <<x>>) \o b
    BY DEF InsertAt
  <1> HIDE DEF a, b
  <1>5. /\ Listed(a \o <<x>>) /\ Len(a \o <<x>>) = at
        /\ \A i \in 1 .. at : (a \o <<x>>)[i] = IF i < at THEN s[i] ELSE x
    <2> DEFINE e == <<x>>
    <2>1. Listed(e) /\ Len(e) = 1 /\ e[1] = x
      BY SingleIs
    <2> HIDE DEF e
    <2>2. /\ Listed(a \o e) /\ Len(a \o e) = Len(a) + Len(e)
          /\ \A i \in 1 .. Len(a) + Len(e) :
               (a \o e)[i] = IF i <= Len(a) THEN a[i] ELSE e[i - Len(a)]
      BY <1>2, <2>1, ConcatIs
    <2>3. Listed(a \o e) /\ Len(a \o e) = at
      BY <1>1, <1>2, <2>1, <2>2
    <2>4. ASSUME NEW i \in 1 .. at
          PROVE  (a \o e)[i] = IF i < at THEN s[i] ELSE x
      <3>1. i <= at - 1 => (a \o e)[i] = a[i] /\ a[i] = s[i] /\ i < at
        BY <1>1, <1>2, <2>1, <2>2
      <3>2. ~(i <= at - 1) => (a \o e)[i] = e[i - (at - 1)] /\ i - (at - 1) = 1 /\ ~(i < at)
        BY <1>1, <1>2, <2>1, <2>2
      <3> QED BY <2>1, <3>1, <3>2
    <2> QED BY <2>3, <2>4 DEF e
  <1> DEFINE c == a \o <<x>>
  <1>6. Listed(c) /\ Len(c) = at /\ \A i \in 1 .. at : c[i] = IF i < at THEN s[i] ELSE x
    BY <1>5
  <1> HIDE DEF c
  <1>7. /\ Listed(c \o b) /\ Len(c \o b) = Len(c) + Len(b)
        /\ \A i \in 1 .. Len(c) + Len(b) :
             (c \o b)[i] = IF i <= Len(c) THEN c[i] ELSE b[i - Len(c)]
    BY <1>3, <1>6, ConcatIs
  <1>8. Len(c \o b) = Len(s) + 1
    BY <1>1, <1>3, <1>6, <1>7
  <1>9. ASSUME NEW k \in 1 .. Len(s) + 1
        PROVE  (c \o b)[k] = IF k < at THEN s[k] ELSE IF k = at THEN x ELSE s[k - 1]
    <2>1. CASE k <= at
      <3>1. (c \o b)[k] = c[k] /\ k \in 1 .. at
        BY <1>1, <1>3, <1>6, <1>7, <2>1
      <3> QED BY <1>1, <1>6, <3>1
    <2>2. CASE k > at
      <3>1. (c \o b)[k] = b[k - at] /\ k - at \in 1 .. Len(s) - at + 1 /\ at + (k - at) - 1 = k - 1
        BY <1>1, <1>3, <1>6, <1>7, <2>2
      <3>2. b[k - at] = s[k - 1]
        BY <1>3, <3>1
      <3> QED BY <1>1, <2>2, <3>1, <3>2
    <2>3. k \in Int /\ at \in Int
      BY <1>1
    <2>4. k <= at \/ k > at
      BY <2>3
    <2> QED BY <2>1, <2>2, <2>4
  <1>10. InsertAt(s, at, x) = c \o b
    BY <1>4 DEF c
  <1> QED BY <1>7, <1>8, <1>9, <1>10

\* MoveBack takes a step to an earlier position, and moves those between up by one.
LEMMA MovedIs ==
  ASSUME NEW s, Listed(s), NEW from \in 1 .. Len(s), NEW to \in 1 .. from
  PROVE  /\ Listed(MoveBack(s, from, to))
         /\ Len(MoveBack(s, from, to)) = Len(s)
         /\ \A k \in 1 .. Len(s) :
              MoveBack(s, from, to)[k] =
                IF k < to \/ k > from THEN s[k] ELSE IF k = to THEN s[from] ELSE s[k - 1]
  <1> DEFINE a == SubSeq(s, 1, from - 1)
  <1> DEFINE b == SubSeq(s, from + 1, Len(s))
  <1> DEFINE r == RemoveAt(s, from)
  <1>1. Len(s) \in Nat /\ from \in Nat /\ to \in Nat
    BY ListedIs DEF IsSequence
  <1>2. Listed(a) /\ Len(a) = from - 1 /\ \A i \in 1 .. from - 1 : a[i] = s[i]
    <2>1. 1 \in 1 .. Len(s) + 1 /\ from - 1 \in 1 - 1 .. Len(s)
      BY <1>1
    <2>2. /\ Listed(a) /\ Len(a) = (from - 1) - 1 + 1
          /\ \A i \in 1 .. (from - 1) - 1 + 1 : a[i] = s[1 + i - 1]
      BY <2>1, SubSeqIs
    <2> HIDE DEF a
    <2> QED BY <1>1, <2>2
  <1>3. /\ Listed(b) /\ Len(b) = Len(s) - from
        /\ \A i \in 1 .. Len(s) - from : b[i] = s[from + i]
    <2>1. from + 1 \in 1 .. Len(s) + 1 /\ Len(s) \in (from + 1) - 1 .. Len(s)
      BY <1>1
    <2>2. /\ Listed(b) /\ Len(b) = Len(s) - (from + 1) + 1
          /\ \A i \in 1 .. Len(s) - (from + 1) + 1 : b[i] = s[(from + 1) + i - 1]
      BY <2>1, SubSeqIs
    <2> HIDE DEF b
    <2> QED BY <1>1, <2>2
  <1>4. r = a \o b
    BY DEF RemoveAt
  <1> HIDE DEF a, b, r
  <1>5. /\ Listed(r) /\ Len(r) = Len(a) + Len(b)
        /\ \A i \in 1 .. Len(a) + Len(b) : r[i] = IF i <= Len(a) THEN a[i] ELSE b[i - Len(a)]
    BY <1>2, <1>3, <1>4, ConcatIs
  <1>6. Len(r) = Len(s) - 1
    BY <1>1, <1>2, <1>3, <1>5
  <1>7. ASSUME NEW i \in 1 .. Len(s) - 1
        PROVE  r[i] = IF i < from THEN s[i] ELSE s[i + 1]
    <2>1. CASE i < from
      BY <1>1, <1>2, <1>3, <1>5, <2>1
    <2>2. CASE ~(i < from)
      <3>1. /\ r[i] = b[i - (from - 1)] /\ i - (from - 1) \in 1 .. Len(s) - from
            /\ from + (i - (from - 1)) = i + 1
        BY <1>1, <1>2, <1>3, <1>5, <2>2
      <3> QED BY <1>3, <2>2, <3>1
    <2> QED BY <2>1, <2>2
  <1>8. to \in 1 .. Len(r) + 1
    BY <1>1, <1>6
  <1> DEFINE x == s[from]
  <1> HIDE DEF x
  <1>9. /\ Listed(InsertAt(r, to, x))
        /\ Len(InsertAt(r, to, x)) = Len(r) + 1
        /\ \A k \in 1 .. Len(r) + 1 :
             InsertAt(r, to, x)[k] = IF k < to THEN r[k] ELSE IF k = to THEN x ELSE r[k - 1]
    BY <1>5, <1>8, InsertedIs
  <1>10. MoveBack(s, from, to) = InsertAt(r, to, x)
    BY DEF MoveBack, r, x
  <1>11. Len(InsertAt(r, to, x)) = Len(s)
    BY <1>1, <1>6, <1>9
  <1>12. ASSUME NEW k \in 1 .. Len(s)
         PROVE  InsertAt(r, to, x)[k] =
                  IF k < to \/ k > from THEN s[k] ELSE IF k = to THEN x ELSE s[k - 1]
    <2>1. CASE k < to
      <3>1. InsertAt(r, to, x)[k] = r[k] /\ k \in 1 .. Len(s) - 1 /\ k < from
        BY <1>1, <1>6, <1>9, <2>1
      <3> QED BY <1>7, <2>1, <3>1
    <2>2. CASE k = to
      BY <1>1, <1>6, <1>9, <2>2
    <2>3. CASE k > to
      <3>1. InsertAt(r, to, x)[k] = r[k - 1] /\ k - 1 \in 1 .. Len(s) - 1 /\ (k - 1) + 1 = k
        BY <1>1, <1>6, <1>9, <2>3
      <3>2. r[k - 1] = IF k - 1 < from THEN s[k - 1] ELSE s[k]
        BY <1>7, <3>1
      <3> QED BY <1>1, <2>3, <3>1, <3>2
    <2> QED BY <1>1, <2>1, <2>2, <2>3
  <1> QED BY <1>9, <1>10, <1>11, <1>12 DEF x

-----------------------------------------------------------------------------
(* The tasks of the canonical order. *)

\* A set that has 0, and with each number up to n - 1 the next one, has those up to n.
LEMMA CountingUp ==
  ASSUME NEW n \in Nat, NEW S, 0 \in S, \A i \in 0 .. n - 1 : i \in S => i + 1 \in S
  PROVE  \A i \in 0 .. n : i \in S
  <1> SUFFICES ASSUME NEW j \in 0 .. n, j \notin S
               PROVE  FALSE
    OBVIOUS
  <1> DEFINE Missing == {i \in 0 .. n : i \notin S}
  <1> DEFINE m == Min(Missing)
  <1>1. Missing \in SUBSET Nat /\ Missing # {}
    OBVIOUS
  <1>2. m \in Missing /\ \A y \in Missing : m <= y
    BY <1>1, LeastOf
  <1> HIDE DEF m
  <1>3. m \in 0 .. n /\ m \notin S /\ m # 0
    BY <1>2
  <1>4. m - 1 \in 0 .. n - 1 /\ (m - 1) + 1 = m
    BY <1>3
  <1>5. m - 1 \in S
    <2> SUFFICES ASSUME m - 1 \notin S
                 PROVE  FALSE
      OBVIOUS
    <2>1. m - 1 \in Missing
      BY <1>4
    <2> QED BY <1>2, <1>4, <2>1
  <1> QED BY <1>3, <1>4, <1>5

\* A bounded set that is not empty has a greatest element, which is its Max.
LEMMA GreatestOf ==
  ASSUME NEW n \in Nat, NEW S \in SUBSET (1 .. n), S # {}
  PROVE  Max(S) \in S /\ \A y \in S : Max(S) >= y
  <1> DEFINE Above == {k \in Nat : \A y \in S : y <= k}
  <1> DEFINE m == Min(Above)
  <1>1. Above \in SUBSET Nat /\ n \in Above
    OBVIOUS
  <1>2. m \in Above /\ \A k \in Above : m <= k
    BY <1>1, LeastOf
  <1> HIDE DEF m
  <1>3. m \in Nat /\ \A y \in S : y <= m
    BY <1>2
  <1>4. m \in S
    <2> SUFFICES ASSUME m \notin S
                 PROVE  FALSE
      OBVIOUS
    <2>1. PICK y \in S : TRUE
      OBVIOUS
    <2>2. m - 1 \in Nat
      BY <1>3, <2>1
    <2>3. \A k \in S : k <= m - 1
      <3> TAKE k \in S
      <3>1. k \in Int /\ k <= m /\ k # m
        BY <1>3
      <3> QED BY <1>3, <3>1
    <2>4. m - 1 \in Above
      BY <2>2, <2>3
    <2> QED BY <1>2, <1>3, <2>4
  <1>5. \E x \in S : \A y \in S : x >= y
    BY <1>3, <1>4
  <1> QED BY <1>5 DEF Max

TaskAt(id) == SelectInSeq(TaskOrder, LAMBDA t : t = id)

\* Every task stands once in the canonical order.
LEMMA TaskOrderIs ==
  /\ Len(TaskOrder) = 25 /\ DOMAIN TaskOrder = 1 .. 25
  /\ \A i, j \in 1 .. 25 : TaskOrder[i] = TaskOrder[j] => i = j
  /\ TaskOrder[25] = "unlock"
  BY DEF TaskOrder

\* A task is found where it stands.
LEMMA TaskAtIs ==
  ASSUME NEW id \in TaskIds
  PROVE  TaskAt(id) \in 1 .. 25 /\ TaskOrder[TaskAt(id)] = id
  <1> DEFINE I == {i \in 1 .. Len(TaskOrder) : TaskOrder[i] = id}
  <1>1. I \in SUBSET Nat /\ I # {} /\ I \in SUBSET (1 .. 25)
    BY TaskOrderIs DEF TaskIds
  <1>2. TaskAt(id) = Min(I)
    BY <1>1 DEF TaskAt, SelectInSeq
  <1>3. Min(I) \in I
    BY <1>1, LeastOf
  <1> QED BY <1>1, <1>2, <1>3

\* What stands at a position is a task, and is found there.
LEMMA TaskAtOrder ==
  ASSUME NEW i \in 1 .. 25
  PROVE  TaskOrder[i] \in TaskIds /\ TaskAt(TaskOrder[i]) = i
  <1>1. TaskOrder[i] \in TaskIds
    BY TaskOrderIs DEF TaskIds
  <1> QED BY <1>1, TaskAtIs, TaskOrderIs

\* Where the tasks stand that the window and the lock are about.
LEMMA TasksStand ==
  /\ TaskAt("lock") = 2 /\ TaskAt("release") = 3 /\ TaskAt("artifact") = 12
  /\ TaskAt("enable") = 13 /\ TaskAt("migrate") = 17 /\ TaskAt("activate") = 18
  /\ TaskAt("disable") = 21 /\ TaskAt("unlock") = 25
  /\ {"check", "lock", "release", "shared", "artifact", "enable", "migrate", "activate",
      "disable", "unlock", "cleanup", "verify"} \subseteq TaskIds
  /\ "restore" \notin TaskIds
  <1>1. /\ TaskOrder[1] = "check" /\ TaskOrder[2] = "lock" /\ TaskOrder[3] = "release"
        /\ TaskOrder[5] = "shared"
        /\ TaskOrder[12] = "artifact" /\ TaskOrder[13] = "enable" /\ TaskOrder[17] = "migrate"
        /\ TaskOrder[18] = "activate" /\ TaskOrder[21] = "disable" /\ TaskOrder[25] = "unlock"
        /\ TaskOrder[23] = "verify" /\ TaskOrder[24] = "cleanup"
    BY DEF TaskOrder
  <1>2. \A i \in 1 .. 25 : TaskOrder[i] # "restore"
    BY DEF TaskOrder
  <1>3. "restore" \notin TaskIds
    BY <1>2, TaskOrderIs DEF TaskIds
  <1>4. /\ TaskAt(TaskOrder[2]) = 2 /\ TaskAt(TaskOrder[3]) = 3 /\ TaskAt(TaskOrder[12]) = 12
        /\ TaskAt(TaskOrder[13]) = 13 /\ TaskAt(TaskOrder[17]) = 17 /\ TaskAt(TaskOrder[18]) = 18
        /\ TaskAt(TaskOrder[21]) = 21 /\ TaskAt(TaskOrder[25]) = 25
    BY TaskAtOrder
  <1>5. \A i \in 1 .. 25 : TaskOrder[i] \in TaskIds
    BY TaskAtOrder
  <1>6. /\ TaskOrder[1] \in TaskIds /\ TaskOrder[2] \in TaskIds /\ TaskOrder[3] \in TaskIds
        /\ TaskOrder[5] \in TaskIds /\ TaskOrder[12] \in TaskIds /\ TaskOrder[13] \in TaskIds
        /\ TaskOrder[17] \in TaskIds /\ TaskOrder[18] \in TaskIds /\ TaskOrder[21] \in TaskIds
        /\ TaskOrder[23] \in TaskIds /\ TaskOrder[24] \in TaskIds /\ TaskOrder[25] \in TaskIds
    BY <1>5
  <1>7. /\ TaskAt("lock") = 2 /\ TaskAt("release") = 3 /\ TaskAt("artifact") = 12
        /\ TaskAt("enable") = 13 /\ TaskAt("migrate") = 17 /\ TaskAt("activate") = 18
        /\ TaskAt("disable") = 21 /\ TaskAt("unlock") = 25
    BY <1>1, <1>4
  <1> QED BY <1>1, <1>3, <1>6, <1>7

\* The stages of the tasks that the window and the lock are about.
LEMMA StagesAre ==
  /\ Stage = {"prepare", "build", "publish", "verify", "cleanup"}
  /\ TaskStage("unlock") = "cleanup"
  /\ TaskStage("disable") = "publish" /\ TaskStage("artifact") = "build"
  /\ \A id \in {"check", "lock", "shared"} : TaskStage(id) = "prepare"
  <1>1. Stage = {"prepare", "build", "publish", "verify", "cleanup"}
    BY DEF Stage, StageTasks
  <1>2. ASSUME NEW id \in {"unlock", "disable", "artifact", "check", "lock", "shared"}
        PROVE  TaskStage(id) = CASE id = "unlock" -> "cleanup" [] id = "disable" -> "publish"
                                 [] id = "artifact" -> "build" [] OTHER -> "prepare"
    BY <1>1 DEF TaskStage, StageTasks
  <1> QED BY <1>1, <1>2

-----------------------------------------------------------------------------
(* A composed plan: the tasks of the recipe and hooks, each once, the tasks in *)
(* order but for those that were moved.                                       *)

\* Selected keeps what is at the positions, in their order, and nothing else.
LEMMA SelectedIs ==
  ASSUME NEW m \in Nat, NEW at \in SUBSET (1 .. m), NEW seq
  PROVE  /\ Cardinality(at) \in Nat
         /\ Listed(Selected(seq, at)) /\ Len(Selected(seq, at)) = Cardinality(at)
         /\ \A i \in 1 .. Cardinality(at) : Selected(seq, at)[i] = seq[Nth(at)[i]]
  <1>1. Cardinality(at) \in Nat
    BY RankIs
  <1>2. Selected(seq, at) = [i \in 1 .. Cardinality(at) |-> seq[Nth(at)[i]]]
    BY DEF Selected, Nth, Rank
  <1> DEFINE T == {seq[k] : k \in at}
  <1>3. Selected(seq, at) \in [1 .. Cardinality(at) -> T]
    <2>1. \A i \in 1 .. Cardinality(at) : Nth(at)[i] \in at
      BY NthIs
    <2>2. \A i \in 1 .. Cardinality(at) : seq[Nth(at)[i]] \in T
      BY <2>1
    <2> HIDE DEF T
    <2> QED BY <1>2, <2>2
  <1> HIDE DEF T
  <1>4. Listed(Selected(seq, at)) /\ Len(Selected(seq, at)) = Cardinality(at)
    BY <1>1, <1>3, FunctionIsListed
  <1> QED BY <1>1, <1>2, <1>4

Fields == {"id", "hook", "stage", "implemented", "gated", "skipped", "order"}

IsTaskStep(recipe, s, gated, skipped) ==
  /\ ~s.hook /\ s.id \in recipe.declared /\ s.stage = TaskStage(s.id)
  /\ s.implemented <=> s.id \in recipe.implemented
  /\ Fields \subseteq DOMAIN s /\ (s.gated <=> s.id \in gated)
  /\ s.skipped => s.id \in skipped

IsHookStep(hooks, s) ==
  /\ s.hook /\ s.implemented /\ ~s.skipped /\ Fields \subseteq DOMAIN s /\ ~s.gated
  /\ \E h \in DOMAIN hooks : s.id = hooks[h].name /\ s.order = hooks[h].order

Unique(plan) == \A k, l \in DOMAIN plan : plan[k].id = plan[l].id => k = l

\* The tasks are in canonical order, but for those that shaping moves.
TasksInOrder(plan, moved) ==
  \A k, l \in DOMAIN plan :
    k < l /\ ~plan[k].hook /\ ~plan[l].hook /\ plan[k].id \notin moved /\ plan[l].id \notin moved
      => TaskAt(plan[k].id) < TaskAt(plan[l].id)

\* The unlock and what follows it are of the last stage.
EndsWithUnlock(plan) ==
  \A k, l \in DOMAIN plan : plan[k].id = "unlock" /\ k <= l => plan[l].stage = "cleanup"

Composed(recipe, hooks, plan, moved, gated, skipped) ==
  /\ Listed(plan)
  /\ \A k \in DOMAIN plan :
       IsTaskStep(recipe, plan[k], gated, skipped) \/ IsHookStep(hooks, plan[k])
  /\ Unique(plan)
  /\ TasksInOrder(plan, moved)
  /\ recipe.declared \subseteq Ids(plan)
  /\ EndsWithUnlock(plan)

Built(recipe, hooks, plan) == Composed(recipe, hooks, plan, {}, recipe.gated, {})

\* The steps of a recipe are its tasks in canonical order.
LEMMA RecipeStepsAre ==
  ASSUME NEW recipe, IsRecipe(recipe), NEW hooks
  PROVE  /\ Built(recipe, hooks, RecipeSteps(recipe))
         /\ Ids(RecipeSteps(recipe)) = recipe.declared
  <1> DEFINE at == {i \in DOMAIN TaskOrder : TaskOrder[i] \in recipe.declared}
  <1> DEFINE n == Cardinality(at)
  <1> DEFINE f == Nth(at)
  <1> DEFINE steps == RecipeSteps(recipe)
  <1>1. at \in SUBSET (1 .. 25) /\ 25 \in Nat
    BY TaskOrderIs
  <1>2. /\ n \in Nat /\ Listed(Selected(TaskOrder, at)) /\ Len(Selected(TaskOrder, at)) = n
        /\ \A i \in 1 .. n : Selected(TaskOrder, at)[i] = TaskOrder[f[i]]
    BY <1>1, SelectedIs
  <1>3. /\ \A i \in 1 .. n : f[i] \in at
        /\ \A i, j \in 1 .. n : i < j => f[i] < f[j]
        /\ \A k \in at : \E i \in 1 .. n : f[i] = k
    BY <1>1, NthIs
  <1>4. steps = [i \in 1 .. n |-> TaskStep(recipe, TaskOrder[f[i]])]
    <2>1. DOMAIN Selected(TaskOrder, at) = 1 .. n
      BY <1>2, ListedIs DEF IsSequence
    <2> QED BY <1>2, <2>1 DEF RecipeSteps
  <1>5. \A i \in 1 .. n : f[i] \in 1 .. 25 /\ TaskOrder[f[i]] \in recipe.declared
    BY <1>1, <1>3
  <1> HIDE DEF n, at, steps, f
  <1>6. Listed(steps) /\ Len(steps) = n /\ DOMAIN steps = 1 .. n
    <2>1. steps \in [1 .. n -> {steps[i] : i \in 1 .. n}]
      BY <1>4
    <2> QED BY <1>2, <1>4, <2>1, FunctionIsListed
  <1>7. \A i \in 1 .. n : IsTaskStep(recipe, steps[i], recipe.gated, {})
    BY <1>4, <1>5 DEF TaskStep, IsTaskStep, Fields
  <1>8. \A i \in 1 .. n : steps[i].id = TaskOrder[f[i]] /\ TaskAt(steps[i].id) = f[i]
    BY <1>4, <1>5, TaskAtOrder DEF TaskStep
  <1>9. \A i, j \in 1 .. n : i < j => TaskAt(steps[i].id) < TaskAt(steps[j].id)
    BY <1>3, <1>8
  <1>10. Unique(steps)
    <2> SUFFICES ASSUME NEW i \in 1 .. n, NEW j \in 1 .. n, steps[i].id = steps[j].id, i # j
                 PROVE  FALSE
      BY <1>6 DEF Unique
    <2>1. i < j \/ j < i
      BY <1>2
    <2>2. f[i] \in Int /\ f[j] \in Int /\ f[i] = f[j]
      BY <1>5, <1>8
    <2> QED BY <1>3, <2>1, <2>2
  <1>11. Ids(steps) = recipe.declared
    <2>1. \A i \in 1 .. n : steps[i].id \in recipe.declared
      BY <1>5, <1>8
    <2>2. ASSUME NEW id \in recipe.declared
          PROVE  \E i \in 1 .. n : steps[i].id = id
      <3>1. id \in TaskIds
        BY DEF IsRecipe
      <3>2. TaskAt(id) \in at
        BY <3>1, TaskAtIs, TaskOrderIs DEF at
      <3>3. PICK i \in 1 .. n : f[i] = TaskAt(id)
        BY <1>3, <3>2
      <3> QED BY <1>8, <3>1, <3>3, TaskAtIs
    <2> QED BY <1>6, <2>1, <2>2 DEF Ids
  <1>12. EndsWithUnlock(steps)
    <2> SUFFICES ASSUME NEW k \in 1 .. n, NEW l \in 1 .. n, steps[k].id = "unlock", k <= l
                 PROVE  steps[l].stage = "cleanup"
      BY <1>6 DEF EndsWithUnlock
    <2>1. TaskAt(steps[k].id) = 25 /\ f[l] <= 25 /\ f[l] \in Int
      BY <1>5, TasksStand
    <2>2. ~(k < l)
      BY <1>8, <1>9, <2>1
    <2>3. k = l
      BY <2>2
    <2> QED BY <1>7, <2>3, StagesAre DEF IsTaskStep
  <1> QED BY <1>6, <1>7, <1>9, <1>10, <1>11, <1>12 DEF Built, Composed, TasksInOrder, steps

-----------------------------------------------------------------------------
\* Where a step of the plan was before another one was put at a position.
Shifted(at, k) == IF k < at THEN k ELSE k - 1

\* A sequence before and after an element was put in it.
LEMMA PutIs ==
  ASSUME NEW s, Listed(s), NEW at \in 1 .. Len(s) + 1, NEW x
  PROVE  /\ Listed(InsertAt(s, at, x)) /\ Len(InsertAt(s, at, x)) = Len(s) + 1
         /\ DOMAIN InsertAt(s, at, x) = 1 .. Len(s) + 1 /\ DOMAIN s = 1 .. Len(s)
         /\ InsertAt(s, at, x)[at] = x
         /\ \A k \in 1 .. Len(s) + 1 :
              k # at => Shifted(at, k) \in 1 .. Len(s) /\ InsertAt(s, at, x)[k] = s[Shifted(at, k)]
         /\ \A j \in 1 .. Len(s) :
              \E k \in 1 .. Len(s) + 1 : k # at /\ Shifted(at, k) = j
         /\ \A k, l \in 1 .. Len(s) + 1 :
              k # at /\ l # at /\ k < l => Shifted(at, k) < Shifted(at, l)
  <1> DEFINE t == InsertAt(s, at, x)
  <1>1. /\ Listed(t) /\ Len(t) = Len(s) + 1
        /\ \A k \in 1 .. Len(s) + 1 :
             t[k] = IF k < at THEN s[k] ELSE IF k = at THEN x ELSE s[k - 1]
    BY InsertedIs
  <1> HIDE DEF t
  <1>2. DOMAIN t = 1 .. Len(s) + 1 /\ DOMAIN s = 1 .. Len(s) /\ Len(s) \in Nat
    BY <1>1, ListedIs DEF IsSequence
  <1>3. at \in Int /\ \A k \in 1 .. Len(s) + 1 : k \in Int
    BY <1>2
  <1>4. \A k \in 1 .. Len(s) + 1 :
          k # at => Shifted(at, k) \in 1 .. Len(s) /\ t[k] = s[Shifted(at, k)]
    BY <1>1, <1>2, <1>3 DEF Shifted
  <1>5. ASSUME NEW j \in 1 .. Len(s)
        PROVE  \E k \in 1 .. Len(s) + 1 : k # at /\ Shifted(at, k) = j
    <2>1. CASE j < at
      BY <1>2, <1>3, <2>1 DEF Shifted
    <2>2. CASE ~(j < at)
      <3>1. j + 1 \in 1 .. Len(s) + 1 /\ j + 1 # at /\ Shifted(at, j + 1) = j
        BY <1>2, <1>3, <2>2 DEF Shifted
      <3> QED BY <3>1
    <2> QED BY <2>1, <2>2
  <1>6. \A k, l \in 1 .. Len(s) + 1 :
          k # at /\ l # at /\ k < l => Shifted(at, k) < Shifted(at, l)
    BY <1>2, <1>3 DEF Shifted
  <1> QED BY <1>1, <1>2, <1>4, <1>5, <1>6 DEF t

\* The last step that a stage has.
LEMMA LastIndexIs ==
  ASSUME NEW plan, IsSequence(plan), NEW stage
  PROVE  LET First == SelectInSeq(plan, LAMBDA s : s.stage = stage)
             Final == SelectLastInSeq(plan, LAMBDA s : s.stage = stage)
         IN  /\ First # 0 => First \in 1 .. Len(plan) /\ plan[First].stage = stage
             /\ Final # 0 => Final \in 1 .. Len(plan) /\ plan[Final].stage = stage
  <1> DEFINE I == {i \in 1 .. Len(plan) : plan[i].stage = stage}
  <1>1. I \in SUBSET Nat /\ I \in SUBSET (1 .. Len(plan)) /\ Len(plan) \in Nat
    BY DEF IsSequence
  <1>2. /\ SelectInSeq(plan, LAMBDA s : s.stage = stage) = IF I # {} THEN Min(I) ELSE 0
        /\ SelectLastInSeq(plan, LAMBDA s : s.stage = stage) = IF I # {} THEN Max(I) ELSE 0
    BY DEF SelectInSeq, SelectLastInSeq
  <1>3. I # {} => Min(I) \in I
    BY <1>1, LeastOf
  <1>4. I # {} => Max(I) \in I
    <2> HIDE DEF I
    <2> QED BY <1>1, GreatestOf
  <1> QED BY <1>2, <1>3, <1>4

\* Where a hook that has an anchor is anchored.
LEMMA AnchorIs ==
  ASSUME NEW plan, IsSequence(plan), NEW hook, AnchorIndex(plan, hook) # 0
  PROVE  LET anchor == AnchorIndex(plan, hook)
         IN  /\ anchor \in 1 .. Len(plan)
             /\ HookStep(plan, hook).stage = plan[anchor].stage
             /\ hook.kind # "stage" =>
                  plan[anchor].id = hook.on /\ anchor = IndexOf(plan, hook.on)
  <1>1. CASE hook.kind = "stage"
    <2> DEFINE first == SelectInSeq(plan, LAMBDA s : s.stage = hook.on)
    <2> DEFINE last == SelectLastInSeq(plan, LAMBDA s : s.stage = hook.on)
    <2>1. AnchorIndex(plan, hook) = IF hook.position = "before" THEN first ELSE last
      BY <1>1 DEF AnchorIndex
    <2>2. /\ first # 0 => first \in 1 .. Len(plan) /\ plan[first].stage = hook.on
          /\ last # 0 => last \in 1 .. Len(plan) /\ plan[last].stage = hook.on
      BY LastIndexIs
    <2>3. HookStep(plan, hook).stage = hook.on
      BY <1>1 DEF HookStep
    <2> HIDE DEF first, last
    <2> QED BY <1>1, <2>1, <2>2, <2>3
  <1>2. CASE hook.kind # "stage"
    <2>1. AnchorIndex(plan, hook) = IndexOf(plan, hook.on)
      BY <1>2 DEF AnchorIndex
    <2>2. IndexOf(plan, hook.on) \in 1 .. Len(plan) /\ plan[IndexOf(plan, hook.on)].id = hook.on
      BY <2>1, IndexOfIs DEF IsSequence
    <2> QED BY <1>2, <2>1, <2>2 DEF HookStep
  <1> QED BY <1>1, <1>2

-----------------------------------------------------------------------------
(* One hook is put at its anchor. *)

\* Where a hook stops behind its anchor: at what is no hook, or of a greater order.
StopsAt(plan, hook, i) == i > Len(plan) \/ ~plan[i].hook \/ plan[i].order > hook.order

Spot(plan, hook, anchor) ==
  IF hook.position = "before" THEN anchor
  ELSE CHOOSE i \in anchor + 1 .. Len(plan) + 1 :
         StopsAt(plan, hook, i) /\ \A j \in anchor + 1 .. i - 1 : ~StopsAt(plan, hook, j)

\* The position insertStepAt finds: past the hooks of no greater order.
LEMMA SpotIs ==
  ASSUME NEW plan, IsSequence(plan), NEW hook, NEW anchor \in 1 .. Len(plan)
  PROVE  LET at == Spot(plan, hook, anchor)
         IN  /\ InsertStepAt(plan, hook, anchor) = InsertAt(plan, at, HookStep(plan, hook))
             /\ at \in anchor .. Len(plan) + 1 /\ at \in 1 .. Len(plan) + 1
             /\ hook.position = "before" => at = anchor
             /\ hook.position # "before" =>
                  /\ at # anchor /\ StopsAt(plan, hook, at)
                  /\ \A j \in anchor + 1 .. at - 1 : ~StopsAt(plan, hook, j)
  <1> DEFINE n == Len(plan)
  <1> DEFINE at == Spot(plan, hook, anchor)
  <1> DEFINE Good(i) == StopsAt(plan, hook, i) /\ \A j \in anchor + 1 .. i - 1 : ~StopsAt(plan, hook, j)
  <1>1. n \in Nat /\ anchor \in Nat /\ anchor <= n
    BY DEF IsSequence
  <1>2. InsertStepAt(plan, hook, anchor) = InsertAt(plan, at, HookStep(plan, hook))
    BY DEF InsertStepAt, Spot, StopsAt
  <1>3. \E i \in anchor + 1 .. n + 1 : Good(i)
    <2> DEFINE S == {i \in anchor + 1 .. n + 1 : StopsAt(plan, hook, i)}
    <2>1. n + 1 \in S
      BY <1>1 DEF StopsAt
    <2>2. S \in SUBSET Nat /\ S # {}
      BY <1>1, <2>1
    <2>3. Min(S) \in S /\ \A y \in S : Min(S) <= y
      BY <2>2, LeastOf
    <2> DEFINE m == Min(S)
    <2> HIDE DEF m
    <2>4. m \in anchor + 1 .. n + 1 /\ StopsAt(plan, hook, m) /\ \A y \in S : m <= y
      BY <2>3 DEF m
    <2>5. ASSUME NEW j \in anchor + 1 .. m - 1
          PROVE  ~StopsAt(plan, hook, j)
      <3>1. j \in anchor + 1 .. n + 1 /\ ~(m <= j)
        BY <1>1, <2>4
      <3> QED BY <2>4, <3>1
    <2> QED BY <2>4, <2>5
  <1>4. CASE hook.position = "before"
    <2>1. at = anchor
      BY <1>4 DEF Spot
    <2> QED BY <1>1, <1>2, <1>4, <2>1
  <1>5. CASE hook.position # "before"
    <2>1. at = CHOOSE i \in anchor + 1 .. n + 1 : Good(i)
      BY <1>5 DEF Spot
    <2> HIDE DEF at
    <2>2. at \in anchor + 1 .. n + 1 /\ Good(at)
      BY <1>3, <2>1
    <2>3. at \in anchor .. n + 1 /\ at \in 1 .. n + 1 /\ at # anchor
      BY <1>1, <2>2
    <2> QED BY <1>2, <1>5, <2>2, <2>3 DEF at
  <1> QED BY <1>4, <1>5

Anchored(plan, hook) == AnchorIndex(plan, hook) # 0

Put(plan, hook) == InsertStepAt(plan, hook, AnchorIndex(plan, hook))

Place(plan, hook) == Spot(plan, hook, AnchorIndex(plan, hook))

\* A hook that is put is at its place, and nothing else moves past another.
LEMMA PutAt ==
  ASSUME NEW plan, Listed(plan), NEW hook, Anchored(plan, hook)
  PROVE  LET at  == Place(plan, hook)
             new == Put(plan, hook)
             n   == Len(plan)
         IN  /\ n \in Nat /\ at \in 1 .. n + 1 /\ Listed(new)
             /\ DOMAIN plan = 1 .. n /\ DOMAIN new = 1 .. n + 1
             /\ new[at] = HookStep(plan, hook)
             /\ \A k \in 1 .. n + 1 : k # at => Shifted(at, k) \in 1 .. n /\ new[k] = plan[Shifted(at, k)]
             /\ \A j \in 1 .. n : \E k \in 1 .. n + 1 : k # at /\ Shifted(at, k) = j
             /\ \A k, l \in 1 .. n + 1 :
                  k # at /\ l # at /\ k < l => Shifted(at, k) < Shifted(at, l)
  <1> DEFINE at == Place(plan, hook)
  <1> DEFINE anchor == AnchorIndex(plan, hook)
  <1>1. IsSequence(plan)
    BY ListedIs
  <1>2. anchor \in 1 .. Len(plan)
    BY <1>1, AnchorIs DEF Anchored
  <1>3. at \in 1 .. Len(plan) + 1 /\ Put(plan, hook) = InsertAt(plan, at, HookStep(plan, hook))
    BY <1>1, <1>2, SpotIs DEF Place, Put
  <1> DEFINE s == HookStep(plan, hook)
  <1> DEFINE new == Put(plan, hook)
  <1> DEFINE n == Len(plan)
  <1>4. new = InsertAt(plan, at, s) /\ at \in 1 .. n + 1 /\ n \in Nat
    BY <1>1, <1>3 DEF IsSequence
  <1>5. /\ Listed(InsertAt(plan, at, s))
        /\ DOMAIN InsertAt(plan, at, s) = 1 .. n + 1 /\ DOMAIN plan = 1 .. n
        /\ InsertAt(plan, at, s)[at] = s
        /\ \A k \in 1 .. n + 1 :
             k # at => Shifted(at, k) \in 1 .. n /\ InsertAt(plan, at, s)[k] = plan[Shifted(at, k)]
        /\ \A j \in 1 .. n : \E k \in 1 .. n + 1 : k # at /\ Shifted(at, k) = j
        /\ \A k, l \in 1 .. n + 1 :
             k # at /\ l # at /\ k < l => Shifted(at, k) < Shifted(at, l)
    <2> HIDE DEF at, s, new
    <2> QED BY <1>4, PutIs
  <1> HIDE DEF at, s, new, n
  <1> QED BY <1>4, <1>5 DEF at, s, new, n

\* A plan with one hook more is a composed plan.
LEMMA PutComposed ==
  ASSUME NEW recipe, NEW hooks, NEW plan, NEW hook,
         IsRecipe(recipe), AreHooks(hooks), Built(recipe, hooks, plan),
         \E h \in DOMAIN hooks : hook = hooks[h], Anchored(plan, hook), hook.name \notin Ids(plan)
  PROVE  /\ Built(recipe, hooks, Put(plan, hook))
         /\ Ids(Put(plan, hook)) = Ids(plan) \cup {hook.name}
  <1> DEFINE at == Place(plan, hook)
  <1> DEFINE new == Put(plan, hook)
  <1> DEFINE n == Len(plan)
  <1> DEFINE s == HookStep(plan, hook)
  <1> DEFINE anchor == AnchorIndex(plan, hook)
  <1>1. Listed(plan) /\ IsSequence(plan)
    BY ListedIs DEF Built, Composed
  <1>2. /\ n \in Nat /\ at \in 1 .. n + 1 /\ Listed(new)
        /\ DOMAIN plan = 1 .. n /\ DOMAIN new = 1 .. n + 1 /\ new[at] = s
        /\ \A k \in 1 .. n + 1 : k # at => Shifted(at, k) \in 1 .. n /\ new[k] = plan[Shifted(at, k)]
        /\ \A j \in 1 .. n : \E k \in 1 .. n + 1 : k # at /\ Shifted(at, k) = j
        /\ \A k, l \in 1 .. n + 1 :
             k # at /\ l # at /\ k < l => Shifted(at, k) < Shifted(at, l)
    BY <1>1, PutAt
  <1>3. s.id = hook.name /\ s.hook /\ IsHookStep(hooks, s)
    BY DEF HookStep, IsHookStep, Fields
  <1>4. hook.name \notin TaskIds
    BY DEF AreHooks
  <1>5. anchor \in 1 .. n /\ s.stage = plan[anchor].stage
    BY <1>1, AnchorIs DEF Anchored
  <1>6. at \in anchor .. n + 1 /\ (at = anchor \/ \A j \in anchor + 1 .. at - 1 : plan[j].hook)
    <2>1. at \in anchor .. n + 1 /\ at \in 1 .. n + 1
      BY <1>1, <1>5, SpotIs DEF Place
    <2>2. CASE hook.position = "before"
      BY <1>1, <1>5, <2>1, <2>2, SpotIs DEF Place
    <2>3. CASE hook.position # "before"
      <3>1. \A j \in anchor + 1 .. at - 1 : ~StopsAt(plan, hook, j)
        BY <1>1, <1>5, <2>3, SpotIs DEF Place
      <3> QED BY <2>1, <3>1 DEF StopsAt
    <2> QED BY <2>2, <2>3
  <1> HIDE DEF at, new, n, s, anchor
  <1>7. /\ \A k \in 1 .. n : IsTaskStep(recipe, plan[k], recipe.gated, {}) \/ IsHookStep(hooks, plan[k])
        /\ Unique(plan) /\ TasksInOrder(plan, {}) /\ recipe.declared \subseteq Ids(plan)
        /\ EndsWithUnlock(plan)
    BY <1>2 DEF Built, Composed
  <1>8. \A k \in 1 .. n + 1 : IsTaskStep(recipe, new[k], recipe.gated, {}) \/ IsHookStep(hooks, new[k])
    BY <1>2, <1>3, <1>7
  <1>9. Ids(new) = Ids(plan) \cup {hook.name}
    <2>1. \A k \in 1 .. n + 1 : new[k].id \in Ids(plan) \cup {hook.name}
      BY <1>2, <1>3 DEF Ids
    <2>2. \A j \in 1 .. n : \E k \in 1 .. n + 1 : new[k] = plan[j]
      BY <1>2
    <2>3. \A j \in 1 .. n : plan[j].id \in Ids(new)
      BY <1>2, <2>2 DEF Ids
    <2>4. hook.name \in Ids(new)
      BY <1>2, <1>3 DEF Ids
    <2>5. Ids(plan) \subseteq Ids(new)
      BY <1>2, <2>3 DEF Ids
    <2>6. Ids(new) \subseteq Ids(plan) \cup {hook.name}
      BY <1>2, <2>1 DEF Ids
    <2> QED BY <2>4, <2>5, <2>6
  <1>10. Unique(new)
    <2> SUFFICES ASSUME NEW k \in 1 .. n + 1, NEW l \in 1 .. n + 1, new[k].id = new[l].id, k # l
                 PROVE  FALSE
      BY <1>2 DEF Unique
    <2>1. \A m \in 1 .. n + 1 : m # at => new[m].id \in Ids(plan)
      BY <1>2 DEF Ids
    <2>2. new[at].id \notin Ids(plan)
      BY <1>2, <1>3
    <2>3. k # at /\ l # at
      BY <2>1, <2>2
    <2>4. Shifted(at, k) = Shifted(at, l)
      BY <1>2, <1>7, <2>3 DEF Unique
    <2>5. k < l \/ l < k
      BY <1>2
    <2>6. Shifted(at, k) < Shifted(at, l) \/ Shifted(at, l) < Shifted(at, k)
      BY <1>2, <2>3, <2>5
    <2> QED BY <1>2, <2>3, <2>4, <2>6
  <1>11. TasksInOrder(new, {})
    <2> SUFFICES ASSUME NEW k \in 1 .. n + 1, NEW l \in 1 .. n + 1, k < l, ~new[k].hook, ~new[l].hook
                 PROVE  TaskAt(new[k].id) < TaskAt(new[l].id)
      BY <1>2 DEF TasksInOrder
    <2>1. k # at /\ l # at
      BY <1>2, <1>3
    <2>2. Shifted(at, k) < Shifted(at, l) /\ Shifted(at, k) \in 1 .. n /\ Shifted(at, l) \in 1 .. n
          /\ new[k] = plan[Shifted(at, k)] /\ new[l] = plan[Shifted(at, l)]
      BY <1>2, <2>1
    <2> QED BY <1>2, <1>7, <2>2 DEF TasksInOrder
  <1>12. EndsWithUnlock(new)
    <2> SUFFICES ASSUME NEW k \in 1 .. n + 1, NEW l \in 1 .. n + 1, new[k].id = "unlock", k <= l
                 PROVE  new[l].stage = "cleanup"
      BY <1>2 DEF EndsWithUnlock
    <2>1. k # at
      BY <1>2, <1>3, <1>4, TasksStand
    <2> DEFINE u == Shifted(at, k)
    <2>2. u \in 1 .. n /\ plan[u].id = "unlock"
      BY <1>2, <2>1
    <2>3. CASE l # at
      <3>1. u <= Shifted(at, l) /\ Shifted(at, l) \in 1 .. n /\ new[l] = plan[Shifted(at, l)]
        <4>1. k = l \/ k < l
          BY <1>2
        <4>2. k = l => u <= Shifted(at, l)
          BY <2>2
        <4>3. k < l => u < Shifted(at, l)
          BY <1>2, <2>1, <2>3
        <4>4. Shifted(at, l) \in 1 .. n /\ new[l] = plan[Shifted(at, l)]
          BY <1>2, <2>3
        <4>5. u < Shifted(at, l) => u <= Shifted(at, l)
          BY <2>2, <4>4
        <4> QED BY <4>1, <4>2, <4>3, <4>4, <4>5
      <3> QED BY <1>2, <1>7, <2>2, <3>1 DEF EndsWithUnlock
    <2>4. CASE l = at
      <3>1. k < at /\ u = k
        BY <1>2, <2>1, <2>4 DEF Shifted
      <3>2. u <= anchor
        <4>1. at = anchor => u <= anchor
          BY <1>2, <1>5, <2>2, <3>1
        <4>2. at # anchor => ~(anchor < u)
          <5> SUFFICES ASSUME at # anchor, anchor < u
                       PROVE  FALSE
            OBVIOUS
          <5>1. u \in anchor + 1 .. at - 1
            BY <1>2, <1>5, <2>2, <3>1
          <5>2. plan[u].hook
            BY <1>6, <5>1
          <5>3. IsHookStep(hooks, plan[u])
            BY <1>7, <2>2, <5>2 DEF IsTaskStep
          <5>4. "unlock" \notin TaskIds
            BY <2>2, <5>3 DEF IsHookStep, AreHooks
          <5> QED BY <5>4, TasksStand
        <4> QED BY <1>2, <1>5, <2>2, <4>1, <4>2
      <3>3. plan[anchor].stage = "cleanup"
        BY <1>2, <1>5, <1>7, <2>2, <3>2 DEF EndsWithUnlock
      <3> QED BY <1>2, <1>5, <2>4, <3>3
    <2> QED BY <2>3, <2>4
  <1>13. recipe.declared \subseteq Ids(new)
    BY <1>7, <1>9
  <1>14. Built(recipe, hooks, new)
    BY <1>2, <1>8, <1>10, <1>11, <1>12, <1>13 DEF Built, Composed
  <1> QED BY <1>9, <1>14 DEF new

-----------------------------------------------------------------------------
(* The rows of hooks after a task or a hook. *)

StandsAfter(hook) == hook.kind # "stage" /\ hook.position # "before"

\* Between a hook that stands after a task or a hook and its anchor there are
\* hooks only, and none of a greater order.
Rows(hooks, plan) ==
  \A h \in DOMAIN hooks, k \in DOMAIN plan :
    StandsAfter(hooks[h]) /\ plan[k].id = hooks[h].name =>
      \E c \in DOMAIN plan :
        /\ c < k /\ plan[c].id = hooks[h].on
        /\ \A m \in DOMAIN plan :
             c < m /\ m <= k => plan[m].hook /\ plan[m].order <= hooks[h].order

GoesFirst(hooks, i, j) ==
  LET a == hooks[i]
      b == hooks[j]
  IN  /\ StandsAfter(a) /\ StandsAfter(b) /\ a.on = b.on /\ a.kind = b.kind
      /\ a.order < b.order \/ (a.order = b.order /\ i < j /\ a.kind = "task")

Siblings(hooks, plan) ==
  \A i, j \in DOMAIN hooks : \A k, l \in DOMAIN plan :
    GoesFirst(hooks, i, j) /\ plan[k].id = hooks[i].name /\ plan[l].id = hooks[j].name
      => k < l

\* No hook on the same task that is declared later is in the plan yet.
InTurn(hooks, plan, h) ==
  \A j \in DOMAIN hooks :
    /\ hooks[h].kind = "task" /\ hooks[j].kind = "task" /\ hooks[j].on = hooks[h].on
    /\ hooks[j].name \in Ids(plan)
    => j < h

\* The order of a step is the one of the hook it is.
LEMMA OrderIs ==
  ASSUME NEW recipe, NEW hooks, AreHooks(hooks), NEW plan, Built(recipe, hooks, plan),
         NEW k \in DOMAIN plan
  PROVE  /\ plan[k].hook => plan[k].order \in Int /\ plan[k].id \notin TaskIds
         /\ \A h \in DOMAIN hooks : plan[k].id = hooks[h].name /\ plan[k].hook
              => plan[k].order = hooks[h].order
  <1>1. IsTaskStep(recipe, plan[k], recipe.gated, {}) \/ IsHookStep(hooks, plan[k])
    BY DEF Built, Composed
  <1>2. CASE plan[k].hook
    <2>1. PICK g \in DOMAIN hooks : plan[k].id = hooks[g].name /\ plan[k].order = hooks[g].order
      BY <1>1, <1>2 DEF IsTaskStep, IsHookStep
    <2>2. hooks[g].order \in Int /\ hooks[g].name \notin TaskIds
      BY DEF AreHooks
    <2>3. \A h \in DOMAIN hooks : hooks[g].name = hooks[h].name => g = h
      BY DEF AreHooks
    <2> QED BY <2>1, <2>2, <2>3
  <1> QED BY <1>2

\* No hook that is put cuts the row between a hook and its anchor.
LEMMA PutKeepsRows ==
  ASSUME NEW recipe, NEW hooks, NEW plan, NEW h \in DOMAIN hooks,
         AreHooks(hooks), NoneCutsIn(hooks), Built(recipe, hooks, plan), Rows(hooks, plan),
         Anchored(plan, hooks[h])
  PROVE  Rows(hooks, Put(plan, hooks[h]))
  <1> DEFINE hook == hooks[h]
  <1> DEFINE at == Place(plan, hook)
  <1> DEFINE new == Put(plan, hook)
  <1> DEFINE n == Len(plan)
  <1> DEFINE s == HookStep(plan, hook)
  <1> DEFINE anchor == AnchorIndex(plan, hook)
  <1>1. Listed(plan) /\ IsSequence(plan)
    BY ListedIs DEF Built, Composed
  <1>2. /\ n \in Nat /\ at \in 1 .. n + 1 /\ Listed(new)
        /\ DOMAIN plan = 1 .. n /\ DOMAIN new = 1 .. n + 1 /\ new[at] = s
        /\ \A k \in 1 .. n + 1 : k # at => Shifted(at, k) \in 1 .. n /\ new[k] = plan[Shifted(at, k)]
        /\ \A j \in 1 .. n : \E k \in 1 .. n + 1 : k # at /\ Shifted(at, k) = j
        /\ \A k, l \in 1 .. n + 1 :
             k # at /\ l # at /\ k < l => Shifted(at, k) < Shifted(at, l)
    BY <1>1, PutAt
  <1>3. s.id = hook.name /\ s.hook /\ s.order = hook.order /\ hook.order \in Int
    BY DEF HookStep, AreHooks
  <1>4. /\ anchor \in 1 .. n
        /\ hook.kind # "stage" => plan[anchor].id = hook.on
    BY <1>1, AnchorIs DEF Anchored
  <1>5. /\ at \in anchor .. n + 1
        /\ hook.position = "before" => at = anchor
        /\ hook.position # "before" =>
             /\ at # anchor /\ StopsAt(plan, hook, at)
             /\ \A j \in anchor + 1 .. at - 1 : ~StopsAt(plan, hook, j)
    BY <1>1, <1>4, SpotIs DEF Place
  <1>6. /\ hook.kind = "task" => hook.on \in TaskIds
        /\ \A g \in DOMAIN hooks : hooks[g].name = hook.name => g = h
    BY DEF AreHooks
  <1>7. \A k \in 1 .. n : plan[k].hook => plan[k].order \in Int /\ plan[k].id \notin TaskIds
    BY <1>2, OrderIs
  <1> HIDE DEF at, new, n, s, anchor
  <1> SUFFICES ASSUME NEW g \in DOMAIN hooks, NEW k \in 1 .. n + 1,
                      StandsAfter(hooks[g]), new[k].id = hooks[g].name
               PROVE  \E c \in 1 .. n + 1 :
                        /\ c < k /\ new[c].id = hooks[g].on
                        /\ \A m \in 1 .. n + 1 :
                             c < m /\ m <= k => new[m].hook /\ new[m].order <= hooks[g].order
    BY <1>2 DEF Rows, new
  <1>8. CASE k = at
    <2>1. g = h
      BY <1>2, <1>3, <1>6, <1>8
    <2>2. anchor < at /\ anchor \in 1 .. n + 1 /\ new[anchor] = plan[anchor]
      <3>1. anchor < at /\ anchor \in 1 .. n + 1
        BY <1>2, <1>4, <1>5, <2>1 DEF StandsAfter
      <3>2. Shifted(at, anchor) = anchor
        BY <3>1 DEF Shifted
      <3> QED BY <1>2, <3>1, <3>2
    <2>3. new[anchor].id = hook.on
      BY <1>4, <2>1, <2>2 DEF StandsAfter
    <2>4. ASSUME NEW m \in 1 .. n + 1, anchor < m, m <= at
          PROVE  new[m].hook /\ new[m].order <= hook.order
      <3>1. CASE m = at
        BY <1>2, <1>3, <3>1
      <3>2. CASE m # at
        <4>1. m < at /\ m \in anchor + 1 .. at - 1 /\ m \in 1 .. n
          BY <1>2, <1>4, <2>4, <3>2
        <4>2. Shifted(at, m) = m /\ new[m] = plan[m]
          BY <1>2, <3>2, <4>1 DEF Shifted
        <4>3. ~StopsAt(plan, hook, m)
          BY <1>5, <2>1, <4>1 DEF StandsAfter
        <4>4. plan[m].hook /\ ~(plan[m].order > hook.order)
          BY <4>3 DEF StopsAt
        <4>5. plan[m].order \in Int
          BY <1>7, <4>1, <4>4
        <4>6. plan[m].order <= hook.order
          BY <1>3, <4>4, <4>5
        <4> QED BY <4>2, <4>4, <4>6
      <3> QED BY <3>1, <3>2
    <2> QED BY <1>8, <2>1, <2>2, <2>3, <2>4
  <1>9. CASE k # at
    <2> DEFINE p == Shifted(at, k)
    <2>1. p \in 1 .. n /\ new[k] = plan[p] /\ plan[p].id = hooks[g].name
      BY <1>2, <1>9
    <2>2. PICK d \in 1 .. n :
            /\ d < p /\ plan[d].id = hooks[g].on
            /\ \A m \in 1 .. n : d < m /\ m <= p => plan[m].hook /\ plan[m].order <= hooks[g].order
      <3>1. \E d \in DOMAIN plan :
              /\ d < p /\ plan[d].id = hooks[g].on
              /\ \A m \in DOMAIN plan :
                   d < m /\ m <= p => plan[m].hook /\ plan[m].order <= hooks[g].order
        BY <1>2, <2>1 DEF Rows
      <3> QED BY <1>2, <3>1
    <2>3. PICK c \in 1 .. n + 1 : c # at /\ Shifted(at, c) = d
      BY <1>2
    <2>4. c < k
      <3>1. k < c => p < d
        BY <1>2, <1>9, <2>3
      <3>2. k = c => p = d
        BY <2>3
      <3> QED BY <2>1, <2>2, <3>1, <3>2, <1>2
    <2>5. new[c].id = hooks[g].on
      BY <1>2, <2>2, <2>3
    <2>6. ASSUME NEW m \in 1 .. n + 1, c < m, m <= k, m # at
          PROVE  new[m].hook /\ new[m].order <= hooks[g].order
      <3>1. Shifted(at, m) \in 1 .. n /\ new[m] = plan[Shifted(at, m)] /\ d < Shifted(at, m)
        BY <1>2, <2>3, <2>6
      <3>2. Shifted(at, m) <= p
        <4>1. m = k \/ m < k
          BY <1>2, <2>6
        <4>2. m < k => Shifted(at, m) < p
          BY <1>2, <1>9, <2>6
        <4> HIDE DEF p
        <4>3. m = k => Shifted(at, m) = p
          BY DEF p
        <4>4. p \in Int /\ Shifted(at, m) \in Int
          BY <2>1, <3>1
        <4> QED BY <4>1, <4>2, <4>3, <4>4
      <3> QED BY <2>2, <3>1, <3>2
    <2>7. ASSUME c < at, at <= k
          PROVE  new[at].hook /\ new[at].order <= hooks[g].order
      <3>1. d = c /\ p = k - 1 /\ at \in 1 .. n /\ d < at /\ at <= p
        BY <1>2, <1>9, <2>3, <2>7, <2>1 DEF Shifted
      <3>2. plan[at].hook /\ plan[at].order <= hooks[g].order
        BY <2>2, <3>1
      <3>3. plan[at].order \in Int /\ plan[at].id \notin TaskIds /\ hooks[g].order \in Int
        BY <1>7, <3>1, <3>2 DEF AreHooks
      <3>4. hook.order <= hooks[g].order
        <4>1. CASE hook.position = "before"
          <5>1. hook.kind # "task"
            <6>1. plan[anchor].id \notin TaskIds
              BY <1>5, <3>3, <4>1
            <6> QED BY <1>4, <1>6, <6>1
          <5> QED BY <4>1, <5>1 DEF NoneCutsIn, StandsAfter
        <4>2. CASE hook.position # "before"
          <5>1. StopsAt(plan, hook, at) /\ ~(at > Len(plan))
            BY <1>5, <3>1, <1>2, <4>2 DEF n
          <5>2. plan[at].order > hook.order
            BY <3>2, <5>1 DEF StopsAt
          <5> QED BY <1>3, <3>2, <3>3, <5>2
        <4> QED BY <4>1, <4>2
      <3> QED BY <1>2, <1>3, <3>4
    <2> QED BY <2>4, <2>5, <2>6, <2>7
  <1> QED BY <1>8, <1>9

\* A hook that is put comes after those of its anchor that go first, and before the others.
LEMMA PutKeepsSiblings ==
  ASSUME NEW recipe, NEW hooks, NEW plan, NEW h \in DOMAIN hooks,
         AreHooks(hooks), Built(recipe, hooks, plan), Rows(hooks, plan),
         Siblings(hooks, plan), InTurn(hooks, plan, h),
         Anchored(plan, hooks[h]), hooks[h].name \notin Ids(plan)
  PROVE  Siblings(hooks, Put(plan, hooks[h]))
  <1> DEFINE hook == hooks[h]
  <1> DEFINE at == Place(plan, hook)
  <1> DEFINE new == Put(plan, hook)
  <1> DEFINE n == Len(plan)
  <1> DEFINE s == HookStep(plan, hook)
  <1> DEFINE anchor == AnchorIndex(plan, hook)
  <1>1. Listed(plan) /\ IsSequence(plan) /\ Unique(plan)
    BY ListedIs DEF Built, Composed
  <1>2. /\ n \in Nat /\ at \in 1 .. n + 1 /\ Listed(new)
        /\ DOMAIN plan = 1 .. n /\ DOMAIN new = 1 .. n + 1 /\ new[at] = s
        /\ \A k \in 1 .. n + 1 : k # at => Shifted(at, k) \in 1 .. n /\ new[k] = plan[Shifted(at, k)]
        /\ \A j \in 1 .. n : \E k \in 1 .. n + 1 : k # at /\ Shifted(at, k) = j
        /\ \A k, l \in 1 .. n + 1 :
             k # at /\ l # at /\ k < l => Shifted(at, k) < Shifted(at, l)
    BY <1>1, PutAt
  <1>3. s.id = hook.name /\ s.hook /\ s.order = hook.order
    BY DEF HookStep
  <1>4. /\ anchor \in 1 .. n
        /\ hook.kind # "stage" => plan[anchor].id = hook.on
    BY <1>1, AnchorIs DEF Anchored
  <1>5. /\ at \in anchor .. n + 1
        /\ hook.position # "before" =>
             /\ at # anchor /\ StopsAt(plan, hook, at)
             /\ \A j \in anchor + 1 .. at - 1 : ~StopsAt(plan, hook, j)
    BY <1>1, <1>4, SpotIs DEF Place
  <1>6. /\ \A i, j \in DOMAIN hooks : hooks[i].name = hooks[j].name => i = j
        /\ \A i \in DOMAIN hooks : hooks[i].order \in Int
        /\ \A i \in DOMAIN hooks : i \in Int
    <2>1. \A i, j \in DOMAIN hooks : hooks[i].name = hooks[j].name => i = j
      BY DEF AreHooks
    <2>2. \A i \in DOMAIN hooks : hooks[i].order \in Int
      BY DEF AreHooks
    <2>3. Len(hooks) \in Nat /\ DOMAIN hooks = 1 .. Len(hooks)
      BY DEF AreHooks, IsSequence
    <2> QED BY <2>1, <2>2, <2>3
  <1>7. \A k \in 1 .. n : \A i \in DOMAIN hooks :
          plan[k].hook /\ plan[k].id = hooks[i].name
            => plan[k].order \in Int /\ plan[k].order = hooks[i].order
    BY <1>2, OrderIs
  <1>8. \A k \in 1 .. n : plan[k].hook => plan[k].order \in Int
    BY <1>2, OrderIs
  <1>9. ASSUME NEW i \in DOMAIN hooks, NEW k \in 1 .. n, StandsAfter(hooks[i]),
               StandsAfter(hook), hooks[i].on = hook.on, plan[k].id = hooks[i].name
        PROVE  /\ anchor < k /\ plan[k].hook
               /\ \A m \in 1 .. n : anchor < m /\ m <= k => plan[m].hook /\ plan[m].order <= hooks[i].order
    <2>1. PICK c \in 1 .. n :
            /\ c < k /\ plan[c].id = hook.on
            /\ \A m \in 1 .. n : c < m /\ m <= k => plan[m].hook /\ plan[m].order <= hooks[i].order
      <3>1. \E c \in DOMAIN plan :
              /\ c < k /\ plan[c].id = hooks[i].on
              /\ \A m \in DOMAIN plan :
                   c < m /\ m <= k => plan[m].hook /\ plan[m].order <= hooks[i].order
        BY <1>2, <1>9 DEF Rows
      <3> QED BY <1>2, <1>9, <3>1
    <2>2. c = anchor
      BY <1>1, <1>2, <1>4, <1>9, <2>1 DEF Unique, StandsAfter
    <2>3. k <= k
      BY <1>2
    <2> QED BY <2>1, <2>2, <2>3
  <1>10. \A k \in 1 .. n + 1 : k # at => new[k].id \in Ids(plan) /\ new[k].id # hook.name
    BY <1>2 DEF Ids
  <1> HIDE DEF at, new, n, s, anchor
  <1> SUFFICES ASSUME NEW i \in DOMAIN hooks, NEW j \in DOMAIN hooks,
                      NEW k \in 1 .. n + 1, NEW l \in 1 .. n + 1,
                      GoesFirst(hooks, i, j), new[k].id = hooks[i].name, new[l].id = hooks[j].name
               PROVE  k < l
    BY <1>2 DEF Siblings, new
  <1>11. i # j
    <2> SUFFICES ASSUME i = j
                 PROVE  FALSE
      OBVIOUS
    <2> QED BY <1>6 DEF GoesFirst
  <1>12. CASE k # at /\ l # at
    <2>1. Shifted(at, k) < Shifted(at, l)
      BY <1>2, <1>12 DEF Siblings
    <2>2. l < k => Shifted(at, l) < Shifted(at, k)
      BY <1>2, <1>12
    <2>3. k # l
      BY <1>2, <1>6, <1>11
    <2>4. Shifted(at, k) \in Int /\ Shifted(at, l) \in Int /\ k \in Int /\ l \in Int
      BY <1>2, <1>12
    <2> QED BY <2>1, <2>2, <2>3, <2>4
  <1>13. CASE k = at /\ l = at
    BY <1>6, <1>11, <1>13
  <1>14. CASE k = at /\ l # at
    <2>1. i = h
      BY <1>2, <1>3, <1>6, <1>14
    <2> DEFINE p == Shifted(at, l)
    <2>2. p \in 1 .. n /\ plan[p].id = hooks[j].name /\ hooks[j].name \in Ids(plan)
      BY <1>2, <1>14 DEF Ids
    <2> HIDE DEF p
    <2>3. StandsAfter(hooks[j]) /\ StandsAfter(hook) /\ hooks[j].on = hook.on
      BY <2>1 DEF GoesFirst
    <2>4. anchor < p /\ plan[p].hook
      BY <1>9, <2>2, <2>3
    <2>5. plan[p].order = hooks[j].order
      BY <1>7, <2>2, <2>4
    <2>6. hook.order < hooks[j].order
      <3> SUFFICES ASSUME ~(hook.order < hooks[j].order)
                   PROVE  FALSE
        OBVIOUS
      <3>1. h < j /\ hook.kind = "task" /\ hooks[j].kind = "task"
        BY <2>1 DEF GoesFirst
      <3>2. j < h
        BY <2>2, <2>3, <3>1 DEF InTurn
      <3> QED BY <1>6, <3>1, <3>2
    <2>7. StopsAt(plan, hook, p)
      BY <1>6, <2>5, <2>6 DEF StopsAt
    <2>8. ~(p < at)
      <3> SUFFICES ASSUME p < at
                   PROVE  FALSE
        OBVIOUS
      <3>1. p \in anchor + 1 .. at - 1
        BY <1>2, <1>4, <2>2, <2>4
      <3> QED BY <1>5, <2>3, <2>7, <3>1 DEF StandsAfter
    <2> QED BY <1>2, <1>14, <2>2, <2>8 DEF Shifted, p
  <1>15. CASE k # at /\ l = at
    <2>1. j = h
      BY <1>2, <1>3, <1>6, <1>15
    <2> DEFINE p == Shifted(at, k)
    <2>2. p \in 1 .. n /\ plan[p].id = hooks[i].name
      BY <1>2, <1>15
    <2> HIDE DEF p
    <2>3. StandsAfter(hooks[i]) /\ StandsAfter(hook) /\ hooks[i].on = hook.on
      BY <2>1 DEF GoesFirst
    <2>4. hooks[i].order <= hook.order
      BY <1>6, <2>1 DEF GoesFirst
    <2>5. \A m \in 1 .. n : anchor < m /\ m <= p => plan[m].hook /\ plan[m].order <= hooks[i].order
      BY <1>9, <2>2, <2>3
    <2>6. ~(at <= p)
      <3> SUFFICES ASSUME at <= p
                   PROVE  FALSE
        OBVIOUS
      <3>1. at # anchor /\ StopsAt(plan, hook, at)
        BY <1>5, <2>3 DEF StandsAfter
      <3>2. at \in 1 .. n /\ anchor < at
        BY <1>2, <1>4, <1>5, <2>2, <3>1
      <3>3. plan[at].hook /\ plan[at].order <= hooks[i].order
        BY <2>5, <3>2
      <3>4. plan[at].order \in Int
        BY <1>8, <3>2, <3>3
      <3>5. plan[at].order > hook.order
        BY <1>2, <3>1, <3>2, <3>3 DEF StopsAt, n
      <3> QED BY <1>6, <2>4, <3>3, <3>4, <3>5
    <2> QED BY <1>2, <1>15, <2>2, <2>6 DEF Shifted, p
  <1> QED BY <1>12, <1>13, <1>14, <1>15

-----------------------------------------------------------------------------
(* The passes of insertHooks. *)

\* What a sequence with one element more has at each position.
LEMMA AppendedIs ==
  ASSUME NEW s, Listed(s), NEW x
  PROVE  /\ Listed(Append(s, x)) /\ Len(Append(s, x)) = Len(s) + 1
         /\ \A i \in 1 .. Len(s) : Append(s, x)[i] = s[i]
         /\ Append(s, x)[Len(s) + 1] = x
  <1> DEFINE S == Elements(s) \cup {x}
  <1>1. s \in Seq(S) /\ x \in S
    <2>1. Len(s) \in Nat /\ s \in [1 .. Len(s) -> Elements(s)]
      BY LenProperties DEF Listed
    <2>2. s \in [1 .. Len(s) -> S]
      BY <2>1
    <2> HIDE DEF S
    <2>3. s \in Seq(S)
      BY <2>1, <2>2, SeqDef
    <2> QED BY <2>3 DEF S
  <1> HIDE DEF S
  <1>2. Append(s, x) \in Seq(S)
    BY <1>1, AppendProperties
  <1>3. Listed(Append(s, x))
    BY <1>2, ListedOf
  <1> QED BY <1>1, <1>3, AppendProperties

Placing(acc) ==
  CHOOSE place : place =
    [i \in 0 .. Len(acc.pending) |->
       IF i = 0 THEN [plan |-> acc.plan, pending |-> <<>>]
       ELSE PlaceOrKeep(place[i - 1], acc.pending[i])]

\* The function a pass is defined by exists, and is what its equations say.
LEMMA PassIs ==
  ASSUME NEW acc, IsSequence(acc.pending)
  PROVE  LET place == Placing(acc)
         IN  /\ place[0] = [plan |-> acc.plan, pending |-> <<>>]
             /\ \A i \in 0 .. Len(acc.pending) - 1 :
                  place[i + 1] = PlaceOrKeep(place[i], acc.pending[i + 1])
             /\ Pass(acc) = place[Len(acc.pending)]
  <1> DEFINE Calls(f, i) == IF i = 0 THEN [plan |-> acc.plan, pending |-> <<>>]
                           ELSE PlaceOrKeep(f[i - 1], acc.pending[i])
  <1> DEFINE n == Len(acc.pending)
  <1> DEFINE S == {m \in Nat : \E f : f = [i \in 0 .. m |-> Calls(f, i)]}
  <1>1. n \in Nat
    BY DEF IsSequence
  <1>2. 0 \in S
    <2> DEFINE g == [i \in 0 .. 0 |-> [plan |-> acc.plan, pending |-> <<>>]]
    <2>1. g = [i \in 0 .. 0 |-> Calls(g, i)]
      OBVIOUS
    <2> QED BY <2>1
  <1>3. ASSUME NEW m \in 0 .. n - 1, m \in S
        PROVE  m + 1 \in S
    <2>1. PICK f : f = [i \in 0 .. m |-> Calls(f, i)]
      BY <1>3
    <2> DEFINE g == [i \in 0 .. m + 1 |-> IF i = m + 1 THEN Calls(f, i) ELSE f[i]]
    <2>2. \A i \in 0 .. m : f[i] = Calls(f, i)
      BY <2>1
    <2>3. ASSUME NEW i \in 0 .. m + 1
          PROVE  g[i] = Calls(g, i)
      <3>1. i # 0 => i - 1 \in 0 .. m /\ g[i - 1] = f[i - 1]
        BY <1>3, <1>1
      <3>2. Calls(g, i) = Calls(f, i)
        BY <3>1
      <3>3. i # m + 1 => i \in 0 .. m
        BY <1>1
      <3> HIDE DEF Calls
      <3> QED BY <2>2, <3>2, <3>3
    <2> HIDE DEF Calls
    <2>4. g = [i \in 0 .. m + 1 |-> Calls(g, i)]
      <3>1. \A i \in 0 .. m + 1 : g[i] = Calls(g, i)
        BY <2>3
      <3>2. g = [i \in 0 .. m + 1 |-> g[i]]
        OBVIOUS
      <3> HIDE DEF g
      <3> QED BY <3>1, <3>2
    <2>5. m + 1 \in Nat
      BY <1>1
    <2> HIDE DEF g
    <2> QED BY <2>4, <2>5
  <1>4. n \in S
    <2> HIDE DEF S
    <2>1. \A i \in 0 .. n : i \in S
      BY <1>1, <1>2, <1>3, CountingUp
    <2> QED BY <1>1, <2>1
  <1> DEFINE place == Placing(acc)
  <1>5. place = [i \in 0 .. n |-> Calls(place, i)]
    BY <1>4 DEF Placing
  <1>6. Pass(acc) = place[n]
    BY DEF Pass, Placing
  <1>7. \A i \in 0 .. n : place[i] = Calls(place, i)
    BY <1>5
  <1>8. ASSUME NEW i \in 0 .. n - 1
        PROVE  place[i + 1] = PlaceOrKeep(place[i], acc.pending[i + 1])
    <2>1. i + 1 \in 0 .. n /\ i + 1 # 0 /\ (i + 1) - 1 = i
      BY <1>1
    <2> QED BY <1>7, <2>1
  <1> QED BY <1>1, <1>6, <1>7, <1>8

Passing(plan, hooks) ==
  CHOOSE after : after =
    [i \in 0 .. Len(hooks) |->
       IF i = 0 THEN [plan |-> plan, pending |-> hooks] ELSE Pass(after[i - 1])]

\* So does the function of the passes.
LEMMA InsertHooksIs ==
  ASSUME NEW plan, NEW hooks, IsSequence(hooks)
  PROVE  LET after == Passing(plan, hooks)
         IN  /\ after[0] = [plan |-> plan, pending |-> hooks]
             /\ \A i \in 0 .. Len(hooks) - 1 : after[i + 1] = Pass(after[i])
             /\ InsertHooks(plan, hooks) = after[Len(hooks)]
  <1> DEFINE Calls(f, i) == IF i = 0 THEN [plan |-> plan, pending |-> hooks] ELSE Pass(f[i - 1])
  <1> DEFINE n == Len(hooks)
  <1> DEFINE S == {m \in Nat : \E f : f = [i \in 0 .. m |-> Calls(f, i)]}
  <1>1. n \in Nat
    BY DEF IsSequence
  <1>2. 0 \in S
    <2> DEFINE g == [i \in 0 .. 0 |-> [plan |-> plan, pending |-> hooks]]
    <2>1. g = [i \in 0 .. 0 |-> Calls(g, i)]
      OBVIOUS
    <2> QED BY <2>1
  <1>3. ASSUME NEW m \in 0 .. n - 1, m \in S
        PROVE  m + 1 \in S
    <2>1. PICK f : f = [i \in 0 .. m |-> Calls(f, i)]
      BY <1>3
    <2> DEFINE g == [i \in 0 .. m + 1 |-> IF i = m + 1 THEN Calls(f, i) ELSE f[i]]
    <2>2. \A i \in 0 .. m : f[i] = Calls(f, i)
      BY <2>1
    <2>3. ASSUME NEW i \in 0 .. m + 1
          PROVE  g[i] = Calls(g, i)
      <3>1. i # 0 => i - 1 \in 0 .. m /\ g[i - 1] = f[i - 1]
        BY <1>3, <1>1
      <3>2. Calls(g, i) = Calls(f, i)
        BY <3>1
      <3>3. i # m + 1 => i \in 0 .. m
        BY <1>1
      <3> HIDE DEF Calls
      <3> QED BY <2>2, <3>2, <3>3
    <2> HIDE DEF Calls
    <2>4. g = [i \in 0 .. m + 1 |-> Calls(g, i)]
      <3>1. \A i \in 0 .. m + 1 : g[i] = Calls(g, i)
        BY <2>3
      <3>2. g = [i \in 0 .. m + 1 |-> g[i]]
        OBVIOUS
      <3> HIDE DEF g
      <3> QED BY <3>1, <3>2
    <2>5. m + 1 \in Nat
      BY <1>1
    <2> HIDE DEF g
    <2> QED BY <2>4, <2>5
  <1>4. n \in S
    <2> HIDE DEF S
    <2>1. \A i \in 0 .. n : i \in S
      BY <1>1, <1>2, <1>3, CountingUp
    <2> QED BY <1>1, <2>1
  <1> DEFINE after == Passing(plan, hooks)
  <1>5. after = [i \in 0 .. n |-> Calls(after, i)]
    BY <1>4 DEF Passing
  <1>6. InsertHooks(plan, hooks) = after[n]
    BY DEF InsertHooks, Passing
  <1>7. \A i \in 0 .. n : after[i] = Calls(after, i)
    BY <1>5
  <1>8. ASSUME NEW i \in 0 .. n - 1
        PROVE  after[i + 1] = Pass(after[i])
    <2>1. i + 1 \in 0 .. n /\ i + 1 # 0 /\ (i + 1) - 1 = i
      BY <1>1
    <2> QED BY <1>7, <2>1
  <1> QED BY <1>1, <1>6, <1>7, <1>8

\* A plan on its way, with the hooks that have a place.
Partial(recipe, hooks, plan) ==
  /\ Built(recipe, hooks, plan)
  /\ NoneCutsIn(hooks) => Rows(hooks, plan) /\ Siblings(hooks, plan)

\* Of the hooks on tasks those declared up to the d-th have a place.
Came(recipe, hooks, plan, d) ==
  \A h \in DOMAIN hooks :
    hooks[h].kind = "task" =>
      (hooks[h].name \in Ids(plan) <=> h <= d /\ hooks[h].on \in recipe.declared)

\* The hooks that have no place, each once.
Waiting(recipe, hooks, plan, rest) ==
  /\ IsSequence(rest)
  /\ \A k \in DOMAIN rest : rest[k].name \notin Ids(plan) /\ \E h \in DOMAIN hooks : rest[k] = hooks[h]
  /\ \A k, l \in DOMAIN rest : rest[k].name = rest[l].name => k = l
  /\ \A h \in DOMAIN hooks :
       hooks[h].name \in Ids(plan) \/ \E k \in DOMAIN rest : rest[k].name = hooks[h].name

\* In a pass over rest, i of them have been looked at, and acc.pending are kept.
Looked(recipe, hooks, rest, acc, i, d) ==
  /\ acc = [plan |-> acc.plan, pending |-> acc.pending]
  /\ Partial(recipe, hooks, acc.plan) /\ Came(recipe, hooks, acc.plan, d)
  /\ Listed(acc.pending)
  /\ \A k \in DOMAIN acc.pending :
       /\ acc.pending[k].name \notin Ids(acc.plan)
       /\ \E h \in DOMAIN hooks : acc.pending[k] = hooks[h]
       /\ \A l \in i + 1 .. Len(rest) : acc.pending[k].name # rest[l].name
  /\ \A k, l \in DOMAIN acc.pending : acc.pending[k].name = acc.pending[l].name => k = l
  /\ \A l \in i + 1 .. Len(rest) : rest[l].name \notin Ids(acc.plan)
  /\ \A h \in DOMAIN hooks :
       \/ hooks[h].name \in Ids(acc.plan)
       \/ \E k \in DOMAIN acc.pending : acc.pending[k].name = hooks[h].name
       \/ \E l \in i + 1 .. Len(rest) : rest[l].name = hooks[h].name

\* How far the hooks on tasks are, when a pass has looked at i.
Far(hooks, first, i) == IF first THEN i ELSE Len(hooks)

\* Hooks that wait are declared, and in turn.
LEMMA DeclaredIs ==
  ASSUME NEW recipe, IsRecipe(recipe), NEW hooks, AreHooks(hooks),
         NEW plan, Built(recipe, hooks, plan), NEW id \in TaskIds
  PROVE  /\ id \in Ids(plan) <=> id \in recipe.declared
         /\ IndexOf(plan, id) # 0 <=> id \in recipe.declared
  <1>1. IsSequence(plan) /\ recipe.declared \subseteq Ids(plan)
    BY ListedIs DEF Built, Composed
  <1>2. ASSUME id \in Ids(plan)
        PROVE  id \in recipe.declared
    <2>1. PICK k \in DOMAIN plan : plan[k].id = id
      BY <1>2 DEF Ids
    <2>2. ~plan[k].hook
      BY <2>1, OrderIs
    <2> QED BY <2>1, <2>2 DEF Built, Composed, IsTaskStep, IsHookStep
  <1>3. IndexOf(plan, id) # 0 => id \in Ids(plan)
    <2> SUFFICES ASSUME IndexOf(plan, id) # 0
                 PROVE  id \in Ids(plan)
      OBVIOUS
    <2>1. IndexOf(plan, id) \in DOMAIN plan /\ plan[IndexOf(plan, id)].id = id
      BY <1>1, IndexOfIs DEF IsSequence
    <2> QED BY <2>1 DEF Ids
  <1>4. id \in Ids(plan) => IndexOf(plan, id) # 0
    BY <1>1, IndexOfIs
  <1> QED BY <1>1, <1>2, <1>3, <1>4

\* PlaceOrKeep of a pass, one hook further.
LEMMA LookKeeps ==
  ASSUME NEW recipe, IsRecipe(recipe), NEW hooks, AreHooks(hooks),
         NEW rest, IsSequence(rest), NEW acc, NEW first \in BOOLEAN,
         first => rest = hooks,
         \A k, l \in DOMAIN rest : rest[k].name = rest[l].name => k = l,
         NEW i \in 0 .. Len(rest) - 1, \E h \in DOMAIN hooks : rest[i + 1] = hooks[h],
         Looked(recipe, hooks, rest, acc, i, Far(hooks, first, i))
  PROVE  Looked(recipe, hooks, rest, PlaceOrKeep(acc, rest[i + 1]), i + 1, Far(hooks, first, i + 1))
  <1> DEFINE hook == rest[i + 1]
  <1> DEFINE plan == acc.plan
  <1> DEFINE kept == acc.pending
  <1> DEFINE d == Far(hooks, first, i)
  <1> DEFINE e == Far(hooks, first, i + 1)
  <1> DEFINE next == PlaceOrKeep(acc, hook)
  <1>1. /\ Len(rest) \in Nat /\ DOMAIN rest = 1 .. Len(rest) /\ i \in Nat /\ i + 1 \in 1 .. Len(rest)
        /\ Len(hooks) \in Nat /\ DOMAIN hooks = 1 .. Len(hooks)
    BY DEF IsSequence, AreHooks
  <1>2. PICK h \in DOMAIN hooks : hook = hooks[h]
    OBVIOUS
  <1>3. first => h = i + 1
    <2>1. \A j \in DOMAIN hooks : hooks[j].name = hooks[h].name => j = h
      BY DEF AreHooks
    <2> QED BY <1>1, <1>2, <2>1
  <1>4. i + 1 \in i + 1 .. Len(rest) /\ \A l \in i + 2 .. Len(rest) : l \in i + 1 .. Len(rest) /\ l # i + 1
    BY <1>1
  <1>5. /\ acc = [plan |-> plan, pending |-> kept]
        /\ Built(recipe, hooks, plan)
        /\ NoneCutsIn(hooks) => Rows(hooks, plan) /\ Siblings(hooks, plan)
        /\ Came(recipe, hooks, plan, d)
        /\ Listed(kept)
    BY DEF Looked, Partial
  <1>6. /\ \A k \in DOMAIN kept :
             /\ kept[k].name \notin Ids(plan)
             /\ \E g \in DOMAIN hooks : kept[k] = hooks[g]
             /\ \A l \in i + 1 .. Len(rest) : kept[k].name # rest[l].name
        /\ \A k, l \in DOMAIN kept : kept[k].name = kept[l].name => k = l
        /\ \A l \in i + 1 .. Len(rest) : rest[l].name \notin Ids(plan)
    BY DEF Looked
  <1>7. \A g \in DOMAIN hooks :
          \/ hooks[g].name \in Ids(plan)
          \/ \E k \in DOMAIN kept : kept[k].name = hooks[g].name
          \/ \E l \in i + 1 .. Len(rest) : rest[l].name = hooks[g].name
    BY DEF Looked
  <1>8. hook.name \notin Ids(plan) /\ \A l \in i + 2 .. Len(rest) : rest[l].name # hook.name
    <2>1. \A l \in i + 2 .. Len(rest) : rest[l].name # hook.name
      BY <1>1, <1>4
    <2> QED BY <1>4, <1>6, <2>1
  <1>9. \A g \in DOMAIN hooks :
          \/ hooks[g].name \in Ids(plan)
          \/ \E k \in DOMAIN kept : kept[k].name = hooks[g].name
          \/ hooks[g].name = hook.name
          \/ \E l \in i + 2 .. Len(rest) : rest[l].name = hooks[g].name
    <2>1. \A l \in i + 1 .. Len(rest) : l = i + 1 \/ l \in i + 2 .. Len(rest)
      BY <1>1
    <2> QED BY <1>7, <2>1
  <1>10. hook.kind = "task" => hook.on \in TaskIds /\ (Anchored(plan, hook) <=> hook.on \in recipe.declared)
    <2> SUFFICES ASSUME hook.kind = "task"
                 PROVE  hook.on \in TaskIds /\ (Anchored(plan, hook) <=> hook.on \in recipe.declared)
      OBVIOUS
    <2>1. hook.on \in TaskIds
      BY <1>2 DEF AreHooks
    <2>2. AnchorIndex(plan, hook) = IndexOf(plan, hook.on)
      BY DEF AnchorIndex
    <2> HIDE DEF hook, plan
    <2> QED BY <1>5, <2>1, <2>2, DeclaredIs DEF Anchored
  <1>11. \A g \in DOMAIN hooks : g # h /\ hooks[g].kind = "task" => (g <= d <=> g <= e)
    BY <1>1, <1>3 DEF Far
  <1>12. h <= e
    BY <1>1, <1>3 DEF Far
  <1>13. (i + 1) + 1 = i + 2
    BY <1>1
  <1>15. CASE Anchored(plan, hook)
    <2> DEFINE new == Put(plan, hook)
    <2>1. next = [plan |-> new, pending |-> kept]
      BY <1>5, <1>15 DEF PlaceOrKeep, Anchored, Put
    <2>2. Built(recipe, hooks, new) /\ Ids(new) = Ids(plan) \cup {hook.name}
      <3> HIDE DEF hook, plan
      <3> QED BY <1>2, <1>5, <1>8, <1>15, PutComposed
    <2>3. InTurn(hooks, plan, h)
      <3> SUFFICES ASSUME NEW j \in DOMAIN hooks, hook.kind = "task", hooks[j].kind = "task",
                          hooks[j].on = hook.on, hooks[j].name \in Ids(plan)
                   PROVE  j < h
        BY <1>2 DEF InTurn
      <3>1. j <= d /\ hook.on \in recipe.declared
        BY <1>5 DEF Came
      <3>2. ~(h <= d)
        BY <1>2, <1>5, <1>8, <3>1 DEF Came
      <3> QED BY <1>1, <1>3, <3>1, <3>2 DEF Far
    <2>4. NoneCutsIn(hooks) => Rows(hooks, new) /\ Siblings(hooks, new)
      <3> HIDE DEF plan
      <3>1. hook = hooks[h]
        BY <1>2
      <3> HIDE DEF hook
      <3> QED BY <1>5, <1>8, <1>15, <2>3, <3>1, PutKeepsRows, PutKeepsSiblings
    <2>5. Came(recipe, hooks, new, e)
      <3> SUFFICES ASSUME NEW g \in DOMAIN hooks, hooks[g].kind = "task"
                   PROVE  hooks[g].name \in Ids(new) <=> g <= e /\ hooks[g].on \in recipe.declared
        BY DEF Came
      <3>1. CASE g = h
        BY <1>2, <1>10, <1>12, <1>15, <2>2, <3>1
      <3>2. CASE g # h
        <4>1. hooks[g].name # hook.name
          BY <1>2, <3>2 DEF AreHooks
        <4>2. hooks[g].name \in Ids(plan) <=> g <= d /\ hooks[g].on \in recipe.declared
          BY <1>5 DEF Came
        <4> QED BY <1>11, <2>2, <3>2, <4>1, <4>2
      <3> QED BY <3>1, <3>2
    <2> HIDE DEF new, next, plan, kept, hook, d, e
    <2>6. next.plan = new /\ next.pending = kept
      BY <2>1
    <2>7. \A k \in DOMAIN kept : kept[k].name # hook.name
      BY <1>4, <1>6 DEF hook
    <2>8. \A k \in DOMAIN kept :
            /\ kept[k].name \notin Ids(new)
            /\ \E g \in DOMAIN hooks : kept[k] = hooks[g]
            /\ \A l \in (i + 1) + 1 .. Len(rest) : kept[k].name # rest[l].name
      BY <1>4, <1>6, <1>13, <2>2, <2>7
    <2>9. \A l \in (i + 1) + 1 .. Len(rest) : rest[l].name \notin Ids(new)
      BY <1>4, <1>6, <1>8, <1>13, <2>2
    <2>10. \A g \in DOMAIN hooks :
             \/ hooks[g].name \in Ids(new)
             \/ \E k \in DOMAIN kept : kept[k].name = hooks[g].name
             \/ \E l \in (i + 1) + 1 .. Len(rest) : rest[l].name = hooks[g].name
      BY <1>9, <1>13, <2>2
    <2>11. Looked(recipe, hooks, rest, next, i + 1, e)
      BY <1>5, <1>6, <2>1, <2>2, <2>4, <2>5, <2>6, <2>8, <2>9, <2>10 DEF Looked, Partial
    <2> QED BY <2>11 DEF next, e, hook
  <1>16. CASE ~Anchored(plan, hook)
    <2> DEFINE more == Append(kept, hook)
    <2>1. next = [plan |-> plan, pending |-> more]
      BY <1>5, <1>16 DEF PlaceOrKeep, Anchored
    <2>2. /\ Listed(more) /\ Len(more) = Len(kept) + 1
          /\ \A k \in 1 .. Len(kept) : more[k] = kept[k]
          /\ more[Len(kept) + 1] = hook
      <3> HIDE DEF kept, hook
      <3> QED BY <1>5, AppendedIs
    <2>3. /\ Len(kept) \in Nat /\ DOMAIN kept = 1 .. Len(kept)
          /\ DOMAIN more = 1 .. Len(kept) + 1
      <3> HIDE DEF kept, more
      <3> QED BY <1>5, <2>2, ListedIs DEF IsSequence
    <2>4. Came(recipe, hooks, plan, e)
      <3> SUFFICES ASSUME NEW g \in DOMAIN hooks, hooks[g].kind = "task"
                   PROVE  hooks[g].name \in Ids(plan) <=> g <= e /\ hooks[g].on \in recipe.declared
        BY DEF Came
      <3>1. CASE g = h
        BY <1>2, <1>8, <1>10, <1>16, <3>1
      <3>2. CASE g # h
        <4>1. hooks[g].name \in Ids(plan) <=> g <= d /\ hooks[g].on \in recipe.declared
          BY <1>5 DEF Came
        <4> QED BY <1>11, <3>2, <4>1
      <3> QED BY <3>1, <3>2
    <2>5. \A k \in DOMAIN kept : kept[k].name # hook.name
      BY <1>4, <1>6 DEF hook
    <2> HIDE DEF next, plan, kept, hook, d, e, more
    <2>6. next.plan = plan /\ next.pending = more
      BY <2>1
    <2>7. \A k \in DOMAIN more :
            (k \in DOMAIN kept /\ more[k] = kept[k]) \/ (k = Len(kept) + 1 /\ more[k] = hook)
      BY <2>2, <2>3
    <2>8. ASSUME NEW k \in DOMAIN more
          PROVE  /\ more[k].name \notin Ids(plan)
                 /\ \E g \in DOMAIN hooks : more[k] = hooks[g]
                 /\ \A l \in (i + 1) + 1 .. Len(rest) : more[k].name # rest[l].name
      BY <1>2, <1>4, <1>6, <1>8, <1>13, <2>7
    <2>9. \A k, l \in DOMAIN more : more[k].name = more[l].name => k = l
      BY <1>6, <2>5, <2>7
    <2>10. \A l \in (i + 1) + 1 .. Len(rest) : rest[l].name \notin Ids(plan)
      BY <1>4, <1>6, <1>13
    <2>11. \A g \in DOMAIN hooks :
             \/ hooks[g].name \in Ids(plan)
             \/ \E k \in DOMAIN more : more[k].name = hooks[g].name
             \/ \E l \in (i + 1) + 1 .. Len(rest) : rest[l].name = hooks[g].name
      <3>1. \A k \in DOMAIN kept : k \in DOMAIN more /\ more[k] = kept[k]
        BY <2>2, <2>3
      <3>2. Len(kept) + 1 \in DOMAIN more
        BY <2>3
      <3> QED BY <1>9, <1>13, <2>2, <3>1, <3>2
    <2>12. Looked(recipe, hooks, rest, next, i + 1, e)
      BY <1>5, <2>1, <2>2, <2>4, <2>6, <2>8, <2>9, <2>10, <2>11 DEF Looked, Partial
    <2> QED BY <2>12 DEF next, e, hook
  <1> QED BY <1>15, <1>16

\* Between two passes; before the first one no hook has a place.
Standing(recipe, hooks, acc, first) ==
  /\ acc = [plan |-> acc.plan, pending |-> acc.pending]
  /\ Partial(recipe, hooks, acc.plan)
  /\ Came(recipe, hooks, acc.plan, Far(hooks, first, 0))
  /\ Waiting(recipe, hooks, acc.plan, acc.pending)
  /\ first => acc.pending = hooks

\* A whole pass keeps what is known between two.
LEMMA PassKeeps ==
  ASSUME NEW recipe, IsRecipe(recipe), NEW hooks, AreHooks(hooks), NEW acc, NEW first \in BOOLEAN,
         Standing(recipe, hooks, acc, first)
  PROVE  Standing(recipe, hooks, Pass(acc), FALSE)
  <1> DEFINE rest == acc.pending
  <1> DEFINE place == Placing(acc)
  <1> DEFINE n == Len(rest)
  <1> DEFINE S == {i \in 0 .. n : Looked(recipe, hooks, rest, place[i], i, Far(hooks, first, i))}
  <1>1. IsSequence(rest) /\ n \in Nat /\ DOMAIN rest = 1 .. n
    BY DEF Standing, Waiting, IsSequence
  <1>2. /\ place[0] = [plan |-> acc.plan, pending |-> <<>>]
        /\ \A i \in 0 .. n - 1 : place[i + 1] = PlaceOrKeep(place[i], rest[i + 1])
        /\ Pass(acc) = place[n]
    BY <1>1, PassIs
  <1>3. /\ first => rest = hooks
        /\ \A k, l \in DOMAIN rest : rest[k].name = rest[l].name => k = l
        /\ \A k \in DOMAIN rest : \E h \in DOMAIN hooks : rest[k] = hooks[h]
    BY DEF Standing, Waiting
  <1> HIDE DEF place
  <1>4. 0 \in S
    <2>1. place[0].plan = acc.plan /\ place[0].pending = <<>>
      BY <1>2
    <2>2. Listed(<<>>) /\ DOMAIN <<>> = {}
      <3>1. <<>> \in Seq({})
        OBVIOUS
      <3>2. Listed(<<>>)
        BY <3>1, ListedOf
      <3> QED BY <3>2, ListedIs DEF IsSequence
    <2>3. \A l \in 0 + 1 .. n : l \in DOMAIN rest
      BY <1>1
    <2>4. \A k \in DOMAIN rest : k \in 0 + 1 .. n
      BY <1>1
    <2>5. Partial(recipe, hooks, acc.plan) /\ Came(recipe, hooks, acc.plan, Far(hooks, first, 0))
          /\ Waiting(recipe, hooks, acc.plan, rest)
      BY DEF Standing
    <2>6. Looked(recipe, hooks, rest, place[0], 0, Far(hooks, first, 0))
      <3> HIDE DEF rest
      <3>1. \A h \in DOMAIN hooks :
              \/ hooks[h].name \in Ids(acc.plan)
              \/ \E l \in 0 + 1 .. n : rest[l].name = hooks[h].name
        BY <2>4, <2>5 DEF Waiting
      <3>2. \A l \in 0 + 1 .. n : rest[l].name \notin Ids(acc.plan)
        BY <2>3, <2>5 DEF Waiting
      <3> HIDE DEF n
      <3> QED BY <1>2, <2>1, <2>2, <2>5, <3>1, <3>2 DEF Looked, n
    <2> QED BY <1>1, <2>6
  <1>5. ASSUME NEW i \in 0 .. n - 1, i \in S
        PROVE  i + 1 \in S
    <2>1. Looked(recipe, hooks, rest, place[i], i, Far(hooks, first, i))
      BY <1>5
    <2>2. i + 1 \in DOMAIN rest /\ i + 1 \in 0 .. n
      BY <1>1
    <2>3. \E h \in DOMAIN hooks : rest[i + 1] = hooks[h]
      BY <1>3, <2>2
    <2>4. Looked(recipe, hooks, rest, PlaceOrKeep(place[i], rest[i + 1]), i + 1, Far(hooks, first, i + 1))
      <3> HIDE DEF rest
      <3> QED BY <1>1, <1>3, <2>1, <2>3, LookKeeps DEF n
    <2> QED BY <1>2, <2>2, <2>4
  <1>6. n \in S
    <2> HIDE DEF S, n
    <2>1. \A i \in 0 .. n : i \in S
      BY <1>1, <1>4, <1>5, CountingUp
    <2> QED BY <1>1, <2>1
  <1> DEFINE next == place[n]
  <1>7. Looked(recipe, hooks, rest, next, n, Far(hooks, first, n))
    BY <1>6
  <1>8. Far(hooks, first, n) = Len(hooks) /\ Far(hooks, FALSE, 0) = Len(hooks)
    BY <1>3 DEF Far
  <1> HIDE DEF next, rest, n, S
  <1>9. \A l \in n + 1 .. n : FALSE
    BY <1>1
  <1>10. IsSequence(next.pending)
    BY <1>7, ListedIs DEF Looked
  <1>11. Waiting(recipe, hooks, next.plan, next.pending)
    <2>1. \A h \in DOMAIN hooks :
            hooks[h].name \in Ids(next.plan) \/ \E k \in DOMAIN next.pending : next.pending[k].name = hooks[h].name
      BY <1>7, <1>9 DEF Looked, n
    <2>2. /\ \A k \in DOMAIN next.pending :
               next.pending[k].name \notin Ids(next.plan) /\ \E h \in DOMAIN hooks : next.pending[k] = hooks[h]
          /\ \A k, l \in DOMAIN next.pending : next.pending[k].name = next.pending[l].name => k = l
      BY <1>7 DEF Looked
    <2> QED BY <1>10, <2>1, <2>2 DEF Waiting
  <1>12. Standing(recipe, hooks, next, FALSE)
    <2>1. /\ next = [plan |-> next.plan, pending |-> next.pending]
          /\ Partial(recipe, hooks, next.plan) /\ Came(recipe, hooks, next.plan, Len(hooks))
      BY <1>7, <1>8 DEF Looked
    <2> QED BY <1>8, <1>11, <2>1 DEF Standing
  <1> QED BY <1>2, <1>12 DEF next

\* The plan that BuildPlan composes.
LEMMA BuildPlanIs ==
  ASSUME NEW recipe, IsRecipe(recipe), NEW hooks, AreHooks(hooks), Buildable(recipe, hooks)
  PROVE  LET plan == BuildPlan(recipe, hooks)
         IN  /\ Partial(recipe, hooks, plan)
             /\ Ids(plan) = recipe.declared \cup {hooks[h].name : h \in DOMAIN hooks}
  <1> DEFINE steps == RecipeSteps(recipe)
  <1> DEFINE after == Passing(steps, hooks)
  <1> DEFINE n == Len(hooks)
  <1> DEFINE S == {i \in 0 .. n : Standing(recipe, hooks, after[i], i = 0)}
  <1>1. IsSequence(hooks) /\ n \in Nat /\ DOMAIN hooks = 1 .. n
    BY DEF AreHooks, IsSequence
  <1>2. /\ after[0] = [plan |-> steps, pending |-> hooks]
        /\ \A i \in 0 .. n - 1 : after[i + 1] = Pass(after[i])
        /\ InsertHooks(steps, hooks) = after[n]
    BY <1>1, InsertHooksIs
  <1>3. Built(recipe, hooks, steps) /\ Ids(steps) = recipe.declared
    BY RecipeStepsAre
  <1> HIDE DEF after, steps
  <1>4. \A h \in DOMAIN hooks : hooks[h].name \notin TaskIds
    BY DEF AreHooks
  <1>5. \A h \in DOMAIN hooks : hooks[h].name \notin Ids(steps)
    BY <1>3, <1>4 DEF IsRecipe
  <1>6. 0 \in S
    <2>1. Rows(hooks, steps) /\ Siblings(hooks, steps)
      <3>1. \A h \in DOMAIN hooks, k \in DOMAIN steps : steps[k].id # hooks[h].name
        BY <1>5 DEF Ids
      <3> QED BY <3>1 DEF Rows, Siblings
    <2>2. Came(recipe, hooks, steps, Far(hooks, TRUE, 0))
      <3>1. \A h \in DOMAIN hooks : ~(h <= 0)
        BY <1>1
      <3> QED BY <1>5, <3>1 DEF Came, Far
    <2>3. Waiting(recipe, hooks, steps, hooks)
      <3>1. \A k, l \in DOMAIN hooks : hooks[k].name = hooks[l].name => k = l
        BY DEF AreHooks
      <3> QED BY <1>1, <1>5, <3>1 DEF Waiting
    <2>4. after[0].plan = steps /\ after[0].pending = hooks
      BY <1>2
    <2>5. Standing(recipe, hooks, after[0], TRUE)
      BY <1>2, <1>3, <2>1, <2>2, <2>3, <2>4 DEF Standing, Partial
    <2>6. (0 = 0) = TRUE
      OBVIOUS
    <2>7. Standing(recipe, hooks, after[0], 0 = 0)
      BY <2>5, <2>6
    <2> QED BY <1>1, <2>7
  <1>7. ASSUME NEW i \in 0 .. n - 1, i \in S
        PROVE  i + 1 \in S
    <2>1. Standing(recipe, hooks, after[i], i = 0) /\ (i = 0) \in BOOLEAN
      BY <1>7
    <2>2. Standing(recipe, hooks, Pass(after[i]), FALSE)
      BY <2>1, PassKeeps
    <2>3. i + 1 \in 0 .. n /\ (i + 1 = 0) = FALSE
      BY <1>1
    <2> QED BY <1>2, <2>2, <2>3
  <1>8. n \in S
    <2> HIDE DEF S, n
    <2>1. \A i \in 0 .. n : i \in S
      BY <1>1, <1>6, <1>7, CountingUp
    <2> QED BY <1>1, <2>1
  <1> DEFINE plan == after[n].plan
  <1>9. BuildPlan(recipe, hooks) = plan /\ after[n].pending = <<>>
    BY <1>2 DEF BuildPlan, Buildable, steps
  <1>10. Partial(recipe, hooks, plan) /\ Waiting(recipe, hooks, plan, <<>>)
    BY <1>8, <1>9 DEF Standing
  <1> HIDE DEF plan
  <1>11. \A h \in DOMAIN hooks : hooks[h].name \in Ids(plan)
    BY <1>10 DEF Waiting
  <1>12. ASSUME NEW k \in DOMAIN plan
         PROVE  plan[k].id \in recipe.declared \cup {hooks[h].name : h \in DOMAIN hooks}
    BY <1>10 DEF Partial, Built, Composed, IsTaskStep, IsHookStep
  <1>13. recipe.declared \subseteq Ids(plan)
    BY <1>10 DEF Partial, Built, Composed
  <1>14. Ids(plan) = recipe.declared \cup {hooks[h].name : h \in DOMAIN hooks}
    BY <1>11, <1>12, <1>13 DEF Ids
  <1> QED BY <1>9, <1>10, <1>14

-----------------------------------------------------------------------------
(* The two rewrites of a plan. *)

\* A step is a task of the recipe or a hook by its id.
LEMMA StepOfTask ==
  ASSUME NEW recipe, IsRecipe(recipe), NEW hooks, AreHooks(hooks), NEW plan,
         NEW moved, NEW gated, NEW skipped,
         Composed(recipe, hooks, plan, moved, gated, skipped), NEW k \in DOMAIN plan
  PROVE  /\ plan[k].id \in TaskIds <=> ~plan[k].hook
         /\ ~plan[k].hook => IsTaskStep(recipe, plan[k], gated, skipped)
         /\ plan[k].hook => IsHookStep(hooks, plan[k])
         /\ plan[k].id # "restore"
  <1>1. IsTaskStep(recipe, plan[k], gated, skipped) \/ IsHookStep(hooks, plan[k])
    BY DEF Composed
  <1>2. IsTaskStep(recipe, plan[k], gated, skipped) => ~plan[k].hook /\ plan[k].id \in TaskIds
    BY DEF IsTaskStep, IsRecipe
  <1>3. IsHookStep(hooks, plan[k]) => plan[k].hook /\ plan[k].id \notin TaskIds \cup {"restore"}
    BY DEF IsHookStep, AreHooks
  <1> QED BY <1>1, <1>2, <1>3, TasksStand

\* Marking: only what gates a step and what skips it may change.
Marked(new, plan) ==
  /\ new = [k \in DOMAIN plan |-> new[k]]
  /\ \A k \in DOMAIN plan :
       /\ new[k].id = plan[k].id /\ new[k].hook = plan[k].hook /\ new[k].stage = plan[k].stage
       /\ new[k].implemented = plan[k].implemented /\ new[k].order = plan[k].order
       /\ DOMAIN new[k] = DOMAIN plan[k]

\* Marking steps keeps a plan composed.
LEMMA MarkKeeps ==
  ASSUME NEW recipe, NEW hooks, NEW plan, NEW moved, NEW gated, NEW skipped, NEW new,
         Composed(recipe, hooks, plan, moved, gated, skipped), Marked(new, plan),
         NEW open, NEW left, skipped \subseteq left,
         \A k \in DOMAIN plan :
           /\ new[k].gated => plan[k].gated
           /\ ~plan[k].hook => (new[k].gated <=> plan[k].id \in open)
           /\ new[k].skipped => plan[k].skipped \/ (~plan[k].hook /\ plan[k].id \in left)
  PROVE  /\ Composed(recipe, hooks, new, moved, open, left)
         /\ Ids(new) = Ids(plan)
         /\ Siblings(hooks, plan) => Siblings(hooks, new)
  <1>1. DOMAIN new = DOMAIN plan
    BY DEF Marked
  <1>2. \A k \in DOMAIN plan :
          /\ new[k].id = plan[k].id /\ new[k].hook = plan[k].hook /\ new[k].stage = plan[k].stage
          /\ new[k].implemented = plan[k].implemented /\ new[k].order = plan[k].order
          /\ DOMAIN new[k] = DOMAIN plan[k]
    BY DEF Marked
  <1>3. Listed(new)
    <2> DEFINE T == {new[k] : k \in DOMAIN plan}
    <2>1. DOMAIN plan = 1 .. Len(plan) /\ Len(plan) \in Nat
      BY ListedIs DEF Composed, IsSequence
    <2>2. \A k \in 1 .. Len(plan) : new[k] \in T
      BY <2>1
    <2>3. new = [k \in 1 .. Len(plan) |-> new[k]]
      BY <2>1 DEF Marked
    <2> HIDE DEF T
    <2>4. new \in [1 .. Len(plan) -> T]
      BY <2>2, <2>3
    <2> QED BY <2>1, <2>4, FunctionIsListed
  <1>4. ASSUME NEW k \in DOMAIN plan
        PROVE  IsTaskStep(recipe, new[k], open, left) \/ IsHookStep(hooks, new[k])
    <2>1. CASE IsTaskStep(recipe, plan[k], gated, skipped)
      BY <1>2, <2>1 DEF IsTaskStep
    <2>2. CASE IsHookStep(hooks, plan[k])
      BY <1>2, <2>2 DEF IsHookStep
    <2> QED BY <2>1, <2>2 DEF Composed
  <1>5. Unique(new) /\ TasksInOrder(new, moved) /\ EndsWithUnlock(new)
    BY <1>1, <1>2 DEF Composed, Unique, TasksInOrder, EndsWithUnlock
  <1>6. Ids(new) = Ids(plan)
    <2>1. \A k \in DOMAIN plan : new[k].id \in Ids(plan) /\ plan[k].id \in Ids(new)
      BY <1>1, <1>2 DEF Ids
    <2>2. Ids(new) \subseteq Ids(plan)
      BY <1>1, <2>1 DEF Ids
    <2>3. Ids(plan) \subseteq Ids(new)
      BY <1>1, <2>1 DEF Ids
    <2> QED BY <2>2, <2>3
  <1>7. Siblings(hooks, plan) => Siblings(hooks, new)
    BY <1>1, <1>2 DEF Siblings
  <1>8. recipe.declared \subseteq Ids(new)
    BY <1>6 DEF Composed
  <1> QED BY <1>1, <1>3, <1>4, <1>5, <1>6, <1>7, <1>8 DEF Composed

\* Where a step was before the one at index from went to index to.
Was(from, to, k) == IF k < to \/ k > from THEN k ELSE IF k = to THEN from ELSE k - 1

MayMove(plan, from, to) ==
  /\ from \in 1 .. Len(plan) /\ to \in 1 .. from
  /\ ~plan[from].hook /\ plan[from].stage # "cleanup"

\* Nothing else goes past another step, and no hook goes past one.
IsMoveOf(hooks, plan, from, to, new) ==
  /\ Ids(new) = Ids(plan) /\ DOMAIN new = DOMAIN plan
  /\ Siblings(hooks, plan) => Siblings(hooks, new)
  /\ \A k \in DOMAIN plan : new[k] = plan[Was(from, to, k)]

\* Moving a task to an earlier position keeps a plan composed.
LEMMA MoveKeeps ==
  ASSUME NEW recipe, IsRecipe(recipe), NEW hooks, AreHooks(hooks), NEW plan,
         NEW moved, NEW gated, NEW skipped,
         Composed(recipe, hooks, plan, moved, gated, skipped),
         NEW from, NEW to, MayMove(plan, from, to)
  PROVE  LET new == MoveBack(plan, from, to)
         IN  /\ Composed(recipe, hooks, new, moved \cup {plan[from].id}, gated, skipped)
             /\ IsMoveOf(hooks, plan, from, to, new)
  <1> DEFINE new == MoveBack(plan, from, to)
  <1> DEFINE n == Len(plan)
  <1>1. Listed(plan) /\ n \in Nat /\ DOMAIN plan = 1 .. n
    BY ListedIs DEF Composed, IsSequence
  <1>23. /\ from \in 1 .. Len(plan) /\ to \in 1 .. from
         /\ ~plan[from].hook /\ plan[from].stage # "cleanup"
    BY DEF MayMove
  <1>2. /\ Listed(new) /\ Len(new) = n
        /\ \A k \in 1 .. n :
             new[k] = IF k < to \/ k > from THEN plan[k] ELSE IF k = to THEN plan[from] ELSE plan[k - 1]
    BY <1>1, <1>23, MovedIs
  <1> DEFINE gone == moved \cup {plan[from].id}
  <1>22. moved \subseteq gone /\ plan[from].id \in gone
    OBVIOUS
  <1> HIDE DEF new, n, gone
  <1>3. DOMAIN new = 1 .. n
    BY <1>2, ListedIs DEF IsSequence
  <1> DEFINE W(k) == Was(from, to, k)
  <1>4. from \in Int /\ to \in Int /\ 1 <= to /\ to <= from /\ from <= n
    BY <1>1, <1>23 DEF n
  <1>5. \A k \in 1 .. n : W(k) \in 1 .. n /\ new[k] = plan[W(k)]
    BY <1>1, <1>2, <1>4 DEF Was
  <1>6. \A k, l \in 1 .. n : k # to /\ l # to /\ k < l => W(k) < W(l)
    BY <1>1, <1>4 DEF Was
  <1>7. \A k \in 1 .. n : k # to => W(k) # from
    BY <1>1, <1>4 DEF Was
  <1>8. W(to) = from /\ to \in 1 .. n
    BY <1>1, <1>4 DEF Was
  <1>9. \A j \in 1 .. n : \E k \in 1 .. n : W(k) = j
    <2> TAKE j \in 1 .. n
    <2>1. CASE j < to \/ j > from
      BY <2>1 DEF Was
    <2>2. CASE j = from
      BY <1>8, <2>2
    <2>3. CASE ~(j < to \/ j > from) /\ j # from
      <3>1. j + 1 \in 1 .. n /\ W(j + 1) = j
        BY <1>1, <1>4, <2>3 DEF Was
      <3> QED BY <3>1
    <2> QED BY <2>1, <2>2, <2>3
  <1>10. \A k \in 1 .. n : \A i \in DOMAIN hooks : new[k].id = hooks[i].name => k # to
    <2>1. plan[from].id \in TaskIds
      BY <1>1, <1>4, <1>23, StepOfTask
    <2>2. \A i \in DOMAIN hooks : hooks[i].name \notin TaskIds
      BY DEF AreHooks
    <2> QED BY <1>5, <1>8, <2>1, <2>2
  <1>11. \A k \in 1 .. n : k > from => W(k) = k
    BY <1>4 DEF Was
  <1>12. \A k \in 1 .. n : ~(W(k) <= from) => W(k) = k /\ k > from
    BY <1>1, <1>4 DEF Was
  <1> HIDE DEF W
  <1>13. \A k \in 1 .. n : IsTaskStep(recipe, new[k], gated, skipped) \/ IsHookStep(hooks, new[k])
    BY <1>1, <1>5 DEF Composed
  <1>14. Unique(new)
    <2> SUFFICES ASSUME NEW k \in 1 .. n, NEW l \in 1 .. n, new[k].id = new[l].id, k # l
                 PROVE  FALSE
      BY <1>3 DEF Unique
    <2>1. W(k) = W(l)
      BY <1>1, <1>5 DEF Composed, Unique
    <2>2. k # to /\ l # to
      BY <1>7, <1>8, <2>1
    <2>3. k < l \/ l < k
      BY <1>1
    <2>4. W(k) \in Int
      BY <1>5
    <2> QED BY <1>6, <2>1, <2>2, <2>3, <2>4
  <1>15. TasksInOrder(new, gone)
    <2> SUFFICES ASSUME NEW k \in 1 .. n, NEW l \in 1 .. n, k < l, ~new[k].hook, ~new[l].hook,
                        new[k].id \notin gone, new[l].id \notin gone
                 PROVE  TaskAt(new[k].id) < TaskAt(new[l].id)
      BY <1>3 DEF TasksInOrder
    <2>1. k # to /\ l # to
      BY <1>5, <1>8, <1>22
    <2>2. W(k) < W(l)
      BY <1>6, <2>1
    <2> QED BY <1>1, <1>5, <1>22, <2>2 DEF Composed, TasksInOrder
  <1>16. Ids(new) = Ids(plan)
    <2>1. \A k \in 1 .. n : new[k].id \in Ids(plan)
      BY <1>1, <1>5 DEF Ids
    <2>2. \A j \in 1 .. n : plan[j].id \in Ids(new)
      BY <1>3, <1>5, <1>9 DEF Ids
    <2>3. Ids(new) \subseteq Ids(plan)
      BY <1>3, <2>1 DEF Ids
    <2>4. Ids(plan) \subseteq Ids(new)
      BY <1>1, <2>2 DEF Ids
    <2> QED BY <2>3, <2>4
  <1>17. EndsWithUnlock(new)
    <2> SUFFICES ASSUME NEW k \in 1 .. n, NEW l \in 1 .. n, new[k].id = "unlock", k <= l
                 PROVE  new[l].stage = "cleanup"
      BY <1>3 DEF EndsWithUnlock
    <2>1. EndsWithUnlock(plan) /\ plan[W(k)].id = "unlock" /\ W(k) \in 1 .. n
      BY <1>5 DEF Composed
    <2>2. ~(W(k) <= from)
      BY <1>1, <1>4, <1>23, <2>1 DEF EndsWithUnlock, n
    <2>3. W(k) = k /\ k > from
      BY <1>12, <2>2
    <2>4. l > from /\ l \in Int
      BY <1>1, <1>4, <2>3
    <2>5. W(l) = l
      BY <1>11, <2>4
    <2> QED BY <1>1, <1>5, <2>1, <2>3, <2>5 DEF EndsWithUnlock
  <1>18. ASSUME Siblings(hooks, plan)
         PROVE  Siblings(hooks, new)
    <2> SUFFICES ASSUME NEW i \in DOMAIN hooks, NEW j \in DOMAIN hooks,
                        NEW k \in 1 .. n, NEW l \in 1 .. n, GoesFirst(hooks, i, j),
                        new[k].id = hooks[i].name, new[l].id = hooks[j].name
                 PROVE  k < l
      BY <1>3 DEF Siblings
    <2>5. W(k) \in 1 .. n /\ W(l) \in 1 .. n
      BY <1>5
    <2>6. W(k) \in DOMAIN plan /\ W(l) \in DOMAIN plan
          /\ plan[W(k)].id = hooks[i].name /\ plan[W(l)].id = hooks[j].name
      BY <1>1, <1>5, <2>5
    <2>1. W(k) < W(l) /\ W(k) \in Int /\ W(l) \in Int
      <3>1. W(k) < W(l)
        BY <1>18, <2>6, Zenon DEF Siblings
      <3> QED BY <1>1, <2>5, <3>1
    <2>2. k # to /\ l # to
      BY <1>10
    <2>3. l < k => W(l) < W(k)
      BY <1>6, <2>2
    <2>4. k # l /\ k \in Int /\ l \in Int
      BY <2>1
    <2> QED BY <2>1, <2>3, <2>4
  <1>19. recipe.declared \subseteq Ids(new)
    BY <1>16 DEF Composed
  <1>20. \A k \in DOMAIN plan : new[k] = plan[Was(from, to, k)]
    BY <1>1, <1>5 DEF W
  <1>21. Composed(recipe, hooks, new, gone, gated, skipped)
    BY <1>2, <1>3, <1>13, <1>14, <1>15, <1>17, <1>19 DEF Composed
  <1>24. IsMoveOf(hooks, plan, from, to, new)
    BY <1>1, <1>3, <1>16, <1>18, <1>20 DEF IsMoveOf
  <1> QED BY <1>21, <1>24 DEF new, gone

\* What a plan keeps of the composed one: the lists of ids and the order of hooks.
Shapes(recipe, hooks, plan, moved, gated, skipped) ==
  /\ Composed(recipe, hooks, plan, moved, gated, skipped)
  /\ Ids(plan) = recipe.declared \cup {hooks[h].name : h \in DOMAIN hooks}
  /\ NoneCutsIn(hooks) => Siblings(hooks, plan)

\* The steps a mode of building may skip, and the one it moves.
SkippedByModes == ArtifactReplacedBuildTasks \cup {"artifact"}

MovedByMode(mode) == IF mode = "artifact" THEN {"artifact"} ELSE {}

\* Looking a task of a composed plan up.
LEMMA IndexOfTask ==
  ASSUME NEW recipe, IsRecipe(recipe), NEW hooks, AreHooks(hooks), NEW plan,
         NEW moved, NEW gated, NEW skipped,
         Composed(recipe, hooks, plan, moved, gated, skipped), NEW id \in TaskIds
  PROVE  /\ id \in recipe.declared <=> IndexOf(plan, id) # 0
         /\ IndexOf(plan, id) # 0 =>
              /\ IndexOf(plan, id) \in DOMAIN plan /\ plan[IndexOf(plan, id)].id = id
              /\ ~plan[IndexOf(plan, id)].hook
              /\ plan[IndexOf(plan, id)].stage = TaskStage(id)
         /\ \A k \in DOMAIN plan : plan[k].id = id => k = IndexOf(plan, id)
  <1> DEFINE at == IndexOf(plan, id)
  <1>1. IsSequence(plan) /\ recipe.declared \subseteq Ids(plan) /\ Unique(plan)
    BY ListedIs DEF Composed
  <1>2. at # 0 => at \in DOMAIN plan /\ plan[at].id = id
    BY <1>1, IndexOfIs DEF IsSequence
  <1>3. \A k \in DOMAIN plan : plan[k].id = id => at # 0
    BY <1>1, IndexOfIs DEF Ids
  <1> HIDE DEF at
  <1>4. \A k \in DOMAIN plan : plan[k].id = id => k = at
    BY <1>1, <1>2, <1>3 DEF Unique
  <1>5. at # 0 => IsTaskStep(recipe, plan[at], gated, skipped)
    BY <1>2, StepOfTask
  <1>6. at # 0 => ~plan[at].hook /\ plan[at].stage = TaskStage(id) /\ id \in recipe.declared
    BY <1>2, <1>5 DEF IsTaskStep
  <1>7. id \in recipe.declared => at # 0
    BY <1>1, <1>3 DEF Ids
  <1> QED BY <1>2, <1>4, <1>6, <1>7 DEF at

\* Every step of a plan has the fields that the rewrites look at.
LEMMA StepsHaveFields ==
  ASSUME NEW recipe, NEW hooks, NEW plan, NEW moved, NEW gated, NEW skipped,
         Shapes(recipe, hooks, plan, moved, gated, skipped), NEW k \in DOMAIN plan
  PROVE  /\ Fields \subseteq DOMAIN plan[k]
         /\ ~plan[k].hook => (plan[k].gated <=> plan[k].id \in gated)
  BY DEF Shapes, Composed, IsTaskStep, IsHookStep

\* ForBuildMode moves the artifact at most, and skips tasks of the build stage.
LEMMA ModeIs ==
  ASSUME NEW recipe, IsRecipe(recipe), NEW hooks, AreHooks(hooks), NEW plan, NEW mode,
         Shapes(recipe, hooks, plan, {}, recipe.gated, {})
  PROVE  Shapes(recipe, hooks, ForBuildMode(plan, mode), MovedByMode(mode), recipe.gated, SkippedByModes)
  <1> DEFINE new == [i \in DOMAIN plan |->
                       [plan[i] EXCEPT !.skipped = @ \/ SkippedByMode(plan[i], mode)]]
  <1>1. Marked(new, plan)
    <2> DEFINE mark(k) == plan[k].skipped \/ SkippedByMode(plan[k], mode)
    <2>1. \A k \in DOMAIN plan : new[k] = [plan[k] EXCEPT !.skipped = mark(k)]
      OBVIOUS
    <2>2. new = [k \in DOMAIN plan |-> new[k]]
      OBVIOUS
    <2> HIDE DEF new, mark
    <2>3. \A k \in DOMAIN plan : Fields \subseteq DOMAIN plan[k]
      BY StepsHaveFields
    <2>4. ASSUME NEW k \in DOMAIN plan
          PROVE  /\ new[k].id = plan[k].id /\ new[k].hook = plan[k].hook /\ new[k].stage = plan[k].stage
                 /\ new[k].implemented = plan[k].implemented /\ new[k].order = plan[k].order
                 /\ DOMAIN new[k] = DOMAIN plan[k]
      BY <2>1, <2>3 DEF Fields
    <2> QED BY <2>2, <2>4 DEF Marked
  <1>2. ASSUME NEW k \in DOMAIN plan
        PROVE  /\ new[k].gated = plan[k].gated
               /\ new[k].skipped => plan[k].skipped \/ (~plan[k].hook /\ plan[k].id \in SkippedByModes)
               /\ ~plan[k].hook => (new[k].gated <=> plan[k].id \in recipe.gated)
    <2>5. new[k] = [plan[k] EXCEPT !.skipped = @ \/ SkippedByMode(plan[k], mode)]
      OBVIOUS
    <2>6. Fields \subseteq DOMAIN plan[k]
      BY StepsHaveFields
    <2> HIDE DEF new
    <2>1. new[k].gated = plan[k].gated
      BY <2>5, <2>6 DEF Fields
    <2>2. new[k].skipped => plan[k].skipped \/ SkippedByMode(plan[k], mode)
      <3>3. new[k].skipped = (plan[k].skipped \/ SkippedByMode(plan[k], mode))
        BY <2>5, <2>6 DEF Fields
      <3> QED BY <3>3
    <2>3. SkippedByMode(plan[k], mode) => ~plan[k].hook /\ plan[k].id \in SkippedByModes
      BY DEF SkippedByMode, SkippedByModes
    <2>4. ~plan[k].hook => (plan[k].gated <=> plan[k].id \in recipe.gated)
      BY DEF Shapes, Composed, IsTaskStep, IsHookStep
    <2> QED BY <2>1, <2>2, <2>3, <2>4
  <1> HIDE DEF new
  <1>3. Shapes(recipe, hooks, new, {}, recipe.gated, SkippedByModes)
    BY <1>1, <1>2, MarkKeeps DEF Shapes
  <1>4. CASE mode # "artifact"
    <2>1. ForBuildMode(plan, mode) = new /\ MovedByMode(mode) = {}
      BY <1>4 DEF ForBuildMode, MovedByMode, new
    <2> QED BY <1>3, <2>1
  <1>5. CASE mode = "artifact"
    <2> DEFINE from == IndexOf(new, "artifact")
    <2> DEFINE to == SelectInSeq(new, LAMBDA s : s.stage = "build")
    <2> DEFINE gone == {"artifact"}
    <2>1. ForBuildMode(plan, mode) = IF from = 0 \/ to = 0 \/ from < to THEN new ELSE MoveBack(new, from, to)
      BY <1>5 DEF ForBuildMode, MoveArtifactBeforeTheBuildTasks, new
    <2>2. Composed(recipe, hooks, new, {}, recipe.gated, SkippedByModes)
      BY <1>3 DEF Shapes
    <2>3. IsSequence(new)
      BY <2>2, ListedIs DEF Composed
    <2>4. to # 0 => to \in 1 .. Len(new)
      <3> DEFINE I == {i \in 1 .. Len(new) : new[i].stage = "build"}
      <3>1. to = IF I # {} THEN Min(I) ELSE 0
        BY DEF SelectInSeq
      <3>2. I \in SUBSET Nat
        BY <2>3 DEF IsSequence
      <3>3. I # {} => Min(I) \in I
        BY <3>2, LeastOf
      <3> QED BY <3>1, <3>3
    <2>5. "artifact" \in TaskIds
      BY TasksStand
    <2>6. from # 0 => /\ from \in 1 .. Len(new) /\ new[from].id = "artifact" /\ ~new[from].hook
                      /\ new[from].stage # "cleanup"
      <3>1. from # 0 => /\ from \in DOMAIN new /\ new[from].id = "artifact" /\ ~new[from].hook
                        /\ new[from].stage = TaskStage("artifact")
        BY <2>2, <2>5, IndexOfTask
      <3> QED BY <2>3, <3>1, StagesAre DEF IsSequence
    <2> HIDE DEF from, to, gone
    <2>7. CASE from = 0 \/ to = 0 \/ from < to
      <3>1. Composed(recipe, hooks, new, gone, recipe.gated, SkippedByModes)
        BY <2>2 DEF Composed, TasksInOrder
      <3> QED BY <1>3, <1>5, <2>1, <2>7, <3>1 DEF Shapes, MovedByMode, gone
    <2>8. CASE ~(from = 0 \/ to = 0 \/ from < to)
      <3>1. from \in 1 .. Len(new) /\ to \in 1 .. from
        BY <2>3, <2>4, <2>6, <2>8 DEF IsSequence
      <3>2. gone = {} \cup {new[from].id}
        BY <2>6, <2>8 DEF gone
      <3>3. /\ Composed(recipe, hooks, MoveBack(new, from, to), gone, recipe.gated, SkippedByModes)
            /\ Ids(MoveBack(new, from, to)) = Ids(new)
            /\ Siblings(hooks, new) => Siblings(hooks, MoveBack(new, from, to))
        <4>1. MayMove(new, from, to)
          BY <2>6, <2>8, <3>1 DEF MayMove
        <4>2. /\ Composed(recipe, hooks, MoveBack(new, from, to), {} \cup {new[from].id},
                          recipe.gated, SkippedByModes)
              /\ IsMoveOf(hooks, new, from, to, MoveBack(new, from, to))
          BY <2>2, <4>1, MoveKeeps
        <4> QED BY <3>2, <4>2 DEF IsMoveOf
      <3> QED BY <1>3, <1>5, <2>1, <2>8, <3>3 DEF Shapes, MovedByMode, gone
    <2> QED BY <2>7, <2>8
  <1> QED BY <1>4, <1>5

\* What a strategy ungates, skips and moves.
NeedsNoWindow(plan, strategy) == strategy = "symlink" /\ ~NeedsMaintenanceWindow(plan)

Closes(plan, strategy) == strategy = "symlink" /\ NeedsMaintenanceWindow(plan)

\* The window ends right before the activation.
EndsBefore(plan) ==
  \A k, l \in DOMAIN plan : plan[k].id = "disable" /\ plan[l].id = "activate" => l = k + 1

\* ForPublishStrategy ungates the window in place, skips it where nothing needs it,
\* and ends it right before the activation of a symlink.
LEMMA StrategyIs ==
  ASSUME NEW recipe, IsRecipe(recipe), NEW hooks, AreHooks(hooks), NEW plan, NEW strategy,
         NEW moved, NEW skipped, moved \subseteq {"artifact"},
         Shapes(recipe, hooks, plan, moved, recipe.gated, skipped)
  PROVE  LET new == ForPublishStrategy(plan, strategy)
         IN  /\ strategy # "symlink" =>
                  Shapes(recipe, hooks, new, moved, recipe.gated \ WindowTasks, skipped)
             /\ NeedsNoWindow(plan, strategy) =>
                  Shapes(recipe, hooks, new, moved, recipe.gated, skipped \cup WindowTasks)
             /\ Closes(plan, strategy) =>
                  Shapes(recipe, hooks, new, moved \cup {"disable"}, recipe.gated, skipped) /\ EndsBefore(new)
  <1>1. ASSUME strategy # "symlink"
        PROVE  Shapes(recipe, hooks, ForPublishStrategy(plan, strategy), moved,
                      recipe.gated \ WindowTasks, skipped)
    <2> DEFINE new == WithUngatedMaintenanceWindow(plan)
    <2>1. ForPublishStrategy(plan, strategy) = new
      BY <1>1 DEF ForPublishStrategy
    <2>2. Marked(new, plan)
      <3> DEFINE mark(k) == plan[k].gated /\ plan[k].id \notin WindowTasks
      <3>1. \A k \in DOMAIN plan : new[k] = [plan[k] EXCEPT !.gated = mark(k)]
        BY DEF WithUngatedMaintenanceWindow
      <3>2. new = [k \in DOMAIN plan |-> new[k]]
        BY DEF WithUngatedMaintenanceWindow
      <3> HIDE DEF new, mark
      <3>3. \A k \in DOMAIN plan : Fields \subseteq DOMAIN plan[k]
        BY StepsHaveFields
      <3>4. ASSUME NEW k \in DOMAIN plan
            PROVE  /\ new[k].id = plan[k].id /\ new[k].hook = plan[k].hook /\ new[k].stage = plan[k].stage
                   /\ new[k].implemented = plan[k].implemented /\ new[k].order = plan[k].order
                   /\ DOMAIN new[k] = DOMAIN plan[k]
        BY <3>1, <3>3 DEF Fields
      <3> QED BY <3>2, <3>4 DEF Marked
    <2>3. ASSUME NEW k \in DOMAIN plan
          PROVE  /\ new[k].gated => plan[k].gated
                 /\ ~plan[k].hook => (new[k].gated <=> plan[k].id \in recipe.gated \ WindowTasks)
                 /\ new[k].skipped = plan[k].skipped
      <3>1. /\ Fields \subseteq DOMAIN plan[k]
            /\ ~plan[k].hook => (plan[k].gated <=> plan[k].id \in recipe.gated)
        BY StepsHaveFields
      <3>2. new[k] = [plan[k] EXCEPT !.gated = @ /\ plan[k].id \notin WindowTasks]
        BY DEF WithUngatedMaintenanceWindow
      <3> HIDE DEF new
      <3>3. new[k].gated = (plan[k].gated /\ plan[k].id \notin WindowTasks)
        BY <3>1, <3>2 DEF Fields
      <3>4. new[k].skipped = plan[k].skipped
        BY <3>1, <3>2 DEF Fields
      <3> QED BY <3>1, <3>3, <3>4
    <2> HIDE DEF new
    <2>4. Composed(recipe, hooks, plan, moved, recipe.gated, skipped)
      BY DEF Shapes
    <2> DEFINE open == recipe.gated \ WindowTasks
    <2>5. \A k \in DOMAIN plan :
            /\ new[k].gated => plan[k].gated
            /\ ~plan[k].hook => (new[k].gated <=> plan[k].id \in open)
            /\ new[k].skipped => plan[k].skipped \/ (~plan[k].hook /\ plan[k].id \in skipped)
      BY <2>3
    <2> HIDE DEF open
    <2>6. /\ Composed(recipe, hooks, new, moved, open, skipped) /\ Ids(new) = Ids(plan)
          /\ Siblings(hooks, plan) => Siblings(hooks, new)
      BY <2>2, <2>4, <2>5, MarkKeeps
    <2> QED BY <2>1, <2>6 DEF Shapes, open
  <1>2. ASSUME NeedsNoWindow(plan, strategy)
        PROVE  Shapes(recipe, hooks, ForPublishStrategy(plan, strategy), moved,
                      recipe.gated, skipped \cup WindowTasks)
    <2> DEFINE new == WithoutMaintenanceWindow(plan)
    <2>1. ForPublishStrategy(plan, strategy) = new
      BY <1>2 DEF ForPublishStrategy, NeedsNoWindow
    <2>2. Marked(new, plan)
      <3> DEFINE mark(k) == plan[k].skipped \/ plan[k].id \in WindowTasks
      <3>1. \A k \in DOMAIN plan : new[k] = [plan[k] EXCEPT !.skipped = mark(k)]
        BY DEF WithoutMaintenanceWindow
      <3>2. new = [k \in DOMAIN plan |-> new[k]]
        BY DEF WithoutMaintenanceWindow
      <3> HIDE DEF new, mark
      <3>3. \A k \in DOMAIN plan : Fields \subseteq DOMAIN plan[k]
        BY StepsHaveFields
      <3>4. ASSUME NEW k \in DOMAIN plan
            PROVE  /\ new[k].id = plan[k].id /\ new[k].hook = plan[k].hook /\ new[k].stage = plan[k].stage
                   /\ new[k].implemented = plan[k].implemented /\ new[k].order = plan[k].order
                   /\ DOMAIN new[k] = DOMAIN plan[k]
        BY <3>1, <3>3 DEF Fields
      <3> QED BY <3>2, <3>4 DEF Marked
    <2> DEFINE left == skipped \cup WindowTasks
    <2>3. Composed(recipe, hooks, plan, moved, recipe.gated, skipped)
      BY DEF Shapes
    <2>4. ASSUME NEW k \in DOMAIN plan
          PROVE  /\ new[k].gated = plan[k].gated
                 /\ ~plan[k].hook => (plan[k].gated <=> plan[k].id \in recipe.gated)
                 /\ new[k].skipped => plan[k].skipped \/ (~plan[k].hook /\ plan[k].id \in left)
      <3>1. ~plan[k].hook => (plan[k].gated <=> plan[k].id \in recipe.gated)
        BY StepsHaveFields
      <3>2. new[k] = [plan[k] EXCEPT !.skipped = @ \/ plan[k].id \in WindowTasks]
        BY DEF WithoutMaintenanceWindow
      <3> HIDE DEF new
      <3>6. Fields \subseteq DOMAIN plan[k]
        BY StepsHaveFields
      <3>3. new[k].skipped => plan[k].skipped \/ plan[k].id \in WindowTasks
        <4>2. new[k].skipped = (plan[k].skipped \/ plan[k].id \in WindowTasks)
          BY <3>2, <3>6 DEF Fields
        <4> QED BY <4>2
      <3>4. plan[k].id \in WindowTasks => ~plan[k].hook
        <4>1. WindowTasks \subseteq TaskIds
          BY TasksStand DEF WindowTasks
        <4>2. plan[k].id \in TaskIds <=> ~plan[k].hook
          <5> HIDE DEF new, left
          <5> QED BY <2>3, StepOfTask
        <4> QED BY <4>1, <4>2
      <3>5. new[k].gated = plan[k].gated
        BY <3>2, <3>6 DEF Fields
      <3> QED BY <3>1, <3>3, <3>4, <3>5
    <2>5. skipped \subseteq left
      OBVIOUS
    <2> HIDE DEF new, left
    <2>6. /\ Composed(recipe, hooks, new, moved, recipe.gated, left) /\ Ids(new) = Ids(plan)
          /\ Siblings(hooks, plan) => Siblings(hooks, new)
      BY <2>2, <2>3, <2>4, <2>5, MarkKeeps
    <2> QED BY <2>1, <2>6 DEF Shapes, left
  <1>3. ASSUME Closes(plan, strategy)
        PROVE  LET new == ForPublishStrategy(plan, strategy)
               IN  /\ Shapes(recipe, hooks, new, moved \cup {"disable"}, recipe.gated, skipped)
                   /\ EndsBefore(new)
    <2> DEFINE from == IndexOf(plan, "disable")
    <2> DEFINE to == IndexOf(plan, "activate")
    <2> DEFINE gone == moved \cup {"disable"}
    <2>1. ForPublishStrategy(plan, strategy)
            = IF from = 0 \/ to = 0 \/ from < to THEN plan ELSE MoveBack(plan, from, to)
      BY <1>3 DEF ForPublishStrategy, Closes, CloseWindowBefore
    <2>2. Composed(recipe, hooks, plan, moved, recipe.gated, skipped)
      BY DEF Shapes
    <2>3. IsSequence(plan)
      BY <2>2, ListedIs DEF Composed
    <2>4. "disable" \in TaskIds /\ "activate" \in TaskIds
      BY TasksStand
    <2>5. /\ from # 0 => /\ from \in 1 .. Len(plan) /\ plan[from].id = "disable" /\ ~plan[from].hook
                         /\ plan[from].stage # "cleanup"
          /\ to # 0 /\ to \in 1 .. Len(plan) /\ plan[to].id = "activate" /\ ~plan[to].hook
      <3>1. /\ from # 0 => /\ from \in DOMAIN plan /\ plan[from].id = "disable" /\ ~plan[from].hook
                           /\ plan[from].stage = TaskStage("disable")
            /\ "activate" \in recipe.declared => to # 0
            /\ to # 0 => to \in DOMAIN plan /\ plan[to].id = "activate" /\ ~plan[to].hook
        BY <2>2, <2>4, IndexOfTask
      <3>2. "activate" \in recipe.declared
        BY DEF IsRecipe
      <3> QED BY <2>3, <3>1, <3>2, StagesAre DEF IsSequence
    <2>6. \A k \in DOMAIN plan : (plan[k].id = "disable" => k = from) /\ (plan[k].id = "activate" => k = to)
      BY <2>2, <2>4, IndexOfTask
    <2>7. \A k \in DOMAIN plan : plan[k].id = "disable" => from # 0
      <3>1. \A k \in DOMAIN plan : k # 0
        BY <2>3 DEF IsSequence
      <3> QED BY <2>6, <3>1
    <2> HIDE DEF from, to, gone
    <2>8. CASE from = 0
      <3>1. Composed(recipe, hooks, plan, gone, recipe.gated, skipped)
        BY <2>2 DEF Composed, TasksInOrder, gone
      <3>2. EndsBefore(plan)
        BY <2>7, <2>8 DEF EndsBefore
      <3> QED BY <2>1, <2>8, <3>1, <3>2 DEF Shapes, gone
    <2>9. CASE from # 0
      <3>1. to < from
        <4>1. TaskAt("disable") = 21 /\ TaskAt("activate") = 18
          BY TasksStand
        <4>2. "disable" \notin moved /\ "activate" \notin moved
          OBVIOUS
        <4>3. from < to => TaskAt("disable") < TaskAt("activate")
          BY <2>2, <2>3, <2>5, <2>9, <4>2 DEF Composed, TasksInOrder, IsSequence
        <4>4. from # to
          BY <2>5, <2>9, <4>1
        <4> QED BY <2>3, <2>5, <2>9, <4>1, <4>3, <4>4 DEF IsSequence
      <3>2. from \in 1 .. Len(plan) /\ to \in 1 .. from
        BY <2>3, <2>5, <2>9, <3>1 DEF IsSequence
      <3>3. gone = moved \cup {plan[from].id}
        BY <2>5, <2>9 DEF gone
      <3> DEFINE new == MoveBack(plan, from, to)
      <3>4. /\ Composed(recipe, hooks, new, gone, recipe.gated, skipped)
            /\ Ids(new) = Ids(plan)
            /\ Siblings(hooks, plan) => Siblings(hooks, new)
            /\ DOMAIN new = DOMAIN plan
            /\ \A k \in DOMAIN plan : new[k] = plan[Was(from, to, k)]
        <4>1. MayMove(plan, from, to)
          BY <2>5, <2>9, <3>2 DEF MayMove
        <4>2. /\ Composed(recipe, hooks, new, moved \cup {plan[from].id}, recipe.gated, skipped)
              /\ IsMoveOf(hooks, plan, from, to, new)
          BY <2>2, <4>1, MoveKeeps
        <4> HIDE DEF new
        <4> QED BY <3>3, <4>2 DEF IsMoveOf
      <3> HIDE DEF new
      <3>5. EndsBefore(new)
        <4> SUFFICES ASSUME NEW k \in 1 .. Len(plan), NEW l \in 1 .. Len(plan),
                            new[k].id = "disable", new[l].id = "activate"
                     PROVE  l = k + 1
          BY <2>3, <3>4 DEF EndsBefore, IsSequence
        <4>1. \A m \in 1 .. Len(plan) : Was(from, to, m) \in 1 .. Len(plan)
          BY <2>3, <2>5, <3>1, <3>2 DEF Was, IsSequence
        <4>2. Was(from, to, k) = from /\ Was(from, to, l) = to
          BY <2>3, <2>6, <3>4, <4>1 DEF IsSequence
        <4> QED BY <2>3, <2>5, <3>1, <3>2, <4>2 DEF Was, IsSequence
      <3>6. ForPublishStrategy(plan, strategy) = new
        BY <2>1, <2>3, <2>5, <3>1, <3>2, <2>9 DEF new, IsSequence
      <3> QED BY <3>4, <3>5, <3>6 DEF Shapes, gone
    <2> QED BY <2>8, <2>9
  <1> QED BY <1>1, <1>2, <1>3

-----------------------------------------------------------------------------
(* What the proofs about a deploy use of a plan. *)

\* Tasks that nothing moves come in the canonical order.
LEMMA TasksPrecede ==
  ASSUME NEW recipe, IsRecipe(recipe), NEW hooks, AreHooks(hooks), NEW plan,
         NEW moved, NEW gated, NEW skipped,
         Composed(recipe, hooks, plan, moved, gated, skipped),
         NEW a \in TaskIds, NEW b \in TaskIds, a \notin moved, b \notin moved, TaskAt(a) < TaskAt(b)
  PROVE  Precedes(plan, a, b)
  <1> SUFFICES ASSUME NEW k \in DOMAIN plan, NEW l \in DOMAIN plan, plan[k].id = a, plan[l].id = b
               PROVE  k < l
    BY DEF Precedes
  <1>1. ~plan[k].hook /\ ~plan[l].hook
    BY StepOfTask
  <1>2. DOMAIN plan = 1 .. Len(plan)
    BY ListedIs DEF Composed, IsSequence
  <1>3. TaskAt(a) \in Int /\ TaskAt(b) \in Int
    BY TaskAtIs
  <1>4. k # l
    BY <1>3
  <1>5. ~(l < k)
    BY <1>1, <1>3 DEF Composed, TasksInOrder
  <1> QED BY <1>2, <1>4, <1>5

\* An end of the window that was moved is where the activation was.
LEMMA EndPrecedes ==
  ASSUME NEW plan, IsSequence(plan), EndsBefore(plan), "activate" \in Ids(plan), NEW id
  PROVE  /\ id # "disable" /\ Precedes(plan, id, "activate") => Precedes(plan, id, "disable")
         /\ Precedes(plan, "activate", id) => Precedes(plan, "disable", id)
         /\ Precedes(plan, "disable", "activate")
  <1>1. PICK m \in DOMAIN plan : plan[m].id = "activate"
    BY DEF Ids
  <1>2. \A k \in DOMAIN plan : plan[k].id = "disable" => m = k + 1
    BY <1>1 DEF EndsBefore
  <1>3. DOMAIN plan \subseteq Int
    BY DEF IsSequence
  <1>4. ASSUME id # "disable", Precedes(plan, id, "activate")
        PROVE  Precedes(plan, id, "disable")
    <2> SUFFICES ASSUME NEW k \in DOMAIN plan, NEW l \in DOMAIN plan,
                        plan[k].id = id, plan[l].id = "disable"
                 PROVE  k < l
      BY DEF Precedes
    <2>1. k < m /\ m = l + 1 /\ k # l
      BY <1>1, <1>2, <1>4 DEF Precedes
    <2> QED BY <1>3, <2>1
  <1>5. ASSUME Precedes(plan, "activate", id)
        PROVE  Precedes(plan, "disable", id)
    <2> SUFFICES ASSUME NEW k \in DOMAIN plan, NEW l \in DOMAIN plan,
                        plan[k].id = "disable", plan[l].id = id
                 PROVE  k < l
      BY DEF Precedes
    <2>1. m < l /\ m = k + 1
      BY <1>1, <1>2, <1>5 DEF Precedes
    <2> QED BY <1>3, <2>1
  <1>6. Precedes(plan, "disable", "activate")
    <2> SUFFICES ASSUME NEW k \in DOMAIN plan, NEW l \in DOMAIN plan,
                        plan[k].id = "disable", plan[l].id = "activate"
                 PROVE  k < l
      BY DEF Precedes
    <2>1. l = k + 1
      BY DEF EndsBefore
    <2> QED BY <1>3, <2>1
  <1> QED BY <1>4, <1>5, <1>6

\* A composed plan is one under the lock, whatever was moved in it.
LEMMA ComposedIsLocked ==
  ASSUME NEW recipe, IsRecipe(recipe), NEW hooks, AreHooks(hooks), NEW plan,
         NEW moved, NEW gated, NEW skipped,
         Composed(recipe, hooks, plan, moved, gated, skipped),
         moved \subseteq {"artifact", "disable"}, "disable" \in moved => EndsBefore(plan),
         gated \subseteq recipe.gated, "lock" \notin skipped
  PROVE  LockedPlan(plan)
  <1>1. IsSequence(plan) /\ Unique(plan) /\ recipe.declared \subseteq Ids(plan)
    BY ListedIs DEF Composed
  <1>2. "lock" \in Ids(plan) /\ "activate" \in Ids(plan)
    BY <1>1 DEF IsRecipe
  <1>3. PICK m \in DOMAIN plan : plan[m].id = "lock"
    BY <1>2 DEF Ids
  <1>4. \A k \in DOMAIN plan : plan[k].id = "lock" => Implemented(plan[k]) /\ ~plan[k].gated
    <2> TAKE k \in DOMAIN plan
    <2> HAVE plan[k].id = "lock"
    <2>1. "lock" \in TaskIds
      BY TasksStand
    <2>2. IsTaskStep(recipe, plan[k], gated, skipped)
      BY <2>1, StepOfTask
    <2> QED BY <2>2 DEF IsTaskStep, IsRecipe, Implemented
  <1>5. "restore" \notin Ids(plan)
    BY StepOfTask DEF Ids
  <1>6. /\ Precedes(plan, "lock", "enable") /\ Precedes(plan, "enable", "unlock")
        /\ Precedes(plan, "lock", "migrate") /\ Precedes(plan, "migrate", "unlock")
        /\ Precedes(plan, "lock", "activate") /\ Precedes(plan, "activate", "unlock")
        /\ "disable" \notin moved =>
             Precedes(plan, "lock", "disable") /\ Precedes(plan, "disable", "unlock")
    <2>1. /\ "lock" \in TaskIds /\ "enable" \in TaskIds /\ "migrate" \in TaskIds
          /\ "activate" \in TaskIds /\ "disable" \in TaskIds /\ "unlock" \in TaskIds
          /\ TaskAt("lock") < TaskAt("enable") /\ TaskAt("enable") < TaskAt("unlock")
          /\ TaskAt("lock") < TaskAt("migrate") /\ TaskAt("migrate") < TaskAt("unlock")
          /\ TaskAt("lock") < TaskAt("activate") /\ TaskAt("activate") < TaskAt("unlock")
          /\ TaskAt("lock") < TaskAt("disable") /\ TaskAt("disable") < TaskAt("unlock")
      BY TasksStand
    <2>2. /\ "lock" \notin moved /\ "enable" \notin moved /\ "migrate" \notin moved
          /\ "activate" \notin moved /\ "unlock" \notin moved
      OBVIOUS
    <2> QED BY <2>1, <2>2, TasksPrecede
  <1>7. Precedes(plan, "lock", "disable") /\ Precedes(plan, "disable", "unlock")
    BY <1>1, <1>2, <1>6, EndPrecedes
  <1>8. \A k, l \in DOMAIN plan : plan[k].id = "unlock" /\ k <= l => plan[l].stage \notin {"prepare", "build"}
    BY DEF Composed, EndsWithUnlock
  <1>9. Has(plan, {"lock"})
    BY <1>3, <1>4 DEF Has
  <1>10. \A id \in {"enable", "migrate", "activate", "disable"} :
           Precedes(plan, "lock", id) /\ Precedes(plan, id, "unlock")
    BY <1>6, <1>7
  <1> QED BY <1>1, <1>4, <1>5, <1>8, <1>9, <1>10 DEF LockedPlan, Unique

-----------------------------------------------------------------------------
\* What is left of a plan from a position on, without some of its steps.
LEMMA ExcludedIs ==
  ASSUME NEW plan, Listed(plan), NEW a \in 1 .. Len(plan), NEW drop
  PROVE  LET tail == Excluding(SubSeq(plan, a, Len(plan)), drop)
         IN  /\ IsSequence(tail)
             /\ \A k \in DOMAIN tail :
                  \E j \in a .. Len(plan) : tail[k] = plan[j] /\ plan[j].id \notin drop /\ (k # 1 => j # a)
             /\ plan[a].id \notin drop => Len(tail) >= 1 /\ tail[1] = plan[a]
  <1> DEFINE n == Len(plan)
  <1> DEFINE f == SubSeq(plan, a, n)
  <1> DEFINE at == {i \in DOMAIN f : f[i].id \notin drop}
  <1> DEFINE tail == Selected(f, at)
  <1> DEFINE c == Cardinality(at)
  <1>1. n \in Nat /\ a \in Int /\ 1 <= a /\ a <= n
    BY ListedIs DEF IsSequence
  <1>2. /\ Listed(f) /\ Len(f) = n - a + 1
        /\ \A i \in 1 .. n - a + 1 : f[i] = plan[a + i - 1]
    <2>1. a \in 1 .. Len(plan) + 1 /\ n \in a - 1 .. Len(plan)
      BY <1>1
    <2> QED BY <2>1, SubSeqIs
  <1> DEFINE m == n - a + 1
  <1>3. m \in Nat /\ DOMAIN f = 1 .. m
    BY <1>1, <1>2, ListedIs DEF IsSequence
  <1> HIDE DEF f
  <1>4. at \in SUBSET (1 .. m)
    BY <1>3
  <1>5. Excluding(f, drop) = tail
    BY DEF Excluding
  <1> HIDE DEF at
  <1>6. /\ c \in Nat /\ Listed(tail) /\ Len(tail) = c
        /\ \A k \in 1 .. c : tail[k] = f[Nth(at)[k]]
    BY <1>3, <1>4, SelectedIs
  <1>7. /\ \A k \in 1 .. c : Nth(at)[k] \in at
        /\ \A k, l \in 1 .. c : k < l => Nth(at)[k] < Nth(at)[l]
        /\ \A i \in at : \E k \in 1 .. c : Nth(at)[k] = i
    BY <1>3, <1>4, NthIs
  <1> HIDE DEF tail, c, m
  <1>8. DOMAIN tail = 1 .. c /\ IsSequence(tail)
    BY <1>6, ListedIs DEF IsSequence
  <1>9. ASSUME NEW k \in DOMAIN tail
        PROVE  \E j \in a .. n : tail[k] = plan[j] /\ plan[j].id \notin drop /\ (k # 1 => j # a)
    <2> DEFINE i == Nth(at)[k]
    <2>1. i \in at /\ i \in 1 .. m /\ tail[k] = f[i] /\ f[i].id \notin drop /\ f[i] = plan[a + i - 1]
      BY <1>2, <1>4, <1>6, <1>7, <1>8 DEF at, m
    <2>2. k # 1 => i # 1
      <3>1. ASSUME k # 1
            PROVE  Nth(at)[1] < i /\ Nth(at)[1] \in 1 .. m
        <4>1. 1 \in 1 .. c /\ 1 < k /\ k \in 1 .. c
          BY <1>6, <1>8, <3>1
        <4> QED BY <1>4, <1>7, <4>1
      <3> QED BY <2>1, <3>1
    <2> HIDE DEF i
    <2>3. a + i - 1 \in a .. n /\ (k # 1 => a + i - 1 # a)
      BY <1>1, <2>1, <2>2 DEF m
    <2> QED BY <2>1, <2>3
  <1>10. ASSUME plan[a].id \notin drop
         PROVE  Len(tail) >= 1 /\ tail[1] = plan[a]
    <2>1. 1 \in 1 .. m /\ f[1] = plan[a]
      <3>1. 1 \in 1 .. n - a + 1 /\ a + 1 - 1 = a
        BY <1>1
      <3> QED BY <1>2, <3>1 DEF m
    <2>2. 1 \in at
      BY <1>3, <1>10, <2>1 DEF at, m
    <2>3. PICK k \in 1 .. c : Nth(at)[k] = 1
      BY <1>7, <2>2
    <2>4. 1 \in 1 .. c /\ Nth(at)[1] \in 1 .. m
      <3>1. 1 \in 1 .. c
        BY <1>6, <2>3
      <3> QED BY <1>4, <1>7, <3>1
    <2>5. ~(1 < k)
      <3>1. 1 < k => Nth(at)[1] < 1
        BY <1>7, <2>3, <2>4
      <3> QED BY <2>4, <3>1
    <2>6. k = 1
      BY <1>6, <2>3, <2>5
    <2> QED BY <1>6, <2>1, <2>3, <2>4, <2>6
  <1> QED BY <1>5, <1>8, <1>9, <1>10 DEF f

\* The more is excluded, the less is left.
LEMMA ExcludingLess ==
  ASSUME NEW plan, IsSequence(plan), NEW less, NEW more, less \subseteq more
  PROVE  Len(Excluding(plan, more)) <= Len(Excluding(plan, less))
  <1> DEFINE all == {i \in DOMAIN plan : plan[i].id \notin less}
  <1> DEFINE few == {i \in DOMAIN plan : plan[i].id \notin more}
  <1>1. /\ Len(plan) \in Nat /\ all \in SUBSET (1 .. Len(plan)) /\ few \in SUBSET (1 .. Len(plan))
        /\ few \in SUBSET all
    BY DEF IsSequence
  <1>2. Excluding(plan, less) = Selected(plan, all) /\ Excluding(plan, more) = Selected(plan, few)
    BY DEF Excluding
  <1> HIDE DEF all, few
  <1>3. Len(Selected(plan, all)) = Cardinality(all) /\ Len(Selected(plan, few)) = Cardinality(few)
    BY <1>1, SelectedIs
  <1>4. IsFiniteSet(all)
    BY <1>1, FS_Interval, FS_Subset, 1 \in Int, Len(plan) \in Int
  <1>5. Cardinality(few) <= Cardinality(all)
    BY <1>1, <1>4, FS_Subset
  <1> QED BY <1>2, <1>3, <1>5

\* What a rollback runs again of its plan in place, before a restore or without one.
TailSteps(plan, restore) ==
  Excluding(From(plan, "activate"),
            {"unlock", "cleanup"} \cup IF restore THEN {"verify"} ELSE {})

\* The activation comes first in it, and nothing from before the activation.
IsTail(plan, tail) ==
  LET a == IndexOf(plan, "activate")
  IN  /\ IsSequence(tail) /\ Len(tail) >= 1
      /\ a \in DOMAIN plan /\ plan[a].id = "activate" /\ tail[1] = plan[a]
      /\ \A k \in DOMAIN tail : \E j \in DOMAIN plan :
           /\ tail[k] = plan[j] /\ a <= j
           /\ plan[j].id # "unlock" /\ (k # 1 => plan[j].id # "activate")

\* A step of the tail is one of the plan's, from the activation on.
LEMMA TailStepsAre ==
  ASSUME NEW recipe, IsRecipe(recipe), NEW hooks, AreHooks(hooks), NEW plan,
         NEW moved, NEW gated, NEW skipped,
         Composed(recipe, hooks, plan, moved, gated, skipped), NEW restore \in BOOLEAN
  PROVE  /\ IsTail(plan, TailSteps(plan, restore))
         /\ Len(TailSteps(plan, TRUE)) <= Len(TailSteps(plan, FALSE))
  <1> DEFINE a == IndexOf(plan, "activate")
  <1> DEFINE drop == {"unlock", "cleanup"} \cup IF restore THEN {"verify"} ELSE {}
  <1> DEFINE tail == TailSteps(plan, restore)
  <1>1. Listed(plan) /\ IsSequence(plan) /\ DOMAIN plan = 1 .. Len(plan) /\ Len(plan) \in Nat
    BY ListedIs DEF Composed, IsSequence
  <1>2. "activate" \in TaskIds /\ "activate" \in recipe.declared
    BY TasksStand DEF IsRecipe
  <1>3. /\ a \in DOMAIN plan /\ plan[a].id = "activate"
        /\ \A k \in DOMAIN plan : plan[k].id = "activate" => k = a
    BY <1>2, IndexOfTask
  <1> HIDE DEF a
  <1>4. tail = Excluding(SubSeq(plan, a, Len(plan)), drop)
    BY DEF TailSteps, From, a
  <1>5. "activate" \notin drop /\ "unlock" \in drop
    OBVIOUS
  <1> HIDE DEF drop, tail
  <1>6. a \in 1 .. Len(plan) /\ plan[a].id \notin drop
    BY <1>1, <1>3, <1>5
  <1>7. /\ IsSequence(tail) /\ Len(tail) >= 1 /\ tail[1] = plan[a]
        /\ \A k \in DOMAIN tail :
             \E j \in a .. Len(plan) : tail[k] = plan[j] /\ plan[j].id \notin drop /\ (k # 1 => j # a)
    BY <1>1, <1>4, <1>6, ExcludedIs
  <1>8. ASSUME NEW k \in DOMAIN tail
        PROVE  \E j \in DOMAIN plan :
                 /\ tail[k] = plan[j] /\ a <= j
                 /\ plan[j].id # "unlock" /\ (k # 1 => plan[j].id # "activate")
    <2>1. PICK j \in a .. Len(plan) : tail[k] = plan[j] /\ plan[j].id \notin drop /\ (k # 1 => j # a)
      BY <1>7
    <2>2. j \in DOMAIN plan /\ a <= j
      BY <1>1, <1>6, <2>1
    <2> QED BY <1>3, <1>5, <2>1, <2>2
  <1>9. Len(TailSteps(plan, TRUE)) <= Len(TailSteps(plan, FALSE))
    <2> DEFINE rest == From(plan, "activate")
    <2>1. IsSequence(rest)
      <3>1. a \in 1 .. Len(plan) + 1 /\ Len(plan) \in a - 1 .. Len(plan)
        BY <1>1, <1>6
      <3>2. rest = SubSeq(plan, a, Len(plan))
        BY DEF From, a
      <3> QED BY <1>1, <3>1, <3>2, SubSeqIs, ListedIs
    <2> HIDE DEF rest
    <2>2. TailSteps(plan, TRUE) = Excluding(rest, {"unlock", "cleanup", "verify"})
      <3>1. {"unlock", "cleanup"} \cup (IF TRUE THEN {"verify"} ELSE {}) = {"unlock", "cleanup", "verify"}
        OBVIOUS
      <3> QED BY <3>1 DEF TailSteps, rest
    <2>3. TailSteps(plan, FALSE) = Excluding(rest, {"unlock", "cleanup"})
      <3>1. {"unlock", "cleanup"} \cup (IF FALSE THEN {"verify"} ELSE {}) = {"unlock", "cleanup"}
        OBVIOUS
      <3> QED BY <3>1 DEF TailSteps, rest
    <2> QED BY <2>1, <2>2, <2>3, ExcludingLess
  <1> QED BY <1>3, <1>7, <1>8, <1>9 DEF IsTail, a, tail

\* The tails of a composed plan take no lock and release none.
LEMMA ComposedHasTail ==
  ASSUME NEW recipe, IsRecipe(recipe), NEW hooks, AreHooks(hooks), NEW plan,
         NEW moved, NEW gated, NEW skipped,
         Composed(recipe, hooks, plan, moved, gated, skipped), moved \subseteq {"artifact", "disable"},
         NEW tail, \A b \in BOOLEAN : tail[b] = TailSteps(plan, b)
  PROVE  TailPlan(tail)
  <1> DEFINE a == IndexOf(plan, "activate")
  <1>1. Len(tail[TRUE]) <= Len(tail[FALSE])
    BY TailStepsAre
  <1>8. \A b \in BOOLEAN : IsTail(plan, TailSteps(plan, b))
    BY TailStepsAre
  <1>9. \A b \in BOOLEAN : IsTail(plan, tail[b])
    BY <1>8
  <1>2. \A b \in BOOLEAN : IsSequence(tail[b])
    BY <1>9 DEF IsTail
  <1>3. a \in DOMAIN plan /\ plan[a].id = "activate"
    BY <1>8 DEF IsTail
  <1>4. Precedes(plan, "lock", "activate")
    <2>1. "lock" \in TaskIds /\ "activate" \in TaskIds /\ TaskAt("lock") < TaskAt("activate")
      BY TasksStand
    <2>2. "lock" \notin moved /\ "activate" \notin moved
      OBVIOUS
    <2> QED BY <2>1, <2>2, TasksPrecede
  <1>5. DOMAIN plan \subseteq Int
    BY ListedIs DEF Composed, IsSequence
  <1>6. ASSUME NEW b \in BOOLEAN, NEW k \in DOMAIN tail[b]
        PROVE  tail[b][k].id # "lock" /\ tail[b][k].id # "unlock"
    <2>1. PICK j \in DOMAIN plan : tail[b][k] = plan[j] /\ a <= j /\ plan[j].id # "unlock"
      BY <1>9 DEF IsTail
    <2> HIDE DEF a
    <2>2. plan[j].id = "lock" => j < a
      BY <1>3, <1>4 DEF Precedes
    <2> QED BY <1>3, <1>5, <2>1, <2>2
  <1>7. \A b \in BOOLEAN : {"lock", "unlock"} \cap Ids(tail[b]) = {}
    BY <1>6 DEF Ids
  <1> QED BY <1>1, <1>2, <1>7 DEF TailPlan

\* In place they begin with the activation.
LEMMA ComposedActivatesFirst ==
  ASSUME NEW recipe, IsRecipe(recipe), HasWindow(recipe), NEW hooks, AreHooks(hooks), NEW plan,
         NEW gated, gated \subseteq recipe.gated,
         Composed(recipe, hooks, plan, {}, gated, {}),
         NEW tail, \A b \in BOOLEAN : tail[b] = TailSteps(plan, b)
  PROVE  ActivatesFirst(tail) /\ Runs(plan, "enable")
  <1> DEFINE a == IndexOf(plan, "activate")
  <1>9. \A b \in BOOLEAN : IsTail(plan, TailSteps(plan, b))
    BY TailStepsAre
  <1>10. \A b \in BOOLEAN : IsTail(plan, tail[b])
    BY <1>9
  <1>1. a \in DOMAIN plan /\ plan[a].id = "activate"
    BY <1>9 DEF IsTail
  <1>2. "activate" \in TaskIds /\ "enable" \in TaskIds /\ TaskAt("enable") < TaskAt("activate")
    BY TasksStand
  <1>3. Precedes(plan, "enable", "activate")
    BY <1>2, TasksPrecede
  <1>4. Implemented(plan[a]) /\ ~plan[a].gated
    <2>1. IsTaskStep(recipe, plan[a], gated, {})
      BY <1>1, <1>2, StepOfTask
    <2> HIDE DEF a
    <2> QED BY <1>1, <2>1 DEF IsTaskStep, HasWindow, Implemented
  <1>5. DOMAIN plan \subseteq Int
    BY ListedIs DEF Composed, IsSequence
  <1>6. ASSUME NEW b \in BOOLEAN
        PROVE  /\ Len(tail[b]) >= 1 /\ tail[b][1].id = "activate"
               /\ Implemented(tail[b][1]) /\ ~tail[b][1].gated
    <2>1. Len(tail[b]) >= 1 /\ tail[b][1] = plan[a]
      BY <1>10 DEF IsTail
    <2> HIDE DEF a
    <2> QED BY <1>1, <1>4, <2>1
  <1>7. ASSUME NEW b \in BOOLEAN, NEW k \in DOMAIN tail[b],
               tail[b][k].id \in {"activate", "enable", "restore"}
        PROVE  k = 1
    <2>1. PICK j \in DOMAIN plan :
            /\ tail[b][k] = plan[j] /\ a <= j /\ (k # 1 => plan[j].id # "activate")
      BY <1>7, <1>10 DEF IsTail
    <2>2. plan[j].id # "restore"
      BY StepOfTask
    <2> HIDE DEF a
    <2>3. plan[j].id = "enable" => j < a
      BY <1>1, <1>3 DEF Precedes
    <2> QED BY <1>1, <1>5, <1>7, <2>1, <2>2, <2>3
  <1>8. Runs(plan, "enable")
    <2>1. "enable" \in recipe.declared \cap recipe.implemented
      BY DEF HasWindow
    <2>2. "enable" \in Ids(plan)
      BY <2>1 DEF Composed
    <2>3. PICK k \in DOMAIN plan : plan[k].id = "enable"
      BY <2>2 DEF Ids
    <2>4. ~plan[k].hook /\ IsTaskStep(recipe, plan[k], gated, {})
      BY <1>2, <2>3, StepOfTask
    <2> QED BY <2>1, <2>3, <2>4 DEF IsTaskStep, Runs, Implemented
  <1> QED BY <1>6, <1>7, <1>8 DEF ActivatesFirst

\* The tasks a recipe with a window may gate come from the window's start on.
LEMMA GatedStand ==
  ASSUME NEW id \in {"enable", "pause", "configure", "migrate", "resume", "disable"}
  PROVE  id \in TaskIds /\ TaskAt(id) >= TaskAt("enable") /\ (id # "enable" => TaskAt("enable") < TaskAt(id))
  <1>1. /\ TaskOrder[13] = "enable" /\ TaskOrder[14] = "pause" /\ TaskOrder[16] = "configure"
        /\ TaskOrder[17] = "migrate" /\ TaskOrder[20] = "resume" /\ TaskOrder[21] = "disable"
    BY DEF TaskOrder
  <1>2. /\ TaskAt(TaskOrder[13]) = 13 /\ TaskAt(TaskOrder[14]) = 14 /\ TaskAt(TaskOrder[16]) = 16
        /\ TaskAt(TaskOrder[17]) = 17 /\ TaskAt(TaskOrder[20]) = 20 /\ TaskAt(TaskOrder[21]) = 21
        /\ TaskOrder[13] \in TaskIds /\ TaskOrder[14] \in TaskIds /\ TaskOrder[16] \in TaskIds
        /\ TaskOrder[17] \in TaskIds /\ TaskOrder[20] \in TaskIds /\ TaskOrder[21] \in TaskIds
    BY TaskAtOrder
  <1> QED BY <1>1, <1>2

\* The window of a plan, which the end of was moved or not.
LEMMA ComposedHasWindow ==
  ASSUME NEW recipe, IsRecipe(recipe), HasWindow(recipe), NEW hooks, AreHooks(hooks), NEW plan,
         NEW moved, NEW gated, NEW skipped, NEW symlink \in BOOLEAN,
         Composed(recipe, hooks, plan, moved, gated, skipped),
         moved \subseteq {"artifact", "disable"}, skipped \subseteq SkippedByModes,
         symlink => EndsBefore(plan) /\ gated = recipe.gated,
         ~symlink => "disable" \notin moved /\ gated = recipe.gated \ WindowTasks
  PROVE  WindowPlan(plan, symlink)
  <1> DEFINE window == {"release", "enable", "migrate", "activate", "disable"}
  <1>1. IsSequence(plan) /\ Unique(plan) /\ recipe.declared \subseteq Ids(plan)
    BY ListedIs DEF Composed
  <1>2. window \subseteq recipe.declared /\ window \subseteq recipe.implemented
    BY DEF HasWindow
  <1>3. window \subseteq TaskIds
    BY TasksStand
  <1>4. \A id \in window : id \notin SkippedByModes
    BY DEF SkippedByModes, ArtifactReplacedBuildTasks
  <1> HIDE DEF window
  <1>5. ASSUME NEW id \in window
        PROVE  \E k \in DOMAIN plan : plan[k].id = id /\ Implemented(plan[k])
    <2>1. PICK k \in DOMAIN plan : plan[k].id = id
      BY <1>1, <1>2 DEF Ids
    <2>2. IsTaskStep(recipe, plan[k], gated, skipped)
      BY <1>3, <2>1, StepOfTask
    <2> QED BY <1>2, <1>4, <2>1, <2>2 DEF IsTaskStep, Implemented
  <1>6. Has(plan, window)
    BY <1>5 DEF Has
  <1>7. /\ Precedes(plan, "release", "enable") /\ Precedes(plan, "enable", "migrate")
        /\ Precedes(plan, "migrate", "activate") /\ Precedes(plan, "enable", "activate")
        /\ "disable" \notin moved => Precedes(plan, "activate", "disable")
    <2>1. /\ "release" \in TaskIds /\ "enable" \in TaskIds /\ "migrate" \in TaskIds
          /\ "activate" \in TaskIds /\ "disable" \in TaskIds
          /\ TaskAt("release") < TaskAt("enable") /\ TaskAt("enable") < TaskAt("migrate")
          /\ TaskAt("migrate") < TaskAt("activate") /\ TaskAt("enable") < TaskAt("activate")
          /\ TaskAt("activate") < TaskAt("disable")
      BY TasksStand
    <2>2. /\ "release" \notin moved /\ "enable" \notin moved /\ "migrate" \notin moved
          /\ "activate" \notin moved
      OBVIOUS
    <2> QED BY <2>1, <2>2, TasksPrecede
  <1>8. "activate" \in Ids(plan)
    BY <1>1, <1>2 DEF window
  <1>9. symlink => /\ Precedes(plan, "migrate", "disable") /\ Precedes(plan, "disable", "activate")
                   /\ Precedes(plan, "enable", "disable")
    BY <1>1, <1>7, <1>8, EndPrecedes
  <1>10. gated \subseteq {"enable", "pause", "configure", "migrate", "resume", "disable"}
    BY DEF HasWindow
  <1>11. Precedes(plan, "enable", "disable")
    <2>1. "disable" \notin moved => Precedes(plan, "enable", "disable")
      BY <1>3, TasksStand, TasksPrecede DEF window
    <2> QED BY <1>9, <2>1
  <1>12. ASSUME NEW k \in DOMAIN plan
         PROVE  /\ "gated" \in DOMAIN plan[k]
                /\ plan[k].gated <=> ~plan[k].hook /\ plan[k].id \in gated
                /\ plan[k].stage = "publish" => plan[k].id \notin {"check", "lock", "unlock", "shared"}
    <2>1. CASE plan[k].hook
      <3>1. IsHookStep(hooks, plan[k]) /\ plan[k].id \notin TaskIds
        BY <2>1, StepOfTask
      <3>2. {"check", "lock", "unlock", "shared"} \subseteq TaskIds
        BY TasksStand
      <3> QED BY <2>1, <3>1, <3>2 DEF IsHookStep, Fields
    <2>2. CASE ~plan[k].hook
      <3>1. IsTaskStep(recipe, plan[k], gated, skipped)
        BY <2>2, StepOfTask
      <3> QED BY <2>2, <3>1, StagesAre DEF IsTaskStep, Fields
    <2> QED BY <2>1, <2>2
  <1>13. ASSUME NEW k \in DOMAIN plan, NEW l \in DOMAIN plan, plan[k].gated, plan[l].id = "enable"
         PROVE  l <= k
    <2>1. plan[k].id \in {"enable", "pause", "configure", "migrate", "resume", "disable"}
      BY <1>10, <1>12, <1>13
    <2>2. DOMAIN plan \subseteq Int
      BY <1>1 DEF IsSequence
    <2>3. CASE plan[k].id = "enable"
      BY <1>1, <1>13, <2>2, <2>3 DEF Unique
    <2>4. CASE plan[k].id = "disable"
      BY <1>11, <1>13, <2>2, <2>4 DEF Precedes
    <2>5. CASE plan[k].id \notin {"enable", "disable"}
      <3>1. /\ plan[k].id \in TaskIds /\ TaskAt("enable") < TaskAt(plan[k].id)
            /\ plan[k].id \notin moved
        BY <2>1, <2>5, GatedStand
      <3>2. "enable" \in TaskIds /\ "enable" \notin moved
        BY TasksStand
      <3>3. Precedes(plan, "enable", plan[k].id)
        BY <3>1, <3>2, TasksPrecede
      <3> QED BY <1>13, <2>2, <3>3 DEF Precedes
    <2> QED BY <2>3, <2>4, <2>5
  <1>14. ASSUME NEW k \in DOMAIN plan, plan[k].id \in window
         PROVE  plan[k].gated <=> plan[k].id \in gated
    BY <1>3, <1>12, <1>14, StepOfTask
  <1>15. /\ "disable" \in gated <=> "enable" \in gated
         /\ symlink /\ "migrate" \in gated => "enable" \in gated
         /\ "release" \notin gated /\ "activate" \notin gated
    BY <1>10 DEF HasWindow, WindowTasks
  <1>16. \A k, l \in DOMAIN plan :
           /\ plan[k].gated => plan[k].id \notin {"release", "activate"}
           /\ plan[k].id = "enable" /\ plan[l].id = "disable" => (plan[k].gated <=> plan[l].gated)
           /\ symlink /\ plan[k].id = "enable" /\ plan[l].id = "migrate"
                => (plan[l].gated => plan[k].gated)
    BY <1>14, <1>15 DEF window
  <1>17. IF symlink THEN Precedes(plan, "migrate", "disable") /\ Precedes(plan, "disable", "activate")
                    ELSE Precedes(plan, "activate", "disable")
    BY <1>7, <1>9
  <1>18. \A k, l \in DOMAIN plan :
           /\ "gated" \in DOMAIN plan[k]
           /\ plan[k].gated /\ plan[l].id = "enable" => l <= k
           /\ plan[k].stage = "publish" => plan[k].id \notin {"check", "lock", "unlock", "shared"}
    BY <1>12, <1>13
  <1> QED BY <1>6, <1>7, <1>16, <1>17, <1>18 DEF WindowPlan, window

-----------------------------------------------------------------------------
\* A plan in which nothing stands twice is as long as there are ids in it.
LEMMA UniqueIsAsLong ==
  ASSUME NEW plan, IsSequence(plan), Unique(plan)
  PROVE  Len(plan) = Cardinality(Ids(plan))
  <1> DEFINE n == Len(plan)
  <1> DEFINE f == [k \in 1 .. n |-> plan[k].id]
  <1>1. n \in Nat /\ DOMAIN plan = 1 .. n
    BY DEF IsSequence
  <1>2. \A k \in 1 .. n : f[k] = plan[k].id /\ f[k] \in Ids(plan)
    BY <1>1 DEF Ids
  <1>3. \A id \in Ids(plan) : \E k \in 1 .. n : f[k] = id
    BY <1>1 DEF Ids
  <1>4. \A j, k \in 1 .. n : f[j] = f[k] => j = k
    BY <1>1, <1>2 DEF Unique
  <1>5. f \in [1 .. n -> Ids(plan)]
    BY <1>2
  <1> HIDE DEF f
  <1>6. f \in Bijection(1 .. n, Ids(plan))
    BY <1>3, <1>4, <1>5 DEF Bijection, Injection, Surjection, IsInjective
  <1>7. ExistsBijection(1 .. n, Ids(plan))
    BY <1>6 DEF ExistsBijection
  <1>8. IsFiniteSet(1 .. n) /\ Cardinality(1 .. n) = n
    <2> HIDE DEF n
    <2>1. Cardinality(1 .. n) = IF 1 > n THEN 0 ELSE n - 1 + 1
      BY <1>1, FS_Interval, 1 \in Int, n \in Int
    <2> QED BY <1>1, <2>1, FS_Interval, 1 \in Int, n \in Int
  <1> QED BY <1>7, <1>8, FS_Bijection

\* Hooks that come one after the other are looked up one after the other.
LEMMA SiblingsAreFound ==
  ASSUME NEW plan, IsSequence(plan), Unique(plan), NEW hooks, Siblings(hooks, plan),
         NEW i \in DOMAIN hooks, NEW j \in DOMAIN hooks, GoesFirst(hooks, i, j),
         hooks[i].name \in Ids(plan), hooks[j].name \in Ids(plan)
  PROVE  IndexOf(plan, hooks[i].name) < IndexOf(plan, hooks[j].name)
  <1> DEFINE k == IndexOf(plan, hooks[i].name)
  <1> DEFINE l == IndexOf(plan, hooks[j].name)
  <1>1. k \in DOMAIN plan /\ plan[k].id = hooks[i].name
    BY IndexOfIs DEF IsSequence
  <1>2. l \in DOMAIN plan /\ plan[l].id = hooks[j].name
    BY IndexOfIs DEF IsSequence
  <1> HIDE DEF k, l
  <1>3. k < l
    BY <1>1, <1>2 DEF Siblings
  <1> QED BY <1>3 DEF k, l

-----------------------------------------------------------------------------
(* The plans of a project. *)

MovedByBoth(mode, strategy) ==
  MovedByMode(mode) \cup (IF strategy = "symlink" THEN {"disable"} ELSE {})

\* The composed plan, before it is shaped.
LEMMA BuildPlanShapes ==
  ASSUME NEW recipe, IsRecipe(recipe), NEW hooks, AreHooks(hooks), Buildable(recipe, hooks)
  PROVE  Shapes(recipe, hooks, BuildPlan(recipe, hooks), {}, recipe.gated, {})
  BY BuildPlanIs DEF Shapes, Partial, Built

\* Which case the strategy of a plan is.
LEMMA StrategyCases ==
  ASSUME NEW plan, NEW strategy
  PROVE  strategy # "symlink" \/ NeedsNoWindow(plan, strategy) \/ Closes(plan, strategy)
  BY DEF NeedsNoWindow, Closes

\* A plan that migrates needs the window.
LEMMA WindowIsNeeded ==
  ASSUME NEW recipe, IsRecipe(recipe), HasWindow(recipe), NEW hooks, AreHooks(hooks), NEW plan,
         NEW moved, NEW gated, NEW skipped,
         Composed(recipe, hooks, plan, moved, gated, skipped), skipped \subseteq SkippedByModes,
         NEW strategy
  PROVE  ~NeedsNoWindow(plan, strategy)
  <1>1. "migrate" \in recipe.declared \cap recipe.implemented /\ "migrate" \notin SkippedByModes
    BY DEF HasWindow, SkippedByModes, ArtifactReplacedBuildTasks
  <1>2. PICK k \in DOMAIN plan : plan[k].id = "migrate"
    BY <1>1 DEF Composed, Ids
  <1>3. "migrate" \in TaskIds
    BY TasksStand
  <1>4. ~plan[k].hook /\ IsTaskStep(recipe, plan[k], gated, skipped)
    BY <1>2, <1>3, StepOfTask
  <1>5. Runs(plan, "migrate")
    BY <1>1, <1>2, <1>4 DEF IsTaskStep, Runs, Implemented
  <1> QED BY <1>5 DEF NeedsNoWindow, NeedsMaintenanceWindow

\* The plan of a deploy, shaped for the mode and then for the strategy.
LEMMA DeployPlanIs ==
  ASSUME NEW recipe, IsRecipe(recipe), NEW hooks, AreHooks(hooks), Buildable(recipe, hooks),
         NEW mode, NEW strategy
  PROVE  LET plan == ForPublishStrategy(ForBuildMode(BuildPlan(recipe, hooks), mode), strategy)
         IN  \E moved, gated, skipped :
               /\ Shapes(recipe, hooks, plan, moved, gated, skipped)
               /\ moved \subseteq MovedByBoth(mode, strategy) /\ gated \subseteq recipe.gated
               /\ skipped \subseteq SkippedByModes \cup WindowTasks
               /\ "disable" \in moved => EndsBefore(plan)
               /\ HasWindow(recipe) => skipped \subseteq SkippedByModes
               /\ HasWindow(recipe) /\ strategy = "symlink" => EndsBefore(plan) /\ gated = recipe.gated
               /\ strategy # "symlink" => "disable" \notin moved /\ gated = recipe.gated \ WindowTasks
  <1> DEFINE before == ForBuildMode(BuildPlan(recipe, hooks), mode)
  <1> DEFINE plan == ForPublishStrategy(before, strategy)
  <1> DEFINE first == MovedByMode(mode)
  <1>1. Shapes(recipe, hooks, before, first, recipe.gated, SkippedByModes)
    BY BuildPlanShapes, ModeIs
  <1>2. first \subseteq {"artifact"}
    BY DEF MovedByMode
  <1>9. MovedByBoth(mode, strategy) = first \cup (IF strategy = "symlink" THEN {"disable"} ELSE {})
    BY DEF MovedByBoth
  <1> HIDE DEF before, first, plan
  <1>3. /\ strategy # "symlink" =>
             Shapes(recipe, hooks, plan, first, recipe.gated \ WindowTasks, SkippedByModes)
        /\ NeedsNoWindow(before, strategy) =>
             Shapes(recipe, hooks, plan, first, recipe.gated, SkippedByModes \cup WindowTasks)
        /\ Closes(before, strategy) =>
             /\ Shapes(recipe, hooks, plan, first \cup {"disable"}, recipe.gated, SkippedByModes)
             /\ EndsBefore(plan)
    BY <1>1, <1>2, StrategyIs DEF plan
  <1>4. Composed(recipe, hooks, before, first, recipe.gated, SkippedByModes)
    BY <1>1 DEF Shapes
  <1>5. HasWindow(recipe) => ~NeedsNoWindow(before, strategy)
    BY <1>4, WindowIsNeeded
  <1>6. CASE strategy # "symlink"
    <2>1. Shapes(recipe, hooks, plan, first, recipe.gated \ WindowTasks, SkippedByModes)
      BY <1>3, <1>6
    <2> QED BY <1>2, <1>6, <1>9, <2>1 DEF plan, before
  <1>7. CASE NeedsNoWindow(before, strategy)
    <2>1. Shapes(recipe, hooks, plan, first, recipe.gated, SkippedByModes \cup WindowTasks)
      BY <1>3, <1>7
    <2>2. strategy = "symlink" /\ ~HasWindow(recipe)
      BY <1>5, <1>7 DEF NeedsNoWindow
    <2> QED BY <1>2, <1>9, <2>1, <2>2 DEF plan, before
  <1>8. CASE Closes(before, strategy)
    <2>1. Shapes(recipe, hooks, plan, first \cup {"disable"}, recipe.gated, SkippedByModes) /\ EndsBefore(plan)
      BY <1>3, <1>8
    <2>2. strategy = "symlink"
      BY <1>8 DEF Closes
    <2> QED BY <1>2, <1>9, <2>1, <2>2 DEF plan, before
  <1> QED BY <1>6, <1>7, <1>8, StrategyCases

\* What the proofs about a deploy use of its plan.
LEMMA DeployPlanFits ==
  ASSUME NEW recipe, IsRecipe(recipe), NEW hooks, AreHooks(hooks), Buildable(recipe, hooks),
         NEW mode, NEW strategy
  PROVE  LET plan == ForPublishStrategy(ForBuildMode(BuildPlan(recipe, hooks), mode), strategy)
         IN  /\ LockedPlan(plan)
             /\ HasWindow(recipe) => WindowPlan(plan, strategy = "symlink")
             /\ Precedes(plan, "migrate", "activate")
             /\ "migrate" \in recipe.declared \cap recipe.implemented => Has(plan, {"migrate"})
             /\ Ids(plan) = recipe.declared \cup {hooks[h].name : h \in DOMAIN hooks}
             /\ Len(plan) = Cardinality(Ids(plan))
             /\ \A k \in DOMAIN plan : ~plan[k].hook => plan[k].id \in TaskIds
             /\ TasksInOrder(plan, MovedByBoth(mode, strategy))
             /\ NoneCutsIn(hooks) => Siblings(hooks, plan)
  <1> DEFINE plan == ForPublishStrategy(ForBuildMode(BuildPlan(recipe, hooks), mode), strategy)
  <1> DEFINE symlink == strategy = "symlink"
  <1>1. PICK moved, gated, skipped :
          /\ Shapes(recipe, hooks, plan, moved, gated, skipped)
          /\ moved \subseteq MovedByBoth(mode, strategy) /\ gated \subseteq recipe.gated
          /\ skipped \subseteq SkippedByModes \cup WindowTasks
          /\ "disable" \in moved => EndsBefore(plan)
          /\ HasWindow(recipe) => skipped \subseteq SkippedByModes
          /\ HasWindow(recipe) /\ strategy = "symlink" => EndsBefore(plan) /\ gated = recipe.gated
          /\ strategy # "symlink" => "disable" \notin moved /\ gated = recipe.gated \ WindowTasks
    BY DeployPlanIs
  <1> HIDE DEF plan
  <1>2. Composed(recipe, hooks, plan, moved, gated, skipped)
    BY <1>1 DEF Shapes
  <1>3. moved \subseteq {"artifact", "disable"}
    BY <1>1 DEF MovedByBoth, MovedByMode
  <1>4. "lock" \notin skipped /\ "migrate" \notin skipped
    BY <1>1 DEF SkippedByModes, ArtifactReplacedBuildTasks, WindowTasks
  <1>5. LockedPlan(plan)
    BY <1>1, <1>2, <1>3, <1>4, ComposedIsLocked
  <1>6. HasWindow(recipe) => WindowPlan(plan, symlink)
    <2>1. symlink \in BOOLEAN /\ (symlink <=> strategy = "symlink")
      OBVIOUS
    <2> HIDE DEF symlink
    <2> QED BY <1>1, <1>2, <1>3, <2>1, ComposedHasWindow
  <1>7. Precedes(plan, "migrate", "activate")
    <2>1. /\ "migrate" \in TaskIds /\ "activate" \in TaskIds /\ TaskAt("migrate") < TaskAt("activate")
          /\ "migrate" \notin moved /\ "activate" \notin moved
      BY <1>3, TasksStand
    <2> QED BY <1>2, <2>1, TasksPrecede
  <1>8. "migrate" \in recipe.declared \cap recipe.implemented => Has(plan, {"migrate"})
    <2> SUFFICES ASSUME "migrate" \in recipe.declared \cap recipe.implemented
                 PROVE  \E k \in DOMAIN plan : plan[k].id = "migrate" /\ Implemented(plan[k])
      BY DEF Has
    <2>1. PICK k \in DOMAIN plan : plan[k].id = "migrate"
      BY <1>2 DEF Composed, Ids
    <2>2. IsTaskStep(recipe, plan[k], gated, skipped)
      BY <1>2, <2>1, TasksStand, StepOfTask
    <2> QED BY <1>4, <2>1, <2>2 DEF IsTaskStep, Implemented
  <1>9. IsSequence(plan) /\ Unique(plan)
    BY <1>2, ListedIs DEF Composed
  <1>10. Len(plan) = Cardinality(Ids(plan))
    BY <1>9, UniqueIsAsLong
  <1>11. \A k \in DOMAIN plan : ~plan[k].hook => plan[k].id \in TaskIds
    BY <1>2, StepOfTask
  <1>12. TasksInOrder(plan, MovedByBoth(mode, strategy))
    BY <1>1, <1>2 DEF Composed, TasksInOrder
  <1> QED BY <1>1, <1>5, <1>6, <1>7, <1>8, <1>10, <1>11, <1>12 DEF Shapes, plan

\* What they use of the tails of a rollback.
LEMMA RollbackPlanFits ==
  ASSUME NEW recipe, IsRecipe(recipe), NEW hooks, AreHooks(hooks), Buildable(recipe, hooks),
         NEW strategy, NEW tail,
         \A b \in BOOLEAN : tail[b] = TailSteps(ForPublishStrategy(BuildPlan(recipe, hooks), strategy), b)
  PROVE  /\ TailPlan(tail)
         /\ HasWindow(recipe) /\ strategy # "symlink" =>
              ActivatesFirst(tail) /\ Runs(ForPublishStrategy(BuildPlan(recipe, hooks), strategy), "enable")
  <1> DEFINE before == BuildPlan(recipe, hooks)
  <1> DEFINE plan == ForPublishStrategy(before, strategy)
  <1> DEFINE none == {}
  <1>1. Shapes(recipe, hooks, before, none, recipe.gated, none) /\ none \subseteq {"artifact"}
    BY BuildPlanShapes
  <1>9. \A b \in BOOLEAN : tail[b] = TailSteps(plan, b)
    OBVIOUS
  <1> HIDE DEF before, none, plan
  <1>2. /\ strategy # "symlink" =>
             Shapes(recipe, hooks, plan, none, recipe.gated \ WindowTasks, none)
        /\ NeedsNoWindow(before, strategy) =>
             Shapes(recipe, hooks, plan, none, recipe.gated, none \cup WindowTasks)
        /\ Closes(before, strategy) =>
             Shapes(recipe, hooks, plan, none \cup {"disable"}, recipe.gated, none) /\ EndsBefore(plan)
    BY <1>1, StrategyIs DEF plan
  <1>3. TailPlan(tail)
    <2>1. PICK moved, gated, skipped :
            moved \subseteq {"artifact", "disable"} /\ Composed(recipe, hooks, plan, moved, gated, skipped)
      <3>1. none \subseteq {"artifact", "disable"} /\ none \cup {"disable"} \subseteq {"artifact", "disable"}
        BY DEF none
      <3> QED BY <1>2, <3>1, StrategyCases DEF Shapes
    <2> QED BY <1>9, <2>1, ComposedHasTail
  <1>4. ASSUME HasWindow(recipe), strategy # "symlink"
        PROVE  ActivatesFirst(tail) /\ Runs(plan, "enable")
    <2>1. Composed(recipe, hooks, plan, {}, recipe.gated \ WindowTasks, {})
      BY <1>2, <1>4 DEF Shapes, none
    <2> DEFINE gated == recipe.gated \ WindowTasks
    <2>2. Composed(recipe, hooks, plan, {}, gated, {}) /\ gated \subseteq recipe.gated
      BY <2>1
    <2> HIDE DEF gated
    <2> QED BY <1>4, <1>9, <2>2, ComposedActivatesFirst
  <1> QED BY <1>3, <1>4 DEF plan, before

\* What a project's plans are composed of.
LEMMA ShapedIs ==
  ASSUME NEW i \in DOMAIN Setups
  PROVE  /\ IsRecipe(Setups[i].recipe) /\ AreHooks(Setups[i].hooks)
         /\ Buildable(Setups[i].recipe, Setups[i].hooks)
         /\ Shaped[i].deploy
              = ForPublishStrategy(ForBuildMode(BuildPlan(Setups[i].recipe, Setups[i].hooks),
                                                Setups[i].mode), Setups[i].strategy)
         /\ Shaped[i].rollback
              = ForPublishStrategy(BuildPlan(Setups[i].recipe, Setups[i].hooks), Setups[i].strategy)
         /\ \A b \in BOOLEAN : Shaped[i].tail[b] = TailSteps(Shaped[i].rollback, b)
  BY PublishWindowAssumption, RecipesAssumption DEF Shaped, ShapedFor, TailsOf, TailSteps

\* Whatever the recipe and the hooks of a project are, the plan of a deploy takes
\* the lock before it changes the target and unlocks at the end, and what an
\* in-place rollback runs again of its plan does neither (BuildPlan, ForBuildMode,
\* ForPublishStrategy, From and Excluding).
THEOREM PlansAreLocked ==
  \A i \in DOMAIN Setups : LockedPlan(Shaped[i].deploy) /\ TailPlan(Shaped[i].tail)
  <1> TAKE i \in DOMAIN Setups
  <1>1. LockedPlan(Shaped[i].deploy)
    BY ShapedIs, DeployPlanFits
  <1>2. TailPlan(Shaped[i].tail)
    BY ShapedIs, RollbackPlanFits
  <1> QED BY <1>1, <1>2

\* A window around the migration, closed before the activation of a symlink, and
\* in place after that; then the tail of a rollback begins with the activation.
Windowed(i) ==
  LET inPlace == Setups[i].strategy # "symlink"
  IN  /\ WindowPlan(Shaped[i].deploy, ~inPlace)
      /\ inPlace => Runs(Shaped[i].rollback, "enable") /\ ActivatesFirst(Shaped[i].tail)

\* A recipe that has the tasks of the window gives every plan shaped of it a whole
\* window around its migration, whatever hooks are anchored in it: none of the
\* rewrites of ForBuildMode and ForPublishStrategy drops one end of it or moves
\* the migration out of it.
THEOREM WindowsAreWhole ==
  \A i \in DOMAIN Setups : HasWindow(Setups[i].recipe) => Windowed(i)
  <1> TAKE i \in DOMAIN Setups
  <1> SUFFICES ASSUME HasWindow(Setups[i].recipe)
               PROVE  Windowed(i)
    OBVIOUS
  <1>1. WindowPlan(Shaped[i].deploy, Setups[i].strategy = "symlink")
    BY ShapedIs, DeployPlanFits
  <1>2. Setups[i].strategy # "symlink" =>
          Runs(Shaped[i].rollback, "enable") /\ ActivatesFirst(Shaped[i].tail)
    BY ShapedIs, RollbackPlanFits
  <1>3. (Setups[i].strategy = "symlink") = (~(Setups[i].strategy # "symlink"))
    OBVIOUS
  <1> QED BY <1>1, <1>2, <1>3 DEF Windowed

\* In the plan of a deploy the migration comes before the activation.
LEMMA MigrationIsFirst ==
  ASSUME NEW i \in DOMAIN Setups
  PROVE  /\ Precedes(Shaped[i].deploy, "migrate", "activate")
         /\ "migrate" \in Setups[i].recipe.declared \cap Setups[i].recipe.implemented
              => Has(Shaped[i].deploy, {"migrate"})
  BY ShapedIs, DeployPlanFits

\* The tasks of a plan: each once, in their order.
LEMMA TasksAreInOrder ==
  ASSUME NEW i \in DOMAIN Setups
  PROVE  PlanIsInOrder[i]
  <1> DEFINE plan == Shaped[i].deploy
  <1> DEFINE s == Setups[i]
  <1>1. /\ Ids(plan) = s.recipe.declared \cup {s.hooks[h].name : h \in DOMAIN s.hooks}
        /\ Len(plan) = Cardinality(Ids(plan))
        /\ TasksInOrder(plan, MovedByBoth(s.mode, s.strategy))
    BY ShapedIs, DeployPlanFits
  <1>2. MovedByShaping(s) = MovedByBoth(s.mode, s.strategy)
    BY DEF MovedByShaping, MovedByBoth, MovedByMode
  <1> HIDE DEF plan
  <1>3. ASSUME NEW k \in DOMAIN plan, NEW l \in DOMAIN plan, k < l,
               ~plan[k].hook, plan[k].id \notin MovedByShaping(s),
               ~plan[l].hook, plan[l].id \notin MovedByShaping(s)
        PROVE  TaskAt(plan[k].id) < TaskAt(plan[l].id)
    BY <1>1, <1>2, <1>3 DEF TasksInOrder
  <1>4. \A k, l \in DOMAIN plan :
          /\ k < l /\ ~plan[k].hook /\ plan[k].id \notin MovedByShaping(s)
          /\ ~plan[l].hook /\ plan[l].id \notin MovedByShaping(s)
          => SelectInSeq(TaskOrder, LAMBDA t : t = plan[k].id)
               < SelectInSeq(TaskOrder, LAMBDA t : t = plan[l].id)
    BY <1>3 DEF TaskAt
  <1> QED BY <1>1, <1>4 DEF PlanIsInOrder, plan

\* The hooks after one task or one hook, where none cuts in.
LEMMA HooksStayInOrder ==
  ASSUME NEW s \in DOMAIN Setups, NoneCutsIn(Setups[s].hooks)
  PROVE  HooksAreInOrder[s]
  <1> DEFINE plan == Shaped[s].deploy
  <1> DEFINE hooks == Setups[s].hooks
  <1>1. /\ Siblings(hooks, plan) /\ LockedPlan(plan)
        /\ Ids(plan) = Setups[s].recipe.declared \cup {hooks[h].name : h \in DOMAIN hooks}
    BY ShapedIs, DeployPlanFits
  <1>2. IsSequence(plan) /\ Unique(plan)
    BY <1>1 DEF LockedPlan, Unique
  <1> HIDE DEF plan, hooks
  <1>3. ASSUME NEW i \in DOMAIN hooks, NEW j \in DOMAIN hooks,
               hooks[i].on = hooks[j].on, hooks[i].kind = hooks[j].kind, hooks[i].kind # "stage",
               hooks[i].position = "after", hooks[j].position = "after",
               \/ hooks[i].order < hooks[j].order
               \/ hooks[i].order = hooks[j].order /\ i < j /\ hooks[i].kind = "task"
        PROVE  IndexOf(plan, hooks[i].name) < IndexOf(plan, hooks[j].name)
    <2>1. GoesFirst(hooks, i, j)
      BY <1>3 DEF GoesFirst, StandsAfter
    <2>2. hooks[i].name \in Ids(plan) /\ hooks[j].name \in Ids(plan)
      BY <1>1
    <2> QED BY <1>1, <1>2, <2>1, <2>2, SiblingsAreFound
  <1> QED BY <1>3 DEF HooksAreInOrder, plan, hooks

-----------------------------------------------------------------------------
(* Types. *)

\* The steps of a rollback that are not a run of the executor's, and that run.
Queued == {"activate", "enable", "tail", "restore", "disable", "flush", "verify"}

CmdType ==
  [pc : {"resume", "head", "run", "write", "queue"}, num : 0 .. MaxRelease,
   idx : Nat \ {0}, mem : RecordType, carried : SUBSET Ids(Plan),
   passed : SUBSET Ids(Plan), probed : BOOLEAN, required : BOOLEAN,
   window : BOOLEAN, held : BOOLEAN, good : BOOLEAN, rollback : BOOLEAN,
   by : {"cli", "desktop"}, original : RecordType, queue : Seq(Queued)]

\* The index is into the plan that runs, the tail of a rollback for one.
CmdFits ==
  /\ cmd \in CmdType
  /\ cmd.idx <= Len(Steps) + 1
  /\ cmd.pc = "write" => cmd.idx <= Len(Steps)
  /\ cmd.rollback => lock = "ours"
  /\ cmd.pc = "queue" => cmd.rollback
  /\ cmd.num = 0 => NextNumber \in Number /\ ~cmd.rollback

TypeInv ==
  /\ setup \in DOMAIN Setups
  /\ served \in [Parts -> 0 .. MaxRelease]
  /\ flags \subseteq 0 .. MaxRelease
  /\ db \in {"current", "behind", "half"}
  /\ rec \in [Number -> RecordType]
  /\ lock \in {"free", "ours", "other"}
  /\ faults \in 0 .. Project.faults
  /\ cmd # Idle => CmdFits

LEMMA ShapeKept ==
  ASSUME setup' = setup
  PROVE  /\ Plan' = Plan /\ Project' = Project /\ Symlink' = Symlink
         /\ RecordType' = RecordType /\ CmdType' = CmdType /\ NewRecord' = NewRecord
  BY DEF Plan, Project, Symlink, RecordType, CmdType, NewRecord

LEMMA PlanIs ==
  ASSUME TypeInv
  PROVE  /\ LockedPlan(Plan) /\ IsSequence(Plan)
         /\ \A b \in BOOLEAN : IsSequence(Shaped[setup].tail[b])
         /\ Len(Shaped[setup].tail[TRUE]) <= Len(Shaped[setup].tail[FALSE])
         /\ TailPlan(Shaped[setup].tail)
  <1>1. setup \in DOMAIN Setups
    BY DEF TypeInv
  <1>2. LockedPlan(Plan) /\ TailPlan(Shaped[setup].tail)
    BY <1>1, PlansAreLocked DEF Plan
  <1>3. IsSequence(Plan)
    BY <1>2 DEF LockedPlan
  <1> QED BY <1>2, <1>3 DEF TailPlan

\* A steady project has a window.
LEMMA SteadyIsWindowed ==
  ASSUME TypeInv, Steady
  PROVE  Windowed(setup)
  BY WindowsAreWhole DEF Steady, Project, TypeInv

LEMMA StepsAre ==
  ASSUME TypeInv, cmd # Idle
  PROVE  IsSequence(Steps) /\ Len(Steps) \in Nat
  BY PlanIs DEF Steps, IsSequence

LEMMA StepsKept ==
  ASSUME setup' = setup, cmd'.rollback = cmd.rollback, cmd'.queue = cmd.queue
  PROVE  Steps' = Steps
  BY DEF Steps, Plan

LEMMA NewRecordTyped ==
  NewRecord \in RecordType /\ [NewRecord EXCEPT !.status = "running"] \in RecordType
  BY DEF NewRecord, RecordType, Outcome, Verdict

LEMMA RecordIs ==
  ASSUME cmd \in CmdType, NEW status \in Outcome
  PROVE  /\ Record(status) \in RecordType
         /\ Record(status).status = cmd.mem.status
         /\ Record(status).verdict = cmd.mem.verdict
         /\ Record(status).task = [cmd.mem.task EXCEPT ![Step.id] = status]
         /\ [Record(status) EXCEPT !.status = "failed"] \in RecordType
         /\ [Record(status) EXCEPT !.status = "failed"].status = "failed"
         /\ [Record(status) EXCEPT !.status = "failed"].verdict = cmd.mem.verdict
         /\ [Record(status) EXCEPT !.status = "failed"].task
              = [cmd.mem.task EXCEPT ![Step.id] = status]
  <1>1. cmd.mem \in RecordType
    BY DEF CmdType
  <1>2. [cmd.mem.task EXCEPT ![Step.id] = status] \in [Ids(Plan) -> Outcome]
    BY <1>1 DEF RecordType
  <1> QED BY <1>1, <1>2 DEF RecordType, Record

LEMMA FaultTyped ==
  ASSUME TypeInv, setup' = setup, NEW count \in Nat, Faulty(count)
  PROVE  faults' \in 0 .. Project.faults /\ faults' >= faults
  <1>1. Project.faults \in Nat
    BY PublishWindowAssumption DEF TypeInv, Project
  <1> QED BY <1>1 DEF TypeInv, Faulty

LEMMA StoreTyped ==
  ASSUME TypeInv, setup' = setup, NEW n \in 0 .. MaxRelease, NEW r \in RecordType,
         NEW cost \in Nat, StoreAfter(n, r, cost)
  PROVE  /\ rec' \in [Number -> RecordType]
         /\ faults' \in 0 .. Project.faults
         /\ rec' = rec \/ (n # 0 /\ rec' = [rec EXCEPT ![n] = r])
         /\ n = 0 => rec' = rec
         /\ n # 0 /\ ~Project.lossy => rec' = [rec EXCEPT ![n] = r]
  <1>1. PICK lost \in IF n = 0 THEN {0} ELSE Losses :
          /\ Faulty(cost + lost)
          /\ rec' = IF n = 0 \/ lost = 1 THEN rec ELSE [rec EXCEPT ![n] = r]
    BY DEF StoreAfter
  <1>2. lost \in {0, 1} /\ (n # 0 /\ ~Project.lossy => lost = 0)
    BY <1>1 DEF Losses
  <1>3. faults' \in 0 .. Project.faults
    <2>1. cost + lost \in Nat
      BY <1>2
    <2> QED BY <1>1, <2>1, FaultTyped
  <1>4. [rec EXCEPT ![n] = r] \in [Number -> RecordType]
    BY DEF TypeInv
  <1> QED BY <1>1, <1>2, <1>3, <1>4 DEF TypeInv

LEMMA NextNumberIs ==
  ASSUME TypeInv
  PROVE  /\ NextNumber \in Nat \ {0}
         /\ \A n \in Created : n < NextNumber
         /\ NextNumber \notin Created
  <1>1. MaxRelease \in Nat /\ Created \subseteq 1 .. MaxRelease
    BY PublishWindowAssumption DEF Created, Number
  <1>2. CASE Created = {}
    BY <1>2 DEF NextNumber
  <1>3. CASE Created # {}
    <2> DEFINE U == {u \in Nat : \A m \in Created : m <= u}
    <2>1. MaxRelease \in U
      BY <1>1
    <2>2. U \in SUBSET Nat /\ U # {}
      BY <2>1
    <2> HIDE DEF U
    <2>3. Min(U) \in U /\ \A y \in U : Min(U) <= y
      BY <2>2, LeastOf
    <2>4. Min(U) \in Nat /\ \A m \in Created : m <= Min(U)
      BY <2>3 DEF U
    <2>5. Min(U) # 0
      <3>1. PICK m \in Created : TRUE
        BY <1>3
      <3>2. m \in Nat /\ m >= 1 /\ m <= Min(U)
        BY <1>1, <2>4, <3>1
      <3> QED BY <2>4, <3>2
    <2>6. Min(U) - 1 \in Nat /\ Min(U) - 1 \notin U
      BY <2>3, <2>4, <2>5, <2>2
    <2>7. \E m \in Created : ~(m <= Min(U) - 1)
      BY <2>6 DEF U
    <2>8. Min(U) \in Created
      <3>1. PICK m \in Created : ~(m <= Min(U) - 1)
        BY <2>7
      <3>2. m = Min(U)
        BY <1>1, <2>4, <3>1
      <3> QED BY <3>1, <3>2
    <2>9. \E n \in Created : \A m \in Created : m <= n
      BY <2>4, <2>8
    <2>10. PICK n \in Created : (\A m \in Created : m <= n) /\ NextNumber = 1 + n
      BY <1>3, <2>9 DEF NextNumber
    <2> QED BY <1>1, <2>10
  <1> QED BY <1>2, <1>3

LEMMA QueueTyped ==
  ASSUME NEW by, NEW withDB
  PROVE  RollbackQueue(by, withDB) \in Seq(Queued)
  <1> DEFINE a == IF Symlink THEN <<"activate">> ELSE <<"enable", "tail">>
             b == IF withDB THEN <<"enable", "restore", "disable">> ELSE <<>>
             c == IF Symlink \/ withDB THEN <<"flush">> ELSE <<>>
             d == IF Symlink \/ by = "cli" THEN <<"verify">> ELSE <<>>
  <1>1. a \in Seq(Queued)
    <2>1. <<"activate">> \in Seq(Queued) /\ <<"enable", "tail">> \in Seq(Queued)
      BY DEF Queued
    <2> QED BY <2>1
  <1>2. b \in Seq(Queued)
    <2>1. <<"enable", "restore", "disable">> \in Seq(Queued) /\ <<>> \in Seq(Queued)
      BY DEF Queued
    <2> QED BY <2>1
  <1>3. c \in Seq(Queued)
    <2>1. <<"flush">> \in Seq(Queued) /\ <<>> \in Seq(Queued)
      BY DEF Queued
    <2> QED BY <2>1
  <1>4. d \in Seq(Queued)
    <2>1. <<"verify">> \in Seq(Queued) /\ <<>> \in Seq(Queued)
      BY DEF Queued
    <2> QED BY <2>1
  <1>5. RollbackQueue(by, withDB) = a \o b \o c \o d
    BY DEF RollbackQueue
  <1> HIDE DEF a, b, c, d
  <1>6. a \o b \in Seq(Queued)
    BY <1>1, <1>2, ConcatProperties
  <1>7. a \o b \o c \in Seq(Queued)
    BY <1>3, <1>6, ConcatProperties
  <1> QED BY <1>4, <1>5, <1>7, ConcatProperties

LEMMA RunningTyped ==
  ASSUME NEW n \in 0 .. MaxRelease, NEW mem \in RecordType
  PROVE  /\ Running(n, mem) \in CmdType
         /\ Running(n, mem).idx = 1 /\ Running(n, mem).num = n
         /\ Running(n, mem).rollback = FALSE
         /\ Running(n, mem).pc = "run"
  <1>1. Running(n, mem) \in CmdType
    BY DEF Running, CmdType
  <1> QED BY <1>1 DEF Running

LEMMA StartTyped ==
  ASSUME TypeInv, Commands
  PROVE  TypeInv'
  <1>1. setup' = setup /\ UNCHANGED <<served, flags, rec, faults>>
    BY DEF Commands, StartDeploy, StartResume, StartRollback
  <1>2. db' \in {"current", "behind", "half"} /\ lock' \in {"free", "ours", "other"}
    BY DEF Commands, StartDeploy, StartResume, StartRollback, TypeInv
  <1>3. /\ cmd' \in CmdType /\ cmd'.idx = 1 /\ cmd'.pc # "write"
        /\ cmd'.rollback => lock' = "ours"
        /\ cmd'.pc = "queue" => cmd'.rollback
        /\ cmd'.num = 0 => NextNumber \in Number /\ ~cmd'.rollback
    <2>1. CASE \E from \in Project.froms : StartDeploy(from)
      <3>1. PICK from : StartDeploy(from)
        BY <2>1
      <3> DEFINE m == [NewRecord EXCEPT !.status = "running"]
                 B == Before(from)
      <3>2. B \in SUBSET Ids(Plan)
        BY BeforeIsOfThePlan, PlanIs
      <3>3. m \in RecordType /\ 0 \in 0 .. MaxRelease
        BY NewRecordTyped, PublishWindowAssumption
      <3> DEFINE r == Running(0, m)
      <3>4. cmd' = [r EXCEPT !.pc = "head", !.passed = B] /\ NextNumber \in Number
        BY <3>1 DEF StartDeploy
      <3>5. r \in CmdType /\ r.idx = 1 /\ r.rollback = FALSE
        BY <3>3, RunningTyped
      <3> HIDE DEF m, B, r
      <3> QED BY <3>2, <3>4, <3>5 DEF CmdType
    <2>2. CASE \E from \in Project.froms : StartResume(from)
      <3>1. PICK from : StartResume(from)
        BY <2>2
      <3>2. PICK n \in IncompleteRelease :
              cmd' = [Running(n, rec[n]) EXCEPT !.pc = "resume", !.passed = Before(from)]
        BY <3>1 DEF StartResume
      <3> DEFINE r == Running(n, rec[n])
                 B == Before(from)
      <3>3. B \in SUBSET Ids(Plan)
        BY BeforeIsOfThePlan, PlanIs
      <3>4. n \in Number /\ n \in 0 .. MaxRelease /\ n # 0 /\ rec[n] \in RecordType
        BY PublishWindowAssumption DEF IncompleteRelease, Incomplete, Number, TypeInv
      <3>5. r \in CmdType /\ r.idx = 1 /\ r.num = n /\ r.rollback = FALSE
        BY <3>4, RunningTyped
      <3>6. cmd' = [r EXCEPT !.pc = "resume", !.passed = B]
        BY <3>2
      <3> HIDE DEF B, r
      <3> QED BY <3>3, <3>4, <3>5, <3>6 DEF CmdType
    <2>3. CASE \E n \in Number, by \in Rollers, withDB \in WithDB :
                 StartRollback(n, by, withDB)
      <3>1. PICK n \in Number, by \in Rollers, withDB \in WithDB :
              StartRollback(n, by, withDB)
        BY <2>3
      <3>2. n \in 0 .. MaxRelease /\ n # 0 /\ rec[n] \in RecordType /\ by \in {"cli", "desktop"}
        BY PublishWindowAssumption DEF Number, TypeInv
      <3> DEFINE r == Running(n, rec[n])
                 Q == RollbackQueue(by, withDB)
      <3>3. Q \in Seq(Queued)
        BY QueueTyped
      <3>4. /\ cmd' = [r EXCEPT !.pc = "queue", !.rollback = TRUE, !.by = by, !.queue = Q]
            /\ lock' = "ours"
        BY <3>1 DEF StartRollback
      <3>5. r \in CmdType /\ r.idx = 1 /\ r.num = n
        BY <3>2, RunningTyped
      <3> HIDE DEF Q, r
      <3> QED BY <3>2, <3>3, <3>4, <3>5 DEF CmdType
    <2> QED BY <2>1, <2>2, <2>3 DEF Commands
  <1>6. IsSequence(Steps')
    <2>1. Plan' = Plan /\ IsSequence(Plan)
      BY <1>1, PlanIs, ShapeKept
    <2>2. Contains(cmd'.queue, "restore") \in BOOLEAN
      BY DEF Contains
    <2>3. IsSequence(Shaped[setup'].tail[Contains(cmd'.queue, "restore")])
      BY <1>1, <2>2, PlanIs
    <2> QED BY <2>1, <2>3 DEF Steps
  <1>7. cmd'.idx <= Len(Steps') + 1
    BY <1>3, <1>6 DEF IsSequence
  <1>8. NextNumber' = NextNumber
    BY <1>1 DEF NextNumber, Created, Number
  <1> QED
    BY <1>1, <1>2, <1>3, <1>7, <1>8, ShapeKept DEF TypeInv, CmdFits, Parts, Number

\* A queue that gets shorter makes the tail no shorter.
LEMMA StepsGrow ==
  ASSUME TypeInv, setup' = setup, cmd.rollback, cmd'.rollback,
         Contains(cmd'.queue, "restore") => Contains(cmd.queue, "restore")
  PROVE  Len(Steps) <= Len(Steps')
  <1>1. Contains(cmd.queue, "restore") \in BOOLEAN /\ Contains(cmd'.queue, "restore") \in BOOLEAN
    BY DEF Contains
  <1>2. \A b \in BOOLEAN : Len(Shaped[setup].tail[b]) \in Nat
    BY PlanIs DEF IsSequence
  <1>3. Contains(cmd'.queue, "restore") = FALSE \/
        Contains(cmd'.queue, "restore") = Contains(cmd.queue, "restore")
    BY <1>1
  <1>4. /\ Steps = Shaped[setup].tail[Contains(cmd.queue, "restore")]
        /\ Steps' = Shaped[setup].tail[Contains(cmd'.queue, "restore")]
    BY DEF Steps
  <1>5. CASE Contains(cmd'.queue, "restore") = Contains(cmd.queue, "restore")
    BY <1>1, <1>2, <1>4, <1>5
  <1>6. CASE Contains(cmd'.queue, "restore") = FALSE /\ Contains(cmd.queue, "restore") = TRUE
    BY <1>2, <1>4, <1>6, PlanIs
  <1> QED BY <1>1, <1>3, <1>5, <1>6

\* What is left to show of a step that keeps the plan.
LEMMA TypedAfter ==
  ASSUME TypeInv, cmd # Idle, setup' = setup,
         served' = served \/ served' \in [Parts -> 0 .. MaxRelease],
         flags' = flags \/ flags' \subseteq 0 .. MaxRelease,
         db' \in {"current", "behind", "half"},
         rec' = rec \/ (cmd.num # 0 /\ rec' \in [Number -> RecordType]),
         lock' \in {"free", "ours", "other"},
         faults' \in 0 .. Project.faults,
         cmd' # Idle =>
           /\ cmd' \in CmdType
           /\ cmd'.idx <= Len(Steps) + 1
           /\ cmd'.pc = "write" => cmd'.idx <= Len(Steps)
           /\ cmd'.rollback => lock' = "ours"
           /\ cmd'.rollback = cmd.rollback
           /\ cmd'.num = 0 => cmd.num = 0
           /\ cmd'.pc = "queue" => cmd.rollback
           /\ \/ cmd'.queue = cmd.queue
              \/ /\ cmd'.pc # "write" /\ cmd.rollback
                 /\ Contains(cmd'.queue, "restore") => Contains(cmd.queue, "restore")
  PROVE  TypeInv'
  <1>1. /\ served' \in [Parts -> 0 .. MaxRelease] /\ Parts' = Parts
        /\ flags' \subseteq 0 .. MaxRelease /\ Number' = Number
        /\ rec' \in [Number -> RecordType] /\ setup' \in DOMAIN Setups
    BY DEF TypeInv, Parts, Number
  <1>2. cmd' # Idle => CmdFits'
    <2> SUFFICES ASSUME cmd' # Idle
                 PROVE  CmdFits'
      OBVIOUS
    <2>1. CmdType' = CmdType /\ cmd.rollback \in BOOLEAN /\ CmdFits
      BY ShapeKept DEF TypeInv, CmdFits, CmdType
    <2>2. cmd'.num = 0 => NextNumber' \in Number /\ ~cmd'.rollback
      <3>1. rec' = rec => NextNumber' = NextNumber
        BY DEF NextNumber, Created, Number
      <3> QED BY <2>1, <3>1 DEF CmdFits
    <2>3. /\ cmd'.idx <= Len(Steps') + 1
          /\ cmd'.pc = "write" => cmd'.idx <= Len(Steps')
      <3>1. CASE cmd'.queue = cmd.queue
        BY <3>1, StepsKept
      <3>2. CASE /\ cmd'.pc # "write" /\ cmd.rollback
                 /\ Contains(cmd'.queue, "restore") => Contains(cmd.queue, "restore")
        <4>1. Len(Steps) <= Len(Steps')
          BY <2>1, <3>2, StepsGrow, StepsKept DEF CmdFits
        <4>2. Len(Steps) \in Nat /\ Len(Steps') \in Nat /\ cmd'.idx \in Nat
          <5>1. Contains(cmd'.queue, "restore") \in BOOLEAN
            BY DEF Contains
          <5>2. Steps' = Shaped[setup].tail[Contains(cmd'.queue, "restore")]
            BY <2>1, <3>2 DEF Steps
          <5>3. Len(Steps') \in Nat
            BY <5>1, <5>2, PlanIs DEF IsSequence
          <5> QED BY <5>3, StepsAre DEF CmdType
        <4> QED BY <3>2, <4>1, <4>2
      <3> QED BY <3>1, <3>2
    <2> QED BY <1>1, <2>1, <2>2, <2>3 DEF CmdFits
  <1> QED BY <1>1, <1>2, ShapeKept DEF TypeInv

LEMMA CmdIs ==
  ASSUME TypeInv, cmd # Idle
  PROVE  /\ CmdFits /\ cmd \in CmdType
         /\ cmd.idx \in Nat \ {0} /\ cmd.idx <= Len(Steps) + 1
         /\ IsSequence(Steps) /\ Len(Steps) \in Nat
         /\ faults \in 0 .. Project.faults /\ db \in {"current", "behind", "half"}
         /\ lock \in {"free", "ours", "other"}
  BY StepsAre DEF TypeInv, CmdFits, CmdType

LEMMA StepTyped ==
  ASSUME TypeInv, cmd # Idle,
         cmd.pc = "write" \/ AtStep
  PROVE  /\ cmd.idx \in 1 .. Len(Steps) /\ cmd.idx \in DOMAIN Steps
         /\ Step.id \in Ids(Steps)
         /\ ~cmd.rollback => Step.id \in Ids(Plan) /\ Steps = Plan
  <1>1. cmd.idx \in 1 .. Len(Steps) /\ cmd.idx \in DOMAIN Steps
    BY CmdIs DEF CmdFits, AtStep, IsSequence
  <1> QED BY <1>1 DEF Step, Ids, Steps

LEMMA ReadRecordTyped ==
  ASSUME TypeInv, cmd # Idle, ReadRecord
  PROVE  TypeInv'
  <1> DEFINE X == Succeeded \ Again(cmd.passed)
             v == rec[cmd.num].verdict = "migrate"
  <1>1. X \in SUBSET Ids(Plan) /\ v \in BOOLEAN
    BY DEF Succeeded
  <1>2. cmd' \in {[cmd EXCEPT !.pc = "head", !.carried = X, !.probed = v],
                  [cmd EXCEPT !.pc = "head"]}
    BY DEF ReadRecord
  <1>3. /\ cmd' \in CmdType /\ cmd'.pc = "head" /\ cmd'.idx = cmd.idx
        /\ cmd'.rollback = cmd.rollback /\ cmd'.queue = cmd.queue
        /\ cmd'.num = cmd.num
    <2> HIDE DEF X, v
    <2> QED BY <1>1, <1>2, CmdIs DEF CmdType
  <1>4. faults' \in 0 .. Project.faults
    BY FaultTyped, CmdIs DEF ReadRecord, Fault
  <1> QED BY <1>3, <1>4, CmdIs, TypedAfter DEF ReadRecord, CmdFits

LEMMA TakeLockTyped ==
  ASSUME TypeInv, cmd # Idle, TakeLockUpFront
  PROVE  TypeInv'
  <1>1. cmd' # Idle => /\ cmd' \in CmdType /\ cmd'.pc = "run" /\ cmd'.idx = cmd.idx
                       /\ cmd'.rollback = cmd.rollback /\ cmd'.queue = cmd.queue
        /\ cmd'.num = cmd.num
    <2>1. cmd' # Idle => cmd' \in {[cmd EXCEPT !.pc = "run"],
                                   [cmd EXCEPT !.pc = "run", !.held = TRUE]}
      BY DEF TakeLockUpFront
    <2>2. ASSUME cmd' \in {[cmd EXCEPT !.pc = "run"],
                           [cmd EXCEPT !.pc = "run", !.held = TRUE]}
          PROVE  /\ cmd' \in CmdType /\ cmd'.pc = "run" /\ cmd'.idx = cmd.idx
                 /\ cmd'.rollback = cmd.rollback /\ cmd'.queue = cmd.queue
        /\ cmd'.num = cmd.num
      BY <2>2, CmdIs DEF CmdType
    <2> QED BY <2>1, <2>2
  <1>2. lock' \in {"free", "ours", "other"} /\ (lock = "ours" => lock' = "ours")
    BY CmdIs DEF TakeLockUpFront
  <1> QED BY <1>1, <1>2, CmdIs, TypedAfter DEF TakeLockUpFront, CmdFits

LEMMA AdvanceTyped ==
  ASSUME TypeInv, cmd # Idle, CarryOver \/ Skip
  PROVE  TypeInv'
  <1>1. PICK status \in {"ok", "skipped"} :
          Advance(Record(status)) /\ StoreAfter(cmd.num, cmd'.mem, 0)
    BY DEF CarryOver, Skip, Store
  <1>2. AtStep /\ setup' = setup /\ UNCHANGED <<served, flags, db, lock>>
    BY DEF CarryOver, Skip
  <1> DEFINE m == Record(status)
  <1>3. m \in RecordType
    BY <1>1, RecordIs, CmdIs DEF Outcome
  <1> DEFINE i == cmd.idx + 1
  <1>4. cmd' = [cmd EXCEPT !.pc = "run", !.idx = i, !.mem = m] /\ i \in Nat \ {0}
    BY <1>1, CmdIs DEF Advance, CmdType
  <1>5. /\ cmd' \in CmdType /\ cmd'.pc = "run" /\ cmd'.idx = i
        /\ cmd'.rollback = cmd.rollback /\ cmd'.queue = cmd.queue
        /\ cmd'.num = cmd.num /\ cmd'.mem = m
        /\ cmd.num \in 0 .. MaxRelease
    <2> HIDE DEF m, i
    <2> QED BY <1>3, <1>4, CmdIs DEF CmdType
  <1>6. (rec' = rec \/ (cmd.num # 0 /\ rec' \in [Number -> RecordType])) /\ faults' \in 0 .. Project.faults
    BY <1>1, <1>2, <1>3, <1>5, StoreTyped
  <1>7. cmd'.idx <= Len(Steps) + 1
    BY <1>2, <1>5, CmdIs DEF AtStep
  <1> QED BY <1>2, <1>5, <1>6, <1>7, CmdIs, TypedAfter DEF CmdFits

LEMMA ProbeTyped ==
  ASSUME TypeInv, cmd # Idle, Probe
  PROVE  TypeInv'
  <1> DEFINE required == db # "current"
             m == [cmd.mem EXCEPT !.verdict = IF required THEN "migrate" ELSE "skip"]
             w == cmd.window /\ ~WindowDropped(required)
  <1>1. m \in RecordType
    BY CmdIs DEF RecordType, Verdict, CmdType
  <1>2. /\ cmd' = [cmd EXCEPT !.probed = TRUE, !.required = required, !.mem = m,
                              !.window = w]
        /\ StoreAfter(cmd.num, m, 0) /\ AtStep
    BY CmdIs DEF Probe, Store, CmdType
  <1>3. required \in BOOLEAN /\ w \in BOOLEAN
    BY DEF WindowDropped
  <1>4. /\ cmd' \in CmdType /\ cmd'.pc = "run" /\ cmd'.idx = cmd.idx
        /\ cmd'.rollback = cmd.rollback /\ cmd'.queue = cmd.queue
        /\ cmd'.num = cmd.num
        /\ cmd.num \in 0 .. MaxRelease
    <2> HIDE DEF m, required, w
    <2> QED BY <1>1, <1>2, <1>3, CmdIs DEF CmdType, AtStep
  <1>5. (rec' = rec \/ (cmd.num # 0 /\ rec' \in [Number -> RecordType])) /\ faults' \in 0 .. Project.faults
    BY <1>1, <1>2, <1>4, StoreTyped DEF Probe
  <1> QED BY <1>4, <1>5, CmdIs, TypedAfter DEF Probe, CmdFits

LEMMA EffectTyped ==
  ASSUME TypeInv, setup' = setup, cmd \in CmdType, NEW id, NEW good \in BOOLEAN,
         Attempt(id, cmd.num, good)
  PROVE  /\ served' \in [Parts -> 0 .. MaxRelease]
         /\ flags' \subseteq 0 .. MaxRelease
         /\ db' \in {"current", "behind", "half"}
         /\ faults' \in 0 .. Project.faults
  <1>1. cmd.num \in 0 .. MaxRelease /\ 0 \in 0 .. MaxRelease
    BY PublishWindowAssumption DEF CmdType
  <1>2. Effect(id, cmd.num, good)
    BY DEF Attempt
  <1>3. served' \in [Parts -> 0 .. MaxRelease]
    <2>1. AllOf(cmd.num) \in [Parts -> 0 .. MaxRelease]
      BY <1>1 DEF AllOf
    <2>2. \A done : [p \in Parts |-> IF p \in done THEN cmd.num ELSE served[p]]
                      \in [Parts -> 0 .. MaxRelease]
      BY <1>1 DEF TypeInv
    <2>3. served' \in {served, AllOf(cmd.num)}
             \cup {[p \in Parts |-> IF p \in done THEN cmd.num ELSE served[p]] :
                     done \in SUBSET Parts}
      BY <1>2 DEF Effect, ServedAfter
    <2> QED BY <2>1, <2>2, <2>3 DEF TypeInv
  <1>4. flags' \subseteq 0 .. MaxRelease
    <2>1. Site \in 0 .. MaxRelease
      BY <1>1 DEF Site, Docroot, TypeInv, Parts
    <2>2. flags' \in {flags, flags \cup {Site}, flags \ {Site}}
      BY <1>2 DEF Effect, FlagAfter
    <2> QED BY <2>1, <2>2 DEF TypeInv
  <1>5. db' \in {"current", "behind", "half"}
    BY <1>2 DEF Effect, DBAfter, TypeInv
  <1>6. faults' \in 0 .. Project.faults
    BY FaultTyped, TypeInv DEF Attempt, Fault, TypeInv
  <1> QED BY <1>3, <1>4, <1>5, <1>6

LEMMA RunStepTyped ==
  ASSUME TypeInv, cmd # Idle, RunStep
  PROVE  TypeInv'
  <1>1. PICK good \in BOOLEAN :
          /\ Attempt(Step.id, cmd.num, good)
          /\ lock' = CASE Step.id = "lock" /\ good -> "ours"
                       [] Step.id = "unlock" /\ good -> "free"
                       [] OTHER -> lock
          /\ cmd' = [cmd EXCEPT !.pc = "write", !.good = good,
                                !.num = IF good THEN NumberAfter ELSE @]
    BY DEF RunStep
  <1>2. AtStep /\ setup' = setup /\ rec' = rec
    BY DEF RunStep, Due
  <1> DEFINE n == IF good THEN NumberAfter ELSE cmd.num
  <1>8. NumberAfter \in 0 .. MaxRelease
    BY CmdIs DEF NumberAfter, CmdFits, CmdType, Number
  <1>3. n \in 0 .. MaxRelease /\ cmd' = [cmd EXCEPT !.pc = "write", !.good = good, !.num = n]
    BY <1>1, <1>8, CmdIs DEF CmdType
  <1>4. /\ cmd' \in CmdType /\ cmd'.pc = "write" /\ cmd'.idx = cmd.idx
        /\ cmd'.rollback = cmd.rollback /\ cmd'.queue = cmd.queue
        /\ cmd'.num = n
    <2> HIDE DEF n
    <2> QED BY <1>1, <1>3, CmdIs DEF CmdType
  <1>5. lock' \in {"free", "ours", "other"}
    BY <1>1, CmdIs
  <1>6. cmd.rollback => Step.id # "unlock"
    BY <1>2, StepTyped, PlanIs DEF Steps, TailPlan, Contains
  <1>9. n = 0 => cmd.num = 0
    <2>1. NextNumber # 0
      BY NextNumberIs
    <2> QED BY <2>1 DEF NumberAfter
  <1>7. cmd.rollback => lock' = "ours"
    BY <1>1, <1>6, CmdIs DEF CmdFits
  <1> QED
    BY <1>1, <1>2, <1>4, <1>5, <1>7, <1>9, CmdIs, EffectTyped, TypedAfter DEF CmdFits, AtStep

LEMMA RecordStepTyped ==
  ASSUME TypeInv, cmd # Idle, RecordStep
  PROVE  TypeInv'
  <1> DEFINE m == Record("ok")
             i == cmd.idx + 1
             h == cmd.held \/ Step.id = "lock"
  <1>1. /\ cmd' = [cmd EXCEPT !.pc = "run", !.idx = i, !.mem = m, !.held = h]
        /\ i \in Nat \ {0} /\ h \in BOOLEAN
    BY CmdIs DEF RecordStep, CmdType
  <1>2. m \in RecordType
    BY RecordIs, CmdIs DEF Outcome
  <1>3. /\ cmd' \in CmdType /\ cmd'.pc = "run" /\ cmd'.idx = i /\ cmd'.mem = m
        /\ cmd'.rollback = cmd.rollback /\ cmd'.queue = cmd.queue
        /\ cmd'.num = cmd.num /\ cmd.num \in 0 .. MaxRelease
    <2> HIDE DEF m, i, h
    <2> QED BY <1>1, <1>2, CmdIs DEF CmdType
  <1>4. (rec' = rec \/ (cmd.num # 0 /\ rec' \in [Number -> RecordType])) /\ faults' \in 0 .. Project.faults
    BY <1>2, <1>3, StoreTyped DEF RecordStep, Store
  <1>5. cmd'.idx <= Len(Steps) + 1
    BY <1>3, CmdIs DEF RecordStep, CmdFits
  <1> QED BY <1>3, <1>4, <1>5, CmdIs, TypedAfter DEF RecordStep, CmdFits

LEMMA RestoredIs ==
  ASSUME cmd \in CmdType, NEW mem \in RecordType
  PROVE  /\ Restored(mem) \in RecordType
         /\ Restored(mem).status = cmd.original.status
  <1>1. cmd.original \in RecordType
    BY DEF CmdType
  <1> DEFINE T == [t \in DOMAIN cmd.original.task |->
                     IF cmd.original.task[t] = "none" THEN "none" ELSE mem.task[t]]
  <1>2. T \in [Ids(Plan) -> Outcome]
    <2>1. DOMAIN cmd.original.task = Ids(Plan)
      BY <1>1 DEF RecordType
    <2>2. \A t \in Ids(Plan) : mem.task[t] \in Outcome /\ "none" \in Outcome
      BY DEF RecordType, Outcome
    <2> QED BY <2>1, <2>2
  <1>3. Restored(mem) = [cmd.original EXCEPT !.task = T]
    BY <1>1 DEF Restored, RecordType
  <1> HIDE DEF T
  <1> QED BY <1>1, <1>2, <1>3 DEF RecordType

LEMMA TailFailedIs ==
  ASSUME cmd \in CmdType
  PROVE  /\ TailFailed \in CmdType /\ TailFailed.pc = "queue"
         /\ TailFailed.idx = cmd.idx /\ TailFailed.rollback = cmd.rollback
         /\ TailFailed.num = cmd.num /\ ~Contains(TailFailed.queue, "restore")
         /\ TailFailed.by = cmd.by
         /\ TailFailed.queue = IF cmd.by = "desktop" THEN <<"disable">> ELSE <<>>
  <1> DEFINE q == IF cmd.by = "desktop" THEN <<"disable">> ELSE <<>>
  <1>1. q \in Seq(Queued) /\ ~Contains(q, "restore")
    <2>1. <<"disable">> \in Seq(Queued) /\ <<>> \in Seq(Queued)
      BY DEF Queued
    <2>2. ~Contains(<<"disable">>, "restore") /\ ~Contains(<<>>, "restore")
      BY DEF Contains
    <2> QED BY <2>1, <2>2
  <1>2. TailFailed = [cmd EXCEPT !.pc = "queue", !.queue = q]
    BY DEF TailFailed
  <1>3. q = IF cmd.by = "desktop" THEN <<"disable">> ELSE <<>>
    OBVIOUS
  <1> HIDE DEF q
  <1> QED BY <1>1, <1>2, <1>3 DEF CmdType

LEMMA EndFailedTyped ==
  ASSUME TypeInv, cmd # Idle, NEW mem \in RecordType, NEW cost \in Nat,
         EndFailed(mem, cost), UNCHANGED <<setup, served, flags, db>>
  PROVE  TypeInv'
  <1>1. cmd.num \in 0 .. MaxRelease /\ (cmd.rollback => cmd.num # 0) /\ cmd.rollback \in BOOLEAN
    BY CmdIs DEF CmdFits, CmdType
  <1>2. CASE cmd.rollback
    <2>1. PICK lost \in Losses :
            /\ Faulty(cost + lost)
            /\ rec' = [rec EXCEPT ![cmd.num] = IF lost = 1 THEN mem ELSE Restored(mem)]
      BY <1>2 DEF EndFailed
    <2>2. cost + lost \in Nat
      BY DEF Losses
    <2>3. faults' \in 0 .. Project.faults
      BY <2>1, <2>2, FaultTyped
    <2>4. (IF lost = 1 THEN mem ELSE Restored(mem)) \in RecordType
      BY CmdIs, RestoredIs
    <2>5. rec' \in [Number -> RecordType]
      BY <2>1, <2>4 DEF TypeInv
    <2>6. cmd' = TailFailed /\ lock' = lock
      BY <1>2 DEF EndFailed
    <2> QED
      BY <1>1, <1>2, <2>3, <2>5, <2>6, CmdIs, TailFailedIs, TypedAfter DEF CmdFits
  <1>3. CASE ~cmd.rollback
    <2>1. StoreAfter(cmd.num, mem, cost) /\ cmd' = Idle /\ lock' \in {"free", lock}
      BY <1>3 DEF EndFailed
    <2>2. /\ rec' = rec \/ (cmd.num # 0 /\ rec' \in [Number -> RecordType])
          /\ faults' \in 0 .. Project.faults
      BY <1>1, <2>1, StoreTyped
    <2> QED BY <2>1, <2>2, CmdIs, TypedAfter
  <1> QED BY <1>1, <1>2, <1>3

LEMMA FailTyped ==
  ASSUME TypeInv, cmd # Idle, FailStep \/ ProbeFails
  PROVE  TypeInv'
  <1>1. [Record("failed") EXCEPT !.status = "failed"] \in RecordType
    BY RecordIs, CmdIs DEF Outcome
  <1>2. [cmd.mem EXCEPT !.status = "failed"] \in RecordType
    BY CmdIs DEF CmdType, RecordType
  <1>3. PICK mem \in RecordType, cost \in {0, 1} :
          EndFailed(mem, cost) /\ UNCHANGED <<setup, served, flags, db>>
    BY <1>1, <1>2 DEF FailStep, ProbeFails
  <1> QED BY <1>3, EndFailedTyped

LEMMA FinishTyped ==
  ASSUME TypeInv, cmd # Idle, Finish
  PROVE  TypeInv'
  <1> DEFINE mem == [cmd.mem EXCEPT !.status = "ok"]
  <1>1. mem \in RecordType
    BY CmdIs DEF CmdType, RecordType
  <1>2. cmd.num \in 0 .. MaxRelease /\ (cmd.rollback => cmd.num # 0) /\ cmd.rollback \in BOOLEAN
    BY CmdIs DEF CmdFits, CmdType
  <1>3. \/ /\ rec' = [rec EXCEPT ![cmd.num] = mem]
           /\ cmd' = IF cmd.rollback THEN [cmd EXCEPT !.pc = "queue"] ELSE Idle
           /\ UNCHANGED faults
        \/ /\ Fault
           /\ rec' = IF cmd.rollback THEN [rec EXCEPT ![cmd.num] = Restored(mem)] ELSE rec
           /\ cmd' = IF cmd.rollback THEN TailFailed ELSE Idle
    BY DEF Finish
  <1>4. faults' \in 0 .. Project.faults
    BY <1>3, FaultTyped, CmdIs DEF Fault, Finish
  <1>5. rec' = rec \/ (cmd.num # 0 /\ rec' \in [Number -> RecordType])
    <2>1. Restored(mem) \in RecordType
      BY <1>1, RestoredIs, CmdIs
    <2>2. [rec EXCEPT ![cmd.num] = mem] \in [Number -> RecordType]
      BY <1>1 DEF TypeInv
    <2>3. [rec EXCEPT ![cmd.num] = Restored(mem)] \in [Number -> RecordType]
      BY <2>1 DEF TypeInv
    <2>4. cmd.num = 0 => [rec EXCEPT ![cmd.num] = mem] = rec
      BY DEF TypeInv, Number
    <2> HIDE DEF mem
    <2> QED BY <1>2, <1>3, <2>2, <2>3, <2>4
  <1>6. cmd' # Idle => /\ cmd.rollback /\ cmd' \in CmdType /\ cmd'.pc = "queue"
                       /\ cmd'.idx = cmd.idx /\ cmd'.rollback = cmd.rollback
                       /\ cmd'.num = cmd.num
                       /\ cmd'.queue = cmd.queue \/ ~Contains(cmd'.queue, "restore")
    <2>1. cmd' \in {Idle, TailFailed, [cmd EXCEPT !.pc = "queue"]}
          /\ (cmd' # Idle => cmd.rollback)
      BY <1>3
    <2>2. CASE cmd' = TailFailed
      BY <2>1, <2>2, TailFailedIs, CmdIs
    <2>3. CASE cmd' = [cmd EXCEPT !.pc = "queue"]
      BY <2>1, <2>3, CmdIs DEF CmdType
    <2> QED BY <2>1, <2>2, <2>3
  <1>7. setup' = setup /\ UNCHANGED <<served, flags, db, lock>>
    BY DEF Finish
  <1> QED BY <1>2, <1>4, <1>5, <1>6, <1>7, CmdIs, TypedAfter DEF CmdFits

LEMMA KilledTyped ==
  ASSUME TypeInv, cmd # Idle, Killed
  PROVE  TypeInv'
  <1>1. faults' \in 0 .. Project.faults
    BY FaultTyped DEF Fault, Killed
  <1> QED BY <1>1, CmdIs, TypedAfter DEF Killed

\* The steps of a rollback that are not the tail.
LEMMA QueueIs ==
  ASSUME TypeInv, cmd # Idle, AtQueued
  PROVE  /\ cmd.rollback /\ lock = "ours"
         /\ Tail(cmd.queue) \in Seq(Queued) /\ Head(cmd.queue) \in Queued
         /\ Contains(Tail(cmd.queue), "restore") => Contains(cmd.queue, "restore")
         /\ Len(Tail(cmd.queue)) = Len(cmd.queue) - 1
         /\ \A k \in 1 .. Len(Tail(cmd.queue)) : Tail(cmd.queue)[k] = cmd.queue[k + 1]
         /\ Len(cmd.queue) \in Nat \ {0} /\ Head(cmd.queue) = cmd.queue[1]
  <1>1. cmd.queue \in Seq(Queued) /\ cmd.queue # <<>> /\ cmd.rollback /\ lock = "ours"
    BY CmdIs DEF CmdFits, CmdType, AtQueued
  <1>2. /\ Tail(cmd.queue) \in Seq(Queued)
        /\ Len(Tail(cmd.queue)) = Len(cmd.queue) - 1
        /\ \A k \in 1 .. Len(Tail(cmd.queue)) : Tail(cmd.queue)[k] = cmd.queue[k + 1]
        /\ Head(cmd.queue) \in Queued /\ Len(cmd.queue) \in Nat \ {0}
        /\ Head(cmd.queue) = cmd.queue[1]
    BY <1>1, HeadTailProperties, EmptySeq
  <1>3. Contains(Tail(cmd.queue), "restore") => Contains(cmd.queue, "restore")
    <2> SUFFICES ASSUME NEW k \in 1 .. Len(Tail(cmd.queue)),
                        Tail(cmd.queue)[k] = "restore"
                 PROVE  Contains(cmd.queue, "restore")
      BY DEF Contains
    <2>1. k + 1 \in 1 .. Len(cmd.queue) /\ cmd.queue[k + 1] = "restore"
      BY <1>2
    <2> QED BY <2>1 DEF Contains
  <1> QED BY <1>1, <1>2, <1>3

LEMMA QueueTypedAfter ==
  ASSUME TypeInv, cmd # Idle, AtQueued, setup' = setup, UNCHANGED <<rec, lock>>,
         served' = served \/ served' \in [Parts -> 0 .. MaxRelease],
         flags' = flags \/ flags' \subseteq 0 .. MaxRelease,
         db' \in {"current", "behind", "half"},
         faults' \in 0 .. Project.faults,
         NEW q \in Seq(Queued),
         Contains(q, "restore") => Contains(cmd.queue, "restore"),
         cmd' = [cmd EXCEPT !.queue = q]
  PROVE  TypeInv'
  <1>1. /\ cmd' \in CmdType /\ cmd'.pc = "queue" /\ cmd'.idx = cmd.idx /\ cmd'.queue = q
        /\ cmd'.rollback = cmd.rollback /\ cmd'.num = cmd.num /\ cmd.rollback
    BY CmdIs, QueueIs DEF CmdType, AtQueued
  <1> QED BY <1>1, CmdIs, QueueIs, TypedAfter

LEMMA RollbackStepsTyped ==
  ASSUME TypeInv, cmd # Idle, StartTail \/ QueuedStep \/ EndRollback
  PROVE  TypeInv'
  <1>1. CASE StartTail
    <2> DEFINE q == Tail(cmd.queue)
    <2>1. cmd' = [cmd EXCEPT !.pc = "run", !.queue = q] /\ AtQueued
      BY <1>1, CmdIs DEF StartTail, CmdType
    <2>2. /\ q \in Seq(Queued) /\ cmd.rollback /\ lock = "ours"
          /\ Contains(q, "restore") => Contains(cmd.queue, "restore")
      BY <2>1, QueueIs
    <2>3. /\ cmd' \in CmdType /\ cmd'.pc = "run" /\ cmd'.idx = cmd.idx /\ cmd'.queue = q
          /\ cmd'.rollback = cmd.rollback /\ cmd'.num = cmd.num
      <3> HIDE DEF q
      <3> QED BY <2>1, <2>2, CmdIs DEF CmdType
    <2> QED BY <1>1, <2>2, <2>3, CmdIs, TypedAfter DEF StartTail
  <1>2. CASE QueuedStep
    <2>1. AtQueued /\ setup' = setup /\ UNCHANGED <<rec, lock>>
      BY <1>2 DEF QueuedStep
    <2>2. CASE /\ cmd' = [cmd EXCEPT !.queue = Tail(@)]
               /\ UNCHANGED <<served, flags, db, faults>>
      <3>1. cmd' = [cmd EXCEPT !.queue = Tail(cmd.queue)]
        BY <2>2, CmdIs DEF CmdType
      <3> QED BY <2>1, <2>2, <3>1, CmdIs, QueueIs, QueueTypedAfter
    <2>3. ASSUME NEW good \in BOOLEAN, NEW id, Attempt(id, cmd.num, good),
                 cmd' = [cmd EXCEPT !.queue = IF good THEN Tail(@) ELSE QueueAfterFailure(id)]
          PROVE  TypeInv'
      <3> DEFINE q == IF good THEN Tail(cmd.queue) ELSE QueueAfterFailure(id)
      <3>1. cmd' = [cmd EXCEPT !.queue = q]
        BY <2>3, CmdIs DEF CmdType
      <3>2. q \in Seq(Queued) /\ (Contains(q, "restore") => Contains(cmd.queue, "restore"))
        <4>1. <<"disable">> \in Seq(Queued) /\ <<>> \in Seq(Queued)
          BY DEF Queued
        <4>2. ~Contains(<<"disable">>, "restore") /\ ~Contains(<<>>, "restore")
          BY DEF Contains
        <4> QED BY <2>1, <4>1, <4>2, QueueIs DEF QueueAfterFailure
      <3> HIDE DEF q
      <3> QED BY <2>1, <2>3, <3>1, <3>2, CmdIs, EffectTyped, QueueTypedAfter
    <2> QED BY <1>2, <2>2, <2>3 DEF QueuedStep
  <1>3. CASE EndRollback
    BY <1>3, CmdIs, TypedAfter DEF EndRollback
  <1> QED BY <1>1, <1>2, <1>3

LEMMA EnvironmentTyped ==
  ASSUME TypeInv, Environment
  PROVE  TypeInv'
  <1>1. UNCHANGED <<setup, served, flags, rec, cmd, faults>>
    BY DEF Environment, Unlock, DatabaseMoves, OtherTakesTheLock, OtherReleasesTheLock
  <1>2. db' \in {"current", "behind", "half"} /\ lock' \in {"free", "ours", "other"}
    BY DEF Environment, Unlock, DatabaseMoves, OtherTakesTheLock, OtherReleasesTheLock, TypeInv
  <1>3. cmd # Idle /\ cmd.rollback => lock' = "ours"
    BY DEF Environment, Unlock, DatabaseMoves, OtherTakesTheLock, OtherReleasesTheLock,
           TypeInv, CmdFits
  <1>4. Steps' = Steps /\ NextNumber' = NextNumber
    BY <1>1, StepsKept DEF NextNumber, Created, Number
  <1>5. Parts' = Parts /\ Number' = Number
    BY DEF Parts, Number
  <1> QED BY <1>1, <1>2, <1>3, <1>4, <1>5, ShapeKept DEF TypeInv, CmdFits

LEMMA StutterTyped ==
  ASSUME TypeInv, UNCHANGED vars
  PROVE  TypeInv'
  <1>1. Steps' = Steps /\ NextNumber' = NextNumber /\ Parts' = Parts /\ Number' = Number
    BY StepsKept DEF NextNumber, Created, Number, vars, Parts
  <1> QED BY <1>1, ShapeKept DEF TypeInv, CmdFits, vars

LEMMA IdleHasNoStep ==
  ASSUME cmd = Idle
  PROVE  ~RunSteps /\ ~RollbackSteps
  <1>1. cmd.pc = "idle"
    BY DEF Idle
  <1> QED
    BY <1>1 DEF RunSteps, RollbackSteps, ReadRecord, TakeLockUpFront, CarryOver, Skip, Probe,
         RunStep, RecordStep, FailStep, ProbeFails, Finish, Killed, StartTail, QueuedStep,
         EndRollback, AtStep, AtQueued, Due

LEMMA TypeKept ==
  ASSUME TypeInv, [Next]_vars
  PROVE  TypeInv'
  <1>1. CASE Commands
    BY <1>1, StartTyped
  <1>2. CASE RunSteps
    BY <1>2, IdleHasNoStep, ReadRecordTyped, TakeLockTyped, AdvanceTyped, ProbeTyped,
       RunStepTyped, RecordStepTyped, FailTyped, FinishTyped, KilledTyped DEF RunSteps
  <1>3. CASE RollbackSteps
    BY <1>3, IdleHasNoStep, RollbackStepsTyped DEF RollbackSteps
  <1>4. CASE Environment
    BY <1>4, EnvironmentTyped
  <1>5. CASE UNCHANGED vars
    BY <1>5, StutterTyped
  <1> QED BY <1>1, <1>2, <1>3, <1>4, <1>5 DEF Next

LEMMA InitTyped ==
  ASSUME Init
  PROVE  TypeInv
  <1>1. PICK first \in {0, 1} :
          /\ served = AllOf(first)
          /\ rec = [n \in Number |->
                      IF n > first THEN NewRecord
                      ELSE [NewRecord EXCEPT !.status = "ok",
                              !.task = [t \in DOMAIN @ |-> "ok"]]]
    BY DEF Init
  <1>2. [NewRecord EXCEPT !.status = "ok", !.task = [t \in DOMAIN @ |-> "ok"]] \in RecordType
    BY DEF NewRecord, RecordType, Outcome, Verdict
  <1>3. rec \in [Number -> RecordType]
    BY <1>1, <1>2, NewRecordTyped
  <1>4. served \in [Parts -> 0 .. MaxRelease]
    BY <1>1, PublishWindowAssumption DEF AllOf
  <1>5. setup \in DOMAIN Setups /\ Project.faults \in Nat
    BY PublishWindowAssumption DEF Init, Project
  <1> QED BY <1>3, <1>4, <1>5 DEF Init, TypeInv

\* The state keeps its type: the index of a run stays in the plan it runs, also
\* when a rollback's queue and with it the tail change, and a release number is
\* taken only while there is one.
THEOREM TypeCorrect == Spec => []TypeOK
  <1>1. Init => TypeInv
    BY InitTyped
  <1>2. TypeInv /\ [Next]_vars => TypeInv'
    BY TypeKept
  <1>3. TypeInv => TypeOK
    <2> SUFFICES ASSUME TypeInv
                 PROVE  TypeOK
      OBVIOUS
    <2> QED BY DEF TypeInv, TypeOK, CmdFits, CmdType
  <1> QED BY <1>1, <1>2, <1>3, PTL DEF Spec

\* Whatever the recipe, the shaping of a plan moves the artifact and the end of
\* the window and nothing else: every declared task and every hook is in the
\* plan once, the tasks in canonical order (ForBuildMode, ForPublishStrategy).
THEOREM TasksKeepTheirOrder == Spec => []PlanIsInOrder[setup]
  <1>1. Init => TypeInv
    BY InitTyped
  <1>2. TypeInv /\ [Next]_vars => TypeInv'
    BY TypeKept
  <1>3. TypeInv => PlanIsInOrder[setup]
    BY TasksAreInOrder DEF TypeInv
  <1> QED BY <1>1, <1>2, <1>3, PTL DEF Spec

\* Where no hook cuts in, the hooks after one task or one hook keep their order
\* as well, through every pass of insertHooks and both rewrites of the plan.
THEOREM PlanIsKept ==
          Spec /\ (\A i \in DOMAIN Setups : NoneCutsIn(Setups[i].hooks)) => []PlanKeepsItsOrder
  <1> DEFINE NoCut == \A i \in DOMAIN Setups : NoneCutsIn(Setups[i].hooks)
  <1>1. Init => TypeInv
    BY InitTyped
  <1>2. TypeInv /\ [Next]_vars => TypeInv'
    BY TypeKept
  <1>3. TypeInv /\ NoCut => PlanKeepsItsOrder
    BY TasksAreInOrder, HooksStayInOrder DEF TypeInv, PlanKeepsItsOrder
  <1>4. NoCut => NoCut'
    OBVIOUS
  <1> QED BY <1>1, <1>2, <1>3, <1>4, PTL DEF Spec

-----------------------------------------------------------------------------
(* What each step of a run leaves in the command. *)

\* The fields that no step of a run changes once it has read the record.
SameRun ==
  /\ cmd'.carried = cmd.carried /\ cmd'.passed = cmd.passed
  /\ cmd'.rollback = cmd.rollback /\ cmd'.by = cmd.by
  /\ cmd'.original = cmd.original /\ cmd'.queue = cmd.queue
  /\ cmd' # Idle

SameVerdict ==
  cmd'.probed = cmd.probed /\ cmd'.required = cmd.required /\ cmd'.window = cmd.window

LEMMA PlanKept ==
  ASSUME setup' = setup
  PROVE  /\ Plan' = Plan /\ Project' = Project /\ Symlink' = Symlink
         /\ cmd'.rollback = cmd.rollback /\ cmd'.queue = cmd.queue => Steps' = Steps
         /\ cmd'.rollback = cmd.rollback /\ cmd'.queue = cmd.queue /\ cmd'.idx = cmd.idx
              => Step' = Step
  BY ShapeKept, StepsKept DEF Step

LEMMA ReadRecordIs ==
  ASSUME TypeInv, cmd # Idle, ReadRecord
  PROVE  /\ cmd.pc = "resume" /\ cmd'.pc = "head" /\ cmd'.num = cmd.num /\ cmd'.idx = cmd.idx
         /\ cmd'.mem = cmd.mem /\ cmd'.held = cmd.held /\ cmd'.good = cmd.good
         /\ cmd'.required = cmd.required /\ cmd'.window = cmd.window
         /\ cmd'.passed = cmd.passed /\ cmd'.rollback = cmd.rollback /\ cmd' # Idle
         /\ cmd'.by = cmd.by /\ cmd'.original = cmd.original /\ cmd'.queue = cmd.queue
         /\ \/ /\ cmd'.carried = Succeeded \ Again(cmd.passed)
               /\ cmd'.probed = (rec[cmd.num].verdict = "migrate")
            \/ /\ Project.lossy /\ cmd'.carried = cmd.carried /\ cmd'.probed = cmd.probed
         /\ UNCHANGED <<setup, served, flags, db, rec, lock>>
  <1> DEFINE X == Succeeded \ Again(cmd.passed)
             v == rec[cmd.num].verdict = "migrate"
             a == [cmd EXCEPT !.pc = "head", !.carried = X, !.probed = v]
             b == [cmd EXCEPT !.pc = "head"]
  <1>1. cmd' = a \/ (Project.lossy /\ cmd' = b)
    BY DEF ReadRecord
  <1>2. cmd.pc = "resume" /\ UNCHANGED <<setup, served, flags, db, rec, lock>>
    BY DEF ReadRecord
  <1>3. ASSUME cmd' = a
        PROVE  /\ cmd'.pc = "head" /\ cmd'.num = cmd.num /\ cmd'.idx = cmd.idx
               /\ cmd'.mem = cmd.mem /\ cmd'.held = cmd.held /\ cmd'.good = cmd.good
               /\ cmd'.required = cmd.required /\ cmd'.window = cmd.window
               /\ cmd'.passed = cmd.passed /\ cmd'.rollback = cmd.rollback
               /\ cmd'.by = cmd.by /\ cmd'.original = cmd.original /\ cmd'.queue = cmd.queue
               /\ cmd'.carried = X /\ cmd'.probed = v
    <2>1. v \in BOOLEAN
      OBVIOUS
    <2> HIDE DEF X, v
    <2> QED BY <1>3, <2>1, CmdIs DEF CmdType
  <1>4. ASSUME cmd' = b
        PROVE  /\ cmd'.pc = "head" /\ cmd'.num = cmd.num /\ cmd'.idx = cmd.idx
               /\ cmd'.mem = cmd.mem /\ cmd'.held = cmd.held /\ cmd'.good = cmd.good
               /\ cmd'.required = cmd.required /\ cmd'.window = cmd.window
               /\ cmd'.passed = cmd.passed /\ cmd'.rollback = cmd.rollback
               /\ cmd'.by = cmd.by /\ cmd'.original = cmd.original /\ cmd'.queue = cmd.queue
               /\ cmd'.carried = cmd.carried /\ cmd'.probed = cmd.probed
    BY <1>4, CmdIs DEF CmdType
  <1>5. cmd' # Idle
    BY <1>1, <1>3, <1>4 DEF Idle
  <1> QED BY <1>1, <1>2, <1>3, <1>4, <1>5

LEMMA TakeLockIs ==
  ASSUME TypeInv, cmd # Idle, TakeLockUpFront
  PROVE  /\ cmd.pc = "head"
         /\ cmd' # Idle =>
              /\ SameRun /\ SameVerdict /\ cmd'.pc = "run" /\ cmd'.num = cmd.num
              /\ cmd'.idx = cmd.idx /\ cmd'.mem = cmd.mem /\ cmd'.good = cmd.good
              /\ \/ "lock" \notin cmd.passed /\ cmd'.held = cmd.held /\ lock' = lock
                 \/ lock = "free" /\ cmd'.held /\ lock' = "ours"
         /\ cmd' = Idle => lock' = lock
         /\ UNCHANGED <<setup, served, flags, db, rec, faults>>
  <1>1. cmd' # Idle =>
          \/ "lock" \notin cmd.passed /\ lock' = lock /\ cmd' = [cmd EXCEPT !.pc = "run"]
          \/ /\ lock = "free" /\ lock' = "ours"
             /\ cmd' = [cmd EXCEPT !.pc = "run", !.held = TRUE]
    BY DEF TakeLockUpFront
  <1>2. ASSUME cmd' # Idle, "lock" \notin cmd.passed, lock' = lock, cmd' = [cmd EXCEPT !.pc = "run"]
        PROVE  /\ SameRun /\ SameVerdict /\ cmd'.pc = "run" /\ cmd'.num = cmd.num
               /\ cmd'.idx = cmd.idx /\ cmd'.mem = cmd.mem /\ cmd'.good = cmd.good
               /\ "lock" \notin cmd.passed /\ cmd'.held = cmd.held /\ lock' = lock
    BY <1>2, CmdIs DEF CmdType, SameRun, SameVerdict
  <1>3. ASSUME cmd' # Idle, lock = "free", lock' = "ours",
               cmd' = [cmd EXCEPT !.pc = "run", !.held = TRUE]
        PROVE  /\ SameRun /\ SameVerdict /\ cmd'.pc = "run" /\ cmd'.num = cmd.num
               /\ cmd'.idx = cmd.idx /\ cmd'.mem = cmd.mem /\ cmd'.good = cmd.good
               /\ lock = "free" /\ cmd'.held /\ lock' = "ours"
    BY <1>3, CmdIs DEF CmdType, SameRun, SameVerdict
  <1>4. cmd' = Idle => lock' = lock
    <2>1. [cmd EXCEPT !.pc = "run"].pc = "run" /\ [cmd EXCEPT !.pc = "run", !.held = TRUE].pc = "run"
      BY CmdIs DEF CmdType
    <2>2. Idle.pc = "idle"
      BY DEF Idle
    <2>3. cmd' \in {[cmd EXCEPT !.pc = "run"], [cmd EXCEPT !.pc = "run", !.held = TRUE]}
          \/ lock' = lock
      BY DEF TakeLockUpFront
    <2> QED BY <2>1, <2>2, <2>3
  <1> QED BY <1>1, <1>2, <1>3, <1>4 DEF TakeLockUpFront

LEMMA AdvanceIs ==
  ASSUME TypeInv, cmd # Idle, NEW mem, Advance(mem)
  PROVE  /\ SameRun /\ SameVerdict /\ cmd'.pc = "run" /\ cmd'.num = cmd.num
         /\ cmd'.idx = cmd.idx + 1 /\ cmd'.mem = mem /\ cmd'.held = cmd.held
         /\ cmd'.good = cmd.good
  <1> DEFINE i == cmd.idx + 1
  <1>1. cmd' = [cmd EXCEPT !.pc = "run", !.idx = i, !.mem = mem]
    BY CmdIs DEF Advance, CmdType
  <1>2. i = cmd.idx + 1
    OBVIOUS
  <1> HIDE DEF i
  <1>3. /\ cmd'.pc = "run" /\ cmd'.num = cmd.num /\ cmd'.idx = i /\ cmd'.mem = mem
        /\ cmd'.held = cmd.held /\ cmd'.good = cmd.good
    BY <1>1, CmdIs DEF CmdType
  <1>4. SameVerdict
    BY <1>1, CmdIs DEF CmdType, SameVerdict
  <1>5. SameRun
    <2>1. cmd' # Idle
      BY <1>3 DEF Idle
    <2> QED BY <1>1, <2>1, CmdIs DEF CmdType, SameRun
  <1> QED BY <1>2, <1>3, <1>4, <1>5

LEMMA ProbeIs ==
  ASSUME TypeInv, cmd # Idle, Probe
  PROVE  /\ SameRun /\ cmd'.pc = "run" /\ cmd.pc = "run" /\ cmd'.num = cmd.num
         /\ cmd'.idx = cmd.idx /\ cmd'.held = cmd.held /\ cmd'.good = cmd.good
         /\ cmd'.probed /\ cmd'.required = (db # "current")
         /\ cmd'.window = (cmd.window /\ ~WindowDropped(db # "current"))
         /\ cmd'.mem = [cmd.mem EXCEPT !.verdict = IF db # "current" THEN "migrate" ELSE "skip"]
         /\ StoreAfter(cmd.num, cmd'.mem, 0)
         /\ AtStep /\ ProbeIsDue
         /\ UNCHANGED <<setup, served, flags, db, lock>>
  <1> DEFINE required == db # "current"
             m == [cmd.mem EXCEPT !.verdict = IF required THEN "migrate" ELSE "skip"]
             w == cmd.window /\ ~WindowDropped(required)
  <1>1. /\ cmd' = [cmd EXCEPT !.probed = TRUE, !.required = required, !.mem = m,
                              !.window = w]
        /\ StoreAfter(cmd.num, m, 0) /\ AtStep /\ ProbeIsDue
        /\ UNCHANGED <<setup, served, flags, db, lock>>
    BY CmdIs DEF Probe, Store, CmdType
  <1>2. cmd.pc = "run"
    BY <1>1 DEF AtStep
  <1>3. required \in BOOLEAN /\ w \in BOOLEAN
    BY DEF WindowDropped
  <1>4. /\ cmd'.pc = "run" /\ cmd'.num = cmd.num /\ cmd'.idx = cmd.idx
        /\ cmd'.held = cmd.held /\ cmd'.good = cmd.good
        /\ cmd'.probed /\ cmd'.required = required /\ cmd'.mem = m /\ cmd'.window = w
    <2> HIDE DEF required, m, w
    <2> QED BY <1>1, <1>2, <1>3, CmdIs DEF CmdType
  <1>5. SameRun
    <2> HIDE DEF required, m, w
    <2>1. cmd' # Idle
      BY <1>4 DEF Idle
    <2> QED BY <1>1, <2>1, CmdIs DEF CmdType, SameRun
  <1> QED BY <1>1, <1>2, <1>4, <1>5

LEMMA RunStepIs ==
  ASSUME TypeInv, cmd # Idle, RunStep
  PROVE  \E good \in BOOLEAN :
         /\ SameRun /\ SameVerdict /\ cmd'.pc = "write" /\ cmd.pc = "run"
         /\ cmd'.num = (IF good THEN NumberAfter ELSE cmd.num)
         /\ cmd'.idx = cmd.idx /\ cmd'.mem = cmd.mem /\ cmd'.held = cmd.held
         /\ cmd'.good = good
         /\ Attempt(Step.id, cmd.num, good)
         /\ lock' = CASE Step.id = "lock" /\ good -> "ours"
                      [] Step.id = "unlock" /\ good -> "free"
                      [] OTHER -> lock
         /\ Due /\ AtStep /\ ~NeedsNumber
         /\ UNCHANGED <<setup, rec>>
  <1>1. PICK good \in BOOLEAN :
          /\ Attempt(Step.id, cmd.num, good)
          /\ lock' = CASE Step.id = "lock" /\ good -> "ours"
                       [] Step.id = "unlock" /\ good -> "free"
                       [] OTHER -> lock
          /\ cmd' = [cmd EXCEPT !.pc = "write", !.good = good,
                                !.num = IF good THEN NumberAfter ELSE @]
    BY DEF RunStep
  <1>2. Due /\ AtStep /\ ~NeedsNumber /\ cmd.pc = "run" /\ UNCHANGED <<setup, rec>>
    BY DEF RunStep, Due, AtStep
  <1> DEFINE n == IF good THEN NumberAfter ELSE cmd.num
  <1>3. cmd' = [cmd EXCEPT !.pc = "write", !.good = good, !.num = n]
    BY <1>1, CmdIs DEF CmdType
  <1>4. /\ SameVerdict /\ cmd'.pc = "write" /\ cmd'.num = n /\ cmd'.idx = cmd.idx
        /\ cmd'.mem = cmd.mem /\ cmd'.held = cmd.held /\ cmd'.good = good
    <2> HIDE DEF n
    <2> QED BY <1>3, CmdIs DEF CmdType, SameVerdict
  <1>5. SameRun
    <2>1. cmd' # Idle
      BY <1>4 DEF Idle
    <2> HIDE DEF n
    <2> QED BY <1>3, <2>1, CmdIs DEF CmdType, SameRun
  <1>6. WITNESS good \in BOOLEAN
  <1> QED BY <1>1, <1>2, <1>4, <1>5

LEMMA RecordStepIs ==
  ASSUME TypeInv, cmd # Idle, RecordStep
  PROVE  /\ SameRun /\ SameVerdict /\ cmd.pc = "write" /\ cmd'.pc = "run" /\ cmd.good
         /\ cmd'.num = cmd.num /\ cmd'.idx = cmd.idx + 1 /\ cmd'.mem = Record("ok")
         /\ cmd'.held = (cmd.held \/ Step.id = "lock") /\ cmd'.good = cmd.good
         /\ StoreAfter(cmd.num, Record("ok"), 0)
         /\ UNCHANGED <<setup, served, flags, db, lock>>
  <1> DEFINE m == Record("ok")
             i == cmd.idx + 1
             h == cmd.held \/ Step.id = "lock"
  <1>1. /\ cmd' = [cmd EXCEPT !.pc = "run", !.idx = i, !.mem = m, !.held = h]
        /\ i \in Nat \ {0} /\ h \in BOOLEAN
    BY CmdIs DEF RecordStep, CmdType
  <1>2. /\ SameVerdict /\ cmd'.pc = "run" /\ cmd'.num = cmd.num /\ cmd'.idx = i
        /\ cmd'.mem = m /\ cmd'.held = h /\ cmd'.good = cmd.good
    <2> HIDE DEF m, i, h
    <2> QED BY <1>1, CmdIs DEF CmdType, SameVerdict
  <1>3. SameRun
    <2>1. cmd' # Idle
      BY <1>2 DEF Idle
    <2> HIDE DEF m, i, h
    <2> QED BY <1>1, <2>1, CmdIs DEF CmdType, SameRun
  <1> QED BY <1>2, <1>3 DEF RecordStep, Store

-----------------------------------------------------------------------------
(* The lock. *)

\* deploy:unlock is still to come.
BeforeUnlock ==
  \A k \in DOMAIN Plan :
    Plan[k].id = "unlock" =>
      cmd.idx < k \/ (cmd.idx = k /\ ~(cmd.pc = "write" /\ cmd.good))

\* A deploy past deploy:lock remembers that it holds the lock, and until its
\* unlock it does.
HeldFits ==
  cmd # Idle /\ ~cmd.rollback =>
    /\ cmd.pc \in {"resume", "head"} => cmd.idx = 1 /\ ~cmd.held
    /\ "lock" \notin cmd.carried
    /\ \A k \in DOMAIN Plan : Plan[k].id = "lock" /\ k < cmd.idx => cmd.held
    /\ cmd.pc \in {"run", "write"} /\ "lock" \in cmd.passed => cmd.held
    /\ cmd.pc = "write" /\ cmd.good /\ Step.id = "lock" => lock = "ours"
    /\ cmd.held /\ BeforeUnlock => lock = "ours"

LEMMA StepIsOfThePlan ==
  ASSUME TypeInv, cmd # Idle, ~cmd.rollback, cmd.pc = "write" \/ AtStep
  PROVE  /\ cmd.idx \in DOMAIN Plan /\ Step = Plan[cmd.idx] /\ Steps = Plan
         /\ cmd.idx \in 1 .. Len(Plan)
  <1>1. cmd.idx \in DOMAIN Steps /\ cmd.idx \in 1 .. Len(Steps)
    BY StepTyped
  <1> QED BY <1>1 DEF Step, Steps

LEMMA PlanPositions ==
  ASSUME TypeInv
  PROVE  DOMAIN Plan = 1 .. Len(Plan) /\ Len(Plan) \in Nat
  BY PlanIs DEF IsSequence

\* The lock is not skipped, and nothing ahead of the unlock is where it is.
LEMMA LockIsNotSkipped ==
  ASSUME TypeInv, NEW k \in DOMAIN Plan, Plan[k].id = "lock"
  PROVE  Implemented(Plan[k]) /\ ~Plan[k].gated
  <1>1. LockedPlan(Plan)
    BY PlanIs
  <1>2. PICK j \in DOMAIN Plan : Plan[j].id = "lock" /\ Implemented(Plan[j])
    BY <1>1 DEF LockedPlan, Has
  <1>3. j = k
    BY <1>1, <1>2 DEF LockedPlan
  <1> QED BY <1>1, <1>2, <1>3, PlanPositions DEF LockedPlan

LEMMA HeldAfterRun ==
  ASSUME TypeInv, HeldFits, RunSteps, cmd # Idle, ~cmd.rollback
  PROVE  HeldFits'
  <1> SUFFICES ASSUME cmd' # Idle, ~cmd'.rollback
               PROVE  HeldFits'
    BY DEF HeldFits
  <1>1. cmd.idx \in Nat \ {0} /\ cmd.pc # "queue" /\ DOMAIN Plan = 1 .. Len(Plan)
    BY CmdIs, PlanPositions DEF CmdFits
  <1>2. CASE ReadRecord
    <2>1. cmd'.carried \subseteq cmd.carried \cup Succeeded
      BY <1>2, ReadRecordIs
    <2>2. "lock" \notin cmd'.carried
      BY <2>1 DEF HeldFits, Succeeded, ResumeAlwaysReruns
    <2>3. Plan' = Plan
      BY <1>2, ReadRecordIs, PlanKept
    <2>4. cmd.idx = 1 /\ ~cmd.held /\ cmd'.idx = 1 /\ ~cmd'.held /\ cmd'.pc = "head"
      BY <1>2, ReadRecordIs DEF HeldFits
    <2> QED BY <1>1, <2>2, <2>3, <2>4 DEF HeldFits
  <1>3. CASE TakeLockUpFront
    <2>1. cmd.idx = 1 /\ cmd'.idx = 1 /\ cmd'.pc = "run" /\ Plan' = Plan
          /\ cmd'.carried = cmd.carried /\ cmd'.passed = cmd.passed
      BY <1>3, TakeLockIs, PlanKept DEF HeldFits, SameRun
    <2>2. \/ "lock" \notin cmd'.passed /\ ~cmd'.held
          \/ cmd'.held /\ lock' = "ours"
      BY <1>3, <2>1, TakeLockIs DEF HeldFits
    <2> QED BY <1>1, <2>1, <2>2 DEF HeldFits
  <1>4. CASE CarryOver \/ Skip
    <2>1. PICK mem : Advance(mem)
      BY <1>4 DEF CarryOver, Skip
    <2>2. AtStep /\ setup' = setup /\ lock' = lock
      BY <1>4 DEF CarryOver, Skip
    <2>3. /\ cmd'.pc = "run" /\ cmd'.idx = cmd.idx + 1 /\ cmd'.held = cmd.held
          /\ cmd'.carried = cmd.carried /\ cmd'.passed = cmd.passed
          /\ Plan' = Plan /\ cmd.pc = "run"
      BY <2>1, <2>2, AdvanceIs, PlanKept DEF SameRun, AtStep
    <2>4. cmd.idx \in DOMAIN Plan /\ Step = Plan[cmd.idx]
      BY <2>2, StepIsOfThePlan
    <2>5. Step.id = "lock" => cmd.held
      <3>1. Step.id = "lock" => ~NotRun /\ ~Step.gated
        BY <2>4, LockIsNotSkipped DEF NotRun, Implemented
      <3>2. Step.id = "lock" => Skip /\ Step.id \in cmd.passed
        BY <1>4, <3>1 DEF CarryOver, Skip, HeldFits
      <3> QED BY <2>3, <3>2 DEF HeldFits
    <2>6. \A k \in DOMAIN Plan : Plan[k].id = "lock" /\ k < cmd'.idx => cmd'.held
      BY <1>1, <2>3, <2>4, <2>5 DEF HeldFits
    <2>7. BeforeUnlock' => BeforeUnlock
      BY <1>1, <2>3 DEF BeforeUnlock
    <2> QED BY <2>2, <2>3, <2>6, <2>7 DEF HeldFits
  <1>5. CASE Probe
    <2>1. /\ cmd'.pc = "run" /\ cmd.pc = "run" /\ cmd'.idx = cmd.idx /\ cmd'.held = cmd.held
          /\ cmd'.carried = cmd.carried /\ cmd'.passed = cmd.passed /\ lock' = lock
          /\ Plan' = Plan
      BY <1>5, ProbeIs, PlanKept DEF SameRun
    <2>2. BeforeUnlock' => BeforeUnlock
      BY <2>1 DEF BeforeUnlock
    <2> QED BY <2>1, <2>2 DEF HeldFits
  <1>6. CASE RunStep
    <2>1. PICK good \in BOOLEAN :
            /\ SameRun /\ cmd'.pc = "write" /\ cmd.pc = "run"
            /\ cmd'.idx = cmd.idx /\ cmd'.held = cmd.held /\ cmd'.good = good
            /\ lock' = CASE Step.id = "lock" /\ good -> "ours"
                         [] Step.id = "unlock" /\ good -> "free"
                         [] OTHER -> lock
            /\ AtStep /\ setup' = setup
      BY <1>6, RunStepIs
    <2>2. /\ cmd'.carried = cmd.carried /\ cmd'.passed = cmd.passed
          /\ Plan' = Plan /\ Step' = Step
      BY <2>1, PlanKept DEF SameRun
    <2>3. cmd.idx \in DOMAIN Plan /\ Step = Plan[cmd.idx]
      BY <2>1, StepIsOfThePlan
    <2>4. cmd'.good /\ Step'.id = "lock" => lock' = "ours"
      BY <2>1, <2>2
    <2>5. cmd'.held /\ BeforeUnlock' => lock' = "ours"
      <3>1. BeforeUnlock' => BeforeUnlock
        BY <2>1, <2>2 DEF BeforeUnlock
      <3>2. BeforeUnlock' => ~(Step.id = "unlock" /\ good)
        BY <1>1, <2>1, <2>2, <2>3 DEF BeforeUnlock
      <3> QED BY <2>1, <3>1, <3>2 DEF HeldFits
    <2> QED BY <2>1, <2>2, <2>4, <2>5 DEF HeldFits
  <1>7. CASE RecordStep
    <2>1. /\ cmd'.pc = "run" /\ cmd'.idx = cmd.idx + 1 /\ lock' = lock /\ cmd.pc = "write"
          /\ cmd'.held = (cmd.held \/ Step.id = "lock") /\ cmd.good
          /\ cmd'.carried = cmd.carried /\ cmd'.passed = cmd.passed /\ Plan' = Plan
      BY <1>7, RecordStepIs, PlanKept DEF SameRun
    <2>2. cmd.idx \in DOMAIN Plan /\ Step = Plan[cmd.idx]
      BY <2>1, StepIsOfThePlan
    <2>3. \A k \in DOMAIN Plan : Plan[k].id = "lock" /\ k < cmd'.idx => cmd'.held
      <3> SUFFICES ASSUME NEW k \in DOMAIN Plan, Plan[k].id = "lock", k < cmd'.idx
                   PROVE  cmd.held \/ Step.id = "lock"
        BY <2>1
      <3>1. k < cmd.idx \/ k = cmd.idx
        BY <1>1, <2>1
      <3>2. CASE k < cmd.idx
        BY <3>2 DEF HeldFits
      <3>3. CASE k = cmd.idx
        BY <2>2, <3>3
      <3> QED BY <3>1, <3>2, <3>3
    <2>4. cmd'.held /\ BeforeUnlock' => lock' = "ours"
      <3>1. BeforeUnlock' => BeforeUnlock
        BY <1>1, <2>1 DEF BeforeUnlock
      <3> QED BY <2>1, <3>1 DEF HeldFits
    <2> QED BY <2>1, <2>3, <2>4 DEF HeldFits
  <1>8. CASE FailStep \/ ProbeFails \/ Finish \/ Killed
    BY <1>8 DEF FailStep, ProbeFails, Finish, Killed, EndFailed
  <1> QED BY <1>2, <1>3, <1>4, <1>5, <1>6, <1>7, <1>8 DEF RunSteps

LEMMA RunningIs ==
  ASSUME NEW n \in 0 .. MaxRelease, NEW mem \in RecordType,
         NEW pc \in {"resume", "head"}, NEW passed \in SUBSET Ids(Plan),
         cmd' = [Running(n, mem) EXCEPT !.pc = pc, !.passed = passed]
  PROVE  /\ cmd'.pc = pc /\ cmd'.num = n /\ cmd'.idx = 1 /\ cmd'.mem = mem
         /\ cmd'.carried = {} /\ cmd'.passed = passed /\ cmd'.probed = FALSE
         /\ cmd'.required = TRUE /\ cmd'.window = TRUE /\ cmd'.held = FALSE
         /\ cmd'.rollback = FALSE /\ cmd' # Idle
  <1> DEFINE r == Running(n, mem)
  <1>1. r \in CmdType
    BY RunningTyped
  <1>2. /\ r.num = n /\ r.idx = 1 /\ r.mem = mem /\ r.carried = {} /\ r.probed = FALSE
        /\ r.required = TRUE /\ r.window = TRUE /\ r.held = FALSE /\ r.rollback = FALSE
    BY DEF Running
  <1>3. cmd' = [r EXCEPT !.pc = pc, !.passed = passed]
    OBVIOUS
  <1> HIDE DEF r
  <1>4. /\ cmd'.pc = pc /\ cmd'.num = n /\ cmd'.idx = 1 /\ cmd'.mem = mem
        /\ cmd'.carried = {} /\ cmd'.passed = passed /\ cmd'.probed = FALSE
        /\ cmd'.required = TRUE /\ cmd'.window = TRUE /\ cmd'.held = FALSE
        /\ cmd'.rollback = FALSE
    BY <1>1, <1>2, <1>3 DEF CmdType
  <1>5. Idle.pc = "idle"
    BY DEF Idle
  <1> QED BY <1>4, <1>5

LEMMA DeployStartIs ==
  ASSUME TypeInv,
         NEW from, StartDeploy(from) \/ StartResume(from)
  PROVE  \E n \in 0 .. MaxRelease, mem \in RecordType :
           /\ cmd'.num = n /\ cmd'.idx = 1 /\ cmd'.mem = mem
           /\ cmd'.carried = {} /\ cmd'.passed = Before(from) /\ cmd'.probed = FALSE
           /\ cmd'.required = TRUE /\ cmd'.window = TRUE /\ cmd'.held = FALSE
           /\ cmd'.rollback = FALSE /\ cmd' # Idle
           /\ \/ /\ cmd'.pc = "head" /\ n = 0 /\ lock' = lock
                 /\ mem = [NewRecord EXCEPT !.status = "running"]
              \/ /\ cmd'.pc = "resume" /\ n \in IncompleteRelease /\ mem = rec[n]
                 /\ ~(served["code"] \in Created /\ n < served["code"])
                 /\ lock' = "free" /\ lock # "other" /\ db' = db
  <1>1. Before(from) \in SUBSET Ids(Plan)
    BY BeforeIsOfThePlan, PlanIs
  <1>2. CASE StartDeploy(from)
    <2> DEFINE m == [NewRecord EXCEPT !.status = "running"]
    <2> m \in RecordType /\ 0 \in 0 .. MaxRelease
      BY NewRecordTyped, PublishWindowAssumption
    <2>2. cmd' = [Running(0, m) EXCEPT !.pc = "head", !.passed = Before(from)]
          /\ lock' = lock
      BY <1>2 DEF StartDeploy
    <2>3. WITNESS 0 \in 0 .. MaxRelease, m \in RecordType
    <2> HIDE DEF m
    <2> QED BY <1>1, <2>2, RunningIs DEF m
  <1>3. CASE StartResume(from)
    <2>1. PICK n \in IncompleteRelease :
            /\ ~(served["code"] \in Created /\ n < served["code"])
            /\ cmd' = [Running(n, rec[n]) EXCEPT !.pc = "resume", !.passed = Before(from)]
      BY <1>3 DEF StartResume
    <2> n \in 0 .. MaxRelease /\ rec[n] \in RecordType
      BY PublishWindowAssumption DEF IncompleteRelease, Incomplete, Number, TypeInv
    <2>3. lock' = "free" /\ lock # "other" /\ db' = db
      BY <1>3 DEF StartResume
    <2>4. WITNESS n \in 0 .. MaxRelease, rec[n] \in RecordType
    <2> QED BY <1>1, <2>1, <2>3, RunningIs
  <1> QED BY <1>2, <1>3

LEMMA RollbackStartIs ==
  ASSUME TypeInv, NEW n \in Number, NEW by \in Rollers, NEW withDB \in WithDB,
         StartRollback(n, by, withDB)
  PROVE  /\ cmd'.pc = "queue" /\ cmd'.num = n /\ cmd'.idx = 1 /\ cmd'.mem = rec[n]
         /\ cmd'.original = rec[n] /\ cmd'.rollback = TRUE /\ cmd'.by = by
         /\ cmd'.queue = RollbackQueue(by, withDB) /\ cmd'.held = FALSE /\ cmd' # Idle
         /\ cmd = Idle /\ lock = "free" /\ lock' = "ours"
  <1> DEFINE r == Running(n, rec[n])
             Q == RollbackQueue(by, withDB)
  <1>1. n \in 0 .. MaxRelease /\ rec[n] \in RecordType /\ by \in {"cli", "desktop"}
    BY PublishWindowAssumption DEF Number, TypeInv
  <1>2. r \in CmdType /\ Q \in Seq(Queued)
    BY <1>1, RunningTyped, QueueTyped
  <1>3. r.num = n /\ r.idx = 1 /\ r.mem = rec[n] /\ r.original = rec[n] /\ r.held = FALSE
    BY DEF Running
  <1>4. /\ cmd' = [r EXCEPT !.pc = "queue", !.rollback = TRUE, !.by = by, !.queue = Q]
        /\ cmd = Idle /\ lock = "free" /\ lock' = "ours"
    BY DEF StartRollback
  <1> HIDE DEF r, Q
  <1>5. /\ cmd'.pc = "queue" /\ cmd'.num = n /\ cmd'.idx = 1 /\ cmd'.mem = rec[n]
        /\ cmd'.original = rec[n] /\ cmd'.rollback = TRUE /\ cmd'.by = by
        /\ cmd'.queue = Q /\ cmd'.held = FALSE
    BY <1>1, <1>2, <1>3, <1>4 DEF CmdType
  <1>6. Idle.pc = "idle"
    BY DEF Idle
  <1> QED BY <1>4, <1>5, <1>6 DEF Q

\* A rollback stays one until it ends.
LEMMA RollbackStays ==
  ASSUME TypeInv, cmd # Idle, cmd.rollback, RunSteps \/ RollbackSteps
  PROVE  cmd' = Idle \/ cmd'.rollback
  <1>1. CASE ReadRecord \/ TakeLockUpFront
    BY <1>1, ReadRecordIs, TakeLockIs DEF SameRun
  <1>2. CASE CarryOver \/ Skip
    <2>1. PICK mem : Advance(mem)
      BY <1>2 DEF CarryOver, Skip
    <2> QED BY <2>1, AdvanceIs DEF SameRun
  <1>3. CASE Probe \/ RunStep \/ RecordStep
    BY <1>3, ProbeIs, RunStepIs, RecordStepIs DEF SameRun
  <1>4. CASE FailStep \/ ProbeFails
    BY <1>4, CmdIs, TailFailedIs DEF FailStep, ProbeFails, EndFailed
  <1>5. CASE Finish
    <2>1. cmd' \in {Idle, TailFailed, [cmd EXCEPT !.pc = "queue"]}
      BY <1>5 DEF Finish
    <2>2. [cmd EXCEPT !.pc = "queue"].rollback = cmd.rollback
      BY CmdIs DEF CmdType
    <2> QED BY <2>1, <2>2, CmdIs, TailFailedIs
  <1>6. CASE Killed
    BY <1>6 DEF Killed
  <1>7. CASE StartTail
    <2>1. cmd' = [cmd EXCEPT !.pc = "run", !.queue = Tail(@)]
      BY <1>7 DEF StartTail
    <2> QED BY <2>1, CmdIs DEF CmdType
  <1>8. CASE QueuedStep
    <2>1. PICK q : cmd' = [cmd EXCEPT !.queue = q]
      BY <1>8, CmdIs DEF QueuedStep, CmdType
    <2> QED BY <2>1, CmdIs DEF CmdType
  <1>9. CASE EndRollback
    BY <1>9 DEF EndRollback
  <1> QED
    BY <1>1, <1>2, <1>3, <1>4, <1>5, <1>6, <1>7, <1>8, <1>9 DEF RunSteps, RollbackSteps

LEMMA RollbackStepsAreOfOne ==
  ASSUME TypeInv, cmd # Idle, RollbackSteps
  PROVE  cmd.rollback
  BY CmdIs DEF RollbackSteps, StartTail, QueuedStep, EndRollback, AtQueued, CmdFits

LEMMA HeldAfterStart ==
  ASSUME TypeInv, Commands
  PROVE  HeldFits'
  <1>1. CASE \E from \in Project.froms : StartDeploy(from) \/ StartResume(from)
    <2>1. PICK from : StartDeploy(from) \/ StartResume(from)
      BY <1>1
    <2>2. /\ cmd'.idx = 1 /\ cmd'.carried = {} /\ cmd'.held = FALSE
          /\ cmd'.pc \in {"head", "resume"}
      BY <2>1, DeployStartIs
    <2>3. DOMAIN Plan' = 1 .. Len(Plan)
      BY <2>1, PlanPositions, PlanKept DEF StartDeploy, StartResume
    <2> QED BY <2>2, <2>3, PlanPositions DEF HeldFits
  <1>2. CASE \E n \in Number, by \in Rollers, withDB \in WithDB :
               StartRollback(n, by, withDB)
    BY <1>2, RollbackStartIs DEF HeldFits
  <1> QED BY <1>1, <1>2 DEF Commands

LEMMA HeldKept ==
  ASSUME TypeInv, HeldFits, [Next]_vars
  PROVE  HeldFits'
  <1>1. CASE Commands
    BY <1>1, HeldAfterStart
  <1>2. CASE RunSteps \/ RollbackSteps
    <2>1. cmd # Idle
      BY <1>2, IdleHasNoStep
    <2>2. CASE cmd.rollback
      BY <1>2, <2>1, <2>2, RollbackStays DEF HeldFits
    <2>3. CASE ~cmd.rollback
      BY <1>2, <2>1, <2>3, RollbackStepsAreOfOne, HeldAfterRun
    <2> QED BY <2>2, <2>3
  <1>3. CASE Environment
    <2>1. UNCHANGED <<setup, cmd>> /\ (cmd = Idle \/ lock # "ours")
      BY <1>3 DEF Environment, Unlock, DatabaseMoves, OtherTakesTheLock, OtherReleasesTheLock
    <2>2. Plan' = Plan /\ Step' = Step
      BY <2>1, PlanKept
    <2>3. BeforeUnlock' => BeforeUnlock
      BY <2>1, <2>2 DEF BeforeUnlock
    <2> QED BY <2>1, <2>2, <2>3 DEF HeldFits
  <1>4. CASE UNCHANGED vars
    <2>1. Plan' = Plan /\ Step' = Step /\ UNCHANGED <<cmd, lock>>
      BY <1>4, PlanKept DEF vars
    <2> QED BY <2>1 DEF HeldFits, BeforeUnlock
  <1> QED BY <1>1, <1>2, <1>3, <1>4 DEF Next

\* A step of the plan between deploy:lock and deploy:unlock runs under the lock.
LEMMA LockedSteps ==
  ASSUME TypeInv, HeldFits, cmd # Idle, ~cmd.rollback, AtStep \/ cmd.pc = "write"
  PROVE  /\ Step.id \in {"enable", "migrate", "activate", "disable"} => lock = "ours"
         /\ cmd.held /\ Step.stage \in {"prepare", "build"} => lock = "ours"
         /\ cmd.held /\ cmd.pc = "run" /\ Step.id = "unlock" => lock = "ours"
  <1>1. cmd.idx \in DOMAIN Plan /\ Step = Plan[cmd.idx] /\ DOMAIN Plan = 1 .. Len(Plan)
    BY StepIsOfThePlan, PlanPositions
  <1>2. LockedPlan(Plan)
    BY PlanIs
  <1>3. ASSUME Step.id \in {"enable", "migrate", "activate", "disable"}
        PROVE  lock = "ours"
    <2>1. PICK k \in DOMAIN Plan : Plan[k].id = "lock"
      BY <1>2 DEF LockedPlan, Has
    <2>2. k < cmd.idx
      BY <1>1, <1>2, <1>3, <2>1 DEF LockedPlan, Precedes
    <2>3. cmd.held
      BY <2>1, <2>2 DEF HeldFits
    <2>4. BeforeUnlock
      BY <1>1, <1>2, <1>3 DEF LockedPlan, Precedes, BeforeUnlock
    <2> QED BY <2>3, <2>4 DEF HeldFits
  <1>4. ASSUME cmd.held, Step.stage \in {"prepare", "build"}
        PROVE  lock = "ours"
    <2>1. \A k \in DOMAIN Plan : Plan[k].id = "unlock" => ~(k <= cmd.idx)
      BY <1>1, <1>2, <1>4 DEF LockedPlan
    <2>2. BeforeUnlock
      BY <1>1, <2>1 DEF BeforeUnlock
    <2> QED BY <1>4, <2>2 DEF HeldFits
  <1>5. ASSUME cmd.held, cmd.pc = "run", Step.id = "unlock"
        PROVE  lock = "ours"
    <2>1. BeforeUnlock
      BY <1>1, <1>2, <1>5 DEF LockedPlan, BeforeUnlock
    <2> QED BY <1>5, <2>1 DEF HeldFits
  <1> QED BY <1>3, <1>4, <1>5

\* What an attempt at a step changes of the target, and which step it is.
LEMMA EffectIsOf ==
  ASSUME NEW id, NEW n, NEW good, Attempt(id, n, good)
  PROVE  /\ flags' # flags => id \in {"enable", "disable"}
         /\ served' # served => id = "activate"
         /\ db' # db => id \in {"migrate", "restore"}
  BY DEF Attempt, Effect, FlagAfter, DBAfter

LEMMA StepIsNoRestore ==
  ASSUME TypeInv, cmd # Idle, ~cmd.rollback, AtStep
  PROVE  Step.id # "restore"
  BY StepTyped, PlanIs DEF LockedPlan

LEMMA LockedChanges ==
  ASSUME TypeInv, HeldFits, [Next]_vars, cmd # Idle,
         <<served, flags, db>>' # <<served, flags, db>>
  PROVE  lock = "ours"
  <1>1. CASE cmd.rollback
    BY <1>1, CmdIs DEF CmdFits
  <1>2. CASE ~cmd.rollback
    <2>1. ~Commands /\ ~Environment /\ ~UNCHANGED vars
      BY DEF Commands, StartDeploy, StartResume, StartRollback, Environment, Unlock,
             DatabaseMoves, OtherTakesTheLock, OtherReleasesTheLock, vars
    <2>2. ~RollbackSteps
      BY <1>2, RollbackStepsAreOfOne
    <2>3. RunStep
      BY <2>1, <2>2 DEF Next, RunSteps, ReadRecord, TakeLockUpFront, CarryOver, Skip, Probe,
         RecordStep, FailStep, ProbeFails, Finish, Killed
    <2>4. AtStep /\ \E good \in BOOLEAN : Attempt(Step.id, cmd.num, good)
      BY <2>3 DEF RunStep, Due
    <2>5. Step.id \in {"enable", "migrate", "activate", "disable"}
      BY <1>2, <2>4, EffectIsOf, StepIsNoRestore
    <2> QED BY <1>2, <2>4, <2>5, LockedSteps
  <1> QED BY <1>1, <1>2

LEMMA OthersLockStays ==
  ASSUME TypeInv, HeldFits, [Next]_vars, lock = "other", lock' # "other"
  PROVE  OtherReleasesTheLock
  <1>1. ~Commands
    BY DEF Commands, StartDeploy, StartResume, StartRollback
  <1>2. ~(RunSteps \/ RollbackSteps)
    <2> SUFFICES ASSUME RunSteps \/ RollbackSteps
                 PROVE  FALSE
      OBVIOUS
    <2>1. cmd # Idle
      BY IdleHasNoStep
    <2>2. ~cmd.rollback
      BY <2>1, CmdIs DEF CmdFits
    <2>3. RunSteps
      BY <2>1, <2>2, RollbackStepsAreOfOne
    <2>4. CASE RunStep
      <3>1. PICK good \in BOOLEAN :
              /\ Attempt(Step.id, cmd.num, good)
              /\ lock' = CASE Step.id = "lock" /\ good -> "ours"
                           [] Step.id = "unlock" /\ good -> "free"
                           [] OTHER -> lock
        BY <2>4 DEF RunStep
      <3>2. AtStep /\ cmd.pc = "run" /\ (Step.id = "unlock" => cmd.held)
        BY <2>4 DEF RunStep, Due, AtStep
      <3>3. Step.id # "lock" \/ ~good
        BY <3>1 DEF Attempt, Possible
      <3>4. Step.id = "unlock"
        BY <3>1, <3>3
      <3> QED BY <2>1, <2>2, <3>2, <3>4, LockedSteps
    <2>5. CASE FailStep \/ ProbeFails
      <3>1. \E mem, cost : EndFailed(mem, cost)
        BY <2>5 DEF FailStep, ProbeFails
      <3>2. cmd.held /\ ~LockKeptOnFailure
        BY <2>2, <3>1 DEF EndFailed
      <3>3. AtStep \/ cmd.pc = "write"
        BY <2>5 DEF FailStep, ProbeFails, Due
      <3> QED BY <2>1, <2>2, <3>2, <3>3, LockedSteps DEF LockKeptOnFailure
    <2>6. ~(ReadRecord \/ TakeLockUpFront \/ CarryOver \/ Skip \/ Probe \/ RecordStep
              \/ Finish \/ Killed)
      BY DEF ReadRecord, TakeLockUpFront, CarryOver, Skip, Probe, RecordStep, Finish, Killed
    <2> QED BY <2>3, <2>4, <2>5, <2>6 DEF RunSteps
  <1>3. CASE Environment
    BY <1>3 DEF Environment, Unlock, DatabaseMoves, OtherTakesTheLock
  <1> QED BY <1>1, <1>2, <1>3 DEF Next, vars

\* Whatever --from passes and whatever is lost, a command changes the target
\* under the lock only, and another machine's lock is left alone.
THEOREM TargetChangesUnderTheLock == Spec => ChangesUnderTheLock
  <1>1. Init => TypeInv /\ HeldFits
    BY InitTyped DEF Init, HeldFits
  <1>2. TypeInv /\ HeldFits /\ [Next]_vars => TypeInv' /\ HeldFits'
    BY TypeKept, HeldKept
  <1>3. TypeInv /\ HeldFits /\ [Next]_vars =>
          [/\ cmd # Idle /\ <<served, flags, db>>' # <<served, flags, db>> => lock = "ours"
           /\ lock = "other" /\ lock' # "other" => OtherReleasesTheLock]_vars
    BY LockedChanges, OthersLockStays
  <1> QED BY <1>1, <1>2, <1>3, PTL DEF Spec, ChangesUnderTheLock

-----------------------------------------------------------------------------
(* The migration. *)

PassedMigrate ==
  \/ \E k \in DOMAIN Plan : Plan[k].id = "migrate" /\ k < cmd.idx
  \/ cmd.pc = "write" /\ cmd.good /\ Step.id = "migrate"

\* The database a deploy works on moves by its own migration only, so what the
\* probe saw stays true, and a deploy past the migration has migrated or carries
\* the migration over.
MigrationFits ==
  cmd # Idle /\ ~cmd.rollback =>
    /\ "migrate" \notin cmd.passed
    /\ cmd.pc \in {"resume", "head"} => cmd.idx = 1
    /\ ~cmd.required => db = "current"
    /\ PassedMigrate => db # "behind" \/ "migrate" \in cmd.carried

LEMMA MigrateIs ==
  ASSUME TypeInv, MigratesFirst, NEW k \in DOMAIN Plan, Plan[k].id = "migrate"
  PROVE  /\ Implemented(Plan[k])
         /\ IndexOf(Plan, "migrate") = k
         /\ \A l \in DOMAIN Plan : Plan[l].id = "activate" => k < l
  <1>1. LockedPlan(Plan) /\ IsSequence(Plan) /\ setup \in DOMAIN Setups
    BY PlanIs DEF TypeInv
  <1>2. Has(Plan, {"migrate"}) /\ Precedes(Plan, "migrate", "activate")
    BY <1>1, MigrationIsFirst DEF MigratesFirst, Plan
  <1>3. PICK j \in DOMAIN Plan : Plan[j].id = "migrate" /\ Implemented(Plan[j])
    BY <1>2 DEF Has
  <1>4. j = k
    BY <1>1, <1>3 DEF LockedPlan
  <1>5. IndexOf(Plan, "migrate") = k
    <2>1. "migrate" \in Ids(Plan)
      BY DEF Ids
    <2>2. /\ IndexOf(Plan, "migrate") \in 1 .. Len(Plan)
          /\ Plan[IndexOf(Plan, "migrate")].id = "migrate"
      BY <1>1, <2>1, IndexOfIs DEF IsSequence
    <2> QED BY <1>1, <2>2 DEF LockedPlan, IsSequence
  <1> QED BY <1>2, <1>3, <1>4, <1>5 DEF Precedes

LEMMA MigrationAfterStart ==
  ASSUME TypeInv, MigratesFirst, Commands
  PROVE  MigrationFits'
  <1>1. CASE \E from \in Project.froms : StartDeploy(from) \/ StartResume(from)
    <2>1. PICK from \in Project.froms : StartDeploy(from) \/ StartResume(from)
      BY <1>1
    <2>2. /\ cmd'.idx = 1 /\ cmd'.passed = Before(from) /\ cmd'.required = TRUE
          /\ cmd'.pc \in {"head", "resume"}
      BY <2>1, DeployStartIs
    <2>3. Plan' = Plan /\ DOMAIN Plan = 1 .. Len(Plan)
      BY <2>1, PlanPositions, PlanKept DEF StartDeploy, StartResume
    <2>4. "migrate" \notin Before(from)
      <3> SUFFICES ASSUME "migrate" \in Before(from)
                   PROVE  FALSE
        OBVIOUS
      <3>1. PICK k \in DOMAIN Plan :
              from # "" /\ Plan[k].id = "migrate" /\ k < IndexOf(Plan, from)
        BY BeforeIsOfThePlan, PlanIs
      <3>2. IndexOf(Plan, "migrate") = k
        BY <3>1, MigrateIs
      <3>3. IndexOf(Plan, from) <= IndexOf(Plan, "migrate")
        BY <3>1 DEF MigratesFirst, Plan, Project, TypeInv
      <3>4. k \in Nat /\ IndexOf(Plan, from) \in Nat
        BY <2>3, IndexOfIs, PlanIs DEF IsSequence
      <3> DEFINE x == IndexOf(Plan, from)
      <3>5. x <= k /\ k < x /\ x \in Nat /\ k \in Nat
        BY <3>1, <3>2, <3>3, <3>4
      <3> HIDE DEF x
      <3> QED BY <3>5
    <2> QED BY <2>2, <2>3, <2>4, PlanPositions DEF MigrationFits, PassedMigrate
  <1>2. CASE \E n \in Number, by \in Rollers, withDB \in WithDB :
               StartRollback(n, by, withDB)
    BY <1>2, RollbackStartIs DEF MigrationFits
  <1> QED BY <1>1, <1>2 DEF Commands

LEMMA MigrationAfterRun ==
  ASSUME TypeInv, MigratesFirst, MigrationFits, RunSteps, cmd # Idle, ~cmd.rollback
  PROVE  MigrationFits'
  <1> SUFFICES ASSUME cmd' # Idle, ~cmd'.rollback
               PROVE  MigrationFits'
    BY DEF MigrationFits
  <1>1. cmd.idx \in Nat \ {0} /\ DOMAIN Plan = 1 .. Len(Plan) /\ Len(Plan) \in Nat
    BY CmdIs, PlanPositions
  <1>2. CASE ReadRecord
    <2>1. /\ cmd'.idx = 1 /\ cmd'.passed = cmd.passed /\ cmd'.required = cmd.required
          /\ cmd'.pc = "head" /\ db' = db /\ Plan' = Plan
      BY <1>2, ReadRecordIs, PlanKept DEF MigrationFits
    <2> QED BY <1>1, <2>1 DEF MigrationFits, PassedMigrate
  <1>3. CASE TakeLockUpFront
    <2>1. /\ cmd'.idx = 1 /\ cmd'.passed = cmd.passed /\ cmd'.required = cmd.required
          /\ cmd'.pc = "run" /\ db' = db /\ Plan' = Plan
      BY <1>3, TakeLockIs, PlanKept DEF MigrationFits, SameRun, SameVerdict
    <2> QED BY <1>1, <2>1 DEF MigrationFits, PassedMigrate
  <1>4. CASE CarryOver \/ Skip
    <2>1. PICK mem : Advance(mem)
      BY <1>4 DEF CarryOver, Skip
    <2>2. AtStep /\ setup' = setup /\ db' = db
      BY <1>4 DEF CarryOver, Skip
    <2>3. /\ cmd'.pc = "run" /\ cmd'.idx = cmd.idx + 1
          /\ cmd'.carried = cmd.carried /\ cmd'.passed = cmd.passed
          /\ cmd'.required = cmd.required /\ Plan' = Plan
      BY <2>1, <2>2, AdvanceIs, PlanKept DEF SameRun, SameVerdict
    <2>4. cmd.idx \in DOMAIN Plan /\ Step = Plan[cmd.idx]
      BY <2>2, StepIsOfThePlan
    <2>5. Step.id = "migrate" => db # "behind" \/ "migrate" \in cmd.carried
      <3>1. Step.id = "migrate" => ~NotRun
        BY <2>4, MigrateIs DEF NotRun, Implemented
      <3>2. Step.id = "migrate" /\ Step.id \notin cmd.carried => ~cmd.required
        BY <1>4, <3>1 DEF CarryOver, Skip, MigrationFits
      <3> QED BY <3>2 DEF MigrationFits
    <2>6. PassedMigrate' => PassedMigrate \/ Step.id = "migrate"
      <3> SUFFICES ASSUME NEW k \in DOMAIN Plan, Plan[k].id = "migrate", k < cmd.idx + 1
                   PROVE  PassedMigrate \/ Step.id = "migrate"
        BY <2>3 DEF PassedMigrate
      <3>1. k < cmd.idx \/ k = cmd.idx
        BY <1>1
      <3> QED BY <2>4, <3>1 DEF PassedMigrate
    <2> QED BY <2>2, <2>3, <2>5, <2>6 DEF MigrationFits
  <1>5. CASE Probe
    <2>1. /\ cmd'.pc = "run" /\ cmd.pc = "run" /\ cmd'.idx = cmd.idx
          /\ cmd'.carried = cmd.carried /\ cmd'.passed = cmd.passed
          /\ cmd'.required = (db # "current") /\ db' = db /\ Plan' = Plan
      BY <1>5, ProbeIs, PlanKept DEF SameRun
    <2>2. PassedMigrate' => PassedMigrate
      BY <2>1 DEF PassedMigrate
    <2> QED BY <2>1, <2>2 DEF MigrationFits
  <1>6. CASE RunStep
    <2>1. PICK good \in BOOLEAN :
            /\ SameRun /\ SameVerdict /\ cmd'.pc = "write" /\ cmd.pc = "run"
            /\ cmd'.idx = cmd.idx /\ cmd'.good = good
            /\ Attempt(Step.id, cmd.num, good) /\ AtStep /\ setup' = setup
      BY <1>6, RunStepIs
    <2>2. /\ cmd'.carried = cmd.carried /\ cmd'.passed = cmd.passed
          /\ cmd'.required = cmd.required /\ Plan' = Plan /\ Step' = Step
      BY <2>1, PlanKept DEF SameRun, SameVerdict
    <2>3. db' \in IF Step.id = "migrate" /\ good THEN {"current"} ELSE {db}
      <3>1. Step.id # "restore"
        BY <2>1, StepIsNoRestore
      <3>2. db' \in DBAfter(Step.id, good)
        BY <2>1 DEF Attempt, Effect
      <3> QED BY <2>1, <3>1, <3>2 DEF DBAfter
    <2>4. PassedMigrate' => PassedMigrate \/ (Step.id = "migrate" /\ good)
      BY <2>1, <2>2 DEF PassedMigrate
    <2> QED BY <2>1, <2>2, <2>3, <2>4 DEF MigrationFits
  <1>7. CASE RecordStep
    <2>1. /\ cmd'.pc = "run" /\ cmd'.idx = cmd.idx + 1 /\ cmd.pc = "write" /\ cmd.good
          /\ cmd'.carried = cmd.carried /\ cmd'.passed = cmd.passed
          /\ cmd'.required = cmd.required /\ Plan' = Plan /\ db' = db
      BY <1>7, RecordStepIs, PlanKept DEF SameRun, SameVerdict
    <2>2. cmd.idx \in DOMAIN Plan /\ Step = Plan[cmd.idx]
      BY <2>1, StepIsOfThePlan
    <2>3. PassedMigrate' => PassedMigrate
      <3> SUFFICES ASSUME NEW k \in DOMAIN Plan, Plan[k].id = "migrate", k < cmd.idx + 1
                   PROVE  PassedMigrate
        BY <2>1 DEF PassedMigrate
      <3>1. k < cmd.idx \/ k = cmd.idx
        BY <1>1
      <3> QED BY <2>1, <2>2, <3>1 DEF PassedMigrate
    <2> QED BY <2>1, <2>3 DEF MigrationFits
  <1>8. CASE FailStep \/ ProbeFails \/ Finish \/ Killed
    BY <1>8 DEF FailStep, ProbeFails, Finish, Killed, EndFailed
  <1> QED BY <1>2, <1>3, <1>4, <1>5, <1>6, <1>7, <1>8 DEF RunSteps

LEMMA MigrationKept ==
  ASSUME TypeInv, MigratesFirst, MigrationFits, [Next]_vars
  PROVE  MigrationFits'
  <1>1. CASE Commands
    BY <1>1, MigrationAfterStart
  <1>2. CASE RunSteps \/ RollbackSteps
    <2>1. cmd # Idle
      BY <1>2, IdleHasNoStep
    <2>2. CASE cmd.rollback
      BY <1>2, <2>1, <2>2, RollbackStays DEF MigrationFits
    <2>3. CASE ~cmd.rollback
      BY <1>2, <2>1, <2>3, RollbackStepsAreOfOne, MigrationAfterRun
    <2> QED BY <2>2, <2>3
  <1>3. CASE Environment
    <2>1. UNCHANGED <<setup, cmd>> /\ (cmd = Idle \/ db' = db)
      BY <1>3 DEF Environment, Unlock, DatabaseMoves, OtherTakesTheLock, OtherReleasesTheLock
    <2>2. Plan' = Plan /\ Step' = Step
      BY <2>1, PlanKept
    <2> QED BY <2>1, <2>2 DEF MigrationFits, PassedMigrate
  <1>4. CASE UNCHANGED vars
    <2>1. Plan' = Plan /\ Step' = Step /\ UNCHANGED <<cmd, db>>
      BY <1>4, PlanKept DEF vars
    <2> QED BY <2>1 DEF MigrationFits, PassedMigrate
  <1> QED BY <1>1, <1>2, <1>3, <1>4 DEF Next

\* The step of a deploy that changes the target is one of the plan's.
LEMMA DeployChangesBy ==
  ASSUME TypeInv, [Next]_vars, cmd # Idle, ~cmd.rollback,
         <<served, flags, db>>' # <<served, flags, db>>
  PROVE  RunStep
  <1>1. ~Commands /\ ~Environment /\ ~UNCHANGED vars
    BY DEF Commands, StartDeploy, StartResume, StartRollback, Environment, Unlock,
           DatabaseMoves, OtherTakesTheLock, OtherReleasesTheLock, vars
  <1>2. ~RollbackSteps
    BY RollbackStepsAreOfOne
  <1> QED BY <1>1, <1>2 DEF Next, RunSteps, ReadRecord, TakeLockUpFront, CarryOver, Skip,
     Probe, RecordStep, FailStep, ProbeFails, Finish, Killed

LEMMA MigratedWhenActivated ==
  ASSUME TypeInv, MigratesFirst, MigrationFits, [Next]_vars, cmd # Idle, ~cmd.rollback,
         served'["code"] # served["code"]
  PROVE  db # "behind" \/ "migrate" \in cmd.carried
  <1>1. RunStep
    BY DeployChangesBy
  <1>2. AtStep /\ \E good \in BOOLEAN : Attempt(Step.id, cmd.num, good)
    BY <1>1 DEF RunStep, Due
  <1>3. Step.id = "activate"
    BY <1>2, EffectIsOf
  <1>4. cmd.idx \in DOMAIN Plan /\ Step = Plan[cmd.idx]
    BY <1>2, StepIsOfThePlan
  <1>5. PICK k \in DOMAIN Plan : Plan[k].id = "migrate"
    <2>1. setup \in DOMAIN Setups
      BY DEF TypeInv
    <2> QED BY <2>1, MigrationIsFirst DEF MigratesFirst, Plan, Has
  <1>6. PassedMigrate
    BY <1>3, <1>4, <1>5, MigrateIs DEF PassedMigrate
  <1> QED BY <1>6 DEF MigrationFits

\* As long as no --from passes the migration, new code is served over the schema
\* it needs, or over one its own release migrated before.
THEOREM MigrationIsNotMissed == Spec /\ MigratesFirst => NoMigrationMissed
  <1>1. Init => TypeInv /\ MigrationFits
    BY InitTyped DEF Init, MigrationFits
  <1>2. TypeInv /\ MigratesFirst /\ MigrationFits /\ [Next]_vars
          => TypeInv' /\ MigrationFits'
    BY TypeKept, MigrationKept
  <1>3. TypeInv /\ MigratesFirst /\ MigrationFits /\ [Next]_vars =>
          [cmd # Idle /\ ~cmd.rollback /\ served'["code"] # served["code"]
             => db # "behind" \/ "migrate" \in cmd.carried]_vars
    BY MigratedWhenActivated
  <1>4. MigratesFirst => MigratesFirst'
    BY DEF MigratesFirst
  <1> QED BY <1>1, <1>2, <1>3, <1>4, PTL DEF Spec, NoMigrationMissed

-----------------------------------------------------------------------------
(* The window of a deploy, as long as Steady holds: what a run knows of its  *)
(* record (RunFits), of the steps behind it (ProgressFits), and what the     *)
(* record of an unfinished release says of the site (RecordFits).            *)

At(id) == CHOOSE k \in DOMAIN Plan : Plan[k].id = id

Ok(r, id) == r.task[id] = "ok"

Deploying == cmd # Idle /\ ~cmd.rollback

\* The release step has run, and its record is not stored yet.
Fresh == cmd.num # 0 /\ rec[cmd.num].status = "none"

\* The release in the record is the one that is run, and the newest unfinished.
RunFits ==
  Deploying =>
    /\ cmd.passed = {}
    /\ cmd.mem.status \in {"running", "failed"}
    /\ cmd.pc = "resume" => cmd.num # 0 /\ cmd.carried = {} /\ ~cmd.probed
    /\ cmd.pc \in {"resume", "head"} => cmd.idx = 1 /\ cmd.required /\ cmd.window
    /\ cmd.num = 0 => cmd.idx <= At("release")
    /\ cmd.num = 0 /\ cmd.pc = "write" /\ cmd.good => cmd.idx # At("release")
    /\ cmd.num = 0 \/ Fresh => cmd.carried = {}
    /\ Fresh => /\ cmd.pc = "write" /\ cmd.good /\ cmd.idx = At("release")
                /\ \A n \in Created : n < cmd.num
    /\ cmd.num # 0 /\ ~Fresh => rec[cmd.num] = cmd.mem /\ cmd.num \in IncompleteRelease

\* What is recorded ok is carried over, and each step behind the run is ok, does
\* nothing, or was excused by the probe.
ProgressFits ==
  Deploying =>
    /\ cmd.pc # "resume" =>
         \A k \in DOMAIN Plan :
           /\ cmd.idx <= k /\ Ok(cmd.mem, Plan[k].id) /\ Plan[k].id \notin ResumeAlwaysReruns
           => Plan[k].id \in cmd.carried
    /\ \A id \in cmd.carried : Ok(cmd.mem, id) /\ id \notin ResumeAlwaysReruns
    /\ \A k \in DOMAIN Plan :
         k < cmd.idx => \/ Ok(cmd.mem, Plan[k].id)
                        \/ ~Implemented(Plan[k])
                        \/ Plan[k].gated /\ ~cmd.required
                        \/ Plan[k].id = "unlock"
    /\ cmd.pc = "write" =>
         /\ Step.id \notin cmd.carried /\ Implemented(Step)
         /\ Step.gated => cmd.required /\ (Project.probe => cmd.probed)
    /\ ~cmd.required => cmd.probed /\ db = "current" /\ Project.probe
    /\ cmd.pc # "resume" => (cmd.mem.verdict = "migrate" <=> cmd.probed /\ cmd.required)
    /\ ~cmd.window => ~cmd.required /\ Plan[At("enable")].gated

OneOf(n) == \A p \in Parts : served[p] \in {0, n}

\* An enable that the probe gates was let through by it.
LetThrough(r) == Plan[At("enable")].gated /\ Project.probe => r.verdict = "migrate"

RecordFits(n, r) ==
  /\ Ok(r, "enable") =>
       \A k \in DOMAIN Plan :
         k < At("enable") /\ Plan[k].stage = "publish"
           => Ok(r, Plan[k].id) \/ ~Implemented(Plan[k])
  /\ Ok(r, "disable") => Ok(r, "enable")
  /\ Ok(r, "activate") => served = AllOf(n)
  /\ Ok(r, "disable") => Site \notin flags /\ (Symlink => n \notin flags)
  /\ Ok(r, "enable") \/ (Symlink /\ n \in flags) => LetThrough(r)
  /\ ~Symlink /\ Ok(r, "enable") => 0 \in flags \/ OneOf(n)
  /\ Symlink /\ n \in flags => served["code"] = n
  /\ Symlink /\ Ok(r, "enable") /\ ~Ok(r, "migrate") => Down \/ served["code"] = 0

Resumable == {n \in IncompleteRelease : served["code"] <= n}

SiteFits ==
  /\ Symlink => (\A p \in Parts : served[p] = served["code"]) /\ 0 \notin flags
  /\ ~Symlink => flags \subseteq {0}
  /\ served["code"] = 0 => \A p \in Parts : served[p] = 0
  /\ \A p \in Parts : served[p] \in Created \cup {0}
  /\ flags \subseteq Created \cup {0}

\* The run's own record, or that of the release a resume would take up.
RecordsFit ==
  /\ Deploying /\ cmd.num # 0 => RecordFits(cmd.num, cmd.mem)
  /\ ~(Deploying /\ cmd.num # 0 /\ ~Fresh) => \A n \in Resumable : RecordFits(n, rec[n])
  /\ Deploying /\ cmd.pc = "write" /\ cmd.good =>
       /\ Step.id = "activate" => served = AllOf(cmd.num)
       /\ Step.id = "disable" => Site \notin flags
       /\ Step.id = "enable" => Down \/ served["code"] = 0

InQueue(id) == \E j \in DOMAIN cmd.queue : cmd.queue[j] = id

\* A rollback runs while no release is unfinished; in place its tail begins with
\* the site down, or with none there.
RollbackFits ==
  cmd # Idle /\ cmd.rollback =>
    /\ Incomplete = {} /\ cmd.num \in Created
    /\ cmd.mem.status = "ok" /\ cmd.original.status = "ok"
    /\ cmd.pc \in {"queue", "run", "write"}
    /\ InQueue("activate") => Symlink
    /\ cmd.pc \in {"run", "write"} => ~Symlink /\ ~InQueue("tail")
    /\ cmd.pc = "queue" /\ InQueue("tail") =>
         /\ ~Symlink /\ cmd.idx = 1
         /\ cmd.queue[1] # "tail" => cmd.queue[1] = "enable" /\ cmd.queue[2] = "tail"
         /\ \A j, k \in DOMAIN cmd.queue :
              cmd.queue[j] = "tail" /\ cmd.queue[k] = "tail" => j = k
    /\ \/ cmd.pc = "queue" /\ cmd.queue # <<>> /\ cmd.queue[1] = "tail"
       \/ cmd.pc = "run" /\ cmd.idx = 1
       => Down \/ served["code"] = 0

WindowInv == RunFits /\ ProgressFits /\ SiteFits /\ RecordsFit /\ RollbackFits

LEMMA AtIs ==
  ASSUME TypeInv, NEW id, id \in Ids(Plan)
  PROVE  /\ At(id) \in DOMAIN Plan /\ At(id) \in Nat \ {0}
         /\ \A k \in DOMAIN Plan : Plan[k].id = id <=> k = At(id)
  <1>1. LockedPlan(Plan) /\ DOMAIN Plan = 1 .. Len(Plan) /\ Len(Plan) \in Nat
    BY PlanIs, PlanPositions
  <1>2. \E k \in DOMAIN Plan : Plan[k].id = id
    BY DEF Ids
  <1>3. At(id) \in DOMAIN Plan /\ Plan[At(id)].id = id
    BY <1>2 DEF At
  <1>4. \A k \in DOMAIN Plan : Plan[k].id = id => k = At(id)
    BY <1>1, <1>3 DEF LockedPlan
  <1> QED BY <1>1, <1>3, <1>4

WindowSteps == {"release", "enable", "migrate", "activate", "disable"}

\* Where the steps of the window are.
LEMMA WindowIs ==
  ASSUME TypeInv, Steady
  PROVE  /\ \A id \in WindowSteps :
              /\ At(id) \in DOMAIN Plan /\ At(id) \in Nat \ {0}
              /\ Plan[At(id)].id = id /\ Implemented(Plan[At(id)])
              /\ \A k \in DOMAIN Plan : Plan[k].id = id <=> k = At(id)
         /\ At("release") < At("enable") /\ At("enable") < At("migrate")
         /\ At("migrate") < At("activate")
         /\ Symlink => At("migrate") < At("disable") /\ At("disable") < At("activate")
         /\ ~Symlink => At("activate") < At("disable")
  <1>1. setup \in DOMAIN Setups /\ WindowPlan(Plan, Symlink)
    <2>1. Symlink <=> ~(Setups[setup].strategy # "symlink")
      BY DEF Symlink, Project
    <2>2. CASE Symlink
      <3>1. (~(Setups[setup].strategy # "symlink")) = TRUE /\ Symlink = TRUE
        BY <2>1, <2>2
      <3> QED BY <3>1, SteadyIsWindowed DEF Windowed, Plan, TypeInv
    <2>3. CASE ~Symlink
      <3>1. (~(Setups[setup].strategy # "symlink")) = FALSE /\ Symlink = FALSE
        BY <2>1, <2>3 DEF Symlink
      <3> QED BY <3>1, SteadyIsWindowed DEF Windowed, Plan, TypeInv
    <2> QED BY <2>2, <2>3
  <1>2. \A id \in WindowSteps :
          \E k \in DOMAIN Plan : Plan[k].id = id /\ Implemented(Plan[k])
    BY <1>1 DEF WindowPlan, Has, WindowSteps
  <1>3. \A id \in WindowSteps : id \in Ids(Plan)
    BY <1>2 DEF Ids
  <1>4. ASSUME NEW id \in WindowSteps
        PROVE  /\ At(id) \in DOMAIN Plan /\ At(id) \in Nat \ {0}
               /\ Plan[At(id)].id = id /\ Implemented(Plan[At(id)])
               /\ \A k \in DOMAIN Plan : Plan[k].id = id <=> k = At(id)
    <2>1. /\ At(id) \in DOMAIN Plan /\ At(id) \in Nat \ {0}
          /\ \A k \in DOMAIN Plan : Plan[k].id = id <=> k = At(id)
      BY <1>3, AtIs
    <2>2. PICK k \in DOMAIN Plan : Plan[k].id = id /\ Implemented(Plan[k])
      BY <1>2
    <2>3. k = At(id)
      BY <2>1, <2>2
    <2> QED BY <2>1, <2>2, <2>3
  <1>5. \A a, b \in WindowSteps : Precedes(Plan, a, b) => At(a) < At(b)
    BY <1>4 DEF Precedes
  <1>6. "release" \in WindowSteps /\ "enable" \in WindowSteps /\ "migrate" \in WindowSteps
        /\ "activate" \in WindowSteps /\ "disable" \in WindowSteps
    BY DEF WindowSteps
  <1>7. /\ Precedes(Plan, "release", "enable") /\ Precedes(Plan, "enable", "migrate")
        /\ Precedes(Plan, "migrate", "activate")
        /\ Symlink => Precedes(Plan, "migrate", "disable") /\ Precedes(Plan, "disable", "activate")
        /\ ~Symlink => Precedes(Plan, "activate", "disable")
    BY <1>1 DEF WindowPlan
  <1> QED BY <1>4, <1>5, <1>6, <1>7

\* Which of them the probe gates.
LEMMA GatesAre ==
  ASSUME TypeInv, Steady
  PROVE  /\ ~Plan[At("release")].gated /\ ~Plan[At("activate")].gated
         /\ Plan[At("disable")].gated <=> Plan[At("enable")].gated
         /\ Symlink /\ Plan[At("migrate")].gated => Plan[At("enable")].gated
         /\ ~Symlink => ~Plan[At("enable")].gated
         /\ \A k \in DOMAIN Plan : Plan[k].gated => At("enable") <= k
         /\ \A k \in DOMAIN Plan :
              Plan[k].stage = "publish" => Plan[k].id \notin ResumeAlwaysReruns
  <1>1. Symlink => WindowPlan(Plan, TRUE)
    BY SteadyIsWindowed DEF Windowed, Plan, TypeInv, Symlink, Project
  <1>2. ~Symlink => WindowPlan(Plan, FALSE)
    BY SteadyIsWindowed DEF Windowed, Plan, TypeInv, Symlink, Project
  <1>3. /\ \A id \in WindowSteps : At(id) \in DOMAIN Plan /\ Plan[At(id)].id = id
        /\ "release" \in WindowSteps /\ "enable" \in WindowSteps /\ "migrate" \in WindowSteps
        /\ "activate" \in WindowSteps /\ "disable" \in WindowSteps
    BY WindowIs DEF WindowSteps
  <1>4. \A k, l \in DOMAIN Plan :
          /\ "gated" \in DOMAIN Plan[k]
          /\ Plan[k].gated => Plan[k].id \notin {"release", "activate"}
          /\ Plan[k].gated /\ Plan[l].id = "enable" => l <= k
          /\ Plan[k].id = "enable" /\ Plan[l].id = "disable" => (Plan[k].gated <=> Plan[l].gated)
          /\ Symlink /\ Plan[k].id = "enable" /\ Plan[l].id = "migrate"
               => (Plan[l].gated => Plan[k].gated)
          /\ Plan[k].stage = "publish" => Plan[k].id \notin {"check", "lock", "unlock", "shared"}
    BY <1>1, <1>2 DEF WindowPlan
  <1>5. ~Plan[At("release")].gated /\ ~Plan[At("activate")].gated
    BY <1>3, <1>4
  <1>6. Plan[At("disable")].gated <=> Plan[At("enable")].gated
    BY <1>3, <1>4
  <1>7. Symlink /\ Plan[At("migrate")].gated => Plan[At("enable")].gated
    BY <1>3, <1>4
  <1>8. \A k \in DOMAIN Plan : Plan[k].gated => At("enable") <= k
    BY <1>3, <1>4
  <1>9. ~Symlink => ~Plan[At("enable")].gated
    <2> SUFFICES ASSUME ~Symlink
                 PROVE  ~Plan[At("enable")].gated
      OBVIOUS
    <2> DEFINE s == Setups[setup]
               Q == ForBuildMode(BuildPlan(s.recipe, s.hooks), s.mode)
               e == At("enable")
    <2>1. Plan = ForPublishStrategy(Q, s.strategy) /\ s.strategy # "symlink"
      BY DEF Plan, Shaped, ShapedFor, Symlink, Project, TypeInv
    <2>2. Plan = [i \in DOMAIN Q |-> [Q[i] EXCEPT !.gated = @ /\ Q[i].id \notin WindowTasks]]
      <3> HIDE DEF Q
      <3> QED BY <2>1 DEF ForPublishStrategy, WithUngatedMaintenanceWindow
    <2>3. e \in DOMAIN Plan /\ "gated" \in DOMAIN Plan[e] /\ Plan[e].id = "enable"
      BY <1>3, <1>4
    <2> HIDE DEF Q, e
    <2>4. Plan[e] = [Q[e] EXCEPT !.gated = @ /\ Q[e].id \notin WindowTasks] /\ e \in DOMAIN Q
      BY <2>2, <2>3
    <2>5. "gated" \in DOMAIN Q[e]
      BY <2>3, <2>4
    <2>6. Plan[e].id = Q[e].id
      BY <2>3, <2>4
    <2>7. Plan[e].gated = (Q[e].gated /\ Q[e].id \notin WindowTasks)
      BY <2>4, <2>5
    <2>8. Q[e].id \in WindowTasks
      BY <2>3, <2>6 DEF WindowTasks
    <2> QED BY <2>7, <2>8 DEF e
  <1> QED BY <1>4, <1>5, <1>6, <1>7, <1>8, <1>9 DEF ResumeAlwaysReruns

LEMMA SteadyKept ==
  ASSUME Steady, setup' = setup
  PROVE  Steady'
  BY DEF Steady, Project

LEMMA AtKept ==
  ASSUME setup' = setup
  PROVE  \A id : At(id)' = At(id)
  <1>1. Plan' = Plan
    BY PlanKept
  <1> QED BY <1>1 DEF At

\* A record that is stored makes its release the newest unfinished one.
LEMMA StoredIs ==
  ASSUME TypeInv, setup' = setup, NEW n \in Number, NEW r \in RecordType,
         r.status \in {"running", "failed"}, rec' = [rec EXCEPT ![n] = r],
         n \in IncompleteRelease \/ \A m \in Created : m < n
  PROVE  /\ rec'[n] = r /\ n \in IncompleteRelease'
         /\ \A m \in IncompleteRelease' : m = n
         /\ Created' = Created \cup {n}
  <1>1. rec'[n] = r /\ \A m \in Number : m # n => rec'[m] = rec[m]
    BY DEF TypeInv
  <1>2. Number \subseteq Nat
    BY PublishWindowAssumption DEF Number
  <1>3. Incomplete' = Incomplete \cup {n}
    BY <1>1 DEF Incomplete, Number
  <1>4. Created' = Created \cup {n}
    BY <1>1 DEF Created, Number
  <1>5. \A m \in Incomplete : m <= n
    <2>1. Incomplete \subseteq Created /\ Created \subseteq Nat
      BY <1>2 DEF Incomplete, Created
    <2>2. CASE n \in IncompleteRelease
      BY <2>2 DEF IncompleteRelease
    <2>3. CASE \A m \in Created : m < n
      BY <1>2, <2>1, <2>3
    <2> QED BY <2>2, <2>3
  <1>6. \A m \in Incomplete' : m <= n
    BY <1>2, <1>3, <1>5
  <1>7. n \in IncompleteRelease'
    BY <1>3, <1>6 DEF IncompleteRelease
  <1>8. ASSUME NEW m \in IncompleteRelease'
        PROVE  m = n
    <2>1. m \in Incomplete' /\ n <= m
      BY <1>3, <1>8 DEF IncompleteRelease
    <2>2. m \in Nat /\ m <= n
      BY <1>2, <1>6, <2>1 DEF Incomplete, Number
    <2> QED BY <1>2, <2>1, <2>2
  <1> QED BY <1>1, <1>4, <1>7, <1>8

LEMMA DeployIs ==
  ASSUME TypeInv, Deploying
  PROVE  /\ cmd # Idle /\ ~cmd.rollback /\ cmd \in CmdType /\ cmd.mem \in RecordType
         /\ cmd.num \in 0 .. MaxRelease /\ (cmd.num # 0 => cmd.num \in Number)
         /\ cmd.idx \in Nat \ {0} /\ DOMAIN Plan = 1 .. Len(Plan) /\ Len(Plan) \in Nat
         /\ cmd.pc \in {"resume", "head", "run", "write"} /\ Steps = Plan
         /\ cmd.good \in BOOLEAN /\ cmd.carried \subseteq Ids(Plan)
         /\ cmd.idx <= Len(Plan) + 1
  <1>1. cmd # Idle /\ ~cmd.rollback /\ cmd \in CmdType /\ CmdFits
    BY CmdIs DEF Deploying
  <1>2. Steps = Plan
    BY <1>1 DEF Steps
  <1>3. cmd.num \in 0 .. MaxRelease /\ (cmd.num # 0 => cmd.num \in Number)
    BY <1>1, PublishWindowAssumption DEF CmdType, Number
  <1> QED BY <1>1, <1>2, <1>3, PlanPositions DEF CmdFits, CmdType

LEMMA StoreIs ==
  ASSUME TypeInv, Steady, RunFits, Deploying, setup' = setup,
         NEW r \in RecordType, r.status \in {"running", "failed"},
         NEW cost \in Nat, StoreAfter(cmd.num, r, cost)
  PROVE  /\ cmd.num = 0 => rec' = rec
         /\ cmd.num # 0 => /\ rec' = [rec EXCEPT ![cmd.num] = r]
                           /\ rec'[cmd.num] = r /\ cmd.num \in IncompleteRelease'
                           /\ \A m \in IncompleteRelease' : m = cmd.num
                           /\ Created' = Created \cup {cmd.num}
  <1>1. /\ cmd.num = 0 => rec' = rec
        /\ cmd.num # 0 => rec' = [rec EXCEPT ![cmd.num] = r]
    BY DeployIs, StoreTyped DEF Steady
  <1>2. cmd.num # 0 => cmd.num \in IncompleteRelease \/ \A m \in Created : m < cmd.num
    BY DEF RunFits
  <1> QED BY <1>1, <1>2, DeployIs, StoredIs

LEMMA RunFitsAfterStart ==
  ASSUME TypeInv, Steady, Commands
  PROVE  RunFits'
  <1>1. CASE \E from \in Project.froms : StartDeploy(from) \/ StartResume(from)
    <2>1. PICK from \in Project.froms : StartDeploy(from) \/ StartResume(from)
      BY <1>1
    <2>2. from = "" /\ Before(from) = {}
      BY DEF Steady, Before
    <2>3. setup' = setup /\ rec' = rec
      BY <2>1 DEF StartDeploy, StartResume
    <2>4. PICK n \in 0 .. MaxRelease, mem \in RecordType :
           /\ cmd'.num = n /\ cmd'.idx = 1 /\ cmd'.mem = mem
           /\ cmd'.carried = {} /\ cmd'.passed = {} /\ cmd'.probed = FALSE
           /\ cmd'.required = TRUE /\ cmd'.window = TRUE
           /\ cmd'.rollback = FALSE /\ cmd' # Idle
           /\ \/ /\ cmd'.pc = "head" /\ n = 0
                 /\ mem = [NewRecord EXCEPT !.status = "running"]
              \/ /\ cmd'.pc = "resume" /\ n \in IncompleteRelease /\ mem = rec[n]
      BY <2>1, <2>2, DeployStartIs
    <2>5. mem.status \in {"running", "failed"}
      BY <2>4 DEF NewRecord, IncompleteRelease, Incomplete
    <2>6. n \in IncompleteRelease => n # 0 /\ rec[n].status # "none"
      BY DEF IncompleteRelease, Incomplete, Number
    <2>7. IncompleteRelease' = IncompleteRelease
      BY <2>3 DEF IncompleteRelease, Incomplete, Number
    <2>8. At("release")' \in Nat \ {0}
      BY <2>3, AtKept, WindowIs DEF WindowSteps
    <2>9. cmd'.num = 0 => 1 <= At("release")'
      BY <2>8
    <2> QED BY <2>3, <2>4, <2>5, <2>6, <2>7, <2>9 DEF RunFits, Fresh, Deploying
  <1>2. CASE \E n \in Number, by \in Rollers, withDB \in WithDB :
               StartRollback(n, by, withDB)
    BY <1>2, RollbackStartIs DEF RunFits, Deploying
  <1> QED BY <1>1, <1>2 DEF Commands

\* The step that takes the release number is neither carried over nor skipped.
LEMMA ReleaseIsRun ==
  ASSUME TypeInv, Steady, RunFits, Deploying, AtStep, cmd.num = 0, CarryOver \/ Skip
  PROVE  cmd.idx < At("release")
  <1>1. cmd.carried = {} /\ cmd.passed = {} /\ cmd.idx <= At("release")
    BY DEF RunFits
  <1>2. cmd.idx \in DOMAIN Plan /\ Step = Plan[cmd.idx]
    BY StepIsOfThePlan DEF Deploying
  <1>3. /\ At("release") \in Nat /\ Implemented(Plan[At("release")])
        /\ Plan[At("release")].id = "release" /\ ~Plan[At("release")].gated
    BY WindowIs, GatesAre DEF WindowSteps
  <1>4. cmd.idx # At("release")
    BY <1>1, <1>2, <1>3 DEF CarryOver, Skip, NotRun, Implemented
  <1> QED BY <1>1, <1>3, <1>4, DeployIs

LEMMA RunFitsAfterRun ==
  ASSUME TypeInv, Steady, RunFits, RunSteps, Deploying
  PROVE  RunFits'
  <1> SUFFICES ASSUME Deploying'
               PROVE  RunFits'
    BY DEF RunFits
  <1>1. /\ cmd # Idle /\ ~cmd.rollback /\ cmd.mem \in RecordType /\ cmd.idx \in Nat \ {0}
        /\ cmd \in CmdType
    BY DeployIs
  <1>2. At("release") \in Nat \ {0}
    BY WindowIs DEF WindowSteps
  <1>3. CASE ReadRecord
    <2>1. /\ cmd.pc = "resume" /\ cmd'.pc = "head" /\ cmd'.num = cmd.num /\ cmd'.idx = 1
          /\ cmd'.mem = cmd.mem /\ cmd'.passed = {} /\ cmd'.required /\ cmd'.window
          /\ cmd.num # 0 /\ rec' = rec /\ setup' = setup
      BY <1>1, <1>3, ReadRecordIs DEF RunFits
    <2>2. ~Fresh
      BY <2>1 DEF RunFits
    <2>3. ~Fresh' /\ IncompleteRelease' = IncompleteRelease
      BY <2>1, <2>2 DEF Fresh, IncompleteRelease, Incomplete, Number
    <2> QED BY <2>1, <2>2, <2>3 DEF RunFits
  <1>4. CASE TakeLockUpFront
    <2>1. /\ cmd.pc = "head" /\ cmd'.pc = "run" /\ cmd'.num = cmd.num /\ cmd'.idx = 1
          /\ cmd'.mem = cmd.mem /\ cmd'.passed = {} /\ cmd'.carried = cmd.carried
          /\ rec' = rec /\ setup' = setup
      BY <1>1, <1>4, TakeLockIs DEF RunFits, SameRun, Deploying
    <2>2. ~Fresh
      BY <2>1 DEF RunFits
    <2>3. ~Fresh' /\ IncompleteRelease' = IncompleteRelease /\ At("release")' = At("release")
      BY <2>1, <2>2, AtKept DEF Fresh, IncompleteRelease, Incomplete, Number
    <2> QED BY <1>2, <2>1, <2>2, <2>3 DEF RunFits
  <1>5. CASE CarryOver \/ Skip
    <2>1. PICK status \in {"ok", "skipped"} :
            Advance(Record(status)) /\ StoreAfter(cmd.num, cmd'.mem, 0)
      BY <1>5 DEF CarryOver, Skip, Store
    <2>2. AtStep /\ setup' = setup
      BY <1>5 DEF CarryOver, Skip
    <2>3. /\ cmd'.pc = "run" /\ cmd.pc = "run" /\ cmd'.num = cmd.num
          /\ cmd'.idx = cmd.idx + 1 /\ cmd'.mem = Record(status) /\ cmd'.passed = {}
          /\ cmd'.carried = cmd.carried
      BY <1>1, <2>1, <2>2, AdvanceIs DEF RunFits, SameRun, AtStep
    <2>4. /\ Record(status) \in RecordType /\ Record(status).status = cmd.mem.status
          /\ cmd.mem.status \in {"running", "failed"}
      BY <1>1, RecordIs DEF Outcome, RunFits
    <2>5. /\ cmd.num = 0 => rec' = rec
          /\ cmd.num # 0 => rec'[cmd.num] = cmd'.mem /\ cmd.num \in IncompleteRelease'
      BY <2>1, <2>2, <2>3, <2>4, StoreIs
    <2>6. ~Fresh'
      BY <2>3, <2>4, <2>5 DEF Fresh
    <2>7. cmd.num = 0 => cmd'.idx <= At("release")'
      BY <1>1, <1>2, <1>5, <2>2, <2>3, ReleaseIsRun, AtKept
    <2> QED BY <2>3, <2>4, <2>5, <2>6, <2>7 DEF RunFits
  <1>6. CASE Probe
    <2>1. /\ cmd'.pc = "run" /\ cmd.pc = "run" /\ cmd'.num = cmd.num /\ AtStep
          /\ cmd'.idx = cmd.idx /\ cmd'.passed = {} /\ cmd'.carried = cmd.carried
          /\ StoreAfter(cmd.num, cmd'.mem, 0) /\ setup' = setup
          /\ cmd'.mem = [cmd.mem EXCEPT !.verdict = IF db # "current" THEN "migrate" ELSE "skip"]
      BY <1>1, <1>6, ProbeIs DEF RunFits, SameRun
    <2>2. /\ cmd'.mem \in RecordType /\ cmd'.mem.status = cmd.mem.status
          /\ cmd.mem.status \in {"running", "failed"}
      BY <1>1, <2>1 DEF RecordType, Verdict, RunFits
    <2>3. /\ cmd.num = 0 => rec' = rec
          /\ cmd.num # 0 => rec'[cmd.num] = cmd'.mem /\ cmd.num \in IncompleteRelease'
      BY <2>1, <2>2, StoreIs
    <2>4. ~Fresh'
      BY <2>1, <2>2, <2>3 DEF Fresh
    <2>5. At("release")' = At("release")
      BY <2>1, AtKept
    <2> QED BY <2>1, <2>2, <2>3, <2>4, <2>5 DEF RunFits
  <1>7. CASE RunStep
    <2>1. PICK good \in BOOLEAN :
            /\ SameRun /\ cmd'.pc = "write" /\ cmd.pc = "run"
            /\ cmd'.num = (IF good THEN NumberAfter ELSE cmd.num)
            /\ cmd'.idx = cmd.idx /\ cmd'.mem = cmd.mem /\ cmd'.good = good
            /\ AtStep /\ setup' = setup /\ rec' = rec
      BY <1>1, <1>7, RunStepIs
    <2>2. cmd'.passed = {} /\ cmd'.carried = cmd.carried /\ cmd.mem.status \in {"running", "failed"}
      BY <2>1 DEF RunFits, SameRun
    <2>3. cmd.idx \in DOMAIN Plan /\ Step = Plan[cmd.idx]
      BY <1>1, <2>1, StepIsOfThePlan
    <2>4. Step.id = "release" <=> cmd.idx = At("release")
      BY <2>3, WindowIs DEF WindowSteps
    <2>5. ~Fresh
      BY <2>1 DEF RunFits
    <2>6. IncompleteRelease' = IncompleteRelease /\ Created' = Created
          /\ At("release")' = At("release")
      BY <2>1, AtKept DEF IncompleteRelease, Incomplete, Created, Number
    <2>7. CASE cmd.num # 0 \/ ~good \/ Step.id # "release"
      <3>1. cmd'.num = cmd.num
        BY <2>1, <2>7 DEF NumberAfter
      <3>2. ~Fresh'
        BY <2>1, <2>5, <3>1 DEF Fresh
      <3>3. cmd.num = 0 /\ good => cmd.idx # At("release")
        BY <2>4, <2>7
      <3> QED BY <2>1, <2>2, <2>5, <2>6, <3>1, <3>2, <3>3 DEF RunFits
    <2>8. CASE cmd.num = 0 /\ good /\ Step.id = "release"
      <3>1. cmd'.num = NextNumber
        BY <2>1, <2>8 DEF NumberAfter
      <3>2. NextNumber \in Number /\ NextNumber # 0 /\ \A n \in Created : n < NextNumber
        BY <1>1, <2>8, CmdIs, NextNumberIs DEF CmdFits
      <3>3. Fresh'
        <4>1. NextNumber \notin Created
          BY NextNumberIs
        <4>2. rec[NextNumber].status = "none"
          BY <3>2, <4>1 DEF Created
        <4> QED BY <2>1, <3>1, <3>2, <4>2 DEF Fresh
      <3>4. cmd.carried = {}
        BY <2>8 DEF RunFits
      <3> QED BY <2>1, <2>2, <2>4, <2>6, <2>8, <3>1, <3>2, <3>3, <3>4 DEF RunFits
    <2> QED BY <2>7, <2>8
  <1>8. CASE RecordStep
    <2>1. /\ cmd'.pc = "run" /\ cmd.pc = "write" /\ cmd'.num = cmd.num /\ cmd.good
          /\ cmd'.idx = cmd.idx + 1 /\ cmd'.passed = {} /\ cmd'.carried = cmd.carried
          /\ StoreAfter(cmd.num, cmd'.mem, 0) /\ setup' = setup
          /\ cmd'.mem = Record("ok")
      BY <1>1, <1>8, RecordStepIs DEF RunFits, SameRun
    <2>2. /\ Record("ok") \in RecordType /\ Record("ok").status = cmd.mem.status
          /\ cmd.mem.status \in {"running", "failed"}
      BY <1>1, RecordIs DEF Outcome, RunFits
    <2>3. /\ cmd.num = 0 => rec' = rec
          /\ cmd.num # 0 => rec'[cmd.num] = cmd'.mem /\ cmd.num \in IncompleteRelease'
      BY <2>1, <2>2, StoreIs
    <2>4. ~Fresh'
      BY <2>1, <2>2, <2>3 DEF Fresh
    <2>5. cmd.num = 0 => cmd'.idx <= At("release")'
      <3>1. cmd.num = 0 => cmd.idx <= At("release") /\ cmd.idx # At("release")
        BY <2>1 DEF RunFits
      <3>2. At("release")' = At("release")
        BY <2>1, AtKept
      <3> QED BY <1>1, <1>2, <2>1, <3>1, <3>2
    <2>6. cmd.num = 0 => cmd'.carried = {}
      BY <2>1 DEF RunFits
    <2> QED BY <2>1, <2>2, <2>3, <2>4, <2>5, <2>6 DEF RunFits
  <1>9. CASE FailStep \/ ProbeFails \/ Finish \/ Killed
    BY <1>1, <1>9 DEF FailStep, ProbeFails, Finish, Killed, EndFailed, Deploying
  <1> QED BY <1>3, <1>4, <1>5, <1>6, <1>7, <1>8, <1>9 DEF RunSteps

LEMMA RunFitsKept ==
  ASSUME TypeInv, Steady, RunFits, [Next]_vars
  PROVE  RunFits'
  <1>1. CASE Commands
    BY <1>1, RunFitsAfterStart
  <1>2. CASE RunSteps \/ RollbackSteps
    <2>1. cmd # Idle
      BY <1>2, IdleHasNoStep
    <2>2. CASE cmd.rollback
      BY <1>2, <2>1, <2>2, RollbackStays DEF RunFits, Deploying
    <2>3. CASE ~cmd.rollback
      BY <1>2, <2>1, <2>3, RollbackStepsAreOfOne, RunFitsAfterRun DEF Deploying
    <2> QED BY <2>2, <2>3
  <1>3. CASE Environment \/ UNCHANGED vars
    <2>1. UNCHANGED <<setup, cmd, rec>>
      BY <1>3 DEF Environment, Unlock, DatabaseMoves, OtherTakesTheLock,
                  OtherReleasesTheLock, vars
    <2>2. At("release")' = At("release") /\ IncompleteRelease' = IncompleteRelease
          /\ Created' = Created /\ Fresh' = Fresh
      BY <2>1, AtKept DEF IncompleteRelease, Incomplete, Created, Fresh, Number
    <2> QED BY <2>1, <2>2 DEF RunFits, Deploying
  <1> QED BY <1>1, <1>2, <1>3 DEF Next

\* A step that a deploy passes over, carries over, or has run and records.
LEMMA AdvancedIs ==
  ASSUME TypeInv, Deploying, CarryOver \/ Skip \/ RecordStep
  PROVE  \E status \in {"ok", "skipped"} :
           /\ (status = "ok" /\ (CarryOver \/ RecordStep)) \/ (status = "skipped" /\ Skip)
           /\ SameRun /\ SameVerdict /\ cmd'.pc = "run" /\ cmd'.num = cmd.num
           /\ cmd'.idx = cmd.idx + 1 /\ StoreAfter(cmd.num, cmd'.mem, 0)
           /\ cmd'.mem \in RecordType /\ cmd'.mem.status = cmd.mem.status
           /\ cmd'.mem.verdict = cmd.mem.verdict
           /\ cmd'.mem.task = [cmd.mem.task EXCEPT ![Step.id] = status]
           /\ \A id \in Ids(Plan) :
                cmd'.mem.task[id] = IF id = Step.id THEN status ELSE cmd.mem.task[id]
           /\ cmd.idx \in DOMAIN Plan /\ Step = Plan[cmd.idx] /\ Step.id \in Ids(Plan)
           /\ \A k \in DOMAIN Plan : Plan[k].id = Step.id <=> k = cmd.idx
           /\ UNCHANGED <<setup, served, flags, db, lock>>
  <1>1. PICK status \in {"ok", "skipped"} :
          /\ (status = "ok" /\ (CarryOver \/ RecordStep)) \/ (status = "skipped" /\ Skip)
          /\ SameRun /\ SameVerdict /\ cmd'.pc = "run" /\ cmd'.num = cmd.num
          /\ cmd'.idx = cmd.idx + 1 /\ cmd'.mem = Record(status)
          /\ StoreAfter(cmd.num, cmd'.mem, 0)
          /\ UNCHANGED <<setup, served, flags, db, lock>>
    <2>1. CASE CarryOver
      <3> "ok" \in {"ok", "skipped"}
        OBVIOUS
      <3>1. Advance(Record("ok")) /\ StoreAfter(cmd.num, cmd'.mem, 0)
            /\ UNCHANGED <<setup, served, flags, db, lock>>
        BY <2>1 DEF CarryOver, Store
      <3>2. WITNESS "ok" \in {"ok", "skipped"}
      <3> QED BY <2>1, <3>1, DeployIs, AdvanceIs
    <2>2. CASE Skip
      <3> "skipped" \in {"ok", "skipped"}
        OBVIOUS
      <3>1. Advance(Record("skipped")) /\ StoreAfter(cmd.num, cmd'.mem, 0)
            /\ UNCHANGED <<setup, served, flags, db, lock>>
        BY <2>2 DEF Skip, Store
      <3>2. WITNESS "skipped" \in {"ok", "skipped"}
      <3> QED BY <2>2, <3>1, DeployIs, AdvanceIs
    <2>3. CASE RecordStep
      <3> "ok" \in {"ok", "skipped"}
        OBVIOUS
      <3>1. WITNESS "ok" \in {"ok", "skipped"}
      <3> QED BY <2>3, DeployIs, RecordStepIs
    <2> QED BY <2>1, <2>2, <2>3
  <1>2. AtStep \/ cmd.pc = "write"
    BY <1>1 DEF CarryOver, RecordStep, Skip
  <1>3. cmd.idx \in DOMAIN Plan /\ Step = Plan[cmd.idx] /\ Step.id \in Ids(Plan)
    BY <1>2, DeployIs, StepIsOfThePlan DEF Ids
  <1>4. \A k \in DOMAIN Plan : Plan[k].id = Step.id <=> k = cmd.idx
    BY <1>3, PlanIs DEF LockedPlan
  <1>5. /\ cmd'.mem \in RecordType /\ cmd'.mem.status = cmd.mem.status
        /\ cmd'.mem.verdict = cmd.mem.verdict
        /\ cmd'.mem.task = [cmd.mem.task EXCEPT ![Step.id] = status]
    BY <1>1, DeployIs, RecordIs DEF Outcome
  <1>6. cmd.mem.task \in [Ids(Plan) -> Outcome]
    BY DeployIs DEF RecordType
  <1>7. \A id \in Ids(Plan) :
          cmd'.mem.task[id] = IF id = Step.id THEN status ELSE cmd.mem.task[id]
    BY <1>5, <1>6
  <1> QED BY <1>1, <1>3, <1>4, <1>5, <1>7

LEMMA ProgressFitsAfterStart ==
  ASSUME TypeInv, Commands
  PROVE  ProgressFits'
  <1>1. CASE \E from \in Project.froms : StartDeploy(from) \/ StartResume(from)
    <2>1. PICK from \in Project.froms : StartDeploy(from) \/ StartResume(from)
      BY <1>1
    <2>2. PICK n \in 0 .. MaxRelease, mem \in RecordType :
           /\ cmd'.num = n /\ cmd'.idx = 1 /\ cmd'.mem = mem
           /\ cmd'.carried = {} /\ cmd'.probed = FALSE
           /\ cmd'.required = TRUE /\ cmd'.window = TRUE
           /\ \/ cmd'.pc = "head" /\ mem = [NewRecord EXCEPT !.status = "running"]
              \/ cmd'.pc = "resume"
      BY <2>1, DeployStartIs
    <2>3. setup' = setup
      BY <2>1 DEF StartDeploy, StartResume
    <2>4. Plan' = Plan /\ DOMAIN Plan = 1 .. Len(Plan)
      BY <2>3, PlanKept, PlanPositions
    <2>5. cmd'.pc = "head" => mem.verdict = "none"
                              /\ \A id \in Ids(Plan) : mem.task[id] = "none"
      BY <2>2 DEF NewRecord
    <2>6. cmd'.pc = "head" => \A k \in DOMAIN Plan : ~Ok(mem, Plan[k].id)
      BY <2>5 DEF Ok, Ids
    <2> QED BY <2>2, <2>4, <2>5, <2>6 DEF ProgressFits
  <1>2. CASE \E n \in Number, by \in Rollers, withDB \in WithDB :
               StartRollback(n, by, withDB)
    BY <1>2, RollbackStartIs DEF ProgressFits, Deploying
  <1> QED BY <1>1, <1>2 DEF Commands

\* A step that is done, or passed over, is behind the run.
LEMMA ProgressFitsAfterStep ==
  ASSUME TypeInv, RunFits, ProgressFits, Deploying, CarryOver \/ Skip \/ RecordStep
  PROVE  ProgressFits'
  <1>1. PICK status \in {"ok", "skipped"} :
           /\ (status = "ok" /\ (CarryOver \/ RecordStep)) \/ (status = "skipped" /\ Skip)
           /\ SameRun /\ SameVerdict /\ cmd'.pc = "run" /\ cmd'.num = cmd.num
           /\ cmd'.idx = cmd.idx + 1
           /\ cmd'.mem.verdict = cmd.mem.verdict
           /\ \A id \in Ids(Plan) :
                cmd'.mem.task[id] = IF id = Step.id THEN status ELSE cmd.mem.task[id]
           /\ cmd.idx \in DOMAIN Plan /\ Step = Plan[cmd.idx] /\ Step.id \in Ids(Plan)
           /\ \A k \in DOMAIN Plan : Plan[k].id = Step.id <=> k = cmd.idx
           /\ UNCHANGED <<setup, served, flags, db, lock>>
    BY AdvancedIs
  <1>2. /\ Plan' = Plan /\ Project' = Project /\ At("enable")' = At("enable")
        /\ DOMAIN Plan = 1 .. Len(Plan) /\ Len(Plan) \in Nat
        /\ cmd.idx \in Nat \ {0} /\ cmd.pc # "resume"
    <2>1. cmd.pc # "resume"
      BY DEF CarryOver, Skip, RecordStep, AtStep
    <2> QED BY <1>1, <2>1, PlanKept, AtKept, DeployIs
  <1>3. /\ cmd'.carried = cmd.carried /\ cmd'.probed = cmd.probed
        /\ cmd'.required = cmd.required /\ cmd'.window = cmd.window
    BY <1>1 DEF SameRun, SameVerdict
  <1>4. \A k \in DOMAIN Plan : k # cmd.idx => cmd'.mem.task[Plan[k].id] = cmd.mem.task[Plan[k].id]
    BY <1>1 DEF Ids
  <1>5. \A k \in DOMAIN Plan :
          /\ cmd'.idx <= k /\ Ok(cmd'.mem, Plan[k].id) /\ Plan[k].id \notin ResumeAlwaysReruns
          => Plan[k].id \in cmd.carried
    <2> SUFFICES ASSUME NEW k \in DOMAIN Plan, cmd'.idx <= k, Ok(cmd'.mem, Plan[k].id),
                        Plan[k].id \notin ResumeAlwaysReruns
                 PROVE  Plan[k].id \in cmd.carried
      OBVIOUS
    <2>1. k # cmd.idx /\ cmd.idx <= k
      BY <1>1, <1>2
    <2>2. Ok(cmd.mem, Plan[k].id)
      BY <1>4, <2>1 DEF Ok
    <2> QED BY <1>2, <2>1, <2>2 DEF ProgressFits
  <1>6. \A id \in cmd.carried : Ok(cmd'.mem, id) /\ id \notin ResumeAlwaysReruns
    <2> SUFFICES ASSUME NEW id \in cmd.carried
                 PROVE  Ok(cmd'.mem, id) /\ id \notin ResumeAlwaysReruns
      OBVIOUS
    <2>1. id \in Ids(Plan) /\ Ok(cmd.mem, id) /\ id \notin ResumeAlwaysReruns
      BY DeployIs DEF ProgressFits
    <2>2. status = "skipped" => id # Step.id
      BY <1>1 DEF Skip
    <2> QED BY <1>1, <2>1, <2>2 DEF Ok
  <1>7. \A k \in DOMAIN Plan :
          k < cmd'.idx => \/ Ok(cmd'.mem, Plan[k].id)
                          \/ ~Implemented(Plan[k])
                          \/ Plan[k].gated /\ ~cmd.required
                          \/ Plan[k].id = "unlock"
    <2> SUFFICES ASSUME NEW k \in DOMAIN Plan, k < cmd'.idx
                 PROVE  \/ Ok(cmd'.mem, Plan[k].id)
                        \/ ~Implemented(Plan[k])
                        \/ Plan[k].gated /\ ~cmd.required
                        \/ Plan[k].id = "unlock"
      OBVIOUS
    <2>1. k < cmd.idx \/ k = cmd.idx
      BY <1>1, <1>2
    <2>2. CASE k < cmd.idx
      <3>1. Ok(cmd.mem, Plan[k].id) => Ok(cmd'.mem, Plan[k].id)
        BY <1>2, <1>4, <2>2 DEF Ok
      <3> QED BY <2>2, <3>1 DEF ProgressFits
    <2>3. CASE k = cmd.idx /\ status = "ok"
      BY <1>1, <2>3 DEF Ok
    <2>4. CASE k = cmd.idx /\ status = "skipped"
      <3>1. Skip /\ cmd.passed = {}
        BY <1>1, <2>4 DEF RunFits
      <3>2. NotRun \/ (Step.gated /\ ~cmd.required) \/ Step.id = "unlock"
        BY <3>1 DEF Skip
      <3>3. NotRun => ~Implemented(Step)
        BY DEF NotRun, Implemented
      <3> QED BY <1>1, <2>4, <3>2, <3>3
    <2> QED BY <1>1, <2>1, <2>2, <2>3, <2>4
  <1>8. /\ ~cmd.required => cmd.probed /\ db = "current" /\ Project.probe
        /\ cmd'.mem.verdict = "migrate" <=> cmd.probed /\ cmd.required
        /\ ~cmd.window => ~cmd.required /\ Plan[At("enable")].gated
    BY <1>1, <1>2 DEF ProgressFits
  <1> QED BY <1>1, <1>2, <1>3, <1>5, <1>6, <1>7, <1>8 DEF ProgressFits

LEMMA ProgressFitsAfterRun ==
  ASSUME TypeInv, Steady, RunFits, ProgressFits, RunSteps, Deploying
  PROVE  ProgressFits'
  <1> SUFFICES ASSUME Deploying'
               PROVE  ProgressFits'
    BY DEF ProgressFits
  <1>1. /\ cmd # Idle /\ ~cmd.rollback /\ cmd.mem \in RecordType /\ cmd.idx \in Nat \ {0}
        /\ cmd \in CmdType /\ DOMAIN Plan = 1 .. Len(Plan)
    BY DeployIs
  <1>2. CASE ReadRecord
    <2>1. /\ cmd.pc = "resume" /\ cmd'.pc = "head" /\ cmd'.idx = 1
          /\ cmd'.mem = cmd.mem /\ cmd'.required /\ cmd'.window /\ cmd.passed = {}
          /\ cmd.num # 0 /\ UNCHANGED <<setup, db>>
      BY <1>1, <1>2, ReadRecordIs DEF RunFits
    <2>2. rec[cmd.num] = cmd.mem
      BY <2>1 DEF RunFits
    <2>3. cmd'.carried = Succeeded /\ cmd'.probed = (cmd.mem.verdict = "migrate")
      BY <1>1, <1>2, <2>1, <2>2, ReadRecordIs DEF Again, Steady
    <2>4. Plan' = Plan /\ Project' = Project /\ At("enable")' = At("enable")
      BY <2>1, PlanKept, AtKept
    <2>5. \A id \in Ids(Plan) : id \in cmd'.carried <=> Ok(cmd.mem, id) /\ id \notin ResumeAlwaysReruns
      BY <2>2, <2>3 DEF Succeeded, Ok
    <2>6. cmd'.carried \subseteq Ids(Plan)
      BY <2>3 DEF Succeeded
    <2>7. \A k \in DOMAIN Plan : Plan[k].id \in Ids(Plan)
      BY DEF Ids
    <2>8. \A k \in DOMAIN Plan : ~(k < 1)
      BY <1>1
    <2>9. \A id \in cmd'.carried : Ok(cmd.mem, id) /\ id \notin ResumeAlwaysReruns
      BY <2>5, <2>6
    <2> QED BY <2>1, <2>3, <2>4, <2>5, <2>7, <2>8, <2>9 DEF ProgressFits
  <1>3. CASE TakeLockUpFront
    <2>1. /\ cmd.pc = "head" /\ cmd'.pc = "run" /\ cmd'.idx = cmd.idx /\ cmd'.mem = cmd.mem
          /\ cmd'.carried = cmd.carried /\ SameVerdict /\ UNCHANGED <<setup, db>>
      BY <1>1, <1>3, TakeLockIs DEF SameRun, Deploying
    <2>2. Plan' = Plan /\ Project' = Project /\ At("enable")' = At("enable")
      BY <2>1, PlanKept, AtKept
    <2> QED BY <2>1, <2>2 DEF ProgressFits, SameVerdict
  <1>4. CASE CarryOver \/ Skip \/ RecordStep
    BY <1>4, ProgressFitsAfterStep
  <1>5. CASE Probe
    <2>1. /\ cmd'.pc = "run" /\ cmd.pc = "run" /\ cmd'.idx = cmd.idx
          /\ cmd'.carried = cmd.carried /\ cmd'.probed /\ cmd'.required = (db # "current")
          /\ cmd'.window = (cmd.window /\ ~WindowDropped(db # "current"))
          /\ cmd'.mem = [cmd.mem EXCEPT !.verdict = IF db # "current" THEN "migrate" ELSE "skip"]
          /\ ProbeIsDue /\ UNCHANGED <<setup, db>>
      BY <1>1, <1>5, ProbeIs DEF SameRun
    <2>2. /\ cmd'.mem.task = cmd.mem.task
          /\ cmd'.mem.verdict = IF db # "current" THEN "migrate" ELSE "skip"
      BY <1>1, <2>1 DEF RecordType
    <2>3. ~cmd.probed /\ Project.probe /\ cmd.required
      BY <2>1 DEF ProbeIsDue, ProgressFits
    <2>4. Plan' = Plan /\ Project' = Project /\ At("enable")' = At("enable")
      BY <2>1, PlanKept, AtKept
    <2>5. ~cmd'.window => ~cmd'.required /\ Plan[At("enable")].gated
      <3>1. cmd.window
        BY <2>3 DEF ProgressFits
      <3>2. ~cmd'.window => WindowDropped(db # "current")
        BY <2>1, <3>1
      <3>3. WindowDropped(db # "current") => db = "current"
              /\ \E i \in DOMAIN Plan : Plan[i].id = "enable" /\ Plan[i].gated
        BY DeployIs DEF WindowDropped
      <3>4. \A k \in DOMAIN Plan : Plan[k].id = "enable" <=> k = At("enable")
        BY WindowIs DEF WindowSteps
      <3> QED BY <2>1, <3>2, <3>3, <3>4
    <2>6. \A id : Ok(cmd'.mem, id) <=> Ok(cmd.mem, id)
      BY <2>2 DEF Ok
    <2>7. cmd'.mem.verdict = "migrate" <=> cmd'.probed /\ cmd'.required
      BY <2>1, <2>2
    <2>8. \A k \in DOMAIN Plan :
            k < cmd.idx => Ok(cmd.mem, Plan[k].id) \/ ~Implemented(Plan[k]) \/ Plan[k].id = "unlock"
      BY <2>3 DEF ProgressFits
    <2> QED BY <2>1, <2>3, <2>4, <2>5, <2>6, <2>7, <2>8 DEF ProgressFits
  <1>6. CASE RunStep
    <2>1. PICK good \in BOOLEAN :
            /\ SameRun /\ SameVerdict /\ cmd'.pc = "write" /\ cmd.pc = "run"
            /\ cmd'.idx = cmd.idx /\ cmd'.mem = cmd.mem
            /\ Attempt(Step.id, cmd.num, good)
            /\ AtStep /\ Due /\ setup' = setup
      BY <1>1, <1>6, RunStepIs
    <2>2. Plan' = Plan /\ Project' = Project /\ At("enable")' = At("enable") /\ Step' = Step
      BY <2>1, PlanKept, AtKept DEF SameRun
    <2>3. /\ Step.id \notin cmd.carried /\ Implemented(Step)
          /\ Step.gated => cmd.required /\ (Project.probe => cmd.probed)
      BY <2>1 DEF Due, Behind, NotRun, ProbeIsDue, Gated, Implemented
    <2>4. db = "current" => db' = "current"
      BY <1>1, <2>1, StepIsNoRestore DEF Attempt, Effect, DBAfter
    <2>5. /\ cmd'.carried = cmd.carried /\ cmd'.probed = cmd.probed
          /\ cmd'.required = cmd.required /\ cmd'.window = cmd.window
      BY <2>1 DEF SameRun, SameVerdict
    <2> QED BY <2>1, <2>2, <2>3, <2>4, <2>5 DEF ProgressFits
  <1>7. CASE FailStep \/ ProbeFails \/ Finish \/ Killed
    BY <1>1, <1>7 DEF FailStep, ProbeFails, Finish, Killed, EndFailed, Deploying
  <1> QED BY <1>2, <1>3, <1>4, <1>5, <1>6, <1>7 DEF RunSteps

LEMMA ProgressFitsKept ==
  ASSUME TypeInv, Steady, RunFits, ProgressFits, [Next]_vars
  PROVE  ProgressFits'
  <1>1. CASE Commands
    BY <1>1, ProgressFitsAfterStart
  <1>2. CASE RunSteps \/ RollbackSteps
    <2>1. cmd # Idle
      BY <1>2, IdleHasNoStep
    <2>2. CASE cmd.rollback
      BY <1>2, <2>1, <2>2, RollbackStays DEF ProgressFits, Deploying
    <2>3. CASE ~cmd.rollback
      BY <1>2, <2>1, <2>3, RollbackStepsAreOfOne, ProgressFitsAfterRun DEF Deploying
    <2> QED BY <2>2, <2>3
  <1>3. CASE Environment \/ UNCHANGED vars
    <2>1. UNCHANGED <<setup, cmd>> /\ (cmd = Idle \/ db' = db)
      BY <1>3 DEF Environment, Unlock, DatabaseMoves, OtherTakesTheLock,
                  OtherReleasesTheLock, vars
    <2>2. Plan' = Plan /\ Project' = Project /\ At("enable")' = At("enable") /\ Step' = Step
      BY <2>1, AtKept, PlanKept
    <2> QED BY <2>1, <2>2 DEF ProgressFits, Deploying
  <1> QED BY <1>1, <1>2, <1>3 DEF Next

-----------------------------------------------------------------------------
(* The served tree and its flags. *)

LEMMA ReleasesAre ==
  ASSUME TypeInv
  PROVE  /\ Number \subseteq Nat \ {0} /\ Created \subseteq Number
         /\ Incomplete \subseteq Created /\ IncompleteRelease \subseteq Incomplete
         /\ \A n, m \in IncompleteRelease : n = m
  <1>1. Number \subseteq Nat \ {0} /\ Created \subseteq Number
    BY PublishWindowAssumption DEF Number, Created
  <1>2. Incomplete \subseteq Created /\ IncompleteRelease \subseteq Incomplete
    BY DEF Incomplete, Created, IncompleteRelease
  <1>3. ASSUME NEW n \in IncompleteRelease, NEW m \in IncompleteRelease
        PROVE  n = m
    <2>1. n <= m /\ m <= n
      BY <1>2 DEF IncompleteRelease
    <2>2. n \in Nat /\ m \in Nat
      BY <1>1, <1>2
    <2> QED BY <2>1, <2>2
  <1> QED BY <1>1, <1>2, <1>3

LEMMA SiteIs ==
  ASSUME TypeInv, SiteFits
  PROVE  /\ "code" \in Parts /\ served["code"] \in Nat /\ DOMAIN served = Parts
         /\ Symlink => Site = served["code"]
         /\ ~Symlink => Site = 0
         /\ Site \in Created \cup {0}
         /\ Serving => served["code"] # 0
  <1>1. "code" \in Parts /\ served["code"] \in Nat /\ DOMAIN served = Parts
    BY PublishWindowAssumption DEF Parts, TypeInv
  <1>2. (Symlink => Site = served["code"]) /\ (~Symlink => Site = 0)
    BY DEF Site, Docroot
  <1>3. Site \in Created \cup {0}
    BY <1>1, <1>2 DEF SiteFits
  <1> QED BY <1>1, <1>2, <1>3 DEF Serving

LEMMA EffectIs ==
  ASSUME TypeInv, NEW id, NEW n, NEW good \in BOOLEAN, Attempt(id, n, good)
  PROVE  /\ id = "enable" =>
              /\ \/ flags' = flags
                 \/ flags' = flags \cup {Site} /\ served["code"] # 0
              /\ good => Site \in flags' \/ served["code"] = 0
         /\ id = "disable" =>
              /\ flags' = flags \/ flags' = flags \ {Site}
              /\ good => Site \notin flags'
         /\ id \notin {"enable", "disable"} => flags' = flags
         /\ id = "activate" =>
              /\ \/ served' = served
                 \/ /\ served'["code"] = n /\ (Symlink => served' = AllOf(n))
                    /\ \A p \in Parts : served'[p] \in {n, served[p]}
              /\ good => served' = AllOf(n)
         /\ id # "activate" => served' = served
  <1>1. Effect(id, n, good)
    BY DEF Attempt
  <1>2. served \in [Parts -> 0 .. MaxRelease] /\ "code" \in Parts
    BY DEF TypeInv, Parts
  <1>3. id = "enable" =>
          /\ \/ flags' = flags
             \/ flags' = flags \cup {Site} /\ served["code"] # 0
          /\ good => Site \in flags' \/ served["code"] = 0
    BY <1>1 DEF Effect, FlagAfter
  <1>4. id = "disable" =>
          /\ flags' = flags \/ flags' = flags \ {Site}
          /\ good => Site \notin flags'
    BY <1>1 DEF Effect, FlagAfter
  <1>5. ASSUME id = "activate"
        PROVE  /\ \/ served' = served
                  \/ /\ served'["code"] = n /\ (Symlink => served' = AllOf(n))
                     /\ \A p \in Parts : served'[p] \in {n, served[p]}
               /\ good => served' = AllOf(n)
    <2>1. served' \in ServedAfter(n, good)
      BY <1>1, <1>5 DEF Effect
    <2>2. CASE good
      <3>1. served' = AllOf(n)
        BY <2>1, <2>2 DEF ServedAfter
      <3>2. \A p \in Parts : served'[p] = n
        BY <3>1 DEF AllOf
      <3> QED BY <1>2, <3>1, <3>2
    <2>3. CASE ~good /\ Symlink
      BY <2>1, <2>3 DEF ServedAfter
    <2>4. CASE ~good /\ ~Symlink
      <3>1. PICK done \in {S \in SUBSET Parts : S = {} \/ "code" \in S} :
              served' = [p \in Parts |-> IF p \in done THEN n ELSE served[p]]
        BY <2>1, <2>4 DEF ServedAfter
      <3>2. CASE done = {}
        BY <1>2, <2>4, <3>1, <3>2
      <3>3. CASE "code" \in done
        BY <1>2, <2>4, <3>1, <3>3
      <3> QED BY <3>1, <3>2, <3>3
    <2> QED BY <2>2, <2>3, <2>4
  <1>6. id \notin {"enable", "disable"} => flags' = flags
    BY <1>1 DEF Effect, FlagAfter
  <1>7. id # "activate" => served' = served
    BY <1>1 DEF Effect
  <1> QED BY <1>3, <1>4, <1>5, <1>6, <1>7

LEMMA SiteFitsAfterEffect ==
  ASSUME TypeInv, SiteFits, setup' = setup, rec' = rec,
         NEW id, NEW n, NEW good \in BOOLEAN, Attempt(id, n, good),
         id = "activate" => n \in Created
  PROVE  SiteFits'
  <1>1. Symlink' = Symlink /\ Created' = Created
    BY PlanKept DEF Created, Number
  <1>2. /\ "code" \in Parts /\ Site \in Created \cup {0} /\ DOMAIN served = Parts
        /\ Symlink => Site = served["code"]
        /\ ~Symlink => Site = 0
    BY SiteIs
  <1>3. 0 \notin Created
    BY ReleasesAre
  <1>4. CASE id \in {"enable", "disable"}
    <2>1. served' = served
      BY <1>4, EffectIs
    <2>2. flags' \subseteq flags \/ (flags' = flags \cup {Site} /\ served["code"] # 0)
      BY <1>4, EffectIs
    <2>3. flags' \subseteq Created \cup {0}
      BY <1>2, <2>2 DEF SiteFits
    <2>4. Symlink => 0 \notin flags'
      BY <1>2, <2>2 DEF SiteFits
    <2>5. ~Symlink => flags' \subseteq {0}
      BY <1>2, <2>2 DEF SiteFits
    <2> QED BY <1>1, <2>1, <2>3, <2>4, <2>5 DEF SiteFits
  <1>5. CASE id = "activate"
    <2>1. flags' = flags /\ n \in Created /\ n # 0
      BY <1>3, <1>5, EffectIs
    <2>2. CASE served' = served
      BY <1>1, <2>1, <2>2 DEF SiteFits
    <2>3. CASE /\ served'["code"] = n /\ (Symlink => served' = AllOf(n))
               /\ \A p \in Parts : served'[p] \in {n, served[p]}
      <3>1. Symlink => \A p \in Parts : served'[p] = served'["code"]
        BY <1>2, <2>3 DEF AllOf
      <3>2. \A p \in Parts : served'[p] \in Created \cup {0}
        BY <2>1, <2>3 DEF SiteFits
      <3>3. served'["code"] # 0
        BY <2>1, <2>3
      <3> QED BY <1>1, <2>1, <3>1, <3>2, <3>3 DEF SiteFits
    <2> QED BY <1>5, <2>2, <2>3, EffectIs
  <1>6. CASE id \notin {"enable", "disable", "activate"}
    <2>1. flags' = flags /\ served' = served
      BY <1>6, EffectIs
    <2> QED BY <1>1, <2>1 DEF SiteFits
  <1> QED BY <1>4, <1>5, <1>6

\* What a step writes is a record of the command's own release.
LEMMA WritesAre ==
  ASSUME TypeInv, Steady, RunFits, RollbackFits, cmd # Idle, RunSteps \/ RollbackSteps
  PROVE  \/ rec' = rec
         \/ \E r \in RecordType :
              /\ cmd.num \in Number /\ rec' = [rec EXCEPT ![cmd.num] = r]
              /\ r.status # "none" /\ (cmd.rollback => r.status = "ok")
  <1>1. /\ cmd \in CmdType /\ cmd.num \in 0 .. MaxRelease /\ (cmd.num # 0 => cmd.num \in Number)
        /\ cmd.rollback \in BOOLEAN /\ (cmd.rollback => cmd.num # 0) /\ cmd.mem \in RecordType
        /\ cmd.original \in RecordType
    BY CmdIs, PublishWindowAssumption DEF CmdType, CmdFits, Number
  <1>2. /\ cmd.mem.status # "none" /\ (cmd.rollback => cmd.mem.status = "ok")
        /\ cmd.rollback => cmd.original.status = "ok"
    BY DEF RunFits, RollbackFits, Deploying
  <1>3. Losses = {0}
    BY DEF Losses, Steady
  <1>4. ASSUME NEW r \in RecordType, NEW cost \in Nat, StoreAfter(cmd.num, r, cost),
               r.status # "none" /\ (cmd.rollback => r.status = "ok")
        PROVE  \/ rec' = rec
               \/ \E s \in RecordType :
                    /\ cmd.num \in Number /\ rec' = [rec EXCEPT ![cmd.num] = s]
                    /\ s.status # "none" /\ (cmd.rollback => s.status = "ok")
    BY <1>1, <1>4 DEF StoreAfter
  <1>5. CASE CarryOver \/ Skip \/ RecordStep
    <2>1. PICK status \in {"ok", "skipped"} :
            cmd'.mem = Record(status) /\ StoreAfter(cmd.num, cmd'.mem, 0)
      <3>1. CASE CarryOver
        BY <3>1, AdvanceIs DEF CarryOver, Store
      <3>2. CASE Skip
        BY <3>2, AdvanceIs DEF Skip, Store
      <3>3. CASE RecordStep
        BY <3>3, RecordStepIs
      <3> QED BY <1>5, <3>1, <3>2, <3>3
    <2>2. Record(status) \in RecordType /\ Record(status).status = cmd.mem.status
      BY <1>1, RecordIs DEF Outcome
    <2> QED BY <1>2, <1>4, <2>1, <2>2
  <1>6. CASE Probe
    <2>1. /\ StoreAfter(cmd.num, cmd'.mem, 0)
          /\ cmd'.mem = [cmd.mem EXCEPT !.verdict = IF db # "current" THEN "migrate" ELSE "skip"]
      BY <1>6, ProbeIs
    <2>2. cmd'.mem \in RecordType /\ cmd'.mem.status = cmd.mem.status
      BY <1>1, <2>1 DEF RecordType, Verdict
    <2> QED BY <1>2, <1>4, <2>1, <2>2
  <1>7. CASE FailStep \/ ProbeFails
    <2>1. PICK mem \in RecordType, cost \in {0, 1} :
            EndFailed(mem, cost) /\ mem.status = "failed"
      <3>1. /\ [Record("failed") EXCEPT !.status = "failed"] \in RecordType
            /\ [Record("failed") EXCEPT !.status = "failed"].status = "failed"
        BY <1>1, RecordIs DEF Outcome
      <3>2. /\ [cmd.mem EXCEPT !.status = "failed"] \in RecordType
            /\ [cmd.mem EXCEPT !.status = "failed"].status = "failed"
        BY <1>1 DEF RecordType
      <3> QED BY <1>7, <3>1, <3>2 DEF FailStep, ProbeFails
    <2>2. CASE cmd.rollback
      <3>1. rec' = [rec EXCEPT ![cmd.num] = Restored(mem)]
        BY <1>3, <2>1, <2>2 DEF EndFailed
      <3>2. Restored(mem) \in RecordType /\ Restored(mem).status = "ok"
        BY <1>1, <1>2, <2>2, RestoredIs
      <3> QED BY <1>1, <2>2, <3>1, <3>2
    <2>3. CASE ~cmd.rollback
      BY <1>4, <2>1, <2>3 DEF EndFailed
    <2> QED BY <1>1, <2>2, <2>3
  <1>8. CASE Finish
    <2> DEFINE mem == [cmd.mem EXCEPT !.status = "ok"]
    <2>1. mem \in RecordType /\ mem.status = "ok"
      BY <1>1 DEF RecordType
    <2>2. Restored(mem) \in RecordType /\ (cmd.rollback => Restored(mem).status = "ok")
      BY <1>1, <1>2, <2>1, RestoredIs
    <2>3. \/ rec' = rec
          \/ rec' = [rec EXCEPT ![cmd.num] = mem]
          \/ cmd.rollback /\ rec' = [rec EXCEPT ![cmd.num] = Restored(mem)]
      BY <1>8 DEF Finish
    <2> HIDE DEF mem
    <2>4. cmd.num = 0 => [rec EXCEPT ![cmd.num] = mem] = rec
      <3>1. rec \in [Number -> RecordType] /\ 0 \notin Number
        BY ReleasesAre DEF TypeInv
      <3> QED BY <3>1
    <2> QED BY <1>1, <2>1, <2>2, <2>3, <2>4
  <1>9. CASE ReadRecord \/ TakeLockUpFront \/ RunStep \/ Killed \/ RollbackSteps
    BY <1>9 DEF ReadRecord, TakeLockUpFront, RunStep, Killed, RollbackSteps, StartTail,
                QueuedStep, EndRollback
  <1> QED BY <1>5, <1>6, <1>7, <1>8, <1>9 DEF RunSteps

LEMMA CreatedStays ==
  ASSUME TypeInv, Steady, RunFits, RollbackFits, [Next]_vars
  PROVE  /\ Created \subseteq Created'
         /\ cmd # Idle /\ cmd.rollback => Incomplete' = {}
  <1>1. CASE rec' = rec
    <2>1. Created' = Created /\ Incomplete' = Incomplete
      BY <1>1 DEF Created, Incomplete, Number
    <2> QED BY <2>1 DEF RollbackFits
  <1>2. CASE rec' # rec
    <2>1. RunSteps \/ RollbackSteps
      BY <1>2 DEF Next, vars, Commands, StartDeploy, StartResume, StartRollback, Environment,
                  Unlock, DatabaseMoves, OtherTakesTheLock, OtherReleasesTheLock
    <2>2. cmd # Idle
      BY <2>1, IdleHasNoStep
    <2>3. PICK r \in RecordType :
              /\ cmd.num \in Number /\ rec' = [rec EXCEPT ![cmd.num] = r]
              /\ r.status # "none" /\ (cmd.rollback => r.status = "ok")
      BY <1>2, <2>1, <2>2, WritesAre
    <2>4. rec'[cmd.num] = r /\ \A n \in Number : n # cmd.num => rec'[n] = rec[n]
      BY <2>3 DEF TypeInv
    <2>5. Created \subseteq Created'
      BY <2>3, <2>4 DEF Created, Number
    <2>6. cmd.rollback => Incomplete' = {}
      <3> SUFFICES ASSUME cmd.rollback, NEW n \in Incomplete'
                   PROVE  FALSE
        OBVIOUS
      <3>1. n \in Number /\ rec'[n].status \in {"running", "failed"}
        BY DEF Incomplete, Number
      <3>2. n # cmd.num
        BY <2>3, <2>4, <3>1
      <3>3. n \in Incomplete
        BY <2>4, <3>1, <3>2 DEF Incomplete
      <3> QED BY <2>2, <3>3 DEF RollbackFits
    <2> QED BY <2>5, <2>6
  <1> QED BY <1>1, <1>2

\* The number of a run that is past its release step has a record.
LEMMA NumberIs ==
  ASSUME TypeInv, Steady, RunFits, Deploying, AtStep,
         Step.id \in {"enable", "migrate", "activate", "disable"}
  PROVE  /\ cmd.num # 0 /\ ~Fresh /\ cmd.num \in Created /\ cmd.num \in IncompleteRelease
         /\ rec[cmd.num] = cmd.mem
  <1>1. cmd.idx \in DOMAIN Plan /\ Step = Plan[cmd.idx] /\ cmd.pc = "run"
    BY StepIsOfThePlan DEF Deploying, AtStep
  <1>2. \A id \in WindowSteps : At(id) \in Nat /\ \A k \in DOMAIN Plan : Plan[k].id = id <=> k = At(id)
    BY WindowIs
  <1>3. At("release") < At("enable") /\ At("enable") < At("migrate") /\ At("migrate") < At("activate")
        /\ (Symlink => At("migrate") < At("disable")) /\ (~Symlink => At("activate") < At("disable"))
    BY WindowIs
  <1>4. cmd.idx > At("release")
    BY <1>1, <1>2, <1>3 DEF WindowSteps
  <1>5. ~(cmd.idx <= At("release"))
    BY <1>2, <1>4, DeployIs DEF WindowSteps
  <1>6. cmd.num # 0 /\ ~Fresh
    BY <1>1, <1>5 DEF RunFits
  <1> QED BY <1>6, ReleasesAre DEF RunFits

-----------------------------------------------------------------------------
(* What a record says of the site. *)

\* The steps RecordFits looks at: those a resume may carry over.
Lasting == Ids(Plan) \ ResumeAlwaysReruns

LEMMA LastingAre ==
  ASSUME TypeInv, Steady
  PROVE  /\ {"enable", "migrate", "activate", "disable"} \subseteq Lasting
         /\ \A k \in DOMAIN Plan : Plan[k].stage = "publish" => Plan[k].id \in Lasting
  <1>1. ASSUME NEW id \in WindowSteps
        PROVE  id \in Lasting
    <2>1. At(id) \in DOMAIN Plan /\ Plan[At(id)].id = id
      BY WindowIs
    <2>2. id \in Ids(Plan)
      BY <2>1 DEF Ids
    <2> QED BY <2>2 DEF Lasting, WindowSteps, ResumeAlwaysReruns
  <1>2. \A k \in DOMAIN Plan : Plan[k].stage = "publish" => Plan[k].id \in Lasting
    BY GatesAre DEF Lasting, Ids
  <1> QED BY <1>1, <1>2 DEF WindowSteps

\* The site as it was, and a record that says the same of every lasting step.
LEMMA RecordFitsStill ==
  ASSUME TypeInv, Steady, UNCHANGED <<setup, served, flags>>,
         NEW n, NEW r, NEW s, RecordFits(n, r), s.verdict = r.verdict,
         \A id \in Lasting : Ok(s, id) <=> Ok(r, id)
  PROVE  RecordFits(n, s)'
  <1>1. /\ Plan' = Plan /\ Symlink' = Symlink /\ Project' = Project
        /\ At("enable")' = At("enable") /\ Site' = Site /\ Down' = Down
        /\ OneOf(n)' = OneOf(n) /\ AllOf(n)' = AllOf(n)
    BY PlanKept, AtKept DEF Site, Down, Symlink, Project, OneOf, AllOf
  <1>2. LetThrough(s)' <=> LetThrough(r)
    BY <1>1 DEF LetThrough
  <1>3. /\ Ok(s, "enable") <=> Ok(r, "enable")
        /\ Ok(s, "migrate") <=> Ok(r, "migrate")
        /\ Ok(s, "activate") <=> Ok(r, "activate")
        /\ Ok(s, "disable") <=> Ok(r, "disable")
        /\ \A k \in DOMAIN Plan : Plan[k].stage = "publish" => (Ok(s, Plan[k].id) <=> Ok(r, Plan[k].id))
    BY LastingAre
  <1> QED BY <1>1, <1>2, <1>3 DEF RecordFits

\* What was not recorded ok when a step is reached still is not.
LEMMA NotYetOk ==
  ASSUME TypeInv, Steady, ProgressFits, Deploying, cmd.pc # "resume",
         NEW k \in DOMAIN Plan, cmd.idx <= k, Plan[k].id \notin cmd.carried,
         Plan[k].id \in Lasting
  PROVE  ~Ok(cmd.mem, Plan[k].id)
  BY DEF ProgressFits, Lasting

\* The steps of the window that are behind a run.
LEMMA BehindIs ==
  ASSUME TypeInv, Steady, ProgressFits, Deploying, NEW id \in WindowSteps,
         At(id) < cmd.idx
  PROVE  /\ Ok(cmd.mem, id) \/ (Plan[At(id)].gated /\ ~cmd.required)
         /\ id \in {"release", "activate"} => Ok(cmd.mem, id)
         /\ ~Symlink /\ id = "enable" => Ok(cmd.mem, id)
  <1>1. /\ At(id) \in DOMAIN Plan /\ Plan[At(id)].id = id /\ Implemented(Plan[At(id)])
        /\ id # "unlock"
    BY WindowIs DEF WindowSteps
  <1>2. Ok(cmd.mem, id) \/ (Plan[At(id)].gated /\ ~cmd.required)
    BY <1>1 DEF ProgressFits
  <1> QED BY <1>2, GatesAre

\* The probe lets an enable through by a verdict to migrate, and then asks for it.
LEMMA LetThroughIs ==
  ASSUME TypeInv, Steady, ProgressFits, Deploying, cmd.pc # "resume",
         LetThrough(cmd.mem), Plan[At("enable")].gated
  PROVE  cmd.required
  BY DEF ProgressFits, LetThrough

\* Before its release step a run has nothing recorded ok that lasts.
LEMMA NothingYetOk ==
  ASSUME TypeInv, Steady, RunFits, ProgressFits, Deploying, cmd.num = 0,
         NEW id \in {"enable", "migrate", "activate", "disable"}
  PROVE  ~Ok(cmd.mem, id)
  <1>1. cmd.carried = {} /\ cmd.idx <= At("release") /\ cmd.pc # "resume"
    BY DEF RunFits
  <1>2. /\ At("release") < At("enable") /\ At("enable") < At("migrate")
        /\ At("migrate") < At("activate") /\ (Symlink => At("migrate") < At("disable"))
        /\ (~Symlink => At("activate") < At("disable"))
        /\ \A i \in WindowSteps : At(i) \in DOMAIN Plan /\ At(i) \in Nat /\ Plan[At(i)].id = i
    BY WindowIs
  <1>3. id \in WindowSteps /\ "release" \in WindowSteps /\ "enable" \in WindowSteps
        /\ "migrate" \in WindowSteps /\ "activate" \in WindowSteps /\ "disable" \in WindowSteps
    BY DEF WindowSteps
  <1>4. At("release") <= At(id)
    BY <1>2, <1>3
  <1>5. cmd.idx <= At(id)
    BY <1>1, <1>2, <1>3, <1>4, DeployIs
  <1>6. Plan[At(id)].id \in Lasting /\ Plan[At(id)].id = id
    BY <1>2, <1>3, LastingAre
  <1> QED BY <1>1, <1>2, <1>3, <1>5, <1>6, NotYetOk

\* The record a resume would take up, or the one that is run, fits the site.
LEMMA ResumableFits ==
  ASSUME TypeInv, RunFits, RecordsFit, NEW n \in Resumable
  PROVE  RecordFits(n, rec[n])
  <1>1. CASE Deploying /\ cmd.num # 0 /\ ~Fresh
    <2>1. rec[cmd.num] = cmd.mem /\ cmd.num \in IncompleteRelease
      BY <1>1 DEF RunFits
    <2>2. n = cmd.num
      BY <2>1, ReleasesAre DEF Resumable
    <2> QED BY <1>1, <2>1, <2>2 DEF RecordsFit
  <1>2. CASE ~(Deploying /\ cmd.num # 0 /\ ~Fresh)
    BY <1>2 DEF RecordsFit
  <1> QED BY <1>1, <1>2

\* A step that is carried over, or passed over, and one that is recorded ok.
LEMMA RecordFitsAfterStep ==
  ASSUME TypeInv, Steady, RunFits, ProgressFits, SiteFits, RecordsFit, Deploying,
         cmd.num # 0, CarryOver \/ Skip \/ RecordStep,
         NEW n, n = cmd.num, NEW s, s = cmd'.mem
  PROVE  RecordFits(n, s)'
  <1> DEFINE r == cmd.mem
  <1>1. PICK status \in {"ok", "skipped"} :
           /\ (status = "ok" /\ (CarryOver \/ RecordStep)) \/ (status = "skipped" /\ Skip)
           /\ s.verdict = r.verdict
           /\ \A id \in Ids(Plan) : s.task[id] = IF id = Step.id THEN status ELSE r.task[id]
           /\ cmd.idx \in DOMAIN Plan /\ Step = Plan[cmd.idx] /\ Step.id \in Ids(Plan)
           /\ \A k \in DOMAIN Plan : Plan[k].id = Step.id <=> k = cmd.idx
           /\ UNCHANGED <<setup, served, flags, db, lock>>
    BY AdvancedIs
  <1>2. RecordFits(n, r) /\ cmd.idx \in Nat /\ cmd.pc # "resume"
    <2>1. cmd.pc # "resume"
      BY DEF CarryOver, Skip, RecordStep, AtStep
    <2> QED BY <2>1, DeployIs DEF RecordsFit
  <1>3. CASE CarryOver \/ Skip
    <2>1. Step.id \in Lasting => (Ok(s, Step.id) <=> Ok(r, Step.id))
      <3>1. CASE CarryOver /\ status = "ok"
        <4>1. Ok(r, Step.id)
          BY <3>1 DEF ProgressFits, CarryOver
        <4> QED BY <1>1, <3>1, <4>1 DEF Ok
      <3>2. CASE Skip /\ status = "skipped"
        <4>1. Step.id \notin cmd.carried
          BY <3>2 DEF Skip
        <4>2. Step.id \in Lasting => ~Ok(r, Step.id)
          BY <1>1, <1>2, <4>1, NotYetOk
        <4> QED BY <1>1, <3>2, <4>2 DEF Ok
      <3>3. ~(RecordStep /\ (CarryOver \/ Skip)) /\ ~(CarryOver /\ Skip)
        BY DEF RecordStep, CarryOver, Skip, AtStep
      <3> QED BY <1>1, <1>3, <3>1, <3>2, <3>3
    <2>2. \A id \in Lasting : Ok(s, id) <=> Ok(r, id)
      BY <1>1, <2>1 DEF Lasting, Ok
    <2> HIDE DEF r
    <2> QED BY <1>1, <1>2, <2>2, RecordFitsStill
  <1>4. CASE RecordStep
    <2>1. cmd.pc = "write" /\ cmd.good /\ status = "ok"
      BY <1>1, <1>4 DEF RecordStep, Skip, AtStep
    <2>2. /\ Step.id \notin cmd.carried /\ Implemented(Step)
          /\ Step.gated => cmd.required /\ (Project.probe => cmd.probed)
      BY <2>1 DEF ProgressFits
    <2>3. /\ Step.id = "activate" => served = AllOf(n)
          /\ Step.id = "disable" => Site \notin flags
          /\ Step.id = "enable" => Down \/ served["code"] = 0
      BY <2>1 DEF RecordsFit
    <2>4. /\ \A id \in Ids(Plan) : Ok(r, id) => Ok(s, id)
          /\ \A id \in Ids(Plan) : id # Step.id => (Ok(s, id) <=> Ok(r, id))
          /\ \A k \in DOMAIN Plan : Ok(r, Plan[k].id) => Ok(s, Plan[k].id)
      BY <1>1, <2>1 DEF Ok, Ids
    <2>5. /\ "enable" \in Ids(Plan) /\ "migrate" \in Ids(Plan)
          /\ "activate" \in Ids(Plan) /\ "disable" \in Ids(Plan)
      BY LastingAre DEF Lasting
    <2>6. /\ Plan' = Plan /\ Symlink' = Symlink /\ Project' = Project
          /\ At("enable")' = At("enable") /\ Site' = Site /\ Down' = Down
          /\ OneOf(n)' = OneOf(n) /\ AllOf(n)' = AllOf(n) /\ served' = served /\ flags' = flags
      BY <1>1, PlanKept, AtKept DEF Site, Down, Symlink, Project, OneOf, AllOf
    <2>7. \A id \in WindowSteps : At(id) \in Nat /\ (Step.id = id <=> cmd.idx = At(id))
      BY <1>1, WindowIs
    <2>8. /\ Site \in Created \cup {0} /\ (Symlink => Site = served["code"])
          /\ (~Symlink => Site = 0)
      BY SiteIs
    <2>9. Ok(s, "enable") =>
            \A k \in DOMAIN Plan :
              k < At("enable") /\ Plan[k].stage = "publish"
                => Ok(s, Plan[k].id) \/ ~Implemented(Plan[k])
      <3>1. CASE Ok(r, "enable")
        BY <1>2, <2>4, <3>1 DEF RecordFits
      <3>2. CASE Step.id = "enable"
        <4> SUFFICES ASSUME NEW k \in DOMAIN Plan, k < At("enable"), Plan[k].stage = "publish"
                     PROVE  Ok(r, Plan[k].id) \/ ~Implemented(Plan[k])
          BY <2>4
        <4>1. k < cmd.idx /\ Plan[k].id # "unlock" /\ ~Plan[k].gated
          <5>1. Plan[k].id # "unlock"
            BY GatesAre DEF ResumeAlwaysReruns
          <5>2. Plan[k].gated => At("enable") <= k
            BY GatesAre
          <5>3. k \in Nat /\ At("enable") \in Nat /\ cmd.idx = At("enable")
            BY <2>7, <3>2, PlanPositions DEF WindowSteps
          <5> QED BY <5>1, <5>2, <5>3
        <4> QED BY <4>1 DEF ProgressFits
      <3> QED BY <2>4, <2>5, <3>1, <3>2
    <2>10. Ok(s, "disable") => Ok(s, "enable")
      <3>1. CASE Step.id = "disable"
        <4>1. cmd.idx = At("disable") /\ At("enable") < At("disable")
          <5>1. At("enable") < At("migrate") /\ At("migrate") < At("activate")
                /\ (Symlink => At("migrate") < At("disable")) /\ (~Symlink => At("activate") < At("disable"))
            BY WindowIs
          <5> QED BY <2>7, <3>1, <5>1 DEF WindowSteps
        <4>2. Ok(r, "enable") \/ (Plan[At("enable")].gated /\ ~cmd.required)
          BY <4>1, BehindIs DEF WindowSteps
        <4>3. Plan[At("enable")].gated => Step.gated
          BY <1>1, <4>1, GatesAre
        <4> QED BY <2>2, <2>4, <2>5, <4>2, <4>3
      <3>2. CASE Step.id # "disable"
        BY <1>2, <2>4, <2>5, <3>2 DEF RecordFits
      <3> QED BY <3>1, <3>2
    <2>11. Ok(s, "activate") => served = AllOf(n)
      BY <1>2, <2>3, <2>4, <2>5 DEF RecordFits
    <2>12. Ok(s, "disable") => Site \notin flags /\ (Symlink => n \notin flags)
      <3>1. CASE Step.id = "disable"
        <4>1. Site \notin flags
          BY <2>3, <3>1
        <4>2. Symlink => n \notin flags
          BY <1>2, <2>8, <4>1 DEF RecordFits
        <4> QED BY <4>1, <4>2
      <3>2. CASE Step.id # "disable"
        BY <1>2, <2>4, <2>5, <3>2 DEF RecordFits
      <3> QED BY <3>1, <3>2
    <2>13. Ok(s, "enable") \/ (Symlink /\ n \in flags)
             => (Plan[At("enable")].gated /\ Project.probe => s.verdict = "migrate")
      <3>1. CASE Ok(r, "enable") \/ (Symlink /\ n \in flags)
        BY <1>1, <1>2, <3>1 DEF RecordFits, LetThrough
      <3>2. CASE Step.id = "enable"
        <4>1. Step = Plan[At("enable")]
          BY <1>1, <2>7, <3>2 DEF WindowSteps
        <4>2. Plan[At("enable")].gated /\ Project.probe => cmd.probed /\ cmd.required
          BY <2>2, <4>1
        <4> QED BY <1>1, <1>2, <4>2 DEF ProgressFits
      <3> QED BY <2>4, <2>5, <3>1, <3>2
    <2>14. ~Symlink /\ Ok(s, "enable") => 0 \in flags \/ OneOf(n)
      <3>1. CASE Ok(r, "enable")
        BY <1>2, <3>1 DEF RecordFits
      <3>2. CASE Step.id = "enable" /\ ~Symlink
        <4>1. Down => 0 \in flags
          BY <2>8, <3>2 DEF Down
        <4>2. served["code"] = 0 => OneOf(n)
          BY DEF SiteFits, OneOf
        <4> QED BY <2>3, <3>2, <4>1, <4>2
      <3> QED BY <2>4, <2>5, <3>1, <3>2
    <2>15. Symlink /\ n \in flags => served["code"] = n
      BY <1>2 DEF RecordFits
    <2>16. Symlink /\ Ok(s, "enable") /\ ~Ok(s, "migrate") => Down \/ served["code"] = 0
      <3>1. CASE Ok(r, "enable")
        BY <1>2, <2>4, <2>5, <3>1 DEF RecordFits
      <3>2. CASE Step.id = "enable"
        BY <2>3, <3>2
      <3> QED BY <2>4, <2>5, <3>1, <3>2
    <2> HIDE DEF r
    <2> QED
      BY <2>6, <2>9, <2>10, <2>11, <2>12, <2>13, <2>14, <2>15, <2>16 DEF RecordFits, LetThrough
  <1> QED BY <1>3, <1>4

\* A step that changes the site, of a run whose record does not say so yet.
LEMMA RecordFitsAfterEffect ==
  ASSUME TypeInv, Steady, RunFits, ProgressFits, SiteFits, RecordsFit, Deploying,
         AtStep, Due, setup' = setup, NEW good \in BOOLEAN,
         Attempt(Step.id, cmd.num, good),
         Step.id \in {"enable", "activate", "disable"},
         NEW n, n = cmd.num, NEW r, r = cmd.mem
  PROVE  /\ RecordFits(n, r)'
         /\ good =>
              /\ Step.id = "activate" => served' = AllOf(n)
              /\ Step.id = "disable" => Site' \notin flags'
              /\ Step.id = "enable" => Down' \/ served'["code"] = 0
  <1>1. /\ cmd.idx \in DOMAIN Plan /\ Step = Plan[cmd.idx] /\ cmd.pc = "run"
        /\ cmd.idx \in Nat
    BY StepIsOfThePlan, DeployIs DEF Deploying, AtStep
  <1>2. RecordFits(n, r) /\ n # 0 /\ n \in Created
    BY NumberIs DEF RecordsFit
  <1>3. /\ Step.id \notin cmd.carried /\ Implemented(Step)
        /\ Step.gated => cmd.required /\ (Project.probe => cmd.probed)
    BY DEF Due, Behind, NotRun, ProbeIsDue, Gated, Implemented
  <1>4. ~Ok(r, Step.id)
    BY <1>1, <1>3, LastingAre, NotYetOk
  <1>5. \A id \in WindowSteps : At(id) \in Nat /\ (Step.id = id <=> cmd.idx = At(id))
    BY <1>1, WindowIs
  <1>6. /\ At("enable") < At("migrate") /\ At("migrate") < At("activate")
        /\ Symlink => At("migrate") < At("disable") /\ At("disable") < At("activate")
        /\ ~Symlink => At("activate") < At("disable")
    BY WindowIs
  <1>7. /\ Plan' = Plan /\ Symlink' = Symlink /\ Project' = Project
        /\ At("enable")' = At("enable") /\ AllOf(n)' = AllOf(n)
    BY PlanKept, AtKept DEF AllOf
  <1>8. LetThrough(r)' <=> LetThrough(r)
    BY <1>7 DEF LetThrough
  <1>9. /\ Site \in Created \cup {0} /\ (Symlink => Site = served["code"])
        /\ (~Symlink => Site = 0) /\ "code" \in Parts
    BY SiteIs
  <1>10. (Symlink => Site' = served'["code"]) /\ (~Symlink => Site' = 0)
    BY <1>7 DEF Site, Docroot
  <1>11. CASE Step.id = "enable"
    <2>1. served' = served /\ (flags' = flags \/ flags' = flags \cup {Site})
          /\ (good => Site \in flags' \/ served["code"] = 0)
      BY <1>11, EffectIs
    <2>2. Site' = Site
      BY <1>9, <1>10, <2>1
    <2>3. ~Ok(r, "enable") /\ ~Ok(r, "disable")
      BY <1>2, <1>4, <1>11 DEF RecordFits
    <2>4. Ok(r, "activate") => served' = AllOf(n)
      BY <1>2, <2>1 DEF RecordFits
    <2>5. LetThrough(r)
      <3>1. Plan[At("enable")] = Step
        BY <1>1, <1>5, <1>11 DEF WindowSteps
      <3> QED BY <1>1, <1>3, <3>1 DEF LetThrough, ProgressFits
    <2>6. Symlink /\ n \in flags' => served'["code"] = n
      BY <1>2, <1>9, <2>1 DEF RecordFits
    <2>7. RecordFits(n, r)'
      BY <1>7, <1>8, <2>3, <2>4, <2>5, <2>6 DEF RecordFits
    <2>8. good => Down' \/ served'["code"] = 0
      BY <2>1, <2>2 DEF Down
    <2> QED BY <1>11, <2>7, <2>8
  <1>12. CASE Step.id = "disable"
    <2>1. served' = served /\ (flags' = flags \/ flags' = flags \ {Site})
          /\ (good => Site \notin flags')
      BY <1>12, EffectIs
    <2>2. Site' = Site
      BY <1>9, <1>10, <2>1
    <2>3. ~Ok(r, "disable") /\ cmd.idx = At("disable")
      BY <1>4, <1>5, <1>12 DEF WindowSteps
    <2>4. flags' \subseteq flags
      BY <2>1
    <2>5. Symlink => Ok(r, "migrate")
      <3> SUFFICES ASSUME Symlink
                   PROVE  Ok(r, "migrate")
        OBVIOUS
      <3>1. Ok(r, "migrate") \/ (Plan[At("migrate")].gated /\ ~cmd.required)
        BY <1>6, <2>3, BehindIs DEF WindowSteps
      <3>2. Plan[At("migrate")].gated => Step.gated
        BY <1>1, <2>3, GatesAre
      <3> QED BY <1>3, <3>1, <3>2
    <2>6. ~Symlink => OneOf(n)'
      <3> SUFFICES ASSUME ~Symlink
                   PROVE  OneOf(n)'
        OBVIOUS
      <3>1. Ok(r, "activate")
        BY <1>6, <2>3, BehindIs DEF WindowSteps
      <3>2. served' = AllOf(n)
        BY <1>2, <2>1, <3>1 DEF RecordFits
      <3> QED BY <3>2 DEF OneOf, AllOf
    <2>7. Ok(r, "activate") => served' = AllOf(n)
      BY <1>2, <2>1 DEF RecordFits
    <2>8. Ok(r, "enable") \/ (Symlink /\ n \in flags') => LetThrough(r)
      BY <1>2, <2>4 DEF RecordFits
    <2>9. Symlink /\ n \in flags' => served'["code"] = n
      BY <1>2, <2>1, <2>4 DEF RecordFits
    <2>10. Ok(r, "enable") =>
             \A k \in DOMAIN Plan :
               k < At("enable") /\ Plan[k].stage = "publish"
                 => Ok(r, Plan[k].id) \/ ~Implemented(Plan[k])
      BY <1>2 DEF RecordFits
    <2>11. RecordFits(n, r)'
      BY <1>7, <1>8, <2>3, <2>5, <2>6, <2>7, <2>8, <2>9, <2>10 DEF RecordFits
    <2> QED BY <1>12, <2>1, <2>2, <2>11
  <1>13. CASE Step.id = "activate"
    <2>1. /\ flags' = flags /\ (good => served' = AllOf(n))
          /\ \/ served' = served
             \/ served'["code"] = n /\ \A p \in Parts : served'[p] \in {n, served[p]}
      <3>1. /\ flags' = flags /\ (good => served' = AllOf(n))
        BY <1>13, EffectIs
      <3>2. \/ served' = served
            \/ /\ served'["code"] = n /\ (Symlink => served' = AllOf(n))
               /\ \A p \in Parts : served'[p] \in {n, served[p]}
        BY <1>13, EffectIs
      <3> QED BY <3>1, <3>2
    <2>2. served'["code"] \in {n, served["code"]}
      BY <2>1
    <2>3. ~Ok(r, "activate") /\ cmd.idx = At("activate")
      BY <1>4, <1>5, <1>13 DEF WindowSteps
    <2>4. Ok(r, "disable") => Site' \notin flags' /\ (Symlink => n \notin flags')
      BY <1>2, <1>9, <1>10, <2>1, <2>2 DEF RecordFits
    <2>5. Ok(r, "enable") \/ (Symlink /\ n \in flags') => LetThrough(r)
      BY <1>2, <2>1 DEF RecordFits
    <2>6. ~Symlink /\ Ok(r, "enable") => 0 \in flags' \/ OneOf(n)'
      <3>1. OneOf(n) => OneOf(n)'
        BY <2>1 DEF OneOf
      <3> QED BY <1>2, <2>1, <3>1 DEF RecordFits
    <2>7. Symlink /\ n \in flags' => served'["code"] = n
      BY <1>2, <2>1, <2>2 DEF RecordFits
    <2>8. Symlink => ~(Ok(r, "enable") /\ ~Ok(r, "migrate"))
      <3> SUFFICES ASSUME Symlink, Ok(r, "enable"), ~Ok(r, "migrate")
                   PROVE  FALSE
        OBVIOUS
      <3>1. Plan[At("migrate")].gated /\ ~cmd.required
        BY <1>6, <2>3, BehindIs DEF WindowSteps
      <3>2. Plan[At("enable")].gated
        BY <3>1, GatesAre
      <3>3. LetThrough(cmd.mem)
        BY <1>2 DEF RecordFits
      <3> QED BY <1>1, <3>1, <3>2, <3>3, LetThroughIs
    <2>9. Ok(r, "enable") =>
             \A k \in DOMAIN Plan :
               k < At("enable") /\ Plan[k].stage = "publish"
                 => Ok(r, Plan[k].id) \/ ~Implemented(Plan[k])
      BY <1>2 DEF RecordFits
    <2>10. Ok(r, "disable") => Ok(r, "enable")
      BY <1>2 DEF RecordFits
    <2>11. RecordFits(n, r)'
      BY <1>7, <1>8, <2>3, <2>4, <2>5, <2>6, <2>7, <2>8, <2>9, <2>10 DEF RecordFits
    <2> QED BY <1>13, <2>1, <2>11
  <1> QED BY <1>11, <1>12, <1>13

\* The site as it was: a record that fitted it still does.
LEMMA RecordFitsSame ==
  ASSUME TypeInv, Steady, UNCHANGED <<setup, served, flags>>,
         NEW n, NEW r, RecordFits(n, r)
  PROVE  RecordFits(n, r)'
  BY RecordFitsStill

\* Without a change of the site and the records a command may come or go.
LEMMA RecordsFitWithoutARun ==
  ASSUME TypeInv, Steady, RunFits, RecordsFit, UNCHANGED <<setup, served, flags, rec>>,
         ~Deploying' \/ (cmd'.num = 0 /\ cmd'.pc # "write")
  PROVE  RecordsFit'
  <1>1. Resumable' = Resumable
    BY DEF Resumable, IncompleteRelease, Incomplete, Number
  <1>2. \A n \in Resumable : RecordFits(n, rec[n])
    BY ResumableFits
  <1>3. \A n \in Resumable : RecordFits(n, rec[n])'
    <2> SUFFICES ASSUME NEW n \in Resumable
                 PROVE  RecordFits(n, rec[n])'
      OBVIOUS
    <2>1. PICK s : s = rec[n]
      OBVIOUS
    <2>2. RecordFits(n, s)'
      BY <1>2, <2>1, RecordFitsSame
    <2>3. s = rec'[n]
      BY <2>1
    <2> QED BY <2>2, <2>3
  <1> QED BY <1>1, <1>3 DEF RecordsFit

LEMMA RecordsFitAfterStart ==
  ASSUME TypeInv, Steady, RunFits, SiteFits, RecordsFit, Commands
  PROVE  RecordsFit'
  <1>1. UNCHANGED <<setup, served, flags, rec>> /\ cmd = Idle
    BY DEF Commands, StartDeploy, StartResume, StartRollback
  <1>2. CASE \E from \in Project.froms : StartDeploy(from) \/ StartResume(from)
    <2>1. PICK from \in Project.froms : StartDeploy(from) \/ StartResume(from)
      BY <1>2
    <2>2. PICK n \in 0 .. MaxRelease, mem \in RecordType :
           /\ cmd'.num = n /\ cmd'.mem = mem
           /\ \/ cmd'.pc = "head" /\ n = 0
              \/ /\ cmd'.pc = "resume" /\ n \in IncompleteRelease /\ mem = rec[n]
                 /\ ~(served["code"] \in Created /\ n < served["code"])
      BY <2>1, DeployStartIs
    <2>3. CASE cmd'.pc = "head" /\ n = 0
      BY <1>1, <2>2, <2>3, RecordsFitWithoutARun
    <2>4. CASE /\ cmd'.pc = "resume" /\ n \in IncompleteRelease /\ mem = rec[n]
               /\ ~(served["code"] \in Created /\ n < served["code"])
      <3>1. n \in Number /\ rec[n].status # "none" /\ n \in Nat
        BY <2>4, ReleasesAre DEF IncompleteRelease, Incomplete
      <3>2. served["code"] <= n
        <4>1. served["code"] \in Created \cup {0} /\ served["code"] \in Nat
          BY SiteIs DEF SiteFits
        <4> QED BY <2>4, <3>1, <4>1
      <3>3. RecordFits(n, mem)
        BY <2>4, <3>2, ResumableFits DEF Resumable
      <3>4. RecordFits(n, mem)'
        BY <1>1, <3>3, RecordFitsSame
      <3>5. cmd'.num # 0 /\ ~Fresh'
        BY <1>1, <2>2, <3>1, ReleasesAre DEF Fresh
      <3>6. RecordFits(cmd.num, cmd.mem)'
        BY <2>2, <3>4
      <3>7. Deploying'
        BY <2>1, DeployStartIs DEF Deploying
      <3> QED BY <2>4, <3>5, <3>6, <3>7 DEF RecordsFit
    <2> QED BY <2>2, <2>3, <2>4
  <1>3. CASE \E n \in Number, by \in Rollers, withDB \in WithDB :
               StartRollback(n, by, withDB)
    <2>1. ~Deploying'
      BY <1>3, RollbackStartIs DEF Deploying
    <2> QED BY <1>1, <2>1, RecordsFitWithoutARun
  <1> QED BY <1>2, <1>3 DEF Commands

\* A record that is stored as the run ends.
LEMMA RecordsFitAfterFailure ==
  ASSUME TypeInv, Steady, RunFits, ProgressFits, RecordsFit, Deploying,
         UNCHANGED <<setup, served, flags>>, NEW r \in RecordType,
         r.status = "failed", r.verdict = cmd.mem.verdict,
         \A id \in Lasting : Ok(r, id) <=> Ok(cmd.mem, id),
         NEW cost \in Nat, StoreAfter(cmd.num, r, cost), cmd' = Idle
  PROVE  RecordsFit'
  <1>1. ~Deploying'
    BY DEF Deploying
  <1>2. CASE cmd.num = 0
    <2>1. rec' = rec
      BY <1>2, StoreIs
    <2> QED BY <1>1, <2>1, RecordsFitWithoutARun
  <1>3. CASE cmd.num # 0
    <2>1. PICK n : n = cmd.num
      OBVIOUS
    <2>2. rec'[n] = r /\ \A m \in IncompleteRelease' : m = n
      BY <1>3, <2>1, StoreIs
    <2>3. RecordFits(n, cmd.mem)
      BY <1>3, <2>1 DEF RecordsFit
    <2>4. RecordFits(n, r)'
      BY <2>3, RecordFitsStill
    <2>5. \A m \in Resumable' : m = n /\ rec'[m] = r
      BY <2>2 DEF Resumable
    <2> QED BY <1>1, <2>4, <2>5 DEF RecordsFit
  <1> QED BY <1>2, <1>3

LEMMA RecordsFitAfterFail ==
  ASSUME TypeInv, Steady, RunFits, ProgressFits, RecordsFit, Deploying,
         FailStep \/ ProbeFails
  PROVE  RecordsFit'
  <1>1. UNCHANGED <<setup, served, flags>> /\ ~cmd.rollback /\ cmd.mem \in RecordType
        /\ cmd \in CmdType
    BY DeployIs DEF FailStep, ProbeFails
  <1>2. CASE FailStep
    <2> DEFINE r == [Record("failed") EXCEPT !.status = "failed"]
    <2>1. /\ r \in RecordType /\ r.status = "failed" /\ r.verdict = cmd.mem.verdict
          /\ r.task = [cmd.mem.task EXCEPT ![Step.id] = "failed"]
      BY <1>1, RecordIs DEF Outcome
    <2>2. EndFailed(r, 0)
      BY <1>2 DEF FailStep
    <2>3. AtStep \/ cmd.pc = "write"
      BY <1>2 DEF FailStep, Due
    <2>4. cmd.idx \in DOMAIN Plan /\ Step = Plan[cmd.idx] /\ cmd.idx \in Nat
      BY <2>3, StepIsOfThePlan, DeployIs DEF Deploying
    <2>5. Step.id \notin cmd.carried /\ cmd.pc # "resume"
      BY <1>2 DEF FailStep, Due, Behind, AtStep, ProgressFits
    <2>6. Step.id \in Lasting => ~Ok(cmd.mem, Step.id)
      BY <2>4, <2>5, NotYetOk
    <2>7. cmd.mem.task \in [Ids(Plan) -> Outcome]
      BY <1>1 DEF RecordType
    <2>8. \A id \in Lasting : Ok(r, id) <=> Ok(cmd.mem, id)
      <3> HIDE DEF r
      <3> QED BY <2>1, <2>6, <2>7 DEF Ok, Lasting
    <2> HIDE DEF r
    <2>9. StoreAfter(cmd.num, r, 0) /\ cmd' = Idle
      BY <1>1, <2>2 DEF EndFailed
    <2> QED BY <1>1, <2>1, <2>8, <2>9, RecordsFitAfterFailure
  <1>3. CASE ProbeFails
    <2> DEFINE r == [cmd.mem EXCEPT !.status = "failed"]
    <2>1. /\ r \in RecordType /\ r.status = "failed" /\ r.verdict = cmd.mem.verdict
          /\ r.task = cmd.mem.task
      BY <1>1 DEF RecordType
    <2>2. EndFailed(r, 1)
      BY <1>3 DEF ProbeFails
    <2>3. \A id \in Lasting : Ok(r, id) <=> Ok(cmd.mem, id)
      BY <2>1 DEF Ok
    <2> HIDE DEF r
    <2>4. StoreAfter(cmd.num, r, 1) /\ cmd' = Idle
      BY <1>1, <2>2 DEF EndFailed
    <2> QED BY <1>1, <2>1, <2>3, <2>4, RecordsFitAfterFailure
  <1> QED BY <1>2, <1>3

\* A run that is past its last step has activated its release.
LEMMA FinishedIs ==
  ASSUME TypeInv, Steady, RunFits, ProgressFits, RecordsFit, Deploying,
         cmd.pc = "run", cmd.idx > Len(Steps)
  PROVE  /\ cmd.num # 0 /\ ~Fresh /\ cmd.num \in IncompleteRelease
         /\ rec[cmd.num] = cmd.mem
         /\ Ok(cmd.mem, "activate") /\ served = AllOf(cmd.num)
         /\ At("disable") < cmd.idx
  <1>1. cmd.idx \in Nat /\ Steps = Plan /\ DOMAIN Plan = 1 .. Len(Plan) /\ Len(Plan) \in Nat
    BY DeployIs
  <1>2. \A id \in WindowSteps : At(id) \in DOMAIN Plan /\ At(id) \in Nat
    BY WindowIs
  <1>3. \A id \in WindowSteps : At(id) < cmd.idx
    BY <1>1, <1>2
  <1>4. At("release") < cmd.idx /\ At("activate") < cmd.idx /\ At("disable") < cmd.idx
    BY <1>3 DEF WindowSteps
  <1>5. cmd.num # 0
    BY <1>1, <1>2, <1>4 DEF RunFits, WindowSteps
  <1>6. ~Fresh
    BY DEF RunFits
  <1>7. Ok(cmd.mem, "activate")
    BY <1>4, BehindIs DEF WindowSteps
  <1> QED BY <1>4, <1>5, <1>6, <1>7 DEF RunFits, RecordsFit, RecordFits

LEMMA RecordsFitAfterFinish ==
  ASSUME TypeInv, Steady, RunFits, ProgressFits, RecordsFit, Deploying, Finish
  PROVE  RecordsFit'
  <1>1. /\ UNCHANGED <<setup, served, flags>> /\ ~cmd.rollback /\ cmd.num \in Number
        /\ cmd.pc = "run" /\ cmd.idx > Len(Steps)
    BY DeployIs, FinishedIs DEF Finish
  <1>2. cmd' = Idle /\ ~Deploying'
    BY <1>1 DEF Finish, Deploying
  <1>3. CASE rec' = rec
    BY <1>1, <1>2, <1>3, RecordsFitWithoutARun
  <1>4. CASE rec' # rec
    <2> DEFINE mem == [cmd.mem EXCEPT !.status = "ok"]
    <2>1. rec' = [rec EXCEPT ![cmd.num] = mem]
      BY <1>1, <1>4 DEF Finish
    <2>2. mem.status = "ok"
      BY DeployIs DEF RecordType
    <2> HIDE DEF mem
    <2>3. rec'[cmd.num] = mem /\ \A n \in Number : n # cmd.num => rec'[n] = rec[n]
      BY <1>1, <2>1 DEF TypeInv
    <2>4. \A n \in Incomplete' : n # cmd.num /\ n \in Incomplete
      BY <2>2, <2>3 DEF Incomplete, Number
    <2>5. served["code"] = cmd.num
      BY <1>1, FinishedIs, PublishWindowAssumption DEF AllOf, Parts
    <2>6. \A n \in Incomplete' : n < cmd.num
      <3> SUFFICES ASSUME NEW n \in Incomplete'
                   PROVE  n < cmd.num
        OBVIOUS
      <3>1. cmd.num \in IncompleteRelease
        BY <1>1, FinishedIs
      <3>2. n \in Incomplete /\ n # cmd.num /\ n <= cmd.num
        BY <2>4, <3>1 DEF IncompleteRelease
      <3>3. n \in Nat /\ cmd.num \in Nat
        BY <1>1, <3>2, ReleasesAre
      <3> QED BY <3>2, <3>3
    <2>7. Resumable' = {}
      <3> SUFFICES ASSUME NEW n \in Resumable'
                   PROVE  FALSE
        OBVIOUS
      <3>1. n \in Incomplete' /\ served'["code"] <= n
        BY DEF Resumable, IncompleteRelease
      <3>2. n < cmd.num /\ cmd.num <= n
        BY <1>1, <2>5, <2>6, <3>1
      <3>3. n \in Nat /\ cmd.num \in Nat
        BY <1>1, <2>4, <3>1, ReleasesAre
      <3> QED BY <3>2, <3>3
    <2> QED BY <1>2, <2>7 DEF RecordsFit
  <1> QED BY <1>3, <1>4

LEMMA RecordsFitAfterRunStep ==
  ASSUME TypeInv, Steady, RunFits, ProgressFits, SiteFits, RecordsFit, Deploying, RunStep,
         RunFits'
  PROVE  RecordsFit'
  <1>1. cmd # Idle
    BY DEF Deploying
  <1>2. PICK good \in BOOLEAN :
         /\ SameRun /\ cmd'.pc = "write" /\ cmd.pc = "run"
         /\ cmd'.num = (IF good THEN NumberAfter ELSE cmd.num)
         /\ cmd'.idx = cmd.idx /\ cmd'.mem = cmd.mem /\ cmd'.good = good
         /\ Attempt(Step.id, cmd.num, good)
         /\ Due /\ AtStep /\ UNCHANGED <<setup, rec>>
    BY <1>1, RunStepIs
  <1>3. /\ cmd.idx \in DOMAIN Plan /\ Step = Plan[cmd.idx] /\ Step' = Step
        /\ At("release") \in Nat /\ cmd.idx \in Nat
    <2>1. Step' = Step
      BY <1>2, PlanKept DEF SameRun
    <2> QED BY <1>2, <2>1, DeployIs, StepIsOfThePlan, WindowIs DEF WindowSteps
  <1>4. ~Fresh
    BY <1>2 DEF RunFits
  <1>5. Resumable' = {n \in IncompleteRelease : served'["code"] <= n}
    BY <1>2 DEF Resumable, IncompleteRelease, Incomplete, Number
  <1>6. CASE Step.id \in {"enable", "activate", "disable"}
    <2>1. PICK n, r : n = cmd.num /\ r = cmd.mem
      OBVIOUS
    <2>2. cmd'.num = cmd.num /\ cmd.num # 0
      <3>1. cmd.num # 0
        BY <1>2, <1>6, NumberIs
      <3> QED BY <1>2, <3>1 DEF NumberAfter
    <2>3. ~Fresh'
      BY <1>2, <1>4, <2>2 DEF Fresh
    <2>4. /\ RecordFits(n, r)'
          /\ good =>
              /\ Step.id = "activate" => served' = AllOf(n)
              /\ Step.id = "disable" => Site' \notin flags'
              /\ Step.id = "enable" => Down' \/ served'["code"] = 0
      BY <1>2, <1>6, <2>1, RecordFitsAfterEffect
    <2>5. AllOf(n)' = AllOf(n)
      BY DEF AllOf
    <2>6. RecordFits(cmd.num, cmd.mem)'
      BY <1>2, <2>1, <2>2, <2>4
    <2>7. served' = AllOf(n) => served' = AllOf(cmd.num)'
      BY <2>1, <2>2 DEF AllOf
    <2>8. Deploying'
      BY <1>2 DEF Deploying, SameRun
    <2> QED BY <1>2, <1>3, <2>2, <2>3, <2>4, <2>6, <2>7, <2>8 DEF RecordsFit
  <1>7. CASE Step.id \notin {"enable", "activate", "disable"}
    <2>1. served' = served /\ flags' = flags
      BY <1>2, <1>7, EffectIs
    <2>2. Resumable' = Resumable
      BY <1>5, <2>1 DEF Resumable
    <2>3. \A m \in Resumable : RecordFits(m, rec[m])
      BY ResumableFits
    <2>4. \A m \in Resumable' : RecordFits(m, rec[m])'
      <3> SUFFICES ASSUME NEW m \in Resumable
                   PROVE  RecordFits(m, rec[m])'
        BY <2>2
      <3>1. PICK s : s = rec[m]
        OBVIOUS
      <3>2. RecordFits(m, s)'
        BY <1>2, <2>1, <2>3, <3>1, RecordFitsSame
      <3>3. s = rec'[m]
        BY <1>2, <3>1
      <3> QED BY <3>2, <3>3
    <2>5. cmd'.num # 0 => RecordFits(cmd.num, cmd.mem)'
      <3>1. PICK n, r : n = cmd'.num /\ r = cmd.mem
        OBVIOUS
      <3>2. CASE cmd'.num = cmd.num
        <4>1. cmd.num # 0 => RecordFits(n, r)
          BY <3>1, <3>2 DEF RecordsFit
        <4>2. cmd.num # 0 => RecordFits(n, r)'
          BY <1>2, <2>1, <4>1, RecordFitsSame
        <4> QED BY <1>2, <3>1, <3>2, <4>2
      <3>3. CASE cmd'.num # cmd.num
        <4>1. cmd.num = 0 /\ n = NextNumber
          BY <1>2, <3>1, <3>3 DEF NumberAfter
        <4>2. \A id \in {"enable", "migrate", "activate", "disable"} : ~Ok(r, id)
          BY <3>1, <4>1, NothingYetOk
        <4>3. n \notin flags
          BY <4>1, NextNumberIs DEF SiteFits
        <4>4. RecordFits(n, r)
          BY <4>2, <4>3 DEF RecordFits
        <4>5. RecordFits(n, r)'
          BY <1>2, <2>1, <4>4, RecordFitsSame
        <4> QED BY <1>2, <3>1, <4>5
      <3> QED BY <3>2, <3>3
    <2> QED BY <1>3, <1>7, <2>4, <2>5 DEF RecordsFit
  <1> QED BY <1>6, <1>7

LEMMA RecordsFitAfterRun ==
  ASSUME TypeInv, Steady, RunFits, ProgressFits, SiteFits, RecordsFit, RunSteps, Deploying,
         RunFits'
  PROVE  RecordsFit'
  <1>1. cmd # Idle /\ ~cmd.rollback /\ cmd \in CmdType /\ cmd.mem \in RecordType
    BY DeployIs
  <1>2. CASE ReadRecord
    <2>1. /\ cmd'.num = cmd.num /\ cmd'.mem = cmd.mem /\ cmd.num # 0 /\ cmd'.pc = "head"
          /\ UNCHANGED <<setup, served, flags, rec>>
      BY <1>1, <1>2, ReadRecordIs DEF RunFits
    <2>2. PICK n, r : n = cmd.num /\ r = cmd.mem
      OBVIOUS
    <2>3. RecordFits(n, r)'
      BY <2>1, <2>2, RecordFitsSame DEF RecordsFit
    <2>4. RecordFits(cmd.num, cmd.mem)'
      BY <2>1, <2>2, <2>3
    <2>5. Deploying' /\ ~Fresh'
      <3>1. Deploying'
        BY <1>1, <1>2, ReadRecordIs DEF Deploying
      <3> QED BY <2>1, <3>1 DEF RunFits
    <2> QED BY <2>1, <2>4, <2>5 DEF RecordsFit
  <1>3. CASE TakeLockUpFront
    <2>1. UNCHANGED <<setup, served, flags, rec>> /\ cmd.pc = "head"
      BY <1>1, <1>3, TakeLockIs
    <2>2. CASE cmd' = Idle
      BY <2>1, <2>2, RecordsFitWithoutARun DEF Deploying
    <2>3. CASE cmd' # Idle
      <3>1. /\ cmd'.num = cmd.num /\ cmd'.mem = cmd.mem /\ cmd'.pc = "run"
            /\ cmd'.rollback = cmd.rollback
        BY <1>1, <1>3, <2>3, TakeLockIs DEF SameRun
      <3>2. CASE cmd.num = 0
        BY <2>1, <3>1, <3>2, RecordsFitWithoutARun
      <3>3. CASE cmd.num # 0
        <4>1. PICK n, r : n = cmd.num /\ r = cmd.mem
          OBVIOUS
        <4>2. RecordFits(n, r)'
          BY <2>1, <3>3, <4>1, RecordFitsSame DEF RecordsFit
        <4>3. RecordFits(cmd.num, cmd.mem)'
          BY <3>1, <4>1, <4>2
        <4>4. Deploying'
          BY <1>1, <2>3, <3>1 DEF Deploying
        <4>5. ~Fresh'
          BY <3>1, <4>4 DEF RunFits
        <4> QED BY <3>1, <3>3, <4>3, <4>4, <4>5 DEF RecordsFit
      <3> QED BY <3>2, <3>3
    <2> QED BY <2>2, <2>3
  <1>4. CASE CarryOver \/ Skip \/ RecordStep
    <2>1. PICK status \in {"ok", "skipped"} :
           /\ SameRun /\ cmd'.pc = "run" /\ cmd'.num = cmd.num
           /\ StoreAfter(cmd.num, cmd'.mem, 0)
           /\ cmd'.mem \in RecordType /\ cmd'.mem.status = cmd.mem.status
           /\ UNCHANGED <<setup, served, flags, db, lock>>
      BY <1>4, AdvancedIs
    <2>2. cmd.mem.status \in {"running", "failed"}
      BY DEF RunFits
    <2>3. CASE cmd.num = 0
      <3>1. rec' = rec
        BY <2>1, <2>2, <2>3, StoreIs
      <3> QED BY <2>1, <2>3, <3>1, RecordsFitWithoutARun
    <2>4. CASE cmd.num # 0
      <3>1. PICK n, s : n = cmd.num /\ s = cmd'.mem
        OBVIOUS
      <3>2. RecordFits(n, s)'
        BY <1>4, <2>4, <3>1, RecordFitsAfterStep
      <3>3. RecordFits(cmd.num, cmd.mem)'
        BY <2>1, <3>1, <3>2
      <3>4. Deploying' /\ ~Fresh'
        <4>1. Deploying'
          BY <1>1, <2>1 DEF Deploying, SameRun
        <4> QED BY <2>1, <4>1 DEF RunFits
      <3> QED BY <2>1, <2>4, <3>3, <3>4 DEF RecordsFit
    <2> QED BY <2>3, <2>4
  <1>5. CASE Probe
    <2>1. /\ cmd'.pc = "run" /\ cmd.pc = "run" /\ cmd'.num = cmd.num /\ SameRun
          /\ StoreAfter(cmd.num, cmd'.mem, 0) /\ ProbeIsDue
          /\ UNCHANGED <<setup, served, flags, db, lock>>
          /\ cmd'.mem = [cmd.mem EXCEPT !.verdict = IF db # "current" THEN "migrate" ELSE "skip"]
      BY <1>1, <1>5, ProbeIs
    <2>2. /\ cmd'.mem \in RecordType /\ cmd'.mem.status = cmd.mem.status
          /\ cmd.mem.status \in {"running", "failed"} /\ cmd'.mem.task = cmd.mem.task
      BY <1>1, <2>1 DEF RecordType, Verdict, RunFits
    <2>3. CASE cmd.num = 0
      <3>1. rec' = rec
        BY <2>1, <2>3 DEF StoreAfter
      <3> QED BY <2>1, <2>3, <3>1, RecordsFitWithoutARun
    <2>4. CASE cmd.num # 0
      <3>1. PICK n, s : n = cmd.num /\ s = cmd'.mem
        OBVIOUS
      <3>2. RecordFits(n, cmd.mem)
        BY <2>4, <3>1 DEF RecordsFit
      <3>3. ~cmd.probed /\ Project.probe
        BY <2>1 DEF ProbeIsDue
      <3>4. cmd.mem.verdict # "migrate"
        BY <2>1, <3>3 DEF ProgressFits
      <3>5. /\ Plan' = Plan /\ Symlink' = Symlink /\ Project' = Project
            /\ At("enable")' = At("enable") /\ Site' = Site /\ Down' = Down
            /\ OneOf(n)' = OneOf(n) /\ AllOf(n)' = AllOf(n) /\ served' = served /\ flags' = flags
        BY <2>1, PlanKept, AtKept DEF Site, Down, Symlink, Project, OneOf, AllOf
      <3>6. \A id : Ok(s, id) <=> Ok(cmd.mem, id)
        BY <2>2, <3>1 DEF Ok
      <3>7. Ok(s, "enable") \/ (Symlink /\ n \in flags) => ~Plan[At("enable")].gated
        BY <3>2, <3>3, <3>4, <3>6 DEF RecordFits, LetThrough
      <3>8. LetThrough(s)' <=> (Plan[At("enable")].gated /\ Project.probe => s.verdict = "migrate")
        BY <3>5 DEF LetThrough
      <3>9. RecordFits(n, s)'
        BY <3>2, <3>5, <3>6, <3>7, <3>8 DEF RecordFits
      <3>10. RecordFits(cmd.num, cmd.mem)'
        BY <2>1, <3>1, <3>9
      <3>11. Deploying' /\ ~Fresh'
        <4>1. Deploying'
          BY <1>1, <2>1 DEF Deploying, SameRun
        <4> QED BY <2>1, <4>1 DEF RunFits
      <3> QED BY <2>1, <2>4, <3>10, <3>11 DEF RecordsFit
    <2> QED BY <2>3, <2>4
  <1>6. CASE RunStep
    BY <1>6, RecordsFitAfterRunStep
  <1>7. CASE FailStep \/ ProbeFails
    BY <1>7, RecordsFitAfterFail
  <1>8. CASE Finish
    BY <1>8, RecordsFitAfterFinish
  <1>9. CASE Killed
    <2>1. UNCHANGED <<setup, served, flags, rec>> /\ ~Deploying'
      BY <1>9 DEF Killed, Deploying
    <2> QED BY <2>1, RecordsFitWithoutARun
  <1> QED BY <1>2, <1>3, <1>4, <1>5, <1>6, <1>7, <1>8, <1>9 DEF RunSteps

\* A rollback runs while no release is unfinished, and leaves none.
LEMMA RecordsFitKept ==
  ASSUME TypeInv, Steady, WindowInv, [Next]_vars, RunFits'
  PROVE  RecordsFit'
  <1>1. CASE Commands
    BY <1>1, RecordsFitAfterStart DEF WindowInv
  <1>2. CASE RunSteps \/ RollbackSteps
    <2>1. cmd # Idle
      BY <1>2, IdleHasNoStep
    <2>2. CASE cmd.rollback
      <3>1. Incomplete' = {}
        BY <2>1, <2>2, CreatedStays DEF WindowInv
      <3>2. Resumable' = {}
        BY <3>1 DEF Resumable, IncompleteRelease
      <3>3. ~Deploying'
        BY <1>2, <2>1, <2>2, RollbackStays DEF Deploying
      <3> QED BY <3>2, <3>3 DEF RecordsFit
    <2>3. CASE ~cmd.rollback
      BY <1>2, <2>1, <2>3, RollbackStepsAreOfOne, RecordsFitAfterRun DEF Deploying, WindowInv
    <2> QED BY <2>2, <2>3
  <1>3. CASE Environment \/ UNCHANGED vars
    <2>1. UNCHANGED <<setup, cmd, rec, served, flags>>
      BY <1>3 DEF Environment, Unlock, DatabaseMoves, OtherTakesTheLock,
                  OtherReleasesTheLock, vars
    <2>2. CASE ~Deploying \/ cmd.num = 0
      <3>1. CASE ~Deploying
        BY <2>1, <3>1, RecordsFitWithoutARun DEF WindowInv, Deploying
      <3>2. CASE Deploying /\ cmd.num = 0
        <4>1. Step' = Step /\ Resumable' = Resumable /\ Deploying' = Deploying
              /\ Site' = Site /\ Down' = Down
          BY <2>1, PlanKept DEF Resumable, IncompleteRelease, Incomplete, Number, Deploying,
             Site, Down, Symlink, Project
        <4>2. \A n \in Resumable : RecordFits(n, rec[n])'
          <5> SUFFICES ASSUME NEW n \in Resumable
                       PROVE  RecordFits(n, rec[n])'
            OBVIOUS
          <5>1. PICK s : s = rec[n]
            OBVIOUS
          <5>2. RecordFits(n, s)'
            BY <2>1, <5>1, ResumableFits, RecordFitsSame DEF WindowInv
          <5> QED BY <2>1, <5>1, <5>2
        <4> QED BY <2>1, <3>2, <4>1, <4>2 DEF RecordsFit, WindowInv, AllOf
      <3> QED BY <2>2, <3>1, <3>2
    <2>3. CASE Deploying /\ cmd.num # 0
      <3>1. Step' = Step /\ Resumable' = Resumable /\ Deploying' = Deploying /\ Fresh' = Fresh
            /\ Site' = Site /\ Down' = Down
        BY <2>1, PlanKept DEF Resumable, IncompleteRelease, Incomplete, Number, Deploying, Fresh,
           Site, Down, Symlink, Project
      <3>2. PICK n, r : n = cmd.num /\ r = cmd.mem
        OBVIOUS
      <3>3. RecordFits(n, r)'
        BY <2>1, <2>3, <3>2, RecordFitsSame DEF RecordsFit, WindowInv
      <3>4. RecordFits(cmd.num, cmd.mem)'
        BY <2>1, <3>2, <3>3
      <3>5. \A m \in Resumable : RecordFits(m, rec[m])'
        <4> SUFFICES ASSUME NEW m \in Resumable
                     PROVE  RecordFits(m, rec[m])'
          OBVIOUS
        <4>1. PICK s : s = rec[m]
          OBVIOUS
        <4>2. RecordFits(m, s)'
          BY <2>1, <4>1, ResumableFits, RecordFitsSame DEF WindowInv
        <4> QED BY <2>1, <4>1, <4>2
      <3> QED BY <2>1, <2>3, <3>1, <3>4, <3>5 DEF RecordsFit, WindowInv, AllOf
    <2> QED BY <2>2, <2>3
  <1> QED BY <1>1, <1>2, <1>3 DEF Next

-----------------------------------------------------------------------------
(* What a rollback knows of its queue and of the site. *)

\* The steps of a queue after those that change the served tree.
Later == {"enable", "restore", "disable", "flush", "verify"}

LEMMA QueueExtended ==
  ASSUME NEW q \in Seq(Queued), NEW x \in Seq(Later), NEW m \in Nat, m <= Len(q),
         \A j \in 1 .. Len(q) : j > m => q[j] \in Later
  PROVE  /\ q \o x \in Seq(Queued) /\ m <= Len(q \o x)
         /\ \A j \in 1 .. m : (q \o x)[j] = q[j]
         /\ \A j \in 1 .. Len(q \o x) : j > m => (q \o x)[j] \in Later
  <1>1. Later \subseteq Queued
    BY DEF Later, Queued
  <1>2. /\ Len(q) \in Nat /\ Len(x) \in Nat /\ \A j \in 1 .. Len(x) : x[j] \in Later
        /\ x \in Seq(Queued)
    BY <1>1
  <1>3. q \o x \in Seq(Queued)
    BY <1>2
  <1>4. Len(q \o x) = Len(q) + Len(x)
    BY <1>2
  <1>5. \A j \in 1 .. Len(q) + Len(x) :
          (q \o x)[j] = IF j <= Len(q) THEN q[j] ELSE x[j - Len(q)]
    BY <1>2
  <1>6. \A j \in 1 .. Len(q) + Len(x) : j > Len(q) => (q \o x)[j] \in Later
    <2> SUFFICES ASSUME NEW j \in 1 .. Len(q) + Len(x), j > Len(q)
                 PROVE  (q \o x)[j] \in Later
      OBVIOUS
    <2>1. j - Len(q) \in 1 .. Len(x) /\ ~(j <= Len(q))
      BY <1>2
    <2> QED BY <1>2, <1>5, <2>1
  <1>7. \A j \in 1 .. Len(q) + Len(x) : j > m => (q \o x)[j] \in Later
    <2> SUFFICES ASSUME NEW j \in 1 .. Len(q) + Len(x), j > m
                 PROVE  (q \o x)[j] \in Later
      OBVIOUS
    <2>1. CASE j <= Len(q)
      BY <1>2, <1>5, <2>1
    <2>2. CASE j > Len(q)
      BY <1>6, <2>2
    <2> QED BY <1>2, <2>1, <2>2
  <1>8. \A j \in 1 .. m : (q \o x)[j] = q[j]
    BY <1>2, <1>5
  <1> QED BY <1>2, <1>3, <1>4, <1>7, <1>8

LEMMA RollbackQueueIs ==
  ASSUME NEW by, NEW withDB, NEW Q, Q = RollbackQueue(by, withDB)
  PROVE  /\ Q \in Seq(Queued) /\ Len(Q) >= 1
         /\ Symlink => Q[1] = "activate" /\ \A j \in 1 .. Len(Q) : j > 1 => Q[j] \in Later
         /\ ~Symlink => /\ Len(Q) >= 2 /\ Q[1] = "enable" /\ Q[2] = "tail"
                        /\ \A j \in 1 .. Len(Q) : j > 2 => Q[j] \in Later
  <1> DEFINE a == IF Symlink THEN <<"activate">> ELSE <<"enable", "tail">>
             b == IF withDB THEN <<"enable", "restore", "disable">> ELSE <<>>
             c == IF Symlink \/ withDB THEN <<"flush">> ELSE <<>>
             d == IF Symlink \/ by = "cli" THEN <<"verify">> ELSE <<>>
             m == IF Symlink THEN 1 ELSE 2
  <1>1. b \in Seq(Later)
    <2>1. "enable" \in Later /\ "restore" \in Later /\ "disable" \in Later
      BY DEF Later
    <2> QED BY <2>1
  <1>2. c \in Seq(Later)
    <2>1. "flush" \in Later
      BY DEF Later
    <2> QED BY <2>1
  <1>3. d \in Seq(Later)
    <2>1. "verify" \in Later
      BY DEF Later
    <2> QED BY <2>1
  <1>4. a \in Seq(Queued) /\ m = Len(a) /\ m \in Nat
    <2>1. "activate" \in Queued /\ "enable" \in Queued /\ "tail" \in Queued
      BY DEF Queued
    <2> QED BY <2>1
  <1>5. /\ Symlink => m = 1 /\ a[1] = "activate"
        /\ ~Symlink => m = 2 /\ a[1] = "enable" /\ a[2] = "tail"
    OBVIOUS
  <1>6. RollbackQueue(by, withDB) = ((a \o b) \o c) \o d
    BY DEF RollbackQueue
  <1> HIDE DEF a, b, c, d, m
  <1> DEFINE ab == a \o b
             abc == ab \o c
  <1>7. /\ ab \in Seq(Queued) /\ m <= Len(ab) /\ \A j \in 1 .. m : ab[j] = a[j]
        /\ \A j \in 1 .. Len(ab) : j > m => ab[j] \in Later
    BY <1>1, <1>4, QueueExtended
  <1> HIDE DEF ab
  <1>8. /\ abc \in Seq(Queued) /\ m <= Len(abc) /\ \A j \in 1 .. m : abc[j] = ab[j]
        /\ \A j \in 1 .. Len(abc) : j > m => abc[j] \in Later
    BY <1>2, <1>4, <1>7, QueueExtended
  <1> HIDE DEF abc
  <1> DEFINE abcd == abc \o d
  <1>9. /\ abcd \in Seq(Queued) /\ m <= Len(abcd) /\ \A j \in 1 .. m : abcd[j] = abc[j]
        /\ \A j \in 1 .. Len(abcd) : j > m => abcd[j] \in Later
    BY <1>3, <1>4, <1>8, QueueExtended
  <1>10. Q = abcd
    BY <1>6 DEF ab, abc
  <1> HIDE DEF abcd
  <1>11. \A j \in 1 .. m : Q[j] = a[j]
    BY <1>7, <1>8, <1>9, <1>10
  <1>12. Symlink => Q[1] = "activate" /\ Len(Q) >= 1
    BY <1>5, <1>9, <1>10, <1>11
  <1>13. ~Symlink => Q[1] = "enable" /\ Q[2] = "tail" /\ Len(Q) >= 2
    BY <1>5, <1>9, <1>10, <1>11
  <1> QED BY <1>5, <1>9, <1>10, <1>12, <1>13

LEMMA RollbackFitsAfterStart ==
  ASSUME TypeInv, Steady, Commands
  PROVE  RollbackFits'
  <1>1. CASE \E from \in Project.froms : StartDeploy(from) \/ StartResume(from)
    <2>1. PICK from \in Project.froms : StartDeploy(from) \/ StartResume(from)
      BY <1>1
    <2> QED BY <2>1, DeployStartIs DEF RollbackFits
  <1>2. CASE \E n \in Number, by \in Rollers, withDB \in WithDB :
               StartRollback(n, by, withDB)
    <2>1. PICK n \in Number, by \in Rollers, withDB \in WithDB : StartRollback(n, by, withDB)
      BY <1>2
    <2> DEFINE Q == RollbackQueue(by, withDB)
    <2>2. /\ cmd'.pc = "queue" /\ cmd'.num = n /\ cmd'.idx = 1 /\ cmd'.mem = rec[n]
          /\ cmd'.original = rec[n] /\ cmd'.queue = Q
      BY <2>1, RollbackStartIs
    <2>3. /\ UNCHANGED <<setup, rec>> /\ Incomplete = {} /\ rec[n].status = "ok"
      BY <2>1 DEF StartRollback, Usable, Steady
    <2>4. Incomplete' = {} /\ n \in Created' /\ Symlink' = Symlink
      BY <2>3, PlanKept DEF Incomplete, Created, Number
    <2>5. /\ Q \in Seq(Queued) /\ Len(Q) >= 1
          /\ Symlink => Q[1] = "activate" /\ \A j \in 1 .. Len(Q) : j > 1 => Q[j] \in Later
          /\ ~Symlink => /\ Len(Q) >= 2 /\ Q[1] = "enable" /\ Q[2] = "tail"
                         /\ \A j \in 1 .. Len(Q) : j > 2 => Q[j] \in Later
      BY RollbackQueueIs
    <2>6. DOMAIN Q = 1 .. Len(Q) /\ Len(Q) \in Nat
      BY <2>5
    <2> HIDE DEF Q
    <2>7. /\ Q[1] # "tail"
          /\ Symlink => \A j \in DOMAIN Q : Q[j] # "tail"
          /\ ~Symlink => \A j \in DOMAIN Q : Q[j] # "activate"
          /\ ~Symlink => \A j \in DOMAIN Q : Q[j] = "tail" => j = 2
      <3>1. "tail" \notin Later /\ "activate" \notin Later
        BY DEF Later
      <3>2. Q[1] # "tail"
        BY <2>5
      <3>3. ASSUME Symlink, NEW j \in DOMAIN Q
            PROVE  Q[j] # "tail"
        <4>1. j = 1 \/ j > 1
          BY <2>6
        <4> QED BY <2>5, <2>6, <3>1, <3>3, <4>1
      <3>4. ASSUME ~Symlink, NEW j \in DOMAIN Q
            PROVE  Q[j] # "activate" /\ (Q[j] = "tail" => j = 2)
        <4>1. j = 1 \/ j = 2 \/ j > 2
          BY <2>6
        <4> QED BY <2>5, <2>6, <3>1, <3>4, <4>1
      <3> QED BY <3>2, <3>3, <3>4
    <2>8. InQueue("activate")' => Symlink
      BY <2>2, <2>7 DEF InQueue
    <2>9. InQueue("tail")' => ~Symlink
      BY <2>2, <2>7 DEF InQueue
    <2> QED BY <2>2, <2>3, <2>4, <2>5, <2>7, <2>8, <2>9 DEF RollbackFits
  <1> QED BY <1>1, <1>2 DEF Commands

\* A run inside a rollback keeps the queue, which has no tail left, or ends it.
LEMMA RollbackFitsInARun ==
  ASSUME TypeInv, Steady, RunFits, RollbackFits, [Next]_vars, setup' = setup,
         cmd # Idle, cmd.rollback, cmd'.num = cmd.num, cmd'.original = cmd.original,
         cmd'.mem.status = "ok", cmd'.pc \in {"queue", "run", "write"},
         \/ cmd'.queue = cmd.queue /\ cmd.pc \in {"run", "write"}
         \/ cmd'.queue \in {<<>>, <<"disable">>} /\ cmd'.pc = "queue",
         cmd'.pc = "run" /\ cmd'.idx = 1 => Down' \/ served'["code"] = 0
  PROVE  RollbackFits'
  <1>1. Symlink' = Symlink /\ Incomplete' = {} /\ cmd'.num \in Created'
    BY PlanKept, CreatedStays DEF RollbackFits
  <1>2. CASE cmd'.queue = cmd.queue /\ cmd.pc \in {"run", "write"}
    <2>1. ~Symlink /\ ~InQueue("tail") /\ ~InQueue("activate")
      BY <1>2 DEF RollbackFits
    <2>2. ~InQueue("tail")' /\ ~InQueue("activate")'
      BY <1>2, <2>1 DEF InQueue
    <2>3. cmd'.queue # <<>> => cmd'.queue[1] # "tail"
      <3> SUFFICES ASSUME cmd.queue # <<>>
                   PROVE  cmd.queue[1] # "tail"
        BY <1>2
      <3>1. cmd.queue \in Seq(Queued)
        BY CmdIs DEF CmdType
      <3>2. 1 \in DOMAIN cmd.queue
        BY <3>1, EmptySeq
      <3> QED BY <2>1, <3>2 DEF InQueue
    <2> QED BY <1>1, <2>1, <2>2, <2>3 DEF RollbackFits
  <1>3. CASE cmd'.queue \in {<<>>, <<"disable">>} /\ cmd'.pc = "queue"
    <2>1. ~InQueue("tail")' /\ ~InQueue("activate")'
      <3>1. \A j \in DOMAIN cmd'.queue : cmd'.queue[j] = "disable"
        BY <1>3
      <3> QED BY <3>1 DEF InQueue
    <2>2. cmd'.queue # <<>> => cmd'.queue[1] # "tail"
      BY <1>3
    <2> QED BY <1>1, <1>3, <2>1, <2>2 DEF RollbackFits
  <1> QED BY <1>2, <1>3

LEMMA RollbackFitsAfterRun ==
  ASSUME TypeInv, Steady, RunFits, RollbackFits, [Next]_vars, cmd # Idle, cmd.rollback, RunSteps
  PROVE  RollbackFits'
  <1>1. /\ cmd \in CmdType /\ cmd.mem \in RecordType /\ cmd.mem.status = "ok"
        /\ cmd.pc \in {"queue", "run", "write"}
        /\ cmd.pc = "run" /\ cmd.idx = 1 => Down \/ served["code"] = 0
    BY CmdIs DEF RollbackFits, CmdType
  <1>2. CASE CarryOver \/ Skip \/ RecordStep
    <2>1. PICK status \in {"ok", "skipped"} :
            /\ cmd'.mem = Record(status) /\ SameRun /\ cmd'.pc = "run" /\ cmd'.num = cmd.num
            /\ cmd'.idx = cmd.idx + 1 /\ cmd.pc \in {"run", "write"} /\ setup' = setup
      <3>1. CASE CarryOver
        BY <3>1, AdvanceIs DEF CarryOver, AtStep
      <3>2. CASE Skip
        BY <3>2, AdvanceIs DEF Skip, AtStep
      <3>3. CASE RecordStep
        BY <3>3, RecordStepIs
      <3> QED BY <1>2, <3>1, <3>2, <3>3
    <2>2. cmd'.mem.status = "ok"
      BY <1>1, <2>1, RecordIs DEF Outcome
    <2>3. cmd'.idx # 1
      BY <1>1, <2>1 DEF CmdType
    <2> QED BY <2>1, <2>2, <2>3, RollbackFitsInARun DEF SameRun
  <1>3. CASE Probe
    <2>1. /\ SameRun /\ cmd'.pc = "run" /\ cmd.pc = "run" /\ cmd'.num = cmd.num
          /\ cmd'.idx = cmd.idx /\ UNCHANGED <<setup, served, flags>>
          /\ cmd'.mem = [cmd.mem EXCEPT !.verdict = IF db # "current" THEN "migrate" ELSE "skip"]
      BY <1>3, ProbeIs
    <2>2. cmd'.mem.status = "ok"
      BY <1>1, <2>1 DEF RecordType
    <2>3. cmd'.idx = 1 => Down' \/ served'["code"] = 0
      BY <1>1, <2>1, PlanKept DEF Down, Site
    <2> QED BY <2>1, <2>2, <2>3, RollbackFitsInARun DEF SameRun
  <1>4. CASE RunStep
    <2>1. /\ SameRun /\ cmd'.pc = "write" /\ cmd.pc = "run" /\ setup' = setup
          /\ cmd'.num \in {cmd.num, NumberAfter} /\ cmd'.mem = cmd.mem
      BY <1>4, RunStepIs
    <2>2. cmd'.num = cmd.num
      BY <2>1, CmdIs DEF NumberAfter, CmdFits
    <2> QED BY <1>1, <2>1, <2>2, RollbackFitsInARun DEF SameRun
  <1>5. ASSUME cmd' = TailFailed, setup' = setup
        PROVE  RollbackFits'
    <2>1. /\ cmd'.pc = "queue" /\ cmd'.num = cmd.num /\ cmd'.mem = cmd.mem
          /\ cmd'.original = cmd.original /\ cmd'.queue \in {<<>>, <<"disable">>}
      <3> DEFINE q == IF cmd.by = "desktop" THEN <<"disable">> ELSE <<>>
      <3>1. cmd' = [cmd EXCEPT !.pc = "queue", !.queue = q] /\ q \in {<<>>, <<"disable">>}
        BY <1>5 DEF TailFailed
      <3> HIDE DEF q
      <3> QED BY <1>1, <3>1 DEF CmdType
    <2> QED BY <1>1, <1>5, <2>1, RollbackFitsInARun
  <1>6. CASE FailStep \/ ProbeFails
    <2>1. cmd' = TailFailed /\ setup' = setup
      BY <1>6 DEF FailStep, ProbeFails, EndFailed
    <2> QED BY <1>5, <2>1
  <1>7. CASE Finish
    <2>1. setup' = setup /\ cmd' \in {TailFailed, [cmd EXCEPT !.pc = "queue"]} /\ cmd.pc = "run"
      BY <1>7 DEF Finish
    <2>2. CASE cmd' = [cmd EXCEPT !.pc = "queue"]
      <3>1. /\ cmd'.pc = "queue" /\ cmd'.num = cmd.num /\ cmd'.mem = cmd.mem
            /\ cmd'.original = cmd.original /\ cmd'.queue = cmd.queue
        BY <1>1, <2>2 DEF CmdType
      <3> QED BY <1>1, <2>1, <3>1, RollbackFitsInARun
    <2> QED BY <1>5, <2>1, <2>2
  <1>8. CASE Killed
    BY <1>8 DEF Killed, RollbackFits
  <1>9. CASE ReadRecord \/ TakeLockUpFront
    BY <1>1, <1>9 DEF ReadRecord, TakeLockUpFront
  <1> QED BY <1>2, <1>3, <1>4, <1>6, <1>7, <1>8, <1>9 DEF RunSteps

\* What is left of a queue after its first step.
LEMMA QueueLeft ==
  ASSUME TypeInv, cmd # Idle, AtQueued, cmd'.queue = Tail(cmd.queue)
  PROVE  /\ \A x : InQueue(x)' => InQueue(x)
         /\ \A j \in DOMAIN cmd'.queue :
              j + 1 \in DOMAIN cmd.queue /\ cmd'.queue[j] = cmd.queue[j + 1] /\ j \in Nat \ {0}
         /\ 1 \in DOMAIN cmd.queue /\ Head(cmd.queue) = cmd.queue[1]
         /\ cmd'.queue # <<>> => 1 \in DOMAIN cmd'.queue
  <1>1. cmd.queue \in Seq(Queued) /\ DOMAIN cmd.queue = 1 .. Len(cmd.queue)
    BY CmdIs DEF CmdType
  <1>2. /\ cmd'.queue \in Seq(Queued) /\ Len(cmd'.queue) = Len(cmd.queue) - 1
        /\ \A k \in 1 .. Len(cmd'.queue) : cmd'.queue[k] = cmd.queue[k + 1]
        /\ Len(cmd.queue) \in Nat \ {0} /\ Head(cmd.queue) = cmd.queue[1]
    BY QueueIs
  <1>3. DOMAIN cmd'.queue = 1 .. Len(cmd'.queue) /\ Len(cmd'.queue) \in Nat
    BY <1>2
  <1>4. \A j \in DOMAIN cmd'.queue :
          j + 1 \in DOMAIN cmd.queue /\ cmd'.queue[j] = cmd.queue[j + 1] /\ j \in Nat \ {0}
    BY <1>1, <1>2, <1>3
  <1>5. \A x : InQueue(x)' => InQueue(x)
    BY <1>4 DEF InQueue
  <1>6. cmd'.queue # <<>> => 1 \in DOMAIN cmd'.queue
    BY <1>2, <1>3, EmptySeq
  <1> QED BY <1>1, <1>2, <1>4, <1>5, <1>6

\* A step of the queue: one that does nothing, one that succeeds or one that
\* fails and leaves at most the end of the window.
LEMMA QueuedStepIs ==
  ASSUME TypeInv, cmd # Idle, QueuedStep
  PROVE  \E q \in Seq(Queued), id \in Queued :
           /\ AtQueued /\ cmd.pc = "queue" /\ setup' = setup
           /\ id = Head(cmd.queue) /\ id # "tail" /\ cmd'.queue = q
           /\ cmd'.pc = "queue" /\ cmd'.num = cmd.num /\ cmd'.mem = cmd.mem
           /\ cmd'.idx = cmd.idx /\ cmd'.original = cmd.original /\ cmd'.by = cmd.by
           /\ cmd'.carried = cmd.carried /\ cmd'.passed = cmd.passed
           /\ \/ ~Does(id) /\ q = Tail(cmd.queue) /\ UNCHANGED <<served, flags>>
              \/ \E good \in BOOLEAN :
                   /\ Does(id) /\ Attempt(id, cmd.num, good)
                   /\ q = IF good THEN Tail(cmd.queue) ELSE QueueAfterFailure(id)
  <1>1. AtQueued /\ setup' = setup /\ cmd.pc = "queue" /\ cmd \in CmdType
    BY CmdIs DEF QueuedStep, AtQueued
  <1>2. PICK id : id = Head(cmd.queue)
    OBVIOUS
  <1>3. id \in Queued /\ id # "tail" /\ Tail(cmd.queue) \in Seq(Queued)
    BY <1>1, <1>2, QueueIs DEF QueuedStep
  <1>4. QueueAfterFailure(id) \in Seq(Queued)
    <2>1. <<>> \in Seq(Queued) /\ <<"disable">> \in Seq(Queued)
      BY DEF Queued
    <2> QED BY <2>1 DEF QueueAfterFailure
  <1>5. ASSUME NEW q \in Seq(Queued), cmd' = [cmd EXCEPT !.queue = q]
        PROVE  /\ cmd'.queue = q
               /\ cmd'.pc = "queue" /\ cmd'.num = cmd.num /\ cmd'.mem = cmd.mem
               /\ cmd'.idx = cmd.idx /\ cmd'.original = cmd.original /\ cmd'.by = cmd.by
               /\ cmd'.carried = cmd.carried /\ cmd'.passed = cmd.passed
    BY <1>1, <1>5 DEF CmdType
  <1>6. CASE /\ ~Does(id)
             /\ cmd' = [cmd EXCEPT !.queue = Tail(@)]
             /\ UNCHANGED <<served, flags, db, faults>>
    <2>1. cmd' = [cmd EXCEPT !.queue = Tail(cmd.queue)]
      BY <1>1, <1>6 DEF CmdType
    <2> QED BY <1>1, <1>2, <1>3, <1>5, <1>6, <2>1
  <1>7. CASE /\ Does(id)
             /\ \E good \in BOOLEAN :
                  /\ Attempt(id, cmd.num, good)
                  /\ cmd' = [cmd EXCEPT !.queue = IF good THEN Tail(@)
                                                  ELSE QueueAfterFailure(id)]
    <2>1. PICK good \in BOOLEAN :
            /\ Attempt(id, cmd.num, good)
            /\ cmd' = [cmd EXCEPT !.queue = IF good THEN Tail(@) ELSE QueueAfterFailure(id)]
      BY <1>7
    <2> DEFINE q == IF good THEN Tail(cmd.queue) ELSE QueueAfterFailure(id)
    <2>2. cmd' = [cmd EXCEPT !.queue = q] /\ q \in Seq(Queued)
      BY <1>1, <1>3, <1>4, <2>1 DEF CmdType
    <2>3. \E g \in BOOLEAN :
            /\ Does(id) /\ Attempt(id, cmd.num, g)
            /\ q = IF g THEN Tail(cmd.queue) ELSE QueueAfterFailure(id)
      BY <1>7, <2>1
    <2> HIDE DEF q
    <2> QED BY <1>1, <1>2, <1>3, <1>5, <2>2, <2>3
  <1> QED BY <1>2, <1>6, <1>7 DEF QueuedStep

LEMMA RollbackFitsAfterQueued ==
  ASSUME TypeInv, Steady, RunFits, RollbackFits, [Next]_vars, cmd # Idle, RollbackSteps
  PROVE  RollbackFits'
  <1>1. /\ cmd \in CmdType /\ cmd.rollback /\ cmd.mem.status = "ok" /\ cmd.num \in Created
        /\ cmd.original.status = "ok"
    BY CmdIs, RollbackStepsAreOfOne DEF RollbackFits
  <1>2. /\ InQueue("activate") => Symlink
        /\ cmd.pc = "queue" /\ InQueue("tail") =>
             /\ ~Symlink /\ cmd.idx = 1
             /\ cmd.queue[1] # "tail" => cmd.queue[1] = "enable" /\ cmd.queue[2] = "tail"
             /\ \A j, k \in DOMAIN cmd.queue :
                  cmd.queue[j] = "tail" /\ cmd.queue[k] = "tail" => j = k
        /\ cmd.pc = "queue" /\ cmd.queue # <<>> /\ cmd.queue[1] = "tail"
             => Down \/ served["code"] = 0
    BY <1>1 DEF RollbackFits
  <1>3. setup' = setup => Symlink' = Symlink /\ Incomplete' = {} /\ cmd.num \in Created'
    BY <1>1, PlanKept, CreatedStays
  <1>4. CASE StartTail
    <2> DEFINE q == Tail(cmd.queue)
    <2>1. cmd' = [cmd EXCEPT !.pc = "run", !.queue = q] /\ AtQueued /\ UNCHANGED <<setup, served, flags>>
          /\ Head(cmd.queue) = "tail"
      BY <1>1, <1>4 DEF StartTail, CmdType
    <2>2. /\ cmd'.pc = "run" /\ cmd'.num = cmd.num /\ cmd'.mem = cmd.mem /\ cmd'.idx = cmd.idx
          /\ cmd'.original = cmd.original /\ cmd'.queue = q
      <3> HIDE DEF q
      <3> QED BY <1>1, <2>1 DEF CmdType
    <2>3. /\ \A j \in DOMAIN cmd'.queue :
               j + 1 \in DOMAIN cmd.queue /\ cmd'.queue[j] = cmd.queue[j + 1] /\ j \in Nat \ {0}
          /\ 1 \in DOMAIN cmd.queue /\ cmd.queue[1] = "tail" /\ cmd.queue # <<>>
          /\ InQueue("activate")' => InQueue("activate")
      BY <2>1, <2>2, QueueLeft DEF AtQueued
    <2>4. InQueue("tail") /\ cmd.pc = "queue"
      BY <2>1, <2>3 DEF InQueue, AtQueued
    <2>5. ~InQueue("tail")'
      <3> SUFFICES ASSUME NEW j \in DOMAIN cmd'.queue, cmd'.queue[j] = "tail"
                   PROVE  FALSE
        BY DEF InQueue
      <3>1. j + 1 \in DOMAIN cmd.queue /\ cmd.queue[j + 1] = "tail" /\ j + 1 # 1
        BY <2>3
      <3> QED BY <1>2, <2>3, <2>4, <3>1
    <2>6. Down' \/ served'["code"] = 0
      BY <1>2, <2>1, <2>3, <2>4, PlanKept DEF Down, Site
    <2>7. ~Symlink /\ ~InQueue("activate")'
      BY <1>2, <2>3, <2>4
    <2> QED BY <1>1, <1>3, <2>1, <2>2, <2>5, <2>6, <2>7 DEF RollbackFits
  <1>5. CASE QueuedStep
    <2>1. PICK q \in Seq(Queued), id \in Queued :
            /\ AtQueued /\ cmd.pc = "queue" /\ setup' = setup
            /\ id = Head(cmd.queue) /\ id # "tail" /\ cmd'.queue = q
            /\ cmd'.pc = "queue" /\ cmd'.num = cmd.num /\ cmd'.mem = cmd.mem
            /\ cmd'.idx = cmd.idx /\ cmd'.original = cmd.original
            /\ \/ ~Does(id) /\ q = Tail(cmd.queue) /\ UNCHANGED <<served, flags>>
               \/ \E good \in BOOLEAN :
                    /\ Does(id) /\ Attempt(id, cmd.num, good)
                    /\ q = IF good THEN Tail(cmd.queue) ELSE QueueAfterFailure(id)
      BY <1>5, QueuedStepIs
    <2>2. \/ q \in {<<>>, <<"disable">>}
          \/ /\ q = Tail(cmd.queue)
             /\ Does(id) => \E good \in BOOLEAN : good /\ Attempt(id, cmd.num, good)
      <3>1. QueueAfterFailure(id) \in {<<>>, <<"disable">>}
        BY DEF QueueAfterFailure
      <3> QED BY <2>1, <3>1
    <2>4. CASE q \in {<<>>, <<"disable">>}
      BY <1>1, <2>1, <2>4, RollbackFitsInARun
    <2>5. CASE q = Tail(cmd.queue)
      <3>1. /\ \A x : InQueue(x)' => InQueue(x)
            /\ \A j \in DOMAIN cmd'.queue :
                 j + 1 \in DOMAIN cmd.queue /\ cmd'.queue[j] = cmd.queue[j + 1] /\ j \in Nat \ {0}
            /\ 1 \in DOMAIN cmd.queue /\ cmd.queue[1] = id /\ cmd.queue # <<>>
            /\ cmd'.queue # <<>> => 1 \in DOMAIN cmd'.queue
        BY <2>1, <2>5, QueueLeft DEF AtQueued
      <3>2. CASE ~InQueue("tail")
        <4>1. ~InQueue("tail")' /\ (InQueue("activate")' => Symlink)
          BY <1>2, <3>1, <3>2
        <4>2. cmd'.queue # <<>> => cmd'.queue[1] # "tail"
          BY <3>1, <4>1 DEF InQueue
        <4> QED BY <1>1, <1>3, <2>1, <4>1, <4>2 DEF RollbackFits
      <3>3. CASE InQueue("tail")
        <4>1. ~Symlink /\ cmd.idx = 1 /\ id = "enable" /\ cmd.queue[2] = "tail"
          BY <1>2, <2>1, <3>1, <3>3
        <4>2. Does("enable")
          <5>1. Setups[setup].strategy # "symlink"
            BY <4>1 DEF Symlink, Project
          <5> QED BY <5>1, SteadyIsWindowed DEF Windowed, Does
        <4>3. CASE q \in {<<>>, <<"disable">>}
          BY <1>1, <2>1, <4>3, RollbackFitsInARun
        <4>4. CASE q \notin {<<>>, <<"disable">>}
          <5>3. PICK good \in BOOLEAN : good /\ Attempt(id, cmd.num, good)
            BY <2>2, <4>1, <4>2, <4>4
          <5>4. Site \in flags' \/ served["code"] = 0
            BY <4>1, <5>3, EffectIs
          <5>5. served' = served
            <6>1. id # "activate"
              BY <4>1
            <6> QED BY <5>3, <6>1, EffectIs
          <5>6. Down' \/ served'["code"] = 0
            BY <2>1, <5>4, <5>5, PlanKept DEF Down, Site
          <5>7. \A j, k \in DOMAIN cmd'.queue :
                  cmd'.queue[j] = "tail" /\ cmd'.queue[k] = "tail" => j = k
            <6> SUFFICES ASSUME NEW j \in DOMAIN cmd'.queue, NEW k \in DOMAIN cmd'.queue,
                                cmd'.queue[j] = "tail", cmd'.queue[k] = "tail"
                         PROVE  j = k
              OBVIOUS
            <6>1. /\ j + 1 \in DOMAIN cmd.queue /\ k + 1 \in DOMAIN cmd.queue
                  /\ cmd.queue[j + 1] = "tail" /\ cmd.queue[k + 1] = "tail"
                  /\ j \in Nat /\ k \in Nat
              BY <3>1
            <6>2. j + 1 = k + 1
              BY <1>2, <2>1, <3>3, <6>1
            <6> QED BY <6>1, <6>2
          <5>8. cmd'.queue # <<>> => cmd'.queue[1] = "tail"
            <6> SUFFICES ASSUME cmd'.queue # <<>>
                         PROVE  cmd'.queue[1] = "tail"
              OBVIOUS
            <6>1. cmd'.queue[1] = cmd.queue[1 + 1]
              BY <3>1
            <6> QED BY <4>1, <6>1
          <5>9. InQueue("tail")' => cmd'.queue # <<>>
            BY DEF InQueue
          <5>10. InQueue("activate")' => Symlink
            BY <1>2, <3>1
          <5> QED
            BY <1>1, <1>3, <2>1, <4>1, <5>6, <5>7, <5>8, <5>9, <5>10 DEF RollbackFits
        <4> QED BY <4>3, <4>4
      <3> QED BY <3>2, <3>3
    <2> QED BY <2>2, <2>4, <2>5
  <1>6. CASE EndRollback
    BY <1>6 DEF EndRollback, RollbackFits
  <1> QED BY <1>4, <1>5, <1>6 DEF RollbackSteps
\* A deploy stays one until it ends.
LEMMA DeployStays ==
  ASSUME TypeInv, cmd # Idle, ~cmd.rollback, RunSteps
  PROVE  cmd' = Idle \/ ~cmd'.rollback
  <1>1. CASE ReadRecord
    BY <1>1, ReadRecordIs
  <1>2. CASE TakeLockUpFront
    BY <1>2, TakeLockIs DEF SameRun
  <1>3. CASE CarryOver \/ Skip \/ RecordStep
    BY <1>3, AdvancedIs DEF SameRun, Deploying
  <1>4. CASE Probe \/ RunStep
    BY <1>4, ProbeIs, RunStepIs DEF SameRun
  <1>5. CASE FailStep \/ ProbeFails \/ Finish \/ Killed
    BY <1>5 DEF FailStep, ProbeFails, EndFailed, Finish, Killed
  <1> QED BY <1>1, <1>2, <1>3, <1>4, <1>5 DEF RunSteps

LEMMA RollbackFitsKept ==
  ASSUME TypeInv, Steady, RunFits, RollbackFits, [Next]_vars
  PROVE  RollbackFits'
  <1>1. CASE Commands
    BY <1>1, RollbackFitsAfterStart
  <1>2. CASE RunSteps \/ RollbackSteps
    <2>1. cmd # Idle
      BY <1>2, IdleHasNoStep
    <2>2. CASE cmd.rollback
      BY <1>2, <2>1, <2>2, RollbackFitsAfterRun, RollbackFitsAfterQueued
    <2>3. CASE ~cmd.rollback
      <3>1. RunSteps /\ Deploying
        BY <1>2, <2>1, <2>3, RollbackStepsAreOfOne DEF Deploying
      <3>2. cmd' = Idle \/ ~cmd'.rollback
        BY <2>1, <2>3, <3>1, DeployStays
      <3> QED BY <3>2 DEF RollbackFits
    <2> QED BY <2>2, <2>3
  <1>3. CASE Environment \/ UNCHANGED vars
    <2>1. UNCHANGED <<setup, cmd, rec, served, flags>>
      BY <1>3 DEF Environment, Unlock, DatabaseMoves, OtherTakesTheLock,
                  OtherReleasesTheLock, vars
    <2>2. Symlink' = Symlink /\ Incomplete' = Incomplete /\ Created' = Created
          /\ Site' = Site /\ Down' = Down
      BY <2>1, PlanKept DEF Incomplete, Created, Number, Site, Down
    <2>3. \A x : InQueue(x)' <=> InQueue(x)
      BY <2>1 DEF InQueue
    <2> QED BY <2>1, <2>2, <2>3 DEF RollbackFits
  <1> QED BY <1>1, <1>2, <1>3 DEF Next

LEMMA SiteFitsStill ==
  ASSUME TypeInv, SiteFits, UNCHANGED <<setup, served, flags>>, Created \subseteq Created'
  PROVE  SiteFits'
  <1>1. Symlink' = Symlink /\ Parts' = Parts
    BY PlanKept DEF Parts
  <1> QED BY <1>1 DEF SiteFits

LEMMA SiteFitsKept ==
  ASSUME TypeInv, Steady, RunFits, SiteFits, RollbackFits, [Next]_vars
  PROVE  SiteFits'
  <1>1. Created \subseteq Created'
    BY CreatedStays
  <1>2. CASE Commands \/ Environment \/ UNCHANGED vars
    <2>1. UNCHANGED <<setup, served, flags>>
      BY <1>2 DEF Commands, StartDeploy, StartResume, StartRollback, Environment, Unlock,
                  DatabaseMoves, OtherTakesTheLock, OtherReleasesTheLock, vars
    <2> QED BY <1>1, <2>1, SiteFitsStill
  <1>3. CASE RunSteps /\ ~RunStep
    <2>1. UNCHANGED <<setup, served, flags>>
      BY <1>3 DEF RunSteps, ReadRecord, TakeLockUpFront, CarryOver, Skip, Probe, RecordStep,
                  FailStep, ProbeFails, Finish, Killed
    <2> QED BY <1>1, <2>1, SiteFitsStill
  <1>4. CASE RunStep
    <2>1. cmd # Idle
      BY <1>4, IdleHasNoStep DEF RunSteps
    <2>2. PICK good \in BOOLEAN : Attempt(Step.id, cmd.num, good)
      BY <1>4 DEF RunStep
    <2>3. AtStep /\ UNCHANGED <<setup, rec>>
      BY <1>4 DEF RunStep, Due
    <2>4. Step.id = "activate" => cmd.num \in Created
      <3>1. CASE cmd.rollback
        BY <2>1, <3>1 DEF RollbackFits
      <3>2. CASE ~cmd.rollback
        BY <2>1, <2>3, <3>2, NumberIs DEF Deploying
      <3> QED BY <3>1, <3>2
    <2> DEFINE id == Step.id
    <2>5. Attempt(id, cmd.num, good) /\ (id = "activate" => cmd.num \in Created)
      BY <2>2, <2>4
    <2> HIDE DEF id
    <2> QED BY <2>3, <2>5, SiteFitsAfterEffect
  <1>5. CASE RollbackSteps /\ ~QueuedStep
    <2>1. UNCHANGED <<setup, served, flags>>
      BY <1>5 DEF RollbackSteps, StartTail, EndRollback
    <2> QED BY <1>1, <2>1, SiteFitsStill
  <1>6. CASE QueuedStep
    <2>1. cmd # Idle /\ cmd.rollback
      BY <1>6, IdleHasNoStep, RollbackStepsAreOfOne DEF RollbackSteps
    <2>2. cmd.num \in Created /\ UNCHANGED <<setup, rec>>
      BY <1>6, <2>1 DEF RollbackFits, QueuedStep
    <2> DEFINE id == Head(cmd.queue)
    <2>3. \/ UNCHANGED <<served, flags>>
          \/ \E good \in BOOLEAN : Attempt(id, cmd.num, good)
      BY <1>6 DEF QueuedStep
    <2> HIDE DEF id
    <2> QED BY <1>1, <2>2, <2>3, SiteFitsAfterEffect, SiteFitsStill
  <1> QED BY <1>2, <1>3, <1>4, <1>5, <1>6 DEF Next

\* What the window theorems rest on is inductive in a steady project.
LEMMA WindowKept ==
  ASSUME TypeInv, Steady, WindowInv, [Next]_vars
  PROVE  WindowInv'
  <1>1. RunFits'
    BY RunFitsKept DEF WindowInv
  <1>2. ProgressFits'
    BY ProgressFitsKept DEF WindowInv
  <1>3. SiteFits'
    BY SiteFitsKept DEF WindowInv
  <1>4. RecordsFit'
    BY <1>1, RecordsFitKept
  <1>5. RollbackFits'
    BY RollbackFitsKept DEF WindowInv
  <1> QED BY <1>1, <1>2, <1>3, <1>4, <1>5 DEF WindowInv

LEMMA WindowAtFirst ==
  ASSUME Init
  PROVE  WindowInv
  <1>1. cmd = Idle /\ flags = {} /\ ~Deploying
    BY DEF Init, Deploying
  <1>2. PICK first \in {0, 1} :
          /\ served = AllOf(first)
          /\ rec = [n \in Number |->
                      IF n > first THEN NewRecord
                      ELSE [NewRecord EXCEPT !.status = "ok",
                              !.task = [t \in DOMAIN @ |-> "ok"]]]
    BY DEF Init
  <1>3. NewRecord.status = "none" /\ \A f : [NewRecord EXCEPT !.status = "ok", !.task = f].status = "ok"
    BY DEF NewRecord
  <1>4. \A n \in Number : rec[n].status = IF n > first THEN "none" ELSE "ok"
    <2> SUFFICES ASSUME NEW n \in Number
                 PROVE  rec[n].status = IF n > first THEN "none" ELSE "ok"
      OBVIOUS
    <2> DEFINE f == [t \in DOMAIN NewRecord.task |-> "ok"]
    <2>1. [NewRecord EXCEPT !.status = "ok", !.task = [t \in DOMAIN @ |-> "ok"]]
            = [NewRecord EXCEPT !.status = "ok", !.task = f]
      BY DEF NewRecord
    <2>2. rec[n] = IF n > first THEN NewRecord ELSE [NewRecord EXCEPT !.status = "ok", !.task = f]
      BY <1>2, <2>1
    <2> HIDE DEF f
    <2> QED BY <1>3, <2>2
  <1>5. Incomplete = {}
    BY <1>4 DEF Incomplete
  <1>6. Resumable = {}
    BY <1>5 DEF Resumable, IncompleteRelease
  <1>7. first \in Created \cup {0}
    <2>1. CASE first = 1
      <3>1. 1 \in Number /\ ~(1 > 1)
        BY PublishWindowAssumption DEF Number
      <3>2. rec[1].status = "ok"
        BY <1>4, <2>1, <3>1
      <3> QED BY <2>1, <3>1, <3>2 DEF Created
    <2> QED BY <2>1
  <1>8. "code" \in Parts /\ \A p \in Parts : served[p] = first
    BY <1>2 DEF AllOf, Parts
  <1>9. SiteFits
    BY <1>1, <1>7, <1>8 DEF SiteFits
  <1> QED BY <1>1, <1>6, <1>9 DEF WindowInv, RunFits, ProgressFits, RecordsFit, RollbackFits
-----------------------------------------------------------------------------
(* The window.                                                               *)

LEMMA SetupKept ==
  ASSUME [Next]_vars
  PROVE  setup' = setup
  <1>1. CASE Commands \/ Environment \/ UNCHANGED vars
    BY <1>1 DEF Commands, StartDeploy, StartResume, StartRollback, Environment, Unlock,
                DatabaseMoves, OtherTakesTheLock, OtherReleasesTheLock, vars
  <1>2. CASE RunSteps
    BY <1>2 DEF RunSteps, ReadRecord, TakeLockUpFront, CarryOver, Skip, Probe, RunStep,
                RecordStep, FailStep, ProbeFails, Finish, Killed
  <1>3. CASE RollbackSteps
    BY <1>3 DEF RollbackSteps, StartTail, QueuedStep, EndRollback
  <1> QED BY <1>1, <1>2, <1>3 DEF Next

\* In a steady project what a record says of the window is true of the site,
\* after any failure or kill, and so is what a run has concluded from it.
THEOREM WindowIsRecorded == Spec /\ Steady => [](TypeInv /\ Steady /\ WindowInv)
  <1>1. Init => TypeInv /\ WindowInv
    BY InitTyped, WindowAtFirst
  <1>2. TypeInv /\ Steady /\ WindowInv /\ [Next]_vars => TypeInv' /\ Steady' /\ WindowInv'
    BY TypeKept, SetupKept, SteadyKept, WindowKept
  <1> QED BY <1>1, <1>2, PTL DEF Spec

\* A step of the window that a deploy runs, and the steps behind it.
LEMMA DeployStepIs ==
  ASSUME TypeInv, Steady, WindowInv, RunStep, cmd # Idle, ~cmd.rollback
  PROVE  /\ Deploying /\ AtStep /\ cmd.pc = "run" /\ cmd.idx \in Nat /\ Steps = Plan
         /\ cmd.idx \in DOMAIN Plan /\ Step = Plan[cmd.idx] /\ Implemented(Step)
         /\ Step.id \notin cmd.carried
         /\ Step.gated => cmd.required
         /\ Step.id \in Lasting => ~Ok(cmd.mem, Step.id)
         /\ \A id \in WindowSteps : Step.id = id => cmd.idx = At(id)
         /\ cmd.num # 0 => RecordFits(cmd.num, cmd.mem)
         /\ \E good \in BOOLEAN : Attempt(Step.id, cmd.num, good)
  <1>1. Deploying /\ AtStep /\ cmd.pc = "run" /\ \E good \in BOOLEAN : Attempt(Step.id, cmd.num, good)
    BY DEF RunStep, Due, AtStep, Deploying
  <1>2. cmd.idx \in Nat /\ cmd.idx \in DOMAIN Plan /\ Step = Plan[cmd.idx] /\ Steps = Plan
    BY <1>1, StepIsOfThePlan, DeployIs
  <1>3. Step.id \notin cmd.carried /\ Implemented(Step) /\ (Step.gated => cmd.required)
    BY DEF RunStep, Due, Behind, NotRun, Implemented
  <1>4. Step.id \in Lasting => ~Ok(cmd.mem, Step.id)
    BY <1>1, <1>2, <1>3, NotYetOk DEF WindowInv
  <1>5. \A id \in WindowSteps : Step.id = id => cmd.idx = At(id)
    BY <1>2, WindowIs
  <1>6. cmd.num # 0 => RecordFits(cmd.num, cmd.mem)
    BY <1>1 DEF WindowInv, RecordsFit
  <1> QED BY <1>1, <1>2, <1>3, <1>4, <1>5, <1>6

\* The tail of an in-place rollback begins with the activation.
LEMMA TailIs ==
  ASSUME TypeInv, Steady, cmd # Idle, cmd.rollback, ~Symlink
  PROVE  /\ Len(Steps) >= 1 /\ Len(Steps) \in Nat
         /\ AtStep /\ Step.id \in {"activate", "enable"} => cmd.idx = 1
         /\ cmd.idx = 1 => Step.id = "activate" /\ Implemented(Step) /\ ~Step.gated
  <1>1. PICK b \in BOOLEAN : Steps = Shaped[setup].tail[b]
    <2>1. Contains(cmd.queue, "restore") \in BOOLEAN
      BY DEF Contains
    <2> QED BY <2>1 DEF Steps
  <1>2. ActivatesFirst(Shaped[setup].tail)
    BY SteadyIsWindowed DEF Windowed, Symlink, Project
  <1>3. IsSequence(Steps) /\ cmd.idx \in Nat \ {0}
    BY StepsAre, CmdIs DEF CmdType
  <1>4. AtStep => cmd.idx \in DOMAIN Steps
    BY <1>3 DEF AtStep, IsSequence
  <1> QED BY <1>1, <1>2, <1>3, <1>4 DEF ActivatesFirst, Step, IsSequence

LEMMA DownInPlace ==
  ASSUME TypeInv, Steady, WindowInv, [Next]_vars, cmd # Idle, Serving, ~Symlink,
         served' # served
  PROVE  Down
  <1>1. Site = 0 /\ DOMAIN served = Parts
    BY SiteIs DEF WindowInv
  <1>2. CASE ~cmd.rollback
    <2>1. RunStep
      BY <1>2, DeployChangesBy
    <2>2. /\ Deploying /\ AtStep /\ cmd.idx \in Nat
          /\ \A id \in WindowSteps : Step.id = id => cmd.idx = At(id)
          /\ cmd.num # 0 => RecordFits(cmd.num, cmd.mem)
      BY <1>2, <2>1, DeployStepIs
    <2>3. PICK good \in BOOLEAN : Attempt(Step.id, cmd.num, good)
      BY <2>1 DEF RunStep
    <2>4. Step.id = "activate"
      BY <2>3, EffectIsOf
    <2>5. cmd.num # 0
      BY <2>2, <2>4, NumberIs DEF WindowInv
    <2>6. At("enable") < cmd.idx
      <3>1. cmd.idx = At("activate")
        BY <2>2, <2>4 DEF WindowSteps
      <3>2. /\ At("enable") < At("migrate") /\ At("migrate") < At("activate")
            /\ \A id \in WindowSteps : At(id) \in Nat
        BY WindowIs
      <3> QED BY <3>1, <3>2 DEF WindowSteps
    <2>7. Ok(cmd.mem, "enable")
      <3>1. "enable" \in WindowSteps
        BY DEF WindowSteps
      <3> QED BY <2>2, <2>6, <3>1, BehindIs DEF WindowInv
    <2>8. 0 \in flags \/ OneOf(cmd.num)
      BY <2>2, <2>5, <2>7 DEF RecordFits
    <2>9. ~OneOf(cmd.num)
      <3> SUFFICES ASSUME OneOf(cmd.num)
                   PROVE  FALSE
        OBVIOUS
      <3>1. \A p \in Parts : served[p] = cmd.num
        BY DEF OneOf, Serving
      <3> DEFINE id == Step.id
                 n == cmd.num
      <3>2. Attempt(id, n, good) /\ id = "activate"
        BY <2>3, <2>4
      <3>3. \A p \in Parts : served[p] = n
        BY <3>1
      <3> HIDE DEF id, n
      <3>4. served' = served \/ \A p \in Parts : served'[p] \in {n, served[p]}
        BY <3>2, EffectIs
      <3>5. DOMAIN served' = Parts
        <4>1. TypeInv'
          BY TypeKept
        <4>2. Parts' = Parts
          BY DEF Parts
        <4> QED BY <4>1, <4>2 DEF TypeInv
      <3>6. \A p \in Parts : served'[p] = served[p]
        BY <3>3, <3>4
      <3>7. served \in [Parts -> 0 .. MaxRelease] /\ served' \in [Parts -> 0 .. MaxRelease]
        <4>1. TypeInv'
          BY TypeKept
        <4>2. Parts' = Parts
          BY DEF Parts
        <4> QED BY <4>1, <4>2 DEF TypeInv
      <3>8. served' = served
        BY <3>6, <3>7
      <3> QED BY <3>8
    <2> QED BY <1>1, <2>8, <2>9 DEF Down
  <1>3. CASE cmd.rollback
    <2>1. RunStep \/ QueuedStep
      <3>1. ~Commands /\ ~Environment /\ ~UNCHANGED vars
        BY DEF Commands, StartDeploy, StartResume, StartRollback, Environment, Unlock,
               DatabaseMoves, OtherTakesTheLock, OtherReleasesTheLock, vars
      <3> QED BY <3>1 DEF Next, RunSteps, RollbackSteps, ReadRecord, TakeLockUpFront, CarryOver,
         Skip, Probe, RecordStep, FailStep, ProbeFails, Finish, Killed, StartTail, EndRollback
    <2>2. CASE QueuedStep
      <3>1. PICK id : id = Head(cmd.queue)
        OBVIOUS
      <3>2. AtQueued /\ \E good \in BOOLEAN : Attempt(id, cmd.num, good)
        BY <2>2, <3>1 DEF QueuedStep
      <3>3. id = "activate"
        BY <3>2, EffectIsOf
      <3>4. 1 \in DOMAIN cmd.queue /\ cmd.queue[1] = "activate"
        <4>1. /\ Len(cmd.queue) \in Nat \ {0} /\ Head(cmd.queue) = cmd.queue[1]
          BY <3>2, QueueIs
        <4>2. cmd.queue \in Seq(Queued)
          BY CmdIs DEF CmdType
        <4> QED BY <3>1, <3>3, <4>1, <4>2
      <3>5. InQueue("activate")
        BY <3>4 DEF InQueue
      <3> QED BY <1>3, <3>5 DEF RollbackFits, WindowInv
    <2>3. CASE RunStep
      <3>1. AtStep /\ \E good \in BOOLEAN : Attempt(Step.id, cmd.num, good)
        BY <2>3 DEF RunStep, Due
      <3>2. Step.id = "activate"
        BY <3>1, EffectIsOf
      <3>3. cmd.idx = 1
        BY <1>3, <3>1, <3>2, TailIs
      <3>4. Down \/ served["code"] = 0
        BY <1>3, <3>1, <3>3 DEF RollbackFits, WindowInv, AtStep
      <3> QED BY <3>4, SiteIs DEF WindowInv
    <2> QED BY <2>1, <2>2, <2>3
  <1> QED BY <1>2, <1>3

LEMMA DownForTheSchema ==
  ASSUME TypeInv, Steady, WindowInv, cmd # Idle, Serving, Symlink, RunStep, db' # db
  PROVE  Down
  <1>1. ~cmd.rollback /\ cmd.pc = "run"
    BY DEF RollbackFits, WindowInv, RunStep, Due, AtStep
  <1>2. /\ Deploying /\ AtStep /\ cmd.idx \in Nat
        /\ \A id \in WindowSteps : Step.id = id => cmd.idx = At(id)
        /\ cmd.num # 0 => RecordFits(cmd.num, cmd.mem)
        /\ Step.id \in Lasting => ~Ok(cmd.mem, Step.id)
    BY <1>1, DeployStepIs
  <1>3. PICK good \in BOOLEAN : Attempt(Step.id, cmd.num, good)
    BY DEF RunStep
  <1>4. Step.id = "migrate"
    BY <1>1, <1>2, <1>3, EffectIsOf, StepIsNoRestore
  <1>5. cmd.num # 0
    BY <1>2, <1>4, NumberIs DEF WindowInv
  <1>6. ~Ok(cmd.mem, "migrate")
    BY <1>2, <1>4, LastingAre
  <1>7. "enable" \in WindowSteps /\ At("enable") < cmd.idx
    <2>1. cmd.idx = At("migrate")
      BY <1>2, <1>4 DEF WindowSteps
    <2> QED BY <2>1, WindowIs DEF WindowSteps
  <1>8. Ok(cmd.mem, "enable") \/ ~cmd.required
    BY <1>2, <1>7, BehindIs DEF WindowInv
  <1>9. cmd.required
    <2> SUFFICES ASSUME ~cmd.required
                 PROVE  FALSE
      OBVIOUS
    <2>1. db = "current"
      BY <1>2 DEF WindowInv, ProgressFits
    <2>2. db' \in DBAfter("migrate", good)
      BY <1>3, <1>4 DEF Attempt, Effect
    <2> QED BY <2>1, <2>2 DEF DBAfter
  <1>10. Down \/ served["code"] = 0
    BY <1>2, <1>5, <1>6, <1>8, <1>9 DEF RecordFits
  <1> QED BY <1>10, SiteIs DEF WindowInv

\* In a steady project the docroot is rewritten, and the schema under the served
\* code changed, with the site down only, by deploys, resumes and rollbacks alike.
THEOREM ChangesWhileDown == Spec /\ Steady => DownWhileChanged
  <1>1. TypeInv /\ Steady /\ WindowInv /\ [Next]_vars =>
          [/\ cmd # Idle /\ Serving
           /\ \/ ~Symlink /\ served' # served
              \/ Symlink /\ RunStep /\ db' # db
           => Down]_vars
    BY DownInPlace, DownForTheSchema
  <1> QED BY <1>1, WindowIsRecorded, PTL DEF Spec, DownWhileChanged
\* A deploy that has recorded its last step leaves no flag in the release it
\* serves: the window was closed, or the probe never let it be opened.
LEMMA FinishedIsOpen ==
  ASSUME TypeInv, Steady, WindowInv, Deploying, cmd.pc = "run", cmd.idx > Len(Steps)
  PROVE  served = AllOf(cmd.num) /\ ~Down
  <1>1. /\ cmd.num # 0 /\ served = AllOf(cmd.num) /\ At("disable") < cmd.idx
        /\ RecordFits(cmd.num, cmd.mem)
    BY FinishedIs DEF WindowInv, RecordsFit
  <1>2. CASE Ok(cmd.mem, "disable")
    BY <1>1, <1>2 DEF RecordFits, Down
  <1>3. CASE ~Ok(cmd.mem, "disable")
    <2>1. "disable" \in WindowSteps
      BY DEF WindowSteps
    <2>2. Plan[At("disable")].gated /\ ~cmd.required
      BY <1>1, <1>3, <2>1, BehindIs DEF WindowInv
    <2>3. Plan[At("enable")].gated /\ Symlink
      BY <2>2, GatesAre
    <2>4. ~LetThrough(cmd.mem)
      BY <2>2, <2>3, LetThroughIs DEF WindowInv
    <2>5. cmd.num \notin flags
      BY <1>1, <2>3, <2>4 DEF RecordFits
    <2>6. Site = cmd.num
      BY <1>1, <2>3, SiteIs DEF AllOf, WindowInv
    <2> QED BY <1>1, <2>5, <2>6 DEF Down
  <1> QED BY <1>2, <1>3

LEMMA OkByFinish ==
  ASSUME TypeInv, Steady, WindowInv, [Next]_vars, Finishes
  PROVE  Deploying /\ cmd.pc = "run" /\ cmd.idx > Len(Steps)
  <1>1. /\ Deploying /\ cmd # Idle /\ cmd' = Idle /\ ~cmd.rollback /\ cmd.num # 0
        /\ rec'[cmd.num].status = "ok"
    BY DEF Finishes, Deploying
  <1>2. rec' # rec
    <2> SUFFICES ASSUME rec' = rec
                 PROVE  FALSE
      OBVIOUS
    <2>1. CASE Fresh
      BY <1>1, <2>1 DEF Fresh
    <2>2. CASE ~Fresh
      BY <1>1, <2>2 DEF WindowInv, RunFits
    <2> QED BY <2>1, <2>2
  <1>3. ~Commands /\ ~Environment /\ ~UNCHANGED vars /\ ~RollbackSteps
    BY <1>1, <1>2, RollbackStepsAreOfOne
       DEF Commands, StartDeploy, StartResume, StartRollback, Environment, Unlock,
           DatabaseMoves, OtherTakesTheLock, OtherReleasesTheLock, vars
  <1>4. ~ReadRecord /\ ~TakeLockUpFront /\ ~RunStep /\ ~Killed
    BY <1>2 DEF ReadRecord, TakeLockUpFront, RunStep, Killed
  <1>5. ~CarryOver /\ ~Skip /\ ~RecordStep /\ ~Probe
    BY <1>1, AdvancedIs, ProbeIs DEF SameRun
  <1>6. ~FailStep /\ ~ProbeFails
    <2> SUFFICES ASSUME FailStep \/ ProbeFails
                 PROVE  FALSE
      OBVIOUS
    <2>1. setup' = setup /\ \E r \in RecordType, cost \in {0, 1} :
            r.status = "failed" /\ StoreAfter(cmd.num, r, cost)
      <3>1. CASE FailStep
        <4> DEFINE r == [Record("failed") EXCEPT !.status = "failed"]
        <4>1. r \in RecordType /\ r.status = "failed"
          BY <1>1, CmdIs, RecordIs DEF Outcome
        <4>2. setup' = setup /\ EndFailed(r, 0)
          BY <3>1 DEF FailStep
        <4> HIDE DEF r
        <4> QED BY <1>1, <4>1, <4>2 DEF EndFailed
      <3>2. CASE ProbeFails
        <4> DEFINE r == [cmd.mem EXCEPT !.status = "failed"]
        <4>1. r \in RecordType /\ r.status = "failed"
          BY <1>1, DeployIs DEF RecordType
        <4>2. setup' = setup /\ EndFailed(r, 1)
          BY <3>2 DEF ProbeFails
        <4> HIDE DEF r
        <4> QED BY <1>1, <4>1, <4>2 DEF EndFailed
      <3> QED BY <3>1, <3>2
    <2>2. rec'[cmd.num].status = "failed"
      BY <1>1, <2>1, StoreIs DEF WindowInv
    <2> QED BY <1>1, <2>2
  <1>7. Finish
    BY <1>3, <1>4, <1>5, <1>6 DEF Next, RunSteps
  <1> QED BY <1>1, <1>7 DEF Finish

\* In a steady project a deploy that ends ok serves its release, whole, and has
\* left no flag in it.
THEOREM OkServes == Spec /\ Steady => OkMeansServing
  <1>1. TypeInv /\ Steady /\ WindowInv /\ [Next]_vars =>
          [Finishes => served = AllOf(cmd.num) /\ ~Down]_vars
    BY OkByFinish, FinishedIsOpen
  <1> QED BY <1>1, WindowIsRecorded, PTL DEF Spec, OkMeansServing

LEMMA FailureReported ==
  ASSUME TypeInv, Steady, WindowInv, FailStep, cmd # Idle, ~cmd.rollback, Down,
         Record("failed").task["enable"] \in {"ok", "failed"}
  PROVE  MaintenanceMayBeOn(Record("failed"))
  <1>1. Deploying /\ cmd \in CmdType /\ cmd.mem \in RecordType
    BY CmdIs DEF Deploying, CmdType
  <1>2. /\ Record("failed").task = [cmd.mem.task EXCEPT ![Step.id] = "failed"]
        /\ cmd.mem.task \in [Ids(Plan) -> Outcome]
    BY <1>1, RecordIs DEF Outcome, RecordType
  <1>3. "enable" \in Ids(Plan)
    BY LastingAre DEF Lasting
  <1>4. ~Ok(cmd.mem, "disable")
    <2>1. CASE cmd.num = 0
      BY <1>1, <2>1, NothingYetOk DEF WindowInv
    <2>2. CASE cmd.num # 0
      BY <1>1, <2>2 DEF WindowInv, RecordsFit, RecordFits, Down
    <2> QED BY <2>1, <2>2
  <1>5. "disable" \in Ids(Plan) => Record("failed").task["disable"] # "ok"
    BY <1>2, <1>4 DEF Ok
  <1>6. DOMAIN Record("failed").task = Ids(Plan)
    BY <1>2
  <1> QED BY <1>3, <1>5, <1>6 DEF MaintenanceMayBeOn

\* In a steady project a deploy that fails with the site down, after it tried to
\* take it down, stores a record that says so.
THEOREM OpenWindowIsRecorded == Spec /\ Steady => OpenWindowIsReported
  <1>1. FailStep => cmd # Idle
    BY IdleHasNoStep DEF RunSteps
  <1>2. TypeInv /\ Steady /\ WindowInv /\ [Next]_vars =>
          [/\ FailStep /\ ~cmd.rollback /\ cmd.passed = {} /\ Down
           /\ Record("failed").task["enable"] \in {"ok", "failed"}
           => MaintenanceMayBeOn(Record("failed"))]_vars
    BY <1>1, FailureReported
  <1> QED BY <1>2, WindowIsRecorded, PTL DEF Spec, OpenWindowIsReported

LEMMA BoundedStep ==
  ASSUME TypeInv, Steady, WindowInv, RunStep, cmd # Idle, ~cmd.rollback,
         Step.stage = "publish", Down, cmd.mem.task["enable"] = "ok"
  PROVE  cmd.window /\ cmd.idx \in MaintenanceWindow(Steps)
  <1>1. /\ Deploying /\ AtStep /\ cmd.pc = "run" /\ cmd.idx \in Nat /\ Steps = Plan
        /\ cmd.idx \in DOMAIN Plan /\ Step = Plan[cmd.idx] /\ Implemented(Step)
        /\ Step.id \in Lasting => ~Ok(cmd.mem, Step.id)
        /\ cmd.num # 0 => RecordFits(cmd.num, cmd.mem)
    BY DeployStepIs
  <1>2. Ok(cmd.mem, "enable")
    BY DEF Ok
  <1>3. cmd.num # 0
    BY <1>1, <1>2, NothingYetOk DEF WindowInv
  <1>4. RecordFits(cmd.num, cmd.mem) /\ LetThrough(cmd.mem) /\ ~Ok(cmd.mem, "disable")
    BY <1>1, <1>2, <1>3 DEF RecordFits, Down
  <1>5. Plan[At("enable")].gated => cmd.required
    BY <1>1, <1>4, LetThroughIs DEF WindowInv
  <1>6. cmd.window
    BY <1>1, <1>5 DEF WindowInv, ProgressFits
  <1>7. /\ At("enable") \in DOMAIN Plan /\ At("enable") \in Nat \ {0}
        /\ Plan[At("enable")].id = "enable" /\ Implemented(Plan[At("enable")])
        /\ "disable" \in WindowSteps
        /\ \A k \in DOMAIN Plan : Plan[k].id = "disable" <=> k = At("disable")
    BY WindowIs DEF WindowSteps
  <1>8. At("enable") <= cmd.idx
    <2>1. Step.id \in Lasting
      BY <1>1, LastingAre
    <2>2. ~(cmd.idx < At("enable"))
      BY <1>1, <1>2, <1>4, <2>1 DEF RecordFits
    <2> QED BY <1>1, <1>7, <2>2
  <1>9. ~(At("disable") < cmd.idx)
    <2> SUFFICES ASSUME At("disable") < cmd.idx
                 PROVE  FALSE
      OBVIOUS
    <2>1. Plan[At("disable")].gated /\ ~cmd.required
      BY <1>1, <1>4, <1>7, BehindIs DEF WindowInv
    <2> QED BY <1>5, <2>1, GatesAre
  <1>10. DOMAIN Plan = 1 .. Len(Plan) /\ Len(Plan) \in Nat
    BY PlanPositions
  <1>11. \A d \in At("enable") .. cmd.idx - 1 : ~(Plan[d].id = "disable" /\ Implemented(Plan[d]))
    <2> SUFFICES ASSUME NEW d \in At("enable") .. cmd.idx - 1, Plan[d].id = "disable"
                 PROVE  FALSE
      OBVIOUS
    <2>1. d \in DOMAIN Plan /\ d < cmd.idx
      BY <1>1, <1>7, <1>10
    <2>2. d = At("disable")
      BY <1>7, <2>1
    <2> QED BY <1>9, <2>1, <2>2
  <1>12. At("enable") \in 1 .. cmd.idx
    BY <1>1, <1>7, <1>8
  <1> QED BY <1>1, <1>6, <1>7, <1>11, <1>12 DEF MaintenanceWindow

\* In a steady project a publish step that runs with the site down, in a window
\* its record knows of, runs with the window's bound.
THEOREM BoundedDowntime == Spec /\ Steady => DowntimeIsBounded
  <1>1. RunStep => cmd # Idle
    BY IdleHasNoStep DEF RunSteps
  <1>2. TypeInv /\ Steady /\ WindowInv /\ [Next]_vars =>
          [/\ RunStep /\ ~cmd.rollback /\ Step.stage = "publish"
           /\ Down /\ cmd.mem.task["enable"] = "ok"
           => cmd.window /\ cmd.idx \in MaintenanceWindow(Steps)]_vars
    BY <1>1, BoundedStep
  <1> QED BY <1>2, WindowIsRecorded, PTL DEF Spec, DowntimeIsBounded
-----------------------------------------------------------------------------
(* The docroot of a site that is open, when only the command line rolls back. *)

\* The served tree comes from one release, as far as it serves one.
Unmixed == \E n \in 0 .. MaxRelease : OneOf(n)

WholeFits ==
  ~Symlink =>
    /\ Docroot \in flags \/ Unmixed
    /\ cmd # Idle /\ cmd.rollback =>
         /\ cmd.by = "cli" /\ cmd.carried = {} /\ cmd.passed = {}
         /\ cmd.pc = "queue" /\ cmd.queue # <<>> /\ ~InQueue("tail") => Unmixed
         /\ cmd.pc \in {"run", "write"} /\ (cmd.idx > 1 \/ (cmd.pc = "write" /\ cmd.good))
              => served = AllOf(cmd.num)

LEMMA UnmixedStill ==
  ASSUME UNCHANGED served
  PROVE  /\ Unmixed' = Unmixed
         /\ \A n \in 0 .. MaxRelease : AllOf(n)' = AllOf(n)
  BY DEF Unmixed, OneOf, AllOf, Parts

LEMMA UnmixedOf ==
  ASSUME NEW n \in 0 .. MaxRelease
  PROVE  /\ served = AllOf(n) => Unmixed
         /\ (\A p \in Parts : served'[p] \in {0, n}) => Unmixed'
  BY DEF Unmixed, OneOf, AllOf, Parts

\* A run inside a rollback, whose step changes neither tree nor flag.
LEMMA WholeStill ==
  ASSUME TypeInv, WholeFits, UNCHANGED <<setup, served, flags>>,
         ~Symlink /\ cmd' # Idle /\ cmd'.rollback =>
           /\ cmd'.by = "cli" /\ cmd'.carried = {} /\ cmd'.passed = {}
           /\ cmd'.pc = "queue" /\ cmd'.queue # <<>> /\ ~InQueue("tail")' => Unmixed
           /\ cmd'.pc \in {"run", "write"} /\ (cmd'.idx > 1 \/ (cmd'.pc = "write" /\ cmd'.good))
                => cmd'.num \in 0 .. MaxRelease /\ served = AllOf(cmd'.num)
  PROVE  WholeFits'
  <1>1. Symlink' = Symlink /\ Unmixed' = Unmixed
    BY PlanKept, UnmixedStill
  <1>2. \A n \in 0 .. MaxRelease : served = AllOf(n) => served' = AllOf(n)'
    BY UnmixedStill
  <1>3. ASSUME ~Symlink, cmd' # Idle, cmd'.rollback, cmd'.pc \in {"run", "write"},
               cmd'.idx > 1 \/ (cmd'.pc = "write" /\ cmd'.good)
        PROVE  served' = AllOf(cmd'.num)
    BY <1>2, <1>3 DEF AllOf, Parts
  <1>4. served' = AllOf(cmd'.num) => served' = AllOf(cmd.num)'
    BY DEF AllOf, Parts
  <1> QED BY <1>1, <1>3, <1>4 DEF WholeFits, Docroot

LEMMA WholeAfterStart ==
  ASSUME TypeInv, WholeFits, Rollers \subseteq {"cli"}, Commands
  PROVE  WholeFits'
  <1>1. UNCHANGED <<setup, served, flags>>
    BY DEF Commands, StartDeploy, StartResume, StartRollback
  <1>2. CASE \E from \in Project.froms : StartDeploy(from) \/ StartResume(from)
    <2>1. ~cmd'.rollback
      BY <1>2, DeployStartIs
    <2> QED BY <1>1, <2>1, WholeStill
  <1>3. CASE \E n \in Number, by \in Rollers, withDB \in WithDB : StartRollback(n, by, withDB)
    <2>1. PICK n \in Number, by \in Rollers, withDB \in WithDB : StartRollback(n, by, withDB)
      BY <1>3
    <2>2. /\ cmd'.pc = "queue" /\ cmd'.by = "cli" /\ cmd'.queue = RollbackQueue(by, withDB)
      BY <2>1, RollbackStartIs
    <2>3. cmd'.carried = {} /\ cmd'.passed = {}
      <3> DEFINE q == RollbackQueue(by, withDB)
      <3>1. cmd' = [Running(n, rec[n]) EXCEPT !.pc = "queue", !.rollback = TRUE, !.by = by,
                                              !.queue = q]
        BY <2>1 DEF StartRollback
      <3> HIDE DEF q
      <3> QED BY <3>1 DEF Running
    <2>4. ~Symlink => InQueue("tail")'
      <3> DEFINE q == RollbackQueue(by, withDB)
      <3>1. ~Symlink => q[2] = "tail" /\ Len(q) >= 2
        BY RollbackQueueIs
      <3>2. q \in Seq(Queued)
        BY RollbackQueueIs
      <3>3. cmd'.queue = q
        BY <2>2
      <3> HIDE DEF q
      <3>4. ~Symlink => 2 \in DOMAIN q
        BY <3>1, <3>2
      <3> QED BY <3>1, <3>3, <3>4 DEF InQueue
    <2> QED BY <1>1, <2>2, <2>3, <2>4, WholeStill
  <1> QED BY <1>2, <1>3 DEF Commands

\* The steps of a deploy that change the docroot or its flag.
LEMMA DeployKeepsWhole ==
  ASSUME TypeInv, Steady, WindowInv, WholeFits, RunStep, cmd # Idle, ~cmd.rollback
  PROVE  WholeFits'
  <1>1. /\ Deploying /\ AtStep /\ cmd.idx \in Nat
        /\ \A id \in WindowSteps : Step.id = id => cmd.idx = At(id)
        /\ cmd.num # 0 => RecordFits(cmd.num, cmd.mem)
    BY DeployStepIs
  <1>2. cmd'.rollback = cmd.rollback /\ setup' = setup /\ cmd.num \in 0 .. MaxRelease
    BY <1>1, RunStepIs, DeployIs DEF SameRun
  <1>3. Symlink' = Symlink
    BY <1>2, PlanKept
  <1>4. PICK good \in BOOLEAN : Attempt(Step.id, cmd.num, good)
    BY DEF RunStep
  <1>5. /\ "enable" \in WindowSteps /\ "activate" \in WindowSteps /\ "disable" \in WindowSteps
        /\ At("enable") < At("migrate") /\ At("migrate") < At("activate")
        /\ ~Symlink => At("activate") < At("disable")
        /\ \A id \in WindowSteps : At(id) \in Nat
        /\ "migrate" \in WindowSteps
    BY WindowIs DEF WindowSteps
  <1>6. ASSUME ~Symlink
        PROVE  Docroot \in flags' \/ Unmixed'
    <2>1. Site = 0 /\ (Docroot \in flags \/ Unmixed)
      BY <1>6, SiteIs DEF WholeFits, WindowInv
    <2> DEFINE id == Step.id
               n == cmd.num
    <2>2. Attempt(id, n, good)
      BY <1>4
    <2>3. CASE Step.id = "activate"
      <3>1. cmd.num # 0
        BY <1>1, <2>3, NumberIs DEF WindowInv
      <3>2. At("enable") < cmd.idx
        BY <1>1, <1>5, <2>3
      <3>3. Ok(cmd.mem, "enable")
        BY <1>1, <1>5, <1>6, <3>2, BehindIs DEF WindowInv
      <3>4. 0 \in flags \/ OneOf(cmd.num)
        BY <1>1, <1>6, <3>1, <3>3 DEF RecordFits
      <3>5. id = "activate" /\ (0 \in flags \/ \A p \in Parts : served[p] \in {0, n})
            /\ n \in 0 .. MaxRelease
        BY <1>2, <2>3, <3>4 DEF OneOf
      <3> HIDE DEF id, n
      <3>6. flags' = flags /\ (served' = served \/ \A p \in Parts : served'[p] \in {n, served[p]})
        BY <2>2, <3>5, EffectIs
      <3>7. 0 \notin flags => \A p \in Parts : served'[p] \in {0, n}
        BY <3>5, <3>6
      <3> QED BY <3>5, <3>6, <3>7, UnmixedOf DEF Docroot
    <2>4. CASE Step.id = "disable"
      <3>1. cmd.num # 0
        BY <1>1, <2>4, NumberIs DEF WindowInv
      <3>2. At("activate") < cmd.idx
        BY <1>1, <1>5, <1>6, <2>4
      <3>3. Ok(cmd.mem, "activate")
        BY <1>1, <1>5, <3>2, BehindIs DEF WindowInv
      <3>4. served = AllOf(cmd.num)
        BY <1>1, <3>1, <3>3 DEF RecordFits
      <3>5. served' = served
        <4>1. id = "disable"
          BY <2>4
        <4> HIDE DEF id, n
        <4> QED BY <2>2, <4>1, EffectIs
      <3> QED BY <1>2, <3>4, <3>5, UnmixedOf, UnmixedStill
    <2>5. CASE Step.id \notin {"activate", "disable"}
      <3>1. id \notin {"activate", "disable"}
        BY <2>5
      <3> HIDE DEF id, n
      <3>2. served' = served /\ flags \subseteq flags'
        BY <2>2, <3>1, EffectIs
      <3> QED BY <2>1, <3>2, UnmixedStill
    <2> QED BY <2>3, <2>4, <2>5
  <1> QED BY <1>2, <1>3, <1>6 DEF WholeFits, Docroot

LEMMA RunKeepsWhole ==
  ASSUME TypeInv, Steady, WindowInv, WholeFits, RunStep, cmd # Idle, cmd.rollback
  PROVE  WholeFits'
  <1>1. PICK good \in BOOLEAN :
         /\ SameRun /\ cmd'.pc = "write" /\ cmd.pc = "run" /\ cmd'.idx = cmd.idx
         /\ cmd'.num = (IF good THEN NumberAfter ELSE cmd.num)
         /\ cmd'.good = good /\ Attempt(Step.id, cmd.num, good) /\ AtStep /\ setup' = setup
    BY RunStepIs
  <1>2. cmd'.num = cmd.num /\ cmd.num \in 0 .. MaxRelease /\ cmd.idx \in Nat \ {0}
    BY <1>1, CmdIs DEF NumberAfter, CmdFits, CmdType
  <1>3. Symlink' = Symlink /\ ~Symlink
    BY <1>1, PlanKept DEF WindowInv, RollbackFits
  <1>4. /\ Site = 0 /\ (Docroot \in flags \/ Unmixed)
        /\ cmd.by = "cli" /\ cmd.carried = {} /\ cmd.passed = {}
        /\ cmd.idx > 1 => served = AllOf(cmd.num)
    BY <1>1, <1>3, SiteIs DEF WholeFits, WindowInv
  <1>5. /\ Step.id \in {"activate", "enable"} => cmd.idx = 1
        /\ cmd.idx = 1 => Step.id = "activate"
    BY <1>1, <1>3, TailIs
  <1> DEFINE id == Step.id
             n == cmd.num
  <1>6. Attempt(id, n, good) /\ n \in 0 .. MaxRelease
    BY <1>1, <1>2
  <1>7. CASE Step.id = "activate"
    <2>1. Down \/ served["code"] = 0
      BY <1>1, <1>5, <1>7 DEF WindowInv, RollbackFits
    <2>2. id = "activate"
      BY <1>7
    <2>3. 0 \in flags \/ \A p \in Parts : served[p] = 0
      BY <1>4, <2>1 DEF Down, SiteFits, WindowInv
    <2>4. /\ flags' = flags /\ (served' = served \/ \A p \in Parts : served'[p] \in {n, served[p]})
          /\ good => served' = AllOf(n)
      <3> HIDE DEF id, n
      <3> QED BY <1>6, <2>2, EffectIs
    <2>5. 0 \notin flags => \A p \in Parts : served'[p] \in {0, n}
      BY <2>3, <2>4
    <2>6. Docroot \in flags' \/ Unmixed'
      BY <1>6, <2>4, <2>5, UnmixedOf DEF Docroot
    <2>7. ~(cmd'.idx > 1)
      BY <1>1, <1>5, <1>7
    <2>8. cmd'.good => served' = AllOf(cmd'.num)
      BY <1>1, <1>2, <2>4
    <2>9. served' = AllOf(cmd'.num) => served' = AllOf(cmd.num)'
      BY DEF AllOf, Parts
    <2> QED BY <1>1, <1>3, <1>4, <2>6, <2>7, <2>8, <2>9 DEF WholeFits, SameRun, Docroot
  <1>8. CASE Step.id # "activate"
    <2>1. cmd.idx > 1 /\ id \notin {"activate", "enable"}
      BY <1>2, <1>5, <1>8
    <2>2. served = AllOf(n)
      BY <1>4, <2>1
    <2>3. served' = served
      <3> HIDE DEF id, n
      <3> QED BY <1>6, <2>1, EffectIs
    <2>4. Unmixed'
      BY <1>6, <2>2, <2>3, UnmixedOf, UnmixedStill
    <2>5. served' = AllOf(cmd'.num)
      BY <1>2, <2>2, <2>3
    <2>6. served' = AllOf(cmd'.num) => served' = AllOf(cmd.num)'
      BY DEF AllOf, Parts
    <2> QED BY <1>1, <1>3, <1>4, <2>4, <2>5, <2>6 DEF WholeFits, SameRun
  <1> QED BY <1>7, <1>8
\* The other steps of a run inside a rollback: none changes tree or flag, and
\* none passes the activation.
LEMMA RunStaysWhole ==
  ASSUME TypeInv, Steady, WindowInv, WholeFits, RunSteps, ~RunStep, cmd # Idle, cmd.rollback
  PROVE  WholeFits'
  <1>1. UNCHANGED <<setup, served, flags>>
    BY DEF RunSteps, ReadRecord, TakeLockUpFront, CarryOver, Skip, Probe, RecordStep,
           FailStep, ProbeFails, Finish, Killed
  <1>2. CASE cmd' = Idle
    BY <1>1, <1>2, WholeStill
  <1>3. CASE Symlink
    BY <1>1, <1>3, WholeStill
  <1>4. CASE ~Symlink /\ cmd' # Idle
    <2>1. /\ cmd.by = "cli" /\ cmd.carried = {} /\ cmd.passed = {}
          /\ cmd.pc \in {"run", "write"} /\ (cmd.idx > 1 \/ (cmd.pc = "write" /\ cmd.good))
               => served = AllOf(cmd.num)
      BY <1>4 DEF WholeFits
    <2>2. /\ cmd \in CmdType /\ cmd.num \in 0 .. MaxRelease /\ cmd.idx \in Nat \ {0}
          /\ Len(Steps) >= 1 /\ Len(Steps) \in Nat
          /\ cmd.idx = 1 => Step.id = "activate" /\ Implemented(Step) /\ ~Step.gated
      BY <1>4, CmdIs, TailIs DEF CmdType
    <2>3. ~CarryOver
      BY <2>1 DEF CarryOver
    <2>4. CASE Skip
      <3>1. SameRun /\ cmd'.num = cmd.num /\ cmd'.pc = "run" /\ cmd.pc = "run"
        BY <2>4, AdvanceIs DEF Skip, AtStep
      <3>2. cmd.idx # 1
        BY <2>1, <2>2, <2>4 DEF Skip, NotRun, Implemented
      <3>3. served = AllOf(cmd.num)
        BY <2>1, <2>2, <3>1, <3>2
      <3> QED BY <1>1, <2>1, <2>2, <3>1, <3>3, WholeStill DEF SameRun
    <2>5. CASE Probe
      <3>1. /\ SameRun /\ cmd'.num = cmd.num /\ cmd'.pc = "run" /\ cmd.pc = "run"
            /\ cmd'.idx = cmd.idx
        BY <2>5, ProbeIs
      <3> QED BY <1>1, <2>1, <2>2, <3>1, WholeStill DEF SameRun
    <2>6. CASE RecordStep
      <3>1. SameRun /\ cmd'.num = cmd.num /\ cmd'.pc = "run" /\ cmd.pc = "write" /\ cmd.good
        BY <2>6, RecordStepIs
      <3> QED BY <1>1, <2>1, <2>2, <3>1, WholeStill DEF SameRun
    <2>7. ASSUME cmd' = TailFailed
          PROVE  WholeFits'
      <3>1. /\ cmd'.pc = "queue" /\ cmd'.by = cmd.by /\ cmd'.queue = <<>>
            /\ cmd'.carried = cmd.carried /\ cmd'.passed = cmd.passed
        <4>1. cmd' = [cmd EXCEPT !.pc = "queue", !.queue = <<>>]
          BY <2>1, <2>7 DEF TailFailed
        <4> QED BY <2>2, <4>1 DEF CmdType
      <3> QED BY <1>1, <2>1, <3>1, WholeStill
    <2>8. CASE FailStep \/ ProbeFails
      <3>1. cmd' = TailFailed
        BY <2>8 DEF FailStep, ProbeFails, EndFailed
      <3> QED BY <2>7, <3>1
    <2>9. CASE Finish
      <3>1. cmd' \in {TailFailed, [cmd EXCEPT !.pc = "queue"]} /\ cmd.pc = "run"
            /\ cmd.idx > Len(Steps)
        BY <2>9 DEF Finish
      <3>2. Unmixed
        BY <2>1, <2>2, <3>1, UnmixedOf
      <3>3. CASE cmd' = [cmd EXCEPT !.pc = "queue"]
        <4>1. /\ cmd'.pc = "queue" /\ cmd'.by = cmd.by
              /\ cmd'.carried = cmd.carried /\ cmd'.passed = cmd.passed
          BY <2>2, <3>3 DEF CmdType
        <4> QED BY <1>1, <2>1, <3>2, <4>1, WholeStill
      <3> QED BY <2>7, <3>1, <3>3
    <2>10. ~ReadRecord /\ ~TakeLockUpFront
      BY DEF ReadRecord, TakeLockUpFront, WindowInv, RollbackFits
    <2>11. ~Killed
      BY <1>4 DEF Killed
    <2> QED BY <2>3, <2>4, <2>5, <2>6, <2>8, <2>9, <2>10, <2>11 DEF RunSteps
  <1> QED BY <1>2, <1>3, <1>4

LEMMA QueueKeepsWhole ==
  ASSUME TypeInv, Steady, WindowInv, WholeFits, RollbackSteps, cmd # Idle
  PROVE  WholeFits'
  <1>1. cmd.rollback /\ cmd \in CmdType
    BY CmdIs, RollbackStepsAreOfOne
  <1>2. ~Symlink =>
          /\ Site = 0 /\ (Docroot \in flags \/ Unmixed)
          /\ cmd.by = "cli" /\ cmd.carried = {} /\ cmd.passed = {}
          /\ cmd.pc = "queue" /\ cmd.queue # <<>> /\ ~InQueue("tail") => Unmixed
    BY <1>1, SiteIs DEF WholeFits, WindowInv
  <1>3. CASE StartTail
    <2> DEFINE q == Tail(cmd.queue)
    <2>1. cmd' = [cmd EXCEPT !.pc = "run", !.queue = q] /\ AtQueued /\ UNCHANGED <<setup, served, flags>>
          /\ Head(cmd.queue) = "tail"
      BY <1>1, <1>3 DEF StartTail, CmdType
    <2>2. /\ cmd'.pc = "run" /\ cmd'.idx = cmd.idx /\ cmd'.by = cmd.by
          /\ cmd'.carried = cmd.carried /\ cmd'.passed = cmd.passed /\ cmd'.queue = q
      <3> HIDE DEF q
      <3> QED BY <1>1, <2>1 DEF CmdType
    <2>3. InQueue("tail") /\ cmd.pc = "queue"
      <3>1. 1 \in DOMAIN cmd.queue /\ cmd.queue[1] = "tail"
        BY <2>1, <2>2, QueueLeft
      <3> QED BY <2>1, <3>1 DEF InQueue, AtQueued
    <2>4. ~(cmd.idx > 1)
      BY <1>1, <2>3 DEF RollbackFits, WindowInv
    <2> QED BY <1>2, <2>1, <2>2, <2>4, WholeStill
  <1>4. CASE QueuedStep
    <2>1. PICK q \in Seq(Queued), id \in Queued :
            /\ AtQueued /\ cmd.pc = "queue" /\ setup' = setup
            /\ id = Head(cmd.queue) /\ id # "tail" /\ cmd'.queue = q
            /\ cmd'.pc = "queue" /\ cmd'.by = cmd.by
            /\ cmd'.carried = cmd.carried /\ cmd'.passed = cmd.passed
            /\ \/ ~Does(id) /\ q = Tail(cmd.queue) /\ UNCHANGED <<served, flags>>
               \/ \E good \in BOOLEAN :
                    /\ Does(id) /\ Attempt(id, cmd.num, good)
                    /\ q = IF good THEN Tail(cmd.queue) ELSE QueueAfterFailure(id)
      BY <1>4, QueuedStepIs
    <2>2. Symlink' = Symlink
      BY <2>1, PlanKept
    <2>3. ASSUME ~Symlink
          PROVE  WholeFits'
      <3>1. 1 \in DOMAIN cmd.queue /\ cmd.queue[1] = id /\ cmd.queue # <<>>
        <4>1. cmd.queue \in Seq(Queued) /\ Len(cmd.queue) \in Nat \ {0} /\ id = cmd.queue[1]
          BY <1>1, <2>1, QueueIs DEF CmdType
        <4> QED BY <2>1, <4>1 DEF AtQueued
      <3>2. id # "activate"
        BY <1>1, <2>3, <3>1 DEF InQueue, RollbackFits, WindowInv
      <3>3. served' = served /\ (id # "disable" => flags \subseteq flags')
        BY <2>1, <3>2, EffectIs
      <3>4. InQueue("tail") => id = "enable"
        BY <1>1, <2>1, <3>1 DEF RollbackFits, WindowInv
      <3>5. CASE ~InQueue("tail")
        <4>1. Unmixed
          BY <1>2, <2>1, <2>3, <3>1, <3>5
        <4>2. Unmixed'
          BY <3>3, <4>1, UnmixedStill
        <4> QED BY <1>2, <2>1, <2>2, <2>3, <4>2 DEF WholeFits
      <3>6. CASE InQueue("tail")
        <4>1. Docroot \in flags' \/ Unmixed'
          BY <1>2, <2>3, <3>3, <3>4, <3>6, UnmixedStill
        <4>2. q = <<>> \/ InQueue("tail")'
          <5>1. CASE q = Tail(cmd.queue)
            <6>1. PICK j \in DOMAIN cmd.queue : cmd.queue[j] = "tail"
              BY <3>6 DEF InQueue
            <6>2. /\ cmd.queue \in Seq(Queued) /\ j \in 1 .. Len(cmd.queue) /\ j # 1
                  /\ Len(q) = Len(cmd.queue) - 1 /\ Len(cmd.queue) \in Nat
                  /\ \A k \in 1 .. Len(q) : q[k] = cmd.queue[k + 1]
              BY <1>1, <2>1, <3>1, <5>1, <6>1, QueueIs DEF CmdType
            <6>3. j - 1 \in 1 .. Len(q) /\ (j - 1) + 1 = j
              BY <6>2
            <6>4. q[j - 1] = "tail" /\ j - 1 \in DOMAIN q
              BY <6>1, <6>2, <6>3
            <6> QED BY <2>1, <6>4 DEF InQueue
          <5>2. CASE q # Tail(cmd.queue)
            BY <2>1, <3>4, <3>6, <5>2 DEF QueueAfterFailure
          <5> QED BY <5>1, <5>2
        <4> QED BY <1>2, <2>1, <2>2, <2>3, <4>1, <4>2 DEF WholeFits
      <3> QED BY <3>5, <3>6
    <2> QED BY <2>2, <2>3 DEF WholeFits
  <1>5. CASE EndRollback
    <2>1. UNCHANGED <<setup, served, flags>> /\ cmd' = Idle
      BY <1>5 DEF EndRollback
    <2> QED BY <2>1, WholeStill
  <1> QED BY <1>3, <1>4, <1>5 DEF RollbackSteps

LEMMA WholeKept ==
  ASSUME TypeInv, Steady, WindowInv, WholeFits, Rollers \subseteq {"cli"}, [Next]_vars
  PROVE  WholeFits'
  <1>1. CASE Commands
    BY <1>1, WholeAfterStart
  <1>2. CASE RunSteps \/ RollbackSteps
    <2>1. cmd # Idle
      BY <1>2, IdleHasNoStep
    <2>2. CASE cmd.rollback
      BY <1>2, <2>1, <2>2, RunKeepsWhole, RunStaysWhole, QueueKeepsWhole
    <2>3. CASE ~cmd.rollback /\ RunStep
      BY <2>1, <2>3, DeployKeepsWhole
    <2>4. CASE ~cmd.rollback /\ ~RunStep
      <3>1. UNCHANGED <<setup, served, flags>>
        <4>1. UNCHANGED <<served, flags>>
          BY <2>1, <2>4, DeployChangesBy
        <4> QED BY <4>1, SetupKept
      <3>2. cmd' = Idle \/ ~cmd'.rollback
        <4>1. RunSteps
          BY <1>2, <2>1, <2>4, RollbackStepsAreOfOne
        <4> QED BY <2>1, <2>4, <4>1, DeployStays
      <3> QED BY <3>1, <3>2, WholeStill
    <2> QED BY <2>2, <2>3, <2>4
  <1>3. CASE Environment \/ UNCHANGED vars
    <2>1. UNCHANGED <<setup, cmd, served, flags>>
      BY <1>3 DEF Environment, Unlock, DatabaseMoves, OtherTakesTheLock,
                  OtherReleasesTheLock, vars
    <2>2. InQueue("tail")' = InQueue("tail")
      BY <2>1 DEF InQueue
    <2>3. cmd # Idle => cmd.num \in 0 .. MaxRelease
      BY CmdIs DEF CmdType
    <2> QED BY <2>1, <2>2, <2>3, WholeStill DEF WholeFits
  <1> QED BY <1>1, <1>2, <1>3 DEF Next

\* In a steady project that only the command line rolls back, a site that is
\* open serves one release, whatever failed or was killed on the way.
THEOREM OpenSiteServesOne ==
          Spec /\ Steady /\ Rollers \subseteq {"cli"} => []OpenSiteIsWhole
  <1> DEFINE Cli == Rollers \subseteq {"cli"}
  <1>1. Init => WholeFits
    <2> SUFFICES ASSUME Init
                 PROVE  WholeFits
      OBVIOUS
    <2>1. PICK first \in {0, 1} : served = AllOf(first) /\ cmd = Idle
      BY DEF Init
    <2>2. first \in 0 .. MaxRelease
      BY PublishWindowAssumption
    <2> QED BY <2>1, <2>2, UnmixedOf DEF WholeFits
  <1>2. TypeInv /\ Steady /\ WindowInv /\ WholeFits /\ Cli /\ [Next]_vars => WholeFits'
    BY WholeKept
  <1>3. TypeInv /\ Steady /\ WindowInv /\ WholeFits => OpenSiteIsWhole
    <2> SUFFICES ASSUME TypeInv, WindowInv, WholeFits, Serving, ~Down
                 PROVE  \A p, q \in Parts : served[p] = served[q]
      BY DEF OpenSiteIsWhole
    <2>1. CASE Symlink
      BY <2>1 DEF WindowInv, SiteFits
    <2>2. CASE ~Symlink
      <3>1. Docroot \notin flags
        BY <2>2 DEF Down, Site
      <3> QED BY <2>2, <3>1 DEF WholeFits, Unmixed, OneOf, Serving
    <2> QED BY <2>1, <2>2
  <1>4. Cli => Cli'
    OBVIOUS
  <1> QED BY <1>1, <1>2, <1>3, <1>4, WindowIsRecorded, PTL DEF Spec
=============================================================================
