---------------------------- MODULE StreamLemmas ----------------------------
(* Facts about the operators the stream is built from: least and greatest
   elements, subsequences, a page's horizon, and what each method of a
   subscription leaves behind. *)
EXTENDS Stream, WellFoundedInduction, FiniteSetTheorems, TLAPS

-----------------------------------------------------------------------------
(* Numbers and subsequences. *)

(* A nonempty set of naturals has its least element as Min (the lower of the
   merge's two heads, the horizon of a round). *)
LEMMA MinExists ==
  ASSUME NEW S, S \subseteq Nat, S # {}
  PROVE  Min(S) \in S /\ \A y \in S : Min(S) <= y
<1>1. IsWellFoundedOn(OpToRel(<, Nat), Nat)
  BY NatLessThanWellFounded
<1>2. PICK x \in S : \A y \in S : ~(<<y, x>> \in OpToRel(<, Nat))
  BY <1>1, WFMin
<1>3. ASSUME NEW y \in S PROVE x <= y
  <2>1. <<y, x>> \in Nat \X Nat /\ ~(<<y, x>> \in OpToRel(<, Nat))
    BY <1>2
  <2>2. ~(y < x)
    BY <2>1 DEF OpToRel
  <2> QED BY <2>2, x \in Nat, y \in Nat
<1> QED BY <1>3 DEF Min

(* A nonempty bounded set of naturals has its greatest element as Max (where
   a full page of history stops). *)
LEMMA MaxExists ==
  ASSUME NEW n \in Nat, NEW S, S \subseteq 0 .. n, S # {}
  PROVE  Max(S) \in S /\ \A y \in S : Max(S) >= y
<1> DEFINE T == {k \in Nat : n - k \in S}
<1>1. \A y \in S : n - y \in T
  OBVIOUS
<1>2. T \subseteq Nat /\ T # {}
  BY <1>1
<1>3. Min(T) \in T /\ \A y \in T : Min(T) <= y
  BY <1>2, MinExists
<1>4. \A y \in S : n - Min(T) >= y
  BY <1>1, <1>3
<1> QED BY <1>3, <1>4 DEF Max

(* Every set of naturals up to b has an increasing enumeration.  By
   contradiction at the least cardinality without one: enumerate all but the
   greatest element, and put that one last. *)
LEMMA Enumeration ==
  ASSUME NEW b \in Nat
  PROVE  \A n \in Nat : \A I \in SUBSET (0 .. b) :
           Cardinality(I) = n => \E g \in [1 .. n -> I] : Enumerates(g, n, I)
<1> DEFINE Bad == {n \in Nat : \E I \in SUBSET (0 .. b) :
                       /\ Cardinality(I) = n
                       /\ ~ \E g \in [1 .. n -> I] : Enumerates(g, n, I)}
<1>1. SUFFICES ASSUME Bad # {} PROVE FALSE
  OBVIOUS
<1>2. Min(Bad) \in Bad /\ \A m \in Bad : Min(Bad) <= m
  <2>1. Bad \subseteq Nat
    OBVIOUS
  <2> QED BY <1>1, <2>1, MinExists
<1> DEFINE n == Min(Bad)
<1>3. n \in Nat
  BY <1>2
<1>4. PICK I \in SUBSET (0 .. b) :
        Cardinality(I) = n /\ ~ \E g \in [1 .. n -> I] : Enumerates(g, n, I)
  BY <1>2
<1>5. IsFiniteSet(I)
  <2>1. 0 \in Int /\ b \in Int
    OBVIOUS
  <2>2. IsFiniteSet(0 .. b)
    BY <2>1, FS_Interval
  <2> QED BY <2>2, <1>4, FS_Subset
<1> HIDE DEF n
<1>6. CASE n = 0
  <2> DEFINE e == [k \in 1 .. 0 |-> 0]
  <2>1. I = {}
    BY <1>4, <1>5, <1>6, FS_EmptySet
  <2>2. e \in [1 .. n -> I] /\ Enumerates(e, n, I)
    BY <2>1, <1>6 DEF Enumerates
  <2> QED BY <2>2, <1>4
<1>7. CASE n > 0
  <2>1. I # {}
    BY <1>4, <1>5, <1>7, FS_EmptySet
  <2> DEFINE top == Max(I)
             J == I \ {top}
  <2>2. top \in I /\ \A y \in I : top >= y
    BY <2>1, MaxExists
  <2>3. Cardinality(J) = n - 1 /\ J \in SUBSET (0 .. b)
    BY <1>4, <1>5, <2>2, FS_RemoveElement
  <2>4. n - 1 \in Nat /\ n - 1 \notin Bad
    <3>1. \A k \in Bad : n <= k
      BY <1>2 DEF n
    <3>2. n - 1 \in Nat /\ ~(n <= n - 1)
      BY <1>3, <1>7
    <3> HIDE DEF Bad
    <3> QED BY <3>1, <3>2
  <2>5. PICK g \in [1 .. n - 1 -> J] : Enumerates(g, n - 1, J)
    BY <2>3, <2>4
  <2> DEFINE f == [k \in 1 .. n |-> IF k = n THEN top ELSE g[k]]
  <2>6. \A k \in 1 .. n : k # n => k \in 1 .. n - 1 /\ f[k] = g[k] /\ g[k] \in J
    BY <2>5, <1>3
  <2>7. f[n] = top
    BY <1>3, <1>7
  <2>8. f \in [1 .. n -> I]
    BY <2>6, <2>2, <1>3
  <2>9. ASSUME NEW j \in 1 .. n, NEW k \in 1 .. n, j < k PROVE f[j] < f[k]
    <3>1. j # n /\ f[j] = g[j] /\ g[j] \in J /\ j \in 1 .. n - 1
      BY <2>6, <2>9, <1>3
    <3>2. CASE k = n
      <4>1. g[j] \in I /\ g[j] # top /\ top \in I
        BY <3>1, <2>2
      <4>2. \A x \in I : x \in Nat
        BY I \in SUBSET (0 .. b)
      <4>3. top >= g[j]
        BY <4>1, <2>2
      <4>4. f[k] = top /\ f[j] = g[j]
        BY <3>1, <3>2, <2>7
      <4> HIDE DEF f, top, J
      <4>5. g[j] \in Nat /\ top \in Nat
        BY <4>1, <4>2
      <4>6. g[j] < top
        BY <4>1, <4>3, <4>5
      <4> QED BY <4>4, <4>6
    <3>3. CASE k # n
      <4>1. k \in 1 .. n - 1 /\ f[k] = g[k]
        BY <3>3, <2>6
      <4> QED BY <4>1, <3>1, <2>5, <2>9 DEF Enumerates
    <3> QED BY <3>2, <3>3
  <2>10. ASSUME NEW i \in I PROVE \E k \in 1 .. n : f[k] = i
    <3>1. CASE i = top
      BY <3>1, <2>7, <1>3, <1>7
    <3>2. CASE i # top
      <4>1. PICK k \in 1 .. n - 1 : g[k] = i
        BY <3>2, <2>5 DEF Enumerates
      <4>2. k \in 1 .. n /\ k # n
        BY <1>3
      <4> QED BY <4>1, <4>2, <2>6
    <3> QED BY <3>1, <3>2
  <2>11. Enumerates(f, n, I)
    BY <2>9, <2>10 DEF Enumerates
  <2> QED BY <2>8, <2>11, <1>4
<1> QED BY <1>3, <1>6, <1>7

(* A subsequence is no longer than its sequence, and holds the elements at
   the chosen positions and no other. *)
LEMMA SubsequenceProperties ==
  ASSUME NEW S, NEW s \in Seq(S), NEW I \in SUBSET (1 .. Len(s))
  PROVE  /\ Subsequence(s, I) \in Seq(S)
         /\ Len(Subsequence(s, I)) <= Len(s)
         /\ \A k \in 1 .. Len(Subsequence(s, I)) :
               \E i \in I : Subsequence(s, I)[k] = s[i]
         /\ \A i \in I : \E k \in 1 .. Len(Subsequence(s, I)) :
               Subsequence(s, I)[k] = s[i]
<1> DEFINE n == Cardinality(I)
<1>1. Len(s) \in Nat /\ I \in SUBSET (0 .. Len(s))
  OBVIOUS
<1>2. IsFiniteSet(I) /\ n \in Nat /\ n <= Len(s)
  <2>1. IsFiniteSet(1 .. Len(s)) /\ Cardinality(1 .. Len(s)) = Len(s)
    BY <1>1, FS_Interval
  <2>2. IsFiniteSet(I) /\ n <= Cardinality(1 .. Len(s))
    BY <2>1, FS_Subset
  <2> QED BY <2>1, <2>2, FS_CardinalityType
<1> DEFINE f == CHOOSE g \in [1 .. n -> I] : Enumerates(g, n, I)
<1>3. \E g \in [1 .. n -> I] : Enumerates(g, n, I)
  BY <1>1, <1>2, Enumeration
<1>4. f \in [1 .. n -> I] /\ Enumerates(f, n, I)
  BY <1>3
<1>5. Subsequence(s, I) = [k \in 1 .. n |-> s[f[k]]]
  BY DEF Subsequence
<1> HIDE DEF f, n
<1>6. \A k \in 1 .. n : f[k] \in I /\ s[f[k]] \in S
  <2>1. \A i \in 1 .. Len(s) : s[i] \in S
    OBVIOUS
  <2>2. \A k \in 1 .. n : f[k] \in I
    BY <1>4
  <2> QED BY <2>1, <2>2
<1>7. Subsequence(s, I) \in Seq(S) /\ Len(Subsequence(s, I)) = n
  BY <1>2, <1>5, <1>6
<1>8. \A k \in 1 .. n : Subsequence(s, I)[k] = s[f[k]]
  BY <1>5
<1>9. \A k \in 1 .. n : \E i \in I : Subsequence(s, I)[k] = s[i]
  BY <1>6, <1>8
<1>10. ASSUME NEW i \in I PROVE \E k \in 1 .. n : Subsequence(s, I)[k] = s[i]
  <2>1. PICK k \in 1 .. n : f[k] = i
    BY <1>4 DEF Enumerates
  <2> QED BY <2>1, <1>8
<1> QED BY <1>2, <1>7, <1>9, <1>10

-----------------------------------------------------------------------------
(* The page a replay reads. *)

(* Both reads return sequence numbers of the archive, whatever is visible. *)
LEMMA PagesInArchive ==
  ASSUME NEW archive \in Seq(Entries), NEW since \in Nat, NEW visible
  PROVE  /\ MessagesSince(archive, since, visible) \subseteq 1 .. Len(archive)
         /\ ReceiptsSince(archive, since, visible).batches
                \subseteq 1 .. Len(archive)
<1>1. \A c : After(archive, since, c, visible) \subseteq 1 .. Len(archive)
  BY DEF After
<1>2. MessagesSince(archive, since, visible) \subseteq 1 .. Len(archive)
  BY <1>1 DEF MessagesSince, First
<1> DEFINE all == After(archive, since, "ack", visible)
           touched == {n \in all : RowsBefore(archive, all, n) < Page}
           full == RowCount(archive, all) >= Page
           cut == full /\ Cardinality(touched) > 1
           kept == IF cut THEN touched \ {Max(touched)} ELSE touched
<1>3. ReceiptsSince(archive, since, visible).batches = kept
  BY DEF ReceiptsSince
<1>4. kept \subseteq all
  <2> HIDE DEF all, cut
  <2> QED OBVIOUS
<1> QED BY <1>1, <1>2, <1>3, <1>4

(* The horizon is a sequence number, never past the watermark nor past the
   last entry of a page that was cut, and never before the cursor. *)
LEMMA HorizonBounded ==
  ASSUME NEW n \in Nat, NEW mark \in Nat,
         NEW msgs, msgs \subseteq 1 .. n,
         NEW acks, acks.batches \subseteq 1 .. n
  PROVE  LET top == Horizon(mark, msgs, acks)
         IN /\ top \in Nat /\ top <= mark
            /\ Cardinality(msgs) = Page => top <= Max(msgs)
            /\ acks.truncated /\ acks.batches # {} => top <= Max(acks.batches)
            /\ \A since \in Nat :
                  (/\ since <= mark /\ msgs \subseteq since + 1 .. n
                   /\ acks.batches \subseteq since + 1 .. n) => since <= top
<1> DEFINE fromMessages == IF Cardinality(msgs) = Page THEN {Max(msgs)} ELSE {}
           fromReceipts == IF acks.truncated /\ acks.batches # {}
                           THEN {Max(acks.batches)} ELSE {}
           ends == {mark} \cup fromMessages \cup fromReceipts
<1>1. fromMessages \subseteq msgs /\ fromMessages \subseteq Nat
  <2>1. CASE Cardinality(msgs) = Page
    <3>1. msgs # {}
      BY <2>1, FS_EmptySet, PageAssumption
    <3>2. msgs \subseteq 0 .. n
      OBVIOUS
    <3>3. Max(msgs) \in msgs
      BY <3>1, <3>2, MaxExists
    <3>4. \A m \in msgs : m \in Nat
      BY <3>2
    <3>5. Max(msgs) \in Nat
      BY <3>3, <3>4
    <3> QED BY <3>3, <3>5
  <2> QED BY <2>1
<1>2. fromReceipts \subseteq acks.batches /\ fromReceipts \subseteq Nat
  <2>1. CASE acks.batches # {}
    <3>1. acks.batches \subseteq 0 .. n
      OBVIOUS
    <3>2. Max(acks.batches) \in acks.batches
      BY <2>1, <3>1, MaxExists
    <3> QED BY <3>1, <3>2
  <2> QED BY <2>1
<1>6. Cardinality(msgs) = Page => Max(msgs) \in ends
  OBVIOUS
<1>7. acks.truncated /\ acks.batches # {} => Max(acks.batches) \in ends
  OBVIOUS
<1> HIDE DEF fromMessages, fromReceipts
<1>3. ends \subseteq Nat /\ ends # {} /\ mark \in ends
  BY <1>1, <1>2
<1>4. Min(ends) \in ends /\ \A y \in ends : Min(ends) <= y
  <2> HIDE DEF ends
  <2> QED BY <1>3, MinExists
<1>5. Horizon(mark, msgs, acks) = Min(ends)
  BY DEF Horizon, fromMessages, fromReceipts
<1>8. ASSUME NEW since \in Nat, since <= mark, msgs \subseteq since + 1 .. n,
             acks.batches \subseteq since + 1 .. n
      PROVE  \A y \in ends : since <= y
  <2>1. \A y \in since + 1 .. n : since <= y
    OBVIOUS
  <2>2. ends \subseteq {mark} \cup msgs \cup acks.batches
    BY <1>1, <1>2
  <2> HIDE DEF ends
  <2> QED BY <1>8, <2>1, <2>2
<1> HIDE DEF ends
<1> QED BY <1>3, <1>4, <1>5, <1>6, <1>7, <1>8

(* Counting rows, one to an entry, counts entries. *)
LEMMA CountIds ==
  ASSUME NEW archive, NEW S, IsFiniteSet(S),
         \A m \in S : archive[m].ids = 1
  PROVE  RowCount(archive, S) = Cardinality(S)
<1> DEFINE Step(f, s) == IF s = {} THEN 0
                         ELSE archive[CHOOSE x \in s : TRUE].ids
                              + f[s \ {CHOOSE x \in s : TRUE}]
           fold == CHOOSE f : f = [s \in SUBSET S |-> Step(f, s)]
           g == [s \in SUBSET S |-> Cardinality(s)]
<1>1. ASSUME NEW s \in SUBSET S
      PROVE  /\ IsFiniteSet(s) /\ Cardinality(s) \in Nat
             /\ s = {} => Cardinality(s) = 0
             /\ s # {} => LET x == CHOOSE x \in s : TRUE
                          IN /\ x \in s /\ s \ {x} \in SUBSET S
                             /\ archive[x].ids = 1
                             /\ Cardinality(s \ {x}) = Cardinality(s) - 1
  <2>1. IsFiniteSet(s) /\ Cardinality(s) \in Nat
    BY FS_Subset, FS_CardinalityType
  <2>2. s = {} => Cardinality(s) = 0
    BY FS_EmptySet
  <2>3. ASSUME s # {} PROVE (CHOOSE x \in s : TRUE) \in s
    BY <2>3
  <2>4. \A x \in s : Cardinality(s \ {x}) = Cardinality(s) - 1
    BY <2>1, FS_RemoveElement
  <2> QED BY <2>1, <2>2, <2>3, <2>4
<1>2. g = [s \in SUBSET S |-> Step(g, s)]
  <2>1. ASSUME NEW s \in SUBSET S PROVE g[s] = Step(g, s)
    <3>1. CASE s = {}
      BY <3>1, <1>1
    <3>2. CASE s # {}
      <4> DEFINE x == CHOOSE x \in s : TRUE
      <4>1. /\ x \in s /\ s \ {x} \in SUBSET S /\ archive[x].ids = 1
            /\ Cardinality(s \ {x}) = Cardinality(s) - 1
            /\ Cardinality(s) \in Nat
        BY <1>1, <3>2
      <4>2. Step(g, s) = archive[x].ids + g[s \ {x}]
        BY <3>2
      <4>3. g[s \ {x}] = Cardinality(s) - 1 /\ g[s] = Cardinality(s)
        BY <4>1
      <4> HIDE DEF x, g
      <4> QED BY <4>1, <4>2, <4>3
    <3> QED BY <3>1, <3>2
  <2> QED BY <2>1
<1>3. fold = [s \in SUBSET S |-> Step(fold, s)]
  BY <1>2
<1>4. RowCount(archive, S) = fold[S]
  BY DEF RowCount, MapThenSumSet, MapThenFoldSet
<1> DEFINE Bad == {k \in Nat : \E s \in SUBSET S :
                       Cardinality(s) = k /\ fold[s] # k}
<1>5. Bad = {}
  <2>1. SUFFICES ASSUME Bad # {} PROVE FALSE
    OBVIOUS
  <2> DEFINE k == Min(Bad)
  <2>2. k \in Bad /\ \A j \in Bad : k <= j
    <3>1. Bad \subseteq Nat
      OBVIOUS
    <3> HIDE DEF Bad
    <3> QED BY <2>1, <3>1, MinExists
  <2> HIDE DEF k
  <2>3. PICK s \in SUBSET S : Cardinality(s) = k /\ fold[s] # k
    BY <2>2
  <2>4. fold[s] = Step(fold, s)
    <3> HIDE DEF Step, fold
    <3> QED BY <1>3
  <2> HIDE DEF fold
  <2>5. CASE s = {}
    BY <2>3, <2>4, <2>5, <1>1
  <2>6. CASE s # {}
    <3> DEFINE x == CHOOSE x \in s : TRUE
    <3>1. /\ x \in s /\ s \ {x} \in SUBSET S /\ archive[x].ids = 1
          /\ Cardinality(s \ {x}) = k - 1 /\ k \in Nat
          /\ Cardinality(s \ {x}) \in Nat
      BY <1>1, <2>6, <2>3
    <3>2. fold[s] = archive[x].ids + fold[s \ {x}]
      BY <2>4, <2>6
    <3> HIDE DEF x
    <3>3. k - 1 \notin Bad
      <4>1. k - 1 \in Nat /\ ~(k <= k - 1)
        BY <3>1
      <4> HIDE DEF Bad
      <4> QED BY <2>2, <4>1
    <3>4. fold[s \ {x}] = k - 1
      BY <3>1, <3>3
    <3> QED BY <3>1, <3>2, <3>4, <2>3
  <2> QED BY <2>5, <2>6
<1>6. Cardinality(S) \in Nat /\ S \in SUBSET S
  BY FS_CardinalityType
<1> HIDE DEF fold
<1> QED BY <1>4, <1>5, <1>6

(* The first k members of a bounded set are k in number, or all of them, and
   what is not among them lies past every one. *)
LEMMA FirstIsPrefix ==
  ASSUME NEW b \in Nat, NEW S \in SUBSET (1 .. b), NEW k \in Nat,
         NEW n \in S, n \notin First(S, k)
  PROVE  Cardinality(First(S, k)) = k /\ \A m \in First(S, k) : m < n
<1> DEFINE Below(x) == {m \in S : m < x}
           F == First(S, k)
<1>1. \A x \in S : x \in Nat
  OBVIOUS
<1>2. \A T \in SUBSET S : IsFiniteSet(T) /\ Cardinality(T) \in Nat
  <2>1. IsFiniteSet(1 .. b)
    BY FS_Interval
  <2> QED BY <2>1, FS_Subset, FS_CardinalityType
<1>3. \A T \in SUBSET S : \A R \in SUBSET T : Cardinality(R) <= Cardinality(T)
  BY <1>2, FS_Subset
<1>4. \A x \in S : x \in F <=> Cardinality(Below(x)) < k
  BY DEF First
<1>5. F \in SUBSET S
  BY DEF First
<1> HIDE DEF F
<1>6. ASSUME NEW m \in F PROVE m < n
  <2>1. m \in S /\ Cardinality(Below(m)) < k /\ ~(Cardinality(Below(n)) < k)
    BY <1>4, <1>5 DEF F
  <2>2. Below(m) \in SUBSET S /\ Below(n) \in SUBSET S
    OBVIOUS
  <2>3. ASSUME n <= m PROVE Cardinality(Below(n)) <= Cardinality(Below(m))
    <3>1. ASSUME NEW y \in S, y < n PROVE y < m
      <4>1. y \in Nat /\ n \in Nat /\ m \in Nat
        BY <1>1, <2>1
      <4> QED BY <4>1, <3>1, <2>3
    <3>2. Below(n) \in SUBSET Below(m)
      BY <3>1
    <3> QED BY <3>2, <2>2, <1>3
  <2>4. Cardinality(Below(m)) \in Nat /\ Cardinality(Below(n)) \in Nat
    BY <2>2, <1>2
  <2> HIDE DEF Below
  <2> QED BY <1>1, <2>1, <2>3, <2>4
<1>7. Cardinality(F) >= k
  <2> DEFINE x == Min(S \ F)
  <2>1. x \in S \ F /\ \A y \in S \ F : x <= y
    <3>1. S \ F \subseteq Nat /\ S \ F # {}
      BY <1>1 DEF F
    <3> QED BY <3>1, MinExists
  <2> HIDE DEF x
  <2>2. Below(x) \in SUBSET F
    <3>1. ASSUME NEW y \in S, y < x PROVE y \in F
      <4>1. y \in Nat /\ x \in Nat /\ ~(x <= y)
        BY <1>1, <2>1, <3>1
      <4> QED BY <4>1, <2>1
    <3> QED BY <3>1
  <2>3. Cardinality(Below(x)) <= Cardinality(F)
    BY <2>2, <1>3, <1>5
  <2>4. ~(Cardinality(Below(x)) < k)
    BY <2>1, <1>4
  <2>5. Cardinality(Below(x)) \in Nat /\ Cardinality(F) \in Nat
    BY <1>2, <1>5
  <2> HIDE DEF Below
  <2> QED BY <2>3, <2>4, <2>5
<1>8. Cardinality(F) <= k
  <2>1. CASE F = {}
    BY <2>1, FS_EmptySet
  <2>2. CASE F # {}
    <3> DEFINE x == Max(F)
    <3>1. x \in F /\ \A y \in F : x >= y
      <4>1. F \subseteq 0 .. b
        BY <1>5
      <4> QED BY <4>1, <2>2, MaxExists
    <3> HIDE DEF x
    <3>2. F \ {x} \in SUBSET Below(x)
      BY <1>1, <1>5, <3>1
    <3>3. /\ Cardinality(F \ {x}) = Cardinality(F) - 1
          /\ Cardinality(F) \in Nat
      BY <1>2, <1>5, <3>1, FS_RemoveElement
    <3>4. Below(x) \in SUBSET S
      OBVIOUS
    <3>5. /\ Cardinality(F \ {x}) <= Cardinality(Below(x))
          /\ Cardinality(Below(x)) \in Nat
      BY <3>2, <3>4, <1>2, <1>3
    <3>6. Cardinality(Below(x)) < k
      BY <3>1, <1>4, <1>5
    <3> HIDE DEF Below
    <3> QED BY <3>3, <3>5, <3>6
  <2> QED BY <2>1, <2>2
<1>9. Cardinality(F) \in Nat
  BY <1>2, <1>5
<1> QED BY <1>6, <1>7, <1>8, <1>9 DEF F

(* With one row to an acknowledgement, the read stops a batch where a LIMIT
   on batches would. *)
LEMMA TouchedIsFirst ==
  ASSUME NEW archive \in Seq(Entries), NEW S \in SUBSET (1 .. Len(archive))
  PROVE  /\ {n \in S : RowsBefore(archive, S, n) < Page} = First(S, Page)
         /\ RowCount(archive, S) = Cardinality(S)
<1>1. \A m \in S : archive[m].ids = 1
  <2>1. \A m \in S : archive[m] \in Entries
    OBVIOUS
  <2> QED BY <2>1 DEF Entries
<1>2. \A T \in SUBSET S : IsFiniteSet(T)
  <2>1. Len(archive) \in Nat
    OBVIOUS
  <2>2. IsFiniteSet(1 .. Len(archive))
    BY <2>1, FS_Interval
  <2> QED BY <2>2, FS_Subset
<1>3. ASSUME NEW T \in SUBSET S
      PROVE  RowCount(archive, T) = Cardinality(T)
  BY <1>1, <1>2, CountIds
<1>4. ASSUME NEW n \in S
      PROVE  RowsBefore(archive, S, n) = Cardinality({m \in S : m < n})
  <2> DEFINE T == {m \in S : m < n}
  <2>1. T \in SUBSET S
    OBVIOUS
  <2>2. RowsBefore(archive, S, n) = RowCount(archive, T)
    BY DEF RowsBefore
  <2> HIDE DEF T
  <2>3. RowsBefore(archive, S, n) = Cardinality(T)
    BY <2>1, <2>2, <1>3
  <2> QED BY <2>3 DEF T
<1>5. {n \in S : RowsBefore(archive, S, n) < Page} = First(S, Page)
  BY <1>4 DEF First
<1> QED BY <1>3, <1>5

(* A round of the replay leaves nothing behind: a visible entry past the
   cursor is on one of the two pages or past the horizon. *)
LEMMA PageCovers ==
  ASSUME NEW archive \in Seq(Entries), NEW since \in Nat, NEW mark \in Nat,
         since <= mark, NEW visible,
         NEW n \in since + 1 .. Len(archive),
         archive[n].cls \in {"msg", "ack"}, archive[n].dev \in visible
  PROVE  LET msgs == MessagesSince(archive, since, visible)
             acks == ReceiptsSince(archive, since, visible)
         IN n \in msgs \cup acks.batches \/ n > Horizon(mark, msgs, acks)
<1> DEFINE top   == Len(archive)
           all   == After(archive, since, "ack", visible)
           texts == After(archive, since, "msg", visible)
           msgs  == First(texts, Page)
           acks  == ReceiptsSince(archive, since, visible)
           touched == First(all, Page)
           cut == Cardinality(all) >= Page /\ Cardinality(touched) > 1
           kept == IF cut THEN touched \ {Max(touched)} ELSE touched
           end == Horizon(mark, msgs, acks)
<1>1. top \in Nat /\ n \in Nat /\ Page \in Nat /\ Page > 1
  BY PageAssumption, StreamAssumption
<1>2. all \in SUBSET (1 .. top) /\ texts \in SUBSET (1 .. top)
  BY DEF After
<1>3. n \in all \/ n \in texts
  BY DEF After
<1>4. acks.batches = kept /\ acks.truncated = cut
  <2>1. /\ {m \in all : RowsBefore(archive, all, m) < Page} = touched
        /\ RowCount(archive, all) = Cardinality(all)
    <3> HIDE DEF all
    <3> QED BY <1>2, TouchedIsFirst
  <2> HIDE DEF touched
  <2> QED BY <2>1 DEF ReceiptsSince
<1> HIDE DEF all, texts, acks
<1>5. msgs \subseteq 1 .. top /\ touched \subseteq 1 .. top
      /\ touched \subseteq all
  BY <1>2 DEF First
<1>6. acks.batches \subseteq 1 .. top
  BY <1>4, <1>5
<1>7. /\ end \in Nat
      /\ Cardinality(msgs) = Page => end <= Max(msgs)
      /\ acks.truncated /\ acks.batches # {} => end <= Max(acks.batches)
  <2> HIDE DEF msgs, top
  <2> QED BY <1>1, <1>5, <1>6, HorizonBounded
<1> HIDE DEF end
<1>8. ASSUME NEW T \in SUBSET (1 .. top), T # {}
      PROVE  Max(T) \in T /\ Max(T) \in Nat /\ \A y \in T : Max(T) >= y
  <2>1. T \subseteq 0 .. top
    OBVIOUS
  <2>2. Max(T) \in T /\ \A y \in T : Max(T) >= y
    BY <1>1, <1>8, <2>1, MaxExists
  <2>3. \A y \in 1 .. top : y \in Nat
    BY <1>1
  <2> HIDE DEF top
  <2> QED BY <2>2, <2>3
<1>9. \A T \in SUBSET (1 .. top) :
        /\ IsFiniteSet(T) /\ Cardinality(T) \in Nat
        /\ \A R \in SUBSET T : Cardinality(R) <= Cardinality(T)
        /\ Cardinality(T) > 0 => T # {}
  <2>1. IsFiniteSet(1 .. top)
    BY <1>1, FS_Interval
  <2> QED BY <2>1, FS_Subset, FS_CardinalityType, FS_EmptySet
<1>10. CASE n \in texts /\ n \notin msgs
  <2>1. Cardinality(msgs) = Page /\ \A m \in msgs : m < n
    BY <1>1, <1>2, <1>10, FirstIsPrefix
  <2> HIDE DEF msgs, top
  <2>2. msgs # {}
    BY <2>1, <1>1, <1>5, <1>9
  <2>3. Max(msgs) < n /\ Max(msgs) \in Nat
    BY <2>1, <2>2, <1>5, <1>8
  <2>4. end <= Max(msgs)
    BY <2>1, <1>7
  <2>5. n > end
    BY <2>3, <2>4, <1>1, <1>7
  <2> QED BY <2>5 DEF end, msgs, acks, MessagesSince, texts
<1>11. CASE n \in all /\ n \notin kept
  <2>1. cut /\ \A m \in kept : m < n
    <3>1. CASE n \notin touched
      <4>1. Cardinality(touched) = Page /\ \A m \in touched : m < n
        BY <1>1, <1>2, <1>11, <3>1, FirstIsPrefix
      <4> HIDE DEF touched, top
      <4>2. Cardinality(all) >= Page
        <5>1. Cardinality(touched) <= Cardinality(all)
          BY <1>2, <1>5, <1>9
        <5> QED BY <4>1, <5>1
      <4> QED BY <4>1, <4>2, <1>1
    <3>2. CASE n \in touched
      <4>1. cut /\ n = Max(touched)
        BY <1>11, <3>2
      <4> HIDE DEF touched, top, cut
      <4>2. \A m \in touched : m <= n /\ m \in Nat
        BY <4>1, <3>2, <1>5, <1>8
      <4> QED BY <4>1, <4>2, <1>1
    <3> QED BY <3>1, <3>2
  <2>2. kept # {} /\ kept \subseteq 1 .. top
    <3>1. Cardinality(touched) > 1 /\ kept = touched \ {Max(touched)}
      BY <2>1
    <3>2. IsFiniteSet(touched) /\ Cardinality(touched) \in Nat /\ touched # {}
      <4> HIDE DEF touched, top
      <4>1. Cardinality(touched) > 1
        BY <3>1
      <4>2. touched \in SUBSET (1 .. top)
        BY <1>5
      <4>3. IsFiniteSet(touched) /\ Cardinality(touched) \in Nat
        BY <4>2, <1>9
      <4>4. touched # {}
        BY <4>1, <4>3, FS_EmptySet
      <4> QED BY <4>3, <4>4
    <3>3. Max(touched) \in touched
      <4> HIDE DEF touched, top
      <4> QED BY <3>2, <1>5, <1>8
    <3> HIDE DEF touched, kept, top
    <3>4. Cardinality(kept) = Cardinality(touched) - 1
      BY <3>1, <3>2, <3>3, FS_RemoveElement
    <3>5. kept \subseteq 1 .. top
      BY <3>1, <1>5
    <3>6. kept # {}
      <4>1. Cardinality(kept) # 0
        BY <3>1, <3>2, <3>4
      <4> QED BY <4>1, FS_EmptySet
    <3> QED BY <3>5, <3>6
  <2> HIDE DEF kept, top, cut
  <2>3. Max(kept) < n /\ Max(kept) \in Nat
    BY <2>1, <2>2, <1>8
  <2>4. end <= Max(kept)
    BY <2>1, <2>2, <1>4, <1>7
  <2>5. n > end
    BY <2>3, <2>4, <1>1, <1>7
  <2> QED BY <2>5 DEF end, acks, MessagesSince, texts
<1> HIDE DEF kept
<1> QED BY <1>3, <1>4, <1>10, <1>11 DEF acks, MessagesSince, texts

(* What a page holds lies past the cursor. *)
LEMMA PagesPastCursor ==
  ASSUME NEW archive \in Seq(Entries), NEW since \in Nat, NEW visible
  PROVE  /\ MessagesSince(archive, since, visible)
               \subseteq since + 1 .. Len(archive)
         /\ ReceiptsSince(archive, since, visible).batches
                \subseteq since + 1 .. Len(archive)
<1> DEFINE all == After(archive, since, "ack", visible)
           touched == {n \in all : RowsBefore(archive, all, n) < Page}
           full == RowCount(archive, all) >= Page
           cut == full /\ Cardinality(touched) > 1
           kept == IF cut THEN touched \ {Max(touched)} ELSE touched
<1>1. \A c : After(archive, since, c, visible) \subseteq since + 1 .. Len(archive)
  BY DEF After
<1>2. MessagesSince(archive, since, visible) \subseteq since + 1 .. Len(archive)
  BY <1>1 DEF MessagesSince, First
<1>3. ReceiptsSince(archive, since, visible).batches = kept
  BY DEF ReceiptsSince
<1>4. kept \subseteq all
  <2> HIDE DEF all, cut
  <2> QED OBVIOUS
<1> QED BY <1>1, <1>2, <1>3, <1>4

-----------------------------------------------------------------------------
(* The methods of a subscription. *)

(* A subscription as the bus keeps it: the queue within its depth, and while
   history replays an empty queue and a buffer the queue can take. *)
Held(s) ==
    /\ s \in Subscriptions
    /\ Len(s.queue) <= Depth
    /\ s.replaying => s.queue = <<>> /\ Len(s.buffer) <= Depth

(* The buffer holds entries of an archive of n rows, and the lag mark names
   a dropped one. *)
Names(s, n) ==
    /\ \A k \in 1 .. Len(s.buffer) :
          ~s.buffer[k].eph /\ s.buffer[k].seq \in 1 .. n
    /\ s.lagged => s.laggedAt \in s.dropped \cap 1 .. n

(* What a method must not undo for a dropped event to be told. *)
KeepsTelling(s, t) ==
    /\ t.replaying = s.replaying /\ t.closed = s.closed
    /\ s.ended => t.ended
    /\ s.lagged => t.lagged
    /\ s.queue # <<>> => t.queue # <<>>
    /\ t.dropped # s.dropped => t.lagged /\ (t.replaying \/ t.queue # <<>>)

(* Bus.Subscribe leaves nothing behind and nothing to tell. *)
LEMMA NewSubscriptionHeld ==
  ASSUME NEW devices \in SUBSET Devices, NEW n \in Nat
  PROVE  Held(NewSubscription(devices)) /\ Names(NewSubscription(devices), n)
BY DepthAssumption DEF Held, Names, NewSubscription, Subscriptions, Events

(* dropLocked marks the lag at an entry it drops. *)
LEMMA DropLockedHeld ==
  ASSUME NEW s, Held(s), NEW n \in Nat, Names(s, n),
         NEW ev \in Events, ev.eph \/ ev.seq \in 1 .. n,
         s.replaying \/ s.queue # <<>>
  PROVE  /\ Held(DropLocked(s, ev)) /\ Names(DropLocked(s, ev), n)
         /\ KeepsTelling(s, DropLocked(s, ev))
BY DEF Held, Names, KeepsTelling, DropLocked, Subscriptions, Events

(* offer never overfills the queue or the buffer, and what it drops is an
   entry that will be told. *)
LEMMA OfferHeld ==
  ASSUME NEW s, Held(s), NEW n \in Nat, Names(s, n),
         NEW ev \in Events, ev.eph \/ ev.seq \in 1 .. n
  PROVE  /\ Held(Offer(s, ev)) /\ Names(Offer(s, ev), n)
         /\ KeepsTelling(s, Offer(s, ev))
<1>1. CASE ~Allows(s, ev.dev)
  BY <1>1 DEF Offer, KeepsTelling
<1>2. CASE Allows(s, ev.dev) /\ ~s.replaying
  <2>1. Offer(s, ev) = IF Len(s.queue) < Depth
                       THEN [s EXCEPT !.queue = Append(@, ev)]
                       ELSE DropLocked(s, ev)
    BY <1>2 DEF Offer, DeliverLocked, Allows
  <2>2. CASE Len(s.queue) < Depth
    <3> DEFINE q == Append(s.queue, ev)
               t == [s EXCEPT !.queue = q]
    <3>1. Offer(s, ev) = t
      BY <2>1, <2>2
    <3>2. q \in Seq(Events) /\ Len(q) <= Depth /\ q # <<>>
      BY <2>2, DepthAssumption DEF Held, Subscriptions
    <3> HIDE DEF q
    <3>3. Held(t)
      BY <3>2, <1>2 DEF Held, Subscriptions
    <3>4. Names(t, n)
      BY DEF Names, Held, Subscriptions
    <3>5. KeepsTelling(s, t)
      BY <3>2 DEF KeepsTelling, Held, Subscriptions
    <3> QED BY <3>1, <3>3, <3>4, <3>5
  <2>3. CASE ~(Len(s.queue) < Depth)
    <3>1. s.queue # <<>>
      BY <2>3, DepthAssumption DEF Held, Subscriptions
    <3> QED BY <3>1, <2>1, <2>3, DropLockedHeld
  <2> QED BY <2>2, <2>3
<1>3. CASE Allows(s, ev.dev) /\ s.replaying
  <2>1. CASE ev.eph
    BY <2>1, <1>3 DEF Offer, KeepsTelling
  <2>2. CASE ~ev.eph /\ Len(s.buffer) < Depth
    <3> DEFINE b == Append(s.buffer, ev)
               t == [s EXCEPT !.buffer = b]
    <3>1. Offer(s, ev) = t
      BY <2>2, <1>3 DEF Offer
    <3>2. s.buffer \in Seq(Events)
      BY DEF Held, Subscriptions
    <3>3. b \in Seq(Events) /\ Len(b) <= Depth
      BY <3>2, <2>2, DepthAssumption
    <3>4. \A k \in 1 .. Len(b) : ~b[k].eph /\ b[k].seq \in 1 .. n
      BY <3>2, <2>2 DEF Names
    <3> HIDE DEF b
    <3>5. Held(t)
      BY <3>3 DEF Held, Subscriptions
    <3>6. Names(t, n)
      BY <3>4 DEF Names, Held, Subscriptions
    <3>7. KeepsTelling(s, t)
      BY DEF KeepsTelling, Held, Subscriptions
    <3> QED BY <3>1, <3>5, <3>6, <3>7
  <2>3. CASE ~ev.eph /\ ~(Len(s.buffer) < Depth)
    <3>1. Offer(s, ev) = DropLocked(s, ev)
      BY <2>3, <1>3 DEF Offer
    <3> QED BY <3>1, <1>3, DropLockedHeld
  <2> QED BY <2>1, <2>2, <2>3
<1> QED BY <1>1, <1>2, <1>3

(* Narrowing the filter keeps the buffer's other events. *)
LEMMA BufferedOfHeld ==
  ASSUME NEW s, Held(s), NEW n \in Nat, Names(s, n), NEW devices,
         NEW left \in SUBSET Devices
  PROVE  LET t == [s EXCEPT !.filter = left, !.buffer = BufferedOf(s, devices)]
         IN Held(t) /\ Names(t, n) /\ KeepsTelling(s, t)
<1> DEFINE I == {k \in 1 .. Len(s.buffer) : s.buffer[k].dev \in devices}
           b == BufferedOf(s, devices)
<1>1. s.buffer \in Seq(Events) /\ I \in SUBSET (1 .. Len(s.buffer))
  BY DEF Held, Subscriptions
<1>2. b = Subsequence(s.buffer, I)
  BY DEF BufferedOf
<1>3. /\ b \in Seq(Events) /\ Len(b) <= Len(s.buffer)
      /\ \A k \in 1 .. Len(b) : \E i \in I : b[k] = s.buffer[i]
  <2> HIDE DEF I, b
  <2> QED BY <1>1, <1>2, SubsequenceProperties
<1> HIDE DEF b
<1>4. \A k \in 1 .. Len(b) : ~b[k].eph /\ b[k].seq \in 1 .. n
  BY <1>3 DEF Names
<1>5. Len(b) \in Nat /\ Len(s.buffer) \in Nat
  BY <1>1, <1>3
<1> DEFINE t == [s EXCEPT !.filter = left, !.buffer = b]
<1>6. Held(t)
  <2>1. s.replaying => Len(b) <= Depth
    BY <1>3, <1>5, DepthAssumption DEF Held
  <2> QED BY <1>3, <2>1 DEF Held, Subscriptions
<1>7. Names(t, n)
  BY <1>4 DEF Held, Subscriptions, Names
<1>8. KeepsTelling(s, t)
  BY DEF Held, Subscriptions, KeepsTelling
<1> QED BY <1>6, <1>7, <1>8 DEF b

(* A subscription that ends is left with an empty buffer. *)
LEMMA EndedHeld ==
  ASSUME NEW s, Held(s), NEW n \in Nat, Names(s, n)
  PROVE  LET t == [s EXCEPT !.ended = TRUE, !.buffer = <<>>]
         IN Held(t) /\ Names(t, n) /\ KeepsTelling(s, t)
<1> DEFINE e == <<>>
           t == [s EXCEPT !.ended = TRUE, !.buffer = e]
<1>1. e \in Seq(Events) /\ Len(e) = 0 /\ 0 <= Depth
  BY DepthAssumption
<1> HIDE DEF e
<1>2. Held(t)
  BY <1>1 DEF Held, Subscriptions
<1>3. Names(t, n)
  BY <1>1 DEF Names, Held, Subscriptions
<1>4. KeepsTelling(s, t)
  BY DEF KeepsTelling, Held, Subscriptions
<1> QED BY <1>2, <1>3, <1>4 DEF e

(* Dropping a number undoes no bound and strands no dropped event. *)
LEMMA DropHeld ==
  ASSUME NEW s, Held(s), NEW n \in Nat, Names(s, n), NEW d \in Devices
  PROVE  Held(Drop(s, d)) /\ Names(Drop(s, d), n) /\ KeepsTelling(s, Drop(s, d))
<1>1. CASE ~Allows(s, d)
  BY <1>1 DEF Drop, KeepsTelling
<1>2. CASE Allows(s, d) /\ s.filter = {d}
  BY <1>2, EndedHeld DEF Drop
<1>3. CASE Allows(s, d) /\ s.filter # {d}
  <2>1. s.filter \ {d} \in SUBSET Devices
    BY DEF Held, Subscriptions
  <2> QED BY <2>1, <1>3, BufferedOfHeld DEF Drop
<1> QED BY <1>1, <1>2, <1>3

(* So does dropping several. *)
LEMMA DropAllHeld ==
  ASSUME NEW s, Held(s), NEW n \in Nat, Names(s, n), NEW gone
  PROVE  /\ Held(DropAll(s, gone)) /\ Names(DropAll(s, gone), n)
         /\ KeepsTelling(s, DropAll(s, gone))
<1> DEFINE left == s.filter \ gone
<1>1. CASE ~Serving(s) \/ left = s.filter
  BY <1>1 DEF DropAll, KeepsTelling
<1>2. CASE Serving(s) /\ left # s.filter /\ left = {}
  BY <1>2, EndedHeld DEF DropAll
<1>3. CASE Serving(s) /\ left # s.filter /\ left # {}
  <2>1. left \in SUBSET Devices
    BY DEF Held, Subscriptions
  <2> QED BY <2>1, <1>3, BufferedOfHeld DEF DropAll
<1> QED BY <1>1, <1>2, <1>3

(* The handover: what the buffer held fits the empty queue, so nothing is
   dropped and no mark moves. *)
LEMMA EndReplayHeld ==
  ASSUME NEW s, Held(s), NEW n \in Nat, Names(s, n), NEW through
  PROVE  /\ Held(EndReplay(s, through)) /\ Names(EndReplay(s, through), n)
         /\ ~EndReplay(s, through).replaying
         /\ EndReplay(s, through).dropped = s.dropped
         /\ EndReplay(s, through).lagged = s.lagged
<1> DEFINE e == <<>>
           quiet == [s EXCEPT !.replaying = FALSE, !.buffer = e]
<1>1. e \in Seq(Events) /\ Len(e) = 0
  OBVIOUS
<1>2. ASSUME NEW q \in Seq(Events), Len(q) <= Depth
      PROVE  LET t == [quiet EXCEPT !.queue = q]
             IN /\ Held(t) /\ Names(t, n) /\ ~t.replaying
                /\ t.dropped = s.dropped /\ t.lagged = s.lagged
  <2> HIDE DEF e
  <2> DEFINE t == [quiet EXCEPT !.queue = q]
  <2>1. Held(t) /\ ~t.replaying
    BY <1>1, <1>2 DEF Held, Subscriptions
  <2>2. Names(t, n)
    BY <1>1 DEF Names, Held, Subscriptions
  <2>3. t.dropped = s.dropped /\ t.lagged = s.lagged
    BY DEF Held, Subscriptions
  <2> QED BY <2>1, <2>2, <2>3
<1>3. CASE ~s.replaying \/ ~Serving(s)
  <2>1. EndReplay(s, through) = quiet
    BY <1>3 DEF EndReplay
  <2>2. quiet = [quiet EXCEPT !.queue = s.queue]
    BY DEF Held, Subscriptions
  <2>3. s.queue \in Seq(Events) /\ Len(s.queue) <= Depth
    BY DEF Held, Subscriptions
  <2> HIDE DEF quiet
  <2> QED BY <2>1, <2>2, <2>3, <1>2
<1>4. CASE s.replaying /\ Serving(s)
  <2> DEFINE I == {k \in 1 .. Len(s.buffer) : /\ s.buffer[k].seq > through
                                              /\ s.buffer[k].dev \in s.filter}
             r == Released(s, through)
  <2>1. s.buffer \in Seq(Events) /\ I \in SUBSET (1 .. Len(s.buffer))
    BY DEF Held, Subscriptions
  <2>2. r = Subsequence(s.buffer, I)
    BY DEF Released
  <2>3. r \in Seq(Events) /\ Len(r) <= Len(s.buffer)
    <3> HIDE DEF I, r
    <3> QED BY <2>1, <2>2, SubsequenceProperties
  <2> HIDE DEF r
  <2>4. s.queue \o r = r /\ Len(r) <= Depth
    <3>1. s.queue = <<>> /\ Len(s.buffer) <= Depth
      BY <1>4 DEF Held
    <3>2. Len(r) \in Nat /\ Len(s.buffer) \in Nat /\ Depth \in Nat
      BY <2>1, <2>3, DepthAssumption
    <3>3. <<>> \o r = r
      BY <2>3
    <3> QED BY <3>1, <3>2, <3>3, <2>3
  <2>5. EndReplay(s, through) = [quiet EXCEPT !.queue = r]
    BY <1>4, <2>4 DEF EndReplay, r
  <2> HIDE DEF quiet
  <2> QED BY <2>3, <2>4, <2>5, <1>2
<1> QED BY <1>3, <1>4

(* Close, clearing the lag mark and taking the head of the queue keep what a
   subscription is. *)
LEMMA CloseHeld ==
  ASSUME NEW s, Held(s), NEW n \in Nat, Names(s, n)
  PROVE  Held(Close(s)) /\ Names(Close(s), n)
BY DEF Close, Held, Names, Subscriptions

(* Clearing the mark keeps the bounds, and leaves nothing to name. *)
LEMMA ClearLagHeld ==
  ASSUME NEW s, Held(s), NEW n \in Nat, Names(s, n)
  PROVE  Held(ClearLag(s)) /\ Names(ClearLag(s), n)
BY DEF ClearLag, Held, Names, Subscriptions

(* Taking an event from the queue keeps the bounds and the names. *)
LEMMA TakeHeld ==
  ASSUME NEW s, Held(s), NEW n \in Nat, Names(s, n), s.queue # <<>>
  PROVE  LET t == [s EXCEPT !.queue = Tail(@)]
         IN Head(s.queue) \in Events /\ Held(t) /\ Names(t, n)
<1> DEFINE q == Tail(s.queue)
           t == [s EXCEPT !.queue = q]
<1>1. s.queue \in Seq(Events) /\ Len(s.queue) <= Depth /\ ~s.replaying
  BY DEF Held, Subscriptions
<1>2. q \in Seq(Events) /\ Len(q) <= Depth /\ Head(s.queue) \in Events
  BY <1>1, DepthAssumption
<1> HIDE DEF q
<1>3. Held(t)
  BY <1>1, <1>2 DEF Held, Subscriptions
<1>4. Names(t, n)
  BY DEF Names, Held, Subscriptions
<1> QED BY <1>2, <1>3, <1>4 DEF q

-----------------------------------------------------------------------------
(* What a subscription holds. *)

(* Element e is in sequence q. *)
In(e, q) == \E k \in 1 .. Len(q) : q[k] = e

(* A send adds one element behind the others. *)
LEMMA AppendIn ==
  ASSUME NEW S, NEW q \in Seq(S), NEW x \in S
  PROVE  \A e : In(e, Append(q, x)) <=> In(e, q) \/ e = x
<1> DEFINE r == Append(q, x)
<1>1. /\ Len(r) = Len(q) + 1 /\ Len(q) \in Nat
      /\ r[Len(q) + 1] = x /\ \A k \in 1 .. Len(q) : r[k] = q[k]
  OBVIOUS
<1> HIDE DEF r
<1>2. ASSUME NEW e, In(e, r) PROVE In(e, q) \/ e = x
  <2>1. PICK k \in 1 .. Len(r) : r[k] = e
    BY <1>2 DEF In
  <2>2. k \in 1 .. Len(q) \/ k = Len(q) + 1
    BY <1>1
  <2> QED BY <1>1, <2>1, <2>2 DEF In
<1>3. ASSUME NEW e, In(e, q) PROVE In(e, r)
  <2>1. PICK k \in 1 .. Len(q) : q[k] = e
    BY <1>3 DEF In
  <2>2. k \in 1 .. Len(r)
    BY <1>1
  <2> QED BY <1>1, <2>1, <2>2 DEF In
<1>4. In(x, r)
  <2>1. Len(q) + 1 \in 1 .. Len(r)
    BY <1>1
  <2> QED BY <1>1, <2>1 DEF In
<1> QED BY <1>2, <1>3, <1>4 DEF r

(* A receive takes the first and leaves the others. *)
LEMMA TailIn ==
  ASSUME NEW S, NEW q \in Seq(S), q # <<>>
  PROVE  /\ In(Head(q), q) /\ Head(q) \in S
         /\ \A e : In(e, q) <=> In(e, Tail(q)) \/ e = Head(q)
<1> DEFINE r == Tail(q)
<1>1. /\ Len(r) = Len(q) - 1 /\ Len(q) \in Nat \ {0} /\ Head(q) = q[1]
      /\ \A k \in 1 .. Len(r) : r[k] = q[k + 1]
      /\ Head(q) \in S
  OBVIOUS
<1> HIDE DEF r
<1>2. ASSUME NEW e, In(e, q) PROVE In(e, r) \/ e = Head(q)
  <2>1. PICK k \in 1 .. Len(q) : q[k] = e
    BY <1>2 DEF In
  <2>2. CASE k = 1
    BY <1>1, <2>1, <2>2
  <2>3. CASE k # 1
    <3>1. k - 1 \in 1 .. Len(r) /\ (k - 1) + 1 = k
      BY <1>1, <2>3
    <3> QED BY <1>1, <2>1, <3>1 DEF In
  <2> QED BY <2>2, <2>3
<1>3. ASSUME NEW e, In(e, r) PROVE In(e, q)
  <2>1. PICK k \in 1 .. Len(r) : r[k] = e
    BY <1>3 DEF In
  <2>2. k + 1 \in 1 .. Len(q)
    BY <1>1
  <2> QED BY <1>1, <2>1, <2>2 DEF In
<1>4. In(Head(q), q)
  <2>1. 1 \in 1 .. Len(q)
    BY <1>1
  <2> QED BY <1>1, <2>1 DEF In
<1> QED BY <1>1, <1>2, <1>3, <1>4 DEF r

(* A subsequence holds what is at the chosen positions. *)
LEMMA SubsequenceIn ==
  ASSUME NEW S, NEW s \in Seq(S), NEW I \in SUBSET (1 .. Len(s))
  PROVE  \A e : In(e, Subsequence(s, I)) <=> \E i \in I : s[i] = e
<1> DEFINE r == Subsequence(s, I)
<1>1. /\ \A k \in 1 .. Len(r) : \E i \in I : r[k] = s[i]
      /\ \A i \in I : \E k \in 1 .. Len(r) : r[k] = s[i]
  BY SubsequenceProperties
<1> HIDE DEF r
<1>2. \A e : In(e, r) <=> \E i \in I : s[i] = e
  BY <1>1 DEF In
<1> QED BY <1>2 DEF r

(* Event e waits for the client in the bus. *)
Holds(s, e) == In(e, s.buffer) \/ In(e, s.queue)

(* What a method other than Offer may do: let go only of what the filter no
   longer has, take nothing in, and widen nothing. *)
Narrows(s, t) ==
    /\ t.filter \subseteq s.filter
    /\ Serving(t) => Serving(s)
    /\ t.replaying = s.replaying /\ t.dropped = s.dropped
    /\ \A e : Holds(t, e) => Holds(s, e)
    /\ Serving(t) => \A e : Holds(s, e) /\ e.dev \in t.filter => Holds(t, e)

(* offer takes in its event and no other, or drops it; nothing held is let
   go. *)
LEMMA OfferHolds ==
  ASSUME NEW s, Held(s), NEW ev \in Events
  PROVE  LET t == Offer(s, ev)
         IN /\ t.filter = s.filter /\ t.replaying = s.replaying
            /\ t.closed = s.closed /\ t.ended = s.ended
            /\ s.dropped \subseteq t.dropped
            /\ \A e : Holds(t, e) => Holds(s, e) \/ e = ev
            /\ \A e : Holds(s, e) => Holds(t, e)
            /\ Allows(s, ev.dev) /\ ~ev.eph
                 => Holds(t, ev) \/ ev.seq \in t.dropped
<1> DEFINE b == Append(s.buffer, ev)
           q == Append(s.queue, ev)
<1>1. /\ s.buffer \in Seq(Events) /\ s.queue \in Seq(Events)
      /\ s \in Subscriptions
  BY DEF Held, Subscriptions
<1>2. /\ \A e : In(e, b) <=> In(e, s.buffer) \/ e = ev
      /\ \A e : In(e, q) <=> In(e, s.queue) \/ e = ev
  BY <1>1, AppendIn
<1>3. \/ Offer(s, ev) = s /\ ~(Allows(s, ev.dev) /\ ~ev.eph)
      \/ Offer(s, ev) = [s EXCEPT !.buffer = b]
      \/ Offer(s, ev) = [s EXCEPT !.queue = q]
      \/ Offer(s, ev) = DropLocked(s, ev)
  BY DEF Offer, DeliverLocked, Allows
<1> HIDE DEF b, q
<1>4. CASE Offer(s, ev) = s /\ ~(Allows(s, ev.dev) /\ ~ev.eph)
  BY <1>4
<1>5. CASE Offer(s, ev) = [s EXCEPT !.buffer = b]
  BY <1>1, <1>2, <1>5 DEF Subscriptions, Holds
<1>6. CASE Offer(s, ev) = [s EXCEPT !.queue = q]
  BY <1>1, <1>2, <1>6 DEF Subscriptions, Holds
<1>7. CASE Offer(s, ev) = DropLocked(s, ev)
  BY <1>1, <1>7 DEF DropLocked, Subscriptions, Holds
<1> QED BY <1>3, <1>4, <1>5, <1>6, <1>7

(* The events of a set of devices stay in a buffer narrowed to them. *)
LEMMA BufferedOfNarrows ==
  ASSUME NEW s, Held(s), NEW devices, NEW left \in SUBSET s.filter,
         left \subseteq devices
  PROVE  Narrows(s, [s EXCEPT !.filter = left,
                              !.buffer = BufferedOf(s, devices)])
<1> DEFINE I == {k \in 1 .. Len(s.buffer) : s.buffer[k].dev \in devices}
           b == BufferedOf(s, devices)
           t == [s EXCEPT !.filter = left, !.buffer = b]
<1>1. s.buffer \in Seq(Events) /\ I \in SUBSET (1 .. Len(s.buffer))
  BY DEF Held, Subscriptions
<1>2. b = Subsequence(s.buffer, I)
  BY DEF BufferedOf
<1>3. \A e : In(e, b) <=> \E i \in I : s.buffer[i] = e
  <2> HIDE DEF I, b
  <2> QED BY <1>1, <1>2, SubsequenceIn
<1> HIDE DEF b
<1>4. \A e : In(e, b) => In(e, s.buffer)
  BY <1>3 DEF In
<1>5. \A e : In(e, s.buffer) /\ e.dev \in devices => In(e, b)
  BY <1>3 DEF In
<1>6. /\ t.filter = left /\ t.buffer = b /\ t.queue = s.queue
      /\ t.replaying = s.replaying /\ t.dropped = s.dropped
      /\ t.closed = s.closed /\ t.ended = s.ended
  BY DEF Held, Subscriptions
<1> HIDE DEF t
<1>7. Narrows(s, t)
  BY <1>4, <1>5, <1>6 DEF Narrows, Holds, Serving
<1> QED BY <1>7 DEF t, b

(* An ended subscription holds no more than it did. *)
LEMMA EndedNarrows ==
  ASSUME NEW s, Held(s)
  PROVE  Narrows(s, [s EXCEPT !.ended = TRUE, !.buffer = <<>>])
<1> DEFINE e == <<>>
           t == [s EXCEPT !.ended = TRUE, !.buffer = e]
<1>1. \A x : ~In(x, e)
  BY DEF In
<1> HIDE DEF e
<1>2. /\ t.filter = s.filter /\ t.buffer = e /\ t.queue = s.queue
      /\ t.replaying = s.replaying /\ t.dropped = s.dropped
      /\ t.ended = TRUE
  BY DEF Held, Subscriptions
<1> HIDE DEF t
<1>3. Narrows(s, t)
  BY <1>1, <1>2 DEF Narrows, Holds, Serving
<1> QED BY <1>3 DEF t, e

(* Dropping a number takes it and only it out. *)
LEMMA DropNarrows ==
  ASSUME NEW s, Held(s), NEW d
  PROVE  Narrows(s, Drop(s, d)) /\ ~Allows(Drop(s, d), d)
<1>0. s \in Subscriptions
  BY DEF Held
<1>1. CASE ~Allows(s, d)
  BY <1>1 DEF Drop, Narrows
<1>2. CASE Allows(s, d) /\ s.filter = {d}
  <2>1. Drop(s, d) = [s EXCEPT !.ended = TRUE, !.buffer = <<>>]
    BY <1>2 DEF Drop
  <2>2. ~Allows(Drop(s, d), d)
    BY <1>0, <2>1 DEF Allows, Serving, Subscriptions
  <2> QED BY <2>1, <2>2, EndedNarrows
<1>3. CASE Allows(s, d) /\ s.filter # {d}
  <2> DEFINE left == s.filter \ {d}
             rest == Devices \ {d}
  <2>1. Drop(s, d) = [s EXCEPT !.filter = left, !.buffer = BufferedOf(s, rest)]
    BY <1>3 DEF Drop
  <2>2. left \in SUBSET s.filter /\ left \subseteq rest
    BY <1>0 DEF Subscriptions
  <2>3. Drop(s, d).filter = left
    BY <1>0, <2>1 DEF Subscriptions
  <2>4. ~Allows(Drop(s, d), d)
    BY <2>3 DEF Allows
  <2> HIDE DEF left, rest
  <2>5. Narrows(s, [s EXCEPT !.filter = left, !.buffer = BufferedOf(s, rest)])
    BY <2>2, BufferedOfNarrows
  <2> QED BY <2>1, <2>4, <2>5
<1> QED BY <1>1, <1>2, <1>3

(* Dropping several takes out every one of them. *)
LEMMA DropAllNarrows ==
  ASSUME NEW s, Held(s), NEW gone
  PROVE  /\ Narrows(s, DropAll(s, gone))
         /\ \A d \in gone : ~Allows(DropAll(s, gone), d)
<1> DEFINE left == s.filter \ gone
           rest == Devices \ gone
<1>0. s \in Subscriptions
  BY DEF Held
<1>1. CASE ~Serving(s) \/ left = s.filter
  <2>1. DropAll(s, gone) = s
    BY <1>1 DEF DropAll
  <2> QED BY <1>1, <2>1 DEF Narrows, Allows
<1>2. CASE Serving(s) /\ left # s.filter /\ left = {}
  <2>1. DropAll(s, gone) = [s EXCEPT !.ended = TRUE, !.buffer = <<>>]
    BY <1>2 DEF DropAll
  <2>2. ~Serving(DropAll(s, gone))
    BY <1>0, <2>1 DEF Serving, Subscriptions
  <2> QED BY <2>1, <2>2, EndedNarrows DEF Allows
<1>3. CASE Serving(s) /\ left # s.filter /\ left # {}
  <2>1. DropAll(s, gone)
          = [s EXCEPT !.filter = left, !.buffer = BufferedOf(s, rest)]
    BY <1>3 DEF DropAll
  <2>2. left \in SUBSET s.filter /\ left \subseteq rest
    BY <1>0 DEF Subscriptions
  <2>3. DropAll(s, gone).filter = left
    BY <1>0, <2>1 DEF Subscriptions
  <2>4. \A d \in gone : ~Allows(DropAll(s, gone), d)
    BY <2>3 DEF Allows
  <2> HIDE DEF left, rest
  <2>5. Narrows(s, [s EXCEPT !.filter = left, !.buffer = BufferedOf(s, rest)])
    BY <2>2, BufferedOfNarrows
  <2> QED BY <2>1, <2>4, <2>5
<1> QED BY <1>1, <1>2, <1>3

(* The handover releases every event past what history covered, of the
   devices the filter still has. *)
LEMMA EndReplayHolds ==
  ASSUME NEW s, Held(s), NEW through
  PROVE  LET t == EndReplay(s, through)
         IN /\ t.filter = s.filter /\ t.closed = s.closed /\ t.ended = s.ended
            /\ \A e : Holds(t, e) => Holds(s, e)
            /\ s.replaying /\ Serving(s) =>
                 \A e : Holds(s, e) /\ e.seq > through /\ e.dev \in s.filter
                          => Holds(t, e)
<1> DEFINE none == <<>>
           quiet == [s EXCEPT !.replaying = FALSE, !.buffer = none]
           I == {k \in 1 .. Len(s.buffer) : /\ s.buffer[k].seq > through
                                            /\ s.buffer[k].dev \in s.filter}
           r == Released(s, through)
<1>1. /\ s \in Subscriptions
      /\ s.buffer \in Seq(Events) /\ I \in SUBSET (1 .. Len(s.buffer))
      /\ s.queue \in Seq(Events)
  BY DEF Held, Subscriptions
<1>2. r = Subsequence(s.buffer, I)
  BY DEF Released
<1>3. /\ r \in Seq(Events) /\ Len(r) <= Len(s.buffer)
      /\ \A e : In(e, r) <=> \E i \in I : s.buffer[i] = e
  <2> HIDE DEF I, r
  <2>1. \A e : In(e, r) <=> \E i \in I : s.buffer[i] = e
    BY <1>1, <1>2, SubsequenceIn
  <2>2. r \in Seq(Events) /\ Len(r) <= Len(s.buffer)
    BY <1>1, <1>2, SubsequenceProperties
  <2> QED BY <2>1, <2>2
<1>4. \A x : ~In(x, none)
  BY DEF In
<1>5. \A e : In(e, r) => In(e, s.buffer)
  BY <1>3 DEF In
<1>6. \A e : In(e, s.buffer) /\ e.seq > through /\ e.dev \in s.filter
               => In(e, r)
  BY <1>3 DEF In
<1>7. CASE ~s.replaying \/ ~Serving(s)
  <2>1. EndReplay(s, through) = quiet
    BY <1>7 DEF EndReplay
  <2> HIDE DEF none, r, I
  <2>2. /\ quiet.filter = s.filter /\ quiet.closed = s.closed
        /\ quiet.ended = s.ended /\ quiet.buffer = none
        /\ quiet.queue = s.queue
    BY <1>1 DEF Subscriptions
  <2> HIDE DEF quiet
  <2> QED BY <1>4, <1>7, <2>1, <2>2 DEF Holds
<1>8. CASE s.replaying /\ Serving(s)
  <2> HIDE DEF r, I
  <2>1. s.queue = <<>> /\ Len(s.buffer) <= Depth
    BY <1>8 DEF Held
  <2>2. <<>> \o r = r /\ Len(r) \in Nat /\ Len(s.buffer) \in Nat
    BY <1>1, <1>3
  <2>3. Len(r) <= Depth
    BY <1>3, <2>1, <2>2, DepthAssumption
  <2>4. EndReplay(s, through) = [quiet EXCEPT !.queue = r]
    BY <1>8, <2>1, <2>2, <2>3 DEF EndReplay, r
  <2> DEFINE t == [quiet EXCEPT !.queue = r]
  <2> HIDE DEF none
  <2>5. /\ t.filter = s.filter /\ t.closed = s.closed
        /\ t.ended = s.ended /\ t.buffer = none /\ t.queue = r
    BY <1>1 DEF Subscriptions
  <2> HIDE DEF t
  <2>6. \A e : ~In(e, s.queue)
    BY <2>1 DEF In
  <2> QED BY <1>4, <1>5, <1>6, <2>4, <2>5, <2>6 DEF Holds, t
<1> QED BY <1>7, <1>8
=============================================================================
