--------------------------- MODULE SequenceFacts ----------------------------
(***************************************************************************)
(* What appending, taking the head and removing a position do to the       *)
(* positions and to the elements of a queue, the least of some numbers,    *)
(* and what the folds of the community modules compute: induction over the *)
(* subsets of a finite set, or over the numbers up to n, is stated for a   *)
(* set, which a proof can name, and not for a predicate.                   *)
(***************************************************************************)
EXTENDS Integers, SequencesExt, SequenceTheorems, FiniteSetTheorems, WellFoundedInduction,
        TLAPS

\* The keys of the elements grow along the sequence.
Increasing(s, key) ==
    \A i, j \in 1..Len(s) : i < j => key[s[i]] < key[s[j]]

(* Removing position i of a sequence shortens it by one and moves the      *)
(* later elements one place up.                                            *)
LEMMA RemoveAtProperties ==
    ASSUME NEW S, NEW s \in Seq(S), NEW i \in 1..Len(s)
    PROVE  /\ RemoveAt(s, i) \in Seq(S)
           /\ Len(RemoveAt(s, i)) = Len(s) - 1
           /\ \A j \in 1..(Len(s) - 1) :
                  RemoveAt(s, i)[j] = IF j < i THEN s[j] ELSE s[j + 1]
<1> DEFINE front == SubSeq(s, 1, i - 1)
           back == SubSeq(s, i + 1, Len(s))
<1>1. /\ front \in Seq(S) /\ Len(front) = i - 1
      /\ \A j \in 1..(i - 1) : front[j] = s[j]
  BY SubSeqProperties
<1>2. /\ back \in Seq(S) /\ Len(back) = Len(s) - i
      /\ \A j \in 1..(Len(s) - i) : back[j] = s[i + j]
  BY SubSeqProperties
<1> HIDE DEF front, back
<1>3. /\ front \o back \in Seq(S)
      /\ Len(front \o back) = Len(s) - 1
  <2>1. front \in Seq(S) /\ back \in Seq(S)
    BY <1>1, <1>2
  <2>2. /\ front \o back \in Seq(S)
        /\ Len(front \o back) = Len(front) + Len(back)
    BY <2>1, ConcatProperties
  <2>3. Len(s) \in Nat
    BY LenProperties
  <2> QED
    BY <2>2, <2>3, <1>1, <1>2
<1>4. ASSUME NEW j \in 1..(Len(s) - 1)
      PROVE  (front \o back)[j] = IF j < i THEN s[j] ELSE s[j + 1]
  <2>1. (front \o back)[j] = IF j <= i - 1 THEN front[j] ELSE back[j - (i - 1)]
    BY <1>1, <1>2, ConcatProperties
  <2>2. CASE j < i
    BY <2>1, <2>2, <1>1
  <2>3. CASE ~(j < i)
    <3>1. j - (i - 1) \in 1..(Len(s) - i)
      BY <2>3
    <3>2. back[j - (i - 1)] = s[i + (j - (i - 1))]
      BY <3>1, <1>2
    <3> QED
      BY <2>1, <2>3, <3>2
  <2> QED
    BY <2>2, <2>3
<1> QED
  BY <1>3, <1>4 DEF RemoveAt, front, back

LEMMA ToSetMember ==
    ASSUME NEW S, NEW s \in Seq(S)
    PROVE  /\ ToSet(s) \subseteq S
           /\ \A x : x \in ToSet(s) <=> \E i \in 1..Len(s) : s[i] = x
           /\ s = <<>> => ToSet(s) = {}
           /\ s # <<>> => 1 \in 1..Len(s) /\ s[1] \in ToSet(s) /\ Head(s) = s[1]
<1>1. DOMAIN s = 1..Len(s) /\ Len(s) \in Nat
  BY LenProperties
<1>2. \A i \in 1..Len(s) : s[i] \in S
  BY ElementOfSeq
<1>3. s = <<>> => Len(s) = 0
  BY EmptySeq
<1>4. s # <<>> => Len(s) > 0 /\ Head(s) = s[1]
  BY HeadTailProperties, EmptySeq, LenProperties
<1> QED
  BY <1>1, <1>2, <1>3, <1>4 DEF ToSet

(* Appending adds one element, and keeps the keys growing if it is the     *)
(* greatest.                                                               *)
LEMMA AppendFacts ==
    ASSUME NEW S, NEW s \in Seq(S), NEW e \in S
    PROVE  /\ Append(s, e) \in Seq(S)
           /\ Append(s, e) # <<>>
           /\ ToSet(Append(s, e)) = ToSet(s) \cup {e}
           /\ \A key : /\ Increasing(s, key)
                       /\ \A x \in ToSet(s) : key[x] < key[e]
                       => Increasing(Append(s, e), key)
<1> DEFINE t == Append(s, e)
<1>1. /\ t \in Seq(S) /\ Len(t) = Len(s) + 1
      /\ \A i \in 1..Len(s) : t[i] = s[i]
      /\ t[Len(s) + 1] = e
  BY AppendProperties, LenProperties
<1>2. Len(s) \in Nat
  BY LenProperties
<1> HIDE DEF t
<1>3. t # <<>>
  BY <1>1, <1>2, EmptySeq
<1>4. \A x : x \in ToSet(t) <=> x \in ToSet(s) \cup {e}
  BY <1>1, <1>2, ToSetMember
<1>5. ASSUME NEW key, Increasing(s, key), \A x \in ToSet(s) : key[x] < key[e]
      PROVE  Increasing(t, key)
  BY <1>1, <1>2, <1>5, ToSetMember, SMTT(30) DEF Increasing
<1> QED
  BY <1>1, <1>3, <1>4, <1>5 DEF t

(* Removing a position takes one element away.                             *)
LEMMA RemoveAtFacts ==
    ASSUME NEW S, NEW s \in Seq(S), NEW key, \A x \in S : key[x] \in Nat,
           Increasing(s, key), NEW i \in 1..Len(s)
    PROVE  /\ RemoveAt(s, i) \in Seq(S)
           /\ ToSet(RemoveAt(s, i)) = ToSet(s) \ {s[i]}
           /\ Increasing(RemoveAt(s, i), key)
<1> DEFINE t == RemoveAt(s, i)
<1>1. /\ t \in Seq(S) /\ Len(t) = Len(s) - 1
      /\ \A j \in 1..(Len(s) - 1) : t[j] = IF j < i THEN s[j] ELSE s[j + 1]
  BY RemoveAtProperties
<1>2. Len(s) \in Nat /\ \A j \in 1..Len(s) : s[j] \in S
  BY LenProperties, ElementOfSeq
<1> HIDE DEF t
<1>3. Increasing(t, key)
  <2> SUFFICES ASSUME NEW j \in 1..Len(t), NEW k \in 1..Len(t), j < k
               PROVE  key[t[j]] < key[t[k]]
    BY DEF Increasing
  <2>1. PICK a \in 1..Len(s), b \in 1..Len(s) : a < b /\ t[j] = s[a] /\ t[k] = s[b]
    <3> DEFINE a == IF j < i THEN j ELSE j + 1
               b == IF k < i THEN k ELSE k + 1
    <3>1. a \in 1..Len(s) /\ b \in 1..Len(s) /\ a < b
      BY <1>1, <1>2
    <3>2. t[j] = s[a] /\ t[k] = s[b]
      BY <1>1, <1>2
    <3> QED
      BY <3>1, <3>2
  <2> QED
    BY <2>1 DEF Increasing
<1>4. ASSUME NEW j \in 1..Len(s), j # i PROVE s[j] # s[i]
  <2>1. key[s[j]] < key[s[i]] \/ key[s[i]] < key[s[j]]
    BY <1>2, <1>4 DEF Increasing
  <2>2. key[s[i]] \in Nat
    BY <1>2
  <2> QED
    BY <2>1, <2>2
<1>5. ASSUME NEW x, x \in ToSet(t) PROVE x \in ToSet(s) \ {s[i]}
  <2>1. PICK j \in 1..(Len(s) - 1) : t[j] = x
    BY <1>1, <1>5, ToSetMember
  <2>2. \E k \in 1..Len(s) : k # i /\ s[k] = x
    BY <1>1, <1>2, <2>1
  <2> QED
    BY <1>4, <2>2, ToSetMember
<1>6. ASSUME NEW x, x \in ToSet(s) \ {s[i]} PROVE x \in ToSet(t)
  <2>1. PICK k \in 1..Len(s) : s[k] = x /\ k # i
    BY <1>6, ToSetMember
  <2>2. CASE k < i
    BY <1>1, <1>2, <2>1, <2>2, ToSetMember, SMTT(30)
  <2>3. CASE k > i
    <3>1. k - 1 \in 1..(Len(s) - 1) /\ ~(k - 1 < i) /\ (k - 1) + 1 = k
      BY <1>2, <2>3
    <3>2. t[k - 1] = x
      BY <1>1, <2>1, <3>1
    <3>3. k - 1 \in 1..Len(t)
      BY <1>1, <3>1
    <3> QED
      BY <1>1, <3>2, <3>3, ToSetMember
  <2> QED
    BY <1>2, <2>1, <2>2, <2>3
<1> QED
  BY <1>1, <1>3, <1>5, <1>6 DEF t

(* Taking the head away leaves the elements with the greater keys.         *)
LEMMA TailFacts ==
    ASSUME NEW S, NEW s \in Seq(S), NEW key, \A x \in S : key[x] \in Nat,
           Increasing(s, key), s # <<>>
    PROVE  /\ Tail(s) \in Seq(S)
           /\ ToSet(Tail(s)) = ToSet(s) \ {Head(s)}
           /\ Increasing(Tail(s), key)
           /\ \A x \in ToSet(Tail(s)) : key[Head(s)] < key[x]
<1>1. /\ Len(s) \in Nat /\ Len(s) > 0 /\ Head(s) = s[1] /\ Tail(s) \in Seq(S)
      /\ Len(Tail(s)) = Len(s) - 1
      /\ \A j \in 1..(Len(s) - 1) : Tail(s)[j] = s[j + 1]
  BY HeadTailProperties, LenProperties, EmptySeq
<1> DEFINE t == Tail(s)
<1>1a. /\ t \in Seq(S) /\ Len(t) = Len(s) - 1
       /\ \A j \in 1..(Len(s) - 1) : t[j] = s[j + 1]
  BY <1>1
<1> HIDE DEF t
<1>2. \A j \in 1..Len(s) : s[j] \in S
  BY ElementOfSeq
<1>3. Increasing(t, key)
  <2> SUFFICES ASSUME NEW i \in 1..Len(t), NEW j \in 1..Len(t), i < j
               PROVE  key[t[i]] < key[t[j]]
    BY DEF Increasing
  <2>1. /\ i + 1 \in 1..Len(s) /\ j + 1 \in 1..Len(s) /\ i + 1 < j + 1
        /\ t[i] = s[i + 1] /\ t[j] = s[j + 1]
    BY <1>1, <1>1a
  <2> QED
    BY <2>1 DEF Increasing
<1>4. \A x \in ToSet(t) : x \in ToSet(s) /\ key[Head(s)] < key[x]
  <2> TAKE x \in ToSet(t)
  <2>1. PICK j \in 1..(Len(s) - 1) : t[j] = x
    BY <1>1, <1>1a, ToSetMember
  <2>2. j + 1 \in 1..Len(s) /\ s[j + 1] = x /\ 1 < j + 1 /\ 1 \in 1..Len(s)
    BY <1>1, <1>1a, <2>1
  <2>3. key[s[1]] < key[s[j + 1]]
    BY <2>2 DEF Increasing
  <2> QED
    BY <1>1, <1>1a, <2>2, <2>3, ToSetMember
<1>5. \A x \in ToSet(s) \ {Head(s)} : x \in ToSet(t)
  <2> TAKE x \in ToSet(s) \ {Head(s)}
  <2>1. x \in ToSet(s)
    OBVIOUS
  <2>1a. PICK k \in 1..Len(s) : s[k] = x
    BY <2>1, ToSetMember
  <2>2. k # 1
    BY <1>1, <1>1a, <2>1a
  <2>3. k - 1 \in 1..(Len(s) - 1) /\ (k - 1) + 1 = k
    BY <1>1, <1>1a, <2>2
  <2>4. t[k - 1] = x
    BY <1>1, <1>1a, <2>1a, <2>3
  <2>5. k - 1 \in 1..Len(t)
    BY <1>1, <1>1a, <2>3
  <2> QED
    BY <1>1, <1>1a, <2>4, <2>5, ToSetMember
<1>6. Head(s) \notin ToSet(t)
  BY <1>1, <1>1a, <1>2, <1>4
<1> QED
  BY <1>1a, <1>3, <1>4, <1>5, <1>6 DEF t

(* A set of numbers that is not empty has a least one.                     *)
LEMMA LeastIsOne ==
    ASSUME NEW S, S \subseteq Nat, S # {}
    PROVE  Min(S) \in S /\ \A y \in S : Min(S) <= y
<1>1. PICK x \in S : \A y \in S : ~(<<y, x>> \in OpToRel(<, Nat))
  BY NatLessThanWellFounded, WFMin
<1>2. \A y \in S : x <= y
  <2> SUFFICES ASSUME NEW y \in S
               PROVE  x <= y
    OBVIOUS
  <2>1. ~(y < x)
    BY <1>1 DEF OpToRel
  <2> QED
    BY <2>1
<1> QED
  BY <1>2 DEF Min

(* Some of the first n numbers have a greatest one.                        *)
LEMMA GreatestIsOne ==
    ASSUME NEW n \in Nat, NEW S, S \subseteq 1..n, S # {}
    PROVE  Max(S) \in S /\ \A y \in S : Max(S) >= y
<1> DEFINE M == {n - x : x \in S}
<1>1. \A x \in S : n - x \in Nat /\ x \in Int
  OBVIOUS
<1>2. M \subseteq Nat /\ M # {}
  BY <1>1
<1>3. PICK x \in S : Min(M) = n - x
  <2>1. Min(M) \in M
    <3> HIDE DEF M
    <3> QED
      BY <1>2, LeastIsOne
  <2> QED
    BY <2>1
<1>4. \A y \in S : Min(M) <= n - y
  <2>1. \A y \in S : n - y \in M
    OBVIOUS
  <2> HIDE DEF M
  <2> QED
    BY <1>2, <2>1, LeastIsOne
<1>5. \A y \in S : x >= y
  BY <1>1, <1>3, <1>4
<1> QED
  BY <1>5 DEF Max

-----------------------------------------------------------------------------
(* Induction over the subsets of a finite set, for a set Q of subsets.     *)
LEMMA SubsetInduction ==
    ASSUME NEW S, IsFiniteSet(S), NEW Q,
           \A s \in SUBSET S : (\A x \in s : s \ {x} \in Q) => s \in Q
    PROVE  SUBSET S \subseteq Q
<1> SUFFICES ASSUME NEW r \in SUBSET S, r \notin Q
             PROVE  FALSE
  OBVIOUS
<1> DEFINE N == {n \in Nat : \E s \in SUBSET S : s \notin Q /\ Cardinality(s) = n}
<1>1. \A s \in SUBSET S : IsFiniteSet(s) /\ Cardinality(s) \in Nat
  BY FS_Subset, FS_CardinalityType
<1>2. N \subseteq Nat /\ N # {}
  BY <1>1
<1>3. Min(N) \in N /\ \A y \in N : Min(N) <= y
  BY <1>2, LeastIsOne
<1>4. PICK s \in SUBSET S : s \notin Q /\ Cardinality(s) = Min(N)
  BY <1>3
<1>5. ASSUME NEW x \in s
      PROVE  s \ {x} \in Q
  <2>1. Cardinality(s \ {x}) = Cardinality(s) - 1 /\ s \ {x} \in SUBSET S
    BY <1>1, FS_RemoveElement
  <2>2. s \ {x} \notin Q => Cardinality(s \ {x}) \in N
    BY <1>1, <2>1
  <2>3. Cardinality(s) \in Nat /\ Cardinality(s \ {x}) \in Nat
    BY <1>1, <2>1
  <2> QED
    BY <1>3, <1>4, <2>1, <2>2, <2>3
<1> QED
  BY <1>4, <1>5

\* `it` is a fold over the subsets of S: of base, by h, of the element ch takes out.
IsFold(it, S, base, h, ch) ==
    it = [s \in SUBSET S |->
             IF s = {} THEN base ELSE h[<<ch[s], it[s \ {ch[s]}]>>]]

(* Two folds agree wherever both are defined.                              *)
LEMMA FoldsAgree ==
    ASSUME NEW S, IsFiniteSet(S), NEW A, NEW B, S \subseteq A, S \subseteq B,
           NEW base, NEW h, NEW ch, \A s \in SUBSET S : s # {} => ch[s] \in s,
           NEW it1, NEW it2, IsFold(it1, A, base, h, ch), IsFold(it2, B, base, h, ch)
    PROVE  \A s \in SUBSET S : it1[s] = it2[s]
<1> DEFINE Q == {s \in SUBSET S : it1[s] = it2[s]}
<1>1. ASSUME NEW s \in SUBSET S, \A x \in s : s \ {x} \in Q
      PROVE  s \in Q
  <2>1. /\ it1[s] = IF s = {} THEN base ELSE h[<<ch[s], it1[s \ {ch[s]}]>>]
        /\ it2[s] = IF s = {} THEN base ELSE h[<<ch[s], it2[s \ {ch[s]}]>>]
    BY DEF IsFold
  <2>2. s # {} => it1[s \ {ch[s]}] = it2[s \ {ch[s]}]
    BY <1>1
  <2> QED
    BY <2>1, <2>2
<1>2. SUBSET S \subseteq Q
  <2> HIDE DEF Q
  <2> QED
    BY <1>1, SubsetInduction
<1> QED
  BY <1>2

(* There is a fold, if the choice of an element is one.                    *)
LEMMA FoldExists ==
    ASSUME NEW S, IsFiniteSet(S), NEW Y, NEW base \in Y, NEW ch, NEW h,
           \A x \in S, y \in Y : h[<<x, y>>] \in Y,
           \A s \in SUBSET S : s # {} => ch[s] \in s
    PROVE  \E it \in [SUBSET S -> Y] : IsFold(it, S, base, h, ch)
<1> DEFINE Has(s, it) == it \in [SUBSET s -> Y] /\ IsFold(it, s, base, h, ch)
           Q == {s \in SUBSET S : \E it : Has(s, it)}
<1>1. ASSUME NEW s \in SUBSET S, \A x \in s : s \ {x} \in Q
      PROVE  \E it : Has(s, it)
  <2> DEFINE F == [x \in s |-> CHOOSE it : Has(s \ {x}, it)]
             V == [u \in (SUBSET s) \ {s} |-> F[CHOOSE x \in s : x \notin u][u]]
             it == [u \in SUBSET s |->
                       IF u # s THEN V[u]
                       ELSE IF s = {} THEN base ELSE h[<<ch[s], V[s \ {ch[s]}]>>]]
  <2>1. \A x \in s : Has(s \ {x}, F[x])
    BY <1>1
  <2> HIDE DEF F
  <2>2. ASSUME NEW u \in (SUBSET s) \ {s}, NEW x \in s, x \notin u
        PROVE  V[u] = F[x][u]
    <3> DEFINE y == CHOOSE z \in s : z \notin u
    <3>1. y \in s /\ y \notin u /\ V[u] = F[y][u]
      BY <2>2
    <3> HIDE DEF y, V
    <3>2. u \subseteq s \ {x} /\ u \subseteq s \ {y} /\ u \in SUBSET u /\ IsFiniteSet(u)
      BY <2>2, <3>1, FS_Subset
    <3>3. IsFold(F[x], s \ {x}, base, h, ch) /\ IsFold(F[y], s \ {y}, base, h, ch)
      BY <2>1, <3>1
    <3>4. \A w \in SUBSET u : w # {} => ch[w] \in w
      BY <3>2
    <3>5. \A w \in SUBSET u : F[x][w] = F[y][w]
      <4> DEFINE a == s \ {x}
                 b == s \ {y}
                 f == F[x]
                 g == F[y]
      <4>1. IsFold(f, a, base, h, ch) /\ IsFold(g, b, base, h, ch) /\ u \subseteq a /\ u \subseteq b
        BY <3>2, <3>3
      <4> HIDE DEF a, b, f, g
      <4>2. \A w \in SUBSET u : f[w] = g[w]
        BY <3>2, <3>4, <4>1, FoldsAgree
      <4> QED
        BY <4>2 DEF f, g
    <3> QED
      BY <3>1, <3>2, <3>5
  <2>3. ASSUME NEW u \in (SUBSET s) \ {s}
        PROVE  /\ V[u] \in Y
               /\ V[u] = IF u = {} THEN base ELSE h[<<ch[u], V[u \ {ch[u]}]>>]
    <3>1. PICK x \in s : x \notin u
      BY <2>3
    <3>2. V[u] = F[x][u] /\ (u # {} => V[u \ {ch[u]}] = F[x][u \ {ch[u]}])
      <4>1. u # {} => /\ u \ {ch[u]} \in (SUBSET s) \ {s} /\ x \notin u \ {ch[u]}
        BY <3>1
      <4> HIDE DEF V
      <4> QED
        BY <2>2, <3>1, <4>1
    <3>3. /\ F[x] \in [SUBSET (s \ {x}) -> Y]
          /\ F[x][u] = IF u = {} THEN base ELSE h[<<ch[u], F[x][u \ {ch[u]}]>>]
      <4>1. u \in SUBSET (s \ {x})
        BY <3>1
      <4>2. F[x] \in [SUBSET (s \ {x}) -> Y] /\ IsFold(F[x], s \ {x}, base, h, ch)
        BY <2>1
      <4>3. F[x][u] = IF u = {} THEN base ELSE h[<<ch[u], F[x][u \ {ch[u]}]>>]
        BY <4>1, <4>2 DEF IsFold
      <4> QED
        BY <4>2, <4>3
    <3> HIDE DEF V
    <3>4. u \in SUBSET (s \ {x})
      BY <3>1
    <3> QED
      BY <3>2, <3>3, <3>4
  <2>4. s # {} => s \ {ch[s]} \in (SUBSET s) \ {s} /\ ch[s] \in S
    OBVIOUS
  <2> HIDE DEF V
  <2>5. \A u \in SUBSET s : it[u] \in Y
    BY <2>3, <2>4
  <2>6. \A u \in SUBSET s : it[u] = IF u = {} THEN base ELSE h[<<ch[u], it[u \ {ch[u]}]>>]
    <3> SUFFICES ASSUME NEW u \in SUBSET s
                 PROVE  it[u] = IF u = {} THEN base ELSE h[<<ch[u], it[u \ {ch[u]}]>>]
      OBVIOUS
    <3>1. u # {} => /\ ch[u] \in u /\ u \ {ch[u]} \in SUBSET s /\ u \ {ch[u]} # s
                    /\ it[u \ {ch[u]}] = V[u \ {ch[u]}]
      OBVIOUS
    <3>2. CASE u # s
      BY <2>3, <3>1, <3>2
    <3>3. CASE u = s
      BY <3>1, <3>3
    <3> QED
      BY <3>2, <3>3
  <2>7. it = [u \in SUBSET s |-> it[u]]
    OBVIOUS
  <2> HIDE DEF it
  <2>8. it = [u \in SUBSET s |-> IF u = {} THEN base ELSE h[<<ch[u], it[u \ {ch[u]}]>>]]
    BY <2>6, <2>7
  <2>9. it \in [SUBSET s -> Y]
    BY <2>5, <2>7
  <2>10. Has(s, it)
    BY <2>8, <2>9 DEF IsFold
  <2> QED
    BY <2>10
<1> HIDE DEF Has
<1>2. \A s \in SUBSET S : (\A x \in s : s \ {x} \in Q) => s \in Q
  BY <1>1
<1>3. SUBSET S \subseteq Q
  <2> HIDE DEF Q
  <2> QED
    BY <1>2, SubsetInduction
<1>4. S \in Q
  BY <1>3
<1> QED
  BY <1>4 DEF Has

IsLeftFold(it, n, base, h) ==
    it = [s \in SUBSET (1..n) |->
             IF s = {} THEN base ELSE h[<<Max(s), it[s \ {Max(s)}]>>]]

(* FoldLeft over n elements is defined: it takes the last element out.     *)
LEMMA LeftFoldExists ==
    ASSUME NEW n \in Nat, NEW Y, NEW base \in Y, NEW h, \A x \in 1..n, y \in Y : h[<<x, y>>] \in Y
    PROVE  \E it \in [SUBSET (1..n) -> Y] : IsLeftFold(it, n, base, h)
<1> DEFINE S == 1..n
           ch == [s \in SUBSET S |-> Max(s)]
<1>1. IsFiniteSet(S)
  BY FS_Interval
<1>2. \A s \in SUBSET S : s # {} => ch[s] \in s
  BY GreatestIsOne
<1>3. \A s \in SUBSET S : ch[s] = Max(s)
  OBVIOUS
<1> HIDE DEF S, ch
<1>4. PICK it \in [SUBSET S -> Y] : IsFold(it, S, base, h, ch)
  <2>1. \A x \in S, y \in Y : h[<<x, y>>] \in Y
    BY DEF S
  <2> QED
    BY <1>1, <1>2, <2>1, FoldExists
<1>5. it = [s \in SUBSET S |-> IF s = {} THEN base ELSE h[<<Max(s), it[s \ {Max(s)}]>>]]
  BY <1>3, <1>4 DEF IsFold
<1> QED
  BY <1>5 DEF S, IsLeftFold

\* The fold SumFunctionOnSet is defined by.
Pick(s) == CHOOSE x \in s : TRUE
SumStep(f, it, D) ==
    [s \in SUBSET D |->
        IF s = {} THEN 0
        ELSE f[Pick(s)] + it[s \ {Pick(s)}]]
SumIter(f, D) == CHOOSE it : it = SumStep(f, it, D)

LEMMA SumIsIter ==
    ASSUME NEW f, NEW D
    PROVE  SumFunctionOnSet(f, D) = SumIter(f, D)[D]
  BY DEF SumFunctionOnSet, FoldFunctionOnSet, MapThenFoldSet, SumIter, SumStep, Pick

LEMMA PickIsOne == \A s : s # {} => Pick(s) \in s
  BY DEF Pick

LEMMA SumIterTyped ==
    ASSUME NEW S, IsFiniteSet(S), NEW f, \A x \in S : f[x] \in Int,
           NEW I, I = SumStep(f, I, S)
    PROVE  I \in [SUBSET S -> Int]
<1> DEFINE Q == {s \in SUBSET S : I[s] \in Int}
<1>1. ASSUME NEW s \in SUBSET S, \A x \in s : s \ {x} \in Q
      PROVE  s \in Q
  <2> DEFINE c == Pick(s)
  <2>1. I[s] = IF s = {} THEN 0 ELSE f[c] + I[s \ {c}]
    BY DEF SumStep
  <2>2. s # {} => c \in s
    BY PickIsOne
  <2> HIDE DEF c
  <2>3. s # {} => f[c] \in Int /\ I[s \ {c}] \in Int
    BY <1>1, <2>2
  <2> QED
    BY <2>1, <2>3
<1>2. SUBSET S \subseteq Q
  <2> HIDE DEF Q
  <2> QED
    BY <1>1, SubsetInduction
<1>3. I = [s \in SUBSET S |-> I[s]]
  BY DEF SumStep
<1> QED
  BY <1>2, <1>3

LEMMA SumIterFolds ==
    ASSUME NEW S, IsFiniteSet(S), NEW f, \A x \in S : f[x] \in Int,
           NEW ch, \A s \in SUBSET S : ch[s] = Pick(s),
           NEW h, \A x \in S, y \in Int : h[<<x, y>>] = f[x] + y
    PROVE  /\ SumIter(f, S) \in [SUBSET S -> Int]
           /\ IsFold(SumIter(f, S), S, 0, h, ch)
           /\ SumIter(f, S) = SumStep(f, SumIter(f, S), S)
<1> DEFINE I == SumIter(f, S)
<1>1. /\ \A s \in SUBSET S : s # {} => ch[s] \in s
      /\ \A x \in S, y \in Int : h[<<x, y>>] \in Int
      /\ 0 \in Int
  BY PickIsOne
<1>2. PICK it \in [SUBSET S -> Int] : IsFold(it, S, 0, h, ch)
  BY <1>1, FoldExists
<1>3. ASSUME NEW i \in [SUBSET S -> Int], NEW s \in SUBSET S
      PROVE  (IF s = {} THEN 0 ELSE h[<<ch[s], i[s \ {ch[s]}]>>])
                 = (IF s = {} THEN 0
                    ELSE f[Pick(s)] + i[s \ {Pick(s)}])
  BY <1>1
<1>4. it = SumStep(f, it, S)
  <2>1. it = [s \in SUBSET S |-> IF s = {} THEN 0 ELSE h[<<ch[s], it[s \ {ch[s]}]>>]]
    BY <1>2 DEF IsFold
  <2> QED
    BY <1>3, <2>1 DEF SumStep
<1>5. I = SumStep(f, I, S)
  BY <1>4 DEF SumIter
<1> HIDE DEF I
<1>6. I \in [SUBSET S -> Int]
  BY <1>5, SumIterTyped
<1>7. IsFold(I, S, 0, h, ch)
  BY <1>3, <1>5, <1>6 DEF IsFold, SumStep
<1> QED
  BY <1>5, <1>6, <1>7 DEF I

(* The sum of some integers is one of them and the sum of the others.      *)
LEMMA SumFolds ==
    ASSUME NEW S, IsFiniteSet(S), NEW f, \A x \in S : f[x] \in Int
    PROVE  /\ SumFunctionOnSet(f, S) \in Int
           /\ S = {} => SumFunctionOnSet(f, S) = 0
           /\ S # {} => \E x \in S : SumFunctionOnSet(f, S) = f[x] + SumFunctionOnSet(f, S \ {x})
<1> DEFINE ch == [s \in SUBSET S |-> Pick(s)]
           h == [p \in S \X Int |-> f[p[1]] + p[2]]
           c == Pick(S)
           D == S \ {c}
           I == SumIter(f, S)
           J == SumIter(f, D)
<1>1. /\ \A s \in SUBSET S : ch[s] = Pick(s)
      /\ \A x \in S, y \in Int : h[<<x, y>>] = f[x] + y
  OBVIOUS
<1>2. /\ \A s \in SUBSET D : ch[s] = Pick(s)
      /\ \A x \in D, y \in Int : h[<<x, y>>] = f[x] + y
      /\ \A x \in D : f[x] \in Int
  OBVIOUS
<1>3. \A s \in SUBSET D : s # {} => ch[s] \in s
  BY PickIsOne
<1>4. S # {} => c \in S
  BY PickIsOne
<1>5. IsFiniteSet(D) /\ D \subseteq S /\ D \in SUBSET D /\ S \in SUBSET S
  BY FS_RemoveElement
<1> HIDE DEF ch, h, c, D
<1> HIDE DEF I, J
<1>6. I \in [SUBSET S -> Int] /\ IsFold(I, S, 0, h, ch) /\ I = SumStep(f, I, S)
  <2>1. \A x \in S : f[x] \in Int
    OBVIOUS
  <2>2. IsFiniteSet(S)
    OBVIOUS
  <2>3. IsFold(I, S, 0, h, ch)
    BY <1>1, SumIterFolds DEF I
  <2>4. I = SumStep(f, I, S)
    BY <1>1, SumIterFolds, ZenonT(40) DEF I
  <2>5. I \in [SUBSET S -> Int]
    BY <2>4, SumIterTyped
  <2> QED
    BY <2>3, <2>4, <2>5
<1>7. IsFold(J, D, 0, h, ch)
  BY <1>2, <1>5, SumIterFolds DEF J
<1>8. SumFunctionOnSet(f, S) = I[S] /\ SumFunctionOnSet(f, D) = J[D]
  BY SumIsIter DEF I, J
<1>9. \A s \in SUBSET D : I[s] = J[s]
  BY <1>3, <1>5, <1>6, <1>7, FoldsAgree
<1>10. I[S] = IF S = {} THEN 0 ELSE f[c] + I[D]
  BY <1>5, <1>6 DEF SumStep, c, D
<1>11. I[D] = J[D]
  BY <1>5, <1>9
<1>12. SumFunctionOnSet(f, S) \in Int
  BY <1>5, <1>6, <1>8
<1>13. S = {} => SumFunctionOnSet(f, S) = 0
  BY <1>8, <1>10
<1>14. S # {} => SumFunctionOnSet(f, S) = f[c] + SumFunctionOnSet(f, D)
  BY <1>8, <1>10, <1>11
<1> QED
  BY <1>4, <1>12, <1>13, <1>14 DEF D

(* ... and it does not matter which of them.                               *)
LEMMA SumTakesOut ==
    ASSUME NEW S, IsFiniteSet(S), NEW f, \A x \in S : f[x] \in Int, NEW a \in S
    PROVE  SumFunctionOnSet(f, S) = f[a] + SumFunctionOnSet(f, S \ {a})
<1> DEFINE T(s) == SumFunctionOnSet(f, s)
           Q == {s \in SUBSET S : \A x \in s : T(s) = f[x] + T(s \ {x})}
<1>1. ASSUME NEW s \in SUBSET S
      PROVE  /\ T(s) \in Int /\ \A x \in s : f[x] \in Int
             /\ s # {} => \E c \in s : T(s) = f[c] + T(s \ {c})
  <2>1. IsFiniteSet(s) /\ \A x \in s : f[x] \in Int
    BY FS_Subset
  <2> QED
    BY <2>1, SumFolds
<1> HIDE DEF T
<1>2. ASSUME NEW s \in SUBSET S, \A x \in s : s \ {x} \in Q
      PROVE  s \in Q
  <2> SUFFICES ASSUME NEW x \in s
               PROVE  T(s) = f[x] + T(s \ {x})
    OBVIOUS
  <2>1. PICK c \in s : T(s) = f[c] + T(s \ {c})
    BY <1>1
  <2>2. CASE c = x
    BY <2>1, <2>2
  <2>3. CASE c # x
    <3>1. x \in s \ {c} /\ c \in s \ {x}
      BY <2>3
    <3>2. T(s \ {c}) = f[x] + T((s \ {c}) \ {x})
      BY <1>2, <3>1
    <3>3. T(s \ {x}) = f[c] + T((s \ {x}) \ {c})
      BY <1>2, <3>1
    <3>4. (s \ {c}) \ {x} = (s \ {x}) \ {c} /\ (s \ {x}) \ {c} \in SUBSET S
      OBVIOUS
    <3> DEFINE r == T((s \ {x}) \ {c})
    <3>5. r \in Int /\ f[x] \in Int /\ f[c] \in Int
      BY <1>1, <3>4
    <3>6. T(s) = f[c] + (f[x] + r) /\ T(s \ {x}) = f[c] + r
      BY <2>1, <3>2, <3>3, <3>4
    <3> HIDE DEF r
    <3> QED
      BY <3>5, <3>6
  <2> QED
    BY <2>2, <2>3
<1>3. SUBSET S \subseteq Q
  <2> HIDE DEF Q
  <2> QED
    BY <1>2, SubsetInduction
<1>4. S \in Q
  BY <1>3
<1> QED
  BY <1>4 DEF T

(* Functions that agree on a set have one sum over it.                     *)
LEMMA SumSame ==
    ASSUME NEW S, IsFiniteSet(S), NEW f, NEW g, \A x \in S : f[x] \in Int /\ g[x] = f[x]
    PROVE  SumFunctionOnSet(g, S) = SumFunctionOnSet(f, S)
<1> DEFINE Q == {s \in SUBSET S : SumFunctionOnSet(g, s) = SumFunctionOnSet(f, s)}
<1>1. ASSUME NEW s \in SUBSET S, \A x \in s : s \ {x} \in Q
      PROVE  s \in Q
  <2>1. IsFiniteSet(s) /\ (\A x \in s : f[x] \in Int) /\ (\A x \in s : g[x] \in Int)
    BY FS_Subset
  <2>2. CASE s = {}
    <3>1. SumFunctionOnSet(f, s) = 0
      BY <2>1, <2>2, SumFolds
    <3>2. SumFunctionOnSet(g, s) = 0
      BY <2>1, <2>2, SumFolds
    <3> QED
      BY <3>1, <3>2
  <2>3. ASSUME NEW c \in s
        PROVE  SumFunctionOnSet(g, s) = SumFunctionOnSet(f, s)
    <3>1. SumFunctionOnSet(f, s) = f[c] + SumFunctionOnSet(f, s \ {c})
      BY <2>1, SumTakesOut
    <3>2. SumFunctionOnSet(g, s) = g[c] + SumFunctionOnSet(g, s \ {c})
      BY <2>1, SumTakesOut
    <3>3. SumFunctionOnSet(g, s \ {c}) = SumFunctionOnSet(f, s \ {c}) /\ g[c] = f[c]
      BY <1>1
    <3> QED
      BY <3>1, <3>2, <3>3
  <2> QED
    BY <2>2, <2>3
<1>2. SUBSET S \subseteq Q
  <2> HIDE DEF Q
  <2> QED
    BY <1>1, SubsetInduction
<1> QED
  BY <1>2

(* Two values that change by opposite amounts leave the sum as it was.     *)
LEMMA SumMoves ==
    ASSUME NEW S, IsFiniteSet(S), NEW f, \A x \in S : f[x] \in Int,
           NEW g, \A x \in S : g[x] \in Int,
           NEW a \in S, NEW b \in S, a # b,
           \A x \in S \ {a, b} : g[x] = f[x], g[a] + g[b] = f[a] + f[b]
    PROVE  SumFunctionOnSet(g, S) = SumFunctionOnSet(f, S)
<1> DEFINE A == S \ {a}
           R == A \ {b}
<1>1. IsFiniteSet(A) /\ IsFiniteSet(R) /\ b \in A
  BY FS_RemoveElement
<1>2. \A x \in A : f[x] \in Int /\ g[x] \in Int
  OBVIOUS
<1>3. \A x \in R : f[x] \in Int /\ g[x] = f[x]
  OBVIOUS
<1>4. SumFunctionOnSet(f, S) = f[a] + SumFunctionOnSet(f, A)
  BY SumTakesOut
<1>5. SumFunctionOnSet(g, S) = g[a] + SumFunctionOnSet(g, A)
  BY SumTakesOut
<1> HIDE DEF A
<1>6. SumFunctionOnSet(f, A) = f[b] + SumFunctionOnSet(f, R)
  BY <1>1, <1>2, SumTakesOut
<1>7. SumFunctionOnSet(g, A) = g[b] + SumFunctionOnSet(g, R)
  BY <1>1, <1>2, SumTakesOut
<1> HIDE DEF R
<1>8. SumFunctionOnSet(g, R) = SumFunctionOnSet(f, R)
  BY <1>1, <1>3, SumSame
<1>9. SumFunctionOnSet(f, R) \in Int
  BY <1>1, <1>3, SumFolds
<1> QED
  BY <1>4, <1>5, <1>6, <1>7, <1>8, <1>9

(* A sum is a number, and the sum of two parts.                            *)
LEMMA SumTyped ==
    ASSUME NEW S, IsFiniteSet(S), NEW f, \A x \in S : f[x] \in Int
    PROVE  \A s \in SUBSET S : SumFunctionOnSet(f, s) \in Int /\ IsFiniteSet(s)
<1> TAKE s \in SUBSET S
<1>1. IsFiniteSet(s) /\ \A x \in s : f[x] \in Int
  BY FS_Subset
<1>2. SumFunctionOnSet(f, s) \in Int
  BY <1>1, SumFolds
<1> QED
  BY <1>1, <1>2

LEMMA SumNone ==
    ASSUME NEW f
    PROVE  SumFunctionOnSet(f, {}) = 0
<1>1. IsFiniteSet({}) /\ \A x \in {} : f[x] \in Int
  BY FS_EmptySet
<1> QED
  BY <1>1, SumFolds

LEMMA SumParts ==
    ASSUME NEW S, IsFiniteSet(S), NEW f, \A x \in S : f[x] \in Int,
           NEW A, NEW B, S = A \cup B, A \cap B = {}
    PROVE  SumFunctionOnSet(f, S) = SumFunctionOnSet(f, A) + SumFunctionOnSet(f, B)
<1> DEFINE T(s) == SumFunctionOnSet(f, s)
           Q == {s \in SUBSET A : T(s \cup B) = T(s) + T(B)}
<1>1. \A s \in SUBSET S : T(s) \in Int /\ IsFiniteSet(s)
  BY SumTyped
<1>2. ASSUME NEW s \in SUBSET S, NEW x \in s
      PROVE  T(s) = f[x] + T(s \ {x})
  <2>1. IsFiniteSet(s) /\ \A y \in s : f[y] \in Int
    BY <1>1
  <2> QED
    BY <2>1, SumTakesOut
<1>3. T({}) = 0
  BY SumNone
<1> HIDE DEF T
<1>4. ASSUME NEW s \in SUBSET A, \A x \in s : s \ {x} \in Q
      PROVE  s \in Q
  <2>1. CASE s = {}
    <3>1. {} \cup B = B /\ T(B) \in Int
      BY <1>1
    <3> QED
      BY <1>3, <2>1, <3>1
  <2>2. CASE s # {}
    <3>1. PICK x \in s : TRUE
      BY <2>2
    <3>2. T(s) = f[x] + T(s \ {x})
      BY <1>2, <3>1
    <3>3. T(s \cup B) = f[x] + T((s \cup B) \ {x})
      BY <1>2, <3>1
    <3>4. (s \cup B) \ {x} = (s \ {x}) \cup B
      BY <3>1
    <3>5. T((s \ {x}) \cup B) = T(s \ {x}) + T(B)
      BY <1>4, <3>1
    <3>6. f[x] \in Int /\ T(s \ {x}) \in Int /\ T(B) \in Int
      BY <1>1, <3>1
    <3>7. T(s \cup B) = f[x] + (T(s \ {x}) + T(B))
      BY <3>3, <3>4, <3>5
    <3> HIDE <3>3, <3>4, <3>5
    <3>8. T(s \cup B) = T(s) + T(B)
      BY <3>2, <3>6, <3>7
    <3> QED
      BY <3>8
  <2> QED
    BY <2>1, <2>2
<1>5. A \in Q
  <2>1. IsFiniteSet(A)
    BY <1>1
  <2>2. \A s \in SUBSET A : (\A x \in s : s \ {x} \in Q) => s \in Q
    BY <1>4
  <2> HIDE DEF Q
  <2>3. SUBSET A \subseteq Q
    BY <2>1, <2>2, SubsetInduction
  <2> QED
    BY <2>3
<1> QED
  BY <1>5 DEF T

\* The members that a grouping puts in group k.
Group(S, g, k) == {x \in S : g[x] = k}

(* The sums of the groups add up to the sum of what is in a group.         *)
LEMMA SumGroups ==
    ASSUME NEW S, IsFiniteSet(S), NEW f, \A x \in S : f[x] \in Int,
           NEW K, IsFiniteSet(K), NEW g, NEW h,
           \A k \in K : h[k] = SumFunctionOnSet(f, Group(S, g, k))
    PROVE  SumFunctionOnSet(h, K) = SumFunctionOnSet(f, {x \in S : g[x] \in K})
<1> DEFINE T(s) == SumFunctionOnSet(f, s)
           H(s) == SumFunctionOnSet(h, s)
           In(J) == {x \in S : g[x] \in J}
           Q == {J \in SUBSET K : H(J) = T(In(J))}
<1>1. \A s \in SUBSET S : T(s) \in Int /\ IsFiniteSet(s)
  BY SumTyped
<1>2. \A k \in K : h[k] \in Int
  BY <1>1 DEF Group
<1>3. ASSUME NEW J \in SUBSET K, NEW k \in J
      PROVE  H(J) = h[k] + H(J \ {k})
  <2>1. IsFiniteSet(J) /\ \A y \in J : h[y] \in Int
    BY <1>2, FS_Subset
  <2> QED
    BY <2>1, SumTakesOut
<1>4. ASSUME NEW J \in SUBSET K, NEW k \in J
      PROVE  T(In(J)) = h[k] + T(In(J \ {k}))
  <2> DEFINE U == In(J)
             A == Group(S, g, k)
             B == In(J \ {k})
  <2>1. U = A \cup B /\ A \cap B = {}
    BY DEF Group
  <2>2. IsFiniteSet(U) /\ \A x \in U : f[x] \in Int
    BY <1>1
  <2>3. h[k] = T(A)
    OBVIOUS
  <2> HIDE DEF U, A, B
  <2>4. SumFunctionOnSet(f, U) = SumFunctionOnSet(f, A) + SumFunctionOnSet(f, B)
    BY <2>1, <2>2, SumParts
  <2> QED
    BY <2>3, <2>4 DEF U, B
<1>5. T(In({})) = 0 /\ H({}) = 0
  <2>1. In({}) = {}
    OBVIOUS
  <2> QED
    BY <2>1, SumNone
<1> HIDE DEF T, H, In
<1>6. ASSUME NEW J \in SUBSET K, \A k \in J : J \ {k} \in Q
      PROVE  J \in Q
  <2>1. CASE J = {}
    BY <1>5, <2>1
  <2>2. CASE J # {}
    <3>1. PICK k \in J : TRUE
      BY <2>2
    <3>2. H(J \ {k}) = T(In(J \ {k}))
      BY <1>6, <3>1
    <3> QED
      BY <1>3, <1>4, <3>1, <3>2
  <2> QED
    BY <2>1, <2>2
<1>7. K \in Q
  <2>1. \A J \in SUBSET K : (\A k \in J : J \ {k} \in Q) => J \in Q
    BY <1>6
  <2> HIDE DEF Q
  <2>2. SUBSET K \subseteq Q
    BY <2>1, SubsetInduction
  <2> QED
    BY <2>2
<1> QED
  BY <1>7 DEF T, H, In

(* A sum of debts is the debt of the sum.                                  *)
LEMMA SumNegates ==
    ASSUME NEW S, IsFiniteSet(S), NEW f, NEW g, \A x \in S : f[x] \in Int /\ g[x] = -f[x]
    PROVE  SumFunctionOnSet(g, S) = -SumFunctionOnSet(f, S)
<1> DEFINE F(s) == SumFunctionOnSet(f, s)
           G(s) == SumFunctionOnSet(g, s)
           Q == {s \in SUBSET S : G(s) = -F(s)}
<1>1. \A x \in S : g[x] \in Int
  OBVIOUS
<1>2. \A s \in SUBSET S : F(s) \in Int /\ IsFiniteSet(s)
  BY SumTyped
<1>3. ASSUME NEW s \in SUBSET S, NEW x \in s
      PROVE  F(s) = f[x] + F(s \ {x}) /\ G(s) = g[x] + G(s \ {x})
  <2>1. IsFiniteSet(s) /\ (\A y \in s : f[y] \in Int) /\ (\A y \in s : g[y] \in Int)
    BY <1>1, <1>2
  <2>2. F(s) = f[x] + F(s \ {x})
    BY <2>1, SumTakesOut
  <2>3. G(s) = g[x] + G(s \ {x})
    BY <2>1, SumTakesOut
  <2> QED
    BY <2>2, <2>3
<1>4. F({}) = 0 /\ G({}) = 0
  BY SumNone
<1> HIDE DEF F, G
<1>5. ASSUME NEW s \in SUBSET S, \A x \in s : s \ {x} \in Q
      PROVE  s \in Q
  <2>1. CASE s = {}
    BY <1>4, <2>1
  <2>2. CASE s # {}
    <3>1. PICK x \in s : TRUE
      BY <2>2
    <3>2. G(s \ {x}) = -F(s \ {x}) /\ F(s \ {x}) \in Int /\ f[x] \in Int /\ g[x] = -f[x]
      BY <1>2, <1>5, <3>1
    <3>3. F(s) = f[x] + F(s \ {x}) /\ G(s) = g[x] + G(s \ {x})
      BY <1>3, <3>1
    <3>4. G(s) = -F(s)
      BY <3>2, <3>3
    <3> QED
      BY <3>4
  <2> QED
    BY <2>1, <2>2
<1>6. S \in Q
  <2>1. \A s \in SUBSET S : (\A x \in s : s \ {x} \in Q) => s \in Q
    BY <1>5
  <2> HIDE DEF Q
  <2>2. SUBSET S \subseteq Q
    BY <2>1, SubsetInduction
  <2> QED
    BY <2>2
<1> QED
  BY <1>6 DEF F, G

\* The number of members before each: every position is that of one of them.
Position(S, num) == [r \in S |-> Cardinality({s \in S : num[s] < num[r]})]

LEMMA FewerMembers ==
    ASSUME NEW T, IsFiniteSet(T), NEW S \in SUBSET T, NEW x \in T, x \notin S
    PROVE  /\ Cardinality(S) \in Nat /\ Cardinality(T) \in Nat
           /\ Cardinality(S) < Cardinality(T)
<1>1. /\ IsFiniteSet(S) /\ Cardinality(S) <= Cardinality(T)
      /\ Cardinality(S) = Cardinality(T) => S = T
  BY FS_Subset
<1>2. Cardinality(S) \in Nat /\ Cardinality(T) \in Nat
  BY <1>1, FS_CardinalityType
<1> QED
  BY <1>1, <1>2

LEMMA PositionIs ==
    ASSUME NEW S, IsFiniteSet(S), NEW num \in [S -> Int],
           \A r, s \in S : num[r] = num[s] => r = s
    PROVE  /\ Cardinality(S) \in Nat
           /\ \A r \in S : Position(S, num)[r] \in 0..(Cardinality(S) - 1)
           /\ \A r, s \in S : Position(S, num)[r] = Position(S, num)[s] => r = s
           /\ \A i \in 0..(Cardinality(S) - 1) : \E r \in S : Position(S, num)[r] = i
<1> DEFINE n == Cardinality(S)
           At(r) == {s \in S : num[s] < num[r]}
           pos == Position(S, num)
<1>1. n \in Nat
  BY FS_CardinalityType
<1>2. \A r \in S : pos[r] = Cardinality(At(r))
  BY DEF Position
<1>3. ASSUME NEW r \in S
      PROVE  pos[r] \in 0..(n - 1)
  <2>1. At(r) \in SUBSET S /\ r \notin At(r)
    OBVIOUS
  <2> HIDE DEF At, pos, n
  <2>2. Cardinality(At(r)) \in Nat /\ Cardinality(At(r)) < n
    BY <2>1, FewerMembers DEF n
  <2> QED
    BY <1>1, <1>2, <2>2
<1>4. ASSUME NEW r \in S, NEW s \in S, num[r] < num[s]
      PROVE  pos[r] # pos[s]
  <2>1. At(r) \in SUBSET At(s) /\ r \in At(s) /\ r \notin At(r)
    BY <1>4
  <2>2. IsFiniteSet(At(s))
    BY FS_Subset
  <2> HIDE DEF At, pos
  <2>3. /\ Cardinality(At(r)) \in Nat /\ Cardinality(At(s)) \in Nat
        /\ Cardinality(At(r)) < Cardinality(At(s))
    BY <2>1, <2>2, FewerMembers
  <2> QED
    BY <1>2, <2>3
<1>5. \A r, s \in S : pos[r] = pos[s] => r = s
  <2> SUFFICES ASSUME NEW r \in S, NEW s \in S, pos[r] = pos[s]
               PROVE  r = s
    OBVIOUS
  <2>1. ~(num[r] < num[s]) /\ ~(num[s] < num[r])
    BY <1>4
  <2>2. num[r] = num[s]
    BY <2>1
  <2> QED
    BY <2>2
<1>6. DOMAIN pos = S /\ pos = [r \in S |-> pos[r]]
  BY DEF Position
<1> HIDE DEF pos, n
<1>7. pos \in Injection(S, 0..(n - 1))
  BY <1>3, <1>5, <1>6 DEF Injection, IsInjective
<1>8. IsFiniteSet(0..(n - 1)) /\ Cardinality(0..(n - 1)) = n
  BY <1>1, FS_Interval
<1>9. pos \in Surjection(S, 0..(n - 1))
  BY <1>7, <1>8, FS_Injection DEF n
<1>10. \A i \in 0..(n - 1) : \E r \in S : pos[r] = i
  BY <1>9 DEF Surjection
<1> QED
  BY <1>1, <1>3, <1>5, <1>10 DEF pos, n

(* What holds at 0 and is handed on by each number up to n holds up to n.  *)
LEMMA UpToInduction ==
    ASSUME NEW n \in Nat, NEW Q, 0 \in Q, \A i \in 1..n : i - 1 \in Q => i \in Q
    PROVE  \A i \in 0..n : i \in Q
<1> DEFINE Bad == {i \in 0..n : i \notin Q}
<1>1. SUFFICES Bad = {}
  OBVIOUS
<1>2. SUFFICES ASSUME Bad # {}
               PROVE  FALSE
  OBVIOUS
<1>3. Bad \subseteq Nat
  OBVIOUS
<1>4. Min(Bad) \in Bad /\ \A y \in Bad : Min(Bad) <= y
  <2> HIDE DEF Bad
  <2> QED
    BY <1>2, <1>3, LeastIsOne
<1>5. PICK m \in 0..n : m \notin Q /\ \A y \in Bad : m <= y
  BY <1>4
<1>6. m \in 1..n /\ m - 1 \in 0..n /\ ~(m <= m - 1)
  BY <1>5
<1>7. m - 1 \in Q
  BY <1>5, <1>6
<1> QED
  BY <1>5, <1>6, <1>7

IsRecursion(f, n, base, h) == f[0] = base /\ \A i \in 1..n : f[i] = h[<<i, f[i - 1]>>]

(* A function can be defined by recursion on the numbers up to n.          *)
LEMMA RecursionExists ==
    ASSUME NEW n \in Nat, NEW Y, NEW base \in Y, NEW h, \A x \in 1..n, y \in Y : h[<<x, y>>] \in Y
    PROVE  \E f \in [0..n -> Y] : IsRecursion(f, n, base, h)
<1>1. PICK it \in [SUBSET (1..n) -> Y] : IsLeftFold(it, n, base, h)
  BY LeftFoldExists
<1>2. \A s \in SUBSET (1..n) : it[s] = IF s = {} THEN base ELSE h[<<Max(s), it[s \ {Max(s)}]>>]
  BY <1>1 DEF IsLeftFold
<1> DEFINE f == [i \in 0..n |-> it[1..i]]
<1>3. \A i \in 0..n : 1..i \in SUBSET (1..n) /\ f[i] = it[1..i] /\ f[i] \in Y
  OBVIOUS
<1>4. f[0] = base
  <2>1. 1..0 = {} /\ 0 \in 0..n
    OBVIOUS
  <2> QED
    BY <1>2, <1>3, <2>1
<1>5. ASSUME NEW i \in 1..n
      PROVE  f[i] = h[<<i, f[i - 1]>>]
  <2>1. 1..i \subseteq 1..n /\ 1..i # {} /\ i \in 0..n /\ i - 1 \in 0..n /\ i \in 1..i
    OBVIOUS
  <2>2. Max(1..i) \in 1..i /\ \A y \in 1..i : Max(1..i) >= y
    BY <2>1, GreatestIsOne
  <2>3. Max(1..i) = i
    BY <2>1, <2>2
  <2>4. (1..i) \ {i} = 1..(i - 1)
    OBVIOUS
  <2> HIDE DEF f
  <2> QED
    BY <1>2, <1>3, <2>1, <2>3, <2>4
<1>6. f \in [0..n -> Y]
  BY <1>3
<1> HIDE DEF f
<1> QED
  BY <1>4, <1>5, <1>6 DEF IsRecursion
=============================================================================
