-------------------------- MODULE RecurringProofs ---------------------------
(***************************************************************************)
(* The report of recurring expenses finds the bills that are paid, for     *)
(* every punctual biller.  It sees only the payments, in lanes of equal    *)
(* amounts that it merges by their rhythm; that it finds the bill behind   *)
(* them takes a calendar, what the filters, the lanes and the merge        *)
(* compute for every sequence, and an invariant: the payments are in time, *)
(* at one price and then at another.  The recursive functions of the       *)
(* module are shown to exist (RecursionExists) and to be the one that is   *)
(* meant; what they compute is an induction along the sequence.            *)
(***************************************************************************)
EXTENDS Recurring, SequenceFacts, FiniteSetTheorems, TLAPS

-----------------------------------------------------------------------------
(***************************************************************************)
(* The calendar.                                                           *)
(***************************************************************************)
LEMMA MonthLengths == \A m \in Int : MonthLength(m) \in 28..31
<1> TAKE m \in Int
<1> DEFINE k == (m % 12) + 1
<1>1. k \in 1..12
  OBVIOUS
<1> DEFINE lengths == <<31, 28, 31, 30, 31, 30, 31, 31, 30, 31, 30, 31>>
<1>2. \A i \in 1..12 : lengths[i] \in 28..31
  OBVIOUS
<1>3. MonthLength(m) = IF m = 13 THEN 29 ELSE lengths[k]
  BY DEF MonthLength
<1> HIDE DEF lengths, k
<1> QED
  BY <1>1, <1>2, <1>3

CalendarStep(f) == [m \in 0..60 |-> IF m = 0 THEN 0 ELSE f[m - 1] + MonthLength(m - 1)]

(* The first days of the months are defined, a month apart.                *)
LEMMA CalendarIs ==
    /\ \A m \in 0..60 : FirstOf[m] \in Nat
    /\ FirstOf[0] = 0
    /\ \A m \in 1..60 : FirstOf[m] = FirstOf[m - 1] + MonthLength(m - 1)
<1> DEFINE h == [p \in (1..60) \X Nat |-> p[2] + MonthLength(p[1] - 1)]
<1>1. \A x \in 1..60, y \in Nat : h[<<x, y>>] = y + MonthLength(x - 1) /\ h[<<x, y>>] \in Nat
  BY MonthLengths
<1> HIDE DEF h
<1>2. PICK f \in [0..60 -> Nat] : f[0] = 0 /\ \A i \in 1..60 : f[i] = h[<<i, f[i - 1]>>]
  <2> DEFINE n == 60
             Y == Nat
             b == 0
  <2>1. n \in Nat /\ b \in Y /\ \A x \in 1..n, y \in Y : h[<<x, y>>] \in Y
    BY <1>1
  <2> HIDE DEF n, Y, b
  <2>2. \E f \in [0..n -> Y] : IsRecursion(f, n, b, h)
    BY <2>1, RecursionExists
  <2> QED
    BY <2>2 DEF n, Y, b, IsRecursion
<1>3. \A i \in 1..60 : f[i] = f[i - 1] + MonthLength(i - 1)
  <2> TAKE i \in 1..60
  <2>1. f[i - 1] \in Nat
    BY <1>2
  <2> QED
    BY <1>1, <1>2, <2>1
<1>4. f = CalendarStep(f)
  <2>1. \A m \in 0..60 : f[m] = IF m = 0 THEN 0 ELSE f[m - 1] + MonthLength(m - 1)
    BY <1>2, <1>3
  <2> QED
    BY <1>2, <2>1 DEF CalendarStep
<1>5. FirstOf = CHOOSE g : g = CalendarStep(g)
  BY DEF FirstOf, CalendarStep
<1>6. FirstOf = CalendarStep(FirstOf)
  BY <1>4, <1>5
<1>7. \A m \in 0..60 : FirstOf[m] = IF m = 0 THEN 0 ELSE FirstOf[m - 1] + MonthLength(m - 1)
  BY <1>6 DEF CalendarStep
<1> DEFINE Q == {m \in 0..60 : FirstOf[m] \in Nat}
<1>8. \A m \in 0..60 : m \in Q
  <2>1. 0 \in Q
    BY <1>7
  <2>2. \A m \in 1..60 : m - 1 \in Q => m \in Q
    <3> TAKE m \in 1..60
    <3>1. m \in 0..60 /\ m # 0 /\ m - 1 \in Int
      OBVIOUS
    <3> QED
      BY <1>7, <3>1, MonthLengths
  <2> HIDE DEF Q
  <2> QED
    BY <2>1, <2>2, UpToInduction
<1> QED
  BY <1>7, <1>8

(* A later month begins after the end of an earlier one.                   *)
LEMMA MonthsFollow ==
    \A m, n \in 0..60 : m < n => FirstOf[m] + MonthLength(m) <= FirstOf[n]
<1> SUFFICES ASSUME NEW m \in 0..60
             PROVE  \A n \in 0..60 : m < n => FirstOf[m] + MonthLength(m) <= FirstOf[n]
  BY ZenonT(20)
<1> DEFINE Q == {n \in 0..60 : m < n => FirstOf[m] + MonthLength(m) <= FirstOf[n]}
<1>1. 0 \in Q
  OBVIOUS
<1>2. ASSUME NEW n \in 1..60, n - 1 \in Q
      PROVE  n \in Q
  <2>1. FirstOf[n] = FirstOf[n - 1] + MonthLength(n - 1) /\ n - 1 \in 0..60
    BY CalendarIs
  <2>2. FirstOf[n - 1] \in Nat /\ MonthLength(n - 1) \in 28..31 /\ n - 1 \in Int
    BY <2>1, CalendarIs, MonthLengths
  <2>3. FirstOf[m] \in Nat /\ MonthLength(m) \in 28..31
    BY CalendarIs, MonthLengths
  <2>4. CASE m < n - 1
    BY <1>2, <2>1, <2>2, <2>3, <2>4
  <2>5. CASE ~(m < n - 1)
    <3>1. m < n => m = n - 1
      BY <2>5
    <3> QED
      BY <2>1, <2>2, <2>3, <3>1
  <2> QED
    BY <2>4, <2>5
<1>3. \A n \in 0..60 : n \in Q
  <2>1. \A n \in 1..60 : n - 1 \in Q => n \in Q
    BY <1>2
  <2> HIDE DEF Q
  <2> QED
    BY <1>1, <2>1, UpToInduction
<1> QED
  BY <1>3

\* A day of a month.
DayIn(d, m) == m \in 0..59 /\ d \in Int /\ FirstOf[m] <= d /\ d < FirstOf[m] + MonthLength(m)

(* Every date of the calendar is a day of one month, which utcDate finds.  *)
LEMMA DateIs ==
    ASSUME NEW d, NEW m, DayIn(d, m)
    PROVE  /\ UtcDate[d] = [month |-> m, day |-> d - FirstOf[m] + 1,
                            ends |-> d - FirstOf[m] + 1 = MonthLength(m)]
           /\ \A n \in 0..59 : DayIn(d, n) => n = m
<1>1. /\ m \in 0..59 /\ m \in 0..60 /\ m + 1 \in 0..60 /\ d \in Int
      /\ FirstOf[m] \in Nat /\ MonthLength(m) \in 28..31 /\ FirstOf[m + 1] \in Nat
  BY CalendarIs, MonthLengths DEF DayIn
<1>2. \A n \in 0..59 : FirstOf[n + 1] = FirstOf[n] + MonthLength(n)
  <2> TAKE n \in 0..59
  <2>1. n + 1 \in 1..60 /\ (n + 1) - 1 = n
    OBVIOUS
  <2> QED
    BY <2>1, CalendarIs
<1>3. ASSUME NEW n \in 0..59, FirstOf[n] <= d, d < FirstOf[n] + MonthLength(n)
      PROVE  n = m
  <2>1. n \in 0..60 /\ FirstOf[n] \in Nat /\ MonthLength(n) \in 28..31
    BY CalendarIs, MonthLengths
  <2>2. ~(n < m)
    <3>1. n < m => FirstOf[n] + MonthLength(n) <= FirstOf[m]
      BY <1>1, <2>1, MonthsFollow, ZenonT(20)
    <3> QED
      BY <1>1, <1>3, <2>1, <3>1 DEF DayIn
  <2>3. ~(m < n)
    <3>1. m < n => FirstOf[m] + MonthLength(m) <= FirstOf[n]
      BY <1>1, <2>1, MonthsFollow, ZenonT(20)
    <3> QED
      BY <1>1, <1>3, <2>1, <3>1 DEF DayIn
  <2> QED
    BY <1>1, <2>2, <2>3
<1>4. d \in 0..(FirstOf[60] - 1)
  <2>1. 60 \in 0..60 /\ m < 60
    BY <1>1
  <2>2. FirstOf[m] + MonthLength(m) <= FirstOf[60]
    BY <1>1, <2>1, MonthsFollow, ZenonT(20)
  <2>3. FirstOf[60] \in Nat
    BY <2>1, CalendarIs
  <2> QED
    BY <1>1, <2>2, <2>3 DEF DayIn
<1> DEFINE Is(n) == FirstOf[n] <= d /\ d < FirstOf[n + 1]
<1>5. m \in 0..59 /\ Is(m) /\ \A n \in 0..59 : Is(n) => n = m
  BY <1>1, <1>2, <1>3 DEF DayIn
<1>6. (CHOOSE n \in 0..59 : Is(n)) = m
  <2> HIDE DEF Is
  <2> QED
    BY <1>5
<1>7. UtcDate[d] = LET k == CHOOSE n \in 0..59 : Is(n) IN DateIn(k, d - FirstOf[k] + 1)
  BY <1>4 DEF UtcDate
<1>8. UtcDate[d] = DateIn(m, d - FirstOf[m] + 1)
  <2> HIDE DEF Is
  <2> QED
    BY <1>6, <1>7
<1> QED
  BY <1>3, <1>8 DEF DateIn, DayIn

LEMMA MonthFound ==
    ASSUME NEW n \in 1..60, NEW d \in Nat, d < FirstOf[n]
    PROVE  \E m \in 0..(n - 1) : DayIn(d, m)
<1> DEFINE Later == {k \in 0..60 : d < FirstOf[k]}
<1>1. Later \subseteq Nat /\ n \in Later
  OBVIOUS
<1>2. Min(Later) \in Later /\ \A y \in Later : Min(Later) <= y
  <2> HIDE DEF Later
  <2> QED
    BY <1>1, LeastIsOne
<1>3. PICK k \in 0..60 : d < FirstOf[k] /\ \A y \in Later : k <= y
  BY <1>2
<1>4. k # 0 /\ k <= n
  BY <1>1, <1>3, CalendarIs
<1>5. k - 1 \in 0..60 /\ k \in 1..60 /\ ~(k <= k - 1)
  BY <1>3, <1>4
<1>6. FirstOf[k - 1] <= d
  <2>1. FirstOf[k - 1] \in Nat
    BY <1>5, CalendarIs
  <2> QED
    BY <1>3, <1>5, <2>1
<1>7. FirstOf[k] = FirstOf[k - 1] + MonthLength(k - 1)
  BY <1>5, CalendarIs
<1>8. DayIn(d, k - 1) /\ k - 1 \in 0..(n - 1)
  BY <1>3, <1>4, <1>5, <1>6, <1>7 DEF DayIn
<1> QED
  BY <1>8

-----------------------------------------------------------------------------
(***************************************************************************)
(* The filters of a sequence.                                              *)
(***************************************************************************)
\* What Filtered computes for each prefix.
FilterStep(s, T, f) ==
    [i \in 0..Len(s) |->
        IF i = 0 THEN <<>> ELSE IF s[i] \in T THEN Append(f[i - 1], s[i]) ELSE f[i - 1]]

IsFilter(f, s, T) ==
    /\ f[0] = <<>>
    /\ \A i \in 1..Len(s) : f[i] = IF s[i] \in T THEN Append(f[i - 1], s[i]) ELSE f[i - 1]

LEMMA FilterIs ==
    ASSUME NEW S, NEW s \in Seq(S), NEW T
    PROVE  \E f \in [0..Len(s) -> Seq(S)] : IsFilter(f, s, T) /\ Filtered(s, T) = f[Len(s)]
<1> DEFINE n == Len(s)
           Y == Seq(S)
           h == [p \in (1..n) \X Y |->
                    IF s[p[1]] \in T THEN Append(p[2], s[p[1]]) ELSE p[2]]
           I == CHOOSE f : f = FilterStep(s, T, f)
<1>1. n \in Nat /\ <<>> \in Y /\ \A i \in 1..n : s[i] \in S
  OBVIOUS
<1>2. \A i \in 1..n, y \in Y : /\ h[<<i, y>>] \in Y
                               /\ h[<<i, y>>] = IF s[i] \in T THEN Append(y, s[i]) ELSE y
  <2> TAKE i \in 1..n, y \in Y
  <2>1. h[<<i, y>>] = IF s[i] \in T THEN Append(y, s[i]) ELSE y
    OBVIOUS
  <2>2. Append(y, s[i]) \in Y
    BY <1>1
  <2> HIDE DEF h
  <2> QED
    BY <2>1, <2>2
<1>3. Filtered(s, T) = I[n]
  BY DEF Filtered, FilterStep
<1> HIDE DEF h
<1>4. PICK f \in [0..n -> Y] : IsRecursion(f, n, <<>>, h)
  <2>1. \A i \in 1..n, y \in Y : h[<<i, y>>] \in Y
    BY <1>2
  <2> HIDE DEF n, Y
  <2> QED
    BY <1>1, <2>1, RecursionExists
<1> HIDE DEF Y
<1>5. \A i \in 1..n : f[i] = IF s[i] \in T THEN Append(f[i - 1], s[i]) ELSE f[i - 1]
  <2> TAKE i \in 1..n
  <2>1. i - 1 \in 0..n
    BY <1>1
  <2>2. f[i - 1] \in Y
    BY <1>4, <2>1
  <2>3. f[i] = h[<<i, f[i - 1]>>]
    BY <1>4 DEF IsRecursion
  <2> QED
    BY <1>2, <2>2, <2>3
<1>6. f[0] = <<>>
  BY <1>4 DEF IsRecursion
<1>7. f = FilterStep(s, T, f)
  <2>1. \A i \in 0..n : f[i] = IF i = 0 THEN <<>>
                               ELSE IF s[i] \in T THEN Append(f[i - 1], s[i]) ELSE f[i - 1]
    <3> TAKE i \in 0..n
    <3>1. i = 0 \/ i \in 1..n
      BY <1>1
    <3> QED
      BY <1>5, <1>6, <3>1
  <2> QED
    BY <1>4, <2>1 DEF FilterStep
<1>8. I = FilterStep(s, T, I)
  BY <1>7
<1> HIDE DEF I
<1>9. \A i \in 0..n : I[i] = IF i = 0 THEN <<>>
                             ELSE IF s[i] \in T THEN Append(I[i - 1], s[i]) ELSE I[i - 1]
  BY <1>8 DEF FilterStep
<1> DEFINE Q == {i \in 0..n : I[i] = f[i]}
<1>10. \A i \in 0..n : i \in Q
  <2>1. 0 \in Q
    BY <1>1, <1>6, <1>9
  <2>2. \A i \in 1..n : i - 1 \in Q => i \in Q
    BY <1>1, <1>5, <1>9
  <2> HIDE DEF Q, n
  <2> QED
    BY <1>1, <2>1, <2>2, UpToInduction
<1>11. I[n] = f[n]
  BY <1>1, <1>10
<1> QED
  BY <1>3, <1>4, <1>5, <1>6, <1>11 DEF IsFilter, Y

SamePrefix(s, T, u, U, n) == \A i \in 1..n : s[i] = u[i] /\ (s[i] \in T <=> u[i] \in U)

(* Two filters that agree on a prefix give the same of it.                 *)
LEMMA FiltersAgree ==
    ASSUME NEW S, NEW s \in Seq(S), NEW T, NEW f, IsFilter(f, s, T),
           NEW u \in Seq(S), NEW U, NEW g, IsFilter(g, u, U),
           NEW n \in Nat, n <= Len(s), n <= Len(u),
           SamePrefix(s, T, u, U, n)
    PROVE  \A i \in 0..n : f[i] = g[i]
<1> DEFINE Q == {i \in 0..n : f[i] = g[i]}
<1>1. 0 \in Q
  BY DEF IsFilter
<1>2. \A i \in 1..n : i - 1 \in Q => i \in Q
  <2> SUFFICES ASSUME NEW i \in 1..n, i - 1 \in Q
               PROVE  f[i] = g[i]
    OBVIOUS
  <2>1. i \in 1..Len(s) /\ i \in 1..Len(u) /\ f[i - 1] = g[i - 1]
    OBVIOUS
  <2> QED
    BY <2>1 DEF IsFilter, SamePrefix
<1>3. \A i \in 0..n : i \in Q
  <2> HIDE DEF Q
  <2> QED
    BY <1>1, <1>2, UpToInduction
<1> QED
  BY <1>3

(* A filter takes a further element or not.                                *)
LEMMA FilterAppend ==
    ASSUME NEW S, NEW s \in Seq(S), NEW T, NEW e \in S
    PROVE  /\ Filtered(s, T) \in Seq(S)
           /\ Filtered(Append(s, e), T)
                = IF e \in T THEN Append(Filtered(s, T), e) ELSE Filtered(s, T)
<1> DEFINE u == Append(s, e)
           n == Len(s)
<1>1. PICK f \in [0..n -> Seq(S)] : IsFilter(f, s, T) /\ Filtered(s, T) = f[n]
  BY FilterIs
<1>2. u \in Seq(S) /\ Len(u) = n + 1 /\ n \in Nat /\ u[n + 1] = e /\ \A i \in 1..n : u[i] = s[i]
  OBVIOUS
<1> HIDE DEF u, n
<1>3. PICK g \in [0..Len(u) -> Seq(S)] : IsFilter(g, u, T) /\ Filtered(u, T) = g[Len(u)]
  BY <1>2, FilterIs
<1>4. \A i \in 0..n : f[i] = g[i]
  <2>1. n <= Len(s) /\ n <= Len(u)
    BY <1>2 DEF n
  <2>3. SamePrefix(s, T, u, T, n)
    BY <1>2 DEF SamePrefix
  <2>2. IsFilter(f, s, T) /\ IsFilter(g, u, T) /\ u \in Seq(S) /\ n \in Nat
    BY <1>1, <1>2, <1>3
  <2> HIDE DEF n
  <2> QED
    BY <2>1, <2>2, <2>3, FiltersAgree
<1>5. g[n + 1] = IF u[n + 1] \in T THEN Append(g[n], u[n + 1]) ELSE g[n]
  <2>1. n + 1 \in 1..Len(u) /\ (n + 1) - 1 = n
    BY <1>2
  <2> QED
    BY <1>3, <2>1 DEF IsFilter
<1>6. f[n] = g[n] /\ f[n] \in Seq(S)
  BY <1>1, <1>2, <1>4
<1>7. Filtered(u, T) = IF e \in T THEN Append(Filtered(s, T), e) ELSE Filtered(s, T)
  BY <1>1, <1>2, <1>3, <1>5, <1>6
<1> QED
  BY <1>1, <1>6, <1>7 DEF u

LEMMA FilterTakes ==
    ASSUME NEW S, NEW T
    PROVE  \A s \in Seq(S), e \in S :
               Filtered(Append(s, e), T)
                 = IF e \in T THEN Append(Filtered(s, T), e) ELSE Filtered(s, T)
  BY FilterAppend

LEMMA FilterEmpty ==
    ASSUME NEW T
    PROVE  Filtered(<<>>, T) = <<>>
<1>1. <<>> \in Seq({}) /\ Len(<<>>) = 0
  OBVIOUS
<1>2. PICK f : IsFilter(f, <<>>, T) /\ Filtered(<<>>, T) = f[Len(<<>>)]
  BY <1>1, FilterIs
<1> QED
  BY <1>1, <1>2 DEF IsFilter

(* A filter of what another one leaves.                                    *)
LEMMA FilterTwice ==
    ASSUME NEW S, NEW s \in Seq(S), NEW T, NEW U, NEW V,
           \A x \in S : x \in V <=> x \in T /\ x \in U
    PROVE  Filtered(Filtered(s, T), U) = Filtered(s, V)
<1> DEFINE n == Len(s)
<1>1. n \in Nat /\ \A i \in 1..n : s[i] \in S
  OBVIOUS
<1>2. PICK f \in [0..n -> Seq(S)] : IsFilter(f, s, T) /\ Filtered(s, T) = f[n]
  BY FilterIs
<1>3. PICK g \in [0..n -> Seq(S)] : IsFilter(g, s, V) /\ Filtered(s, V) = g[n]
  BY FilterIs
<1>a. \A r \in Seq(S), e \in S :
          Filtered(Append(r, e), U) = IF e \in U THEN Append(Filtered(r, U), e) ELSE Filtered(r, U)
  BY FilterTakes
<1> DEFINE Q == {i \in 0..n : Filtered(f[i], U) = g[i]}
<1>4. 0 \in Q
  BY <1>1, <1>2, <1>3, FilterEmpty DEF IsFilter
<1>5. ASSUME NEW i \in 1..n, i - 1 \in Q
      PROVE  i \in Q
  <2>1. /\ i \in 0..n /\ i - 1 \in 0..n /\ f[i - 1] \in Seq(S)
        /\ Filtered(f[i - 1], U) = g[i - 1] /\ s[i] \in S
    BY <1>1, <1>5
  <2>2. /\ f[i] = IF s[i] \in T THEN Append(f[i - 1], s[i]) ELSE f[i - 1]
        /\ g[i] = IF s[i] \in V THEN Append(g[i - 1], s[i]) ELSE g[i - 1]
    BY <1>2, <1>3 DEF IsFilter
  <2>3. s[i] \in V <=> s[i] \in T /\ s[i] \in U
    BY <2>1
  <2>4. Filtered(Append(f[i - 1], s[i]), U)
            = IF s[i] \in U THEN Append(g[i - 1], s[i]) ELSE g[i - 1]
    BY <1>a, <2>1
  <2> QED
    BY <2>1, <2>2, <2>3, <2>4
<1>6. \A i \in 0..n : i \in Q
  <2>1. \A i \in 1..n : i - 1 \in Q => i \in Q
    BY <1>5
  <2> HIDE DEF Q, n
  <2> QED
    BY <1>1, <1>4, <2>1, UpToInduction
<1>7. n \in Q
  BY <1>1, <1>6
<1> QED
  BY <1>2, <1>3, <1>7

\* What is left of the first i elements: all but the first k, which were not in T.
Trimmed(r, s, T, i, k) ==
    /\ k \in 0..i /\ Len(r) = i - k
    /\ \A j \in 1..(i - k) : r[j] = s[k + j]
    /\ k < i => s[k + 1] \in T

(* A filter that, once it takes an element, takes the rest, leaves a       *)
(* suffix.                                                                 *)
LEMMA FilterSuffix ==
    ASSUME NEW S, NEW s \in Seq(S), NEW T,
           \A i, j \in 1..Len(s) : i < j /\ s[i] \in T => s[j] \in T
    PROVE  \E k : Trimmed(Filtered(s, T), s, T, Len(s), k)
<1> DEFINE n == Len(s)
<1>1. n \in Nat /\ \A i \in 1..n : s[i] \in S
  OBVIOUS
<1>2. PICK f \in [0..n -> Seq(S)] : IsFilter(f, s, T) /\ Filtered(s, T) = f[n]
  BY FilterIs
<1> DEFINE Q == {i \in 0..n : \E k : Trimmed(f[i], s, T, i, k)}
<1>3. 0 \in Q
  <2>1. Trimmed(f[0], s, T, 0, 0)
    BY <1>2 DEF IsFilter, Trimmed
  <2> QED
    BY <1>1, <2>1
<1>4. ASSUME NEW i \in 1..n, i - 1 \in Q
      PROVE  i \in Q
  <2>1. PICK k : Trimmed(f[i - 1], s, T, i - 1, k)
    BY <1>4
  <2>2. /\ f[i] = IF s[i] \in T THEN Append(f[i - 1], s[i]) ELSE f[i - 1]
        /\ i \in 0..n /\ f[i - 1] \in Seq(S) /\ s[i] \in S
    <3>1. i \in 0..n /\ i - 1 \in 0..n /\ s[i] \in S
      BY <1>1
    <3>2. f[i] = IF s[i] \in T THEN Append(f[i - 1], s[i]) ELSE f[i - 1]
      BY <1>2 DEF IsFilter
    <3> QED
      BY <1>2, <3>1, <3>2
  <2>3. CASE s[i] \in T
    <3>1. Len(f[i]) = Len(f[i - 1]) + 1 /\ f[i][Len(f[i - 1]) + 1] = s[i]
          /\ \A j \in 1..Len(f[i - 1]) : f[i][j] = f[i - 1][j]
      BY <2>2, <2>3
    <3>2. k \in 0..i /\ Len(f[i]) = i - k
      BY <2>1, <3>1 DEF Trimmed
    <3>3. ASSUME NEW j \in 1..(i - k)
          PROVE  f[i][j] = s[k + j]
      <4>1. /\ k \in 0..(i - 1) /\ Len(f[i - 1]) = i - 1 - k
            /\ \A m \in 1..(i - 1 - k) : f[i - 1][m] = s[k + m]
        BY <2>1 DEF Trimmed
      <4>2. CASE j \in 1..(i - 1 - k)
        BY <3>1, <4>1, <4>2
      <4>3. CASE j = i - k
        <5>1. j = Len(f[i - 1]) + 1 /\ k + j = i
          BY <4>1, <4>3
        <5> QED
          BY <3>1, <5>1
      <4> QED
        BY <4>1, <4>2, <4>3
    <3>4. k < i => s[k + 1] \in T
      BY <2>1, <2>3 DEF Trimmed
    <3>5. Trimmed(f[i], s, T, i, k)
      BY <3>2, <3>3, <3>4 DEF Trimmed
    <3> QED
      BY <2>2, <3>5
  <2>4. CASE s[i] \notin T
    <3>1. ~(k < i - 1)
      <4>1. k < i - 1 => s[k + 1] \in T /\ k + 1 \in 1..n /\ k + 1 < i
        BY <2>1 DEF Trimmed
      <4> QED
        BY <2>4, <4>1
    <3>2. f[i] = f[i - 1] /\ Len(f[i]) = 0
      BY <2>1, <2>2, <2>4, <3>1 DEF Trimmed
    <3>3. Trimmed(f[i], s, T, i, i)
      BY <3>2 DEF Trimmed
    <3> QED
      BY <2>2, <3>3
  <2> QED
    BY <2>3, <2>4
<1>5. \A i \in 0..n : i \in Q
  <2>1. \A i \in 1..n : i - 1 \in Q => i \in Q
    BY <1>4
  <2> HIDE DEF Q, n
  <2> QED
    BY <1>1, <1>3, <2>1, UpToInduction
<1>6. n \in Q
  BY <1>1, <1>5
<1> QED
  BY <1>2, <1>6

(* What a filter leaves is in its set.                                     *)
LEMMA FilterMembers ==
    ASSUME NEW S, NEW s \in Seq(S), NEW T
    PROVE  Filtered(s, T) \in Seq(S \cap T)
<1> DEFINE n == Len(s)
           Y == Seq(S \cap T)
<1>1. n \in Nat /\ \A i \in 1..n : s[i] \in S
  OBVIOUS
<1>2. PICK f \in [0..n -> Seq(S)] : IsFilter(f, s, T) /\ Filtered(s, T) = f[n]
  BY FilterIs
<1> DEFINE Q == {i \in 0..n : f[i] \in Y}
<1>3. 0 \in Q
  BY <1>1, <1>2 DEF IsFilter
<1>4. ASSUME NEW i \in 1..n, i - 1 \in Q
      PROVE  i \in Q
  <2>1. /\ f[i] = IF s[i] \in T THEN Append(f[i - 1], s[i]) ELSE f[i - 1]
        /\ i \in 0..n /\ f[i - 1] \in Y /\ s[i] \in S
    BY <1>1, <1>2, <1>4 DEF IsFilter
  <2>2. s[i] \in T => Append(f[i - 1], s[i]) \in Y
    BY <2>1
  <2> QED
    BY <2>1, <2>2
<1>5. \A i \in 0..n : i \in Q
  <2>1. \A i \in 1..n : i - 1 \in Q => i \in Q
    BY <1>4
  <2> HIDE DEF Q, n
  <2> QED
    BY <1>1, <1>3, <2>1, UpToInduction
<1>6. n \in Q
  BY <1>1, <1>5
<1> QED
  BY <1>2, <1>6

-----------------------------------------------------------------------------
(***************************************************************************)
(* The lanes and the rhythm of a run of events.                            *)
(***************************************************************************)
\* The intervals of a frequency; all of them are matches of the k-th frequency and
\* none is one of those before it.
Hits(ev, f) == {i \in 2..Len(ev) : IntervalMatches(ev[i - 1], ev[i], f)}

Rhythmic(ev, k) ==
    \A i \in 2..Len(ev) : /\ IntervalMatches(ev[i - 1], ev[i], Frequencies[k])
                          /\ \A j \in 1..(k - 1) :
                                 ~IntervalMatches(ev[i - 1], ev[i], Frequencies[j])

\* The i-th frequency is the first with the most matches.
IsBest(m, i) == \A j \in 1..5 : m[i] > m[j] \/ (m[i] = m[j] /\ i <= j)

(* Events that are all a rhythm apart are detected with every match.       *)
LEMMA RhythmDetected ==
    ASSUME NEW ev, NEW n \in Nat, n >= 2, Len(ev) = n, NEW k \in 1..5, Rhythmic(ev, k)
    PROVE  DetectFrequency(ev) = [frequency |-> Frequencies[k], matches |-> n - 1]
<1> DEFINE m == [i \in 1..5 |-> Matches(ev, Frequencies[i])]
<1>1. IsFiniteSet(2..n) /\ Cardinality(2..n) = n - 1
  <2>1. n - 2 + 1 = n - 1 /\ 2 \in Int /\ n \in Int /\ ~(2 > n)
    OBVIOUS
  <2> QED
    BY <2>1, FS_Interval
<1>2. \A f : /\ Hits(ev, f) \subseteq 2..n /\ Matches(ev, f) = Cardinality(Hits(ev, f))
             /\ Matches(ev, f) \in Nat /\ Matches(ev, f) <= n - 1
  <2> TAKE f
  <2>1. Hits(ev, f) \subseteq 2..n /\ Matches(ev, f) = Cardinality(Hits(ev, f))
    BY DEF Hits, Matches
  <2>2. IsFiniteSet(Hits(ev, f)) /\ Cardinality(Hits(ev, f)) <= Cardinality(2..n)
    BY <1>1, <2>1, FS_Subset
  <2>3. Cardinality(Hits(ev, f)) \in Nat
    BY <2>2, FS_CardinalityType
  <2> QED
    BY <1>1, <2>1, <2>2, <2>3
<1>3. m[k] = n - 1
  <2>1. Hits(ev, Frequencies[k]) = 2..n
    BY DEF Hits, Rhythmic
  <2> QED
    BY <1>1, <1>2, <2>1
<1>4. \A j \in 1..5 : j < k => m[j] = 0
  <2> TAKE j \in 1..5
  <2> HAVE j < k
  <2>1. Hits(ev, Frequencies[j]) = {}
    BY DEF Hits, Rhythmic
  <2> QED
    BY <1>2, <2>1, FS_EmptySet
<1>5. \A j \in 1..5 : m[j] \in Nat /\ m[j] <= n - 1 /\ m[j] = Matches(ev, Frequencies[j])
  BY <1>2
<1> HIDE DEF m
<1>6. IsBest(m, k)
  BY <1>3, <1>4, <1>5 DEF IsBest
<1>7. \A i \in 1..5 : IsBest(m, i) => i = k
  <2> TAKE i \in 1..5
  <2> HAVE IsBest(m, i)
  <2>1. ~(i < k)
    BY <1>3, <1>4 DEF IsBest
  <2>2. ~(k < i)
    <3>1. m[i] > m[k] \/ (m[i] = m[k] /\ i <= k)
      BY DEF IsBest
    <3>2. m[k] = n - 1 /\ m[i] \in Nat /\ m[i] <= n - 1
      BY <1>3, <1>5
    <3> QED
      BY <3>1, <3>2
  <2> QED
    BY <2>1, <2>2
<1>8. Best(ev) = CHOOSE i \in 1..5 : IsBest(m, i)
  <2>1. DOMAIN Frequencies = 1..5
    BY DEF Frequencies
  <2> DEFINE Top(i) == \A j \in 1..5 :
                           \/ Matches(ev, Frequencies[i]) > Matches(ev, Frequencies[j])
                           \/ (Matches(ev, Frequencies[i]) = Matches(ev, Frequencies[j]) /\ i <= j)
  <2>2. Best(ev) = CHOOSE i \in 1..5 : Top(i)
    BY <2>1, Zenon DEF Best
  <2>3. \A i \in 1..5 : Top(i) <=> IsBest(m, i)
    BY <1>5 DEF IsBest
  <2> HIDE DEF Top
  <2>4. (CHOOSE i \in 1..5 : Top(i)) = CHOOSE i \in 1..5 : IsBest(m, i)
    <3>1. Top(k) /\ \A i \in 1..5 : Top(i) => i = k
      BY <1>6, <1>7, <2>3
    <3>2. (CHOOSE i \in 1..5 : Top(i)) = k
      BY <3>1
    <3>3. (CHOOSE i \in 1..5 : IsBest(m, i)) = k
      BY <1>6, <1>7
    <3> QED
      BY <3>2, <3>3
  <2> QED
    BY <2>2, <2>4
<1>9. Best(ev) = k
  BY <1>6, <1>7, <1>8
<1>10. Regular(n - 1, n - 1)
  BY DEF Regular
<1>11. Matches(ev, Frequencies[k]) = n - 1
  BY <1>3, <1>5
<1> QED
  BY <1>9, <1>10, <1>11 DEF DetectFrequency

\* What InitialAmountLanes computes for each prefix.
PlaceStep(ev, f) ==
    [n \in 0..Len(ev) |-> IF n = 0 THEN <<>> ELSE Place(f[n - 1], ev[n])]

IsPlacing(f, n, ev) ==
    /\ f = [i \in 0..n |-> f[i]] /\ f[0] = <<>>
    /\ \A i \in 1..n : f[i] = Place(f[i - 1], ev[i])

(* The lanes are those of any sequence of lanes in which each event was    *)
(* placed in turn.                                                         *)
LEMMA LanesAre ==
    ASSUME NEW n \in Nat, NEW ev, Len(ev) = n,
           NEW f, IsPlacing(f, n, ev)
    PROVE  InitialAmountLanes(ev) = f[n]
<1> DEFINE I == CHOOSE g : g = PlaceStep(ev, g)
<1>1. InitialAmountLanes(ev) = I[n]
  BY DEF InitialAmountLanes, PlaceStep
<1>2. f = PlaceStep(ev, f)
  <2>1. \A i \in 0..n : f[i] = IF i = 0 THEN <<>> ELSE Place(f[i - 1], ev[i])
    BY DEF IsPlacing
  <2> QED
    BY <2>1 DEF PlaceStep, IsPlacing
<1>3. I = PlaceStep(ev, I)
  BY <1>2
<1> HIDE DEF I
<1>4. \A i \in 0..n : I[i] = IF i = 0 THEN <<>> ELSE Place(I[i - 1], ev[i])
  BY <1>3 DEF PlaceStep
<1> DEFINE Q == {i \in 0..n : I[i] = f[i]}
<1>5. \A i \in 0..n : i \in Q
  <2>1. 0 \in Q
    BY <1>4 DEF IsPlacing
  <2>2. \A i \in 1..n : i - 1 \in Q => i \in Q
    <3> TAKE i \in 1..n
    <3>1. i \in 0..n /\ i # 0
      OBVIOUS
    <3> QED
      BY <1>4, <3>1 DEF IsPlacing
  <2> HIDE DEF Q
  <2> QED
    BY <2>1, <2>2, UpToInduction
<1> QED
  BY <1>1, <1>5

(* Two amounts that are close are close in either order.                   *)
LEMMA CloseIs ==
    \A a, b \in Nat : /\ AmountClose(a, a) /\ (AmountClose(a, b) <=> AmountClose(b, a))
                      /\ AmountClose(a, b) \in BOOLEAN
<1> TAKE a, b \in Nat
<1> DEFINE larger == IF a < b THEN b ELSE a
           twentieth == (larger + 10) \div 20
<1>1. larger = (IF b < a THEN a ELSE b) /\ larger \in Nat /\ twentieth \in Int
  OBVIOUS
<1>2. AmountClose(a, b) <=> Apart(a, b) <= (IF twentieth > 100 THEN twentieth ELSE 100)
  BY DEF AmountClose
<1>3. AmountClose(b, a) <=> Apart(b, a) <= (IF twentieth > 100 THEN twentieth ELSE 100)
  BY <1>1 DEF AmountClose
<1>4. Apart(a, b) = Apart(b, a) /\ Apart(a, a) = 0
  BY DEF Apart
<1>5. AmountClose(a, a)
  <2>1. (a + 10) \div 20 \in Int /\ ~(a < a)
    OBVIOUS
  <2> QED
    BY <1>4, <2>1 DEF AmountClose
<1>6. AmountClose(a, b) \in BOOLEAN
  BY DEF AmountClose
<1> HIDE DEF larger, twentieth
<1> QED
  BY <1>2, <1>3, <1>4, <1>5, <1>6

LEMMA ExceptOne == \A a, x : [<<a>> EXCEPT ![1] = x] = <<x>>
  OBVIOUS

LEMMA ExceptTwo == \A a, b, x : [<<a, b>> EXCEPT ![2] = x] = <<a, x>>
                                /\ [<<a, b>> EXCEPT ![1] = x] = <<x, b>>
  OBVIOUS

LEMMA AppendTwo == \A a, b : Append(<<a>>, b) = <<a, b>>
<1> TAKE a, b
<1> DEFINE S == {a, b}
           r == <<a>>
           s == Append(r, b)
           t == <<a, b>>
<1>1. r \in Seq(S) /\ Len(r) = 1 /\ r[1] = a
  OBVIOUS
<1>2. t \in Seq(S) /\ Len(t) = 2 /\ t[1] = a /\ t[2] = b
  OBVIOUS
<1> HIDE DEF r, t
<1>3. s \in Seq(S) /\ Len(s) = 2 /\ s[1] = a /\ s[2] = b
  <2>1. b \in S /\ 1 \in 1..Len(r)
    BY <1>1
  <2> HIDE DEF S
  <2>2. /\ Append(r, b) \in Seq(S)
        /\ Append(r, b) # <<>>
        /\ Len(Append(r, b)) = Len(r) + 1
        /\ \A i \in 1..Len(r) : Append(r, b)[i] = r[i]
        /\ Append(r, b)[Len(r) + 1] = b
    BY <1>1, <2>1, AppendProperties
  <2> QED
    BY <1>1, <2>1, <2>2
<1> HIDE DEF s
<1>4. s \in Seq(S) /\ t \in Seq(S) /\ Len(s) = Len(t) /\ \A j \in 1..Len(s) : s[j] = t[j]
  BY <1>2, <1>3
<1> HIDE DEF S
<1>5. s = t
  BY <1>4, SeqEqual
<1> QED
  BY <1>5 DEF r, s, t

LEMMA SubSeqOne ==
    ASSUME NEW S, NEW s \in Seq(S), NEW i \in 1..Len(s)
    PROVE  SubSeq(s, i, i) = <<s[i]>>
<1>1. i \in Nat /\ s[i] \in S
  OBVIOUS
<1>2. SubSeq(s, i, i) \in Seq(S) /\ Len(SubSeq(s, i, i)) = 1 /\ SubSeq(s, i, i)[1] = s[i]
  <2>1. i - i + 1 = 1 /\ i <= i /\ i \in 1..(Len(s) + 1)
    OBVIOUS
  <2> QED
    BY <1>1, <2>1, SubSeqProperties
<1> DEFINE a == SubSeq(s, i, i)
           b == <<s[i]>>
<1>3. b \in Seq(S) /\ Len(b) = 1 /\ b[1] = s[i]
  BY <1>1
<1> HIDE DEF a, b
<1>4. a \in Seq(S) /\ b \in Seq(S) /\ Len(a) = Len(b) /\ \A j \in 1..Len(a) : a[j] = b[j]
  BY <1>2, <1>3 DEF a
<1>5. a = b
  BY <1>4, SeqEqual
<1> QED
  BY <1>5 DEF a, b

\* The lanes an event is close to.
CloseLanes(lanes, e) == {i \in DOMAIN lanes : AmountClose(Last(lanes[i]).amount, e.amount)}

(* Where an event goes: to a lane of its own, or to the first close one.   *)
LEMMA PlaceIs ==
    ASSUME NEW lanes, NEW e
    PROVE  /\ CloseLanes(lanes, e) = {} => Place(lanes, e) = Append(lanes, <<e>>)
           /\ \A i \in Int : CloseLanes(lanes, e) = {i} =>
                  Place(lanes, e) = [lanes EXCEPT ![i] = Append(lanes[i], e)]
<1> DEFINE c == CHOOSE i \in CloseLanes(lanes, e) : \A j \in CloseLanes(lanes, e) : i <= j
<1>1. Place(lanes, e) = IF CloseLanes(lanes, e) = {} THEN Append(lanes, <<e>>)
                        ELSE [lanes EXCEPT ![c] = Append(@, e)]
  BY DEF Place, CloseLanes
<1>2. \A i \in Int : CloseLanes(lanes, e) = {i} => c = i
  OBVIOUS
<1> HIDE DEF c
<1> QED
  BY <1>1, <1>2

LEMMA PlaceFirst == \A e : Place(<<>>, e) = <<<<e>>>>
<1> TAKE e
<1>1. CloseLanes(<<>>, e) = {}
  BY DEF CloseLanes
<1>2. Append(<<>>, <<e>>) = <<<<e>>>>
  OBVIOUS
<1> QED
  BY <1>1, <1>2, PlaceIs

LEMMA PlaceSecond ==
    ASSUME NEW r, NEW e
    PROVE  /\ AmountClose(Last(r).amount, e.amount) => Place(<<r>>, e) = <<Append(r, e)>>
           /\ ~AmountClose(Last(r).amount, e.amount) => Place(<<r>>, e) = <<r, <<e>>>>
<1> DEFINE l == <<r>>
<1>1. DOMAIN l = {1} /\ l[1] = r
  OBVIOUS
<1>2. Append(l, <<e>>) = <<r, <<e>>>>
  BY AppendTwo
<1>5. [l EXCEPT ![1] = Append(r, e)] = <<Append(r, e)>>
  BY ExceptOne
<1> HIDE DEF l
<1>3. CASE AmountClose(Last(r).amount, e.amount)
  <2>1. CloseLanes(l, e) = {1}
    BY <1>1, <1>3 DEF CloseLanes
  <2>2. Place(l, e) = [l EXCEPT ![1] = Append(r, e)]
    BY <1>1, <2>1, PlaceIs
  <2> QED
    BY <1>5, <1>3, <2>2 DEF l
<1>4. CASE ~AmountClose(Last(r).amount, e.amount)
  <2>1. CloseLanes(l, e) = {}
    BY <1>1, <1>4 DEF CloseLanes
  <2>2. Place(l, e) = Append(l, <<e>>)
    BY <2>1, PlaceIs
  <2> QED
    BY <1>2, <1>4, <2>2 DEF l
<1> QED
  BY <1>3, <1>4

LEMMA PlaceThird ==
    ASSUME NEW r, NEW s, NEW e, ~AmountClose(Last(r).amount, e.amount),
           AmountClose(Last(s).amount, e.amount)
    PROVE  Place(<<r, s>>, e) = <<r, Append(s, e)>>
<1> DEFINE l == <<r, s>>
<1>1. DOMAIN l = {1, 2} /\ l[1] = r /\ l[2] = s
  OBVIOUS
<1>2. [l EXCEPT ![2] = Append(s, e)] = <<r, Append(s, e)>>
  BY ExceptTwo
<1> HIDE DEF l
<1>3. CloseLanes(l, e) = {2}
  BY <1>1 DEF CloseLanes
<1>4. Place(l, e) = [l EXCEPT ![2] = Append(s, e)]
  BY <1>1, <1>3, PlaceIs
<1> QED
  BY <1>2, <1>4 DEF l

\* Events p..q of a sequence have mutually close amounts.
Near(ev, p, q) == \A i, j \in p..q : AmountClose(ev[i].amount, ev[j].amount)

(* Placing the next event of a run of close amounts extends its lane.      *)
LEMMA RunGrows ==
    ASSUME NEW S, NEW ev \in Seq(S), NEW p \in 1..Len(ev), NEW i \in (p + 1)..Len(ev)
    PROVE  /\ Last(SubSeq(ev, p, i - 1)) = ev[i - 1]
           /\ Append(SubSeq(ev, p, i - 1), ev[i]) = SubSeq(ev, p, i)
<1> DEFINE r == SubSeq(ev, p, i - 1)
           s == SubSeq(ev, p, i)
<1>1. /\ r \in Seq(S) /\ Len(r) = i - p /\ \A j \in 1..(i - p) : r[j] = ev[p + j - 1]
      /\ s \in Seq(S) /\ Len(s) = i - p + 1 /\ \A j \in 1..(i - p + 1) : s[j] = ev[p + j - 1]
      /\ ev[i] \in S
  <2>1. r \in Seq(S) /\ Len(r) = i - p /\ \A j \in 1..(i - p) : r[j] = ev[p + j - 1]
    OBVIOUS
  <2>2. s \in Seq(S) /\ Len(s) = i - p + 1 /\ \A j \in 1..(i - p + 1) : s[j] = ev[p + j - 1]
    OBVIOUS
  <2> QED
    BY <2>1, <2>2
<1> HIDE DEF r, s
<1>2. Append(r, ev[i]) \in Seq(S) /\ Len(Append(r, ev[i])) = i - p + 1
      /\ \A j \in 1..(i - p + 1) : Append(r, ev[i])[j] = ev[p + j - 1]
  BY <1>1
<1>3. Append(r, ev[i]) = s
  BY <1>1, <1>2, SeqEqual
<1>4. i - p \in 1..(i - p) /\ p + (i - p) - 1 = i - 1
  OBVIOUS
<1>5. Last(r) = ev[i - 1]
  BY <1>1, <1>4 DEF Last
<1> QED
  BY <1>3, <1>5 DEF r, s

(* Events of mutually close amounts are one lane.                          *)
LEMMA OneLane ==
    ASSUME NEW S, NEW ev \in Seq(S), NEW n \in Nat \ {0}, Len(ev) = n, Near(ev, 1, n)
    PROVE  InitialAmountLanes(ev) = <<ev>>
<1> DEFINE f == [i \in 0..n |-> IF i = 0 THEN <<>> ELSE <<SubSeq(ev, 1, i)>>]
<1>2. ASSUME NEW i \in 1..n
      PROVE  f[i] = Place(f[i - 1], ev[i])
  <2>1. i \in 0..n /\ i - 1 \in 0..n /\ i # 0 /\ f[i] = <<SubSeq(ev, 1, i)>>
        /\ f[i - 1] = IF i = 1 THEN <<>> ELSE <<SubSeq(ev, 1, i - 1)>>
    OBVIOUS
  <2> HIDE DEF f
  <2>2. CASE i = 1
    <3>1. f[i] = <<<<ev[1]>>>> /\ f[i - 1] = <<>>
      BY <2>1, <2>2, SubSeqOne
    <3> QED
      BY <2>2, <3>1, PlaceFirst
  <2>3. CASE i # 1
    <3>1. i \in 2..n /\ i - 1 \in 1..n /\ 1 \in 1..Len(ev) /\ i \in (1 + 1)..Len(ev)
      BY <2>3
    <3>2. AmountClose(ev[i - 1].amount, ev[i].amount)
      BY <3>1 DEF Near
    <3>3. /\ Last(SubSeq(ev, 1, i - 1)) = ev[i - 1]
          /\ Append(SubSeq(ev, 1, i - 1), ev[i]) = SubSeq(ev, 1, i)
      BY <3>1, RunGrows
    <3>4. Place(<<SubSeq(ev, 1, i - 1)>>, ev[i]) = <<SubSeq(ev, 1, i)>>
      BY <3>2, <3>3, PlaceSecond
    <3> QED
      BY <2>1, <2>3, <3>4
  <2> QED
    BY <2>2, <2>3
<1>3. f[0] = <<>> /\ f[n] = <<SubSeq(ev, 1, n)>> /\ f = [i \in 0..n |-> f[i]]
  OBVIOUS
<1>4. SubSeq(ev, 1, n) = ev
  OBVIOUS
<1>5. InitialAmountLanes(ev) = f[n]
  <2> HIDE DEF f
  <2>1. IsPlacing(f, n, ev)
    BY <1>2, <1>3 DEF IsPlacing
  <2> QED
    BY <2>1, LanesAre
<1> QED
  BY <1>3, <1>4, <1>5

(* Events at one amount and then at another one are two lanes.             *)
LEMMA TwoLanes ==
    ASSUME NEW S, NEW ev \in Seq(S), NEW n \in Nat, Len(ev) = n, NEW k \in 1..(n - 1),
           Near(ev, 1, k), Near(ev, k + 1, n),
           \A i \in 1..k, j \in (k + 1)..n : ~AmountClose(ev[i].amount, ev[j].amount)
    PROVE  InitialAmountLanes(ev) = <<SubSeq(ev, 1, k), SubSeq(ev, k + 1, n)>>
<1> DEFINE A == SubSeq(ev, 1, k)
           f == [i \in 0..n |-> IF i = 0 THEN <<>>
                                ELSE IF i <= k THEN <<SubSeq(ev, 1, i)>>
                                ELSE <<A, SubSeq(ev, k + 1, i)>>]
<1>1. Last(A) = ev[k]
  <2>1. A \in Seq(S) /\ Len(A) = k /\ A[k] = ev[k]
    OBVIOUS
  <2> QED
    BY <2>1 DEF Last
<1>2. ASSUME NEW i \in 1..n
      PROVE  f[i] = Place(f[i - 1], ev[i])
  <2>1. /\ i \in 0..n /\ i - 1 \in 0..n /\ i # 0
        /\ f[i] = IF i <= k THEN <<SubSeq(ev, 1, i)>> ELSE <<A, SubSeq(ev, k + 1, i)>>
        /\ f[i - 1] = IF i = 1 THEN <<>>
                      ELSE IF i <= k + 1 THEN <<SubSeq(ev, 1, i - 1)>>
                      ELSE <<A, SubSeq(ev, k + 1, i - 1)>>
    OBVIOUS
  <2> HIDE DEF f
  <2>2. CASE i = 1
    <3>1. SubSeq(ev, 1, 1) = <<ev[1]>> /\ 1 <= k
      BY SubSeqOne
    <3>2. f[i] = <<<<ev[1]>>>> /\ f[i - 1] = <<>>
      BY <2>1, <2>2, <3>1
    <3> QED
      BY <2>2, <3>2, PlaceFirst
  <2>3. CASE i # 1 /\ i <= k
    <3>1. i \in 1..k /\ i - 1 \in 1..k /\ 1 \in 1..Len(ev) /\ i \in (1 + 1)..Len(ev)
      BY <2>3
    <3>2. AmountClose(ev[i - 1].amount, ev[i].amount)
      BY <3>1 DEF Near
    <3>3. /\ Last(SubSeq(ev, 1, i - 1)) = ev[i - 1]
          /\ Append(SubSeq(ev, 1, i - 1), ev[i]) = SubSeq(ev, 1, i)
      BY <3>1, RunGrows
    <3>4. Place(<<SubSeq(ev, 1, i - 1)>>, ev[i]) = <<SubSeq(ev, 1, i)>>
      BY <3>2, <3>3, PlaceSecond
    <3>5. f[i - 1] = <<SubSeq(ev, 1, i - 1)>> /\ f[i] = <<SubSeq(ev, 1, i)>>
      <4>1. i # 1 /\ i <= k + 1 /\ i <= k
        BY <2>3
      <4> QED
        BY <2>1, <4>1
    <3> QED
      BY <3>4, <3>5
  <2>4. CASE i = k + 1
    <3>1. k \in 1..k /\ i \in (k + 1)..n
      BY <2>4
    <3>2. ~AmountClose(ev[k].amount, ev[i].amount)
      BY <3>1
    <3>3. Place(<<A>>, ev[i]) = <<A, <<ev[i]>>>>
      BY <1>1, <3>2, PlaceSecond
    <3>4. SubSeq(ev, i, i) = <<ev[i]>>
      BY SubSeqOne
    <3>5. f[i - 1] = <<A>> /\ f[i] = <<A, SubSeq(ev, i, i)>>
      <4>1. i # 1 /\ i <= k + 1 /\ ~(i <= k) /\ i - 1 = k
        BY <2>4
      <4> QED
        BY <2>1, <2>4, <4>1
    <3> QED
      BY <3>3, <3>4, <3>5
  <2>5. CASE i > k + 1
    <3> DEFINE r == SubSeq(ev, k + 1, i - 1)
    <3>1. i \in (k + 1)..n /\ i - 1 \in (k + 1)..n /\ k \in 1..k
          /\ k + 1 \in 1..Len(ev) /\ i \in ((k + 1) + 1)..Len(ev)
      BY <2>5
    <3>2. AmountClose(ev[i - 1].amount, ev[i].amount) /\ ~AmountClose(ev[k].amount, ev[i].amount)
      BY <3>1 DEF Near
    <3>3. Last(r) = ev[i - 1] /\ Append(r, ev[i]) = SubSeq(ev, k + 1, i)
      BY <3>1, RunGrows
    <3>4. f[i - 1] = <<A, r>> /\ f[i] = <<A, SubSeq(ev, k + 1, i)>>
      BY <2>1, <2>5
    <3> HIDE DEF r, A
    <3>5. Place(<<A, r>>, ev[i]) = <<A, Append(r, ev[i])>>
      BY <1>1, <3>2, <3>3, PlaceThird
    <3> QED
      BY <3>3, <3>4, <3>5
  <2> QED
    BY <2>2, <2>3, <2>4, <2>5
<1>3. f[0] = <<>> /\ f[n] = <<A, SubSeq(ev, k + 1, n)>>
      /\ f = [i \in 0..n |-> f[i]]
  OBVIOUS
<1>4. InitialAmountLanes(ev) = f[n]
  <2> HIDE DEF f
  <2>1. IsPlacing(f, n, ev)
    BY <1>2, <1>3 DEF IsPlacing
  <2> QED
    BY <2>1, LanesAre
<1> QED
  BY <1>3, <1>4

\* What MergePriceLanes computes after each round.
MergeStep(lanes, f) == [n \in 0..MaxPayments |-> IF n = 0 THEN lanes ELSE MergeRound(f[n - 1])]

(* A round that leaves nothing to merge is the last that matters.          *)
LEMMA MergesTo ==
    ASSUME MaxPayments \in Nat, NEW lanes, NEW l, MergeRound(lanes) = l, MergeRound(l) = l,
           MaxPayments >= 1 \/ lanes = l
    PROVE  MergePriceLanes(lanes) = l
<1> DEFINE n == MaxPayments
           I == CHOOSE g : g = MergeStep(lanes, g)
           f == [i \in 0..n |-> IF i = 0 THEN lanes ELSE l]
<1>1. MergePriceLanes(lanes) = I[n]
  BY DEF MergePriceLanes, MergeStep
<1>2. f = MergeStep(lanes, f)
  <2>1. \A i \in 0..n : f[i] = IF i = 0 THEN lanes ELSE MergeRound(f[i - 1])
    <3> TAKE i \in 0..n
    <3>1. i = 0 \/ (i # 0 /\ i - 1 \in 0..n)
      OBVIOUS
    <3>2. f[i] = IF i = 0 THEN lanes ELSE l
      OBVIOUS
    <3>3. i # 0 => f[i - 1] = lanes \/ f[i - 1] = l
      BY <3>1
    <3> HIDE DEF f
    <3> QED
      BY <3>1, <3>2, <3>3
  <2> QED
    BY <2>1 DEF MergeStep
<1>3. I = MergeStep(lanes, I)
  BY <1>2
<1> HIDE DEF I
<1>4. \A i \in 0..n : I[i] = IF i = 0 THEN lanes ELSE MergeRound(I[i - 1])
  BY <1>3 DEF MergeStep
<1> DEFINE Q == {i \in 0..n : I[i] = IF i = 0 THEN lanes ELSE l}
<1>5. \A i \in 0..n : i \in Q
  <2>1. 0 \in Q
    BY <1>4
  <2>2. \A i \in 1..n : i - 1 \in Q => i \in Q
    <3> TAKE i \in 1..n
    <3>1. i \in 0..n /\ i # 0
      OBVIOUS
    <3> QED
      BY <1>4, <3>1
  <2> HIDE DEF Q
  <2> QED
    BY <2>1, <2>2, UpToInduction
<1>6. n \in Q
  BY <1>5
<1> QED
  BY <1>1, <1>6

\* The pairs of lanes that a round may join.
Joinable(lanes) ==
    {p \in (DOMAIN lanes) \X (DOMAIN lanes) :
         p[1] < p[2] /\ Mergeable(lanes[p[1]], lanes[p[2]])}

LEMMA MergeRoundIs == \A lanes : MergeRound(lanes) = JoinFirst(lanes, Joinable(lanes))
  BY DEF MergeRound, Joinable

LEMMA OneLaneStays == \A r : MergeRound(<<r>>) = <<r>>
<1> TAKE r
<1> DEFINE l == <<r>>
<1>1. DOMAIN l = {1}
  OBVIOUS
<1> HIDE DEF l
<1>2. Joinable(l) = {}
  BY <1>1 DEF Joinable
<1>3. MergeRound(l) = l
  BY <1>2, MergeRoundIs DEF JoinFirst
<1> QED
  BY <1>3 DEF l

LEMMA RemoveSecond == \A a, b : RemoveAt(<<a, b>>, 2) = <<a>>
<1> TAKE a, b
<1> DEFINE S == {a, b}
           s == <<a, b>>
<1>1. s \in Seq(S) /\ Len(s) = 2 /\ s[1] = a
  OBVIOUS
<1> HIDE DEF s
<1>2. SubSeq(s, 1, 1) = <<a>>
  BY <1>1, SubSeqOne
<1>3. SubSeq(s, 3, 2) = <<>>
  BY SubSeqEmpty
<1>4. <<a>> \in Seq(S)
  OBVIOUS
<1>5. <<a>> \o <<>> = <<a>>
  BY <1>4, ConcatEmptySeq
<1>6. RemoveAt(s, 2) = SubSeq(s, 1, 1) \o SubSeq(s, 3, 2)
  BY <1>1 DEF RemoveAt
<1> QED
  BY <1>2, <1>3, <1>5, <1>6 DEF s

(* Two lanes that can be joined become one.                                *)
LEMMA TwoLanesJoin ==
    ASSUME NEW a, NEW b, Mergeable(a, b)
    PROVE  MergeRound(<<a, b>>) = <<Together(a, b)>>
<1> DEFINE l == <<a, b>>
           p == <<1, 2>>
           t == Together(a, b)
<1>1. DOMAIN l = {1, 2} /\ l[1] = a /\ l[2] = b /\ p[1] = 1 /\ p[2] = 2
  OBVIOUS
<1>2. [l EXCEPT ![1] = t] = <<t, b>>
  BY ExceptTwo
<1> HIDE DEF l, t
<1>3. Joinable(l) = {p}
  <2>1. p \in Joinable(l)
    BY <1>1 DEF Joinable
  <2>2. \A q \in Joinable(l) : q = p
    BY <1>1 DEF Joinable
  <2> QED
    BY <2>1, <2>2
<1>4. MergeRound(l) = JoinFirst(l, {p})
  BY <1>3, MergeRoundIs
<1> DEFINE c == CHOOSE x \in {p} : \A y \in {p} :
                    x[1] < y[1] \/ (x[1] = y[1] /\ x[2] <= y[2])
<1>5. c = p
  BY <1>1
<1>6. JoinFirst(l, {p}) = JoinLanes(l, c[1], c[2])
  BY DEF JoinFirst
<1> HIDE DEF c
<1>7. JoinLanes(l, 1, 2) = RemoveAt([l EXCEPT ![1] = t], 2)
  BY <1>1 DEF JoinLanes, t
<1>8. RemoveAt(<<t, b>>, 2) = <<t>>
  BY RemoveSecond
<1>9. MergeRound(l) = <<t>>
  BY <1>1, <1>2, <1>4, <1>5, <1>6, <1>7, <1>8
<1> QED
  BY <1>9 DEF l, t

(* A report on events that end up in one lane with a rhythm is the series  *)
(* of that lane.                                                           *)
LEMMA OneSeries ==
    ASSUME NEW start, NEW end, NEW ev, MergePriceLanes(InitialAmountLanes(ev)) = <<ev>>,
           PaymentEvents(start, end) = ev, IsSeries(ev)
    PROVE  SummarizeRecurringExpenses(start, end) = <<Series(ev, end)>>
<1> DEFINE l == <<ev>>
           T == {lane \in Range(l) : IsSeries(lane)}
           none == <<>>
<1>1. ev \in T
  <2>1. 1 \in DOMAIN l /\ l[1] = ev
    OBVIOUS
  <2> QED
    BY <2>1 DEF Range
<1>2. none \in Seq({ev}) /\ ev \in {ev} /\ Append(none, ev) = l
  OBVIOUS
<1> HIDE DEF T
<1>3. Filtered(none, T) = none
  BY FilterEmpty
<1> HIDE DEF none
<1>4. Filtered(Append(none, ev), T) = Append(Filtered(none, T), ev)
  <2> DEFINE S == {ev}
  <2>1. none \in Seq(S) /\ ev \in S
    BY <1>2
  <2> HIDE DEF S
  <2>2. \A s \in Seq(S), e \in S :
            Filtered(Append(s, e), T)
              = IF e \in T THEN Append(Filtered(s, T), e) ELSE Filtered(s, T)
    BY FilterTakes
  <2>3. Filtered(Append(none, ev), T)
            = IF ev \in T THEN Append(Filtered(none, T), ev) ELSE Filtered(none, T)
    BY <2>1, <2>2, ZenonT(20)
  <2> QED
    BY <1>1, <2>3
<1>5. Filtered(l, T) = l
  BY <1>2, <1>3, <1>4
<1>6. SummarizeRecurringExpenses(start, end)
          = [i \in DOMAIN Filtered(l, T) |-> Series(Filtered(l, T)[i], end)]
  BY DEF SummarizeRecurringExpenses, T
<1>7. [i \in DOMAIN l |-> Series(l[i], end)] = <<Series(ev, end)>>
  <2> DEFINE x == Series(ev, end)
             g == [i \in DOMAIN l |-> Series(l[i], end)]
  <2>1. DOMAIN l = 1..1 /\ l[1] = ev
    OBVIOUS
  <2>2. g \in [1..1 -> {x}]
    <3>1. \A i \in DOMAIN l : Series(l[i], end) = x
      BY <2>1
    <3> QED
      BY <2>1, <3>1
  <2>3. g = <<x>>
    <3> HIDE DEF g, x
    <3> QED
      BY <2>2
  <2> QED
    BY <2>3
<1> QED
  BY <1>5, <1>6, <1>7

\* Events in order of their days; events at one amount and then at another.
InOrderOfDays(ev) ==
    \A i, j \in 1..Len(ev) : ev[i].on \in Int /\ (i < j => ev[i].on < ev[j].on)

AtTwoPrices(ev, p, q, c) ==
    /\ p \in Nat /\ q \in Nat /\ c \in 0..Len(ev)
    /\ \A i \in 1..Len(ev) : ev[i].amount = IF i <= c THEN p ELSE q

LEMMA NoOther == \A k \in 1..5 : Frequencies[k] # "other"
  BY DEF Frequencies

(* The lanes of a run of payments in one rhythm, at one price and then at  *)
(* another, are merged into one.                                           *)
LEMMA PriceLanesMerge ==
    ASSUME MaxPayments \in Nat \ {0}, NEW S, NEW ev \in Seq(S), NEW n \in Nat, n >= 2, Len(ev) = n,
           NEW k \in 1..5, Rhythmic(ev, k), InOrderOfDays(ev),
           NEW p, NEW q, NEW c, AtTwoPrices(ev, p, q, c)
    PROVE  MergePriceLanes(InitialAmountLanes(ev)) = <<ev>>
<1>1. p \in Nat /\ q \in Nat /\ c \in 0..n
      /\ \A i \in 1..n : ev[i].amount = IF i <= c THEN p ELSE q
  BY DEF AtTwoPrices
<1>2. AmountClose(p, p) /\ AmountClose(q, q) /\ (AmountClose(p, q) <=> AmountClose(q, p))
  BY <1>1, CloseIs
<1>3. CASE c = 0 \/ c = n \/ AmountClose(p, q)
  <2>1. Near(ev, 1, n)
    BY <1>1, <1>2, <1>3 DEF Near
  <2>2. InitialAmountLanes(ev) = <<ev>>
    BY <2>1, OneLane
  <2>3. MergeRound(<<ev>>) = <<ev>>
    BY OneLaneStays
  <2> QED
    BY <2>2, <2>3, MergesTo
<1>4. CASE c # 0 /\ c # n /\ ~AmountClose(p, q)
  <2> DEFINE a == SubSeq(ev, 1, c)
             b == SubSeq(ev, c + 1, n)
  <2>1. c \in 1..(n - 1)
    BY <1>1, <1>4
  <2>2. Near(ev, 1, c) /\ Near(ev, c + 1, n)
    BY <1>1, <1>2, <2>1 DEF Near
  <2>3. \A i \in 1..c, j \in (c + 1)..n : ~AmountClose(ev[i].amount, ev[j].amount)
    BY <1>1, <1>4, <2>1
  <2>4. InitialAmountLanes(ev) = <<a, b>>
    BY <2>1, <2>2, <2>3, TwoLanes
  <2>5. /\ a \in Seq(S) /\ Len(a) = c /\ a[c] = ev[c]
        /\ b \in Seq(S) /\ Len(b) = n - c /\ b[1] = ev[c + 1]
    <3>1. a \in Seq(S) /\ Len(a) = c /\ a[c] = ev[c]
      BY <2>1
    <3>2. b \in Seq(S) /\ Len(b) = n - c /\ b[1] = ev[c + 1]
      <4>1. \A i \in (c + 1)..n : ev[i] \in S
        BY <2>1
      <4>2. c + 1 \in Int /\ n \in Int /\ c + 1 <= n /\ n - (c + 1) + 1 = n - c
            /\ 1 \in 1..(n - (c + 1) + 1) /\ (c + 1) + 1 - 1 = c + 1
        BY <2>1
      <4> QED
        BY <4>1, <4>2, SubSeqProperties
    <3> QED
      BY <3>1, <3>2
  <2>6. a \o b = ev
    <3>1. 1 \in 1..(Len(ev) + 1) /\ c \in (1 - 1)..Len(ev) /\ n \in c..Len(ev)
      BY <2>1
    <3>2. a \o b = SubSeq(ev, 1, n)
      BY <3>1, ConcatAdjacentSubSeq
    <3>3. SubSeq(ev, 1, n) = ev
      BY SubSeqFull
    <3> QED
      BY <3>2, <3>3
  <2> HIDE DEF a, b
  <2>7. Last(a).on < Head(b).on
    <3>1. Last(a) = ev[c] /\ Head(b) = ev[c + 1] /\ c \in 1..n /\ c + 1 \in 1..n
      BY <2>1, <2>5 DEF Last
    <3> QED
      BY <3>1 DEF InOrderOfDays
  <2>8. Together(a, b) = ev
    BY <2>6, <2>7 DEF Together
  <2>9. DetectFrequency(ev) = [frequency |-> Frequencies[k], matches |-> n - 1]
    BY RhythmDetected
  <2>10. Steady(DetectFrequency(ev), n - 1)
    BY <2>9, NoOther DEF Steady
  <2>11. Mergeable(a, b)
    <3>1. Len(a) + Len(b) - 1 = n - 1
      BY <2>1, <2>5
    <3> QED
      BY <2>7, <2>8, <2>10, <3>1 DEF Mergeable
  <2>12. MergeRound(<<a, b>>) = <<ev>>
    BY <2>8, <2>11, TwoLanesJoin
  <2>13. MergeRound(<<ev>>) = <<ev>>
    BY OneLaneStays
  <2> QED
    BY <2>4, <2>12, <2>13, MergesTo
<1> QED
  BY <1>1, <1>3, <1>4

(* Such a run, if it is long enough, is reported as one series, which      *)
(* names its rhythm, all of its payments and the last of its amounts.      *)
LEMMA RunReported ==
    ASSUME MaxPayments \in Nat \ {0}, NEW S, NEW ev \in Seq(S), NEW n \in Nat, n >= 2, Len(ev) = n,
           NEW k \in 1..5, Rhythmic(ev, k), InOrderOfDays(ev),
           NEW p, NEW q, NEW c, AtTwoPrices(ev, p, q, c),
           n >= Needed(Frequencies[k]),
           NEW start, NEW end, PaymentEvents(start, end) = ev
    PROVE  LET report == SummarizeRecurringExpenses(start, end)
               f == Frequencies[k]
           IN  /\ Len(report) = 1
               /\ report[1].frequency = f
               /\ report[1].occurrences = n
               /\ report[1].amounts.latest = ev[n].amount
               /\ report[1].expected = AddFrequency(ev[n].on, f)
               /\ report[1].active <=> ~InactiveAt(end, AddFrequency(ev[n].on, f), f)
<1>1. MergePriceLanes(InitialAmountLanes(ev)) = <<ev>>
  BY PriceLanesMerge
<1>2. DetectFrequency(ev).frequency = Frequencies[k]
  BY RhythmDetected
<1>3. IsSeries(ev)
  BY <1>2, NoOther DEF IsSeries
<1>4. SummarizeRecurringExpenses(start, end) = <<Series(ev, end)>>
  BY <1>1, <1>3, OneSeries
<1>5. Last(ev) = ev[n]
  BY DEF Last
<1>6. EstablishedAmounts(ev).latest = ev[n].amount
  BY <1>5 DEF EstablishedAmounts
<1> DEFINE x == Series(ev, end)
<1>7. /\ x.frequency = Frequencies[k] /\ x.occurrences = n
      /\ x.amounts = EstablishedAmounts(ev)
      /\ x.expected = AddFrequency(ev[n].on, Frequencies[k])
      /\ x.active <=> ~InactiveAt(end, AddFrequency(ev[n].on, Frequencies[k]), Frequencies[k])
  BY <1>2, <1>5 DEF Series
<1> HIDE DEF x
<1>8. Len(<<x>>) = 1 /\ <<x>>[1] = x
  OBVIOUS
<1> QED
  BY <1>4, <1>6, <1>7, <1>8 DEF x

-----------------------------------------------------------------------------
(***************************************************************************)
(* The dates of a schedule.  A payment that is late by no more             *)
(* than the tolerance of its frequency keeps the intervals between         *)
(* payments within those the heuristic matches.                            *)
(***************************************************************************)
\* Frequencies that count days, and those that count months.
ByDays == {"weekly", "biweekly"}
ByMonths == {"monthly", "quarterly", "yearly"}

\* The schedules a biller may have.
Schedules == [frequency : Range(Frequencies), day : 1..31, price : Nat \ (0..5),
              raised : Nat \ (0..5), split : BOOLEAN]

\* How late a payment may be without the heuristic losing the rhythm: the drift
\* that intervalMatches accepts.  A short month takes nothing from it, because the
\* days that it clamps are less apart than that.
Tolerance == [weekly |-> 2, biweekly |-> 2, monthly |-> 7, quarterly |-> 10, yearly |-> 15]

\* Billers are no later than the heuristic tolerates.
Punctual == \A b \in Bills : Lateness \subseteq 0..Tolerance[b.frequency]

\* The day the n-th bill was paid on.
PaidOn(x, n, late) ==
    /\ x = Due(n) + late /\ late \in 0..Tolerance[bill.frequency]
    /\ bill.frequency \in ByMonths => DayIn(x, n * StepOf[bill.frequency])

LEMMA FrequencyCases == bill \in Schedules =>
    /\ bill.day \in 1..31
    /\ bill.frequency \in ByDays \cup ByMonths /\ ByDays \cap ByMonths = {}
<1> SUFFICES ASSUME bill \in Schedules
             PROVE  bill.day \in 1..31 /\ bill.frequency \in ByDays \cup ByMonths
  BY DEF ByDays, ByMonths
<1>1. bill.day \in 1..31 /\ bill.frequency \in Range(Frequencies)
  BY DEF Schedules
<1>2. Range(Frequencies) = {Frequencies[i] : i \in 1..5}
  BY DEF Range, Frequencies
<1>3. \A i \in 1..5 : Frequencies[i] \in ByDays \cup ByMonths
  BY DEF Frequencies, ByDays, ByMonths
<1> QED
  BY <1>1, <1>2, <1>3

\* The day of a month a bill is due on, short months included.
Clamped(day, m) == IF day < MonthLength(m) THEN day ELSE MonthLength(m)

LEMMA InMonthIs ==
    ASSUME NEW day \in 1..31, NEW m \in 0..59
    PROVE  /\ Clamped(day, m) \in 1..MonthLength(m) /\ MonthLength(m) \in 28..31
           /\ FirstOf[m] \in Nat
           /\ InMonth(day, m) = FirstOf[m] + Clamped(day, m) - 1
           /\ DayIn(InMonth(day, m), m)
           /\ InMonth(day, m) \in Nat
<1>1. MonthLength(m) \in 28..31 /\ FirstOf[m] \in Nat
  BY MonthLengths, CalendarIs
<1>2. InMonth(day, m) = FirstOf[m] + Clamped(day, m) - 1
  BY DEF InMonth, Clamped
<1>3. Clamped(day, m) \in 1..MonthLength(m)
  BY <1>1 DEF Clamped
<1> QED
  BY <1>1, <1>2, <1>3 DEF DayIn

LEMMA EndsIs == \A m, day : DateIn(m, day).ends <=> (day = MonthLength(m))
  BY DEF DateIn

(* A date a number of months later, and again.                             *)
LEMMA AddMonthsIs ==
    ASSUME NEW d, NEW m, DayIn(d, m), NEW s \in 1..12, m + s <= 59
    PROVE  LET day == d - FirstOf[m] + 1
               later == IF day = MonthLength(m) THEN 31 ELSE day
           IN  /\ day \in 1..31 /\ day <= MonthLength(m) /\ later \in 1..31 /\ m + s \in 0..59
               /\ AddMonths(UtcDate[d], s) = InMonth(later, m + s)
               /\ AddMonths(UtcDate[d], s) = FirstOf[m + s] + Clamped(later, m + s) - 1
               /\ DayIn(AddMonths(UtcDate[d], s), m + s)
<1> DEFINE day == d - FirstOf[m] + 1
           later == IF day = MonthLength(m) THEN 31 ELSE day
<1>1. m \in 0..59 /\ d \in Int /\ FirstOf[m] \in Nat /\ MonthLength(m) \in 28..31 /\ m + s \in 0..59
  BY CalendarIs, MonthLengths DEF DayIn
<1>2. day \in 1..31 /\ day <= MonthLength(m) /\ later \in 1..31
  BY <1>1 DEF DayIn
<1>3. UtcDate[d] = [month |-> m, day |-> day, ends |-> day = MonthLength(m)]
  BY DateIs
<1> HIDE DEF day
<1>4. AddMonths(UtcDate[d], s) = InMonth(later, m + s)
  <2>1. UtcDate[d].month = m /\ UtcDate[d].day = day
    BY <1>3
  <2>3. UtcDate[d].ends <=> day = MonthLength(m)
    <3>1. UtcDate[d] = DateIn(m, day)
      BY <1>3 DEF DateIn
    <3> QED
      BY <3>1, EndsIs
  <2>2. AddMonths(UtcDate[d], s)
            = InMonth(IF UtcDate[d].ends THEN 31 ELSE UtcDate[d].day, UtcDate[d].month + s)
    BY DEF AddMonths
  <2> QED
    BY <2>1, <2>2, <2>3
<1> HIDE DEF later
<1>5. /\ InMonth(later, m + s) = FirstOf[m + s] + Clamped(later, m + s) - 1
      /\ DayIn(InMonth(later, m + s), m + s)
  BY <1>1, <1>2, InMonthIs, ZenonT(20)
<1> QED
  BY <1>1, <1>2, <1>4, <1>5 DEF day, later

(* A bill that was paid in the month it was due is expected next no sooner *)
(* than it is due, and off by no more than lateness and a short month; the *)
(* second next payment as well.                                            *)
LEMMA NextMonths ==
    ASSUME NEW day \in 1..31, NEW m \in 0..35, NEW s \in 1..12, NEW late \in Nat,
           NEW x, x = InMonth(day, m) + late, DayIn(x, m)
    PROVE  LET expected == AddMonths(UtcDate[x], s)
               next == InMonth(day, m + s)
               second == AddMonths(UtcDate[expected], s)
           IN  /\ expected \in Int /\ next \in Int /\ second \in Int
               /\ AddMonths(UtcDate[next], s) \in Int /\ InMonth(day, m + 2 * s) \in Int
               /\ expected - next \in 0..(3 + late)
               /\ AddMonths(UtcDate[next], s) <= second
               /\ second <= InMonth(day, m + 2 * s) + 3 + late
<1> DEFINE expected == AddMonths(UtcDate[x], s)
           next == InMonth(day, m + s)
           second == AddMonths(UtcDate[expected], s)
           other == AddMonths(UtcDate[next], s)
           after == InMonth(day, m + 2 * s)
           x1 == x - FirstOf[m] + 1
           l1 == IF x1 = MonthLength(m) THEN 31 ELSE x1
           m2 == m + s
           m3 == m + 2 * s
           e1 == Clamped(l1, m2)
           l2 == IF e1 = MonthLength(m2) THEN 31 ELSE e1
           n1 == Clamped(day, m2)
           l3 == IF n1 = MonthLength(m2) THEN 31 ELSE n1
<1>1. /\ m \in 0..59 /\ m2 \in 0..47 /\ m2 \in 0..59 /\ m3 \in 0..59 /\ m2 + s = m3
      /\ m2 + s <= 59 /\ m + s <= 59
  OBVIOUS
<1> HIDE DEF m2, m3
<1>2. /\ x1 = Clamped(day, m) + late /\ Clamped(day, m) \in 1..MonthLength(m)
      /\ MonthLength(m) \in 28..31
  <2>1. /\ InMonth(day, m) = FirstOf[m] + Clamped(day, m) - 1
        /\ Clamped(day, m) \in 1..MonthLength(m) /\ MonthLength(m) \in 28..31 /\ FirstOf[m] \in Nat
    BY <1>1, InMonthIs, ZenonT(20)
  <2> QED
    BY <2>1
<1>3. /\ x1 \in 1..31 /\ x1 <= MonthLength(m) /\ l1 \in 1..31
      /\ expected = FirstOf[m2] + e1 - 1 /\ DayIn(expected, m2)
  BY <1>1, AddMonthsIs DEF m2
<1>4. /\ next = FirstOf[m2] + n1 - 1 /\ DayIn(next, m2) /\ n1 \in 1..MonthLength(m2)
      /\ MonthLength(m2) \in 28..31 /\ FirstOf[m2] \in Nat
  BY <1>1, InMonthIs, ZenonT(20) DEF m2
<1>5. e1 \in 1..MonthLength(m2)
  BY <1>1, <1>3, InMonthIs, ZenonT(20)
<1> HIDE DEF x1, e1, n1, expected, next
<1>6. second = FirstOf[m3] + Clamped(l2, m3) - 1 /\ l2 \in 1..31
  <2> DEFINE d == expected - FirstOf[m2] + 1
             e == IF d = MonthLength(m2) THEN 31 ELSE d
  <2>1. d = e1
    BY <1>3, <1>4, <1>5
  <2>2. AddMonths(UtcDate[expected], s) = FirstOf[m2 + s] + Clamped(e, m2 + s) - 1 /\ e \in 1..31
    BY <1>1, <1>3, AddMonthsIs
  <2>3. e = l2
    BY <2>1
  <2> HIDE DEF d, e
  <2> QED
    BY <1>1, <2>2, <2>3
<1>7. other = FirstOf[m3] + Clamped(l3, m3) - 1 /\ l3 \in 1..31
  <2> DEFINE d == next - FirstOf[m2] + 1
             e == IF d = MonthLength(m2) THEN 31 ELSE d
  <2>1. d = n1 /\ DayIn(next, m2)
    BY <1>4
  <2>2. AddMonths(UtcDate[next], s) = FirstOf[m2 + s] + Clamped(e, m2 + s) - 1 /\ e \in 1..31
    BY <1>1, <2>1, AddMonthsIs
  <2>3. e = l3
    BY <2>1
  <2> HIDE DEF d, e
  <2> QED
    BY <1>1, <2>2, <2>3
<1>8. /\ after = FirstOf[m3] + Clamped(day, m3) - 1
      /\ MonthLength(m3) \in 28..31 /\ FirstOf[m3] \in Nat
  BY <1>1, InMonthIs, ZenonT(20) DEF m3
<1> HIDE DEF second, other, after
<1>9. l1 >= day /\ (l1 <= day + late \/ day >= 28 - late)
  BY <1>2, <1>3 DEF Clamped
<1> HIDE DEF l1
<1>10. e1 - n1 \in 0..(3 + late)
  BY <1>2, <1>3, <1>4, <1>5, <1>9 DEF e1, n1, Clamped
<1>11. l2 >= l3
  BY <1>4, <1>5, <1>10
<1>12. Clamped(l2, m3) \in Int /\ Clamped(l3, m3) \in Int /\ Clamped(day, m3) \in Int
  BY <1>6, <1>7, <1>8 DEF Clamped
<1>13. Clamped(l3, m3) <= Clamped(l2, m3)
  <2> HIDE DEF l2, l3
  <2> QED
    BY <1>6, <1>7, <1>8, <1>11 DEF Clamped
<1>14. Clamped(l2, m3) <= Clamped(day, m3) + 3 + late
  <2>1. e1 \in 1..31 /\ e1 <= l1
    BY <1>3, <1>4, <1>5 DEF e1, Clamped
  <2>2. CASE e1 = MonthLength(m2)
    <3>1. day >= 28 - late
      BY <1>2, <1>3, <1>4, <1>9, <2>1, <2>2
    <3> QED
      BY <1>6, <1>8, <3>1 DEF Clamped
  <2>3. CASE e1 # MonthLength(m2)
    <3>1. l2 = e1
      BY <2>3
    <3>2. l2 <= day + late \/ day >= 28 - late
      BY <1>3, <1>9, <2>1, <3>1
    <3> HIDE DEF l2
    <3> QED
      BY <1>6, <1>8, <3>2 DEF Clamped
  <2> QED
    BY <2>2, <2>3
<1>15. second <= after + 3 + late /\ other <= second
  BY <1>6, <1>7, <1>8, <1>12, <1>13, <1>14
<1>16. expected \in Int /\ next \in Int /\ second \in Int /\ other \in Int /\ after \in Int
  BY <1>3, <1>4, <1>5, <1>6, <1>7, <1>8, <1>12
<1>17. expected - next \in 0..(3 + late)
  BY <1>3, <1>4, <1>5, <1>10
<1> QED
  BY <1>15, <1>16, <1>17 DEF expected, next, second, other, after, m2, m3

(* What the frequency of a schedule means for its dates.                   *)
LEMMA ByDaysIs ==
    ASSUME bill \in Schedules, bill.frequency \in ByDays
    PROVE  /\ \/ bill.frequency = "weekly" /\ StepOf[bill.frequency] = 7
                 /\ Tolerance[bill.frequency] = 2
              \/ bill.frequency = "biweekly" /\ StepOf[bill.frequency] = 14
                 /\ Tolerance[bill.frequency] = 2
           /\ \A n : Due(n) = bill.day + n * StepOf[bill.frequency]
           /\ \A d : AddFrequency(d, bill.frequency) = d + StepOf[bill.frequency]
           /\ bill.frequency \notin ByMonths
<1>1. \A n : Due(n) = bill.day + n * StepOf[bill.frequency]
  BY DEF ByDays, Due
<1>2. \A d : AddFrequency(d, bill.frequency) = d + StepOf[bill.frequency]
  BY DEF ByDays, AddFrequency
<1>3. bill.frequency \notin ByMonths
  BY DEF ByDays, ByMonths
<1> QED
  BY <1>1, <1>2, <1>3 DEF ByDays, StepOf, Tolerance

LEMMA ByMonthsIs ==
    ASSUME bill \in Schedules, bill.frequency \in ByMonths
    PROVE  /\ \/ bill.frequency = "monthly" /\ StepOf[bill.frequency] = 1
                 /\ Tolerance[bill.frequency] = 7
              \/ bill.frequency = "quarterly" /\ StepOf[bill.frequency] = 3
                 /\ Tolerance[bill.frequency] = 10
              \/ bill.frequency = "yearly" /\ StepOf[bill.frequency] = 12
                 /\ Tolerance[bill.frequency] = 15
           /\ \A n : Due(n) = InMonth(bill.day, n * StepOf[bill.frequency])
           /\ \A d : AddFrequency(d, bill.frequency) = AddMonths(UtcDate[d], StepOf[bill.frequency])
           /\ bill.frequency \notin ByDays
<1>1. bill.frequency \notin ByDays
  BY DEF ByDays, ByMonths
<1>2. \A n : Due(n) = InMonth(bill.day, n * StepOf[bill.frequency])
  BY <1>1 DEF ByDays, Due
<1>3. \A d : AddFrequency(d, bill.frequency) = AddMonths(UtcDate[d], StepOf[bill.frequency])
  BY <1>1 DEF ByDays, AddFrequency
<1> QED
  BY <1>1, <1>2, <1>3 DEF ByMonths, StepOf, Tolerance

(* Payments are in the order of the dates they were due on.                *)
LEMMA Timely ==
    ASSUME bill \in Schedules, NEW i \in Nat, NEW j \in Nat, i < j,
           NEW x, NEW y, NEW k, NEW l, PaidOn(x, i, k), PaidOn(y, j, l)
    PROVE  x \in Int /\ y \in Int /\ x < y
<1>1. bill.day \in 1..31 /\ bill.frequency \in ByDays \cup ByMonths
  BY FrequencyCases
<1>2. CASE bill.frequency \in ByDays
  <2>1. /\ x = bill.day + i * StepOf[bill.frequency] + k /\ k \in 0..Tolerance[bill.frequency]
        /\ y = bill.day + j * StepOf[bill.frequency] + l /\ l \in 0..Tolerance[bill.frequency]
    BY <1>2, ByDaysIs DEF PaidOn
  <2>2. CASE StepOf[bill.frequency] = 7 /\ Tolerance[bill.frequency] = 2
    BY <1>1, <2>1, <2>2
  <2>3. CASE StepOf[bill.frequency] = 14 /\ Tolerance[bill.frequency] = 2
    BY <1>1, <2>1, <2>3
  <2> QED
    BY <1>2, <2>2, <2>3, ByDaysIs
<1>3. CASE bill.frequency \in ByMonths
  <2> DEFINE s == StepOf[bill.frequency]
  <2>1. DayIn(x, i * s) /\ DayIn(y, j * s)
    BY <1>3 DEF PaidOn
  <2>2. s \in {1, 3, 12}
    BY <1>3, ByMonthsIs
  <2>3. i * s < j * s /\ i * s \in 0..59 /\ j * s \in 0..59
    <3>1. i * s < j * s
      BY <2>2
    <3> QED
      BY <2>1, <3>1 DEF DayIn
  <2> HIDE DEF s
  <2> DEFINE m == i * s
             o == j * s
  <2>4. m < o /\ m \in 0..60 /\ o \in 0..60 /\ DayIn(x, m) /\ DayIn(y, o)
    BY <2>1, <2>3
  <2> HIDE DEF m, o
  <2>5. FirstOf[m] + MonthLength(m) <= FirstOf[o] /\ MonthLength(m) \in 28..31
        /\ FirstOf[m] \in Nat /\ FirstOf[o] \in Nat
    <3>1. FirstOf[m] + MonthLength(m) <= FirstOf[o]
      BY <2>4, MonthsFollow, ZenonT(20)
    <3>2. m \in Int /\ o \in Int
      BY <2>4
    <3> QED
      BY <2>4, <3>1, <3>2, CalendarIs, MonthLengths
  <2> QED
    BY <2>4, <2>5 DEF DayIn
<1> QED
  BY <1>1, <1>2, <1>3

(* In the first three years a bill is paid in one of 36 months.            *)
LEMMA MonthsBounded ==
    ASSUME bill \in Schedules, bill.frequency \in ByMonths, NEW n \in Nat,
           NEW x, DayIn(x, n * StepOf[bill.frequency]), x < FirstOf[36]
    PROVE  n * StepOf[bill.frequency] \in 0..35
<1> DEFINE m == n * StepOf[bill.frequency]
<1>1. DayIn(x, m)
  OBVIOUS
<1> HIDE DEF m
<1>2. m \in 0..60 /\ 36 \in 0..60
  BY <1>1 DEF DayIn
<1>3. 36 < m => FirstOf[36] + MonthLength(36) <= FirstOf[m]
  BY <1>2, MonthsFollow, ZenonT(20)
<1>4. MonthLength(36) \in 28..31 /\ FirstOf[36] \in Nat /\ FirstOf[m] \in Nat
  BY <1>2, CalendarIs, MonthLengths
<1>5. ~(36 <= m)
  BY <1>1, <1>2, <1>3, <1>4 DEF DayIn
<1>6. m \in 0..35
  BY <1>2, <1>5
<1> QED
  BY <1>6 DEF m

\* The event of an outgoing sum on a day.
IsEvent(a, x) == a.on = x /\ a.date = UtcDate[x]

(* Successive payments are an interval of the bill's frequency, and of no  *)
(* frequency that comes before it.                                         *)
LEMMA DaysApart ==
    ASSUME bill \in Schedules, bill.frequency \in ByDays, NEW n \in Nat,
           NEW x, NEW y, NEW k, NEW l, PaidOn(x, n, k), PaidOn(y, n + 1, l)
    PROVE  /\ x \in Int /\ y \in Int
           /\ \/ bill.frequency = "weekly" /\ y - x \in 5..9
              \/ bill.frequency = "biweekly" /\ y - x \in 12..16
<1>1. bill.day \in 1..31
  BY FrequencyCases
<1>2. /\ x = bill.day + n * StepOf[bill.frequency] + k /\ k \in 0..Tolerance[bill.frequency]
      /\ y = bill.day + (n + 1) * StepOf[bill.frequency] + l /\ l \in 0..Tolerance[bill.frequency]
  BY ByDaysIs DEF PaidOn
<1>3. CASE bill.frequency = "weekly"
  <2>1. StepOf[bill.frequency] = 7 /\ Tolerance[bill.frequency] = 2
    BY <1>3, ByDaysIs
  <2> QED
    BY <1>1, <1>2, <1>3, <2>1
<1>4. CASE bill.frequency = "biweekly"
  <2>1. StepOf[bill.frequency] = 14 /\ Tolerance[bill.frequency] = 2
    BY <1>4, ByDaysIs
  <2> QED
    BY <1>1, <1>2, <1>4, <2>1
<1> QED
  BY <1>3, <1>4, ByDaysIs

LEMMA MonthsApart ==
    ASSUME bill \in Schedules, bill.frequency \in ByMonths, NEW n \in Nat,
           NEW x, NEW y, NEW k, NEW l, PaidOn(x, n, k), PaidOn(y, n + 1, l)
    PROVE  /\ x \in Int /\ y \in Int /\ ~(y - x <= 16)
           /\ UtcDate[y].month - UtcDate[x].month = StepOf[bill.frequency]
           /\ Apart(UtcDate[x].day, UtcDate[y].day) <= Tolerance[bill.frequency]
<1> DEFINE s == StepOf[bill.frequency]
           t == Tolerance[bill.frequency]
           m == n * s
           day == bill.day
<1>1. s \in {1, 3, 12} /\ t \in {7, 10, 15} /\ (s = 1 => t = 7) /\ day \in 1..31
  BY ByMonthsIs, FrequencyCases
<1>2. (n + 1) * s = m + s /\ m \in Nat
  BY <1>1
<1>3. /\ DayIn(x, m) /\ x = InMonth(day, m) + k /\ k \in 0..t
      /\ DayIn(y, m + s) /\ y = InMonth(day, m + s) + l /\ l \in 0..t
  <2>1. /\ DayIn(x, m) /\ x = Due(n) + k /\ k \in 0..t
        /\ DayIn(y, (n + 1) * s) /\ y = Due(n + 1) + l /\ l \in 0..t
    BY DEF PaidOn
  <2>2. Due(n) = InMonth(day, m) /\ Due(n + 1) = InMonth(day, (n + 1) * s)
    BY ByMonthsIs
  <2> HIDE DEF m, s, t, day
  <2> QED
    BY <1>2, <2>1, <2>2
<1> HIDE DEF m, s, t, day
<1> DEFINE r == m + s
<1>4. m \in 0..59 /\ r \in 0..59 /\ m + 1 <= r /\ x \in Int /\ y \in Int /\ DayIn(y, r)
  BY <1>1, <1>2, <1>3 DEF DayIn
<1>5. /\ FirstOf[m] \in Nat /\ MonthLength(m) \in 28..31 /\ FirstOf[r] \in Nat
      /\ Clamped(day, m) \in 1..MonthLength(m) /\ InMonth(day, m) = FirstOf[m] + Clamped(day, m) - 1
      /\ MonthLength(r) \in 28..31
      /\ Clamped(day, r) \in 1..MonthLength(r) /\ InMonth(day, r) = FirstOf[r] + Clamped(day, r) - 1
  BY <1>1, <1>4, InMonthIs, ZenonT(20)
<1>6. /\ UtcDate[x].month = m /\ UtcDate[x].day = x - FirstOf[m] + 1
      /\ UtcDate[y].month = r /\ UtcDate[y].day = y - FirstOf[r] + 1
  <2>1. UtcDate[x] = [month |-> m, day |-> x - FirstOf[m] + 1,
                      ends |-> x - FirstOf[m] + 1 = MonthLength(m)]
    BY <1>3, DateIs
  <2>2. UtcDate[y] = [month |-> r, day |-> y - FirstOf[r] + 1,
                      ends |-> y - FirstOf[r] + 1 = MonthLength(r)]
    BY <1>4, DateIs
  <2> QED
    BY <2>1, <2>2
<1>7. FirstOf[m] + 28 <= FirstOf[r] /\ (s # 1 => FirstOf[m] + 56 <= FirstOf[r])
  <2>1. m < r /\ m \in 0..60 /\ r \in 0..60 /\ m + 1 \in 1..60 /\ m + 1 \in 0..60 /\ (m + 1) - 1 = m
    BY <1>4
  <2>2. FirstOf[m] + MonthLength(m) <= FirstOf[r]
    BY <2>1, MonthsFollow, ZenonT(20)
  <2>3. FirstOf[m + 1] = FirstOf[m] + MonthLength(m) /\ MonthLength(m + 1) \in 28..31
    BY <2>1, CalendarIs, MonthLengths
  <2>4. s # 1 => FirstOf[m + 1] + MonthLength(m + 1) <= FirstOf[r]
    <3>1. s # 1 => m + 1 < r
      BY <1>1, <1>2
    <3> QED
      BY <2>1, <3>1, MonthsFollow, ZenonT(20)
  <2> QED
    BY <1>5, <2>2, <2>3, <2>4
<1>8. Clamped(day, m) - Clamped(day, r) \in (-3)..3
  BY <1>1, <1>5 DEF Clamped
<1> HIDE DEF r
<1>9. x - FirstOf[m] + 1 = Clamped(day, m) + k /\ y - FirstOf[r] + 1 = Clamped(day, r) + l
  <2>1. y = InMonth(day, r) + l
    BY <1>3 DEF r
  <2> QED
    BY <1>1, <1>3, <1>4, <1>5, <2>1
<1>10. Apart(UtcDate[x].day, UtcDate[y].day) <= t
  <2> DEFINE dx == Clamped(day, m) + k
             dy == Clamped(day, r) + l
  <2>1. dx \in 1..31 /\ dy \in 1..31
    <3>1. dx = x - FirstOf[m] + 1 /\ x - FirstOf[m] + 1 \in 1..MonthLength(m)
      BY <1>3, <1>4, <1>5, <1>9 DEF DayIn
    <3>2. dy = y - FirstOf[r] + 1 /\ y - FirstOf[r] + 1 \in 1..MonthLength(r)
      BY <1>4, <1>5, <1>9 DEF DayIn
    <3> QED
      BY <1>5, <3>1, <3>2
  <2>2. UtcDate[x].day = dx /\ UtcDate[y].day = dy
    BY <1>6, <1>9
  <2>3. CASE day <= 28
    <3>1. Clamped(day, m) = day /\ Clamped(day, r) = day
      BY <1>1, <1>5, <2>3 DEF Clamped
    <3>2. dx - dy \in (-t)..t
      BY <1>1, <1>3, <3>1
    <3> HIDE DEF dx, dy
    <3> QED
      BY <1>1, <2>1, <2>2, <3>2 DEF Apart
  <2>4. CASE day > 28
    <3>1. Clamped(day, m) >= 28 /\ Clamped(day, r) >= 28
      BY <1>1, <1>5, <2>4 DEF Clamped
    <3>2. dx \in 28..31 /\ dy \in 28..31
      BY <1>1, <1>3, <1>5, <2>1, <3>1
    <3> HIDE DEF dx, dy
    <3> QED
      BY <1>1, <2>2, <3>2 DEF Apart
  <2> QED
    BY <1>1, <2>3, <2>4
<1>11. y - x > 16
  <2>1. y - x = (FirstOf[r] - FirstOf[m]) + (Clamped(day, r) + l) - (Clamped(day, m) + k)
    BY <1>1, <1>3, <1>4, <1>5, <1>9
  <2>2. CASE s = 1
    BY <1>1, <1>3, <1>5, <1>7, <1>8, <2>1, <2>2
  <2>3. CASE s # 1
    BY <1>1, <1>3, <1>5, <1>7, <1>8, <2>1, <2>3
  <2> QED
    BY <2>2, <2>3
<1>12. UtcDate[y].month - UtcDate[x].month = s
  BY <1>1, <1>2, <1>6 DEF r
<1> QED
  BY <1>4, <1>10, <1>11, <1>12 DEF s, t

-----------------------------------------------------------------------------
(***************************************************************************)
(* The invariant of a biller.                                              *)
(***************************************************************************)
(* The sum of the outgoing legs of a posting of one leg, and of a split.   *)
LEMMA OutgoingOne ==
    ASSUME NEW on, NEW kind, NEW amount \in Int
    PROVE  Outgoing([on |-> on, legs |-> <<Leg(kind, amount)>>])
             = IF kind = "expense" /\ amount < 0 THEN -amount ELSE 0
<1> DEFINE e == [on |-> on, legs |-> <<Leg(kind, amount)>>]
           f == [i \in DOMAIN e.legs |-> Outflow(e.legs[i])]
           v == IF kind = "expense" /\ amount < 0 THEN -amount ELSE 0
<1>1. v \in Int /\ Outflow(Leg(kind, amount)) = v
  BY DEF Outflow, Leg
<1>2. DOMAIN e.legs = {1} /\ e.legs[1] = Leg(kind, amount)
  OBVIOUS
<1>3. f = [i \in {1} |-> Outflow(e.legs[i])] /\ f[1] = v /\ DOMAIN f = {1}
  BY <1>1, <1>2
<1>4. Outgoing(e) = SumFunctionOnSet(f, {1})
  BY <1>3 DEF Outgoing, SumFunction
<1> HIDE DEF e, f, v
<1>5. IsFiniteSet({1}) /\ \A x \in {1} : f[x] \in Int
  BY <1>1, <1>3, FS_Singleton
<1>6. SumFunctionOnSet(f, {1}) = f[1] + SumFunctionOnSet(f, {1} \ {1})
  BY <1>5, SumTakesOut
<1>7. {1} \ {1} = {} /\ SumFunctionOnSet(f, {}) = 0
  BY SumNone
<1> QED
  BY <1>1, <1>3, <1>4, <1>6, <1>7 DEF e, v

LEMMA OutgoingThree ==
    ASSUME NEW on, NEW a, NEW b, NEW c,
           Outflow(a) \in Int, Outflow(b) \in Int, Outflow(c) \in Int
    PROVE  Outgoing([on |-> on, legs |-> <<a, b, c>>]) = Outflow(a) + Outflow(b) + Outflow(c)
<1> DEFINE e == [on |-> on, legs |-> <<a, b, c>>]
           f == [i \in DOMAIN e.legs |-> Outflow(e.legs[i])]
           T(s) == SumFunctionOnSet(f, s)
<1>1. DOMAIN e.legs = {1, 2, 3} /\ e.legs[1] = a /\ e.legs[2] = b /\ e.legs[3] = c
  OBVIOUS
<1>2. f[1] = Outflow(a) /\ f[2] = Outflow(b) /\ f[3] = Outflow(c) /\ DOMAIN f = {1, 2, 3}
  BY <1>1
<1>3. Outgoing(e) = T({1, 2, 3})
  BY <1>2 DEF Outgoing, SumFunction
<1> HIDE DEF e, f
<1>4. /\ IsFiniteSet({1, 2, 3}) /\ IsFiniteSet({2, 3}) /\ IsFiniteSet({3})
      /\ \A x \in {1, 2, 3} : f[x] \in Int
  <2>1. IsFiniteSet({1, 2, 3})
    <3>1. 1..3 = {1, 2, 3} /\ 1 \in Int /\ 3 \in Int
      OBVIOUS
    <3>2. IsFiniteSet(1..3)
      BY <3>1, FS_Interval
    <3> QED
      BY <3>1, <3>2
  <2> QED
    BY <1>2, <2>1, FS_Subset
<1>5. T({1, 2, 3}) = f[1] + T({1, 2, 3} \ {1})
  BY <1>4, SumTakesOut
<1>6. T({2, 3}) = f[2] + T({2, 3} \ {2})
  BY <1>4, SumTakesOut
<1>7. T({3}) = f[3] + T({3} \ {3})
  BY <1>4, SumTakesOut
<1>8. /\ {1, 2, 3} \ {1} = {2, 3} /\ {2, 3} \ {2} = {3} /\ {3} \ {3} = {}
      /\ T({}) = 0
  BY SumNone
<1> HIDE DEF T
<1>9. f[1] \in Int /\ f[2] \in Int /\ f[3] \in Int
  BY <1>2
<1>10. T({3}) = f[3]
  BY <1>7, <1>8, <1>9
<1>11. T({2, 3}) = f[2] + f[3]
  BY <1>6, <1>8, <1>10
<1>12. T({1, 2, 3}) = f[1] + (f[2] + f[3])
  BY <1>5, <1>8, <1>11
<1> QED
  BY <1>2, <1>3, <1>9, <1>12 DEF e

\* When a schedule is due, when it was paid, in what order and at which prices.
DueOn(b, n) ==
    IF b.frequency \in {"weekly", "biweekly"}
    THEN b.day + n * StepOf[b.frequency]
    ELSE InMonth(b.day, n * StepOf[b.frequency])

PaidAt(b, x, n, late) ==
    /\ x = DueOn(b, n) + late /\ late \in 0..Tolerance[b.frequency]
    /\ b.frequency \in ByMonths => DayIn(x, n * StepOf[b.frequency])

InTime(b, paid) ==
    \A i \in 1..Len(paid) : \E late \in Lateness : PaidAt(b, paid[i].on, i - 1, late)

Priced(b, paid) ==
    \E c \in 0..Len(paid) :
        /\ c = 0 \/ b.price = b.raised
        /\ \A i \in 1..Len(paid) :
               /\ Outgoing(paid[i]) \in Nat
               /\ Outgoing(paid[i]) = IF i <= c THEN Outgoing(paid[1]) ELSE b.price

\* A payment is in the month it is due.
InItsMonth(b, paid) ==
    b.frequency \in ByMonths =>
        \A i \in 1..Len(paid) : DayIn(paid[i].on, (i - 1) * StepOf[b.frequency])

LastOn(posts) == IF posts = <<>> THEN 0 ELSE posts[Len(posts)].on

AllBy(posts, day) == \A i \in 1..Len(posts) : posts[i].on <= day

\* The inductive invariants, for every biller and for a punctual one.
BillTypes ==
    /\ bill \in Schedules /\ payments \in Seq(Postings) /\ today \in 0..LastDay
    /\ InItsMonth(bill, Paid)

BillInv ==
    /\ BillTypes /\ Lateness \subseteq 0..Tolerance[bill.frequency]
    /\ LastOn(payments) <= today /\ LastOn(payments) = LastOn(Paid)
    /\ AllBy(payments, LastOn(payments))
    /\ Len(Paid) <= MaxPayments /\ InTime(bill, Paid) /\ Priced(bill, Paid)

LEMMA DueIs ==
    /\ \A n : DueOn(bill, n) = Due(n)
    /\ \A x, n, k : PaidAt(bill, x, n, k) <=> PaidOn(x, n, k)
    /\ LastPosting = LastOn(payments)
<1>1. \A n : DueOn(bill, n) = Due(n)
  BY DEF DueOn, Due
<1> QED
  BY <1>1 DEF PaidAt, PaidOn, LastPosting, LastOn, Last

LEMMA RecurringTypes ==
    /\ MinOccurrences \in Nat \ {0, 1} /\ LookBack \in 1..60 /\ MaxPayments \in Nat
    /\ Lateness \subseteq Nat /\ Looks \subseteq Int /\ LastDay \in Nat /\ LastDay < FirstOf[36]
    /\ Bills \subseteq Schedules
<1>1. FirstOf[36] \in Nat
  BY CalendarIs
<1> QED
  BY <1>1, RecurringAssumption DEF Schedules

LEMMA PaidIs ==
    ASSUME payments \in Seq(Postings)
    PROVE  /\ Paid \in Seq(Postings) /\ Paid \in Seq(Expenses) /\ Len(Paid) \in Nat
           /\ \A i \in 1..Len(Paid) : /\ Paid[i] \in Postings /\ Paid[i] \in Expenses
                                      /\ Paid[i].on \in 0..LastDay
<1>1. Paid \in Seq(Postings \cap Expenses)
  BY FilterMembers DEF Paid
<1>2. Postings \cap Expenses = Expenses /\ Expenses \subseteq Postings
  BY DEF Expenses
<1>3. \A e \in Postings : e.on \in 0..LastDay
  BY DEF Postings
<1>4. Paid \in Seq(Expenses)
  BY <1>1, <1>2
<1> HIDE DEF Paid
<1>5. Len(Paid) \in Nat /\ \A i \in 1..Len(Paid) : Paid[i] \in Expenses
  BY <1>4
<1>6. Paid \in Seq(Postings)
  BY <1>2, <1>4
<1> QED
  BY <1>2, <1>3, <1>4, <1>5, <1>6

(* The next payments of a bill have dates in the calendar.                 *)
LEMMA NextDue ==
    ASSUME BillTypes
    PROVE  /\ \A m \in 0..2 : Due(Len(Paid) + m) \in Nat
           /\ Due(Len(Paid)) \in Nat
           /\ bill.frequency \in ByMonths =>
                  /\ Len(Paid) * StepOf[bill.frequency] \in 0..47
                  /\ DayIn(Due(Len(Paid)), Len(Paid) * StepOf[bill.frequency])
<1> DEFINE n == Len(Paid)
           s == StepOf[bill.frequency]
<1>1. /\ bill \in Schedules /\ n \in Nat /\ bill.day \in 1..31
      /\ bill.frequency \in ByDays \cup ByMonths
  BY PaidIs, FrequencyCases DEF BillTypes
<1>2. CASE bill.frequency \in ByDays
  <2>1. \A m \in 0..2 : Due(n + m) = bill.day + (n + m) * s /\ s \in {7, 14}
    BY <1>1, <1>2, ByDaysIs
  <2>2. bill.frequency \notin ByMonths
    BY <1>1, <1>2, ByDaysIs
  <2> HIDE DEF n, s
  <2>3. \A m \in 0..2 : Due(n + m) \in Nat
    <3> TAKE m \in 0..2
    <3>1. Due(n + m) = bill.day + (n + m) * s /\ s \in {7, 14} /\ n + m \in Nat
      BY <1>1, <2>1
    <3>2. (n + m) * s \in Nat
      BY <3>1
    <3> QED
      BY <1>1, <3>1, <3>2
  <2>4. Due(n) \in Nat
    <3>1. n = n + 0 /\ 0 \in 0..2
      BY <1>1
    <3> QED
      BY <2>3, <3>1
  <2> QED
    BY <2>2, <2>3, <2>4 DEF n
<1>3. CASE bill.frequency \in ByMonths
  <2>1. s \in {1, 3, 12} /\ \A m : Due(m) = InMonth(bill.day, m * s)
    BY <1>1, <1>3, ByMonthsIs
  <2>2. n # 0 => (n - 1) * s \in 0..35
    <3> SUFFICES ASSUME n # 0
                 PROVE  (n - 1) * s \in 0..35
      OBVIOUS
    <3>1. n \in 1..n /\ n - 1 \in Nat
      BY <1>1
    <3>2. DayIn(Paid[n].on, (n - 1) * s)
      BY <1>3, <3>1 DEF BillTypes, InItsMonth
    <3>3. Paid[n].on \in 0..LastDay
      BY <3>1, PaidIs DEF BillTypes
    <3>4. Paid[n].on < FirstOf[36]
      <4>1. FirstOf[36] \in Nat
        BY CalendarIs
      <4> QED
        BY <3>3, <4>1, RecurringTypes
    <3> QED
      BY <1>1, <1>3, <3>1, <3>2, <3>4, MonthsBounded
  <2> HIDE DEF n, s
  <2>3. n * s \in 0..47 /\ \A m \in 0..2 : (n + m) * s \in 0..60
    BY <1>1, <2>1, <2>2
  <2>4. \A m \in 0..60 : InMonth(bill.day, m) \in Nat
    <3> TAKE m \in 0..60
    <3>1. FirstOf[m] \in Nat /\ MonthLength(m) \in 28..31
      BY CalendarIs, MonthLengths
    <3> QED
      BY <1>1, <3>1 DEF InMonth
  <2>5. \A m \in 0..2 : Due(n + m) \in Nat
    BY <2>1, <2>3, <2>4
  <2>6. DayIn(Due(n), n * s) /\ Due(n) \in Nat
    <3>1. n * s \in 0..59
      BY <2>3
    <3>2. DayIn(InMonth(bill.day, n * s), n * s) /\ InMonth(bill.day, n * s) \in Nat
      BY <1>1, <3>1, InMonthIs, ZenonT(20)
    <3> QED
      BY <2>1, <3>2
  <2> QED
    BY <2>3, <2>5, <2>6 DEF n, s
<1> QED
  BY <1>1, <1>2, <1>3

LEMMA BillInitOk ==
    ASSUME BillInit
    PROVE  BillTypes /\ (Punctual => BillInv)
<1>1. bill \in Bills /\ payments = <<>> /\ today = 0
  BY DEF BillInit
<1>2. Paid = <<>>
  BY <1>1, FilterEmpty DEF Paid
<1>3. bill \in Schedules /\ (Punctual => Lateness \subseteq 0..Tolerance[bill.frequency])
  BY <1>1, RecurringTypes DEF Punctual
<1>4. payments \in Seq(Postings) /\ today \in 0..LastDay /\ Len(<<>>) = 0 /\ 0 <= MaxPayments
  BY <1>1, RecurringTypes
<1>5. LastOn(<<>>) = 0 /\ AllBy(<<>>, 0)
  BY DEF LastOn, AllBy
<1>6. InTime(bill, <<>>) /\ InItsMonth(bill, <<>>)
  BY DEF InTime, InItsMonth
<1>7. Priced(bill, <<>>)
  <2>1. 0 \in 0..Len(<<>>) /\ 1..Len(<<>>) = {}
    OBVIOUS
  <2> QED
    BY <2>1 DEF Priced
<1> QED
  BY <1>1, <1>2, <1>3, <1>4, <1>5, <1>6, <1>7 DEF BillTypes, BillInv

(* A date of another day of the calendar in the same month.                *)
LEMMA SameMonth ==
    ASSUME NEW x \in Nat, x < FirstOf[36], NEW d, NEW m, DayIn(d, m),
           UtcDate[x].month = UtcDate[d].month
    PROVE  DayIn(x, m)
<1>1. 36 \in 1..60
  OBVIOUS
<1>2. PICK k \in 0..35 : DayIn(x, k)
  BY <1>1, MonthFound
<1>3. UtcDate[x] = [month |-> k, day |-> x - FirstOf[k] + 1,
                    ends |-> x - FirstOf[k] + 1 = MonthLength(k)]
  BY <1>2, DateIs
<1>4. UtcDate[d] = [month |-> m, day |-> d - FirstOf[m] + 1,
                    ends |-> d - FirstOf[m] + 1 = MonthLength(m)]
  BY DateIs
<1>5. k = m
  BY <1>3, <1>4
<1> QED
  BY <1>2, <1>5

(* The payment of a bill has a date, in the month it was due; it is after  *)
(* those before it.                                                        *)
LEMMA PaymentDated ==
    ASSUME BillTypes, NEW late \in Lateness, PayBill(late)
    PROVE  LET on == Due(Len(Paid)) + late
           IN  /\ on \in 0..LastDay
               /\ bill.frequency \in ByMonths => DayIn(on, Len(Paid) * StepOf[bill.frequency])
<1> DEFINE n == Len(Paid)
           on == Due(n) + late
<1>1. bill \in Schedules /\ n \in Nat
  BY PaidIs DEF BillTypes
<1>2. /\ on <= LastDay
      /\ \/ bill.frequency \in {"weekly", "biweekly"}
         \/ UtcDate[on].month = UtcDate[Due(n)].month
  BY DEF PayBill
<1>3. Due(n) \in Nat /\ late \in Nat
  BY <1>1, NextDue, RecurringTypes
<1>4. on \in 0..LastDay /\ on < FirstOf[36]
  <2>1. FirstOf[36] \in Nat
    BY CalendarIs
  <2> QED
    BY <1>2, <1>3, <2>1, RecurringTypes
<1>5. bill.frequency \in ByMonths => DayIn(on, n * StepOf[bill.frequency])
  <2> SUFFICES ASSUME bill.frequency \in ByMonths
               PROVE  DayIn(on, n * StepOf[bill.frequency])
    OBVIOUS
  <2>1. bill.frequency \notin ByDays
    BY <1>1, ByMonthsIs
  <2>2. UtcDate[on].month = UtcDate[Due(n)].month
    BY <1>2, <2>1 DEF ByDays
  <2>3. DayIn(Due(n), n * StepOf[bill.frequency])
    BY NextDue
  <2> HIDE DEF on
  <2> QED
    BY <1>4, <2>2, <2>3, SameMonth
<1> QED
  BY <1>4, <1>5

LEMMA PaymentOnTime ==
    ASSUME BillInv, NEW late \in Lateness, PayBill(late)
    PROVE  LET on == Due(Len(Paid)) + late
           IN  /\ PaidOn(on, Len(Paid), late)
               /\ LastOn(payments) <= on /\ LastOn(payments) \in Nat
<1> DEFINE n == Len(Paid)
           on == Due(n) + late
<1>1. bill \in Schedules /\ n \in Nat /\ late \in 0..Tolerance[bill.frequency]
  BY PaidIs DEF BillTypes, BillInv
<1>2. on \in 0..LastDay /\ (bill.frequency \in ByMonths => DayIn(on, n * StepOf[bill.frequency]))
  BY PaymentDated DEF BillInv
<1>3. PaidOn(on, n, late)
  BY <1>1, <1>2 DEF PaidOn
<1>4. LastOn(payments) <= on /\ LastOn(payments) \in Nat
  <2>1. LastOn(payments) = LastOn(Paid)
    BY DEF BillInv
  <2>2. CASE Paid = <<>>
    BY <1>2, <2>1, <2>2 DEF LastOn
  <2>3. CASE Paid # <<>>
    <3>1. n # 0
      BY <2>3, PaidIs DEF BillTypes, BillInv
    <3>2. n \in 1..n /\ n - 1 \in Nat /\ n - 1 < n
      BY <1>1, <3>1
    <3>3. PICK l \in Lateness : PaidAt(bill, Paid[n].on, n - 1, l)
      BY <3>2 DEF BillInv, InTime
    <3>4. PaidOn(Paid[n].on, n - 1, l)
      BY <3>3, DueIs
    <3>5. Paid[n].on < on
      <4> HIDE DEF on, n
      <4> QED
        BY <1>1, <1>3, <3>2, <3>4, Timely
    <3>6. Paid[n].on \in 0..LastDay
      BY <3>2, PaidIs DEF BillTypes, BillInv
    <3> QED
      BY <1>2, <2>1, <2>3, <3>5, <3>6 DEF LastOn
  <2> QED
    BY <2>2, <2>3
<1> QED
  BY <1>3, <1>4

(* What one more posting does to each part of the invariant.               *)
LEMMA Posted ==
    ASSUME payments \in Seq(Postings), NEW e \in Postings, payments' = Append(payments, e)
    PROVE  /\ payments' \in Seq(Postings)
           /\ Paid' = IF e \in Expenses THEN Append(Paid, e) ELSE Paid
<1>1. Filtered(Append(payments, e), Expenses)
          = IF e \in Expenses THEN Append(Filtered(payments, Expenses), e)
            ELSE Filtered(payments, Expenses)
  BY FilterTakes
<1> QED
  BY <1>1 DEF Paid

LEMMA LastAppended ==
    ASSUME NEW S, NEW s \in Seq(S), NEW e \in S
    PROVE  LastOn(Append(s, e)) = e.on
<1> DEFINE r == Append(s, e)
<1>1. Len(r) = Len(s) + 1 /\ r[Len(s) + 1] = e /\ Len(s) \in Nat
  BY AppendProperties
<1>2. r # <<>>
  BY <1>1
<1> HIDE DEF r
<1> QED
  BY <1>1, <1>2 DEF LastOn, r

LEMMA AllByAppended ==
    ASSUME NEW s \in Seq(Postings), NEW e \in Postings, NEW day \in Nat, AllBy(s, day),
           day <= e.on
    PROVE  AllBy(Append(s, e), e.on)
<1> DEFINE r == Append(s, e)
<1>1. e.on \in Nat /\ \A i \in 1..Len(s) : s[i].on \in Nat
  <2>1. \A p \in Postings : p.on \in Nat
    BY DEF Postings
  <2> QED
    BY <2>1
<1>2. Len(r) = Len(s) + 1 /\ r[Len(s) + 1] = e /\ \A i \in 1..Len(s) : r[i] = s[i]
  BY AppendProperties
<1> HIDE DEF r
<1>3. \A i \in 1..Len(r) : r[i].on <= e.on
  <2> TAKE i \in 1..Len(r)
  <2>1. Len(s) \in Nat
    OBVIOUS
  <2>2. CASE i \in 1..Len(s)
    BY <1>1, <1>2, <2>2 DEF AllBy
  <2>3. CASE i = Len(s) + 1
    BY <1>1, <1>2, <2>3
  <2> QED
    BY <1>2, <2>1, <2>2, <2>3
<1> QED
  BY <1>3 DEF AllBy, r

LEMMA InItsMonthAppended ==
    ASSUME NEW b, NEW s \in Seq(Postings), NEW e \in Postings, InItsMonth(b, s),
           b.frequency \in ByMonths => DayIn(e.on, Len(s) * StepOf[b.frequency])
    PROVE  InItsMonth(b, Append(s, e))
<1> DEFINE r == Append(s, e)
<1>1. Len(r) = Len(s) + 1 /\ r[Len(s) + 1] = e /\ \A i \in 1..Len(s) : r[i] = s[i]
  BY AppendProperties
<1>2. Len(s) \in Nat /\ Len(s) + 1 - 1 = Len(s)
  OBVIOUS
<1> HIDE DEF r
<1>3. ASSUME b.frequency \in ByMonths, NEW i \in 1..Len(r)
      PROVE  DayIn(r[i].on, (i - 1) * StepOf[b.frequency])
  <2>1. CASE i \in 1..Len(s)
    BY <1>1, <1>3, <2>1 DEF InItsMonth
  <2>2. CASE i = Len(s) + 1
    BY <1>1, <1>2, <1>3, <2>2
  <2> QED
    BY <1>1, <1>2, <2>1, <2>2
<1> QED
  BY <1>3 DEF InItsMonth, r

LEMMA InTimeAppended ==
    ASSUME NEW b, NEW s \in Seq(Postings), NEW e \in Postings, InTime(b, s),
           NEW late \in Lateness, PaidAt(b, e.on, Len(s), late)
    PROVE  InTime(b, Append(s, e))
<1> DEFINE r == Append(s, e)
<1>1. Len(r) = Len(s) + 1 /\ r[Len(s) + 1] = e /\ \A i \in 1..Len(s) : r[i] = s[i]
  BY AppendProperties
<1>2. Len(s) \in Nat /\ Len(s) + 1 - 1 = Len(s)
  OBVIOUS
<1> HIDE DEF r
<1>3. ASSUME NEW i \in 1..Len(r)
      PROVE  \E l \in Lateness : PaidAt(b, r[i].on, i - 1, l)
  <2>1. CASE i \in 1..Len(s)
    BY <1>1, <2>1 DEF InTime
  <2>2. CASE i = Len(s) + 1
    BY <1>1, <1>2, <2>2
  <2> QED
    BY <1>1, <1>2, <2>1, <2>2
<1> QED
  BY <1>3 DEF InTime, r

LEMMA PricedAppended ==
    ASSUME NEW b, b.price \in Nat, NEW s \in Seq(Postings), NEW e \in Postings, Priced(b, s),
           Outgoing(e) = b.price
    PROVE  Priced(b, Append(s, e))
<1> DEFINE r == Append(s, e)
<1>1. Len(r) = Len(s) + 1 /\ r[Len(s) + 1] = e /\ \A i \in 1..Len(s) : r[i] = s[i]
  BY AppendProperties
<1>2. Len(s) \in Nat
  OBVIOUS
<1> HIDE DEF r
<1>3. PICK c \in 0..Len(s) :
          /\ c = 0 \/ b.price = b.raised
          /\ \A i \in 1..Len(s) :
                 /\ Outgoing(s[i]) \in Nat
                 /\ Outgoing(s[i]) = IF i <= c THEN Outgoing(s[1]) ELSE b.price
  BY DEF Priced
<1>4. ASSUME NEW i \in 1..Len(r)
      PROVE  /\ Outgoing(r[i]) \in Nat
             /\ Outgoing(r[i]) = IF i <= c THEN Outgoing(r[1]) ELSE b.price
  <2>1. CASE i \in 1..Len(s)
    <3>1. r[i] = s[i] /\ r[1] = s[1]
      BY <1>1, <1>2, <2>1
    <3> QED
      BY <1>3, <2>1, <3>1
  <2>2. CASE i = Len(s) + 1
    <3>1. ~(i <= c) /\ r[i] = e
      BY <1>1, <1>2, <1>3, <2>2
    <3> QED
      BY <3>1
  <2> QED
    BY <1>1, <1>2, <2>1, <2>2
<1>5. c \in 0..Len(r)
  BY <1>1, <1>2, <1>3
<1> QED
  BY <1>3, <1>4, <1>5 DEF Priced, r

(* Whole or split, what leaves the account is the price.                   *)
LEMMA BillLegs ==
    ASSUME BillTypes, NEW late \in Lateness, PayBill(late)
    PROVE  \E e \in Expenses :
               /\ payments' = Append(payments, e) /\ e.on = Due(Len(Paid)) + late
               /\ Outgoing(e) = bill.price
<1> DEFINE on == Due(Len(Paid)) + late
           split == <<Leg("expense", -(bill.price - 5)), Leg("expense", -5), Leg("transfer", -40)>>
           whole == <<Leg("expense", -bill.price)>>
           legs == IF bill.split THEN split ELSE whole
           e == [on |-> on, legs |-> legs]
           Legs == [kind : {"expense", "transfer"}, amount : Int]
<1>1. on \in 0..LastDay
  BY PaymentDated
<1>2. bill.price \in Nat \ (0..5)
  BY DEF BillTypes, Schedules
<1>3. payments' = Append(payments, e)
  BY DEF PayBill
<1> HIDE DEF on
<1>4. Outgoing([on |-> on, legs |-> split]) = bill.price
  <2> DEFINE a == Leg("expense", -(bill.price - 5))
             b == Leg("expense", -5)
             c == Leg("transfer", -40)
  <2>1. Outflow(a) = bill.price - 5 /\ Outflow(b) = 5 /\ Outflow(c) = 0
    <3>1. /\ a.kind = "expense" /\ a.amount = -(bill.price - 5)
          /\ b.kind = "expense" /\ b.amount = -5 /\ c.kind = "transfer"
      BY DEF Leg
    <3>2. Outflow(c) = 0
      BY <3>1 DEF Outflow
    <3>3. Outflow(b) = 5
      BY <3>1 DEF Outflow
    <3>4. Outflow(a) = bill.price - 5
      <4>1. -(bill.price - 5) < 0 /\ -(-(bill.price - 5)) = bill.price - 5
        BY <1>2
      <4> QED
        BY <3>1, <4>1 DEF Outflow
    <3> QED
      BY <3>2, <3>3, <3>4
  <2> HIDE DEF a, b, c
  <2>2. Outgoing([on |-> on, legs |-> <<a, b, c>>]) = Outflow(a) + Outflow(b) + Outflow(c)
    BY <1>2, <2>1, OutgoingThree
  <2>3. Outgoing([on |-> on, legs |-> <<a, b, c>>]) = bill.price
    BY <1>2, <2>1, <2>2
  <2> QED
    BY <2>3 DEF a, b, c
<1>5. Outgoing([on |-> on, legs |-> whole]) = bill.price
  <2>1. -bill.price \in Int /\ -bill.price < 0 /\ -(-bill.price) = bill.price
    BY <1>2
  <2> QED
    BY <2>1, OutgoingOne
<1>6. split \in Seq(Legs) /\ whole \in Seq(Legs)
  BY <1>2 DEF Leg
<1> HIDE DEF split, whole, Legs
<1>7. Outgoing(e) = bill.price
  <2>1. CASE bill.split
    BY <1>4, <2>1
  <2>2. CASE ~bill.split
    BY <1>5, <2>2
  <2> QED
    BY <2>1, <2>2
<1>8. e \in Postings
  <2>1. legs \in Seq(Legs)
    BY <1>6
  <2> HIDE DEF legs
  <2> QED
    BY <1>1, <2>1 DEF Postings, Legs
<1>9. e.on = on
  OBVIOUS
<1> HIDE DEF e
<1>10. e \in Expenses
  BY <1>2, <1>7, <1>8 DEF Expenses
<1> QED
  BY <1>3, <1>7, <1>9, <1>10 DEF on

LEMMA PayBillKeeps ==
    ASSUME BillTypes, NEW late \in Lateness, PayBill(late)
    PROVE  BillTypes' /\ (BillInv => BillInv')
<1> DEFINE on == Due(Len(Paid)) + late
<1>1. bill' = bill /\ today' = on /\ Len(Paid) < MaxPayments
  BY DEF PayBill
<1>2. /\ on \in 0..LastDay
      /\ bill.frequency \in ByMonths => DayIn(on, Len(Paid) * StepOf[bill.frequency])
      /\ BillInv => /\ PaidAt(bill, on, Len(Paid), late)
                    /\ LastOn(payments) <= on /\ LastOn(payments) \in Nat
  BY PaymentDated, PaymentOnTime, DueIs
<1>3. PICK e \in Expenses :
          payments' = Append(payments, e) /\ e.on = on /\ Outgoing(e) = bill.price
  BY BillLegs
<1> HIDE DEF on
<1>4. payments \in Seq(Postings) /\ e \in Postings /\ Paid \in Seq(Postings) /\ Len(Paid) \in Nat
  BY <1>3, PaidIs DEF BillTypes, Expenses
<1>5. Paid' = Append(Paid, e) /\ payments' \in Seq(Postings)
  BY <1>3, <1>4, Posted
<1>6. InItsMonth(bill, Paid')
  BY <1>2, <1>3, <1>4, <1>5, InItsMonthAppended DEF BillTypes
<1>7. BillTypes'
  BY <1>1, <1>2, <1>5, <1>6 DEF BillTypes
<1>8. ASSUME BillInv
      PROVE  BillInv'
  <2>1. LastOn(payments') = e.on /\ LastOn(Paid') = e.on
    BY <1>3, <1>4, <1>5, LastAppended
  <2>2. AllBy(payments', e.on)
    BY <1>2, <1>3, <1>4, <1>8, AllByAppended DEF BillInv
  <2>3. InTime(bill, Paid')
    BY <1>2, <1>3, <1>4, <1>5, <1>8, InTimeAppended DEF BillInv
  <2>4. Priced(bill, Paid')
    <3>1. bill.price \in Nat
      BY DEF BillTypes, Schedules
    <3> QED
      BY <1>3, <1>4, <1>5, <1>8, <3>1, PricedAppended DEF BillInv
  <2>5. Len(Paid') <= MaxPayments
    <3>1. Len(Append(Paid, e)) = Len(Paid) + 1
      BY <1>4
    <3> QED
      BY <1>1, <1>4, <1>5, <3>1, RecurringTypes
  <2>6. Lateness \subseteq 0..Tolerance[bill.frequency]
    BY <1>8 DEF BillInv
  <2>7. on <= on
    BY <1>2
  <2> QED
    BY <1>1, <1>3, <1>7, <2>1, <2>2, <2>3, <2>4, <2>5, <2>6, <2>7 DEF BillInv
<1> QED
  BY <1>7, <1>8

(* A new price is for the payments to come.                                *)
LEMMA RaisePriceKeeps ==
    ASSUME BillTypes, RaisePrice
    PROVE  BillTypes' /\ (BillInv => BillInv')
<1> DEFINE n == Len(Paid)
<1>1. /\ bill.price # bill.raised /\ bill' = [bill EXCEPT !.price = bill.raised]
      /\ payments' = payments /\ today' = today
  BY DEF RaisePrice
<1>2. Paid' = Paid
  BY <1>1 DEF Paid
<1>3. /\ bill' \in Schedules /\ bill'.frequency = bill.frequency /\ bill'.day = bill.day
      /\ bill'.price = bill'.raised
  BY <1>1 DEF BillTypes, Schedules
<1>4. BillTypes'
  BY <1>1, <1>2, <1>3 DEF BillTypes, InItsMonth
<1>5. ASSUME BillInv
      PROVE  BillInv'
  <2>1. \A x, i, l : PaidAt(bill', x, i, l) <=> PaidAt(bill, x, i, l)
    BY <1>3 DEF PaidAt, DueOn
  <2>2. InTime(bill', Paid)
    BY <1>5, <2>1 DEF BillInv, InTime
  <2>3. PICK c \in 0..n :
            /\ c = 0 \/ bill.price = bill.raised
            /\ \A i \in 1..n : /\ Outgoing(Paid[i]) \in Nat
                               /\ Outgoing(Paid[i]) = IF i <= c THEN Outgoing(Paid[1])
                                                      ELSE bill.price
    BY <1>5 DEF BillInv, Priced
  <2>4. n \in Nat
    BY PaidIs DEF BillTypes
  <2>5. \A i \in 1..n : Outgoing(Paid[i]) \in Nat /\ Outgoing(Paid[i]) = bill.price
    BY <1>1, <2>3
  <2>6. \A i \in 1..n : /\ Outgoing(Paid[i]) \in Nat
                        /\ Outgoing(Paid[i]) = IF i <= n THEN Outgoing(Paid[1]) ELSE bill'.price
    BY <2>4, <2>5
  <2>7. n \in 0..n
    BY <2>4
  <2>8. Priced(bill', Paid)
    BY <1>3, <2>6, <2>7 DEF Priced
  <2> QED
    BY <1>1, <1>2, <1>3, <1>4, <1>5, <2>2, <2>8 DEF BillInv
<1> QED
  BY <1>4, <1>5

(* A posting that is no expense is not a payment.                          *)
LEMMA OtherPostingKeeps ==
    ASSUME BillTypes, NEW kind \in {"expense", "transfer"}, NEW amount \in Int,
           kind = "transfer" \/ ~(amount < 0), OtherPosting(kind, amount)
    PROVE  BillTypes' /\ (BillInv => BillInv')
<1> DEFINE e == [on |-> today, legs |-> <<Leg(kind, amount)>>]
<1>1. /\ today = LastOn(payments) /\ payments' = Append(payments, e)
      /\ bill' = bill /\ today' = today
  BY DueIs DEF OtherPosting
<1>2. today \in 0..LastDay /\ payments \in Seq(Postings)
  BY DEF BillTypes
<1>3. Outgoing(e) = 0
  BY OutgoingOne
<1>4. e \in Postings /\ e.on = today
  BY <1>2 DEF Postings, Leg
<1> HIDE DEF e
<1>5. e \notin Expenses
  BY <1>3 DEF Expenses
<1>6. Paid' = Paid /\ payments' \in Seq(Postings)
  BY <1>1, <1>2, <1>4, <1>5, Posted
<1>7. BillTypes'
  BY <1>1, <1>6 DEF BillTypes
<1>8. ASSUME BillInv
      PROVE  BillInv'
  <2>1. LastOn(payments') = today
    BY <1>1, <1>2, <1>4, LastAppended
  <2>2. LastOn(payments) \in Nat /\ LastOn(payments) <= e.on /\ AllBy(payments, LastOn(payments))
    BY <1>1, <1>2, <1>4, <1>8 DEF BillInv
  <2>3. AllBy(Append(payments, e), e.on)
    BY <1>2, <1>4, <2>2, AllByAppended
  <2>4. /\ Lateness \subseteq 0..Tolerance[bill.frequency]
        /\ Len(Paid) <= MaxPayments /\ InTime(bill, Paid) /\ Priced(bill, Paid)
        /\ today = LastOn(Paid) /\ today <= today
    BY <1>1, <1>2, <1>8 DEF BillInv
  <2> QED
    BY <1>1, <1>4, <1>6, <1>7, <2>1, <2>3, <2>4 DEF BillInv
<1> QED
  BY <1>7, <1>8

LEMMA LookKeeps ==
    ASSUME BillTypes, NEW misses \in 0..2, NEW days \in Looks, Look(misses, days)
    PROVE  BillTypes' /\ (BillInv => BillInv')
<1> DEFINE day == Due(Len(Paid) + misses) + days
<1>1. /\ today = LastOn(payments) /\ bill' = bill /\ payments' = payments
      /\ today' = day /\ today' > today /\ today' <= LastDay
  BY DueIs DEF Look
<1>2. day \in Int
  BY NextDue, RecurringTypes
<1> HIDE DEF day
<1>3. today \in Nat
  BY DEF BillTypes
<1>4. today' \in 0..LastDay /\ LastOn(payments) <= today'
  BY <1>1, <1>2, <1>3, RecurringTypes
<1>5. Paid' = Paid
  BY <1>1 DEF Paid
<1>6. BillTypes'
  BY <1>1, <1>4, <1>5 DEF BillTypes
<1> QED
  BY <1>1, <1>4, <1>5, <1>6 DEF BillInv

LEMMA BillStep ==
    ASSUME BillTypes, [BillNext]_billVars
    PROVE  BillTypes' /\ (BillInv => BillInv')
<1>1. ASSUME NEW late \in Lateness, PayBill(late)
      PROVE  BillTypes' /\ (BillInv => BillInv')
  BY <1>1, PayBillKeeps
<1>2. CASE RaisePrice
  BY <1>2, RaisePriceKeeps
<1>3. CASE OtherPosting("expense", 30)
  <2>1. 30 \in Int /\ ~(30 < 0) /\ "expense" \in {"expense", "transfer"}
    OBVIOUS
  <2> QED
    BY <1>3, <2>1, OtherPostingKeeps
<1>4. CASE OtherPosting("transfer", -70)
  <2>1. -70 \in Int /\ "transfer" \in {"expense", "transfer"}
    OBVIOUS
  <2> QED
    BY <1>4, <2>1, OtherPostingKeeps
<1>5. ASSUME NEW misses \in 0..2, NEW days \in Looks, Look(misses, days)
      PROVE  BillTypes' /\ (BillInv => BillInv')
  BY <1>5, LookKeeps
<1>6. CASE UNCHANGED billVars
  <2>1. bill' = bill /\ payments' = payments /\ today' = today
    BY <1>6 DEF billVars
  <2>2. Paid' = Paid
    BY <2>1 DEF Paid
  <2>3. BillTypes'
    BY <2>1, <2>2 DEF BillTypes
  <2> QED
    BY <2>1, <2>2, <2>3 DEF BillInv
<1> QED
  BY <1>1, <1>2, <1>3, <1>4, <1>5, <1>6 DEF BillNext

(* A bill and its payments have dates of the calendar, however late they   *)
(* are, and the report is read on one (summarizeRecurringExpenses).        *)
THEOREM BillTyped == BillSpec => []BillTypeOK
<1>1. BillInit => BillTypes
  BY BillInitOk
<1>2. BillTypes /\ [BillNext]_billVars => BillTypes'
  BY BillStep
<1>3. BillTypes => BillTypeOK
  <2> SUFFICES ASSUME BillTypes
               PROVE  BillTypeOK
    OBVIOUS
  <2>1. bill.frequency \in Range(Frequencies)
    BY DEF BillTypes, Schedules
  <2>2. \A i \in 1..Len(payments) : payments[i].on \in 0..LastDay
    <3>1. \A p \in Postings : p.on \in 0..LastDay
      BY DEF Postings
    <3> QED
      BY <3>1 DEF BillTypes
  <2>3. DOMAIN payments = 1..Len(payments)
    BY DEF BillTypes
  <2> QED
    BY <2>1, <2>2, <2>3 DEF BillTypes, BillTypeOK
<1> QED
  BY <1>1, <1>2, <1>3, PTL DEF BillSpec

(* What a punctual biller leaves: every payment is on the day it is due or *)
(* late by no more than allowed, in its month, and the amounts change      *)
(* once, to the raised price (the payments summarizeRecurringExpenses      *)
(* reads).                                                                 *)
THEOREM BillInvariant == Punctual => (BillSpec => []BillInv)
<1> SUFFICES ASSUME Punctual
             PROVE  BillSpec => []BillInv
  OBVIOUS
<1>1. BillInit => BillInv
  BY BillInitOk
<1>2. BillInv /\ [BillNext]_billVars => BillInv'
  <2>1. BillInv => BillTypes
    BY DEF BillInv
  <2> QED
    BY <2>1, BillStep
<1> QED
  BY <1>1, <1>2, PTL DEF BillSpec

-----------------------------------------------------------------------------
(***************************************************************************)
(* The report of a bill.                                                   *)
(***************************************************************************)
Rank == [weekly |-> 1, biweekly |-> 2, monthly |-> 3, quarterly |-> 4, yearly |-> 5]

LEMMA RankIs ==
    ASSUME bill \in Schedules
    PROVE  Rank[bill.frequency] \in 1..5 /\ Frequencies[Rank[bill.frequency]] = bill.frequency
<1>1. bill.frequency \in {"weekly", "biweekly", "monthly", "quarterly", "yearly"}
  BY FrequencyCases DEF ByDays, ByMonths
<1> QED
  BY <1>1 DEF Rank, Frequencies

LEMMA IntervalsAre ==
    \A a, b :
        /\ IntervalMatches(a, b, "weekly") <=> b.on - a.on \in 5..9
        /\ IntervalMatches(a, b, "biweekly") <=> b.on - a.on \in 12..16
        /\ Apart(a.date.day, b.date.day) <= 7 =>
               (IntervalMatches(a, b, "monthly") <=> b.date.month - a.date.month = 1)
        /\ b.date.month - a.date.month # 1 => ~IntervalMatches(a, b, "monthly")
        /\ IntervalMatches(a, b, "quarterly") <=>
               b.date.month - a.date.month = 3 /\ Apart(a.date.day, b.date.day) <= 10
        /\ IntervalMatches(a, b, "yearly") <=>
               b.date.month - a.date.month = 12 /\ Apart(a.date.day, b.date.day) <= 15
  BY DEF IntervalMatches

(* Successive payments keep the rhythm of the bill, and no earlier one.    *)
LEMMA KeepsRhythm ==
    ASSUME bill \in Schedules, NEW n \in Nat, NEW x, NEW y, NEW k, NEW l,
           PaidOn(x, n, k), PaidOn(y, n + 1, l),
           NEW a, NEW b, IsEvent(a, x), IsEvent(b, y)
    PROVE  /\ IntervalMatches(a, b, bill.frequency)
           /\ \A j \in 1..(Rank[bill.frequency] - 1) : ~IntervalMatches(a, b, Frequencies[j])
<1>1. bill.frequency \in ByDays \cup ByMonths
  BY FrequencyCases
<1>2. a.on = x /\ b.on = y /\ a.date = UtcDate[x] /\ b.date = UtcDate[y]
  BY DEF IsEvent
<1>3. CASE bill.frequency \in ByDays
  <2>1. /\ x \in Int /\ y \in Int
        /\ \/ bill.frequency = "weekly" /\ y - x \in 5..9
           \/ bill.frequency = "biweekly" /\ y - x \in 12..16
    BY <1>3, DaysApart
  <2>2. CASE bill.frequency = "weekly"
    <3>1. IntervalMatches(a, b, "weekly") /\ Rank["weekly"] = 1
      BY <1>2, <2>1, <2>2, IntervalsAre DEF Rank
    <3> QED
      BY <2>2, <3>1
  <2>3. CASE bill.frequency = "biweekly"
    <3>1. IntervalMatches(a, b, "biweekly") /\ ~IntervalMatches(a, b, "weekly")
      BY <1>2, <2>1, <2>3, IntervalsAre
    <3>2. Rank["biweekly"] = 2 /\ Frequencies[1] = "weekly"
      BY DEF Rank, Frequencies
    <3> QED
      BY <2>3, <3>1, <3>2
  <2> QED
    BY <2>1, <2>2, <2>3
<1>4. CASE bill.frequency \in ByMonths
  <2>1. /\ x \in Int /\ y \in Int /\ ~(y - x <= 16)
        /\ UtcDate[y].month - UtcDate[x].month = StepOf[bill.frequency]
        /\ Apart(UtcDate[x].day, UtcDate[y].day) <= Tolerance[bill.frequency]
    BY <1>4, MonthsApart
  <2> DEFINE drift == Apart(a.date.day, b.date.day)
             months == b.date.month - a.date.month
  <2>2. ~IntervalMatches(a, b, "weekly") /\ ~IntervalMatches(a, b, "biweekly")
    BY <1>2, <2>1, IntervalsAre
  <2>3. months = StepOf[bill.frequency] /\ drift <= Tolerance[bill.frequency]
    BY <1>2, <2>1
  <2>4. Frequencies[1] = "weekly" /\ Frequencies[2] = "biweekly" /\ Frequencies[3] = "monthly"
        /\ Frequencies[4] = "quarterly"
    BY DEF Frequencies
  <2>5. CASE bill.frequency = "monthly"
    <3>1. months = 1 /\ drift <= 7 /\ Rank[bill.frequency] = 3
      BY <2>3, <2>5 DEF StepOf, Tolerance, Rank
    <3>2. IntervalMatches(a, b, "monthly")
      BY <3>1, IntervalsAre
    <3> QED
      BY <2>2, <2>4, <2>5, <3>1, <3>2
  <2>6. CASE bill.frequency = "quarterly"
    <3>1. months = 3 /\ drift <= 10 /\ Rank[bill.frequency] = 4
      BY <2>3, <2>6 DEF StepOf, Tolerance, Rank
    <3>2. IntervalMatches(a, b, "quarterly") /\ ~IntervalMatches(a, b, "monthly")
      BY <3>1, IntervalsAre
    <3> QED
      BY <2>2, <2>4, <2>6, <3>1, <3>2
  <2>7. CASE bill.frequency = "yearly"
    <3>1. months = 12 /\ drift <= 15 /\ Rank[bill.frequency] = 5
      BY <2>3, <2>7 DEF StepOf, Tolerance, Rank
    <3>2. /\ IntervalMatches(a, b, "yearly") /\ ~IntervalMatches(a, b, "monthly")
          /\ ~IntervalMatches(a, b, "quarterly")
      BY <3>1, IntervalsAre
    <3> QED
      BY <2>2, <2>4, <2>7, <3>1, <3>2
  <2> QED
    BY <1>4, <2>5, <2>6, <2>7 DEF ByMonths
<1> QED
  BY <1>1, <1>3, <1>4

(* The window of a report begins on a day.                                 *)
LEMMA StartIs ==
    ASSUME today \in 0..LastDay
    PROVE  StartFromMonths(today, LookBack) \in Nat
<1>1. LookBack \in 1..60 /\ today \in Nat /\ today < FirstOf[36] /\ 36 \in 1..60
  <2>1. FirstOf[36] \in Nat
    BY CalendarIs
  <2> QED
    BY <2>1, RecurringTypes
<1>2. PICK m \in 0..35 : DayIn(today, m)
  BY <1>1, MonthFound
<1> DEFINE day == today - FirstOf[m] + 1
<1>3. day \in 1..31
  <2>1. m \in Int /\ m \in 0..60
    BY <1>2
  <2>2. MonthLength(m) \in 28..31 /\ FirstOf[m] \in Nat
    BY <2>1, MonthLengths, CalendarIs
  <2> QED
    BY <1>1, <1>2, <2>2 DEF DayIn
<1>4. UtcDate[today] = [month |-> m, day |-> day, ends |-> day = MonthLength(m)]
  BY <1>2, DateIs
<1>5. UtcDate[today].month = m /\ UtcDate[today].day = day
  BY <1>4
<1> HIDE DEF day
<1>6. CASE m < LookBack
  BY <1>5, <1>6 DEF StartFromMonths
<1>7. CASE ~(m < LookBack)
  <2>1. m - LookBack \in 0..59
    BY <1>1, <1>7
  <2>2. InMonth(day, m - LookBack) \in Nat
    BY <1>3, <2>1, InMonthIs, ZenonT(20)
  <2>3. StartFromMonths(today, LookBack) = InMonth(day, m - LookBack) + 1
    BY <1>5, <1>7 DEF StartFromMonths
  <2> QED
    BY <2>2, <2>3
<1> QED
  BY <1>6, <1>7

(* The last payment was late by no more than the latest.                   *)
LEMMA LatestIs ==
    ASSUME NEW t \in Nat, Lateness \subseteq 0..t, NEW late \in Lateness
    PROVE  LET l == CHOOSE l \in Lateness : \A k \in Lateness : k <= l
           IN  l \in 0..t /\ late <= l /\ late \in 0..t
<1> DEFINE M == {t - x : x \in Lateness}
<1>1. M \subseteq Nat /\ M # {}
  <2>1. \A x \in Lateness : t - x \in Nat
    OBVIOUS
  <2> QED
    BY <2>1
<1>2. PICK l \in Lateness : Min(M) = t - l
  <2>1. Min(M) \in M
    <3> HIDE DEF M
    <3> QED
      BY <1>1, LeastIsOne
  <2> QED
    BY <2>1
<1>3. \E l0 \in Lateness : \A k \in Lateness : k <= l0
  <2>1. \A k \in Lateness : t - k \in M /\ k \in Int
    OBVIOUS
  <2>2. \A y \in M : Min(M) <= y
    <3> HIDE DEF M
    <3> QED
      BY <1>1, LeastIsOne
  <2>3. \A k \in Lateness : t - l <= t - k
    BY <1>2, <2>1, <2>2
  <2> QED
    BY <2>1, <2>3
<1> DEFINE g == CHOOSE g \in Lateness : \A k \in Lateness : k <= g
<1>4. g \in Lateness /\ \A k \in Lateness : k <= g
  BY <1>3
<1> HIDE DEF g
<1> QED
  BY <1>4 DEF g

(* What is expected of the next payment, and when it was missed twice.     *)
LEMMA NextFound ==
    ASSUME bill \in Schedules, NEW n \in Nat, NEW x, NEW late, PaidOn(x, n, late), x < FirstOf[36]
    PROVE  LET f == bill.frequency
               expected == AddFrequency(x, f)
               next == Due(n + 1)
           IN  /\ expected \in Int /\ next \in Int /\ Due(n + 2) \in Int
               /\ AddFrequency(expected, f) \in Int /\ AddFrequency(next, f) \in Int
               /\ expected - next \in 0..(3 + late)
               /\ AddFrequency(next, f) <= AddFrequency(expected, f)
               /\ AddFrequency(expected, f) <= Due(n + 2) + 3 + late
<1> DEFINE f == bill.frequency
           s == StepOf[f]
<1>1. bill.day \in 1..31 /\ f \in ByDays \cup ByMonths
  BY FrequencyCases
<1>2. CASE f \in ByDays
  <2>1. /\ s \in {7, 14} /\ late \in 0..2 /\ x = bill.day + n * s + late
        /\ Due(n + 1) = bill.day + (n + 1) * s /\ Due(n + 2) = bill.day + (n + 2) * s
        /\ \A d : AddFrequency(d, f) = d + s
    BY <1>2, ByDaysIs DEF PaidOn
  <2> HIDE DEF s
  <2> DEFINE w == n * s
  <2>2. (n + 1) * s = w + s /\ (n + 2) * s = w + 2 * s /\ w \in Nat
    BY <2>1
  <2> HIDE DEF w
  <2>3. /\ x = bill.day + w + late
        /\ Due(n + 1) = bill.day + (w + s) /\ Due(n + 2) = bill.day + (w + 2 * s)
        /\ AddFrequency(x, f) = x + s
        /\ AddFrequency(AddFrequency(x, f), f) = x + s + s
        /\ AddFrequency(Due(n + 1), f) = Due(n + 1) + s
    <3>1. x = bill.day + w + late
      BY <2>1 DEF w
    <3> QED
      BY <2>1, <2>2, <3>1
  <2> DEFINE expected == AddFrequency(x, f)
             second == AddFrequency(expected, f)
             next == Due(n + 1)
             other == AddFrequency(next, f)
             after == Due(n + 2)
  <2>4. /\ bill.day \in 1..31 /\ w \in Nat /\ s \in {7, 14} /\ late \in 0..2
        /\ expected = bill.day + w + late + s /\ second = bill.day + w + late + s + s
        /\ next = bill.day + (w + s) /\ other = next + s /\ after = bill.day + (w + 2 * s)
    BY <1>1, <2>1, <2>2, <2>3
  <2> HIDE DEF expected, second, next, other, after
  <2>5. /\ expected \in Int /\ next \in Int /\ after \in Int /\ second \in Int /\ other \in Int
        /\ expected - next \in 0..(3 + late)
        /\ other <= second /\ second <= after + 3 + late
    <3>1. w \in Int /\ s \in Int /\ late \in Int /\ bill.day \in Int
      BY <2>4
    <3>2. expected \in Int /\ next \in Int /\ after \in Int /\ second \in Int /\ other \in Int
      BY <2>4, <3>1
    <3>3. expected - next = late
      BY <2>4, <3>1
    <3>4. other <= second
      BY <2>4, <3>1
    <3>5. second <= after + 3 + late
      BY <2>4, <3>1
    <3>6. late \in 0..(3 + late)
      BY <2>4
    <3> QED
      BY <3>2, <3>3, <3>4, <3>5, <3>6
  <2> QED
    BY <2>5 DEF expected, second, next, other, after
<1>3. CASE f \in ByMonths
  <2>1. /\ s \in {1, 3, 12} /\ Tolerance[f] \in Nat
        /\ \A i : Due(i) = InMonth(bill.day, i * s)
        /\ \A d : AddFrequency(d, f) = AddMonths(UtcDate[d], s)
    BY <1>3, ByMonthsIs
  <2>2. x = Due(n) + late /\ late \in Nat /\ DayIn(x, n * s)
    BY <1>3, <2>1 DEF PaidOn
  <2>3. n * s \in 0..35
    BY <1>3, <2>2, MonthsBounded
  <2> HIDE DEF s
  <2> DEFINE m == n * s
  <2>4. (n + 1) * s = m + s /\ (n + 2) * s = m + 2 * s
    BY <2>1
  <2> HIDE DEF m
  <2>5. /\ m \in 0..35 /\ s \in 1..12 /\ x = InMonth(bill.day, m) + late /\ DayIn(x, m)
        /\ Due(n + 1) = InMonth(bill.day, m + s) /\ Due(n + 2) = InMonth(bill.day, m + 2 * s)
    <3>1. x = InMonth(bill.day, n * s) + late
      BY <2>1, <2>2
    <3> QED
      BY <2>1, <2>2, <2>3, <2>4, <3>1 DEF m
  <2>6. LET expected == AddMonths(UtcDate[x], s)
            next == InMonth(bill.day, m + s)
            second == AddMonths(UtcDate[expected], s)
        IN  /\ expected \in Int /\ next \in Int /\ second \in Int
            /\ AddMonths(UtcDate[next], s) \in Int /\ InMonth(bill.day, m + 2 * s) \in Int
            /\ expected - next \in 0..(3 + late)
            /\ AddMonths(UtcDate[next], s) <= second
            /\ second <= InMonth(bill.day, m + 2 * s) + 3 + late
    BY <1>1, <2>2, <2>5, NextMonths, ZenonT(20)
  <2> QED
    BY <2>1, <2>5, <2>6
<1> QED
  BY <1>1, <1>2, <1>3

(* The payments of a bill are in the order of their dates.                 *)
LEMMA PaidInOrder ==
    ASSUME BillInv
    PROVE  \A i, j \in 1..Len(Paid) : /\ Paid[i].on \in Nat /\ Paid[j].on \in Nat
                                      /\ i < j => Paid[i].on < Paid[j].on
<1>1. bill \in Schedules /\ Len(Paid) \in Nat
  BY PaidIs DEF BillInv, BillTypes
<1> TAKE i, j \in 1..Len(Paid)
<1>2. Paid[i].on \in Nat /\ Paid[j].on \in Nat
  BY PaidIs DEF BillInv, BillTypes
<1>3. PICK k \in Lateness : PaidAt(bill, Paid[i].on, i - 1, k)
  BY DEF BillInv, InTime
<1>4. PICK l \in Lateness : PaidAt(bill, Paid[j].on, j - 1, l)
  BY DEF BillInv, InTime
<1>5. PaidOn(Paid[i].on, i - 1, k) /\ PaidOn(Paid[j].on, j - 1, l)
  BY <1>3, <1>4, DueIs
<1>6. i < j => Paid[i].on < Paid[j].on
  <2> HAVE i < j
  <2>1. i - 1 \in Nat /\ j - 1 \in Nat /\ i - 1 < j - 1
    BY <1>1
  <2> QED
    BY <1>1, <1>5, <2>1, Timely
<1> QED
  BY <1>2, <1>6

\* The payments since a day.
Since(start) == {e \in Expenses : e.on >= start}

(* The window of a report holds the last payments, all since its start.    *)
LEMMA SeenIs ==
    ASSUME BillInv, NEW start \in Nat
    PROVE  LET seen == Filtered(Paid, Since(start))
               window == Filtered(payments, {e \in Expenses : e.on >= start /\ e.on <= today})
           IN  window = seen /\ \E k : Trimmed(seen, Paid, Since(start), Len(Paid), k)
<1> DEFINE V == {e \in Expenses : e.on >= start /\ e.on <= today}
           S == {p \in Postings : p.on <= today}
           U == Since(start)
<1>1. payments \in Seq(S)
  <2>1. /\ payments \in Seq(Postings) /\ today \in Nat /\ LastOn(payments) <= today
        /\ AllBy(payments, LastOn(payments)) /\ LastOn(payments) = LastOn(Paid)
    BY DEF BillInv, BillTypes
  <2>2. LastOn(payments) \in Int
    <3>1. Paid # <<>> => Len(Paid) \in 1..Len(Paid)
      BY <2>1, PaidIs
    <3>2. Paid # <<>> => Paid[Len(Paid)].on \in Nat
      BY <3>1, PaidInOrder
    <3> QED
      BY <2>1, <3>2 DEF LastOn
  <2>3. \A i \in 1..Len(payments) : payments[i] \in Postings /\ payments[i].on \in Nat
    <3>1. \A p \in Postings : p.on \in Nat
      BY DEF Postings
    <3> QED
      BY <2>1, <3>1
  <2>4. \A i \in 1..Len(payments) : payments[i] \in S
    BY <2>1, <2>2, <2>3 DEF AllBy
  <2> HIDE DEF S
  <2> QED
    BY <2>1, <2>4
<1>2. \A x \in S : x \in V <=> x \in Expenses /\ x \in U
  BY DEF Since
<1>3. Filtered(Paid, U) = Filtered(payments, V)
  <2> HIDE DEF S, U, V
  <2> QED
    BY <1>1, <1>2, FilterTwice DEF Paid
<1>4. \E k : Trimmed(Filtered(Paid, U), Paid, U, Len(Paid), k)
  <2>1. Paid \in Seq(Postings)
    BY PaidIs DEF BillInv, BillTypes
  <2>2. ASSUME NEW i \in 1..Len(Paid), NEW j \in 1..Len(Paid), i < j, Paid[i] \in U
        PROVE  Paid[j] \in U
    <3>1. Paid[i].on \in Nat /\ Paid[j].on \in Nat /\ Paid[i].on < Paid[j].on
      BY <2>2, PaidInOrder
    <3>2. Paid[j] \in Expenses
      BY PaidIs DEF BillInv, BillTypes
    <3> QED
      BY <2>2, <3>1, <3>2 DEF Since
  <2>3. \A i, j \in 1..Len(Paid) : i < j /\ Paid[i] \in U => Paid[j] \in U
    BY <2>2
  <2> HIDE DEF U
  <2> QED
    BY <2>1, <2>3, FilterSuffix
<1> QED
  BY <1>3, <1>4

\* The events of the payments after the first k.
EventsAfter(k) == [i \in 1..(Len(Paid) - k) |-> EventOf(Paid[k + i])]

LEMMA EventsAre ==
    ASSUME BillInv, NEW k \in 0..Len(Paid)
    PROVE  LET ev == EventsAfter(k)
               S == {EventOf(Paid[i]) : i \in 1..Len(Paid)}
           IN  /\ ev \in Seq(S) /\ Len(ev) = Len(Paid) - k
               /\ \A i \in 1..Len(ev) :
                      /\ k + i \in 1..Len(Paid) /\ IsEvent(ev[i], Paid[k + i].on)
                      /\ ev[i].amount = Outgoing(Paid[k + i])
<1> DEFINE ev == EventsAfter(k)
           S == {EventOf(Paid[i]) : i \in 1..Len(Paid)}
           m == Len(Paid) - k
<1>1. m \in Nat /\ \A i \in 1..m : k + i \in 1..Len(Paid)
  BY PaidIs DEF BillInv, BillTypes
<1>2. \A i \in 1..m : ev[i] = EventOf(Paid[k + i]) /\ ev[i] \in S
  BY <1>1 DEF EventsAfter
<1>3. ev = [i \in 1..m |-> ev[i]]
  BY DEF EventsAfter
<1> HIDE DEF S, ev, m
<1>4. ev \in Seq(S) /\ Len(ev) = m
  <2>1. ev \in [1..m -> S]
    BY <1>2, <1>3
  <2> QED
    BY <1>1, <2>1
<1>5. \A e : IsEvent(EventOf(e), e.on) /\ EventOf(e).amount = Outgoing(e)
  BY DEF IsEvent, EventOf
<1>6. \A i \in 1..m : IsEvent(ev[i], Paid[k + i].on) /\ ev[i].amount = Outgoing(Paid[k + i])
  BY <1>2, <1>5
<1> QED
  BY <1>1, <1>4, <1>6 DEF S, ev, m

LEMMA EventsInRhythm ==
    ASSUME BillInv, NEW k \in 0..Len(Paid)
    PROVE  Rhythmic(EventsAfter(k), Rank[bill.frequency]) /\ InOrderOfDays(EventsAfter(k))
<1> DEFINE ev == EventsAfter(k)
<1>1. bill \in Schedules /\ Len(Paid) \in Nat
  BY PaidIs DEF BillInv, BillTypes
<1>2. \A i \in 1..Len(ev) : k + i \in 1..Len(Paid) /\ IsEvent(ev[i], Paid[k + i].on)
  BY EventsAre
<1>3. Len(ev) \in Nat
  BY <1>1, EventsAre
<1> HIDE DEF ev
<1>4. ASSUME NEW i \in 2..Len(ev)
      PROVE  /\ IntervalMatches(ev[i - 1], ev[i], Frequencies[Rank[bill.frequency]])
             /\ \A j \in 1..(Rank[bill.frequency] - 1) :
                    ~IntervalMatches(ev[i - 1], ev[i], Frequencies[j])
  <2>1. i \in 1..Len(ev) /\ i - 1 \in 1..Len(ev)
    BY <1>3
  <2> DEFINE x == Paid[k + (i - 1)].on
             y == Paid[k + i].on
             n == k + i - 2
  <2>2. k + i \in 1..Len(Paid) /\ k + (i - 1) \in 1..Len(Paid)
        /\ IsEvent(ev[i - 1], x) /\ IsEvent(ev[i], y)
    BY <1>2, <2>1
  <2>3. n \in Nat /\ k + (i - 1) - 1 = n /\ k + i - 1 = n + 1
    BY <2>1, <2>2
  <2>4. \A j \in 1..Len(Paid) : \E late \in Lateness : PaidOn(Paid[j].on, j - 1, late)
    BY DueIs DEF BillInv, InTime
  <2>5. \E l1 \in Lateness : PaidOn(x, n, l1)
    <3> DEFINE o == k + (i - 1)
    <3>1. o \in 1..Len(Paid) /\ o - 1 = n
      BY <2>2, <2>3
    <3> HIDE DEF o, n
    <3>2. \E l1 \in Lateness : PaidOn(Paid[o].on, n, l1)
      BY <2>4, <3>1
    <3> QED
      BY <3>2 DEF o
  <2>6. \E l2 \in Lateness : PaidOn(y, n + 1, l2)
    <3> DEFINE o == k + i
    <3>1. o \in 1..Len(Paid) /\ o - 1 = n + 1
      BY <2>2, <2>3
    <3> HIDE DEF o, n
    <3>2. \E l2 \in Lateness : PaidOn(Paid[o].on, n + 1, l2)
      BY <2>4, <3>1
    <3> QED
      BY <3>2 DEF o
  <2>7. PICK l1 \in Lateness, l2 \in Lateness : PaidOn(x, n, l1) /\ PaidOn(y, n + 1, l2)
    BY <2>5, <2>6
  <2> HIDE DEF x, y, n
  <2>8. /\ IntervalMatches(ev[i - 1], ev[i], bill.frequency)
        /\ \A j \in 1..(Rank[bill.frequency] - 1) :
               ~IntervalMatches(ev[i - 1], ev[i], Frequencies[j])
    BY <1>1, <2>2, <2>3, <2>7, KeepsRhythm
  <2> QED
    BY <1>1, <2>8, RankIs
<1>5. Rhythmic(ev, Rank[bill.frequency])
  BY <1>4 DEF Rhythmic
<1>6. ASSUME NEW i \in 1..Len(ev), NEW j \in 1..Len(ev)
      PROVE  ev[i].on \in Int /\ (i < j => ev[i].on < ev[j].on)
  <2>1. /\ k + i \in 1..Len(Paid) /\ ev[i].on = Paid[k + i].on
        /\ k + j \in 1..Len(Paid) /\ ev[j].on = Paid[k + j].on
    BY <1>2 DEF IsEvent
  <2>2. i < j => k + i < k + j
    BY <1>3
  <2> QED
    BY <2>1, <2>2, PaidInOrder
<1>7. InOrderOfDays(ev)
  BY <1>6 DEF InOrderOfDays
<1> QED
  BY <1>5, <1>7 DEF ev

LEMMA EventsPriced ==
    ASSUME BillInv, NEW k \in 0..Len(Paid), k < Len(Paid)
    PROVE  \E p, q, c : AtTwoPrices(EventsAfter(k), p, q, c)
<1> DEFINE ev == EventsAfter(k)
           p == Outgoing(Paid[1])
           q == bill.price
<1>1. Len(Paid) \in Nat /\ q \in Nat
  BY PaidIs DEF BillInv, BillTypes, Schedules
<1>2. PICK d \in 0..Len(Paid) :
          \A i \in 1..Len(Paid) :
              /\ Outgoing(Paid[i]) \in Nat
              /\ Outgoing(Paid[i]) = IF i <= d THEN Outgoing(Paid[1]) ELSE bill.price
  BY DEF BillInv, Priced
<1>3. p \in Nat
  <2>1. 1 \in 1..Len(Paid)
    BY <1>1
  <2> QED
    BY <1>2, <2>1
<1> DEFINE c == IF d < k THEN 0 ELSE d - k
<1>4. Len(ev) = Len(Paid) - k
  BY EventsAre
<1>5. c \in 0..Len(ev)
  <2> HIDE DEF ev
  <2> QED
    BY <1>1, <1>4
<1>6. \A i \in 1..Len(ev) : ev[i].amount = IF i <= c THEN p ELSE q
  <2> TAKE i \in 1..Len(ev)
  <2>1. k + i \in 1..Len(Paid) /\ ev[i].amount = Outgoing(Paid[k + i])
    BY EventsAre
  <2>2. k + i <= d <=> i <= c
    <3> HIDE DEF ev
    <3> QED
      BY <1>1, <1>4
  <2> QED
    BY <1>2, <2>1, <2>2
<1>7. AtTwoPrices(ev, p, q, c)
  BY <1>1, <1>3, <1>5, <1>6 DEF AtTwoPrices
<1> QED
  BY <1>7

LEMMA NeededIs == \A f : Needed(f) \in Nat /\ Needed(f) >= 2
  BY RecurringTypes DEF Needed

(* What the report names of a bill with enough payments in its window.     *)
LEMMA BillReported ==
    ASSUME BillInv, NEW start \in Nat,
           Len(Filtered(Paid, Since(start))) >= Needed(bill.frequency)
    PROVE  LET report == SummarizeRecurringExpenses(start, today)
               n == Len(Paid)
               f == bill.frequency
               expected == AddFrequency(Paid[n].on, f)
           IN  /\ n \in 1..n /\ Len(report) = 1 /\ report[1].frequency = f
               /\ report[1].occurrences = Len(Filtered(Paid, Since(start)))
               /\ report[1].amounts.latest = Outgoing(Paid[n])
               /\ report[1].expected = expected
               /\ report[1].active <=> ~InactiveAt(today, expected, f)
<1> DEFINE n == Len(Paid)
           seen == Filtered(Paid, Since(start))
           window == Filtered(payments, {e \in Expenses : e.on >= start /\ e.on <= today})
           f == bill.frequency
           S == {EventOf(Paid[i]) : i \in 1..Len(Paid)}
<1>1. window = seen /\ \E k : Trimmed(seen, Paid, Since(start), n, k)
  BY SeenIs
<1>2. PICK k : Trimmed(seen, Paid, Since(start), n, k)
  BY <1>1
<1>3. /\ n \in Nat /\ k \in 0..n /\ Len(seen) = n - k
      /\ \A j \in 1..(n - k) : seen[j] = Paid[k + j]
  BY <1>2, PaidIs DEF BillInv, BillTypes, Trimmed
<1>4. Needed(f) \in Nat /\ Needed(f) >= 2
  BY NeededIs
<1> DEFINE ev == EventsAfter(k)
           m == n - k
<1>5. m \in Nat /\ m >= 2 /\ m >= Needed(f) /\ k < n /\ n \in 1..n /\ k + m = n
  BY <1>3, <1>4
<1>6. /\ ev \in Seq(S) /\ Len(ev) = m
      /\ \A i \in 1..Len(ev) : /\ k + i \in 1..n /\ IsEvent(ev[i], Paid[k + i].on)
                               /\ ev[i].amount = Outgoing(Paid[k + i])
  BY <1>3, EventsAre
<1>7. PaymentEvents(start, today) = ev
  <2>1. PaymentEvents(start, today) = [i \in DOMAIN seen |-> EventOf(seen[i])]
    BY <1>1 DEF PaymentEvents
  <2>2. DOMAIN seen = 1..m
    <3>1. seen \in Seq(Postings \cap Since(start))
      BY PaidIs, FilterMembers DEF BillInv, BillTypes
    <3> HIDE DEF seen
    <3> QED
      BY <1>3, <3>1
  <2>3. \A i \in 1..m : EventOf(seen[i]) = EventOf(Paid[k + i])
    BY <1>3
  <2>4. ev = [i \in 1..m |-> EventOf(Paid[k + i])]
    BY DEF EventsAfter
  <2> HIDE DEF seen, ev, m
  <2> QED
    BY <2>1, <2>2, <2>3, <2>4
<1>8. Rhythmic(ev, Rank[f]) /\ InOrderOfDays(ev)
  BY <1>3, EventsInRhythm
<1>9. PICK p, q, c : AtTwoPrices(ev, p, q, c)
  BY <1>3, <1>5, EventsPriced
<1>10. MaxPayments \in Nat \ {0}
  <2>1. n <= MaxPayments
    BY DEF BillInv, BillTypes
  <2> QED
    BY <1>3, <1>5, <2>1, RecurringTypes
<1>11. Rank[f] \in 1..5 /\ Frequencies[Rank[f]] = f
  BY RankIs DEF BillInv, BillTypes
<1> DEFINE r == Rank[f]
<1>12. /\ MaxPayments \in Nat \ {0} /\ r \in 1..5 /\ Frequencies[r] = f
       /\ Rhythmic(ev, r) /\ m >= Needed(Frequencies[r])
  BY <1>5, <1>8, <1>10, <1>11
<1> HIDE DEF r, ev, m, S, f
<1>13. LET report == SummarizeRecurringExpenses(start, today)
           g == Frequencies[r]
       IN  /\ Len(report) = 1
           /\ report[1].frequency = g
           /\ report[1].occurrences = m
           /\ report[1].amounts.latest = ev[m].amount
           /\ report[1].expected = AddFrequency(ev[m].on, g)
           /\ report[1].active <=> ~InactiveAt(today, AddFrequency(ev[m].on, g), g)
  <2>1. /\ ev \in Seq(S) /\ Len(ev) = m /\ m \in Nat /\ m >= 2
        /\ InOrderOfDays(ev) /\ AtTwoPrices(ev, p, q, c) /\ PaymentEvents(start, today) = ev
    BY <1>5, <1>6, <1>7, <1>8, <1>9
  <2> QED
    BY <1>12, <2>1, RunReported
<1>14. ev[m].amount = Outgoing(Paid[n]) /\ ev[m].on = Paid[n].on
  <2>1. m \in 1..Len(ev)
    BY <1>5, <1>6
  <2>2. IsEvent(ev[m], Paid[k + m].on) /\ ev[m].amount = Outgoing(Paid[k + m])
    BY <1>6, <2>1
  <2> QED
    BY <1>5, <2>2 DEF IsEvent
<1>15. Len(seen) = m
  BY <1>3 DEF m
<1> QED
  BY <1>5, <1>12, <1>13, <1>14, <1>15 DEF f

(* The report agrees with the schedule whatever it is read for.            *)
LEMMA BillFound ==
    ASSUME BillInv
    PROVE  BillsAreFound
<1> DEFINE start == StartFromMonths(today, LookBack)
           l == CHOOSE l \in Lateness : \A k \in Lateness : k <= l
           slack == 3 + l
           report == SummarizeRecurringExpenses(start, today)
           seen == Filtered(Paid, Since(start))
           n == Len(Paid)
           f == bill.frequency
<1> SUFFICES ASSUME Len(seen) >= Needed(f)
             PROVE  /\ Len(report) = 1
                    /\ report[1].frequency = f
                    /\ report[1].occurrences = Len(seen)
                    /\ report[1].amounts.latest = Outgoing(Last(Paid))
                    /\ Apart(report[1].expected, Due(n)) <= slack
                    /\ today < AddFrequency(Due(n), f) => report[1].active
                    /\ today >= Due(n + 1) + slack => ~report[1].active
  BY DEF BillsAreFound, IsFound, Since
<1>1. start \in Nat /\ today \in Nat
  BY StartIs DEF BillInv, BillTypes
<1> HIDE DEF start
<1> DEFINE x == Paid[n].on
           expected == AddFrequency(x, f)
<1>2. /\ n \in 1..n /\ Len(report) = 1 /\ report[1].frequency = f
      /\ report[1].occurrences = Len(seen)
      /\ report[1].amounts.latest = Outgoing(Paid[n])
      /\ report[1].expected = expected
      /\ report[1].active <=> ~InactiveAt(today, expected, f)
  BY <1>1, BillReported
<1> HIDE DEF report, seen
<1>3. bill \in Schedules /\ n \in Nat /\ n - 1 \in Nat
  BY <1>2, PaidIs DEF BillInv, BillTypes
<1>4. PICK late \in Lateness : PaidAt(bill, x, n - 1, late)
  BY <1>2 DEF BillInv, InTime
<1>5. PaidOn(x, n - 1, late)
  BY <1>4, DueIs
<1>6. x < FirstOf[36]
  <2>1. x \in 0..LastDay
    BY <1>2, PaidIs DEF BillInv, BillTypes
  <2>2. FirstOf[36] \in Nat
    BY CalendarIs
  <2> QED
    BY <2>1, <2>2, RecurringTypes
<1>7. l \in Nat /\ late \in Nat /\ late <= l
  <2>1. Tolerance[f] \in Nat
    <3>1. f \in {"weekly", "biweekly", "monthly", "quarterly", "yearly"}
      BY <1>3, FrequencyCases DEF ByDays, ByMonths
    <3> QED
      BY <3>1 DEF Tolerance
  <2>2. Lateness \subseteq 0..Tolerance[f]
    BY DEF BillInv, BillTypes
  <2>3. l \in 0..Tolerance[f] /\ late <= l /\ late \in 0..Tolerance[f]
    BY <2>1, <2>2, LatestIs
  <2> QED
    BY <2>1, <2>3
<1> DEFINE next == Due(n)
           after == Due(n + 1)
           second == AddFrequency(expected, f)
           other == AddFrequency(next, f)
<1>8. /\ expected \in Int /\ next \in Int /\ after \in Int /\ second \in Int /\ other \in Int
      /\ expected - next \in 0..(3 + late) /\ other <= second /\ second <= after + 3 + late
  <2> DEFINE o == n - 1
  <2>1. o \in Nat /\ o + 1 = n /\ o + 2 = n + 1 /\ PaidOn(x, o, late)
    BY <1>3, <1>5
  <2> HIDE DEF o, x
  <2>2. /\ AddFrequency(x, f) \in Int /\ Due(o + 1) \in Int /\ Due(o + 2) \in Int
        /\ AddFrequency(AddFrequency(x, f), f) \in Int /\ AddFrequency(Due(o + 1), f) \in Int
        /\ AddFrequency(x, f) - Due(o + 1) \in 0..(3 + late)
        /\ AddFrequency(Due(o + 1), f) <= AddFrequency(AddFrequency(x, f), f)
        /\ AddFrequency(AddFrequency(x, f), f) <= Due(o + 2) + 3 + late
    BY <1>3, <1>6, <2>1, NextFound
  <2> QED
    BY <2>1, <2>2
<1>9. Last(Paid) = Paid[n]
  BY DEF Last
<1>10. InactiveAt(today, expected, f) <=> today >= second
  BY DEF InactiveAt
<1> HIDE DEF expected, next, after, second, other, l
<1>11. Apart(expected, next) <= slack
  BY <1>7, <1>8 DEF Apart
<1>12. today < other => ~(today >= second)
  BY <1>1, <1>8
<1>13. today >= after + slack => today >= second
  BY <1>1, <1>7, <1>8
<1> QED
  BY <1>2, <1>9, <1>10, <1>11, <1>12, <1>13 DEF next, after, other

(* Every bill of a punctual biller is found: with enough payments in the   *)
(* window, summarizeRecurringExpenses reports one series, of the bill's    *)
(* frequency and with all of the payments, at the last price; what it      *)
(* expects is off by no more than lateness and a short month, one miss     *)
(* leaves it active and two do not.  This is for every day of the month,   *)
(* price, raise, split, window and number of payments.                     *)
THEOREM BillsFound == Punctual => (BillSpec => []BillsAreFound)
<1> SUFFICES ASSUME Punctual
             PROVE  BillSpec => []BillsAreFound
  OBVIOUS
<1>1. BillInv => BillsAreFound
  BY BillFound
<1>2. BillSpec => []BillInv
  BY BillInvariant
<1> QED
  BY <1>1, <1>2, PTL
=============================================================================
