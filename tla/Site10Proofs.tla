----------------------------- MODULE Site10Proofs -----------------------------
(***************************************************************************)
(* Proofs about Site10, for any number of browsers, requests, clicks and   *)
(* texts: what users see, what they ask for, and what becomes of the table *)
(* that their requests reach.                                              *)
(***************************************************************************)
EXTENDS Site10, FiniteSetTheorems, SequenceTheorems, WellFoundedInduction, TLAPS

-----------------------------------------------------------------------------
(* Counting up.                                                            *)

\* A set of naturals that has a member has a least one.
LEMMA LeastNatural ==
    ASSUME NEW T, T \subseteq Nat, T # {}
    PROVE  \E m \in T : \A n \in T : m <= n
<1>1. PICK R : IsWellFoundedOn(R, Nat) /\ \A n, m \in Nat : n < m => <<n, m>> \in R
  <2>1. \A n, m \in Nat : n < m => <<n, m>> \in OpToRel(<, Nat)
    BY DEF OpToRel
  <2> QED BY <2>1, NatLessThanWellFounded
<1>2. PICK m \in T : \A n \in T : ~ (<<n, m>> \in R)
  <2>1. IsWellFoundedOn(R, Nat) /\ T \subseteq Nat /\ T # {}
    BY <1>1
  <2> QED BY <2>1, WFMin, ZenonT(60)
<1>3. \A n \in T : ~ (n < m)
  BY <1>1, <1>2
<1> QED BY <1>2, <1>3

\* A set with 1 in it, and with each number up to a bound the next one, has all
\* numbers up to the bound.
LEMMA CountUp ==
    ASSUME NEW N \in Nat, NEW S, 1 \in S, \A k \in 1 .. N : k \in S /\ k < N => k + 1 \in S
    PROVE  1 .. N \subseteq S
<1> SUFFICES ASSUME ~ (1 .. N \subseteq S) PROVE FALSE
  OBVIOUS
<1> DEFINE T == { k \in 1 .. N : k \notin S }
<1>1. PICK m \in T : \A n \in T : m <= n
  <2>1. T \subseteq Nat /\ T # {}
    OBVIOUS
  <2> HIDE DEF T
  <2> QED BY <2>1, LeastNatural
<1>2. m \in 2 .. N /\ m - 1 \in 1 .. N
  OBVIOUS
<1>3. m - 1 \in S
  BY <1>1, <1>2
<1> QED BY <1>2, <1>3

\* A set of numbers up to a bound that has a member has a greatest one.
LEMMA GreatestNatural ==
    ASSUME NEW N \in Nat, NEW T, T \subseteq 0 .. N, T # {}
    PROVE  \E m \in T : \A n \in T : n <= m
<1> DEFINE R == { k \in 0 .. N : N - k \in T }
<1>1. R \subseteq Nat /\ R # {}
  <2>1. PICK n \in T : n \in 0 .. N
    OBVIOUS
  <2>2. N - n \in 0 .. N /\ N - (N - n) = n
    BY <2>1
  <2>3. N - n \in R
    BY <2>1, <2>2
  <2>4. R \subseteq Nat
    OBVIOUS
  <2> HIDE DEF R
  <2> QED BY <2>3, <2>4
<1>2. PICK k \in R : \A n \in R : k <= n
  <2> HIDE DEF R
  <2> QED BY <1>1, LeastNatural
<1>3. N - k \in T /\ k \in 0 .. N
  OBVIOUS
<1>4. ASSUME NEW n \in T PROVE n <= N - k
  <2>1. n \in 0 .. N /\ N - n \in 0 .. N /\ N - (N - n) = n
    OBVIOUS
  <2>2. N - n \in R
    BY <2>1
  <2>3. k <= N - n
    BY <1>2, <2>2
  <2> QED BY <1>3, <2>1, <2>3
<1> QED BY <1>3, <1>4

-----------------------------------------------------------------------------
(* ResultMaker.                                                            *)

LEMMA SplitFacts ==
    ASSUME NEW text \in Seq(Elements)
    PROVE  Split(text) \in Seq(Elements)
<1> DEFINE filled == { k \in DOMAIN text : text[k] # Empty }
<1>1. Len(text) \in Nat /\ DOMAIN text = 1 .. Len(text) /\ \A k \in 1 .. Len(text) : text[k] \in Elements
  BY ElementOfSeq
<1>2. PICK last : last = IF filled = {} THEN 0 ELSE CHOOSE k \in filled : \A j \in filled : j <= k
  OBVIOUS
<1>3. last \in 0 .. Len(text)
  <2>1. CASE filled = {}
    BY <1>1, <1>2, <2>1
  <2>2. CASE filled # {}
    <3>1. filled \subseteq 0 .. Len(text) /\ filled \subseteq 1 .. Len(text)
      BY <1>1
    <3> HIDE DEF filled
    <3>2. \E k \in filled : \A j \in filled : j <= k
      BY <1>1, <2>2, <3>1, GreatestNatural
    <3>3. last \in filled
      BY <1>2, <2>2, <3>2
    <3> QED BY <1>1, <3>1, <3>3
  <2> QED BY <2>1, <2>2
<1>4. Split(text) = SubSeq(text, 1, last)
  BY <1>2 DEF Split
<1>5. \A i \in 1 .. last : text[i] \in Elements
  BY <1>1, <1>3
<1> QED BY <1>1, <1>3, <1>4, <1>5, SubSeqProperties

\* One more place, after those there are.
LEMMA ExtractNext ==
    ASSUME NEW S, NEW s, NEW part \in Seq(S), NEW n \in Nat \ {0}, s[n] \in S,
           NEW P, P \subseteq 1 .. (n - 1), Extract(part, s, P)
    PROVE  /\ Append(part, s[n]) \in Seq(S)
           /\ Extract(Append(part, s[n]), s, P \union {n})
<1>1. PICK p2, m : p2 = Append(part, s[n]) /\ m = Len(part)
  OBVIOUS
<1>2. m \in Nat /\ Len(p2) = m + 1 /\ p2[m + 1] = s[n] /\ (\A k \in 1 .. m : p2[k] = part[k]) /\ p2 \in Seq(S)
  BY <1>1
<1>3. PICK at \in [1 .. m -> P] :
          /\ \A j, k \in 1 .. m : j < k => at[j] < at[k]
          /\ \A p \in P : \E k \in 1 .. m : at[k] = p
          /\ \A k \in 1 .. m : part[k] = s[at[k]]
  BY <1>1 DEF Extract
<1>4. PICK at2 : at2 = [k \in 1 .. (m + 1) |-> IF k = m + 1 THEN n ELSE at[k]]
  OBVIOUS
<1>5. /\ \A k \in 1 .. (m + 1) : k = m + 1 \/ k \in 1 .. m
      /\ \A k \in 1 .. m : k \in 1 .. (m + 1) /\ k # m + 1
      /\ m + 1 \in 1 .. (m + 1)
  BY <1>2
<1>6. at2[m + 1] = n /\ \A k \in 1 .. m : at2[k] = at[k] /\ at[k] \in P /\ at[k] < n
  <2>1. \A p \in P : p < n
    OBVIOUS
  <2>2. \A k \in 1 .. m : at[k] \in P
    BY <1>3
  <2> QED BY <1>4, <1>5, <2>1, <2>2
<1>7. at2 \in [1 .. (m + 1) -> P \union {n}]
  BY <1>4, <1>5, <1>6
<1>8. \A j, k \in 1 .. (m + 1) : j < k => at2[j] < at2[k]
  <2>1. \A j, k \in 1 .. (m + 1) : j < k => j \in 1 .. m
    BY <1>2
  <2> QED BY <1>3, <1>5, <1>6, <2>1
<1>9. \A p \in P \union {n} : \E k \in 1 .. (m + 1) : at2[k] = p
  BY <1>3, <1>5, <1>6
<1>10. \A k \in 1 .. (m + 1) : p2[k] = s[at2[k]]
  BY <1>2, <1>3, <1>5, <1>6
<1>11. Extract(p2, s, P \union {n})
  <2>1. 1 .. Len(p2) = 1 .. (m + 1)
    BY <1>2
  <2>2. /\ at2 \in [1 .. Len(p2) -> P \union {n}]
        /\ \A j, k \in 1 .. Len(p2) : j < k => at2[j] < at2[k]
        /\ \A p \in P \union {n} : \E k \in 1 .. Len(p2) : at2[k] = p
        /\ \A k \in 1 .. Len(p2) : p2[k] = s[at2[k]]
    BY <1>7, <1>8, <1>9, <1>10, <2>1, Zenon
  <2> QED BY <2>2, Zenon DEF Extract
<1> QED BY <1>1, <1>2, <1>11

\* The loop of getResult has come to element n with r[n].
Placed(s, N, r) == r = [n \in 0 .. N |-> IF n = 0 THEN NoElements ELSE Put(r[n - 1], s[n])]

LEMMA LoopRuns ==
    ASSUME NEW s, NEW N \in Nat
    PROVE  \E r : Placed(s, N, r)
<1> DEFINE S == { k \in 1 .. (N + 1) : \E r : Placed(s, k - 1, r) }
<1>1. 1 \in S
  <2>1. Placed(s, 0, [n \in 0 .. 0 |-> NoElements])
    BY DEF Placed
  <2> QED BY <2>1
<1>2. ASSUME NEW k \in 1 .. (N + 1), k \in S, k < N + 1 PROVE k + 1 \in S
  <2>1. PICK r : Placed(s, k - 1, r)
    BY <1>2
  <2> DEFINE next == [n \in 0 .. k |-> IF n = k THEN Put(r[k - 1], s[k]) ELSE r[n]]
  <2>2. \A n \in 0 .. k : n # k => n \in 0 .. (k - 1) /\ (n # 0 => n - 1 \in 0 .. (k - 1) /\ n - 1 # k)
    OBVIOUS
  <2>3. \A n \in 0 .. (k - 1) : r[n] = IF n = 0 THEN NoElements ELSE Put(r[n - 1], s[n])
    BY <2>1 DEF Placed
  <2>4. \A n \in 0 .. k : next[n] = IF n = 0 THEN NoElements ELSE Put(next[n - 1], s[n])
    <3> TAKE n \in 0 .. k
    <3>1. CASE n = k
      <4>1. next[n] = Put(r[k - 1], s[k]) /\ n # 0 /\ n - 1 = k - 1 /\ next[k - 1] = r[k - 1]
        BY <3>1
      <4> HIDE DEF next
      <4> QED BY <3>1, <4>1
    <3>2. CASE n # k
      <4>1. next[n] = r[n] /\ (n # 0 => next[n - 1] = r[n - 1]) /\ n \in 0 .. (k - 1)
        BY <2>2, <3>2
      <4> HIDE DEF next
      <4> QED BY <2>3, <4>1
    <3> QED BY <3>1, <3>2
  <2>5. next = [n \in 0 .. k |-> next[n]]
    OBVIOUS
  <2> HIDE DEF next
  <2>6. Placed(s, k, next)
    BY <2>4, <2>5 DEF Placed
  <2>7. (k + 1) - 1 = k /\ k + 1 \in 1 .. (N + 1)
    BY <1>2
  <2> QED BY <2>6, <2>7
<1>3. 1 .. (N + 1) \subseteq S
  <2> HIDE DEF S
  <2> QED BY <1>1, <1>2, CountUp
<1>4. N + 1 \in S /\ (N + 1) - 1 = N
  <2> HIDE DEF S
  <2> QED BY <1>3
<1> QED BY <1>4

\* The first n elements of s, put where they belong.
SortedTo(r, s, n) ==
    /\ Extract(r.ints, s, { k \in 1 .. n : IsInt(s[k]) })
    /\ Extract(r.floats, s, { k \in 1 .. n : IsFloat(s[k]) })
    /\ Extract(r.other, s, { k \in 1 .. n : ~ IsInt(s[k]) /\ ~ IsFloat(s[k]) })

LEMMA NothingSorted ==
    ASSUME NEW s
    PROVE  NoElements \in Sortings /\ SortedTo(NoElements, s, 0)
<1>1. << >> \in Seq(Elements) /\ 1 .. Len(<< >>) = {}
  OBVIOUS
<1>2. NoElements \in Sortings
  BY <1>1 DEF NoElements, Sortings
<1>3. Extract(<< >>, s, {})
  <2>1. [k \in {} |-> k] \in [1 .. Len(<< >>) -> {}]
    BY <1>1
  <2> QED BY <1>1, <2>1 DEF Extract
<1>4. \A Q : { k \in 1 .. 0 : k \in Q } = {}
  OBVIOUS
<1>5. /\ { k \in 1 .. 0 : IsInt(s[k]) } = {} /\ { k \in 1 .. 0 : IsFloat(s[k]) } = {}
      /\ { k \in 1 .. 0 : ~ IsInt(s[k]) /\ ~ IsFloat(s[k]) } = {}
  OBVIOUS
<1> QED BY <1>2, <1>3, <1>5 DEF SortedTo, NoElements

LEMMA NextSorted ==
    ASSUME NEW s, NEW n \in Nat \ {0}, s[n] \in Elements,
           NEW r \in Sortings, SortedTo(r, s, n - 1)
    PROVE  Put(r, s[n]) \in Sortings /\ SortedTo(Put(r, s[n]), s, n)
<1> DEFINE I(m) == { k \in 1 .. m : IsInt(s[k]) }
           F(m) == { k \in 1 .. m : IsFloat(s[k]) }
           O(m) == { k \in 1 .. m : ~ IsInt(s[k]) /\ ~ IsFloat(s[k]) }
<1>1. /\ r.ints \in Seq(Elements) /\ r.floats \in Seq(Elements) /\ r.other \in Seq(Elements)
      /\ r = [ints |-> r.ints, floats |-> r.floats, other |-> r.other]
  BY DEF Sortings
<1>2. \A k : k \in 1 .. n <=> k \in 1 .. (n - 1) \/ k = n
  OBVIOUS
<1>3. I(n) = (IF IsInt(s[n]) THEN I(n - 1) \union {n} ELSE I(n - 1)) /\ I(n - 1) \subseteq 1 .. (n - 1)
  BY <1>2
<1>4. F(n) = (IF IsFloat(s[n]) THEN F(n - 1) \union {n} ELSE F(n - 1)) /\ F(n - 1) \subseteq 1 .. (n - 1)
  BY <1>2
<1>5. /\ O(n) = (IF ~ IsInt(s[n]) /\ ~ IsFloat(s[n]) THEN O(n - 1) \union {n} ELSE O(n - 1))
      /\ O(n - 1) \subseteq 1 .. (n - 1)
  BY <1>2
<1>6. Extract(r.ints, s, I(n - 1)) /\ Extract(r.floats, s, F(n - 1)) /\ Extract(r.other, s, O(n - 1))
  BY DEF SortedTo
<1>7. IsInt(s[n]) => ~ IsFloat(s[n])
  BY DEF IsInt, IsFloat
<1>8. SortedTo(Put(r, s[n]), s, n) <=>
          /\ Extract(Put(r, s[n]).ints, s, I(n))
          /\ Extract(Put(r, s[n]).floats, s, F(n))
          /\ Extract(Put(r, s[n]).other, s, O(n))
  BY DEF SortedTo
<1> HIDE DEF I, F, O
<1>9. CASE IsInt(s[n])
  <2>1. Put(r, s[n]) = [ints |-> Append(r.ints, s[n]), floats |-> r.floats, other |-> r.other]
    BY <1>1, <1>9 DEF Put
  <2>2. Append(r.ints, s[n]) \in Seq(Elements) /\ Extract(Append(r.ints, s[n]), s, I(n))
    <3>1. PICK P : P = I(n - 1)
      OBVIOUS
    <3>2. PICK part : part = r.ints
      OBVIOUS
    <3>3. part \in Seq(Elements) /\ P \subseteq 1 .. (n - 1) /\ Extract(part, s, P)
      BY <1>1, <1>3, <1>6, <3>1, <3>2
    <3>4. Append(part, s[n]) \in Seq(Elements) /\ Extract(Append(part, s[n]), s, P \union {n})
      BY <3>3, ExtractNext
    <3>5. I(n) = P \union {n}
      BY <1>3, <1>9, <3>1
    <3> QED BY <3>2, <3>4, <3>5
  <2>3. F(n) = F(n - 1) /\ O(n) = O(n - 1)
    BY <1>4, <1>5, <1>7, <1>9
  <2> QED BY <1>1, <1>6, <1>8, <2>1, <2>2, <2>3 DEF Sortings
<1>10. CASE ~ IsInt(s[n]) /\ IsFloat(s[n])
  <2>1. Put(r, s[n]) = [ints |-> r.ints, floats |-> Append(r.floats, s[n]), other |-> r.other]
    BY <1>1, <1>10 DEF Put
  <2>2. Append(r.floats, s[n]) \in Seq(Elements) /\ Extract(Append(r.floats, s[n]), s, F(n))
    <3>1. PICK P : P = F(n - 1)
      OBVIOUS
    <3>2. PICK part : part = r.floats
      OBVIOUS
    <3>3. part \in Seq(Elements) /\ P \subseteq 1 .. (n - 1) /\ Extract(part, s, P)
      BY <1>1, <1>4, <1>6, <3>1, <3>2
    <3>4. Append(part, s[n]) \in Seq(Elements) /\ Extract(Append(part, s[n]), s, P \union {n})
      BY <3>3, ExtractNext
    <3>5. F(n) = P \union {n}
      BY <1>4, <1>10, <3>1
    <3> QED BY <3>2, <3>4, <3>5
  <2>3. I(n) = I(n - 1) /\ O(n) = O(n - 1)
    BY <1>3, <1>5, <1>10
  <2> QED BY <1>1, <1>6, <1>8, <2>1, <2>2, <2>3 DEF Sortings
<1>11. CASE ~ IsInt(s[n]) /\ ~ IsFloat(s[n])
  <2>1. Put(r, s[n]) = [ints |-> r.ints, floats |-> r.floats, other |-> Append(r.other, s[n])]
    BY <1>1, <1>11 DEF Put
  <2>2. Append(r.other, s[n]) \in Seq(Elements) /\ Extract(Append(r.other, s[n]), s, O(n))
    <3>1. PICK P : P = O(n - 1)
      OBVIOUS
    <3>2. PICK part : part = r.other
      OBVIOUS
    <3>3. part \in Seq(Elements) /\ P \subseteq 1 .. (n - 1) /\ Extract(part, s, P)
      BY <1>1, <1>5, <1>6, <3>1, <3>2
    <3>4. Append(part, s[n]) \in Seq(Elements) /\ Extract(Append(part, s[n]), s, P \union {n})
      BY <3>3, ExtractNext
    <3>5. O(n) = P \union {n}
      BY <1>5, <1>11, <3>1
    <3> QED BY <3>2, <3>4, <3>5
  <2>3. I(n) = I(n - 1) /\ F(n) = F(n - 1)
    BY <1>3, <1>4, <1>11
  <2> QED BY <1>1, <1>6, <1>8, <2>1, <2>2, <2>3 DEF Sortings
<1> QED BY <1>9, <1>10, <1>11

\* getResult puts each element of a text where it belongs, in the order of the
\* text, and none twice, whatever the text.
LEMMA ResultSorted ==
    ASSUME NEW text \in Seq(Elements)
    PROVE  ResultMaker(text) \in Sortings /\ Sorted(ResultMaker(text), text)
<1>1. PICK s, N : s = Split(text) /\ N = Len(s)
  OBVIOUS
<1>2. s \in Seq(Elements) /\ N \in Nat /\ DOMAIN s = 1 .. N /\ \A k \in 1 .. N : s[k] \in Elements
  BY <1>1, SplitFacts, ElementOfSeq
<1>3. PICK r : Placed(s, N, r) /\ ResultMaker(text) = r[N]
  <2> DEFINE q == CHOOSE r : Placed(s, N, r)
  <2>1. Placed(s, N, q)
    BY <1>2, LoopRuns
  <2>2. ResultMaker(text) = q[N]
    BY <1>1 DEF ResultMaker, Placed
  <2> QED BY <2>1, <2>2
<1>4. \A n \in 0 .. N : r[n] = IF n = 0 THEN NoElements ELSE Put(r[n - 1], s[n])
  BY <1>3 DEF Placed
<1> DEFINE S == { k \in 1 .. (N + 1) : r[k - 1] \in Sortings /\ SortedTo(r[k - 1], s, k - 1) }
<1>5. 1 \in S
  <2>1. 1 \in 1 .. (N + 1) /\ 1 - 1 = 0 /\ r[0] = NoElements
    BY <1>2, <1>4
  <2> QED BY <2>1, NothingSorted
<1>6. ASSUME NEW k \in 1 .. (N + 1), k \in S, k < N + 1 PROVE k + 1 \in S
  <2>1. k \in 1 .. N /\ k \in 0 .. N /\ k # 0 /\ k + 1 \in 1 .. (N + 1) /\ (k + 1) - 1 = k /\ k \in Nat \ {0}
    BY <1>2, <1>6
  <2>2. r[k] = Put(r[k - 1], s[k]) /\ s[k] \in Elements
    BY <1>2, <1>4, <2>1
  <2>3. r[k] \in Sortings /\ SortedTo(r[k], s, k)
    BY <1>6, <2>1, <2>2, NextSorted
  <2> QED BY <2>1, <2>3
<1>7. N + 1 \in S /\ (N + 1) - 1 = N
  <2>1. N + 1 \in Nat /\ N + 1 \in 1 .. (N + 1) /\ (N + 1) - 1 = N
    BY <1>2
  <2> HIDE DEF S
  <2> QED BY <1>5, <1>6, <2>1, CountUp
<1>8. r[N] \in Sortings /\ SortedTo(r[N], s, N)
  BY <1>7
<1> QED BY <1>1, <1>2, <1>3, <1>8 DEF Sorted, SortedTo

-----------------------------------------------------------------------------
(* The operators of the module.                                            *)

\* Ids are numbers, those there were are below the first new one.
LEMMA IdFacts ==
    /\ FirstNewId \in Nat /\ \A i \in FirstIds : i \in Nat /\ i < FirstNewId
    /\ Ids \subseteq Nat /\ Null \notin Ids
    /\ \A row \in Ids : Null # Passed(row)
<1>1. FirstIds \subseteq 0 .. Group /\ FirstIds # {} /\ Group \in Nat /\ MaxClicks \in Nat
  BY BoundsAssumption
<1>2. PICK m \in FirstIds : \A n \in FirstIds : n <= m
  BY <1>1, GreatestNatural
<1>3. \E n \in FirstIds : \A j \in FirstIds : n >= j
  BY <1>1, <1>2
<1>4. Max(FirstIds) \in FirstIds /\ \A n \in FirstIds : Max(FirstIds) >= n
  BY <1>3 DEF Max
<1>5. FirstNewId \in Nat /\ \A i \in FirstIds : i \in Nat /\ i < FirstNewId
  <2>1. PICK top : top = Max(FirstIds)
    OBVIOUS
  <2>2. top \in 0 .. Group /\ FirstNewId = top + 1 /\ \A i \in FirstIds : i \in 0 .. Group /\ i <= top
    BY <1>1, <1>4, <2>1 DEF FirstNewId
  <2> QED BY <1>1, <2>2
<1>6. Ids \subseteq Nat
  BY <1>1, <1>5 DEF Ids
<1>7. \A row \in Nat : Passed(row) \in Int
  <2>1. Group # 0
    BY BoundsAssumption
  <2> QED BY <1>1, <2>1 DEF Passed
<1>8. Null \notin Ids /\ \A row \in Ids : Null # Passed(row)
  <2>1. Null \notin Int /\ Nat \subseteq Int
    BY NullAssumption
  <2> QED BY <1>6, <1>7, <2>1, Zenon
<1> QED BY <1>5, <1>6, <1>8

\* A field of an element can be set to another of its values.
LEMMA FieldSet ==
    ASSUME NEW e \in Elements
    PROVE  /\ \A v \in {"", "+", "-", " "} : [e EXCEPT !.sign = v] \in Elements
           /\ \A v \in {"", " ", ",", ",+"} : [e EXCEPT !.tail = v] \in Elements
           /\ e.sign \in {"", "+", "-", " "} /\ e.tail \in {"", " ", ",", ",+"}
BY DEF Elements

LEMMA ElementSet ==
    ASSUME NEW text \in Seq(Elements), NEW k \in DOMAIN text, NEW e \in Elements
    PROVE  [text EXCEPT ![k] = e] \in Seq(Elements)
OBVIOUS

\* What the browser sends is a text.
LEMMA TrimmedFacts ==
    ASSUME NEW text \in Seq(Elements)
    PROVE  Resolved(Trimmed(text)) \in Seq(Elements)
<1>1. << >> \in Seq(Elements)
  OBVIOUS
<1>2. ASSUME text # << >> PROVE Trimmed(text) \in Seq(Elements)
  <2>1. PICK n : n = Len(text)
    OBVIOUS
  <2>2. n \in Nat /\ n # 0 /\ DOMAIN text = 1 .. n /\ \A k \in 1 .. n : text[k] \in Elements
    BY <1>2, <2>1, ElementOfSeq, EmptySeq
  <2>3. CASE Last(text) \notin Spaces
    <3>1. PICK v : v = IF text[n].tail = " " THEN "" ELSE text[n].tail
      OBVIOUS
    <3>2. n \in DOMAIN text /\ text[n] \in Elements
      BY <2>2
    <3>3. [text[n] EXCEPT !.tail = v] \in Elements
      BY <3>1, <3>2, FieldSet
    <3>4. Trimmed(text) = [text EXCEPT ![n] = [text[n] EXCEPT !.tail = v]]
      BY <1>2, <2>1, <2>3, <3>1, <3>2 DEF Trimmed
    <3> QED BY <3>2, <3>3, <3>4, ElementSet
  <2>4. CASE Last(text) \in Spaces /\ n = 1
    BY <1>1, <1>2, <2>1, <2>4 DEF Trimmed
  <2>5. CASE Last(text) \in Spaces /\ n # 1
    <3>1. PICK s : s = Front(text)
      OBVIOUS
    <3>2. s = SubSeq(text, 1, n - 1)
      BY <2>1, <3>1 DEF Front
    <3>3. n - 1 \in 1 .. n /\ 1 .. (n - 1) \subseteq 1 .. n /\ n - 1 \in 1 .. (n - 1)
      BY <2>2, <2>5
    <3>4. \A i \in 1 .. (n - 1) : text[i] \in Elements
      BY <2>2, <3>3
    <3>5. s \in Seq(Elements) /\ Len(s) = n - 1
      BY <2>2, <3>2, <3>3, <3>4, SubSeqProperties
    <3>6. n - 1 \in DOMAIN s /\ s[n - 1] \in Elements
      BY <3>3, <3>5, ElementOfSeq
    <3>7. [s[n - 1] EXCEPT !.tail = ","] \in Elements
      BY <3>6, FieldSet
    <3>8. PICK e : e = [s[n - 1] EXCEPT !.tail = ","]
      OBVIOUS
    <3>9. Trimmed(text) = [s EXCEPT ![n - 1] = e]
      BY <1>2, <2>1, <2>5, <3>1, <3>6, <3>8 DEF Trimmed
    <3>10. [s EXCEPT ![n - 1] = e] \in Seq(Elements)
      BY <3>5, <3>6, <3>7, <3>8, ElementSet
    <3> QED BY <3>9, <3>10
  <2> QED BY <2>3, <2>4, <2>5
<1>3. Trimmed(text) \in Seq(Elements)
  <2>1. CASE text = << >>
    BY <1>1, <2>1 DEF Trimmed
  <2> QED BY <1>2, <2>1
<1> QED BY <1>1, <1>3 DEF Resolved

\* And so is what arrives.
LEMMA DecodeFacts ==
    ASSUME NEW text \in Seq(Elements)
    PROVE  Decode(text) \in Seq(Elements)
<1>1. PICK n : n = Len(text)
  OBVIOUS
<1>2. n \in Nat /\ DOMAIN text = 1 .. n /\ \A k \in 1 .. n : text[k] \in Elements
  BY <1>1, ElementOfSeq
<1> DEFINE Sent(e) == [e EXCEPT !.sign = IF @ = "+" THEN " " ELSE @, !.tail = IF @ = ",+" THEN "" ELSE @]
<1>3. \A e \in Elements : Sent(e) \in Elements
  BY DEF Elements
<1>4. PICK s : s = [k \in 1 .. n |-> Sent(text[k])]
  OBVIOUS
<1>5. PICK more : more = IF text # << >> /\ Last(text).tail = ",+" THEN <<Empty>> ELSE << >>
  OBVIOUS
<1>6. Decode(text) = s \o more
  BY <1>2, <1>4, <1>5 DEF Decode
<1> HIDE DEF Sent
<1>7. s \in Seq(Elements)
  BY <1>2, <1>3, <1>4
<1>8. more \in Seq(Elements)
  <2>1. Empty \in Elements
    BY DEF Empty, Elements
  <2>2. <<Empty>> \in Seq(Elements) /\ << >> \in Seq(Elements)
    BY <2>1
  <2> QED BY <1>5, <2>2
<1> QED BY <1>6, <1>7, <1>8

\* What comes of a text that is sent.
Outcome(text) == IF Arrived(text) = << >> THEN About ELSE ResultMaker(Arrived(text))

\* What users send, what the server takes it for, and what comes of it.
LEMMA TextFacts ==
    /\ \A t \in Requests : /\ t \in Seq(Elements) /\ Arrived(t) \in Requests
                           /\ ResultMaker(t) \in Results /\ Outcome(t) \in Results
    /\ Texts \subseteq Requests /\ << >> \in Requests /\ Null \in Results /\ About \in Results
<1>1. \A t \in Seq(Elements) : Arrived(t) \in Seq(Elements)
  BY TrimmedFacts, DecodeFacts DEF Arrived
<1>2. \A t \in Seq(Elements) : ResultMaker(t) \in Results
  BY ResultSorted DEF Results
<1>3. About \in Results /\ Null \in Results
  BY DEF Results
<1>4. \A t \in Seq(Elements) : Outcome(t) \in Results
  BY <1>1, <1>2, <1>3 DEF Outcome
<1>5. Texts \subseteq Seq(Elements) /\ << >> \in Seq(Elements)
  <2>1. Texts \subseteq Seq(Elements) \ {<< >>, <<Empty>>}
    BY TextsAssumption
  <2> QED BY <2>1
<1> QED BY <1>1, <1>2, <1>3, <1>4, <1>5 DEF Requests

-----------------------------------------------------------------------------
(* The inductive invariant.                                                *)

\* The POSTs and task requests that may still change what all users share.
Waiting(x) == x.state \in {"posted", "task"}
Pending(x) == { p \in Browsers \X Slots : Waiting(x[p[1]][p[2]]) }

\* Each change of the table and each request noted has had its click, and so
\* has each XMLHttpRequest that may still come to one; no id is given without a
\* change of the table.  lastTaskRequest is the last request noted, and none of
\* them is empty.
NotedIn(l, i) == IF i = 0 THEN << >> ELSE l[i]
Shared ==
    /\ Store!TypeOK /\ nextId \in Nat /\ FirstNewId <= nextId /\ nextId <= FirstNewId + version
    /\ \A i \in DOMAIN table : i < nextId
    /\ version \in Nat /\ clicks \in Nat /\ clicks <= MaxClicks
    /\ log \in Seq(Requests)
    /\ version + Len(log) + Cardinality(Pending(xhr)) <= clicks
    /\ lastTaskRequest = NotedIn(log, Len(log))
    /\ \A i \in 1 .. Len(log) : log[i] # << >>

\* A page whose ids have no separators knows the row its user means.
DocMeans(d) == d.page = "books" /\ d.rows \subseteq 1 .. Group - 1 => d.changingId = d.chosen

\* What a script waits for was sent from the page it runs in.
XhrMeans(x, page, v) ==
    /\ x.state = "posted" /\ x.plain => x.id = x.chosen /\ (x.op = "add" <=> x.chosen = Null)
    /\ x.state = "done" => x.version <= v
    /\ x.state \in {"task", "noted"} => x.text # << >> /\ (x.wanted = "yes" => page = "task")
    /\ x.state = "noted" => Arrived(x.text) # << >>
    /\ x.state = "result" => page = "task" /\ x.result = Outcome(x.text)

\* What a navigation brings is not older than what its user knows (k), nor than
\* its own beginning.
NavMeans(n, k, l, v) ==
    /\ n.state = "list" => k <= n.version /\ n.version <= v
    /\ n.state \in {"request", "nonempty", "page"} =>
          n.since <= Len(l) /\ n.request = NotedIn(l, n.since)
    /\ n.state = "nonempty" => Len(l) > 0
    /\ n.state = "page" =>
          \E j \in n.since .. Len(l) :
              n.response = IF j = 0 THEN Null ELSE ResultMaker(l[j])

\* What a browser shows and waits for, by what it knows of the table and of the
\* task page.
Local(d, n, x, k, l, v) ==
    /\ d \in Documents /\ n \in Navigations /\ x \in [Slots -> Xhrs] /\ k \in 0 .. v
    /\ DocMeans(d) /\ NavMeans(n, k, l, v)
    /\ \A j \in Slots : XhrMeans(x[j], d.page, v)

IInv == /\ Shared
        /\ DOMAIN doc = Browsers /\ doc = [b \in Browsers |-> doc[b]]
        /\ DOMAIN nav = Browsers /\ nav = [b \in Browsers |-> nav[b]]
        /\ DOMAIN xhr = Browsers /\ xhr = [b \in Browsers |-> xhr[b]]
        /\ DOMAIN known = Browsers /\ known = [b \in Browsers |-> known[b]]
        /\ \A b \in Browsers : Local(doc[b], nav[b], xhr[b], known[b], log, version)

-----------------------------------------------------------------------------
(* What one click, message or rendering leaves alone.                      *)

\* A request noted later leaves the earlier ones in their places.
Extends(l, l2) == /\ l \in Seq(Requests) /\ l2 \in Seq(Requests) /\ Len(l) <= Len(l2)
                  /\ \A i \in 1 .. Len(l) : l2[i] = l[i]

\* A browser that does nothing.
LEMMA OthersKept ==
    ASSUME NEW d, NEW n, NEW x, NEW k, NEW l, NEW v \in Nat, NEW l2, NEW v2 \in Nat,
           Local(d, n, x, k, l, v), Extends(l, l2), v <= v2
    PROVE  Local(d, n, x, k, l2, v2)
<1>1. PICK p, q : p = Len(l) /\ q = Len(l2)
  OBVIOUS
<1>2. p \in Nat /\ q \in Nat /\ p <= q /\ \A i \in 1 .. p : l2[i] = l[i]
  BY <1>1 DEF Extends
<1>3. \A j \in Slots : XhrMeans(x[j], d.page, v2)
  <2> TAKE j \in Slots
  <2>1. XhrMeans(x[j], d.page, v) /\ x[j] \in Xhrs
    BY DEF Local
  <2>2. x[j].state = "done" => x[j].version \in Nat
    BY <2>1 DEF Xhrs, Free
  <2>3. x[j].state = "done" => x[j].version <= v2
    BY <2>1, <2>2 DEF XhrMeans
  <2> QED BY <2>1, <2>3 DEF XhrMeans
<1>4. NavMeans(n, k, l2, v2)
  <2>1. NavMeans(n, k, l, v) /\ n \in Navigations
    BY DEF Local
  <2>2. n.state = "list" => n.version \in Nat
    BY <2>1 DEF Navigations, Idle, Asked
  <2>3. n.state \in {"request", "nonempty", "page"} => n.since \in Nat
    BY <2>1 DEF Navigations, Idle, Asked
  <2>4. n.state = "list" => k <= n.version /\ n.version <= v2
    BY <2>1, <2>2 DEF NavMeans
  <2>5. n.state \in {"request", "nonempty", "page"} =>
            n.since <= Len(l2) /\ n.request = NotedIn(l2, n.since)
    BY <1>1, <1>2, <2>1, <2>3 DEF NavMeans, NotedIn
  <2>6. n.state = "nonempty" => Len(l2) > 0
    BY <1>1, <1>2, <2>1 DEF NavMeans
  <2>7. ASSUME n.state = "page"
        PROVE  \E j \in n.since .. Len(l2) :
                   n.response = IF j = 0 THEN Null ELSE ResultMaker(l2[j])
    <3>1. PICK j \in n.since .. p : n.response = IF j = 0 THEN Null ELSE ResultMaker(l[j])
      BY <1>1, <2>1, <2>7 DEF NavMeans
    <3>2. n.since \in Nat
      BY <2>3, <2>7
    <3>3. j \in n.since .. q /\ (j # 0 => l2[j] = l[j])
      BY <1>2, <3>1, <3>2
    <3> QED BY <1>1, <3>1, <3>3
  <2> QED BY <2>4, <2>5, <2>6, <2>7 DEF NavMeans
<1> QED BY <1>3, <1>4 DEF Local

\* A step of one browser, or of the server for it.
LEMMA OneBrowser ==
    ASSUME IInv, Shared', NEW b \in Browsers, NEW d, NEW n, NEW x, NEW k,
           doc' = [doc EXCEPT ![b] = d], nav' = [nav EXCEPT ![b] = n],
           xhr' = [xhr EXCEPT ![b] = x], known' = [known EXCEPT ![b] = k],
           version <= version', Extends(log, log'),
           Local(d, n, x, k, log', version')
    PROVE  IInv'
<1>1. version \in Nat /\ version' \in Nat
  BY DEF IInv, Shared
<1>2. ASSUME NEW c \in Browsers
      PROVE  Local(doc'[c], nav'[c], xhr'[c], known'[c], log', version')
  <2>1. CASE c = b
    BY <2>1 DEF IInv
  <2>2. CASE c # b
    <3>1. Local(doc[c], nav[c], xhr[c], known[c], log', version')
      BY <1>1, OthersKept DEF IInv
    <3> QED BY <2>2, <3>1 DEF IInv
  <2> QED BY <2>1, <2>2
<1>3. /\ DOMAIN doc' = Browsers /\ doc' = [c \in Browsers |-> doc'[c]]
      /\ DOMAIN nav' = Browsers /\ nav' = [c \in Browsers |-> nav'[c]]
      /\ DOMAIN xhr' = Browsers /\ xhr' = [c \in Browsers |-> xhr'[c]]
      /\ DOMAIN known' = Browsers /\ known' = [c \in Browsers |-> known'[c]]
  BY DEF IInv
<1> QED BY <1>2, <1>3 DEF IInv

\* One XMLHttpRequest changes.
LEMMA OneXhr ==
    ASSUME NEW xs, DOMAIN xs = Browsers, \A c \in Browsers : xs[c] \in [Slots -> Xhrs],
           NEW b \in Browsers, NEW k \in Slots, NEW x,
           NEW ys, ys = [xs EXCEPT ![b][k] = x]
    PROVE  /\ Cardinality(Pending(xs)) \in Nat /\ Cardinality(Pending(ys)) \in Nat
           /\ Cardinality(Pending(ys)) <= Cardinality(Pending(xs)) + 1
           /\ ~ Waiting(x) => Cardinality(Pending(ys)) <= Cardinality(Pending(xs))
           /\ Waiting(xs[b][k]) /\ ~ Waiting(x) =>
                  Cardinality(Pending(ys)) + 1 <= Cardinality(Pending(xs))
<1>1. PICK S, T : S = Pending(xs) /\ T = Pending(ys)
  OBVIOUS
<1>2. IsFiniteSet(S)
  <2>1. IsFiniteSet(Browsers \X Slots)
    BY BrowsersAssumption, FS_Product
  <2>2. S \in SUBSET (Browsers \X Slots)
    BY <1>1 DEF Pending
  <2> QED BY <2>1, <2>2, FS_Subset
<1>3. PICK p : p = <<b, k>>
  OBVIOUS
<1>4. \A q \in Browsers \X Slots : q # p => ys[q[1]][q[2]] = xs[q[1]][q[2]]
  BY <1>3
<1>5. p \in Browsers \X Slots /\ ys[p[1]][p[2]] = x /\ xs[p[1]][p[2]] = xs[b][k]
  BY <1>3
<1>6. (p \in S <=> Waiting(xs[b][k])) /\ (p \in T <=> Waiting(x))
  BY <1>1, <1>5 DEF Pending
<1>7. \A q : q # p => (q \in S <=> q \in T)
  BY <1>1, <1>4 DEF Pending
<1>8. Cardinality(S) \in Nat /\ Cardinality(T) \in Nat
  <2>1. T \subseteq S \union {p}
    BY <1>7
  <2>2. IsFiniteSet(S \union {p})
    BY <1>2, FS_AddElement
  <2>3. IsFiniteSet(T)
    BY <2>1, <2>2, FS_Subset
  <2> QED BY <1>2, <2>3, FS_CardinalityType
<1>9. CASE Waiting(x)
  <2>1. T = S \cup {p}
    BY <1>6, <1>7, <1>9
  <2>2. Cardinality(T) = IF p \in S THEN Cardinality(S) ELSE Cardinality(S) + 1
    BY <1>2, <2>1, FS_AddElement
  <2> QED BY <1>1, <1>9, <1>8, <2>2
<1>10. CASE ~ Waiting(x)
  <2>1. T = S \ {p}
    BY <1>6, <1>7, <1>10
  <2>2. Cardinality(T) = IF p \in S THEN Cardinality(S) - 1 ELSE Cardinality(S)
    BY <1>2, <2>1, FS_RemoveElement
  <2> QED BY <1>1, <1>6, <1>10, <1>8, <2>2
<1> QED BY <1>9, <1>10

\* What all users share stays as it is, but for the clicks.
LEMMA SharedKept ==
    ASSUME IInv, UNCHANGED <<books, task>>, clicks' \in Nat, clicks' <= MaxClicks,
           Cardinality(Pending(xhr)) \in Nat, Cardinality(Pending(xhr')) \in Nat,
           Cardinality(Pending(xhr')) + clicks <= Cardinality(Pending(xhr)) + clicks'
    PROVE  Shared' /\ version <= version' /\ Extends(log, log') /\ log' = log /\ version' = version
<1>1. Shared
  BY DEF IInv
<1>2. UNCHANGED <<table, nextId, version, lastTaskRequest, log>>
  BY DEF books, task
<1>3. Store!TypeOK'
  BY <1>1, <1>2 DEF Shared, Store!TypeOK
<1>4. version' + Len(log') + Cardinality(Pending(xhr')) <= clicks'
  <2>1. PICK m : m = Len(log)
    OBVIOUS
  <2>2. PICK p, q : p = Cardinality(Pending(xhr)) /\ q = Cardinality(Pending(xhr'))
    OBVIOUS
  <2>3. m \in Nat /\ version \in Nat /\ clicks \in Nat /\ version + m + p <= clicks
    BY <1>1, <2>1, <2>2 DEF Shared
  <2>4. version + m + q <= clicks'
    BY <2>2, <2>3
  <2> QED BY <1>2, <2>1, <2>2, <2>4
<1>5. Shared'
  BY <1>1, <1>2, <1>3, <1>4 DEF Shared
<1> QED BY <1>1, <1>2, <1>5 DEF Shared, Extends

LEMMA LocalXhr ==
    ASSUME NEW d, NEW n, NEW x, NEW k, NEW l, NEW v, Local(d, n, x, k, l, v),
           NEW j \in Slots, NEW y \in Xhrs, XhrMeans(y, d.page, v)
    PROVE  Local(d, n, [x EXCEPT ![j] = y], k, l, v)
<1>1. x \in [Slots -> Xhrs] /\ \A i \in Slots : XhrMeans(x[i], d.page, v)
  BY DEF Local
<1>2. PICK z : z = [x EXCEPT ![j] = y]
  OBVIOUS
<1>3. z \in [Slots -> Xhrs] /\ z[j] = y /\ \A i \in Slots : i # j => z[i] = x[i]
  BY <1>1, <1>2
<1>4. \A i \in Slots : XhrMeans(z[i], d.page, v)
  BY <1>1, <1>3
<1>5. Local(d, n, z, k, l, v)
  BY <1>3, <1>4 DEF Local
<1> QED BY <1>2, <1>5

LEMMA LocalDoc ==
    ASSUME NEW d, NEW n, NEW x, NEW k, NEW l, NEW v, Local(d, n, x, k, l, v),
           NEW d2 \in Documents, d2.page = d.page, DocMeans(d2)
    PROVE  Local(d2, n, x, k, l, v)
BY DEF Local

LEMMA LocalNav ==
    ASSUME NEW d, NEW n, NEW x, NEW k, NEW l, NEW v, Local(d, n, x, k, l, v),
           NEW n2 \in Navigations, NavMeans(n2, k, l, v)
    PROVE  Local(d, n2, x, k, l, v)
BY DEF Local

\* What the invariant says of one browser and one of its XMLHttpRequests.
LEMMA OneOf ==
    ASSUME IInv, NEW b \in Browsers
    PROVE  /\ Local(doc[b], nav[b], xhr[b], known[b], log, version)
           /\ doc[b] \in Documents /\ nav[b] \in Navigations /\ xhr[b] \in [Slots -> Xhrs]
           /\ known[b] \in 0 .. version /\ version \in Nat
           /\ DocMeans(doc[b]) /\ NavMeans(nav[b], known[b], log, version)
           /\ \A k \in Slots : xhr[b][k] \in Xhrs /\ XhrMeans(xhr[b][k], doc[b].page, version)
           /\ doc = [doc EXCEPT ![b] = doc[b]] /\ nav = [nav EXCEPT ![b] = nav[b]]
           /\ xhr = [xhr EXCEPT ![b] = xhr[b]] /\ known = [known EXCEPT ![b] = known[b]]
BY DEF IInv, Local, Shared

LEMMA XhrChange ==
    ASSUME IInv, NEW b \in Browsers, NEW k \in Slots, NEW x, SetXhr(b, k, x)
    PROVE  /\ xhr' = [xhr EXCEPT ![b] = [xhr[b] EXCEPT ![k] = x]]
           /\ Cardinality(Pending(xhr)) \in Nat /\ Cardinality(Pending(xhr')) \in Nat
           /\ Cardinality(Pending(xhr')) <= Cardinality(Pending(xhr)) + 1
           /\ ~ Waiting(x) => Cardinality(Pending(xhr')) <= Cardinality(Pending(xhr))
           /\ Waiting(xhr[b][k]) /\ ~ Waiting(x) =>
                  Cardinality(Pending(xhr')) + 1 <= Cardinality(Pending(xhr))
<1>1. DOMAIN xhr = Browsers /\ \A c \in Browsers : xhr[c] \in [Slots -> Xhrs]
  BY OneOf DEF IInv
<1>2. xhr' = [xhr EXCEPT ![b][k] = x]
  BY DEF SetXhr
<1>3. PICK xs, ys : xs = xhr /\ ys = xhr'
  OBVIOUS
<1>4. /\ Cardinality(Pending(xs)) \in Nat /\ Cardinality(Pending(ys)) \in Nat
      /\ Cardinality(Pending(ys)) <= Cardinality(Pending(xs)) + 1
      /\ ~ Waiting(x) => Cardinality(Pending(ys)) <= Cardinality(Pending(xs))
      /\ Waiting(xs[b][k]) /\ ~ Waiting(x) =>
             Cardinality(Pending(ys)) + 1 <= Cardinality(Pending(xs))
  BY <1>1, <1>2, <1>3, OneXhr
<1> QED BY <1>2, <1>3, <1>4

\* No XMLHttpRequest changes.
LEMMA PendingNat ==
    ASSUME IInv
    PROVE  Cardinality(Pending(xhr)) \in Nat /\ clicks \in Nat /\ clicks <= MaxClicks
<1>1. IsFiniteSet(Browsers \X Slots)
  BY BrowsersAssumption, FS_Product
<1>2. Pending(xhr) \subseteq Browsers \X Slots
  BY DEF Pending
<1>3. IsFiniteSet(Pending(xhr))
  BY <1>1, <1>2, FS_Subset
<1> QED BY <1>3, FS_CardinalityType DEF IInv, Shared

-----------------------------------------------------------------------------
(* The users.                                                              *)

\* A click that sends an XMLHttpRequest.
LEMMA XhrSent ==
    ASSUME IInv, NEW b \in Browsers, NEW x \in Xhrs, NEW d \in Documents, SendXhr(b, x),
           UNCHANGED <<books, task, nav, known>>, doc' = [doc EXCEPT ![b] = d],
           d.page = doc[b].page, DocMeans(d), XhrMeans(x, doc[b].page, version)
    PROVE  IInv'
<1>1. PICK k \in Slots : SetXhr(b, k, x)
  BY DEF SendXhr
<1>2. clicks \in Nat /\ clicks' = clicks + 1 /\ clicks < MaxClicks /\ MaxClicks \in Nat
  BY PendingNat, BoundsAssumption DEF SendXhr
<1>3. PICK p, q : p = Cardinality(Pending(xhr)) /\ q = Cardinality(Pending(xhr'))
  OBVIOUS
<1>4. p \in Nat /\ q \in Nat /\ q <= p + 1
  BY <1>1, <1>3, XhrChange
<1>5. q + clicks <= p + clicks'
  BY <1>2, <1>4
<1>6. Shared' /\ version <= version' /\ Extends(log, log') /\ log' = log /\ version' = version
  BY <1>2, <1>3, <1>4, <1>5, SharedKept
<1>7. PICK y : y = [xhr[b] EXCEPT ![k] = x]
  OBVIOUS
<1>8. Local(d, nav[b], y, known[b], log, version)
  <2>1. Local(d, nav[b], xhr[b], known[b], log, version)
    BY OneOf, LocalDoc
  <2> QED BY <1>7, <2>1, LocalXhr
<1>9. /\ nav' = [nav EXCEPT ![b] = nav[b]] /\ known' = [known EXCEPT ![b] = known[b]]
      /\ xhr' = [xhr EXCEPT ![b] = y]
  BY <1>1, <1>7, OneOf, XhrChange
<1> QED BY <1>6, <1>8, <1>9, OneBrowser

\* What a books page holds.
LEMMA BooksPage ==
    ASSUME NEW d \in Documents, d.page = "books"
    PROVE  /\ d.rows \subseteq Ids /\ d.chosen \in Ids \union {Null}
           /\ d.changingId \in { Passed(row) : row \in Ids } \union {Null}
           /\ d = [page |-> "books", rows |-> d.rows, chosen |-> d.chosen,
                   changingId |-> d.changingId]
BY DEF Documents, Blank

LEMMA PassedSame ==
    ASSUME NEW row, NEW rows, row \in rows, rows \subseteq 1 .. Group - 1
    PROVE  Passed(row) = row
BY BoundsAssumption DEF Passed

LEMMA SetsChanging ==
    ASSUME IInv, NEW b \in Browsers, doc[b].page = "books",
           NEW id \in { Passed(row) : row \in Ids } \union {Null},
           NEW chosen \in Ids \union {Null}, SetChanging(b, id, chosen),
           doc[b].rows \subseteq 1 .. Group - 1 => id = chosen
    PROVE  \E d \in Documents : /\ doc' = [doc EXCEPT ![b] = d]
                                /\ d.page = doc[b].page /\ DocMeans(d)
<1>1. PICK rows : rows = doc[b].rows
  OBVIOUS
<1>2. PICK d : d = [page |-> "books", rows |-> rows, chosen |-> chosen, changingId |-> id]
  OBVIOUS
<1>3. /\ doc[b] \in Documents /\ rows \subseteq Ids
      /\ doc[b] = [page |-> "books", rows |-> rows, chosen |-> doc[b].chosen,
                   changingId |-> doc[b].changingId]
  BY <1>1, OneOf, BooksPage
<1>4. d \in Documents
  BY <1>2, <1>3 DEF Documents
<1>5. d = [doc[b] EXCEPT !.changingId = id, !.chosen = chosen]
  <2>1. PICK e, i, c : /\ e = doc[b]
                       /\ e = [page |-> "books", rows |-> rows, chosen |-> c, changingId |-> i]
    BY <1>3
  <2>2. PICK g : g = [e EXCEPT !.changingId = id]
    OBVIOUS
  <2>3. g = [page |-> "books", rows |-> rows, chosen |-> c, changingId |-> id]
    BY <2>1, <2>2
  <2>4. [g EXCEPT !.chosen = chosen] =
            [page |-> "books", rows |-> rows, chosen |-> chosen, changingId |-> id]
    BY <2>3
  <2>5. [g EXCEPT !.chosen = chosen] = [doc[b] EXCEPT !.changingId = id, !.chosen = chosen]
    BY <2>1, <2>2
  <2> QED BY <1>2, <2>4, <2>5
<1>6. doc' = [doc EXCEPT ![b] = d]
  <2>1. DOMAIN doc = Browsers /\ doc = [c \in Browsers |-> doc[c]]
    BY DEF IInv
  <2>2. doc' = [doc EXCEPT ![b].changingId = id, ![b].chosen = chosen]
    BY DEF SetChanging
  <2> QED BY <1>5, <2>1, <2>2
<1>7. DocMeans(d) /\ d.page = doc[b].page
  BY <1>1, <1>2 DEF DocMeans
<1> QED BY <1>4, <1>6, <1>7

LEMMA RemoveBookByIdKeeps ==
    ASSUME IInv, NEW b \in Browsers, NEW row \in Ids, RemoveBookById(b, row)
    PROVE  IInv'
<1>1. PICK x : x = [state |-> "posted", op |-> "remove", id |-> Passed(row), wanted |-> "yes",
                    chosen |-> row, plain |-> doc[b].rows \subseteq 1 .. Group - 1]
  OBVIOUS
<1>2. x \in Xhrs /\ SendXhr(b, x) /\ UNCHANGED <<books, task, doc, nav, known>> /\ row \in doc[b].rows
  BY <1>1, ZenonT(30) DEF RemoveBookById, PostRequest, Xhrs
<1>3. XhrMeans(x, doc[b].page, version)
  <2>1. row # Null
    BY IdFacts
  <2>2. x.plain => x.id = row
    BY <1>1, <1>2, PassedSame
  <2> QED BY <1>1, <2>1, <2>2 DEF XhrMeans
<1>4. doc[b] \in Documents /\ DocMeans(doc[b]) /\ doc' = [doc EXCEPT ![b] = doc[b]]
  BY <1>2, OneOf
<1> QED BY <1>2, <1>3, <1>4, XhrSent

LEMMA SetChangingModeKeeps ==
    ASSUME IInv, NEW b \in Browsers, NEW row \in Ids, SetChangingMode(b, row)
    PROVE  IInv'
<1>1. PICK id : id = IF doc[b].changingId = Passed(row) THEN Null ELSE Passed(row)
  OBVIOUS
<1>2. /\ doc[b].page = "books" /\ row \in doc[b].rows /\ SetChanging(b, id, Chosen(b, row))
      /\ UNCHANGED <<books, task, nav, xhr, clicks, known>>
  BY <1>1 DEF SetChangingMode
<1>3. id \in { Passed(r) : r \in Ids } \union {Null} /\ Chosen(b, row) \in Ids \union {Null}
  BY <1>1 DEF Chosen
<1>4. ASSUME doc[b].rows \subseteq 1 .. Group - 1 PROVE id = Chosen(b, row)
  <2>1. Passed(row) = row
    BY <1>2, <1>4, PassedSame
  <2>2. doc[b].changingId = doc[b].chosen
    BY <1>2, <1>4, OneOf DEF DocMeans
  <2> QED BY <1>1, <2>1, <2>2 DEF Chosen
<1>5. PICK d \in Documents : /\ doc' = [doc EXCEPT ![b] = d]
                             /\ d.page = doc[b].page /\ DocMeans(d)
  BY <1>2, <1>3, <1>4, SetsChanging
<1>6. Shared' /\ version <= version' /\ Extends(log, log') /\ log' = log /\ version' = version
  BY <1>2, PendingNat, SharedKept
<1>7. Local(d, nav[b], xhr[b], known[b], log, version)
  BY <1>5, OneOf, LocalDoc
<1>8. /\ nav' = [nav EXCEPT ![b] = nav[b]] /\ known' = [known EXCEPT ![b] = known[b]]
      /\ xhr' = [xhr EXCEPT ![b] = xhr[b]]
  BY <1>2, OneOf
<1> QED BY <1>5, <1>6, <1>7, <1>8, OneBrowser

LEMMA ButtonClickKeeps ==
    ASSUME IInv, NEW b \in Browsers, ButtonClick(b)
    PROVE  IInv'
<1>1. PICK e : e = doc[b]
  OBVIOUS
<1>2. PICK x : x = [state |-> "posted", op |-> IF e.changingId = Null THEN "add" ELSE "change",
                    id |-> e.changingId, wanted |-> "yes",
                    chosen |-> e.chosen, plain |-> e.rows \subseteq 1 .. Group - 1]
  OBVIOUS
<1>3. /\ e.page = "books" /\ SendXhr(b, x) /\ SetChanging(b, Null, Null)
      /\ UNCHANGED <<books, task, nav, known>>
  BY <1>1, <1>2 DEF ButtonClick, PostRequest
<1>4. e \in Documents /\ DocMeans(e)
  BY <1>1, OneOf
<1>5. x \in Xhrs
  <2>1. e.chosen \in Ids \union {Null} /\ e.changingId \in { Passed(row) : row \in Ids } \union {Null}
    BY <1>3, <1>4, BooksPage
  <2> QED BY <1>2, <2>1, ZenonT(30) DEF Xhrs
<1>6. XhrMeans(x, doc[b].page, version)
  BY <1>2, <1>3, <1>4 DEF XhrMeans, DocMeans
<1>7. PICK d \in Documents : /\ doc' = [doc EXCEPT ![b] = d]
                             /\ d.page = doc[b].page /\ DocMeans(d)
  BY <1>1, <1>3, SetsChanging
<1> QED BY <1>3, <1>5, <1>6, <1>7, XhrSent

LEMMA LastNoted ==
    ASSUME IInv
    PROVE  /\ log \in Seq(Requests) /\ Len(log) \in Nat /\ lastTaskRequest \in Requests
           /\ lastTaskRequest = NotedIn(log, Len(log))
           /\ \A i \in 1 .. Len(log) : log[i] \in Requests /\ log[i] # << >>
           /\ lastTaskRequest = << >> <=> Len(log) = 0
<1>1. PICK m : m = Len(log)
  OBVIOUS
<1>2. /\ log \in Seq(Requests) /\ m \in Nat /\ lastTaskRequest = NotedIn(log, m)
      /\ \A i \in 1 .. m : log[i] \in Requests /\ log[i] # << >>
  <2>1. log \in Seq(Requests) /\ lastTaskRequest = NotedIn(log, Len(log)) /\ \A i \in 1 .. Len(log) : log[i] # << >>
    BY DEF IInv, Shared
  <2>2. \A i \in 1 .. Len(log) : log[i] \in Requests
    BY <2>1, ElementOfSeq
  <2> QED BY <1>1, <2>1, <2>2
<1>3. m = 0 \/ m \in 1 .. m
  BY <1>2
<1>4. lastTaskRequest \in Requests /\ (lastTaskRequest = << >> <=> m = 0)
  BY <1>2, <1>3, TextFacts DEF NotedIn
<1> QED BY <1>1, <1>2, <1>4

LEMMA GetFilterKeeps ==
    ASSUME IInv, NEW b \in Browsers, NEW text \in Offered, GetFilter(b, text)
    PROVE  IInv'
<1>1. PICK x : x = [state |-> "task", text |-> text, wanted |-> "yes"]
  OBVIOUS
<1>2. x \in Xhrs /\ SendXhr(b, x) /\ UNCHANGED <<books, task, doc, nav, known>>
  <2>1. text \in Requests
    BY LastNoted, TextFacts, ElementOfSeq DEF Offered
  <2> QED BY <1>1, <2>1 DEF GetFilter, Xhrs
<1>3. XhrMeans(x, doc[b].page, version)
  BY <1>1 DEF XhrMeans, GetFilter
<1>4. doc[b] \in Documents /\ DocMeans(doc[b]) /\ doc' = [doc EXCEPT ![b] = doc[b]]
  BY <1>2, OneOf
<1> QED BY <1>2, <1>3, <1>4, XhrSent

\* A navigation that goes its next step.
LEMMA OnlyNav ==
    ASSUME IInv, NEW b \in Browsers, UNCHANGED <<books, task, doc, xhr, clicks, known>>,
           NEW n \in Navigations, nav' = [nav EXCEPT ![b] = n],
           NavMeans(n, known[b], log, version)
    PROVE  IInv'
<1>1. Shared' /\ version <= version' /\ Extends(log, log') /\ log' = log /\ version' = version
  BY PendingNat, SharedKept
<1>2. Local(doc[b], n, xhr[b], known[b], log, version)
  BY OneOf, LocalNav
<1>3. /\ doc' = [doc EXCEPT ![b] = doc[b]] /\ known' = [known EXCEPT ![b] = known[b]]
      /\ xhr' = [xhr EXCEPT ![b] = xhr[b]]
  <2>1. doc' = doc /\ known' = known /\ xhr' = xhr
    OBVIOUS
  <2>2. /\ doc = [doc EXCEPT ![b] = doc[b]] /\ known = [known EXCEPT ![b] = known[b]]
        /\ xhr = [xhr EXCEPT ![b] = xhr[b]]
    BY OneOf
  <2> QED BY <2>1, <2>2
<1>4. PICK d, x, k : d = doc[b] /\ x = xhr[b] /\ k = known[b]
  OBVIOUS
<1>5. Local(d, n, x, k, log', version')
  BY <1>1, <1>2, <1>4
<1>6. doc' = [doc EXCEPT ![b] = d] /\ xhr' = [xhr EXCEPT ![b] = x] /\ known' = [known EXCEPT ![b] = k]
  BY <1>3, <1>4
<1> QED BY <1>1, <1>5, <1>6, OneBrowser

LEMMA AskedMeans ==
    ASSUME NEW page \in {"books", "task"}, NEW k, NEW l, NEW v
    PROVE  Asked(page) \in Navigations /\ NavMeans(Asked(page), k, l, v)
BY DEF Asked, Navigations, NavMeans

LEMMA NavigateKeeps ==
    ASSUME IInv, NEW b \in Browsers, NEW page \in {"books", "task"}, Navigate(b, page)
    PROVE  IInv'
BY AskedMeans, OnlyNav DEF Navigate

-----------------------------------------------------------------------------
(* The pages that the server renders.                                      *)

LEMMA RenderBooksKeeps ==
    ASSUME IInv, NEW b \in Browsers, RenderBooks(b)
    PROVE  IInv'
<1>1. PICK n : n = BooksAnswer(DOMAIN table, version)
  OBVIOUS
<1>2. DOMAIN table \subseteq Ids /\ version \in Nat /\ known[b] \in 0 .. version
  BY OneOf DEF IInv, Shared, Store!TypeOK
<1>3. n \in Navigations
  BY <1>1, <1>2 DEF BooksAnswer, Navigations
<1>4. NavMeans(n, known[b], log, version)
  BY <1>1, <1>2 DEF BooksAnswer, NavMeans
<1> QED BY <1>1, <1>3, <1>4, OnlyNav DEF RenderBooks

\* lastTaskRequest is the last request noted.
LEMMA PutRequestKeeps ==
    ASSUME IInv, NEW b \in Browsers, PutRequest(b)
    PROVE  IInv'
<1>1. PICK n : n = [state |-> "request", request |-> lastTaskRequest, since |-> Len(log)]
  OBVIOUS
<1>2. n \in Navigations
  BY <1>1, LastNoted DEF Navigations
<1>3. NavMeans(n, known[b], log, version)
  BY <1>1, LastNoted DEF NavMeans
<1> QED BY <1>1, <1>2, <1>3, OnlyNav DEF PutRequest

\* The fields of a navigation to /task.
LEMMA TaskNav ==
    ASSUME NEW n \in Navigations, n.state \in {"request", "nonempty"}
    PROVE  /\ n.request \in Requests /\ n.since \in Nat
           /\ n = [state |-> n.state, request |-> n.request, since |-> n.since]
BY DEF Navigations, Idle, Asked

\* The page of a result that is the one of the last request.
LEMMA PageMeans ==
    ASSUME IInv, NEW b \in Browsers, nav[b].state \in {"request", "nonempty"},
           NEW r, r = IF Len(log) = 0 THEN Null ELSE ResultMaker(log[Len(log)])
    PROVE  /\ TaskAnswer(b, r) \in Navigations
           /\ NavMeans(TaskAnswer(b, r), known[b], log, version)
<1>1. PICK m, n, p : m = Len(log) /\ n = nav[b] /\ p = TaskAnswer(b, r)
  OBVIOUS
<1>2. n.request \in Requests /\ n.since \in Nat
  BY <1>1, OneOf, TaskNav
<1>3. n.since <= m /\ n.request = NotedIn(log, n.since) /\ m \in Nat
  BY <1>1, OneOf, LastNoted DEF NavMeans
<1>4. r \in Results
  BY LastNoted, TextFacts
<1>5. p = [state |-> "page", request |-> n.request, since |-> n.since, response |-> r]
  BY <1>1 DEF TaskAnswer
<1>6. p \in Navigations
  BY <1>2, <1>4, <1>5 DEF Navigations
<1>7. m \in n.since .. m /\ r = IF m = 0 THEN Null ELSE ResultMaker(log[m])
  BY <1>1, <1>2, <1>3
<1>8. p.state = "page" /\ p.request = n.request /\ p.since = n.since /\ p.response = r
  BY <1>5
<1>9. NavMeans(p, known[b], log, version)
  BY <1>1, <1>3, <1>7, <1>8 DEF NavMeans
<1> QED BY <1>1, <1>6, <1>9

LEMMA TestRequestKeeps ==
    ASSUME IInv, NEW b \in Browsers, TestRequest(b)
    PROVE  IInv'
<1>1. nav[b].state = "request" /\ UNCHANGED <<books, task, doc, xhr, clicks, known>>
  BY DEF TestRequest
<1>2. DOMAIN nav = Browsers
  BY DEF IInv
<1>3. CASE lastTaskRequest = << >>
  <2>1. nav' = [nav EXCEPT ![b] = TaskAnswer(b, Null)]
    BY <1>3 DEF TestRequest
  <2>2. Len(log) = 0
    BY <1>3, LastNoted
  <2>3. /\ TaskAnswer(b, Null) \in Navigations
        /\ NavMeans(TaskAnswer(b, Null), known[b], log, version)
    BY <1>1, <2>2, PageMeans
  <2> QED BY <1>1, <2>1, <2>3, OnlyNav
<1>4. CASE lastTaskRequest # << >>
  <2>1. PICK o : o = nav[b]
    OBVIOUS
  <2>2. PICK n : n = [state |-> "nonempty", request |-> o.request, since |-> o.since]
    OBVIOUS
  <2>3. o.request \in Requests /\ o.since \in Nat /\ o = [state |-> "request", request |-> o.request, since |-> o.since]
    BY <1>1, <2>1, OneOf, TaskNav
  <2>4. n = [o EXCEPT !.state = "nonempty"]
    BY <2>2, <2>3
  <2>5. nav' = [nav EXCEPT ![b] = n]
    BY <1>2, <1>4, <2>1, <2>4 DEF TestRequest
  <2>6. n \in Navigations
    BY <2>2, <2>3 DEF Navigations
  <2>7. Len(log) > 0 /\ o.since <= Len(log) /\ o.request = NotedIn(log, o.since)
    <3>1. Len(log) \in Nat /\ Len(log) # 0
      BY <1>4, LastNoted
    <3>2. o.since <= Len(log) /\ o.request = NotedIn(log, o.since)
      BY <1>1, <2>1, OneOf DEF NavMeans
    <3> QED BY <3>1, <3>2
  <2>8. NavMeans(n, known[b], log, version)
    BY <2>2, <2>7 DEF NavMeans
  <2> QED BY <1>1, <2>5, <2>6, <2>8, OnlyNav
<1> QED BY <1>3, <1>4

LEMMA PutResponseKeeps ==
    ASSUME IInv, NEW b \in Browsers, PutResponse(b)
    PROVE  IInv'
<1>1. /\ nav[b].state = "nonempty" /\ UNCHANGED <<books, task, doc, xhr, clicks, known>>
      /\ nav' = [nav EXCEPT ![b] = TaskAnswer(b, ResultMaker(lastTaskRequest))]
  BY DEF PutResponse
<1>2. Len(log) > 0 /\ Len(log) \in Nat
  BY <1>1, OneOf, LastNoted DEF NavMeans
<1>3. lastTaskRequest = log[Len(log)]
  BY <1>2, LastNoted DEF NotedIn
<1>4. /\ TaskAnswer(b, ResultMaker(lastTaskRequest)) \in Navigations
      /\ NavMeans(TaskAnswer(b, ResultMaker(lastTaskRequest)), known[b], log, version)
  BY <1>1, <1>2, <1>3, PageMeans
<1> QED BY <1>1, <1>4, OnlyNav

-----------------------------------------------------------------------------
(* The requests that the server serves.                                    *)

\* The fields of an XMLHttpRequest.
LEMMA XhrFields ==
    ASSUME NEW x \in Xhrs
    PROVE  /\ x.state \in {"posted", "task", "noted"} => x.wanted \in {"yes", "no"}
           /\ x.state \in {"task", "noted"} =>
                  /\ x.text \in Requests
                  /\ x = [state |-> x.state, text |-> x.text, wanted |-> x.wanted]
           /\ x.state = "done" => x.version \in Nat
           /\ x.state = "result" => x.text \in Requests /\ x.result \in Results /\ x.wanted = "yes"
BY DEF Xhrs, Free

LEMMA FreeMeans ==
    ASSUME NEW page, NEW v
    PROVE  Free \in Xhrs /\ XhrMeans(Free, page, v) /\ ~ Waiting(Free)
BY DEF Free, Xhrs, XhrMeans, Waiting

\* A request that goes its next step.
LEMMA OnlyXhr ==
    ASSUME IInv, Shared', version <= version', Extends(log, log'),
           NEW b \in Browsers, NEW k \in Slots, NEW x \in Xhrs, SetXhr(b, k, x),
           UNCHANGED <<doc, nav, known>>, XhrMeans(x, doc[b].page, version')
    PROVE  IInv'
<1>1. PICK d, n, y, z, kn : /\ d = doc[b] /\ n = nav[b] /\ y = xhr[b] /\ kn = known[b]
                            /\ z = [y EXCEPT ![k] = x]
  OBVIOUS
<1>2. version \in Nat /\ version' \in Nat
  BY DEF IInv, Shared
<1>3. Local(d, n, y, kn, log, version)
  BY <1>1, OneOf
<1>4. Local(d, n, y, kn, log', version')
  BY <1>2, <1>3, OthersKept
<1>5. Local(d, n, z, kn, log', version')
  BY <1>1, <1>4, LocalXhr
<1>6. doc' = [doc EXCEPT ![b] = d] /\ nav' = [nav EXCEPT ![b] = n] /\ known' = [known EXCEPT ![b] = kn]
  <2>1. doc' = doc /\ nav' = nav /\ known' = known
    OBVIOUS
  <2>2. /\ doc = [doc EXCEPT ![b] = doc[b]] /\ nav = [nav EXCEPT ![b] = nav[b]]
        /\ known = [known EXCEPT ![b] = known[b]]
    BY OneOf
  <2> QED BY <1>1, <2>1, <2>2
<1>7. xhr' = [xhr EXCEPT ![b] = z]
  BY <1>1, XhrChange
<1> QED BY <1>5, <1>6, <1>7, OneBrowser

LEMMA TransactionKeeps ==
    ASSUME IInv, NEW op, NEW id, Transaction(op, id), version' = version + 1, version < MaxClicks
    PROVE  /\ Store!TypeOK' /\ nextId' \in Nat /\ FirstNewId <= nextId'
           /\ nextId' <= FirstNewId + version'
           /\ \A i \in DOMAIN table' : i < nextId'
<1>1. /\ Store!TypeOK /\ nextId \in Nat /\ FirstNewId <= nextId /\ nextId <= FirstNewId + version
      /\ \A i \in DOMAIN table : i < nextId
      /\ version \in Nat /\ FirstNewId \in Nat /\ MaxClicks \in Nat
  BY IdFacts, BoundsAssumption DEF IInv, Shared
<1>2. PICK n : n = nextId
  OBVIOUS
<1>3. n \in Ids
  BY <1>1, <1>2 DEF Ids
<1>4. DOMAIN table \subseteq Nat
  BY <1>1, IdFacts DEF Store!TypeOK
<1>5. CASE op = "add" /\ nextId' = nextId + 1 /\ \E d \in Data : Store!Add(nextId, d)
  <2>1. PICK d \in Data : table' = [j \in DOMAIN table \union {n} |-> IF j = n THEN d ELSE table[j]]
    BY <1>2, <1>5 DEF Store!Add
  <2>2. Store!TypeOK'
    BY <1>1, <1>3, <2>1 DEF Store!TypeOK
  <2>3. \A i \in DOMAIN table' : i < n + 1
    BY <1>1, <1>2, <1>4, <2>1
  <2> QED BY <1>1, <1>2, <1>5, <2>2, <2>3
<1>6. CASE op = "change" /\ UNCHANGED nextId /\ \E d \in Data : Store!Change(id, d)
  <2>1. PICK d \in Data : id \in DOMAIN table /\ table' = [table EXCEPT ![id] = d]
    BY <1>6 DEF Store!Change
  <2>2. Store!TypeOK' /\ DOMAIN table' = DOMAIN table
    BY <1>1, <2>1 DEF Store!TypeOK
  <2> QED BY <1>1, <1>6, <2>2
<1>7. CASE op = "remove" /\ UNCHANGED nextId /\ Store!Remove(id)
  <2>1. table' = [j \in DOMAIN table \ {id} |-> table[j]]
    BY <1>7 DEF Store!Remove
  <2>2. Store!TypeOK' /\ DOMAIN table' \subseteq DOMAIN table
    BY <1>1, <2>1 DEF Store!TypeOK
  <2> QED BY <1>1, <1>7, <2>2
<1> QED BY <1>5, <1>6, <1>7 DEF Transaction

LEMMA ServePostKeeps ==
    ASSUME IInv, NEW b \in Browsers, NEW k \in Slots, ServePost(b, k)
    PROVE  IInv'
<1>1. PICK x : x = IF xhr[b][k].wanted = "yes"
                   THEN [state |-> "done", version |-> version + 1, wanted |-> "yes"] ELSE Free
  OBVIOUS
<1>2. /\ xhr[b][k].state = "posted" /\ Transaction(xhr[b][k].op, xhr[b][k].id)
      /\ version' = version + 1 /\ SetXhr(b, k, x) /\ UNCHANGED <<task, doc, nav, clicks, known>>
  BY <1>1 DEF ServePost, Answer
<1>3. version \in Nat
  BY DEF IInv, Shared
<1>4. x \in Xhrs /\ XhrMeans(x, doc[b].page, version') /\ ~ Waiting(x)
  <2>1. CASE x = Free
    BY <2>1, FreeMeans
  <2>2. CASE x = [state |-> "done", version |-> version', wanted |-> "yes"]
    BY <1>2, <1>3, <2>2 DEF Xhrs, XhrMeans, Waiting
  <2> QED BY <1>1, <1>2, <2>1, <2>2
<1>5. Waiting(xhr[b][k])
  BY <1>2 DEF Waiting
<1>6. PICK p, q, m : p = Cardinality(Pending(xhr)) /\ q = Cardinality(Pending(xhr')) /\ m = Len(log)
  OBVIOUS
<1>7. p \in Nat /\ q \in Nat /\ q + 1 <= p
  BY <1>2, <1>4, <1>5, <1>6, XhrChange
<1>8. version + m + p <= clicks /\ clicks \in Nat /\ clicks <= MaxClicks /\ MaxClicks \in Nat /\ m \in Nat
  BY <1>6, LastNoted, BoundsAssumption DEF IInv, Shared
<1>9. version < MaxClicks /\ version' + m + q <= clicks
  BY <1>2, <1>3, <1>7, <1>8
<1>10. /\ Store!TypeOK' /\ nextId' \in Nat /\ FirstNewId <= nextId'
       /\ nextId' <= FirstNewId + version' /\ \A i \in DOMAIN table' : i < nextId'
  BY <1>2, <1>9, TransactionKeeps
<1>11. log' = log /\ lastTaskRequest' = lastTaskRequest /\ clicks' = clicks
  BY <1>2 DEF task
<1>12. Shared'
  <2>1. version' + Len(log') + Cardinality(Pending(xhr')) <= clicks'
    BY <1>6, <1>9, <1>11
  <2>2. version' \in Nat
    BY <1>2, <1>3
  <2> QED BY <1>10, <1>11, <2>1, <2>2 DEF IInv, Shared
<1>13. version <= version' /\ Extends(log, log')
  <2>1. Extends(log, log)
    BY LastNoted DEF Extends
  <2> QED BY <1>2, <1>3, <1>11, <2>1
<1> QED BY <1>2, <1>4, <1>12, <1>13, OnlyXhr

LEMMA NoteRequestKeeps ==
    ASSUME IInv, NEW b \in Browsers, NEW k \in Slots, NoteRequest(b, k)
    PROVE  IInv'
<1>1. PICK o : o = xhr[b][k]
  OBVIOUS
<1>2. /\ o.state = "task" /\ lastTaskRequest' = Arrived(o.text) /\ log' = Append(log, Arrived(o.text))
      /\ Arrived(o.text) # << >>
      /\ SetXhr(b, k, [o EXCEPT !.state = "noted"]) /\ UNCHANGED <<books, doc, nav, clicks, known>>
  BY <1>1 DEF NoteRequest
<1>3. PICK x : x = [state |-> "noted", text |-> o.text, wanted |-> o.wanted]
  OBVIOUS
<1>4. o \in Xhrs /\ XhrMeans(o, doc[b].page, version)
  BY <1>1, OneOf
<1>5. /\ o.text \in Requests /\ o.wanted \in {"yes", "no"}
      /\ o = [state |-> "task", text |-> o.text, wanted |-> o.wanted]
  BY <1>2, <1>4, XhrFields
<1>6. SetXhr(b, k, x)
  <2>1. x = [o EXCEPT !.state = "noted"]
    BY <1>3, <1>5
  <2> QED BY <1>2, <2>1
<1>7. /\ version' = version /\ version \in Nat /\ nextId' = nextId /\ table' = table /\ clicks' = clicks
  BY <1>2 DEF books, IInv, Shared
<1>8. x \in Xhrs /\ ~ Waiting(x) /\ XhrMeans(x, doc[b].page, version') /\ o.text # << >>
  <2>1. x \in Xhrs /\ ~ Waiting(x)
    BY <1>3, <1>5 DEF Xhrs, Waiting
  <2> QED BY <1>2, <1>3, <1>4, <1>7, <2>1 DEF XhrMeans
<1>9. PICK r, l, l2 : r = Arrived(o.text) /\ l = log /\ l2 = log'
  OBVIOUS
<1>10. r \in Requests /\ r # << >> /\ l2 = Append(l, r) /\ lastTaskRequest' = r
  BY <1>2, <1>5, <1>8, <1>9, TextFacts
<1>11. PICK m : m = Len(l)
  OBVIOUS
<1>12. l \in Seq(Requests) /\ m \in Nat /\ \A i \in 1 .. m : l[i] # << >>
  BY <1>9, <1>11, LastNoted
<1>13. /\ l2 \in Seq(Requests) /\ Len(l2) = m + 1 /\ l2[m + 1] = r
       /\ \A i \in 1 .. m : l2[i] = l[i]
  BY <1>10, <1>11, <1>12
<1>14. Extends(l, l2) /\ NotedIn(l2, Len(l2)) = r /\ \A i \in 1 .. Len(l2) : l2[i] # << >>
  <2>1. \A i \in 1 .. (m + 1) : i \in 1 .. m \/ i = m + 1
    BY <1>12
  <2>2. m + 1 # 0 /\ m <= m + 1
    BY <1>12
  <2> QED BY <1>10, <1>11, <1>12, <1>13, <2>1, <2>2 DEF Extends, NotedIn
<1>15. version' + Len(log') + Cardinality(Pending(xhr')) <= clicks'
  <2>1. PICK p, q : p = Cardinality(Pending(xhr)) /\ q = Cardinality(Pending(xhr'))
    OBVIOUS
  <2>2. Waiting(xhr[b][k])
    BY <1>1, <1>2 DEF Waiting
  <2>3. p \in Nat /\ q \in Nat /\ q + 1 <= p
    BY <1>6, <1>8, <2>1, <2>2, XhrChange
  <2>4. version + m + p <= clicks /\ clicks \in Nat
    BY <1>9, <1>11, <2>1 DEF IInv, Shared
  <2>5. version + (m + 1) + q <= clicks
    BY <1>7, <1>12, <2>3, <2>4
  <2> QED BY <1>7, <1>9, <1>13, <2>1, <2>5
<1>16. Shared'
  <2>1. Store!TypeOK'
    BY <1>7 DEF IInv, Shared, Store!TypeOK
  <2>2. /\ log' \in Seq(Requests) /\ lastTaskRequest' = NotedIn(log', Len(log'))
        /\ \A i \in 1 .. Len(log') : log'[i] # << >>
    BY <1>9, <1>10, <1>13, <1>14
  <2> QED BY <1>7, <1>15, <2>1, <2>2 DEF IInv, Shared
<1> QED BY <1>2, <1>6, <1>7, <1>8, <1>9, <1>14, <1>16, OnlyXhr

\* A step that takes an XMLHttpRequest on and changes nothing all users share.
LEMMA XhrServed ==
    ASSUME IInv, NEW b \in Browsers, NEW k \in Slots, NEW x \in Xhrs, SetXhr(b, k, x), ~ Waiting(x),
           UNCHANGED <<books, task, clicks>>
    PROVE  Shared' /\ version <= version' /\ Extends(log, log') /\ log' = log /\ version' = version
<1>1. /\ Cardinality(Pending(xhr)) \in Nat /\ Cardinality(Pending(xhr')) \in Nat
      /\ Cardinality(Pending(xhr')) <= Cardinality(Pending(xhr))
  BY XhrChange
<1>2. clicks' = clicks /\ clicks \in Nat /\ clicks <= MaxClicks
  BY PendingNat
<1>3. Cardinality(Pending(xhr')) + clicks <= Cardinality(Pending(xhr)) + clicks'
  <2>1. PICK p, q : p = Cardinality(Pending(xhr)) /\ q = Cardinality(Pending(xhr'))
    OBVIOUS
  <2> QED BY <1>1, <1>2, <2>1
<1> QED BY <1>1, <1>2, <1>3, SharedKept

LEMMA AnswerRequestKeeps ==
    ASSUME IInv, NEW b \in Browsers, NEW k \in Slots, AnswerRequest(b, k)
    PROVE  IInv'
<1>1. PICK o : o = xhr[b][k]
  OBVIOUS
<1>2. PICK y : y = [state |-> "result", text |-> o.text,
                    result |-> ResultMaker(Arrived(o.text)), wanted |-> "yes"]
  OBVIOUS
<1>3. PICK x : x = IF o.wanted = "yes" THEN y ELSE Free
  OBVIOUS
<1>4. /\ o.state = "noted" /\ SetXhr(b, k, x) /\ UNCHANGED <<books, task, doc, nav, clicks, known>>
  BY <1>1, <1>2, <1>3 DEF AnswerRequest, Answer, ResultAnswer
<1>5. o \in Xhrs /\ XhrMeans(o, doc[b].page, version) /\ o.text \in Requests
  BY <1>1, <1>4, OneOf, XhrFields
<1>6. (o.wanted = "yes" => doc[b].page = "task") /\ y.result = Outcome(o.text)
  BY <1>2, <1>4, <1>5 DEF XhrMeans, Outcome
<1>7. y \in Xhrs
  BY <1>2, <1>5, <1>6, TextFacts DEF Xhrs
<1>8. x \in Xhrs /\ ~ Waiting(x) /\ XhrMeans(x, doc[b].page, version)
  <2>1. CASE o.wanted = "yes"
    BY <1>2, <1>3, <1>6, <1>7, <2>1 DEF Waiting, XhrMeans
  <2>2. CASE o.wanted # "yes"
    BY <1>3, <2>2, FreeMeans
  <2> QED BY <2>1, <2>2
<1>9. Shared' /\ version <= version' /\ Extends(log, log') /\ version' = version
  BY <1>4, <1>8, XhrServed
<1> QED BY <1>4, <1>8, <1>9, OnlyXhr

LEMMA AnswerAboutKeeps ==
    ASSUME IInv, NEW b \in Browsers, NEW k \in Slots, AnswerAbout(b, k)
    PROVE  IInv'
<1>1. PICK o : o = xhr[b][k]
  OBVIOUS
<1>2. PICK y : y = [state |-> "result", text |-> o.text, result |-> About, wanted |-> "yes"]
  OBVIOUS
<1>3. PICK x : x = IF o.wanted = "yes" THEN y ELSE Free
  OBVIOUS
<1>4. /\ o.state = "task" /\ SetXhr(b, k, x) /\ UNCHANGED <<books, task, doc, nav, clicks, known>>
      /\ Arrived(o.text) = << >>
  BY <1>1, <1>2, <1>3 DEF AnswerAbout, Answer, ResultAnswer
<1>5. o \in Xhrs /\ XhrMeans(o, doc[b].page, version) /\ o.text \in Requests
  BY <1>1, <1>4, OneOf, XhrFields
<1>6. (o.wanted = "yes" => doc[b].page = "task") /\ y.result = Outcome(o.text)
  BY <1>2, <1>4, <1>5 DEF XhrMeans, Outcome
<1>7. y \in Xhrs
  BY <1>2, <1>5, <1>6, TextFacts DEF Xhrs
<1>8. x \in Xhrs /\ ~ Waiting(x) /\ XhrMeans(x, doc[b].page, version)
  <2>1. CASE o.wanted = "yes"
    BY <1>2, <1>3, <1>6, <1>7, <2>1 DEF Waiting, XhrMeans
  <2>2. CASE o.wanted # "yes"
    BY <1>3, <2>2, FreeMeans
  <2> QED BY <2>1, <2>2
<1>9. Shared' /\ version <= version' /\ Extends(log, log') /\ version' = version
  BY <1>4, <1>8, XhrServed
<1> QED BY <1>4, <1>8, <1>9, OnlyXhr

LEMMA LoseKeeps ==
    ASSUME IInv, NEW b \in Browsers, NEW k \in Slots, Lose(b, k)
    PROVE  IInv'
<1>1. SetXhr(b, k, Free) /\ UNCHANGED <<books, task, doc, nav, clicks, known>>
  BY DEF Lose
<1>2. Shared' /\ version <= version' /\ Extends(log, log') /\ version' = version
  BY <1>1, FreeMeans, XhrServed
<1> QED BY <1>1, <1>2, FreeMeans, OnlyXhr

-----------------------------------------------------------------------------
(* The browsers.                                                           *)

\* The requests of the page before.
LEMMA UnwantedFacts ==
    ASSUME NEW x \in Xhrs, NEW page, NEW page2, NEW v, XhrMeans(x, page, v)
    PROVE  /\ Unwanted(x) \in Xhrs /\ XhrMeans(Unwanted(x), page2, v)
           /\ Waiting(Unwanted(x)) <=> Waiting(x)
<1>1. CASE x.state \in {"free", "done", "result"}
  <2>1. Unwanted(x) = Free /\ ~ Waiting(x)
    BY <1>1 DEF Unwanted, Free, Xhrs, Waiting
  <2> QED BY <2>1, FreeMeans
<1>2. CASE x.state = "posted"
  <2>1. x = [state |-> "posted", op |-> x.op, id |-> x.id, wanted |-> x.wanted,
             chosen |-> x.chosen, plain |-> x.plain]
    BY <1>2 DEF Xhrs, Free
  <2>2. PICK y : y = [state |-> "posted", op |-> x.op, id |-> x.id, wanted |-> "no",
                      chosen |-> x.chosen, plain |-> x.plain]
    OBVIOUS
  <2>3. [x EXCEPT !.wanted = "no"] = y
    BY <2>1, <2>2
  <2>4. Unwanted(x) = y
    BY <1>2, <2>3 DEF Unwanted, Free
  <2>5. /\ x.op \in {"add", "change", "remove"} /\ x.id \in { Passed(row) : row \in Ids } \union {Null}
        /\ x.chosen \in Ids \union {Null} /\ x.plain \in BOOLEAN
    BY <1>2 DEF Xhrs, Free
  <2>6. y \in Xhrs
    BY <2>2, <2>5, ZenonT(30) DEF Xhrs
  <2>7. XhrMeans(y, page2, v) /\ Waiting(y) /\ Waiting(x)
    BY <1>2, <2>2 DEF XhrMeans, Waiting
  <2> QED BY <2>4, <2>6, <2>7
<1>3. CASE x.state \in {"task", "noted"}
  <2>1. x.text \in Requests /\ x = [state |-> x.state, text |-> x.text, wanted |-> x.wanted]
    BY <1>3, XhrFields
  <2>2. PICK y : y = [state |-> x.state, text |-> x.text, wanted |-> "no"]
    OBVIOUS
  <2>3. [x EXCEPT !.wanted = "no"] = y
    BY <2>1, <2>2
  <2>4. Unwanted(x) = y
    BY <1>3, <2>3 DEF Unwanted, Free
  <2>5. y \in Xhrs
    BY <1>3, <2>1, <2>2 DEF Xhrs
  <2>6. XhrMeans(y, page2, v) /\ (Waiting(y) <=> Waiting(x))
    BY <1>3, <2>2 DEF XhrMeans, Waiting
  <2> QED BY <2>4, <2>5, <2>6
<1>4. x.state \in {"free", "posted", "done", "task", "noted", "result"}
  BY DEF Xhrs, Free
<1> QED BY <1>1, <1>2, <1>3, <1>4

\* A new document.
LEMMA ShowKeeps ==
    ASSUME IInv, NEW b \in Browsers, NEW d \in Documents, DocMeans(d), Show(b, d),
           NEW kn \in 0 .. version, known' = [known EXCEPT ![b] = kn]
    PROVE  IInv'
<1>1. PICK xs : xs = [k \in Slots |-> Unwanted(xhr[b][k])]
  OBVIOUS
<1>2. /\ doc' = [doc EXCEPT ![b] = d] /\ nav' = [nav EXCEPT ![b] = Idle]
      /\ xhr' = [xhr EXCEPT ![b] = xs] /\ UNCHANGED <<books, task, clicks>>
  BY <1>1 DEF Show
<1>3. \A k \in Slots : /\ xs[k] \in Xhrs /\ XhrMeans(xs[k], d.page, version)
                       /\ Waiting(xs[k]) <=> Waiting(xhr[b][k])
  <2> TAKE k \in Slots
  <2>1. PICK x, page : x = xhr[b][k] /\ page = doc[b].page
    OBVIOUS
  <2>2. x \in Xhrs /\ XhrMeans(x, page, version)
    BY <2>1, OneOf
  <2>3. xs[k] = Unwanted(x)
    BY <1>1, <2>1
  <2> QED BY <2>1, <2>2, <2>3, UnwantedFacts
<1>4. Pending(xhr') = Pending(xhr)
  <2>1. \A p \in Browsers \X Slots : Waiting(xhr'[p[1]][p[2]]) <=> Waiting(xhr[p[1]][p[2]])
    <3> TAKE p \in Browsers \X Slots
    <3>1. p[1] \in Browsers /\ p[2] \in Slots /\ DOMAIN xhr = Browsers
      BY DEF IInv
    <3>2. CASE p[1] = b
      <4>1. xhr'[p[1]] = xs
        BY <1>2, <3>1, <3>2
      <4> QED BY <1>3, <3>1, <3>2, <4>1
    <3>3. CASE p[1] # b
      <4>1. xhr'[p[1]] = xhr[p[1]]
        BY <1>2, <3>1, <3>3
      <4> QED BY <4>1
    <3> QED BY <3>2, <3>3
  <2> QED BY <2>1 DEF Pending
<1>5. Shared' /\ version <= version' /\ Extends(log, log') /\ log' = log /\ version' = version
  <2>1. clicks' = clicks /\ clicks \in Nat /\ clicks <= MaxClicks /\ Cardinality(Pending(xhr)) \in Nat
    BY <1>2, PendingNat
  <2>2. /\ Cardinality(Pending(xhr')) \in Nat
        /\ Cardinality(Pending(xhr')) + clicks <= Cardinality(Pending(xhr)) + clicks'
    <3>1. PICK p, q : p = Cardinality(Pending(xhr)) /\ q = Cardinality(Pending(xhr'))
      OBVIOUS
    <3>2. q = p
      BY <1>4, <3>1
    <3> QED BY <2>1, <3>1, <3>2
  <2> QED BY <1>2, <2>1, <2>2, SharedKept
<1>6. Idle \in Navigations /\ NavMeans(Idle, kn, log, version)
  BY DEF Idle, Navigations, NavMeans
<1>7. xs \in [Slots -> Xhrs]
  BY <1>1, <1>3
<1>8. Local(d, Idle, xs, kn, log', version')
  <2>1. Local(d, Idle, xs, kn, log, version)
    BY <1>3, <1>6, <1>7 DEF Local
  <2> QED BY <1>5, <2>1
<1> QED BY <1>2, <1>5, <1>8, OneBrowser

LEMMA ShowBooksKeeps ==
    ASSUME IInv, NEW b \in Browsers, ShowBooks(b)
    PROVE  IInv'
<1>1. PICK n, d : n = nav[b] /\ d = BooksDoc(n.rows)
  OBVIOUS
<1>2. n.state = "list" /\ Show(b, d) /\ known' = [known EXCEPT ![b] = n.version]
  BY <1>1 DEF ShowBooks
<1>3. n \in Navigations /\ NavMeans(n, known[b], log, version) /\ version \in Nat
  BY <1>1, OneOf
<1>4. n.rows \subseteq Ids /\ n.version \in Nat
  BY <1>2, <1>3 DEF Navigations, Idle, Asked
<1>5. n.version \in 0 .. version
  BY <1>2, <1>3, <1>4 DEF NavMeans
<1>6. d \in Documents /\ DocMeans(d)
  BY <1>1, <1>4 DEF BooksDoc, Documents, DocMeans
<1> QED BY <1>2, <1>5, <1>6, ShowKeeps

LEMMA ShowTaskKeeps ==
    ASSUME IInv, NEW b \in Browsers, ShowTask(b)
    PROVE  IInv'
<1>1. PICK n, d : n = nav[b] /\ d = TaskDoc(n.response)
  OBVIOUS
<1>2. n.state = "page" /\ Show(b, d) /\ known' = known
  BY <1>1 DEF ShowTask
<1>3. n \in Navigations /\ known[b] \in 0 .. version /\ known' = [known EXCEPT ![b] = known[b]]
  BY <1>1, <1>2, OneOf
<1>4. n.response \in Results
  BY <1>2, <1>3 DEF Navigations, Idle, Asked
<1>5. d \in Documents /\ DocMeans(d)
  BY <1>1, <1>4 DEF TaskDoc, Documents, DocMeans
<1> QED BY <1>2, <1>3, <1>5, ShowKeeps

LEMMA ShowErrorKeeps ==
    ASSUME IInv, NEW b \in Browsers, ShowError(b)
    PROVE  IInv'
<1>1. Show(b, Blank) /\ known' = known
  BY DEF ShowError
<1>2. known[b] \in 0 .. version /\ known' = [known EXCEPT ![b] = known[b]]
  BY <1>1, OneOf
<1>3. Blank \in Documents /\ DocMeans(Blank)
  BY DEF Blank, Documents, DocMeans
<1> QED BY <1>1, <1>2, <1>3, ShowKeeps

LEMMA OnPostedKeeps ==
    ASSUME IInv, NEW b \in Browsers, NEW k \in Slots, OnPosted(b, k)
    PROVE  IInv'
<1>1. PICK o, kn : /\ o = xhr[b][k]
                   /\ kn = IF known[b] < o.version THEN o.version ELSE known[b]
  OBVIOUS
<1>2. /\ o.state = "done" /\ SetXhr(b, k, Free) /\ nav' = [nav EXCEPT ![b] = Asked("books")]
      /\ UNCHANGED <<books, task, doc, clicks>>
  BY <1>1 DEF OnPosted
<1>3. known' = [known EXCEPT ![b] = kn]
  <2>1. DOMAIN known = Browsers
    BY DEF IInv
  <2>2. known' = [known EXCEPT ![b] = IF @ < xhr[b][k].version THEN xhr[b][k].version ELSE @]
    BY DEF OnPosted
  <2> QED BY <1>1, <2>1, <2>2
<1>4. /\ o \in Xhrs /\ XhrMeans(o, doc[b].page, version) /\ known[b] \in 0 .. version /\ version \in Nat
  BY <1>1, OneOf
<1>5. kn \in 0 .. version
  BY <1>1, <1>2, <1>4, XhrFields DEF XhrMeans
<1>6. Shared' /\ version <= version' /\ Extends(log, log') /\ log' = log /\ version' = version
  BY <1>2, FreeMeans, XhrServed
<1>7. PICK d, n, y, z : /\ d = doc[b] /\ n = Asked("books") /\ y = xhr[b]
                        /\ z = [y EXCEPT ![k] = Free]
  OBVIOUS
<1>8. n \in Navigations /\ NavMeans(n, kn, log, version)
  BY <1>7, AskedMeans
<1>9. Local(d, n, y, kn, log, version)
  <2>1. /\ d \in Documents /\ DocMeans(d) /\ y \in [Slots -> Xhrs]
        /\ \A j \in Slots : XhrMeans(y[j], d.page, version)
    BY <1>7, OneOf
  <2> QED BY <1>5, <1>8, <2>1 DEF Local
<1>10. Local(d, n, z, kn, log', version')
  BY <1>6, <1>7, <1>9, FreeMeans, LocalXhr
<1>11. xhr' = [xhr EXCEPT ![b] = z] /\ doc' = [doc EXCEPT ![b] = d] /\ nav' = [nav EXCEPT ![b] = n]
  <2>1. doc' = doc /\ doc = [doc EXCEPT ![b] = doc[b]]
    BY <1>2, OneOf
  <2> QED BY <1>2, <1>7, <2>1, XhrChange
<1> QED BY <1>3, <1>6, <1>10, <1>11, OneBrowser

\* A result that comes to the page that asked for it.
LEMMA OnResultFacts ==
    ASSUME IInv, NEW b \in Browsers, NEW k \in Slots, OnResult(b, k)
    PROVE  /\ xhr[b][k].state = "result" /\ xhr[b][k].wanted = "yes"
           /\ xhr[b][k].result = Outcome(xhr[b][k].text)
           /\ Arrived(xhr[b][k].text) \in Seq(Elements)
           /\ doc[b].page = "task"
           /\ TaskDoc(xhr[b][k].result) \in Documents
           /\ doc' = [doc EXCEPT ![b] = TaskDoc(xhr[b][k].result)]
<1>1. PICK o, d : o = xhr[b][k] /\ d = doc[b]
  OBVIOUS
<1>2. o.state = "result"
  BY <1>1 DEF OnResult
<1>3. o \in Xhrs /\ XhrMeans(o, d.page, version) /\ d \in Documents /\ DOMAIN doc = Browsers
  BY <1>1, OneOf DEF IInv
<1>4. o.text \in Requests /\ o.result \in Results /\ o.wanted = "yes"
  BY <1>2, <1>3, XhrFields
<1>5. d.page = "task" /\ o.result = Outcome(o.text) /\ Arrived(o.text) \in Seq(Elements)
  BY <1>2, <1>3, <1>4, TextFacts DEF XhrMeans
<1>6. d = [page |-> "task", shown |-> d.shown]
  BY <1>3, <1>5 DEF Documents, Blank
<1>7. TaskDoc(o.result) \in Documents
  BY <1>4 DEF Documents, TaskDoc
<1>8. TaskDoc(o.result) = [d EXCEPT !.shown = o.result]
  BY <1>6 DEF TaskDoc
<1>9. doc' = [doc EXCEPT ![b] = TaskDoc(o.result)]
  BY <1>1, <1>3, <1>8 DEF OnResult
<1> QED BY <1>1, <1>2, <1>4, <1>5, <1>7, <1>9

LEMMA OnResultKeeps ==
    ASSUME IInv, NEW b \in Browsers, NEW k \in Slots, OnResult(b, k)
    PROVE  IInv'
<1>1. PICK d : d = TaskDoc(xhr[b][k].result)
  OBVIOUS
<1>2. /\ d \in Documents /\ doc' = [doc EXCEPT ![b] = d] /\ doc[b].page = "task"
  BY <1>1, OnResultFacts
<1>3. d.page = doc[b].page /\ DocMeans(d)
  BY <1>1, <1>2 DEF TaskDoc, DocMeans
<1>4. SetXhr(b, k, Free) /\ UNCHANGED <<books, task, nav, clicks, known>>
  BY DEF OnResult
<1>5. Shared' /\ version <= version' /\ Extends(log, log') /\ log' = log /\ version' = version
  BY <1>4, FreeMeans, XhrServed
<1>6. PICK n, y, z, kn : n = nav[b] /\ y = xhr[b] /\ z = [y EXCEPT ![k] = Free] /\ kn = known[b]
  OBVIOUS
<1>7. Local(d, n, y, kn, log, version)
  BY <1>2, <1>3, <1>6, OneOf, LocalDoc
<1>8. Local(d, n, z, kn, log', version')
  BY <1>5, <1>6, <1>7, FreeMeans, LocalXhr
<1>9. xhr' = [xhr EXCEPT ![b] = z] /\ nav' = [nav EXCEPT ![b] = n] /\ known' = [known EXCEPT ![b] = kn]
  <2>1. nav' = nav /\ known' = known /\ nav = [nav EXCEPT ![b] = nav[b]] /\ known = [known EXCEPT ![b] = known[b]]
    BY <1>4, OneOf
  <2> QED BY <1>4, <1>6, <2>1, XhrChange
<1> QED BY <1>2, <1>5, <1>8, <1>9, OneBrowser

-----------------------------------------------------------------------------
(* The specification.                                                      *)

LEMMA InitInv == Init => IInv
<1> SUFFICES ASSUME Init PROVE IInv
  OBVIOUS
<1>1. /\ table \in [FirstIds -> Data] /\ nextId = FirstNewId /\ version = 0 /\ clicks = 0
      /\ lastTaskRequest = << >> /\ log = << >>
      /\ doc = [b \in Browsers |-> Blank] /\ nav = [b \in Browsers |-> Idle]
      /\ xhr = [b \in Browsers |-> [k \in Slots |-> Free]] /\ known = [b \in Browsers |-> 0]
  BY DEF Init
<1>2. Pending(xhr) = {}
  <2>1. \A p \in Browsers \X Slots : xhr[p[1]][p[2]] = Free
    BY <1>1
  <2> QED BY <2>1, FreeMeans DEF Pending
<1>3. Cardinality(Pending(xhr)) = 0
  BY <1>2, FS_EmptySet
<1>4. Store!TypeOK /\ \A i \in DOMAIN table : i < nextId
  BY <1>1, IdFacts DEF Store!TypeOK, Ids
<1>5. Len(log) = 0 /\ log \in Seq(Requests) /\ 1 .. Len(log) = {}
  BY <1>1
<1>6. FirstNewId \in Nat /\ MaxClicks \in Nat
  BY IdFacts, BoundsAssumption
<1>7. Shared
  <2>1. version + Len(log) + Cardinality(Pending(xhr)) <= clicks
    BY <1>1, <1>3, <1>5
  <2>2. lastTaskRequest = NotedIn(log, Len(log))
    BY <1>1, <1>5 DEF NotedIn
  <2> QED BY <1>1, <1>4, <1>5, <1>6, <2>1, <2>2 DEF Shared
<1>8. ASSUME NEW b \in Browsers PROVE Local(doc[b], nav[b], xhr[b], known[b], log, version)
  <2>1. Blank \in Documents /\ DocMeans(Blank)
    BY DEF Blank, Documents, DocMeans
  <2>2. Idle \in Navigations /\ NavMeans(Idle, 0, log, 0)
    BY DEF Idle, Navigations, NavMeans
  <2>3. PICK xs : xs = [k \in Slots |-> Free]
    OBVIOUS
  <2>4. xs \in [Slots -> Xhrs] /\ \A k \in Slots : XhrMeans(xs[k], Blank.page, 0)
    BY <2>3, FreeMeans
  <2>5. Local(Blank, Idle, xs, 0, log, 0)
    BY <2>1, <2>2, <2>4 DEF Local
  <2> QED BY <1>1, <2>3, <2>5
<1> QED BY <1>1, <1>7, <1>8 DEF IInv

LEMMA NextInv == IInv /\ [Next]_vars => IInv'
<1> SUFFICES ASSUME IInv, [Next]_vars PROVE IInv'
  OBVIOUS
<1>1. CASE UNCHANGED vars
  <2>1. UNCHANGED <<table, nextId, version, lastTaskRequest, log, doc, nav, xhr, clicks, known>>
    BY <1>1 DEF vars, books, task
  <2>2. Shared'
    BY <2>1 DEF IInv, Shared, Store!TypeOK
  <2> QED BY <2>1, <2>2 DEF IInv
<1>2. CASE Next
  <2>1. PICK b \in Browsers :
            \/ \E row \in Ids : RemoveBookById(b, row) \/ SetChangingMode(b, row)
            \/ ButtonClick(b)
            \/ \E text \in Offered : GetFilter(b, text)
            \/ Navigate(b, "books") \/ Navigate(b, "task")
            \/ RenderBooks(b) \/ PutRequest(b) \/ TestRequest(b) \/ PutResponse(b)
            \/ ShowBooks(b) \/ ShowTask(b) \/ ShowError(b)
            \/ \E k \in Slots : \/ ServePost(b, k)
                                \/ AnswerAbout(b, k) \/ NoteRequest(b, k) \/ AnswerRequest(b, k)
                                \/ Lose(b, k) \/ OnPosted(b, k) \/ OnResult(b, k)
    BY <1>2 DEF Next
  <2>2. CASE \E row \in Ids : RemoveBookById(b, row) \/ SetChangingMode(b, row)
    BY <2>2, RemoveBookByIdKeeps, SetChangingModeKeeps
  <2>3. CASE ButtonClick(b) \/ \E text \in Offered : GetFilter(b, text)
    BY <2>3, ButtonClickKeeps, GetFilterKeeps
  <2>4. CASE Navigate(b, "books") \/ Navigate(b, "task")
    BY <2>4, NavigateKeeps
  <2>5. CASE RenderBooks(b) \/ PutRequest(b) \/ TestRequest(b) \/ PutResponse(b)
    BY <2>5, RenderBooksKeeps, PutRequestKeeps, TestRequestKeeps, PutResponseKeeps
  <2>6. CASE ShowBooks(b) \/ ShowTask(b) \/ ShowError(b)
    BY <2>6, ShowBooksKeeps, ShowTaskKeeps, ShowErrorKeeps
  <2>7. CASE \E k \in Slots : \/ ServePost(b, k) \/ AnswerAbout(b, k)
                              \/ NoteRequest(b, k) \/ AnswerRequest(b, k)
    BY <2>7, ServePostKeeps, AnswerAboutKeeps, NoteRequestKeeps, AnswerRequestKeeps
  <2>8. CASE \E k \in Slots : Lose(b, k) \/ OnPosted(b, k) \/ OnResult(b, k)
    BY <2>8, LoseKeeps, OnPostedKeeps, OnResultKeeps
  <2> QED BY <2>1, <2>2, <2>3, <2>4, <2>5, <2>6, <2>7, <2>8
<1> QED BY <1>1, <1>2

LEMMA InvHolds == Spec => []IInv
<1>1. Init => IInv
  BY InitInv
<1>2. IInv /\ [Next]_vars => IInv'
  BY NextInv
<1> QED BY <1>1, <1>2, PTL DEF Spec

\* TypeOK of Site10, for any number of browsers and clicks.
THEOREM SiteTyped == Spec => []TypeOK
<1>1. IInv => TypeOK
  <2> SUFFICES ASSUME IInv PROVE TypeOK
    OBVIOUS
  <2>1. doc \in [Browsers -> Documents] /\ nav \in [Browsers -> Navigations]
    <3>1. \A b \in Browsers : doc[b] \in Documents /\ nav[b] \in Navigations
      BY OneOf
    <3> QED BY <3>1 DEF IInv
  <2>2. xhr \in [Browsers -> [Slots -> Xhrs]] /\ known \in [Browsers -> 0 .. version]
    <3>1. \A b \in Browsers : xhr[b] \in [Slots -> Xhrs] /\ known[b] \in 0 .. version
      BY OneOf
    <3> QED BY <3>1 DEF IInv
  <2>3. PICK p, m : p = Cardinality(Pending(xhr)) /\ m = Len(log)
    OBVIOUS
  <2>4. /\ p \in Nat /\ m \in Nat /\ MaxClicks \in Nat /\ FirstNewId \in Nat
        /\ log \in Seq(Requests) /\ lastTaskRequest \in Requests
    BY <2>3, PendingNat, LastNoted, IdFacts, BoundsAssumption
  <2>5. /\ Store!TypeOK /\ nextId \in Nat /\ FirstNewId <= nextId /\ nextId <= FirstNewId + version
        /\ \A i \in DOMAIN table : i < nextId
        /\ version \in Nat /\ clicks \in Nat /\ clicks <= MaxClicks
        /\ version + m + p <= clicks
    BY <2>3 DEF IInv, Shared
  <2>6. /\ nextId \in FirstNewId .. FirstNewId + MaxClicks /\ clicks \in 0 .. MaxClicks
        /\ version \in 0 .. clicks /\ m \in 0 .. clicks
    BY <2>4, <2>5
  <2> QED BY <2>1, <2>2, <2>3, <2>4, <2>5, <2>6 DEF TypeOK
<1> QED BY <1>1, InvHolds, PTL

\* RequestsAsChosen of Site10: from a page whose ids have no separators, a POST
\* does what its user chose.
THEOREM SiteRequests == Spec => []RequestsAsChosen
<1>1. IInv => RequestsAsChosen
  <2> SUFFICES ASSUME IInv, NEW b \in Browsers, NEW k \in Slots,
                      xhr[b][k].state = "posted", xhr[b][k].plain
               PROVE  /\ xhr[b][k].id = xhr[b][k].chosen
                      /\ xhr[b][k].op = "add" <=> xhr[b][k].chosen = Null
    BY DEF RequestsAsChosen
  <2>1. XhrMeans(xhr[b][k], doc[b].page, version)
    BY OneOf
  <2> QED BY <2>1 DEF XhrMeans
<1> QED BY <1>1, InvHolds, PTL

\* TableNeverOlder of Site10: no table is older than what its user knows of.
THEOREM SiteTables == Spec => []TableNeverOlder
<1>1. IInv => TableNeverOlder
  <2> SUFFICES ASSUME IInv, NEW b \in Browsers, nav[b].state = "list"
               PROVE  nav[b].version >= known[b]
    BY DEF TableNeverOlder
  <2>1. known[b] <= nav[b].version
    BY OneOf DEF NavMeans
  <2> QED BY <2>1
<1> QED BY <1>1, InvHolds, PTL

\* PageForward of Site10: a page of /task shows a request, and the result of
\* that or a later one.
THEOREM SitePages == Spec => []PageForward
<1>1. IInv => PageForward
  <2> SUFFICES ASSUME IInv, NEW b \in Browsers, nav[b].state = "page"
               PROVE  \E i, j \in nav[b].since .. Len(log) :
                          i <= j /\ nav[b].request = Noted(i) /\ ResultOf(j, nav[b].response)
    BY DEF PageForward
  <2>1. PICK n, m : n = nav[b] /\ m = Len(log)
    OBVIOUS
  <2>2. n.state = "page" /\ n \in Navigations /\ NavMeans(n, known[b], log, version)
    BY <2>1, OneOf
  <2>3. n.since \in Nat /\ m \in Nat
    BY <2>1, <2>2, LastNoted DEF Navigations, Idle, Asked
  <2>4. n.since <= m /\ n.request = Noted(n.since)
    BY <2>1, <2>2 DEF NavMeans, NotedIn, Noted
  <2>5. PICK j \in n.since .. m : n.response = IF j = 0 THEN Null ELSE ResultMaker(log[j])
    BY <2>1, <2>2 DEF NavMeans
  <2>6. ResultOf(j, n.response)
    <3>1. CASE j = 0
      BY <2>5, <3>1 DEF ResultOf
    <3>2. CASE j # 0
      <4>1. j \in 1 .. m
        BY <2>3, <3>2
      <4>2. log[j] \in Requests
        BY <2>1, <4>1, LastNoted
      <4>3. log[j] \in Seq(Elements)
        BY <4>2, TextFacts
      <4>4. n.response = ResultMaker(log[j])
        BY <2>5, <3>2
      <4>5. n.response # Null /\ Sorted(n.response, log[j])
        BY <4>3, <4>4, ResultSorted, NullAssumption
      <4> QED BY <3>2, <4>5 DEF ResultOf
    <3> QED BY <3>1, <3>2
  <2>7. n.since \in n.since .. m /\ n.since <= j
    BY <2>3, <2>4
  <2> QED BY <2>1, <2>4, <2>5, <2>6, <2>7
<1> QED BY <1>1, InvHolds, PTL

\* ShownIsOwn of Site10: the result below the field changes only for the answer
\* to a text sent from this very page, and is that of this text as it arrived,
\* every element in it once, or the about page.
THEOREM SiteResults == Spec => ShownIsOwn
<1> DEFINE Shows(d, text) == IF Arrived(text) = << >> THEN d.shown = About
                             ELSE d.shown # About /\ Sorted(d.shown, Arrived(text))
<1> DEFINE Own(b) == doc[b].page = "task" /\ nav'[b] = nav[b] /\ doc'[b] # doc[b] =>
                \E k \in Slots : /\ xhr[b][k].state = "result" /\ xhr[b][k].wanted = "yes"
                                 /\ Shows(doc'[b], xhr[b][k].text)
<1>1. IInv /\ Next => \A b \in Browsers : Own(b)
  <2> SUFFICES ASSUME IInv, Next, NEW b \in Browsers,
                      doc[b].page = "task", nav'[b] = nav[b], doc'[b] # doc[b]
               PROVE  \E k \in Slots : /\ xhr[b][k].state = "result" /\ xhr[b][k].wanted = "yes"
                                       /\ Shows(doc'[b], xhr[b][k].text)
    OBVIOUS
  <2>1. DOMAIN doc = Browsers /\ DOMAIN nav = Browsers
    BY DEF IInv
  <2>2. ASSUME NEW c \in Browsers, NEW id, NEW chosen, doc[c].page = "books", SetChanging(c, id, chosen)
        PROVE  FALSE
    BY <2>1, <2>2 DEF SetChanging
  <2>3. ASSUME NEW c \in Browsers, NEW d, nav[c].state \in {"list", "page", "books", "task"}, Show(c, d)
        PROVE  FALSE
    <3>1. c = b
      BY <2>1, <2>3 DEF Show
    <3>2. nav'[b] = Idle
      BY <2>1, <2>3, <3>1 DEF Show
    <3>3. nav[b] # Idle
      BY <2>3, <3>1 DEF Idle
    <3> QED BY <3>2, <3>3
  <2>4. doc' # doc
    OBVIOUS
  <2>5. PICK c \in Browsers, k \in Slots : OnResult(c, k)
    <3>1. ASSUME NEW c \in Browsers, NEW row \in Ids PROVE ~ SetChangingMode(c, row)
      BY <2>2 DEF SetChangingMode
    <3>2. ASSUME NEW c \in Browsers PROVE ~ ButtonClick(c)
      BY <2>2 DEF ButtonClick
    <3>3. ASSUME NEW c \in Browsers PROVE ~ ShowBooks(c) /\ ~ ShowTask(c) /\ ~ ShowError(c)
      BY <2>3 DEF ShowBooks, ShowTask, ShowError
    <3>4. ASSUME NEW c \in Browsers, NEW row \in Ids PROVE ~ RemoveBookById(c, row)
      BY <2>4 DEF RemoveBookById
    <3>5. ASSUME NEW c \in Browsers, NEW text \in Offered PROVE ~ GetFilter(c, text)
      BY <2>4 DEF GetFilter
    <3>6. ASSUME NEW c \in Browsers
          PROVE  /\ ~ Navigate(c, "books") /\ ~ Navigate(c, "task") /\ ~ RenderBooks(c)
                 /\ ~ PutRequest(c) /\ ~ TestRequest(c) /\ ~ PutResponse(c)
      BY <2>4 DEF Navigate, RenderBooks, PutRequest, TestRequest, PutResponse
    <3>7. ASSUME NEW c \in Browsers, NEW k \in Slots
          PROVE  /\ ~ ServePost(c, k) /\ ~ AnswerAbout(c, k) /\ ~ NoteRequest(c, k)
                 /\ ~ AnswerRequest(c, k) /\ ~ Lose(c, k) /\ ~ OnPosted(c, k)
      BY <2>4 DEF ServePost, AnswerAbout, NoteRequest, AnswerRequest, Lose, OnPosted
    <3> QED BY <3>1, <3>2, <3>3, <3>4, <3>5, <3>6, <3>7 DEF Next
  <2>6. PICK o : o = xhr[c][k]
    OBVIOUS
  <2>7. /\ o.state = "result" /\ o.wanted = "yes" /\ o.result = Outcome(o.text)
        /\ Arrived(o.text) \in Seq(Elements) /\ doc' = [doc EXCEPT ![c] = TaskDoc(o.result)]
    BY <2>5, <2>6, OnResultFacts
  <2>8. c = b /\ doc'[b].shown = o.result
    BY <2>1, <2>7 DEF TaskDoc
  <2>9. Shows(doc'[b], o.text)
    <3>1. About \notin Sortings
      BY DEF About, Sortings
    <3>2. CASE Arrived(o.text) = << >>
      BY <2>7, <2>8, <3>2 DEF Outcome
    <3>3. CASE Arrived(o.text) # << >>
      BY <2>7, <2>8, <3>1, <3>3, ResultSorted DEF Outcome
    <3> QED BY <3>2, <3>3
  <2> QED BY <2>6, <2>7, <2>8, <2>9
<1>2. IInv /\ [Next]_vars => [\A b \in Browsers : Own(b)]_vars
  BY <1>1
<1> QED BY <1>2, InvHolds, PTL DEF Spec, ShownIsOwn

-----------------------------------------------------------------------------
(* The table under the pages.                                              *)

\* Only a POST that is served changes the table.
LEMMA OnlyServePost ==
    ASSUME [Next]_vars, ~ UNCHANGED <<table, nextId>>
    PROVE  \E b \in Browsers, k \in Slots : ServePost(b, k)
<1>1. Next /\ ~ UNCHANGED books
  BY DEF vars, books
<1> SUFFICES ASSUME NEW b \in Browsers, \A k \in Slots : ~ ServePost(b, k) PROVE
        /\ \A row \in Ids : ~ RemoveBookById(b, row) /\ ~ SetChangingMode(b, row)
        /\ ~ ButtonClick(b) /\ \A text \in Offered : ~ GetFilter(b, text)
        /\ ~ Navigate(b, "books") /\ ~ Navigate(b, "task")
        /\ ~ RenderBooks(b) /\ ~ PutRequest(b) /\ ~ TestRequest(b) /\ ~ PutResponse(b)
        /\ ~ ShowBooks(b) /\ ~ ShowTask(b) /\ ~ ShowError(b)
        /\ \A k \in Slots : ~ AnswerAbout(b, k) /\ ~ NoteRequest(b, k) /\ ~ AnswerRequest(b, k)
                            /\ ~ Lose(b, k) /\ ~ OnPosted(b, k) /\ ~ OnResult(b, k)
  BY <1>1, Zenon DEF Next
<1>2. /\ \A row \in Ids : ~ RemoveBookById(b, row) /\ ~ SetChangingMode(b, row)
      /\ ~ ButtonClick(b) /\ \A text \in Offered : ~ GetFilter(b, text)
      /\ ~ Navigate(b, "books") /\ ~ Navigate(b, "task")
  BY <1>1 DEF RemoveBookById, SetChangingMode, ButtonClick, GetFilter, Navigate
<1>3. /\ ~ RenderBooks(b) /\ ~ PutRequest(b) /\ ~ TestRequest(b) /\ ~ PutResponse(b)
      /\ ~ ShowBooks(b) /\ ~ ShowTask(b) /\ ~ ShowError(b)
  BY <1>1 DEF RenderBooks, PutRequest, TestRequest, PutResponse, ShowBooks, ShowTask, ShowError, Show
<1>4. \A k \in Slots : ~ AnswerAbout(b, k) /\ ~ NoteRequest(b, k) /\ ~ AnswerRequest(b, k)
                       /\ ~ Lose(b, k) /\ ~ OnPosted(b, k) /\ ~ OnResult(b, k)
  BY <1>1 DEF AnswerAbout, NoteRequest, AnswerRequest, Lose, OnPosted, OnResult
<1> QED BY <1>2, <1>3, <1>4

\* A POST on its way has had a click that no change of the table has used up:
\* there is an id for the book it may add.
LEMMA NextIdIsId ==
    ASSUME IInv, NEW b \in Browsers, NEW k \in Slots, xhr[b][k].state = "posted"
    PROVE  nextId \in Ids
<1>1. PICK S : S = Pending(xhr)
  OBVIOUS
<1>2. <<b, k>> \in S
  BY <1>1 DEF Pending, Waiting
<1>3. IsFiniteSet(S)
  <2>1. IsFiniteSet(Browsers \X Slots)
    BY BrowsersAssumption, FS_Product
  <2>2. S \subseteq Browsers \X Slots
    BY <1>1 DEF Pending
  <2> QED BY <2>1, <2>2, FS_Subset
<1>4. Cardinality(S) \in Nat /\ Cardinality(S) # 0
  BY <1>2, <1>3, FS_CardinalityType, FS_EmptySet
<1>5. PICK p, m : p = Cardinality(S) /\ m = Len(log)
  OBVIOUS
<1>6. /\ p \in Nat /\ p # 0 /\ m \in Nat /\ version + m + p <= clicks
      /\ clicks \in Nat /\ clicks <= MaxClicks /\ MaxClicks \in Nat /\ version \in Nat
  BY <1>1, <1>4, <1>5, LastNoted, BoundsAssumption DEF IInv, Shared
<1>7. version <= MaxClicks - 1
  BY <1>6
<1>8. nextId \in Nat /\ FirstNewId \in Nat /\ FirstNewId <= nextId /\ nextId <= FirstNewId + version
  BY IdFacts DEF IInv, Shared
<1>9. nextId \in FirstNewId .. FirstNewId + MaxClicks - 1
  BY <1>6, <1>7, <1>8
<1> QED BY <1>9 DEF Ids

\* What serving a POST does to the table, by what the POST asks for.
LEMMA TableServed ==
    ASSUME IInv, NEW b \in Browsers, NEW k \in Slots, ServePost(b, k)
    PROVE  LET x == xhr[b][k] IN
           /\ x.state = "posted"
           /\ \/ /\ x.op = "add" /\ nextId' = nextId + 1 /\ nextId \in Ids \ DOMAIN table
                 /\ \E d \in Data : Store!Add(nextId, d)
              \/ /\ x.op = "change" /\ nextId' = nextId /\ x.id \in Ids
                 /\ \E d \in Data : Store!Change(x.id, d)
              \/ x.op = "remove" /\ nextId' = nextId /\ x.id \in Ids /\ Store!Remove(x.id)
<1>1. PICK x : x = xhr[b][k]
  OBVIOUS
<1>2. x.state = "posted" /\ Transaction(x.op, x.id)
  BY <1>1 DEF ServePost
<1>3. nextId \in Ids /\ DOMAIN table \subseteq Ids
  BY <1>1, <1>2, NextIdIsId DEF IInv, Shared, Store!TypeOK
<1>4. CASE x.op = "add" /\ nextId' = nextId + 1 /\ \E d \in Data : Store!Add(nextId, d)
  BY <1>1, <1>2, <1>3, <1>4 DEF Store!Add
<1>5. CASE x.op = "change" /\ UNCHANGED nextId /\ \E d \in Data : Store!Change(x.id, d)
  BY <1>1, <1>2, <1>3, <1>5 DEF Store!Change
<1>6. CASE x.op = "remove" /\ UNCHANGED nextId /\ Store!Remove(x.id)
  BY <1>1, <1>2, <1>3, <1>6 DEF Store!Remove
<1> QED BY <1>2, <1>4, <1>5, <1>6 DEF Transaction

\* The id of a book that is gone is given to no other: once it is below the
\* next id and not in the table, it never is in the table again, and what a
\* page has kept of it can do nothing to a younger book.
IdsNotReused ==
    [][/\ nextId <= nextId'
       /\ \A i \in Ids : i < nextId /\ i \notin DOMAIN table => i \notin DOMAIN table']_vars

\* No transaction of Hibernate's gives an id a second time, whoever sends it.
THEOREM SiteIdsNotReused == Spec => IdsNotReused
<1> DEFINE Kept == /\ nextId <= nextId'
                   /\ \A i \in Ids : i < nextId /\ i \notin DOMAIN table => i \notin DOMAIN table'
<1>1. IInv /\ [Next]_vars => [Kept]_vars
  <2> SUFFICES ASSUME IInv, [Next]_vars PROVE Kept
    OBVIOUS
  <2>1. nextId \in Nat /\ \A i \in Ids : i < nextId => i # nextId
    BY DEF IInv, Shared
  <2>2. CASE UNCHANGED <<table, nextId>>
    BY <2>1, <2>2
  <2>3. CASE ~ UNCHANGED <<table, nextId>>
    <3>1. PICK b \in Browsers, k \in Slots : ServePost(b, k)
      BY <2>3, OnlyServePost
    <3>2. PICK x : x = xhr[b][k]
      OBVIOUS
    <3>3. \/ nextId' = nextId + 1 /\ \E d \in Data : Store!Add(nextId, d)
          \/ nextId' = nextId /\ \E d \in Data : Store!Change(x.id, d)
          \/ nextId' = nextId /\ Store!Remove(x.id)
      BY <3>1, <3>2, TableServed
    <3>4. nextId <= nextId' /\ DOMAIN table' \subseteq DOMAIN table \union {nextId}
      BY <2>1, <3>3 DEF Store!Add, Store!Change, Store!Remove
    <3> QED BY <2>1, <3>4
  <2> QED BY <2>2, <2>3
<1> QED BY <1>1, InvHolds, PTL DEF Spec, IdsNotReused

\* A book that a POST from a page without separators in its ids changes or
\* removes is the one its user chose on that page, and a POST whose user chose
\* none leaves all books alone that there are: from the click to the table,
\* whatever other users do in between.
ChosenIsServed ==
    [][\A i \in DOMAIN table :
          ~ (i \in DOMAIN table' /\ table'[i] = table[i]) =>
              \E b \in Browsers : \E k \in Slots :
                  LET x == xhr[b][k] IN
                  /\ x.state = "posted" /\ xhr'[b][k].state # "posted"
                  /\ x.plain => x.chosen = i]_vars

\* From the click on a row to analyzePost's transaction the book stays the one
\* that was chosen, on pages whose ids have no separators.
THEOREM SiteChosenIsServed == Spec => ChosenIsServed
<1> DEFINE Served(i) == ~ (i \in DOMAIN table' /\ table'[i] = table[i]) =>
                            \E b \in Browsers : \E k \in Slots :
                                LET x == xhr[b][k] IN
                                /\ x.state = "posted" /\ xhr'[b][k].state # "posted"
                                /\ x.plain => x.chosen = i
<1>1. IInv /\ [Next]_vars => [\A i \in DOMAIN table : Served(i)]_vars
  <2> SUFFICES ASSUME IInv, [Next]_vars, NEW i \in DOMAIN table,
                      ~ (i \in DOMAIN table' /\ table'[i] = table[i])
               PROVE  \E b \in Browsers : \E k \in Slots :
                          /\ xhr[b][k].state = "posted" /\ xhr'[b][k].state # "posted"
                          /\ xhr[b][k].plain => xhr[b][k].chosen = i
    OBVIOUS
  <2>1. ~ UNCHANGED <<table, nextId>>
    OBVIOUS
  <2>2. PICK b \in Browsers, k \in Slots : ServePost(b, k)
    BY <2>1, OnlyServePost
  <2>3. PICK x : x = xhr[b][k]
    OBVIOUS
  <2>4. XhrMeans(x, doc[b].page, version)
    BY <2>3, OneOf
  <2>5. /\ x.state = "posted"
        /\ \/ nextId \notin DOMAIN table /\ \E d \in Data : Store!Add(nextId, d)
           \/ \E d \in Data : Store!Change(x.id, d)
           \/ Store!Remove(x.id)
    BY <2>2, <2>3, TableServed
  <2>6. x.id = i
    BY <2>5 DEF Store!Add, Store!Change, Store!Remove
  <2>7. xhr'[b][k].state # "posted"
    <3>1. PICK y : y.state # "posted" /\ SetXhr(b, k, y)
      BY <2>2 DEF ServePost, Answer, Free
    <3>2. xhr' = [xhr EXCEPT ![b][k] = y] /\ DOMAIN xhr = Browsers /\ DOMAIN xhr[b] = Slots
      BY <3>1, OneOf DEF SetXhr, IInv
    <3> QED BY <3>1, <3>2
  <2> QED BY <2>3, <2>4, <2>5, <2>6, <2>7 DEF XhrMeans
<1> QED BY <1>1, InvHolds, PTL DEF Spec, ChosenIsServed
===============================================================================
