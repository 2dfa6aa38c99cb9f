--------------------------- MODULE SequenceFacts ---------------------------
(***************************************************************************)
(* What the operators on lists that the models use do to the elements of a *)
(* list without repetitions, and to their order.                           *)
(***************************************************************************)
EXTENDS Integers, Sequences, Functions, TLAPS

(* Two elements that are in this order in r are in this order in s.        *)
KeepsOrder(r, s) ==
  \A i, j \in DOMAIN r : i < j =>
    \E k, l \in DOMAIN s : k < l /\ s[k] = r[i] /\ s[l] = r[j]

(* This is transitive. *)
LEMMA KeepsOrderTransitive ==
  ASSUME NEW q, NEW r, NEW s, KeepsOrder(q, r), KeepsOrder(r, s)
  PROVE  KeepsOrder(q, s)
<1> SUFFICES ASSUME NEW i \in DOMAIN q, NEW j \in DOMAIN q, i < j
             PROVE  \E k, l \in DOMAIN s : k < l /\ s[k] = q[i] /\ s[l] = q[j]
  BY DEF KeepsOrder
<1>1. PICK m, n \in DOMAIN r : m < n /\ r[m] = q[i] /\ r[n] = q[j]
  BY DEF KeepsOrder
<1> QED
  BY <1>1 DEF KeepsOrder

(* The first element is taken away (free_list_ in find_victim_page).       *)
LEMMA TailFacts ==
  ASSUME NEW S, NEW s \in Seq(S), s # <<>>, IsInjective(s)
  PROVE  /\ Head(s) \in S
         /\ Head(s) \in Range(s)
         /\ Tail(s) \in Seq(S)
         /\ IsInjective(Tail(s))
         /\ Range(Tail(s)) = Range(s) \ {Head(s)}
<1>1. /\ Len(s) \in Nat \ {0}
      /\ DOMAIN s = 1 .. Len(s)
      /\ Head(s) = s[1]
      /\ Tail(s) \in Seq(S)
      /\ Len(Tail(s)) = Len(s) - 1
      /\ DOMAIN Tail(s) = 1 .. Len(s) - 1
      /\ \A i \in 1 .. Len(s) - 1 : Tail(s)[i] = s[i + 1]
  OBVIOUS
<1>2. IsInjective(Tail(s))
  BY <1>1 DEF IsInjective
<1>3. Range(Tail(s)) \subseteq Range(s) \ {Head(s)}
  BY <1>1 DEF Range, IsInjective
<1>4. ASSUME NEW x \in Range(s) \ {Head(s)}
      PROVE  x \in Range(Tail(s))
  <2>1. PICK i \in 1 .. Len(s) : x = s[i]
    BY <1>1 DEF Range
  <2>2. i - 1 \in 1 .. Len(s) - 1 /\ Tail(s)[i - 1] = x
    BY <1>1, <2>1
  <2> QED
    BY <1>1, <2>2 DEF Range
<1>5. Head(s) \in S /\ Head(s) \in Range(s)
  BY <1>1 DEF Range
<1> QED
  BY <1>1, <1>2, <1>3, <1>4, <1>5

(* A new element is put at the end (free_list_ in delete_page, the indexes *)
(* of a table in create_index).                                            *)
LEMMA AppendFacts ==
  ASSUME NEW S, NEW s \in Seq(S), IsInjective(s), NEW x \in S, x \notin Range(s)
  PROVE  /\ Append(s, x) \in Seq(S)
         /\ IsInjective(Append(s, x))
         /\ Range(Append(s, x)) = Range(s) \cup {x}
<1>1. /\ Len(s) \in Nat
      /\ DOMAIN s = 1 .. Len(s)
      /\ Append(s, x) \in Seq(S)
      /\ DOMAIN Append(s, x) = 1 .. Len(s) + 1
      /\ \A i \in 1 .. Len(s) : Append(s, x)[i] = s[i]
      /\ Append(s, x)[Len(s) + 1] = x
  OBVIOUS
<1>2. IsInjective(Append(s, x))
  BY <1>1 DEF IsInjective, Range
<1>3. Range(Append(s, x)) = Range(s) \cup {x}
  BY <1>1 DEF Range
<1> QED
  BY <1>1, <1>2, <1>3

(* The last element is taken away (the replacer's list in victim).         *)
LEMMA FrontFacts ==
  ASSUME NEW S, NEW s \in Seq(S), s # <<>>, IsInjective(s)
  PROVE  /\ s[Len(s)] \in S
         /\ s[Len(s)] \in Range(s)
         /\ SubSeq(s, 1, Len(s) - 1) \in Seq(S)
         /\ IsInjective(SubSeq(s, 1, Len(s) - 1))
         /\ Range(SubSeq(s, 1, Len(s) - 1)) = Range(s) \ {s[Len(s)]}
         /\ KeepsOrder(SubSeq(s, 1, Len(s) - 1), s)
<1> DEFINE r == SubSeq(s, 1, Len(s) - 1)
<1>1. /\ Len(s) \in Nat \ {0}
      /\ DOMAIN s = 1 .. Len(s)
      /\ r \in Seq(S)
      /\ DOMAIN r = 1 .. Len(s) - 1
      /\ \A i \in 1 .. Len(s) - 1 : r[i] = s[i]
  OBVIOUS
<1>2. IsInjective(r)
  BY <1>1 DEF IsInjective
<1>3. Range(r) = Range(s) \ {s[Len(s)]}
  <2> HIDE DEF r
  <2>1. ASSUME NEW i \in 1 .. Len(s) - 1
        PROVE  i \in DOMAIN s /\ r[i] = s[i] /\ s[i] # s[Len(s)]
    BY <1>1 DEF IsInjective
  <2>2. ASSUME NEW i \in DOMAIN s, s[i] # s[Len(s)]
        PROVE  i \in DOMAIN r /\ r[i] = s[i]
    BY <1>1, <2>2
  <2> QED
    BY <1>1, <2>1, <2>2 DEF Range
<1>4. s[Len(s)] \in S /\ s[Len(s)] \in Range(s)
  BY <1>1 DEF Range
<1>5. KeepsOrder(r, s)
  BY <1>1 DEF KeepsOrder
<1> QED
  BY <1>1, <1>2, <1>3, <1>4, <1>5

(* An element is taken away, wherever it is (the replacer's list in pin,   *)
(* the indexes of a table in drop_index).  The elements are distinct.      *)
Without(s, k) == SubSeq(s, 1, k - 1) \o SubSeq(s, k + 1, Len(s))

LEMMA WithoutFacts ==
  ASSUME NEW S, NEW s \in Seq(S), IsInjective(s), NEW k \in 1 .. Len(s)
  PROVE  /\ Without(s, k) \in Seq(S)
         /\ IsInjective(Without(s, k))
         /\ Range(Without(s, k)) = Range(s) \ {s[k]}
         /\ KeepsOrder(Without(s, k), s)
<1>0. Len(s) \in Nat /\ DOMAIN s = 1 .. Len(s)
  OBVIOUS
<1> DEFINE a == SubSeq(s, 1, k - 1)
           b == SubSeq(s, k + 1, Len(s))
           r == Without(s, k)
<1>1. /\ a \in Seq(S) /\ b \in Seq(S)
      /\ Len(a) = k - 1
      /\ Len(b) = Len(s) - k
      /\ \A i \in 1 .. k - 1 : a[i] = s[i]
      /\ \A i \in 1 .. Len(s) - k : b[i] = s[i + k]
  <2>1. \A i \in 1 .. Len(s) : s[i] \in S
    BY <1>0
  <2>2. a \in Seq(S) /\ Len(a) = k - 1 /\ \A i \in 1 .. k - 1 : a[i] = s[i]
    <3>1. \A i \in 1 .. k - 1 : s[i] \in S
      BY <1>0, <2>1
    <3> HIDE DEF b
    <3> QED
      BY <1>0, <3>1
  <2>3. /\ b \in Seq(S) /\ Len(b) = Len(s) - k
        /\ \A i \in 1 .. Len(s) - k : b[i] = s[i + k]
    <3>1. \A i \in k + 1 .. Len(s) : s[i] \in S
      BY <1>0, <2>1
    <3>2. /\ b \in Seq(S)
          /\ Len(b) = IF k + 1 <= Len(s) THEN Len(s) - (k + 1) + 1 ELSE 0
          /\ \A i \in 1 .. Len(s) - (k + 1) + 1 : b[i] = s[(k + 1) + i - 1]
      BY <1>0, <3>1
    <3> HIDE DEF a, b
    <3>3. Len(s) - (k + 1) + 1 = Len(s) - k /\ Len(b) = Len(s) - k
      <4>1. \A m \in Nat : \A j \in 1 .. m :
              m - (j + 1) + 1 = m - j /\ (~ (j + 1 <= m) => m - j = 0)
        OBVIOUS
      <4>2. /\ Len(s) - (k + 1) + 1 = Len(s) - k
            /\ ~ (k + 1 <= Len(s)) => Len(s) - k = 0
        BY <1>0, <4>1
      <4> QED
        BY <3>2, <4>2
    <3>4. ASSUME NEW i \in 1 .. Len(s) - k
          PROVE  b[i] = s[i + k]
      <4>1. (k + 1) + i - 1 = i + k
        BY <1>0
      <4> QED
        BY <3>2, <3>3, <4>1
    <3> QED
      BY <3>2, <3>3, <3>4
  <2> QED
    BY <2>2, <2>3
<1>2. r = a \o b
  BY DEF Without
<1>3. /\ r \in Seq(S)
      /\ DOMAIN r = 1 .. Len(s) - 1
      /\ \A i \in 1 .. Len(s) - 1 : r[i] = IF i < k THEN s[i] ELSE s[i + 1]
  <2> HIDE DEF a, b, r
  <2>1. /\ r \in Seq(S)
        /\ Len(r) = Len(a) + Len(b)
        /\ \A i \in 1 .. Len(a) + Len(b) :
             r[i] = IF i <= Len(a) THEN a[i] ELSE b[i - Len(a)]
    <3>1. /\ a \in Seq(S) /\ b \in Seq(S) /\ r = a \o b
          /\ Len(a) \in Nat /\ Len(b) \in Nat
      BY <1>1, <1>2
    <3>2. r \in Seq(S) /\ Len(r) = Len(a) + Len(b)
      BY <3>1
    <3>3. ASSUME NEW i \in 1 .. Len(a) + Len(b)
          PROVE  r[i] = IF i <= Len(a) THEN a[i] ELSE b[i - Len(a)]
      BY <3>1
    <3> QED
      BY <3>2, <3>3
  <2>2. DOMAIN r = 1 .. Len(s) - 1
    BY <1>0, <1>1, <2>1
  <2>3. ASSUME NEW i \in 1 .. Len(s) - 1
        PROVE  r[i] = IF i < k THEN s[i] ELSE s[i + 1]
    <3>1. CASE i < k
      <4>1. i \in 1 .. k - 1 /\ i \in 1 .. Len(a) + Len(b) /\ i <= Len(a)
        BY <1>0, <1>1, <3>1
      <4> QED
        BY <1>1, <2>1, <3>1, <4>1
    <3>2. CASE i >= k
      <4>0. i \in 1 .. Len(a) + Len(b) /\ ~ (i <= Len(a))
        BY <1>0, <1>1, <3>2
      <4>1. r[i] = b[i - (k - 1)]
        BY <1>1, <2>1, <4>0
      <4>2. i - (k - 1) \in 1 .. Len(s) - k
        BY <1>0, <3>2
      <4>3. (i - (k - 1)) + k = i + 1 /\ ~ (i < k)
        BY <1>0, <3>2
      <4>4. b[i - (k - 1)] = s[(i - (k - 1)) + k]
        BY <1>1, <4>2
      <4> QED
        BY <4>1, <4>3, <4>4
    <3> QED
      BY <1>0, <3>1, <3>2
  <2> QED
    BY <2>1, <2>2, <2>3
<1> HIDE DEF r
<1>4. IsInjective(r)
  <2>1. SUFFICES ASSUME NEW i \in 1 .. Len(s) - 1, NEW j \in 1 .. Len(s) - 1,
                        r[i] = r[j]
                 PROVE  i = j
    BY <1>3 DEF IsInjective
  <2> DEFINE at(n) == IF n < k THEN n ELSE n + 1
  <2>2. at(i) \in DOMAIN s /\ at(j) \in DOMAIN s /\ s[at(i)] = s[at(j)]
    BY <1>0, <1>3, <2>1
  <2>3. at(i) = at(j)
    BY <2>2 DEF IsInjective
  <2> QED
    BY <1>0, <2>3
<1>5. Range(r) \subseteq Range(s) \ {s[k]}
  <2>1. ASSUME NEW i \in 1 .. Len(s) - 1
        PROVE  r[i] \in Range(s) /\ r[i] # s[k]
    <3> DEFINE n == IF i < k THEN i ELSE i + 1
    <3>1. n \in DOMAIN s /\ n # k /\ r[i] = s[n]
      BY <1>0, <1>3
    <3> HIDE DEF n
    <3> QED
      BY <1>0, <3>1 DEF Range, IsInjective
  <2> QED
    BY <1>3, <2>1 DEF Range
<1>6. ASSUME NEW y \in Range(s) \ {s[k]}
       PROVE  y \in Range(r)
  <2>1. PICK i \in 1 .. Len(s) : y = s[i]
    BY <1>0 DEF Range
  <2>2. CASE i < k
    <3>1. i \in 1 .. Len(s) - 1 /\ r[i] = y
      BY <1>0, <1>3, <2>1, <2>2
    <3> QED
      BY <1>3, <3>1 DEF Range
  <2>3. CASE i > k
    <3>1. i - 1 \in 1 .. Len(s) - 1 /\ r[i - 1] = y
      BY <1>0, <1>3, <2>1, <2>3
    <3> QED
      BY <1>3, <3>1 DEF Range
  <2> QED
    BY <2>1, <2>2, <2>3
<1>7. KeepsOrder(r, s)
  <2> SUFFICES ASSUME NEW i \in DOMAIN r, NEW j \in DOMAIN r, i < j
               PROVE  \E m, n \in DOMAIN s : m < n /\ s[m] = r[i] /\ s[n] = r[j]
    BY DEF KeepsOrder
  <2>0. i \in 1 .. Len(s) - 1 /\ j \in 1 .. Len(s) - 1
    BY <1>3
  <2> DEFINE at(n) == IF n < k THEN n ELSE n + 1
  <2>1. at(i) \in DOMAIN s /\ at(j) \in DOMAIN s /\ at(i) < at(j)
    BY <1>0, <2>0
  <2>2. s[at(i)] = r[i] /\ s[at(j)] = r[j]
    BY <1>3, <2>0
  <2> HIDE DEF at
  <2> QED
    BY <2>1, <2>2
<1> QED
  BY <1>3, <1>4, <1>5, <1>6, <1>7 DEF r

(* Two elements of r other than x are in this order in s.                  *)
KeepsOrderBehind(r, s, x) ==
  \A i, j \in DOMAIN r : i < j /\ r[i] # x =>
    \E k, l \in DOMAIN s : k < l /\ s[k] = r[i] /\ s[l] = r[j]

(* A new element is put before the others (the replacer's list in unpin).  *)
LEMMA PrependFacts ==
  ASSUME NEW S, NEW s \in Seq(S), IsInjective(s), NEW x \in S, x \notin Range(s)
  PROVE  /\ <<x>> \o s \in Seq(S)
         /\ IsInjective(<<x>> \o s)
         /\ Range(<<x>> \o s) = Range(s) \cup {x}
         /\ KeepsOrderBehind(<<x>> \o s, s, x)
<1> DEFINE r == <<x>> \o s
<1>0. Len(s) \in Nat /\ DOMAIN s = 1 .. Len(s)
  OBVIOUS
<1>1. /\ r \in Seq(S)
      /\ DOMAIN r = 1 .. Len(s) + 1
      /\ \A i \in 1 .. Len(s) + 1 : r[i] = IF i = 1 THEN x ELSE s[i - 1]
  BY <1>0
<1>2. IsInjective(r)
  BY <1>0, <1>1 DEF IsInjective, Range
<1>3. Range(r) \subseteq Range(s) \cup {x}
  BY <1>0, <1>1 DEF Range
<1>4. ASSUME NEW y \in Range(s)
      PROVE  y \in Range(r)
  <2>1. PICK i \in 1 .. Len(s) : y = s[i]
    BY <1>0 DEF Range
  <2>2. i + 1 \in 1 .. Len(s) + 1 /\ r[i + 1] = y
    BY <1>0, <1>1, <2>1
  <2> QED
    BY <1>1, <2>2 DEF Range
<1>5. x \in Range(r)
  <2>1. 1 \in 1 .. Len(s) + 1 /\ r[1] = x
    BY <1>0, <1>1
  <2> QED
    BY <1>1, <2>1 DEF Range
<1>6. ASSUME NEW i \in DOMAIN r, NEW j \in DOMAIN r, i < j, r[i] # x
      PROVE  \E k, l \in DOMAIN s : k < l /\ s[k] = r[i] /\ s[l] = r[j]
  <2>1. /\ i - 1 \in DOMAIN s /\ j - 1 \in DOMAIN s /\ i - 1 < j - 1
        /\ s[i - 1] = r[i] /\ s[j - 1] = r[j]
    BY <1>0, <1>1, <1>6
  <2> QED
    BY <2>1
<1> QED
  BY <1>1, <1>2, <1>3, <1>4, <1>5, <1>6 DEF KeepsOrderBehind
=============================================================================
