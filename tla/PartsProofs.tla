------------------------------ MODULE PartsProofs ------------------------------
(***************************************************************************)
(* The limiter of attempts: for any keys, limits and windows no more are   *)
(* let through in a window than allowed, and none that still counts is     *)
(* forgotten. The printed forms: a paragraph of any length, cut into any   *)
(* number of runs, is filled as it is written. The one connection: whoever *)
(* has it gives it back. And what MCParts puts beside each other is each   *)
(* of its parts.                                                           *)
(***************************************************************************)
EXTENDS MCParts, FilesProofs, FormProofs, FiniteSetTheorems, WellFoundedInduction,
        SequenceTheorems, TLAPS

-----------------------------------------------------------------------------
(* The least of some numbers *)

Less == {p \in Nat \X Nat : p[1] < p[2]}

LEMMA LessIsWellFounded == IsWellFoundedOn(Less, Nat)
<1>1. OpToRel(<, Nat) = Less
  BY Zenon DEF OpToRel, Less
<1> QED
  BY <1>1, NatLessThanWellFounded, Zenon

LEMMA LeastNumber ==
  ASSUME NEW T, T \subseteq Nat, T # {}
  PROVE  \E x \in T : \A y \in T : x <= y
<1>1. PICK x \in T : \A y \in T : <<y, x>> \notin Less
  BY WFMin, LessIsWellFounded
<1>2. ASSUME NEW y \in T PROVE x <= y
  <2>1. y < x => <<y, x>> \in Less
    BY DEF Less
  <2> QED
    BY <1>1, <2>1
<1> QED
  BY <1>2

-----------------------------------------------------------------------------
(* Ages, oldest first *)

OldestFirst(s) == \A i, j \in 1 .. Len(s) : i <= j => s[i] >= s[j]
Aged(s) == s \in Seq(Nat) /\ OldestFirst(s)

LEMMA SeqOfNumbers ==
  ASSUME NEW S, S \subseteq Nat, NEW s \in Seq(S)
  PROVE  s \in Seq(Nat)
<1>1. Len(s) \in Nat /\ s = [i \in 1 .. Len(s) |-> s[i]] /\ \A i \in 1 .. Len(s) : s[i] \in S
  OBVIOUS
<1>2. [i \in 1 .. Len(s) |-> s[i]] \in Seq(Nat)
  BY <1>1
<1> QED
  BY <1>1, <1>2

\* The first d are too old, the rest is not.
Cut(s, limit, d) ==
  /\ d \in 0 .. Len(s)
  /\ \A i \in 1 .. Len(s) : s[i] < limit <=> i > d
Rest(s, d) == [k \in 1 .. (Len(s) - d) |-> s[d + k]]

LEMMA CutExists ==
  ASSUME NEW s, Aged(s), NEW limit \in Nat
  PROVE  \E d : Cut(s, limit, d)
<1>0. Len(s) \in Nat /\ \A i \in 1 .. Len(s) : s[i] \in Nat
  BY DEF Aged
<1> DEFINE T == {n \in 0 .. Len(s) : \A i \in 1 .. Len(s) : i > n => s[i] < limit}
<1>1. Len(s) \in T /\ T \subseteq Nat
  BY <1>0
<1>2. PICK d \in T : \A n \in T : d <= n
  BY <1>1, LeastNumber
<1>3. d > 0 => s[d] >= limit
  <2> SUFFICES ASSUME d > 0, s[d] < limit PROVE FALSE
    BY <1>0, <1>2
  <2>1. d - 1 \in 0 .. Len(s) /\ \A i \in 1 .. Len(s) : i > d - 1 => i = d \/ i > d
    BY <1>0
  <2>2. d - 1 \in T
    BY <2>1
  <2>3. d \in Nat
    BY <1>0
  <2> HIDE DEF T
  <2>4. d <= d - 1
    BY <1>2, <2>2
  <2> QED
    BY <2>3, <2>4
<1>4. ASSUME NEW i \in 1 .. Len(s), i <= d PROVE s[i] >= limit
  <2>1. d \in 1 .. Len(s) /\ s[i] >= s[d] /\ s[d] >= limit
    BY <1>0, <1>3, <1>4 DEF Aged, OldestFirst
  <2> QED
    BY <1>0, <2>1
<1>5. ASSUME NEW i \in 1 .. Len(s) PROVE s[i] < limit <=> i > d
  BY <1>0, <1>4
<1> QED
  BY <1>5 DEF Cut

\* What is left by age is what is left by position.
LEMMA WithinIsRest ==
  ASSUME NEW s, Aged(s), NEW limit \in Nat, NEW d, Cut(s, limit, d)
  PROVE  Within(s, limit) = Rest(s, d)
<1> DEFINE young == {i \in DOMAIN s : s[i] < limit}
           place(i) == Cardinality({j \in young : j <= i})
<1>0. Len(s) \in Nat /\ DOMAIN s = 1 .. Len(s) /\ d \in 0 .. Len(s)
  BY DEF Aged, Cut
<1>1. young = (d + 1) .. Len(s)
  BY <1>0 DEF Cut
<1>2. Cardinality(young) = Len(s) - d
  <2>1. Cardinality((d + 1) .. Len(s)) = Len(s) - d
    <3>1. CASE d = Len(s)
      <4>1. (d + 1) .. Len(s) = {} /\ Len(s) - d = 0
        BY <1>0, <3>1
      <4> QED
        BY <4>1, FS_EmptySet
    <3>2. CASE d < Len(s)
      <4>1. d + 1 \in Int /\ Len(s) \in Int /\ ~(d + 1 > Len(s)) /\ Len(s) - (d + 1) + 1 = Len(s) - d
        BY <1>0, <3>2
      <4> QED
        BY <4>1, FS_Interval
    <3>3. d = Len(s) \/ d < Len(s)
      <4>1. \A n \in Nat : \A e \in 0 .. n : e = n \/ e < n
        OBVIOUS
      <4> QED
        BY <1>0, <4>1
    <3> QED
      BY <3>1, <3>2, <3>3, Zenon
  <2> QED
    BY <1>1, <2>1
<1>3. ASSUME NEW i \in young PROVE place(i) = i - d
  <2>1. {j \in young : j <= i} = (d + 1) .. i
    BY <1>0, <1>1
  <2>2. Cardinality((d + 1) .. i) = i - d
    BY <1>0, <1>1, FS_Interval
  <2> QED
    BY <2>1, <2>2
<1>4. ASSUME NEW k \in 1 .. (Len(s) - d) PROVE (CHOOSE i \in young : place(i) = k) = d + k
  <2>1. d + k \in young /\ place(d + k) = k
    BY <1>0, <1>1, <1>3
  <2>2. \A i \in young : place(i) = k => i = d + k
    BY <1>0, <1>1, <1>3
  <2> HIDE DEF young, place
  <2> QED
    BY <2>1, <2>2
<1>5. Within(s, limit) = [k \in 1 .. Cardinality(young) |-> s[CHOOSE i \in young : place(i) = k]]
  BY DEF Within
<1> HIDE DEF young, place
<1> QED
  BY <1>2, <1>4, <1>5 DEF Rest

LEMMA RestAged ==
  ASSUME NEW S, S \subseteq Nat, NEW s \in Seq(S), OldestFirst(s), NEW d \in 0 .. Len(s)
  PROVE  Rest(s, d) \in Seq(S) /\ Aged(Rest(s, d)) /\ Len(Rest(s, d)) = Len(s) - d
<1>1. Len(s) \in Nat /\ Len(s) - d \in Nat /\ \A k \in 1 .. (Len(s) - d) : d + k \in 1 .. Len(s)
  OBVIOUS
<1>2. Rest(s, d) \in Seq(S) /\ Len(Rest(s, d)) = Len(s) - d
  BY <1>1 DEF Rest
<1>3. OldestFirst(Rest(s, d))
  BY <1>1, <1>2 DEF Rest, OldestFirst
<1> QED
  BY <1>2, <1>3, SeqOfNumbers DEF Aged

\* Filtering keeps the order, and loses nobody within the limit.
LEMMA WithinTyped ==
  ASSUME NEW S, S \subseteq Nat, NEW s \in Seq(S), OldestFirst(s), NEW limit \in Nat
  PROVE  /\ Within(s, limit) \in Seq(S) /\ Aged(Within(s, limit))
         /\ \A i \in 1 .. Len(Within(s, limit)) : Within(s, limit)[i] < limit
         /\ Len(Within(s, limit)) <= Len(s)
<1>1. Aged(s)
  BY SeqOfNumbers DEF Aged
<1>2. PICK d : Cut(s, limit, d)
  BY <1>1, CutExists
<1>3. Within(s, limit) = Rest(s, d) /\ d \in 0 .. Len(s) /\ Len(s) \in Nat
  BY <1>1, <1>2, WithinIsRest DEF Cut
<1>4. Rest(s, d) \in Seq(S) /\ Aged(Rest(s, d)) /\ Len(Rest(s, d)) = Len(s) - d
  BY <1>3, RestAged
<1>5. \A k \in 1 .. (Len(s) - d) : Rest(s, d)[k] < limit
  BY <1>2, <1>3 DEF Rest, Cut
<1> QED
  BY <1>3, <1>4, <1>5

\* Filtering twice is filtering by the narrower limit.
LEMMA WithinWithin ==
  ASSUME NEW s, Aged(s), NEW limit \in Nat, NEW wider \in Nat, limit <= wider
  PROVE  /\ Within(Within(s, wider), limit) = Within(s, limit)
         /\ Len(Within(s, limit)) <= Len(Within(s, wider))
<1>1. PICK d, e : Cut(s, wider, d) /\ Cut(s, limit, e)
  BY CutExists
<1>2. Within(s, wider) = Rest(s, d) /\ Within(s, limit) = Rest(s, e)
  BY <1>1, WithinIsRest
<1>3. Len(s) \in Nat /\ d \in 0 .. Len(s) /\ e \in 0 .. Len(s) /\ \A i \in 1 .. Len(s) : s[i] \in Nat
  BY <1>1 DEF Cut, Aged
<1>4. d <= e
  <2> SUFFICES ASSUME d > e PROVE FALSE
    BY <1>3
  <2>1. d \in 1 .. Len(s) /\ s[d] < limit /\ ~(s[d] < wider)
    BY <1>1, <1>3 DEF Cut
  <2> QED
    BY <1>3, <2>1
<1>5. Aged(Rest(s, d)) /\ Len(Rest(s, d)) = Len(s) - d /\ Len(Rest(s, e)) = Len(s) - e
  BY <1>3, RestAged DEF Aged
<1>6. Cut(Rest(s, d), limit, e - d)
  BY <1>1, <1>3, <1>4, <1>5 DEF Cut, Rest
<1>7. Within(Rest(s, d), limit) = Rest(Rest(s, d), e - d)
  BY <1>5, <1>6, WithinIsRest
<1>8. Rest(Rest(s, d), e - d) = Rest(s, e)
  <2>1. \A k \in 1 .. (Len(s) - e) : (e - d) + k \in 1 .. (Len(s) - d) /\ d + ((e - d) + k) = e + k
    BY <1>3, <1>4
  <2>2. (Len(s) - d) - (e - d) = Len(s) - e
    BY <1>3
  <2> QED
    BY <1>5, <2>1, <2>2 DEF Rest
<1> QED
  BY <1>2, <1>3, <1>4, <1>5, <1>7, <1>8

\* One unit later, those within a window are those that were within one unit less.
LEMMA OlderAged ==
  ASSUME NEW s, Aged(s), \A i \in 1 .. Len(s) : s[i] \in Age
  PROVE  /\ Older(s) \in Seq(Age) /\ Aged(Older(s)) /\ Len(Older(s)) = Len(s)
         /\ \A i \in 1 .. Len(s) : Older(s)[i] = IF s[i] > Hour THEN s[i] ELSE s[i] + 1
<1>1. Len(s) \in Nat /\ DOMAIN s = 1 .. Len(s) /\ Hour \in Nat
  BY LimiterAssumption DEF Aged
<1>2. Older(s) = [i \in 1 .. Len(s) |-> IF s[i] > Hour THEN s[i] ELSE s[i] + 1]
  BY <1>1 DEF Older
<1>3. \A i \in 1 .. Len(s) : (IF s[i] > Hour THEN s[i] ELSE s[i] + 1) \in Age
  BY <1>1 DEF Age
<1>4. Older(s) \in Seq(Age) /\ Len(Older(s)) = Len(s)
  BY <1>1, <1>2, <1>3
<1>5. OldestFirst(Older(s))
  BY <1>1, <1>2, <1>4 DEF Aged, OldestFirst, Age
<1>6. Age \subseteq Nat
  BY <1>1 DEF Age
<1> QED
  BY <1>2, <1>4, <1>5, <1>6, SeqOfNumbers DEF Aged

LEMMA WithinOlder ==
  ASSUME NEW s, Aged(s), \A i \in 1 .. Len(s) : s[i] \in Age, NEW limit \in 1 .. Hour + 1
  PROVE  Within(Older(s), limit) = [k \in 1 .. Len(Within(s, limit - 1)) |-> Within(s, limit - 1)[k] + 1]
<1>0. Len(s) \in Nat /\ Hour \in Nat /\ limit \in Nat /\ limit - 1 \in Nat
  BY LimiterAssumption DEF Aged
<1>1. /\ Aged(Older(s)) /\ Len(Older(s)) = Len(s)
      /\ \A i \in 1 .. Len(s) : Older(s)[i] = IF s[i] > Hour THEN s[i] ELSE s[i] + 1
  BY OlderAged
<1>2. PICK d : Cut(s, limit - 1, d)
  BY <1>0, CutExists
<1>3. Cut(Older(s), limit, d)
  BY <1>0, <1>1, <1>2 DEF Cut, Age
<1>4. Within(s, limit - 1) = Rest(s, d) /\ Within(Older(s), limit) = Rest(Older(s), d)
  BY <1>0, <1>1, <1>2, <1>3, WithinIsRest
<1>5. Len(Rest(s, d)) = Len(s) - d /\ d \in 0 .. Len(s)
  BY <1>0, <1>2, RestAged DEF Cut, Aged
<1>6. ASSUME NEW k \in 1 .. (Len(s) - d) PROVE Older(s)[d + k] = Rest(s, d)[k] + 1
  <2>1. d + k \in 1 .. Len(s) /\ d + k > d
    BY <1>0, <1>5
  <2>2. s[d + k] < limit - 1 /\ s[d + k] \in Nat
    BY <1>0, <1>2, <2>1 DEF Cut, Age
  <2>3. Older(s)[d + k] = s[d + k] + 1
    BY <1>0, <1>1, <2>1, <2>2
  <2> QED
    BY <2>3 DEF Rest
<1>7. Rest(Older(s), d) = [k \in 1 .. (Len(s) - d) |-> Older(s)[d + k]]
  BY <1>1 DEF Rest
<1> QED
  BY <1>4, <1>5, <1>6, <1>7

LEMMA WithinAppend ==
  ASSUME NEW s, Aged(s), NEW limit \in Nat \ {0}
  PROVE  Within(Append(s, 0), limit) = Append(Within(s, limit), 0) /\ Aged(Append(s, 0))
<1>0. Len(s) \in Nat /\ s \in Seq(Nat) /\ \A i \in 1 .. Len(s) : s[i] \in Nat
  BY DEF Aged
<1>1. /\ Append(s, 0) \in Seq(Nat) /\ Len(Append(s, 0)) = Len(s) + 1
      /\ \A i \in 1 .. Len(s) : Append(s, 0)[i] = s[i]
      /\ Append(s, 0)[Len(s) + 1] = 0
  BY <1>0
<1>2. Aged(Append(s, 0))
  BY <1>0, <1>1 DEF Aged, OldestFirst
<1>3. PICK d : Cut(s, limit, d)
  BY CutExists
<1>4. Cut(Append(s, 0), limit, d)
  BY <1>0, <1>1, <1>3 DEF Cut
<1>5. Within(s, limit) = Rest(s, d) /\ Within(Append(s, 0), limit) = Rest(Append(s, 0), d)
  BY <1>2, <1>3, <1>4, WithinIsRest
<1>6. Rest(Append(s, 0), d) = Append(Rest(s, d), 0)
  <2>1. /\ Rest(s, d) \in Seq(Nat) /\ Len(Rest(s, d)) = Len(s) - d
        /\ d \in 0 .. Len(s) /\ Len(s) - d \in Nat
    BY <1>0, <1>3, RestAged DEF Cut, Aged
  <2> DEFINE n == Len(s) - d
  <2>2. (Len(s) + 1) - d = n + 1 /\ d + (n + 1) = Len(s) + 1 /\ n \in Nat
    BY <1>0, <2>1
  <2>3. \A k \in 1 .. n : d + k \in 1 .. Len(s) /\ Append(s, 0)[d + k] = s[d + k]
    BY <1>0, <1>1, <2>1
  <2>4. Rest(Append(s, 0), d) = [k \in 1 .. n + 1 |-> Append(s, 0)[d + k]]
    <3> HIDE DEF n
    <3>1. Len(Append(s, 0)) - d = n + 1
      BY <1>1, <2>2
    <3> QED
      BY <3>1 DEF Rest
  <2>5. \A k \in 1 .. n + 1 : Append(s, 0)[d + k] = IF k = n + 1 THEN 0 ELSE Rest(s, d)[k]
    <3> SUFFICES ASSUME NEW k \in 1 .. n + 1
                 PROVE  Append(s, 0)[d + k] = IF k = n + 1 THEN 0 ELSE Rest(s, d)[k]
      OBVIOUS
    <3>1. CASE k = n + 1
      BY <1>1, <2>2, <3>1
    <3>2. CASE k \in 1 .. n
      BY <2>2, <2>3, <3>2 DEF Rest
    <3>3. n \in Nat
      BY <2>2
    <3> HIDE DEF n
    <3>4. k = n + 1 \/ k \in 1 .. n
      BY <3>3
    <3> QED
      BY <3>1, <3>2, <3>4
  <2>6. Append(Rest(s, d), 0) = [k \in 1 .. n + 1 |-> IF k = n + 1 THEN 0 ELSE Rest(s, d)[k]]
    <3> DEFINE r == Rest(s, d)
    <3>1. r \in Seq(Nat) /\ Len(r) = n
      BY <2>1
    <3> HIDE DEF r, n
    <3> DEFINE a == Append(r, 0)
    <3>2. /\ a \in Seq(Nat) /\ Len(a) = n + 1
          /\ \A k \in 1 .. n + 1 : a[k] = IF k = n + 1 THEN 0 ELSE r[k]
      BY <3>1
    <3> HIDE DEF a
    <3>3. a = [k \in 1 .. n + 1 |-> a[k]]
      BY <3>2
    <3>4. a = [k \in 1 .. n + 1 |-> IF k = n + 1 THEN 0 ELSE r[k]]
      BY <3>2, <3>3
    <3> QED
      BY <3>4 DEF a, r
  <2> QED
    BY <2>4, <2>5, <2>6
<1> QED
  BY <1>2, <1>5, <1>6

LEMMA NoneWithin ==
  ASSUME NEW s, Aged(s), NEW limit \in Nat, s = <<>> \/ s[Len(s)] >= limit
  PROVE  Within(s, limit) = <<>>
<1>0. Len(s) \in Nat /\ \A i \in 1 .. Len(s) : s[i] \in Nat
  BY DEF Aged
<1>1. Cut(s, limit, Len(s))
  BY <1>0 DEF Cut, Aged, OldestFirst
<1>2. Within(s, limit) = Rest(s, Len(s)) /\ Len(s) - Len(s) = 0
  BY <1>0, <1>1, WithinIsRest
<1> QED
  BY <1>2 DEF Rest

-----------------------------------------------------------------------------
(* The invariant *)

\* The last of the recorded attempts came last: so the cleaner may look at one alone.
LimiterInv ==
  /\ LimiterTypeOK
  /\ \A c \in Caller : OldestFirst(buckets[c]) /\ OldestFirst(granted[c])
  /\ AtMostAllowed

LEMMA LimiterInvInit == LimiterInit => LimiterInv
<1> SUFFICES ASSUME LimiterInit PROVE LimiterInv
  OBVIOUS
<1>1. LimiterTypeOK
  BY DEF LimiterInit, LimiterTypeOK
<1>2. OldestFirst(<<>>) /\ Aged(<<>>)
  BY DEF OldestFirst, Aged
<1>3. ASSUME NEW c \in Caller
      PROVE  Len(Within(<<>>, Window[c])) <= Allowed[c]
  <2>1. Window[c] \in Nat /\ Allowed[c] \in Nat
    BY LimiterAssumption
  <2> QED
    BY <1>2, <2>1, NoneWithin
<1> QED
  BY <1>1, <1>2, <1>3 DEF LimiterInit, LimiterInv, AtMostAllowed

LEMMA LimiterInvStep == LimiterInv /\ [LimiterNext]_limiterVars => LimiterInv'
<1> SUFFICES ASSUME LimiterInv, [LimiterNext]_limiterVars PROVE LimiterInv'
  OBVIOUS
<1>0. /\ LimiterTypeOK /\ AtMostAllowed /\ Hour \in Nat \ {0}
      /\ Age \subseteq Nat /\ 0 .. Hour \subseteq Nat /\ 0 .. Hour \subseteq Age
  BY LimiterAssumption DEF LimiterInv, Age
<1>c. ASSUME NEW c \in Caller
      PROVE  /\ buckets[c] \in Seq(Age) /\ granted[c] \in Seq(0 .. Hour)
             /\ OldestFirst(buckets[c]) /\ OldestFirst(granted[c])
             /\ Aged(buckets[c]) /\ Aged(granted[c])
             /\ Window[c] \in Nat \ {0} /\ Window[c] <= Hour /\ Allowed[c] \in Nat
             /\ Within(buckets[c], Window[c]) = Within(granted[c], Window[c])
             /\ Len(Within(granted[c], Window[c])) <= Allowed[c]
  <2>1. buckets[c] \in Seq(Age) /\ granted[c] \in Seq(0 .. Hour)
    BY <1>0 DEF LimiterTypeOK
  <2>2. OldestFirst(buckets[c]) /\ OldestFirst(granted[c])
    BY DEF LimiterInv
  <2>3. Aged(buckets[c]) /\ Aged(granted[c])
    BY <1>0, <2>1, <2>2, SeqOfNumbers DEF Aged
  <2> QED
    BY <1>0, <2>1, <2>2, <2>3, LimiterAssumption DEF AtMostAllowed
\* What a step has to show, of each key.
<1>p. ASSUME \A c \in Caller :
               /\ buckets'[c] \in Seq(Age) /\ granted'[c] \in Seq(0 .. Hour)
               /\ OldestFirst(buckets'[c]) /\ OldestFirst(granted'[c])
               /\ Within(buckets'[c], Window[c]) = Within(granted'[c], Window[c])
               /\ Len(Within(granted'[c], Window[c])) <= Allowed[c],
             buckets' = [c \in Caller |-> buckets'[c]], granted' = [c \in Caller |-> granted'[c]]
      PROVE  LimiterInv'
  <2>1. LimiterTypeOK'
    BY <1>p DEF LimiterTypeOK
  <2> QED
    BY <1>p, <2>1 DEF LimiterInv, AtMostAllowed
<1>1. CASE Tick
  <2>1. buckets' = [c \in Caller |-> buckets'[c]] /\ granted' = [c \in Caller |-> granted'[c]]
    BY <1>1 DEF Tick
  <2>2. ASSUME NEW c \in Caller
        PROVE  /\ buckets'[c] \in Seq(Age) /\ granted'[c] \in Seq(0 .. Hour)
               /\ OldestFirst(buckets'[c]) /\ OldestFirst(granted'[c])
               /\ Within(buckets'[c], Window[c]) = Within(granted'[c], Window[c])
               /\ Len(Within(granted'[c], Window[c])) <= Allowed[c]
    <3> DEFINE b == buckets[c]
               g == granted[c]
               w == Window[c]
               t == Within(Older(g), Hour + 1)
    <3>1. buckets'[c] = Older(b) /\ granted'[c] = t
      BY <1>1 DEF Tick
    <3>2. /\ b \in Seq(Age) /\ g \in Seq(0 .. Hour) /\ Aged(b) /\ Aged(g)
          /\ w \in Nat \ {0} /\ w <= Hour /\ Allowed[c] \in Nat
          /\ Within(b, w) = Within(g, w) /\ Len(Within(g, w)) <= Allowed[c]
      BY <1>c
    <3> HIDE DEF b, g, w
    <3>3. (\A i \in 1 .. Len(b) : b[i] \in Age) /\ (\A i \in 1 .. Len(g) : g[i] \in Age)
      BY <1>0, <3>2
    <3>4. Older(b) \in Seq(Age) /\ Older(g) \in Seq(Age) /\ Aged(Older(b)) /\ Aged(Older(g))
      BY <3>2, <3>3, OlderAged
    <3>5. Hour + 1 \in Nat /\ w \in 1 .. Hour + 1 /\ w <= Hour + 1 /\ w - 1 \in Nat /\ w - 1 <= w
      BY <1>0, <3>2
    <3>6. /\ t \in Seq(Age) /\ Aged(t) /\ \A i \in 1 .. Len(t) : t[i] < Hour + 1
      BY <1>0, <3>4, <3>5, WithinTyped DEF Aged
    <3>7. t \in Seq(0 .. Hour)
      <4>1. Len(t) \in Nat /\ t = [i \in 1 .. Len(t) |-> t[i]] /\ \A i \in 1 .. Len(t) : t[i] \in Age
        BY <3>6
      <4>2. \A i \in 1 .. Len(t) : t[i] \in 0 .. Hour
        BY <1>0, <3>6, <4>1 DEF Age
      <4>3. [i \in 1 .. Len(t) |-> t[i]] \in Seq(0 .. Hour)
        BY <4>1, <4>2
      <4> QED
        BY <4>1, <4>3
    <3>8. Within(t, w) = Within(Older(g), w)
      BY <3>2, <3>4, <3>5, WithinWithin
    <3>9. Within(b, w - 1) = Within(g, w - 1) /\ Len(Within(g, w - 1)) <= Len(Within(g, w))
      BY <3>2, <3>5, WithinWithin
    <3>10. /\ Within(Older(b), w) = [k \in 1 .. Len(Within(b, w - 1)) |-> Within(b, w - 1)[k] + 1]
           /\ Within(Older(g), w) = [k \in 1 .. Len(Within(g, w - 1)) |-> Within(g, w - 1)[k] + 1]
      BY <3>2, <3>3, <3>5, WithinOlder
    <3>11. Len(Within(Older(g), w)) = Len(Within(g, w - 1)) /\ Len(Within(g, w)) \in Nat
           /\ Len(Within(g, w - 1)) \in Nat
      <4>1. Within(g, w - 1) \in Seq(0 .. Hour) /\ Within(g, w) \in Seq(0 .. Hour)
        BY <1>0, <3>2, <3>5, WithinTyped DEF Aged
      <4> HIDE DEF t
      <4> QED
        BY <3>10, <4>1
    <3>12. Within(Older(b), w) = Within(t, w) /\ Len(Within(t, w)) <= Allowed[c]
      BY <3>2, <3>8, <3>9, <3>10, <3>11
    <3> QED
      BY <3>1, <3>4, <3>6, <3>7, <3>12 DEF Aged, w
  <2> QED
    BY <1>p, <2>1, <2>2
<1>2. ASSUME NEW c \in Caller, Allow(c) PROVE LimiterInv'
  <2>1. buckets' = [d \in Caller |-> buckets'[d]] /\ granted' = [d \in Caller |-> granted'[d]]
    BY <1>0, <1>2 DEF Allow, LimiterTypeOK
  <2>2. ASSUME NEW d \in Caller
        PROVE  /\ buckets'[d] \in Seq(Age) /\ granted'[d] \in Seq(0 .. Hour)
               /\ OldestFirst(buckets'[d]) /\ OldestFirst(granted'[d])
               /\ Within(buckets'[d], Window[d]) = Within(granted'[d], Window[d])
               /\ Len(Within(granted'[d], Window[d])) <= Allowed[d]
    <3>1. CASE d # c
      <4>1. buckets'[d] = buckets[d] /\ granted'[d] = granted[d]
        BY <1>0, <1>2, <3>1 DEF Allow, LimiterTypeOK
      <4> QED
        BY <1>c, <4>1
    <3>2. CASE d = c
      <4> DEFINE b == buckets[c]
                 g == granted[c]
                 w == Window[c]
                 k == Within(b, w)
      <4>1. buckets'[c] = Append(k, 0) /\ granted'[c] = Append(g, 0) /\ Len(k) < Allowed[c]
        BY <1>0, <1>2 DEF Allow, LimiterTypeOK, Kept
      <4>2. /\ b \in Seq(Age) /\ g \in Seq(0 .. Hour) /\ Aged(b) /\ Aged(g) /\ OldestFirst(b)
            /\ w \in Nat \ {0} /\ Allowed[c] \in Nat /\ k = Within(g, w)
        BY <1>c
      <4> HIDE DEF b, g, w, k
      <4>3. k \in Seq(Age) /\ Aged(k)
        BY <1>0, <4>2, WithinTyped DEF k
      <4>4. Append(k, 0) \in Seq(Age) /\ Append(g, 0) \in Seq(0 .. Hour) /\ Len(Append(k, 0)) = Len(k) + 1
        BY <1>0, <4>2, <4>3 DEF Age
      <4>5. Within(Append(k, 0), w) = Append(Within(k, w), 0) /\ Aged(Append(k, 0))
        BY <4>2, <4>3, WithinAppend
      <4>6. Within(Append(g, 0), w) = Append(k, 0) /\ Aged(Append(g, 0))
        BY <4>2, WithinAppend
      <4>7. Within(k, w) = k
        BY <4>2, WithinWithin DEF k
      <4>8. Len(Append(k, 0)) <= Allowed[c]
        BY <4>1, <4>2, <4>3, <4>4
      <4> QED
        BY <3>2, <4>1, <4>4, <4>5, <4>6, <4>7, <4>8 DEF Aged, w
    <3> QED
      BY <3>1, <3>2
  <2> QED
    BY <1>p, <2>1, <2>2
<1>3. ASSUME NEW c \in Caller, Refuse(c) PROVE LimiterInv'
  <2>1. buckets' = [d \in Caller |-> buckets'[d]] /\ granted' = [d \in Caller |-> granted'[d]]
    BY <1>0, <1>3 DEF Refuse, LimiterTypeOK
  <2>2. ASSUME NEW d \in Caller
        PROVE  /\ buckets'[d] \in Seq(Age) /\ granted'[d] \in Seq(0 .. Hour)
               /\ OldestFirst(buckets'[d]) /\ OldestFirst(granted'[d])
               /\ Within(buckets'[d], Window[d]) = Within(granted'[d], Window[d])
               /\ Len(Within(granted'[d], Window[d])) <= Allowed[d]
    <3>1. CASE d # c
      <4>1. buckets'[d] = buckets[d] /\ granted'[d] = granted[d]
        BY <1>0, <1>3, <3>1 DEF Refuse, LimiterTypeOK
      <4> QED
        BY <1>c, <4>1
    <3>2. CASE d = c
      <4>1. buckets'[c] = Within(buckets[c], Window[c]) /\ granted'[c] = granted[c]
        BY <1>0, <1>3 DEF Refuse, LimiterTypeOK, Kept
      <4>2. /\ Within(buckets[c], Window[c]) \in Seq(Age)
            /\ OldestFirst(Within(buckets[c], Window[c]))
        BY <1>0, <1>c, WithinTyped DEF Aged
      <4>3. Within(Within(buckets[c], Window[c]), Window[c]) = Within(buckets[c], Window[c])
        BY <1>c, WithinWithin
      <4> QED
        BY <1>c, <3>2, <4>1, <4>2, <4>3
    <3> QED
      BY <3>1, <3>2
  <2> QED
    BY <1>p, <2>1, <2>2
<1>4. CASE Clean
  <2>1. buckets' = [d \in Caller |-> buckets'[d]] /\ granted' = [d \in Caller |-> granted'[d]]
    BY <1>0, <1>4 DEF Clean, LimiterTypeOK
  <2>2. ASSUME NEW d \in Caller
        PROVE  /\ buckets'[d] \in Seq(Age) /\ granted'[d] \in Seq(0 .. Hour)
               /\ OldestFirst(buckets'[d]) /\ OldestFirst(granted'[d])
               /\ Within(buckets'[d], Window[d]) = Within(granted'[d], Window[d])
               /\ Len(Within(granted'[d], Window[d])) <= Allowed[d]
    <3>1. CASE ~Finished(buckets[d])
      <4>1. buckets'[d] = buckets[d] /\ granted'[d] = granted[d]
        BY <1>4, <3>1 DEF Clean
      <4> QED
        BY <1>c, <4>1
    <3>2. CASE Finished(buckets[d])
      <4>1. buckets'[d] = <<>> /\ granted'[d] = granted[d]
        BY <1>4, <3>2 DEF Clean
      <4>2. buckets[d] = <<>> \/ buckets[d][Len(buckets[d])] >= Window[d]
        <5>1. buckets[d] # <<>> => Len(buckets[d]) \in 1 .. Len(buckets[d])
          BY <1>c
        <5>2. buckets[d] # <<>> => buckets[d][Len(buckets[d])] \in Nat
          BY <1>c, <5>1 DEF Aged
        <5> QED
          BY <1>0, <1>c, <3>2, <5>2 DEF Finished, Last
      <4>3. Within(buckets[d], Window[d]) = <<>>
        BY <1>c, <4>2, NoneWithin
      <4>4. OldestFirst(<<>>) /\ Aged(<<>>) /\ <<>> \in Seq(Age)
        BY DEF OldestFirst, Aged
      <4>5. Within(<<>>, Window[d]) = <<>>
        BY <1>c, <4>4, NoneWithin
      <4> QED
        BY <1>c, <4>1, <4>3, <4>4, <4>5
    <3> QED
      BY <3>1, <3>2
  <2> QED
    BY <1>p, <2>1, <2>2
<1>5. CASE UNCHANGED limiterVars
  <2>1. buckets' = buckets /\ granted' = granted
    BY <1>5 DEF limiterVars
  <2> QED
    BY <2>1 DEF LimiterInv, LimiterTypeOK, AtMostAllowed
<1> QED
  BY <1>1, <1>2, <1>3, <1>4, <1>5 DEF LimiterNext

-----------------------------------------------------------------------------

\* rateLimiter.allow, newRateLimiter: for any keys, limits and windows up to the hour, no
\* window sees more attempts than allowed, and neither the filter, a refusal nor the cleaner
\* forgets one that still counts.
THEOREM LimiterKeepsItsWord == LimiterSpec => [](LimiterTypeOK /\ AtMostAllowed)
<1>1. LimiterInv => LimiterTypeOK /\ AtMostAllowed
  BY DEF LimiterInv
<1> QED
  BY <1>1, LimiterInvInit, LimiterInvStep, PTL DEF LimiterSpec

-----------------------------------------------------------------------------
(* Steps from 0 to a bound, and what they define *)

\* Induction, over a set of numbers instead of a predicate.
LEMMA StepByStep ==
  ASSUME NEW T, NEW a \in Int, NEW b \in Int, a <= b, a \in T,
         \A n \in a .. b : n \in T /\ n < b => n + 1 \in T
  PROVE  \A n \in a .. b : n \in T
<1> DEFINE Bad == {k \in Nat : a + k <= b /\ a + k \notin T}
<1> SUFFICES ASSUME NEW n \in a .. b, n \notin T PROVE FALSE
  OBVIOUS
<1>1. n - a \in Bad /\ Bad \subseteq Nat
  BY a + (n - a) = n
<1>2. PICK k \in Bad : \A j \in Bad : k <= j
  BY <1>1, LeastNumber
<1>3. k \in Nat /\ a + k <= b /\ a + k \notin T /\ k # 0
  OBVIOUS
<1>4. k - 1 \in Nat /\ a + (k - 1) \in a .. b /\ a + (k - 1) < b /\ (a + (k - 1)) + 1 = a + k
  BY <1>3
<1>5. a + (k - 1) \notin T
  BY <1>3, <1>4
<1>6. k - 1 \in Bad
  BY <1>4, <1>5
<1> HIDE DEF Bad
<1> QED
  BY <1>2, <1>3, <1>6

\* A step for each number and value so far defines its values, and them only.
Stepping(V, base, m, step) == base \in V /\ m \in Nat /\ step \in [1 .. m -> [V -> V]]
Defines(f, V, base, m, step) ==
  f \in [0 .. m -> V] /\ f[0] = base /\ \A k \in 1 .. m : f[k] = step[k][f[k - 1]]

LEMMA StepsDefine ==
  ASSUME NEW V, NEW base, NEW m, NEW step, Stepping(V, base, m, step)
  PROVE  \E f : Defines(f, V, base, m, step)
<1>0. base \in V /\ m \in Nat /\ step \in [1 .. m -> [V -> V]]
  BY DEF Stepping
<1> SUFFICES \E f \in [0 .. m -> V] : f[0] = base /\ \A k \in 1 .. m : f[k] = step[k][f[k - 1]]
  BY DEF Defines
<1> DEFINE Upto(n) == {f \in [0 .. n -> V] : f[0] = base /\ \A k \in 1 .. n : f[k] = step[k][f[k - 1]]}
           T == {n \in 0 .. m : Upto(n) # {}}
<1>1. 0 \in T
  <2>1. [i \in 0 .. 0 |-> base] \in Upto(0)
    BY <1>0
  <2> QED
    BY <1>0, <2>1
<1>2. ASSUME NEW n \in 0 .. m, n \in T, n < m PROVE n + 1 \in T
  <2>1. PICK f \in Upto(n) : TRUE
    BY <1>2
  <2> DEFINE g == [i \in 0 .. n + 1 |-> IF i = n + 1 THEN step[n + 1][f[n]] ELSE f[i]]
  <2>2. f[n] \in V /\ n + 1 \in 1 .. m
    BY <1>0, <1>2
  <2>3. step[n + 1][f[n]] \in V
    BY <1>0, <2>2
  <2>4. g \in [0 .. n + 1 -> V]
    BY <2>3
  <2>5. g[0] = base /\ \A k \in 1 .. n + 1 : g[k] = step[k][g[k - 1]]
    <3>1. g[0] = base
      OBVIOUS
    <3>2. ASSUME NEW k \in 1 .. n PROVE g[k] = step[k][g[k - 1]]
      <4>1. g[k] = f[k] /\ g[k - 1] = f[k - 1]
        OBVIOUS
      <4> QED
        BY <4>1
    <3>3. g[n + 1] = step[n + 1][g[(n + 1) - 1]]
      BY (n + 1) - 1 = n
    <3>4. \A k \in 1 .. n + 1 : k \in 1 .. n \/ k = n + 1
      OBVIOUS
    <3> HIDE DEF g
    <3> QED
      BY <3>1, <3>2, <3>3, <3>4
  <2> HIDE DEF g
  <2>6. g \in Upto(n + 1) /\ n + 1 \in 0 .. m
    BY <1>0, <1>2, <2>4, <2>5
  <2> QED
    BY <2>6
<1> HIDE DEF T
<1>3. /\ 0 \in Int /\ m \in Int /\ 0 <= m /\ m \in 0 .. m
      /\ \A n \in 0 .. m : n \in T /\ n < m => n + 1 \in T
  BY <1>0, <1>2
<1>4. m \in T
  BY <1>1, <1>3, StepByStep
<1> USE DEF T
<1> QED
  BY <1>4

-----------------------------------------------------------------------------
(* Sequences joined *)

\* What FlattenSeq has after each sequence.
Joins(f, s, B) ==
  /\ f \in [0 .. Len(s) -> Seq(B)]
  /\ f[0] = <<>> /\ \A k \in 1 .. Len(s) : f[k] = f[k - 1] \o s[k]

LEMMA JoinsExist ==
  ASSUME NEW B, NEW s \in Seq(Seq(B))
  PROVE  \E f : Joins(f, s, B)
<1> DEFINE n == Len(s)
           step == [k \in 1 .. n |-> [t \in Seq(B) |-> t \o s[k]]]
<1>1. n \in Nat /\ <<>> \in Seq(B) /\ \A k \in 1 .. n : s[k] \in Seq(B)
  OBVIOUS
<1> HIDE DEF n
<1>2. step \in [1 .. n -> [Seq(B) -> Seq(B)]]
  BY <1>1
<1>3. PICK f \in [0 .. n -> Seq(B)] : f[0] = <<>> /\ \A k \in 1 .. n : f[k] = step[k][f[k - 1]]
  <2>1. Stepping(Seq(B), <<>>, n, step)
    BY <1>1, <1>2, Zenon DEF Stepping
  <2>2. PICK f : Defines(f, Seq(B), <<>>, n, step)
    BY <2>1, StepsDefine
  <2> QED
    BY <2>2, Zenon DEF Defines
<1>4. ASSUME NEW k \in 1 .. n PROVE f[k] = f[k - 1] \o s[k]
  <2>1. k - 1 \in 0 .. n
    BY <1>1
  <2>2. f[k - 1] \in Seq(B)
    BY <2>1
  <2>3. step[k][f[k - 1]] = f[k - 1] \o s[k]
    BY <2>2
  <2> QED
    BY <1>3, <2>3
<1> QED
  BY <1>3, <1>4 DEF Joins, n

LEMMA JoinsFlatten ==
  ASSUME NEW B, NEW s \in Seq(Seq(B)), NEW f, Joins(f, s, B)
  PROVE  FlattenSeq(s) = f[Len(s)]
<1> DEFINE n == Len(s)
<1>a. n \in Nat /\ \A k \in 1 .. n : s[k] \in Seq(B)
  OBVIOUS
<1>b. f \in [0 .. n -> Seq(B)] /\ f[0] = <<>> /\ \A k \in 1 .. n : f[k] = f[k - 1] \o s[k]
  BY Zenon DEF Joins
<1>0. /\ n \in Nat /\ \A k \in 1 .. n : s[k] \in Seq(B)
      /\ f \in [0 .. n -> Seq(B)] /\ f[0] = <<>> /\ \A k \in 1 .. n : f[k] = f[k - 1] \o s[k]
  BY <1>a, <1>b, Zenon
<1>1. CASE n = 0
  <2>1. s = <<>>
    BY <1>1
  <2> QED
    BY <1>0, <1>1, <2>1 DEF FlattenSeq
<1>2. CASE n > 0
  <2> DEFINE h == CHOOSE g : g = [i \in 1 .. n |-> IF i = 1 THEN s[i] ELSE g[i - 1] \o s[i]]
             fs == [i \in 1 .. n |-> f[i]]
  <2>1. FlattenSeq(s) = h[n]
    BY <1>2 DEF FlattenSeq
  <2> HIDE DEF n
  <2>2. ASSUME NEW i \in 1 .. n PROVE f[i] = IF i = 1 THEN s[i] ELSE f[i - 1] \o s[i]
    <3>1. s[i] \in Seq(B) /\ f[i] = f[i - 1] \o s[i]
      BY <1>0
    <3>2. <<>> \o s[i] = s[i]
      BY <3>1
    <3>3. i = 1 => f[i - 1] = <<>>
      BY <1>0
    <3> QED
      BY <3>1, <3>2, <3>3
  <2>3. ASSUME NEW i \in 1 .. n, i # 1 PROVE fs[i - 1] = f[i - 1]
    BY <1>0, <2>3
  <2>4. fs = [i \in 1 .. n |-> IF i = 1 THEN s[i] ELSE fs[i - 1] \o s[i]]
    BY <2>2, <2>3
  <2>5. h = [i \in 1 .. n |-> IF i = 1 THEN s[i] ELSE h[i - 1] \o s[i]]
    <3> HIDE DEF fs
    <3> QED
      BY <2>4
  <2> DEFINE T == {k \in 1 .. n : h[k] = f[k]}
  <2> HIDE DEF h
  <2>6. 1 \in T
    <3>1. 1 \in 1 .. n
      BY <1>0, <1>2
    <3> QED
      BY <2>2, <2>5, <3>1
  <2>7. ASSUME NEW k \in 1 .. n, k \in T, k < n PROVE k + 1 \in T
    <3>1. k + 1 \in 1 .. n /\ k + 1 # 1 /\ (k + 1) - 1 = k
      BY <1>0, <2>7
    <3>2. h[k + 1] = h[k] \o s[k + 1] /\ f[k + 1] = f[k] \o s[k + 1]
      BY <1>0, <2>5, <3>1
    <3> QED
      BY <2>7, <3>1, <3>2
  <2>8. 1 \in Int /\ n \in Int /\ 1 <= n /\ n \in 1 .. n
    BY <1>0, <1>2
  <2> HIDE DEF T
  <2>9. n \in T
    BY <2>6, <2>7, <2>8, StepByStep
  <2> USE DEF T
  <2> QED
    BY <2>1, <2>9 DEF n
<1> QED
  BY <1>0, <1>1, <1>2

\* Where each of them lies in what is joined, by its number and the one before it.
Joined(f, s, B, n) ==
  /\ n \in Nat
  /\ \A k \in 0 .. n : f[k] \in Seq(B) /\ Len(f[k]) \in Nat
  /\ \A k \in 1 .. n : \A j \in 0 .. n : j + 1 = k =>
       /\ s[k] \in Seq(B) /\ Len(s[k]) \in Nat
       /\ f[k] = f[j] \o s[k] /\ Len(f[k]) = Len(f[j]) + Len(s[k])
       /\ \A p \in 1 .. Len(f[j]) : f[k][p] = f[j][p]
       /\ \A p \in 1 .. Len(s[k]) : f[k][Len(f[j]) + p] = s[k][p]

LEMMA JoinsFacts ==
  ASSUME NEW B, NEW s \in Seq(Seq(B)), NEW f, Joins(f, s, B)
  PROVE  Joined(f, s, B, Len(s))
<1> DEFINE n == Len(s)
<1>1. n \in Nat /\ \A k \in 1 .. n : s[k] \in Seq(B)
  OBVIOUS
<1>2. f \in [0 .. n -> Seq(B)] /\ \A k \in 1 .. n : f[k] = f[k - 1] \o s[k]
  BY Zenon DEF Joins
<1> HIDE DEF n
<1>3. ASSUME NEW k \in 0 .. n PROVE f[k] \in Seq(B) /\ Len(f[k]) \in Nat
  <2>1. f[k] \in Seq(B)
    BY <1>2
  <2> QED
    BY <2>1, LenProperties
<1>4. ASSUME NEW k \in 1 .. n, NEW j \in 0 .. n, j + 1 = k
      PROVE  /\ s[k] \in Seq(B) /\ Len(s[k]) \in Nat
             /\ f[k] = f[j] \o s[k] /\ Len(f[k]) = Len(f[j]) + Len(s[k])
             /\ \A p \in 1 .. Len(f[j]) : f[k][p] = f[j][p]
             /\ \A p \in 1 .. Len(s[k]) : f[k][Len(f[j]) + p] = s[k][p]
  <2>1. k - 1 = j
    BY <1>1, <1>4
  <2>2. PICK u, v : u = f[j] /\ v = s[k]
    OBVIOUS
  <2>3. u \in Seq(B) /\ v \in Seq(B) /\ f[k] = u \o v
    BY <1>1, <1>2, <1>3, <2>1, <2>2
  <2>4. /\ Len(u) \in Nat /\ Len(v) \in Nat /\ Len(u \o v) = Len(u) + Len(v)
        /\ \A p \in 1 .. Len(u) : (u \o v)[p] = u[p]
        /\ \A p \in 1 .. Len(v) : (u \o v)[Len(u) + p] = v[p]
    BY <2>3
  <2> QED
    BY <2>2, <2>3, <2>4
<1> QED
  BY <1>1, <1>3, <1>4 DEF n, Joined

LEMMA FlattenTyped ==
  ASSUME NEW B, NEW s \in Seq(Seq(B))
  PROVE  FlattenSeq(s) \in Seq(B)
<1>1. PICK f : Joins(f, s, B)
  BY JoinsExist
<1>2. Len(s) \in 0 .. Len(s) /\ f \in [0 .. Len(s) -> Seq(B)]
  BY <1>1 DEF Joins
<1>3. f[Len(s)] \in Seq(B)
  BY <1>2
<1> QED
  BY <1>1, <1>3, JoinsFlatten

\* What is joined up to a sequence is the joining of those up to it.
LEMMA JoinsPrefix ==
  ASSUME NEW B, NEW s \in Seq(Seq(B)), NEW f, Joins(f, s, B), NEW t \in Seq(Seq(B)),
         Len(t) <= Len(s), \A k \in 1 .. Len(t) : t[k] = s[k]
  PROVE  FlattenSeq(t) = f[Len(t)]
<1>0. Len(s) \in Nat /\ Len(t) \in Nat
  OBVIOUS
<1> DEFINE g == [k \in 0 .. Len(t) |-> f[k]]
<1>1. \A k \in 0 .. Len(t) : k \in 0 .. Len(s)
  BY <1>0
<1>2. g \in [0 .. Len(t) -> Seq(B)] /\ g[0] = <<>>
  BY <1>0, <1>1 DEF Joins
<1>3. ASSUME NEW k \in 1 .. Len(t) PROVE g[k] = g[k - 1] \o t[k]
  <2>1. k \in 1 .. Len(s) /\ k \in 0 .. Len(t) /\ k - 1 \in 0 .. Len(t)
    BY <1>0
  <2>2. f[k] = f[k - 1] \o s[k] /\ t[k] = s[k]
    BY <2>1 DEF Joins
  <2> QED
    BY <2>1, <2>2
<1>4. Joins(g, t, B)
  BY <1>2, <1>3 DEF Joins
<1>5. Len(t) \in 0 .. Len(t)
  BY <1>0
<1>6. FlattenSeq(t) = g[Len(t)]
  <2> HIDE DEF g
  <2> QED
    BY <1>4, JoinsFlatten
<1> QED
  BY <1>5, <1>6

LEMMA FlattenEmpty == FlattenSeq(<<>>) = <<>>
  BY DEF FlattenSeq

LEMMA FlattenAppend ==
  ASSUME NEW B, NEW s \in Seq(Seq(B)), NEW x \in Seq(B)
  PROVE  FlattenSeq(Append(s, x)) = FlattenSeq(s) \o x
<1> DEFINE t == Append(s, x)
           n == Len(s)
<1>1. /\ t \in Seq(Seq(B)) /\ Len(t) = n + 1 /\ t[n + 1] = x /\ n \in Nat
      /\ \A k \in 1 .. n : t[k] = s[k]
  BY AppendProperties
<1> HIDE DEF t
<1>2. PICK f : Joins(f, t, B)
  BY <1>1, JoinsExist
<1>3. FlattenSeq(t) = f[n + 1]
  BY <1>1, <1>2, JoinsFlatten
<1>4. FlattenSeq(s) = f[n]
  <2>1. Len(s) <= Len(t) /\ \A k \in 1 .. Len(s) : s[k] = t[k]
    BY <1>1
  <2> HIDE DEF n
  <2>2. FlattenSeq(s) = f[Len(s)]
    BY <1>1, <1>2, <2>1, JoinsPrefix
  <2> QED
    BY <2>2 DEF n
<1>5. f[n + 1] = f[n] \o t[n + 1]
  <2>1. n + 1 \in 1 .. Len(t) /\ (n + 1) - 1 = n
    BY <1>1
  <2> HIDE DEF n
  <2> QED
    BY <1>2, <2>1 DEF Joins
<1> QED
  BY <1>1, <1>3, <1>4, <1>5 DEF t

\* What has been joined stays where it is.
Begins(u, t) == Len(t) <= Len(u) /\ \A p \in 1 .. Len(t) : u[p] = t[p]

LEMMA JoinsGrow ==
  ASSUME NEW B, NEW s, NEW f, NEW n, Joined(f, s, B, n), NEW i \in 0 .. n, NEW j \in i .. n
  PROVE  Begins(f[j], f[i])
<1> DEFINE T == {k \in i .. n : Begins(f[k], f[i])}
<1>0. n \in Nat /\ Len(f[i]) \in Nat
  BY DEF Joined
<1>1. i \in T
  BY <1>0 DEF Begins
<1>2. ASSUME NEW k \in i .. n, k \in T, k < n PROVE k + 1 \in T
  <2>1. k + 1 \in 1 .. n /\ k \in 0 .. n /\ k + 1 \in i .. n
    BY <1>0, <1>2
  <2>2. PICK x, y, z, u, v, w : /\ x = f[i] /\ y = f[k] /\ z = f[k + 1]
                                /\ u = Len(x) /\ v = Len(y) /\ w = Len(s[k + 1])
    OBVIOUS
  <2>3. /\ Len(z) = v + w /\ v \in Nat /\ w \in Nat /\ u \in Nat
        /\ \A p \in 1 .. v : z[p] = y[p]
    BY <1>0, <2>1, <2>2 DEF Joined
  <2>4. u <= v /\ \A p \in 1 .. u : y[p] = x[p]
    BY <1>2, <2>2 DEF Begins
  <2>5. u <= v + w /\ \A p \in 1 .. u : p \in 1 .. v
    BY <2>3, <2>4
  <2>6. \A p \in 1 .. u : z[p] = x[p]
    BY <2>3, <2>4, <2>5
  <2>7. Begins(z, x)
    BY <2>2, <2>3, <2>5, <2>6 DEF Begins
  <2> QED
    BY <2>1, <2>2, <2>7
<1>3. i \in Int /\ n \in Int /\ i <= n
  BY <1>0
<1> HIDE DEF T
<1>4. j \in T
  BY <1>1, <1>2, <1>3, StepByStep
<1> USE DEF T
<1> QED
  BY <1>4

-----------------------------------------------------------------------------
(* The runs of a paragraph in its text *)

\* Where run i lies: its bytes are those of the text from Start to End.
LEMMA RunsLie ==
  ASSUME NEW n \in Nat, NEW rs \in [1 .. n -> Seq(Byte)], NEW i \in 1 .. n
  PROVE  /\ Text(rs) \in Seq(Byte)
         /\ Start(rs, i) \in Nat /\ End(rs, i) \in Nat /\ Start(rs, i) <= End(rs, i)
         /\ End(rs, i) = Start(rs, i) + Len(rs[i]) /\ End(rs, i) <= Len(Text(rs))
         /\ \A k \in 1 .. Len(rs[i]) : Text(rs)[Start(rs, i) + k] = rs[i][k]
         /\ i = 1 => Start(rs, i) = 0
         /\ \A j \in 1 .. n : j + 1 = i => End(rs, j) = Start(rs, i)
         /\ \A j \in 1 .. n : j < i => End(rs, j) <= Start(rs, i)
<1>0. rs \in Seq(Seq(Byte)) /\ Len(rs) = n
  OBVIOUS
<1>1. PICK f : Joins(f, rs, Byte)
  BY <1>0, JoinsExist
<1>2. Joined(f, rs, Byte, n)
  BY <1>0, <1>1, JoinsFacts
<1>3. Text(rs) = f[n] /\ Len(f[0]) = 0
  <2>1. f[0] = <<>>
    BY <1>1, Zenon DEF Joins
  <2> QED
    BY <1>0, <1>1, <2>1, JoinsFlatten DEF Text
<1>4. ASSUME NEW j \in 1 .. n PROVE Start(rs, j) = Len(f[j - 1]) /\ End(rs, j) = Len(f[j])
  <2> DEFINE t == SubSeq(rs, 1, j - 1)
  <2>1. t \in Seq(Seq(Byte)) /\ Len(t) = j - 1 /\ \A k \in 1 .. j - 1 : t[k] = rs[k]
    <3>1. 1 \in Int /\ j - 1 \in Int /\ \A k \in 1 .. j - 1 : rs[k] \in Seq(Byte)
      OBVIOUS
    <3> QED
      BY <3>1, SubSeqProperties
  <2> HIDE DEF t
  <2>3. f[j - 1] \in Seq(Byte) /\ j - 1 \in 0 .. n
    BY <1>2 DEF Joined
  <2>4. Len(f[j]) = Len(f[j - 1]) + Len(rs[j])
    BY <1>2, <2>3 DEF Joined
  <2>2. FlattenSeq(t) = f[j - 1]
    <3>1. Len(t) <= Len(rs) /\ \A k \in 1 .. Len(t) : t[k] = rs[k]
      BY <1>0, <2>1
    <3>2. FlattenSeq(t) = f[Len(t)]
      BY <1>0, <1>1, <2>1, <3>1, JoinsPrefix
    <3> QED
      BY <2>1, <3>2
  <2> QED
    BY <1>2, <2>2, <2>3, <2>4 DEF Start, End, t
<1>5. ASSUME NEW j \in 0 .. n, NEW k \in j .. n
      PROVE  Begins(f[k], f[j])
  BY <1>2, JoinsGrow
<1>6. i \in 0 .. n /\ i - 1 \in 0 .. n /\ n \in i .. n /\ n \in 0 .. n
  OBVIOUS
<1>7. /\ Len(f[i]) = Len(f[i - 1]) + Len(rs[i]) /\ Len(f[i - 1]) \in Nat /\ Len(rs[i]) \in Nat
      /\ Len(f[i]) \in Nat /\ f[n] \in Seq(Byte)
      /\ \A k \in 1 .. Len(rs[i]) : f[i][Len(f[i - 1]) + k] = rs[i][k]
  BY <1>2, <1>6 DEF Joined
<1>8. ASSUME NEW k \in 1 .. Len(rs[i]) PROVE f[n][Len(f[i - 1]) + k] = rs[i][k]
  <2>1. Len(f[i - 1]) + k \in 1 .. Len(f[i])
    BY <1>7
  <2>2. f[n][Len(f[i - 1]) + k] = f[i][Len(f[i - 1]) + k]
    BY <1>5, <1>6, <2>1 DEF Begins
  <2> QED
    BY <1>7, <2>2
<1>9. Len(f[i]) <= Len(f[n])
  BY <1>5, <1>6 DEF Begins
<1>10. ASSUME NEW j \in 1 .. n, j < i PROVE Len(f[j]) <= Len(f[i - 1])
  <2>1. j \in 0 .. n /\ i - 1 \in j .. n
    BY <1>10
  <2> QED
    BY <1>5, <2>1 DEF Begins
<1>11. i = 1 => Len(f[i - 1]) = 0
  BY <1>3
<1>12. ASSUME NEW j \in 1 .. n, j + 1 = i PROVE Len(f[j]) = Len(f[i - 1])
  BY <1>12
<1>13. PICK T, a, b : T = Text(rs) /\ a = Start(rs, i) /\ b = End(rs, i)
  OBVIOUS
<1>14. T = f[n] /\ a = Len(f[i - 1]) /\ b = Len(f[i])
  BY <1>3, <1>4, <1>13
<1>15. T \in Seq(Byte) /\ a \in Nat /\ b \in Nat /\ a <= b /\ b = a + Len(rs[i]) /\ b <= Len(T)
  BY <1>7, <1>9, <1>14
<1>16. \A k \in 1 .. Len(rs[i]) : T[a + k] = rs[i][k]
  BY <1>8, <1>14
<1>17. i = 1 => a = 0
  BY <1>11, <1>14
<1>18. \A j \in 1 .. n : (j + 1 = i => End(rs, j) = a) /\ (j < i => End(rs, j) <= a)
  BY <1>4, <1>10, <1>12, <1>14
<1> QED
  BY <1>13, <1>15, <1>16, <1>17, <1>18

-----------------------------------------------------------------------------
(* The reference *)

\* What a byte becomes.
Becomes(text, k) == IF k \in Found(text) THEN <<Value>>
                    ELSE IF k - 1 \in Found(text) \/ k - 2 \in Found(text) THEN <<>> ELSE <<text[k]>>

Becoming(text, a, c) == [k \in 1 .. c - a |-> Becomes(text, a + k)]

LEMMA PlacedIs ==
  ASSUME NEW text, NEW a, NEW c
  PROVE  PlacedBytes(text, a, c) = FlattenSeq(Becoming(text, a, c))
BY DEF PlacedBytes, Becoming, Becomes, Found

LEMMA BecomesTyped ==
  ASSUME NEW text \in Seq(Byte), NEW k \in 1 .. Len(text)
  PROVE  Becomes(text, k) \in Seq(Byte)
<1>1. text[k] \in Byte /\ Value \in Byte
  <2>1. text[k] \in Byte
    OBVIOUS
  <2> QED
    BY <2>1 DEF Byte
<1>2. <<>> \in Seq(Byte) /\ <<Value>> \in Seq(Byte) /\ <<text[k]>> \in Seq(Byte)
  <2> HIDE DEF Byte
  <2> QED
    BY <1>1
<1> QED
  BY <1>2 DEF Becomes

LEMMA BecomingTyped ==
  ASSUME NEW text \in Seq(Byte), NEW a \in Nat, NEW c \in a .. Len(text)
  PROVE  Becoming(text, a, c) \in Seq(Seq(Byte)) /\ Len(Becoming(text, a, c)) = c - a
<1>1. c - a \in Nat /\ \A k \in 1 .. c - a : a + k \in 1 .. Len(text)
  OBVIOUS
<1>2. \A k \in 1 .. c - a : Becomes(text, a + k) \in Seq(Byte)
  BY <1>1, BecomesTyped
<1> QED
  BY <1>1, <1>2 DEF Becoming

LEMMA PlacedTyped ==
  ASSUME NEW text \in Seq(Byte), NEW a \in Nat, NEW c \in a .. Len(text)
  PROVE  PlacedBytes(text, a, c) \in Seq(Byte)
BY PlacedIs, BecomingTyped, FlattenTyped

LEMMA PlacedNone ==
  ASSUME NEW text \in Seq(Byte), NEW a \in 0 .. Len(text)
  PROVE  PlacedBytes(text, a, a) = <<>>
<1>1. a \in Nat /\ a \in a .. Len(text) /\ a - a = 0
  OBVIOUS
<1>2. Becoming(text, a, a) = <<>>
  BY <1>1 DEF Becoming
<1> QED
  BY <1>2, PlacedIs, FlattenEmpty

\* One byte more.
LEMMA PlacedMore ==
  ASSUME NEW text \in Seq(Byte), NEW a \in Nat, NEW c \in a .. Len(text), c < Len(text)
  PROVE  PlacedBytes(text, a, c + 1) = PlacedBytes(text, a, c) \o Becomes(text, c + 1)
<1> DEFINE s == Becoming(text, a, c)
           x == Becomes(text, c + 1)
<1>1. s \in Seq(Seq(Byte)) /\ Len(s) = c - a /\ c - a \in Nat
  BY BecomingTyped
<1>2. x \in Seq(Byte)
  BY BecomesTyped
<1>3. Becoming(text, a, c + 1) = Append(s, x)
  <2>1. (c + 1) - a = (c - a) + 1 /\ a + ((c - a) + 1) = c + 1 /\ c + 1 \in a .. Len(text)
    OBVIOUS
  <2> DEFINE t == Becoming(text, a, c + 1)
             u == Append(s, x)
  <2>2. t \in Seq(Seq(Byte)) /\ Len(t) = (c - a) + 1
    BY <2>1, BecomingTyped
  <2>3. /\ u \in Seq(Seq(Byte)) /\ Len(u) = (c - a) + 1
        /\ \A k \in 1 .. c - a : u[k] = s[k]
        /\ u[(c - a) + 1] = x
    <3> HIDE DEF s, x
    <3> QED
      BY <1>1, <1>2, AppendProperties
  <2>4. ASSUME NEW k \in 1 .. (c - a) + 1 PROVE t[k] = u[k]
    <3>1. k # (c - a) + 1 => k \in 1 .. c - a
      OBVIOUS
    <3>2. t[k] = Becomes(text, a + k)
      BY <2>1 DEF Becoming
    <3>3. k \in 1 .. c - a => s[k] = Becomes(text, a + k)
      BY DEF Becoming
    <3> HIDE DEF t, u, s
    <3> QED
      BY <2>1, <2>3, <3>1, <3>2, <3>3
  <2> HIDE DEF t, u
  <2>5. t = u
    BY <2>2, <2>3, <2>4, SeqEqual
  <2> QED
    BY <2>5 DEF t, u
<1> HIDE DEF s, x
<1>4. FlattenSeq(Append(s, x)) = FlattenSeq(s) \o x
  BY <1>1, <1>2, FlattenAppend
<1> QED
  BY <1>3, <1>4, PlacedIs DEF s, x

LEMMA PlacedOne ==
  ASSUME NEW text \in Seq(Byte), NEW c \in 0 .. Len(text), c < Len(text)
  PROVE  PlacedBytes(text, c, c + 1) = Becomes(text, c + 1)
<1>1. c \in Nat /\ c \in c .. Len(text) /\ c + 1 \in 1 .. Len(text)
  OBVIOUS
<1>2. PlacedBytes(text, c, c + 1) = <<>> \o Becomes(text, c + 1)
  BY <1>1, PlacedMore, PlacedNone
<1>3. Becomes(text, c + 1) \in Seq(Byte)
  BY <1>1, BecomesTyped
<1> QED
  BY <1>2, <1>3, ConcatEmptySeq

LEMMA PlacedSplit ==
  ASSUME NEW text \in Seq(Byte), NEW a \in Nat, NEW c \in a .. Len(text), NEW d \in c .. Len(text)
  PROVE  PlacedBytes(text, a, d) = PlacedBytes(text, a, c) \o PlacedBytes(text, c, d)
<1> DEFINE P(x, y) == PlacedBytes(text, x, y)
           T == {y \in c .. Len(text) : P(a, y) = P(a, c) \o P(c, y)}
<1>0. /\ c \in Nat /\ c \in Int /\ Len(text) \in Nat /\ Len(text) \in Int /\ c <= Len(text)
      /\ P(a, c) \in Seq(Byte) /\ c \in 0 .. Len(text)
  BY PlacedTyped
<1>1. c \in T
  <2>1. P(c, c) = <<>>
    BY <1>0, PlacedNone
  <2>2. P(a, c) \o <<>> = P(a, c)
    BY <1>0, ConcatEmptySeq
  <2> QED
    BY <1>0, <2>1, <2>2
<1>2. ASSUME NEW y \in c .. Len(text), y \in T, y < Len(text) PROVE y + 1 \in T
  <2>1. y \in Nat /\ y \in a .. Len(text) /\ y + 1 \in 1 .. Len(text) /\ y + 1 \in c .. Len(text)
    BY <1>0, <1>2
  <2>2. P(a, y) = P(a, c) \o P(c, y)
    BY <1>2
  <2>3. P(a, y + 1) = P(a, y) \o Becomes(text, y + 1) /\ P(c, y + 1) = P(c, y) \o Becomes(text, y + 1)
    BY <1>0, <1>2, <2>1, PlacedMore
  <2>4. P(c, y) \in Seq(Byte) /\ Becomes(text, y + 1) \in Seq(Byte)
    BY <1>0, <2>1, PlacedTyped, BecomesTyped
  <2> HIDE DEF P
  <2>5. PICK u, v, w : u = P(a, c) /\ v = P(c, y) /\ w = Becomes(text, y + 1)
    OBVIOUS
  <2>6. (u \o v) \o w = u \o (v \o w)
    <3>1. u \in Seq(Byte) /\ v \in Seq(Byte) /\ w \in Seq(Byte)
      BY <1>0, <2>4, <2>5
    <3> QED
      BY <3>1, ConcatAssociative
  <2> QED
    BY <2>1, <2>2, <2>3, <2>5, <2>6
<1> HIDE DEF T
<1>3. d \in T
  BY <1>0, <1>1, <1>2, StepByStep
<1> USE DEF T
<1> QED
  BY <1>3

\* No two placeholders share a byte.
LEMMA FoundApart ==
  ASSUME NEW text \in Seq(Byte), NEW f \in Found(text), NEW g \in Found(text), f < g
  PROVE  f + 3 <= g
<1>1. f \in Int /\ g \in Int
  BY DEF Found
<1>2. text[f + 1] = "key" /\ text[f + 2] = "close" /\ text[g] = "open"
  BY DEF Found
<1>3. g # f + 1 /\ g # f + 2
  BY <1>2
<1> QED
  BY <1>1, <1>3

\* What a part of a placeholder becomes.
LEMMA PlacedInside ==
  ASSUME NEW text \in Seq(Byte), NEW f \in Found(text),
         NEW a \in Nat, NEW c \in a .. Len(text), f - 1 <= a, a < c, c <= f + 2
  PROVE  PlacedBytes(text, a, c) = IF a = f - 1 THEN <<Value>> ELSE <<>>
<1>0. f \in 1 .. Len(text) /\ f + 2 <= Len(text) /\ Len(text) \in Nat
  BY DEF Found
<1>1. Becomes(text, f) = <<Value>>
  BY DEF Becomes
<1>2. ASSUME NEW k \in {f + 1, f + 2} PROVE Becomes(text, k) = <<>>
  <2>1. k \notin Found(text)
    BY <1>0, FoundApart
  <2>2. k - 1 = f \/ k - 2 = f
    BY <1>0
  <2> QED
    BY <2>1, <2>2 DEF Becomes
<1> DEFINE P(x, y) == PlacedBytes(text, x, y)
           v == IF a = f - 1 THEN <<Value>> ELSE <<>>
<1>3. v \in Seq(Byte)
  <2>1. Value \in Byte
    BY DEF Byte
  <2> QED
    BY <2>1
<1>4. a \in 0 .. Len(text) /\ a < Len(text) /\ (a + 1 = f \/ a + 1 \in {f + 1, f + 2})
  BY <1>0
<1>5. P(a, a + 1) = v
  <2>1. a + 1 = f <=> a = f - 1
    BY <1>0
  <2>2. P(a, a + 1) = Becomes(text, a + 1)
    BY <1>4, PlacedOne
  <2>3. a + 1 # f => Becomes(text, a + 1) = <<>>
    BY <1>2, <1>4
  <2> QED
    BY <1>1, <2>1, <2>2, <2>3
<1>6. ASSUME NEW y \in a + 1 .. Len(text), y < f + 2, P(a, y) = v PROVE P(a, y + 1) = v
  <2>1. y \in a .. Len(text) /\ y < Len(text) /\ y + 1 \in {f + 1, f + 2}
    BY <1>0, <1>6
  <2>2. P(a, y + 1) = P(a, y) \o Becomes(text, y + 1)
    BY <2>1, PlacedMore
  <2>3. Becomes(text, y + 1) = <<>>
    BY <1>2, <2>1
  <2> HIDE DEF P, v
  <2> QED
    BY <1>3, <1>6, <2>2, <2>3, ConcatEmptySeq
<1>7. c = a + 1 \/ c = a + 2 \/ c = a + 3
  BY <1>0
<1>8. c > a + 1 => P(a, a + 2) = v
  <2>1. c > a + 1 => a + 1 \in a + 1 .. Len(text) /\ a + 1 < f + 2 /\ (a + 1) + 1 = a + 2
    BY <1>0
  <2> HIDE DEF P, v
  <2> QED
    BY <1>5, <1>6, <2>1
<1>9. c > a + 2 => P(a, a + 3) = v
  <2>1. c > a + 2 => a + 2 \in a + 1 .. Len(text) /\ a + 2 < f + 2 /\ (a + 2) + 1 = a + 3 /\ c > a + 1
    BY <1>0
  <2> HIDE DEF P, v
  <2> QED
    BY <1>6, <1>8, <2>1
<1>10. P(a, c) = v
  <2> HIDE DEF P, v
  <2> QED
    BY <1>5, <1>7, <1>8, <1>9
<1> QED
  BY <1>10

-----------------------------------------------------------------------------
(* The edits of a run *)

LEMMA SplicedTyped ==
  ASSUME NEW cur \in Seq(Byte), NEW e, e.lo \in Nat, e.hi \in Nat, e.value \in Seq(Byte)
  PROVE  Spliced(cur, e) \in Seq(Byte)
<1>1. CASE e.lo > Len(cur) \/ e.hi > Len(cur)
  BY <1>1 DEF Spliced
<1>2. CASE ~(e.lo > Len(cur) \/ e.hi > Len(cur))
  <2> DEFINE u == SubSeq(cur, 1, e.lo)
             w == SubSeq(cur, e.hi + 1, Len(cur))
  <2>1. Spliced(cur, e) = u \o e.value \o w
    BY <1>2 DEF Spliced
  <2>2. u \in Seq(Byte) /\ w \in Seq(Byte)
    <3>1. Len(cur) \in Nat
      OBVIOUS
    <3>2. \A i \in 1 .. e.lo : cur[i] \in Byte
      BY <1>2, <3>1
    <3>3. \A i \in e.hi + 1 .. Len(cur) : cur[i] \in Byte
      BY <1>2, <3>1
    <3>4. 1 \in Int /\ e.lo \in Int /\ e.hi + 1 \in Int /\ Len(cur) \in Int
      BY <3>1
    <3> QED
      BY <3>2, <3>3, <3>4, SubSeqProperties
  <2> HIDE DEF u, w
  <2> QED
    BY <2>1, <2>2, ConcatProperties
<1> QED
  BY <1>1, <1>2

\* An edit in the part of a run that is still as it was.
LEMMA SplicedIs ==
  ASSUME NEW run \in Seq(Byte), NEW q \in Seq(Byte), NEW e, e.lo \in Nat, e.hi \in Nat,
         e.lo <= e.hi, e.hi <= Len(run), e.value \in Seq(Byte)
  PROVE  Spliced(SubSeq(run, 1, e.hi) \o q, e) = SubSeq(run, 1, e.lo) \o (e.value \o q)
<1> DEFINE lo == e.lo
           hi == e.hi
           v == e.value
           s == SubSeq(run, 1, hi)
           r == SubSeq(run, 1, lo)
           cur == s \o q
<1>0. lo \in Nat /\ hi \in Nat /\ lo <= hi /\ hi <= Len(run) /\ Len(run) \in Nat /\ v \in Seq(Byte)
  OBVIOUS
<1> HIDE DEF lo, hi, v
<1>1. /\ s \in Seq(Byte) /\ Len(s) = hi /\ \A i \in 1 .. hi : s[i] = run[i]
      /\ r \in Seq(Byte) /\ Len(r) = lo /\ \A i \in 1 .. lo : r[i] = run[i]
  <2>1. /\ \A i \in 1 .. hi : run[i] \in Byte
        /\ \A i \in 1 .. lo : run[i] \in Byte
        /\ 1 \in Int /\ lo \in Int /\ hi \in Int
    BY <1>0
  <2>2. /\ s \in Seq(Byte) /\ Len(s) = (IF 1 <= hi THEN hi - 1 + 1 ELSE 0)
        /\ \A i \in 1 .. hi - 1 + 1 : s[i] = run[1 + i - 1]
    BY <2>1, SubSeqProperties
  <2>3. /\ r \in Seq(Byte) /\ Len(r) = (IF 1 <= lo THEN lo - 1 + 1 ELSE 0)
        /\ \A i \in 1 .. lo - 1 + 1 : r[i] = run[1 + i - 1]
    BY <2>1, SubSeqProperties
  <2> HIDE DEF s, r
  <2> QED
    BY <1>0, <2>2, <2>3
<1> HIDE DEF s, r
<1>2. /\ cur \in Seq(Byte) /\ Len(cur) = hi + Len(q) /\ Len(q) \in Nat
      /\ \A i \in 1 .. hi + Len(q) : cur[i] = IF i <= hi THEN s[i] ELSE q[i - hi]
  <2>1. s \in Seq(Byte) /\ Len(s) = hi
    BY <1>1
  <2>2. /\ s \o q \in Seq(Byte) /\ Len(s \o q) = Len(s) + Len(q)
        /\ \A i \in 1 .. Len(s) + Len(q) : (s \o q)[i] = IF i <= Len(s) THEN s[i] ELSE q[i - Len(s)]
    BY <2>1, ConcatProperties
  <2> QED
    BY <2>1, <2>2
<1> HIDE DEF cur
<1>3. SubSeq(cur, 1, lo) = r
  <2> DEFINE t == SubSeq(cur, 1, lo)
  <2>1. 1 \in Int /\ lo \in Int /\ \A i \in 1 .. lo : cur[i] \in Byte
    BY <1>0, <1>2
  <2>2. /\ t \in Seq(Byte) /\ Len(t) = (IF 1 <= lo THEN lo - 1 + 1 ELSE 0)
        /\ \A i \in 1 .. lo - 1 + 1 : t[i] = cur[1 + i - 1]
    BY <2>1, SubSeqProperties
  <2> HIDE DEF t
  <2>3. Len(t) = Len(r) /\ \A i \in 1 .. Len(t) : t[i] = r[i]
    BY <1>0, <1>1, <1>2, <2>2
  <2>4. t = r
    BY <1>1, <2>2, <2>3, SeqEqual
  <2> QED
    BY <2>4 DEF t
<1>4. SubSeq(cur, hi + 1, Len(cur)) = q
  <2> DEFINE m == Len(cur)
             t == SubSeq(cur, hi + 1, m)
  <2>0. m = hi + Len(q)
    BY <1>2
  <2> HIDE DEF m
  <2>1. hi + 1 \in Int /\ m \in Int /\ \A i \in hi + 1 .. m : cur[i] \in Byte
    BY <1>0, <1>2, <2>0
  <2>2. /\ t \in Seq(Byte) /\ Len(t) = (IF hi + 1 <= m THEN m - (hi + 1) + 1 ELSE 0)
        /\ \A i \in 1 .. m - (hi + 1) + 1 : t[i] = cur[(hi + 1) + i - 1]
    BY <2>1, SubSeqProperties
  <2> HIDE DEF t
  <2>3. Len(t) = Len(q)
    BY <1>0, <1>2, <2>0, <2>2
  <2>4. ASSUME NEW i \in 1 .. Len(t) PROVE t[i] = q[i]
    <3>1. i \in 1 .. m - (hi + 1) + 1 /\ (hi + 1) + i - 1 = hi + i
      BY <1>0, <1>2, <2>0, <2>3
    <3>2. hi + i \in 1 .. hi + Len(q) /\ ~(hi + i <= hi) /\ (hi + i) - hi = i
      BY <1>0, <1>2, <2>3
    <3>3. t[i] = cur[hi + i]
      BY <2>2, <3>1
    <3> QED
      BY <1>2, <3>2, <3>3
  <2>5. t = q
    BY <2>2, <2>3, <2>4, SeqEqual
  <2> QED
    BY <2>5 DEF t, m
<1>5. Spliced(cur, e) = r \o v \o q
  <2>1. ~(lo > Len(cur) \/ hi > Len(cur))
    BY <1>0, <1>2
  <2>2. Spliced(cur, e) = SubSeq(cur, 1, lo) \o v \o SubSeq(cur, hi + 1, Len(cur))
    BY <2>1 DEF Spliced, lo, hi, v
  <2> QED
    BY <1>3, <1>4, <2>2
<1>6. (r \o v) \o q = r \o (v \o q)
  <2>1. PICK x, y, z : x = r /\ y = v /\ z = q
    OBVIOUS
  <2>2. x \in Seq(Byte) /\ y \in Seq(Byte) /\ z \in Seq(Byte)
    BY <1>0, <1>1, <2>1
  <2>3. (x \o y) \o z = x \o (y \o z)
    BY <2>2, SMTT(30)
  <2> QED
    BY <2>1, <2>3
<1> QED
  BY <1>5, <1>6 DEF cur, s, r, lo, hi, v

\* Every edit is spliced into what the ones to its right have left.
EditedBy(run, edits, after) ==
  /\ EditRun(run, edits) = after[Len(run) + 1] /\ after[0] = run
  /\ \A k \in 1 .. Len(run) + 1 :
       after[k] = IF {e \in edits : e.lo = Len(run) + 1 - k} = {} THEN after[k - 1]
                  ELSE Spliced(after[k - 1], CHOOSE e \in {e \in edits : e.lo = Len(run) + 1 - k} : TRUE)

LEMMA EditRunAfter ==
  ASSUME NEW run \in Seq(Byte), NEW edits,
         \A e \in edits : e.lo \in Nat /\ e.hi \in Nat /\ e.value \in Seq(Byte)
  PROVE  \E after \in [0 .. Len(run) + 1 -> Seq(Byte)] : EditedBy(run, edits, after)
<1> DEFINE L == Len(run)
           M == L + 1
           at(k) == {e \in edits : e.lo = L + 1 - k}
           one(k) == CHOOSE e \in at(k) : TRUE
           V == Seq(Byte)
           after == CHOOSE f : f = [k \in 0 .. M |-> IF k = 0 THEN run
                                      ELSE IF at(k) = {} THEN f[k - 1] ELSE Spliced(f[k - 1], one(k))]
<1>0. L \in Nat /\ M \in Nat /\ M = L + 1
  OBVIOUS
<1>1. EditRun(run, edits) = after[M]
  BY DEF EditRun
<1> SUFFICES after \in [0 .. M -> V] /\ after[0] = run
             /\ \A k \in 1 .. M : after[k] = IF at(k) = {} THEN after[k - 1] ELSE Spliced(after[k - 1], one(k))
  <2> HIDE DEF after
  <2>1. ASSUME after \in [0 .. M -> V], after[0] = run,
               \A k \in 1 .. M : after[k] = IF at(k) = {} THEN after[k - 1] ELSE Spliced(after[k - 1], one(k))
        PROVE  EditedBy(run, edits, after)
    BY <1>1, <2>1 DEF EditedBy
  <2> QED
    BY <2>1
<1> HIDE DEF L, M
<1>3. ASSUME NEW k \in 1 .. M, at(k) # {} PROVE one(k).lo \in Nat /\ one(k).hi \in Nat /\ one(k).value \in V
  <2>1. one(k) \in edits
    BY <1>3
  <2> QED
    BY <2>1
<1>4. after = [k \in 0 .. M |-> IF k = 0 THEN run
                 ELSE IF at(k) = {} THEN after[k - 1] ELSE Spliced(after[k - 1], one(k))]
  <2> DEFINE next(k, x) == IF at(k) = {} THEN x ELSE Spliced(x, one(k))
             step == [k \in 1 .. M |-> [x \in V |-> next(k, x)]]
  <2>1. ASSUME NEW k \in 1 .. M, NEW x \in V PROVE next(k, x) \in V
    <3>1. at(k) # {} => one(k).lo \in Nat /\ one(k).hi \in Nat /\ one(k).value \in V
      BY <1>3
    <3> HIDE DEF at, one
    <3>2. at(k) # {} => Spliced(x, one(k)) \in V
      BY <3>1, SplicedTyped
    <3> QED
      BY <3>2
  <2>2. run \in V /\ M \in Nat /\ step \in [1 .. M -> [V -> V]]
    <3> HIDE DEF V, next
    <3>1. step \in [1 .. M -> [V -> V]]
      BY <2>1
    <3> QED
      BY <1>0, <3>1 DEF V
  <2> HIDE DEF step, V, next
  <2>3. PICK g \in [0 .. M -> V] : g[0] = run /\ \A k \in 1 .. M : g[k] = step[k][g[k - 1]]
    <3>1. Stepping(V, run, M, step)
      BY <2>2, Zenon DEF Stepping
    <3>2. PICK f : Defines(f, V, run, M, step)
      BY <3>1, StepsDefine
    <3> QED
      BY <3>2, Zenon DEF Defines
  <2>4. ASSUME NEW k \in 1 .. M PROVE g[k] = next(k, g[k - 1])
    <3>1. k - 1 \in 0 .. M
      BY <1>0
    <3>2. g[k - 1] \in V
      BY <3>1
    <3>3. step[k][g[k - 1]] = next(k, g[k - 1])
      BY <3>2 DEF step
    <3> QED
      BY <2>3, <3>3
  <2>5. g = [k \in 0 .. M |-> IF k = 0 THEN run ELSE next(k, g[k - 1])]
    BY <1>0, <2>3, <2>4
  <2> HIDE DEF at, one
  <2> QED
    BY <2>5 DEF next
<1> HIDE DEF after
<1>5. after[0] = run /\ \A k \in 1 .. M : after[k] = IF at(k) = {} THEN after[k - 1] ELSE Spliced(after[k - 1], one(k))
  <2> HIDE DEF at, one
  <2>1. 0 \in 0 .. M /\ \A k \in 1 .. M : k \in 0 .. M /\ k # 0
    BY <1>0
  <2> QED
    BY <1>4, <2>1
<1>6. \A k \in 0 .. M : after[k] \in V
  <2> DEFINE T == {k \in 0 .. M : after[k] \in V}
  <2>1. 0 \in Int /\ M \in Int /\ 0 <= M /\ 0 \in T
    BY <1>0, <1>5
  <2>2. ASSUME NEW k \in 0 .. M, k \in T, k < M PROVE k + 1 \in T
    <3>1. k + 1 \in 1 .. M /\ (k + 1) - 1 = k /\ k + 1 \in 0 .. M /\ after[k] \in V
      BY <1>0, <2>2
    <3> HIDE DEF at, one, V
    <3>2. after[k + 1] = IF at(k + 1) = {} THEN after[k] ELSE Spliced(after[k], one(k + 1))
      BY <1>5, <3>1
    <3>3. at(k + 1) # {} => Spliced(after[k], one(k + 1)) \in V
      BY <1>3, <3>1, SplicedTyped DEF V
    <3> QED
      BY <3>1, <3>2, <3>3
  <2>3. \A k \in 0 .. M : k \in T
    <3> HIDE DEF T
    <3> QED
      BY <2>1, <2>2, StepByStep
  <2> QED
    BY <2>3
<1>7. after = [k \in 0 .. M |-> after[k]]
  <2> HIDE DEF at, one
  <2> QED
    BY <1>4
<1> HIDE DEF V, at, one
<1> QED
  BY <1>5, <1>6, <1>7

\* So the bytes of a run stay bytes, whatever is edited.
LEMMA EditRunTyped ==
  ASSUME NEW run \in Seq(Byte), NEW edits,
         \A e \in edits : e.lo \in Nat /\ e.hi \in Nat /\ e.value \in Seq(Byte)
  PROVE  EditRun(run, edits) \in Seq(Byte)
<1>1. Len(run) \in Nat /\ Len(run) + 1 \in 0 .. Len(run) + 1
  OBVIOUS
<1> QED
  BY <1>1, EditRunAfter DEF EditedBy

\* What the edits of a run must be, for the text at a: apart from each other, each with what
\* its bytes become, and all others as they were.
RunEdits(text, a, run, edits) ==
  /\ \A k \in 1 .. Len(run) : run[k] = text[a + k]
  /\ \A e \in edits : /\ e.lo \in Nat /\ e.hi \in Nat /\ e.lo <= e.hi /\ e.hi <= Len(run)
                      /\ e.lo < e.hi \/ Len(run) = 0
                      /\ e.value = PlacedBytes(text, a + e.lo, a + e.hi)
  /\ \A e, d \in edits : e = d \/ e.hi <= d.lo \/ d.hi <= e.lo
  /\ \A h \in 0 .. Len(run) - 1 : \/ \E e \in edits : e.lo <= h /\ h < e.hi
                                  \/ Becomes(text, a + h + 1) = <<text[a + h + 1]>>

LEMMA EditsPlace ==
  ASSUME NEW text \in Seq(Byte), NEW a \in Nat, NEW run \in Seq(Byte), NEW edits,
         a + Len(run) <= Len(text), RunEdits(text, a, run, edits)
  PROVE  EditRun(run, edits) = PlacedBytes(text, a, a + Len(run))
<1> DEFINE L == Len(run)
           P(x) == PlacedBytes(text, a + x, a + L)
           M == L + 1
           at(k) == {e \in edits : e.lo = L + 1 - k}
           one(k) == CHOOSE e \in at(k) : TRUE
           V == Seq(Byte)
<1>0. L \in Nat /\ L \in Int /\ a + L <= Len(text) /\ Len(text) \in Nat /\ M \in Nat /\ M = L + 1
  OBVIOUS
<1>2. ASSUME NEW e \in edits
      PROVE  /\ e.lo \in Nat /\ e.hi \in Nat /\ e.lo <= e.hi /\ e.hi <= L
             /\ e.lo < e.hi \/ L = 0
             /\ e.value = PlacedBytes(text, a + e.lo, a + e.hi) /\ e.value \in V
  <2>1. /\ e.lo \in Nat /\ e.hi \in Nat /\ e.lo <= e.hi /\ e.hi <= L
        /\ e.lo < e.hi \/ L = 0
        /\ e.value = PlacedBytes(text, a + e.lo, a + e.hi)
    BY DEF RunEdits
  <2>2. a + e.lo \in Nat /\ a + e.hi \in a + e.lo .. Len(text)
    BY <1>0, <2>1
  <2> QED
    BY <2>1, <2>2, PlacedTyped
<1>a. PICK after \in [0 .. Len(run) + 1 -> Seq(Byte)] :
        EditedBy(run, edits, after)
  <2>1. \A e \in edits : e.lo \in Nat /\ e.hi \in Nat /\ e.value \in Seq(Byte)
    BY <1>2
  <2> QED
    BY <2>1, EditRunAfter
<1>1. EditRun(run, edits) = after[M]
  BY <1>a DEF EditedBy
<1>5. after[0] = run /\ \A k \in 1 .. M : after[k] = IF at(k) = {} THEN after[k - 1] ELSE Spliced(after[k - 1], one(k))
  BY <1>a DEF EditedBy
<1> HIDE DEF L, M
<1>3. ASSUME NEW k \in 1 .. M, at(k) # {} PROVE one(k) \in edits /\ one(k).lo = M - k
  <2>1. L + 1 - k = M - k
    BY <1>0
  <2> QED
    BY <1>3, <2>1
<1>E. CASE L = 0
  <2>1. run = <<>> /\ M = 1
    BY <1>0, <1>E DEF L
  <2>2. PlacedBytes(text, a, a + L) = <<>>
    <3>1. a + L = a /\ a \in 0 .. Len(text)
      BY <1>0, <1>E
    <3> QED
      BY <3>1, PlacedNone
  <2>3. ASSUME NEW e \in edits PROVE Spliced(run, e) = <<>>
    <3>1. e.lo = 0 /\ e.hi = 0
      BY <1>2, <1>E
    <3>2. e.value = <<>>
      BY <1>2, <1>E, <2>2, <3>1
    <3>3. Spliced(run, e) = <<>> \o <<>> \o <<>>
      <4>1. SubSeq(run, 1, 0) = <<>> /\ SubSeq(run, 0 + 1, 0) = <<>>
        BY SubSeqEmpty
      <4>2. Len(run) = 0
        BY <1>E DEF L
      <4> QED
        BY <3>1, <3>2, <4>1, <4>2 DEF Spliced
    <3> QED
      BY <3>3
  <2>4. after[1] = <<>>
    <3>1. at(1) # {} => one(1) \in edits
      BY <1>3, <2>1
    <3> HIDE DEF at, one
    <3> QED
      BY <1>5, <2>1, <2>3, <3>1
  <2> QED
    BY <1>1, <2>1, <2>2, <2>4 DEF L
<1> SUFFICES ASSUME L # 0 PROVE EditRun(run, edits) = PlacedBytes(text, a, a + L)
  BY <1>E DEF L
<1> DEFINE U(h) == SubSeq(run, 1, h)
           G(h) == U(h) \o P(h)
           Open(k, h) == \A e \in edits : ~(e.lo < h /\ h < e.hi) /\ ~(M - k <= e.lo /\ e.lo < h)
<1>6. ASSUME NEW h \in 0 .. L PROVE U(h) \in V /\ P(h) \in V /\ a + h \in Nat /\ a + L \in a + h .. Len(text)
  <2>1. a + h \in Nat /\ a + L \in a + h .. Len(text)
    BY <1>0
  <2>2. 1 \in Int /\ h \in Int /\ \A i \in 1 .. h : run[i] \in Byte
    BY <1>0 DEF L
  <2> QED
    BY <2>1, <2>2, SubSeqProperties, PlacedTyped
<1>7. G(L) = run /\ G(0) = P(0)
  <2>1. U(L) = run
    BY SubSeqFull DEF L
  <2>2. P(L) = <<>>
    <3>1. a + L \in 0 .. Len(text)
      BY <1>0
    <3> QED
      BY <3>1, PlacedNone
  <2>3. U(0) = <<>>
    BY SubSeqEmpty
  <2>4. P(0) \in V
    BY <1>0, <1>6
  <2> HIDE DEF U, P
  <2> QED
    BY <2>1, <2>2, <2>3, <2>4, ConcatEmptySeq
<1>8. ASSUME NEW h \in 0 .. L, h < L, \A e \in edits : ~(e.lo <= h /\ h < e.hi) PROVE G(h + 1) = G(h)
  <2>1. h + 1 \in 0 .. L /\ h \in 0 .. L - 1 /\ h + 1 \in 1 .. Len(run) /\ a + h + 1 = a + (h + 1)
    BY <1>0, <1>8 DEF L
  <2>2. Becomes(text, a + (h + 1)) = <<run[h + 1]>>
    BY <1>8, <2>1 DEF RunEdits, L
  <2>3. U(h + 1) = U(h) \o <<run[h + 1]>>
    <3>1. 1 \in 1 .. Len(run) /\ h + 1 \in 1 .. Len(run) /\ (h + 1) - 1 = h
      BY <1>0, <2>1
    <3> QED
      BY <3>1, SubSeqRecursiveSecond
  <2>4. P(h) = <<run[h + 1]>> \o P(h + 1)
    <3>1. a + h \in 0 .. Len(text) /\ a + h < Len(text) /\ (a + h) + 1 = a + (h + 1)
      BY <1>0, <1>8, <2>1
    <3>2. PlacedBytes(text, a + h, a + (h + 1)) = <<run[h + 1]>>
      BY <2>2, <3>1, PlacedOne
    <3>3. a + h \in Nat /\ a + (h + 1) \in a + h .. Len(text) /\ a + L \in a + (h + 1) .. Len(text)
      BY <1>0, <1>8
    <3> QED
      BY <3>2, <3>3, PlacedSplit
  <2>5. PICK u, b, p : u = U(h) /\ b = <<run[h + 1]>> /\ p = P(h + 1)
    OBVIOUS
  <2>6. u \in Seq(Byte) /\ b \in Seq(Byte) /\ p \in Seq(Byte)
    <3>1. run[h + 1] \in Byte
      BY <2>1
    <3>2. <<run[h + 1]>> \in Seq(Byte)
      BY <3>1
    <3> QED
      BY <1>6, <2>1, <2>5, <3>2
  <2>7. (u \o b) \o p = u \o (b \o p)
    BY <2>6, SMTT(30)
  <2> HIDE DEF U, P
  <2> QED
    BY <2>3, <2>4, <2>5, <2>7
<1>9. ASSUME NEW e \in edits PROVE Spliced(G(e.hi), e) = G(e.lo)
  <2>1. e.lo \in 0 .. L /\ e.hi \in 0 .. L /\ e.lo < e.hi
    BY <1>0, <1>2
  <2>2. Spliced(U(e.hi) \o P(e.hi), e) = U(e.lo) \o (e.value \o P(e.hi))
    <3>1. P(e.hi) \in V
      BY <1>6, <2>1
    <3>2. e.lo <= e.hi /\ e.hi <= Len(run) /\ e.lo \in Nat /\ e.hi \in Nat /\ e.value \in V
      BY <1>2, <2>1 DEF L
    <3> HIDE DEF P
    <3> QED
      BY <3>1, <3>2, SplicedIs
  <2>3. P(e.lo) = e.value \o P(e.hi)
    <3>1. /\ a + e.lo \in Nat /\ a + e.hi \in a + e.lo .. Len(text) /\ a + L \in a + e.hi .. Len(text)
          /\ e.value = PlacedBytes(text, a + e.lo, a + e.hi)
      BY <1>0, <1>2
    <3> QED
      BY <3>1, PlacedSplit
  <2> HIDE DEF U, P
  <2> QED
    BY <2>2, <2>3
<1> DEFINE T == {k \in 1 .. M : \A h \in M - k .. L : Open(k, h) => after[k] = G(h)}
<1>10. 1 \in T
  <2>1. \A h \in M - 1 .. L : h = L
    BY <1>0
  <2>2. at(1) = {}
    <3>1. \A e \in edits : e.lo # L + 1 - 1
      BY <1>0, <1>2
    <3> QED
      BY <3>1
  <2>3. 1 \in 1 .. M /\ 1 - 1 = 0
    BY <1>0
  <2>4. after[1] = run
    <3> HIDE DEF at, one
    <3> QED
      BY <1>5, <2>2, <2>3
  <2> HIDE DEF G, Open
  <2> QED
    BY <1>7, <2>1, <2>3, <2>4
<1>11. ASSUME NEW k \in 1 .. M, k \in T, k < M PROVE k + 1 \in T
  <2>0. k + 1 \in 1 .. M /\ (k + 1) - 1 = k /\ k + 1 \in 0 .. M
    BY <1>0, <1>11
  <2> SUFFICES ASSUME NEW h \in M - (k + 1) .. L, Open(k + 1, h) PROVE after[k + 1] = G(h)
    BY <2>0
  <2>1. \A i \in M - k .. L : Open(k, i) => after[k] = G(i)
    BY <1>11
  <2>2. after[k + 1] = IF at(k + 1) = {} THEN after[k] ELSE Spliced(after[k], one(k + 1))
    <3> HIDE DEF at, one
    <3> QED
      BY <1>5, <2>0
  <2>3. CASE h = M - (k + 1) /\ at(k + 1) = {}
    <3>0. h \in 0 .. L /\ h < L /\ h + 1 \in M - k .. L /\ h + 1 = M - k
      BY <1>0, <2>0, <2>3
    <3>1. ASSUME NEW e \in edits PROVE ~(e.lo <= h /\ h < e.hi)
      <4>1. e.lo # h /\ ~(e.lo < h /\ h < e.hi)
        <5>1. L + 1 - (k + 1) = M - (k + 1)
          BY <1>0
        <5>2. e.lo # L + 1 - (k + 1)
          BY <2>3
        <5> QED
          BY <2>3, <5>1, <5>2
      <4> QED
        BY <1>2, <3>0, <4>1
    <3>2. ASSUME NEW e \in edits
          PROVE  ~(e.lo < h + 1 /\ h + 1 < e.hi) /\ ~(M - k <= e.lo /\ e.lo < h + 1)
      <4>1. e.lo \in Nat /\ e.hi \in Nat /\ h \in Nat
        BY <1>0, <1>2, <3>0
      <4> QED
        BY <3>0, <3>1, <4>1
    <3>3. G(h + 1) = G(h)
      <4> HIDE DEF G
      <4> QED
        BY <1>8, <3>0, <3>1
    <3>4. after[k] = G(h + 1)
      <4> HIDE DEF G
      <4> QED
        BY <2>1, <3>0, <3>2
    <3> HIDE DEF G, Open
    <3> QED
      BY <2>2, <2>3, <3>3, <3>4
  <2>4. CASE h = M - (k + 1) /\ at(k + 1) # {}
    <3>1. PICK e : e = one(k + 1) /\ e \in edits /\ e.lo = M - (k + 1)
      BY <1>3, <2>0, <2>4
    <3>2. e.hi \in M - k .. L /\ e.lo < M - k
      BY <1>0, <1>2, <2>0, <3>1
    <3>3. ASSUME NEW d \in edits
          PROVE  ~(d.lo < e.hi /\ e.hi < d.hi) /\ ~(M - k <= d.lo /\ d.lo < e.hi)
      <4>1. d = e \/ d.hi <= e.lo \/ e.hi <= d.lo
        BY <3>1 DEF RunEdits
      <4>2. d.lo \in Nat /\ d.hi \in Nat /\ d.lo < d.hi /\ e.lo \in Nat /\ e.hi \in Nat /\ e.lo < e.hi
        BY <1>2, <3>1
      <4> QED
        BY <1>0, <2>0, <3>2, <4>1, <4>2
    <3>4. after[k] = G(e.hi)
      <4> HIDE DEF G
      <4> QED
        BY <2>1, <3>2, <3>3
    <3> HIDE DEF G, Open, at, one
    <3> QED
      BY <1>9, <2>2, <2>4, <3>1, <3>4
  <2>5. CASE h # M - (k + 1)
    <3>1. h \in M - k .. L /\ M - (k + 1) < h /\ M - (k + 1) < M - k
      BY <1>0, <2>0, <2>5
    <3>2. at(k + 1) = {}
      <4>1. ASSUME NEW e \in edits PROVE e.lo # M - (k + 1)
        <5>1. ~(M - (k + 1) <= e.lo /\ e.lo < h)
          OBVIOUS
        <5> QED
          BY <1>0, <1>2, <2>0, <3>1, <5>1
      <4>2. L + 1 - (k + 1) = M - (k + 1)
        BY <1>0
      <4> QED
        BY <4>1, <4>2
    <3>3. Open(k, h)
      BY <1>0, <1>2, <2>0, <3>1
    <3> HIDE DEF G, Open, at, one
    <3> QED
      BY <2>1, <2>2, <3>1, <3>2, <3>3
  <2> QED
    BY <2>3, <2>4, <2>5
<1>12. 1 \in Int /\ M \in Int /\ 1 <= M /\ M \in 1 .. M
  BY <1>0
<1>13. M \in T
  <2> HIDE DEF T
  <2> QED
    BY <1>10, <1>11, <1>12, StepByStep
<1>14. 0 \in M - M .. L /\ Open(M, 0)
  BY <1>0, <1>2
<1>15. after[M] = G(0)
  <2> HIDE DEF Open, G
  <2> QED
    BY <1>13, <1>14
<1>16. a + 0 = a
  OBVIOUS
<1> QED
  BY <1>1, <1>7, <1>15, <1>16

-----------------------------------------------------------------------------
(* The k-th of some places *)

Rank(places, i) == Cardinality({j \in places : j <= i})

CountedUp(S, N) ==
  /\ N \in Nat /\ Cardinality(S) \in Nat
  /\ \A i \in S : i \in 1 .. N
  /\ \A i \in 0 .. N : Rank(S, i) \in Nat
  /\ Rank(S, 0) = 0 /\ Rank(S, N) = Cardinality(S)
  /\ \A i \in 0 .. N : i < N => Rank(S, i + 1) = IF i + 1 \in S THEN Rank(S, i) + 1 ELSE Rank(S, i)

LEMMA RankCounts ==
  ASSUME NEW N \in Nat, NEW S, S \subseteq 1 .. N
  PROVE  CountedUp(S, N)
<1> DEFINE B(i) == {j \in S : j <= i}
<1>0. \A j \in S : j \in 1 .. N
  OBVIOUS
<1>1. IsFiniteSet(S)
  <2>1. 1 \in Int /\ N \in Int
    OBVIOUS
  <2>2. IsFiniteSet(1 .. N)
    BY <2>1, FS_Interval
  <2>3. S \in SUBSET (1 .. N)
    OBVIOUS
  <2> QED
    BY <2>2, <2>3, FS_Subset
<1>2. ASSUME NEW i PROVE IsFiniteSet(B(i)) /\ Cardinality(B(i)) \in Nat
  <2>1. B(i) \in SUBSET S
    OBVIOUS
  <2> HIDE DEF B
  <2>2. IsFiniteSet(B(i))
    BY <1>1, <2>1, FS_Subset
  <2> QED
    BY <2>2, FS_CardinalityType
<1>3. B(0) = {} /\ B(N) = S
  <2>1. \A j \in S : ~(j <= 0) /\ j <= N
    BY <1>0
  <2> QED
    BY <2>1
<1>4. ASSUME NEW i \in 0 .. N, i < N
      PROVE  Cardinality(B(i + 1)) = IF i + 1 \in S THEN Cardinality(B(i)) + 1 ELSE Cardinality(B(i))
  <2>0. \A j \in S : j <= i + 1 <=> j <= i \/ j = i + 1
    BY <1>0
  <2>1. CASE i + 1 \in S
    <3>1. B(i + 1) = B(i) \cup {i + 1}
      BY <2>0, <2>1
    <3>2. i + 1 \notin B(i)
      OBVIOUS
    <3>3. IsFiniteSet(B(i))
      BY <1>2
    <3> HIDE DEF B
    <3>4. Cardinality(B(i) \cup {i + 1}) = Cardinality(B(i)) + 1
      BY <3>2, <3>3, FS_AddElement
    <3> QED
      BY <2>1, <3>1, <3>4
  <2>2. CASE i + 1 \notin S
    <3>1. B(i + 1) = B(i)
      BY <2>0, <2>2
    <3> HIDE DEF B
    <3> QED
      BY <2>2, <3>1
  <2> QED
    BY <2>1, <2>2
<1>5. \A i : Rank(S, i) = Cardinality(B(i))
  BY DEF Rank
<1> HIDE DEF B
<1>6. Cardinality(B(0)) = 0
  BY <1>3, FS_EmptySet
<1>7. Cardinality(S) \in Nat
  BY <1>1, FS_CardinalityType
<1> QED
  BY <1>0, <1>2, <1>3, <1>4, <1>5, <1>6, <1>7 DEF CountedUp

\* More places are passed the further one goes.
Grows(S, N) ==
  \A i, j \in 0 .. N : i < j => Rank(S, i) <= Rank(S, j) /\ (j \in S => Rank(S, i) < Rank(S, j))

LEMMA RankGrows ==
  ASSUME NEW N \in Nat, NEW S, S \subseteq 1 .. N
  PROVE  Grows(S, N)
<1> SUFFICES ASSUME NEW i \in 0 .. N, NEW j \in 0 .. N, i < j
             PROVE  Rank(S, i) <= Rank(S, j) /\ (j \in S => Rank(S, i) < Rank(S, j))
  BY DEF Grows
<1> DEFINE R(x) == Rank(S, x)
<1>0. CountedUp(S, N)
  BY RankCounts
<1>1. /\ \A x \in 0 .. N : R(x) \in Nat
      /\ \A x \in 0 .. N : x < N => R(x + 1) = IF x + 1 \in S THEN R(x) + 1 ELSE R(x)
  BY <1>0 DEF CountedUp
<1> HIDE DEF R
<1> DEFINE T == {x \in i .. N : R(i) <= R(x)}
<1>2. i \in T
  BY <1>1
<1>3. ASSUME NEW x \in i .. N, x \in T, x < N PROVE x + 1 \in T
  <2>1. x \in 0 .. N /\ x + 1 \in 0 .. N /\ x + 1 \in i .. N
    BY <1>3
  <2>2. R(x + 1) >= R(x) /\ R(i) <= R(x) /\ R(x) \in Nat /\ R(i) \in Nat /\ R(x + 1) \in Nat
    BY <1>1, <1>3, <2>1
  <2> QED
    BY <2>1, <2>2
<1> HIDE DEF T
<1>4. \A x \in i .. N : x \in T
  <2>1. i \in Int /\ N \in Int /\ i <= N
    OBVIOUS
  <2> QED
    BY <1>2, <1>3, <2>1, StepByStep
<1> USE DEF T
<1>5. j - 1 \in i .. N /\ j \in i .. N /\ j - 1 \in 0 .. N /\ j - 1 < N /\ (j - 1) + 1 = j
  OBVIOUS
<1>6. R(i) <= R(j) /\ R(i) <= R(j - 1)
  BY <1>4, <1>5
<1>7. R(j) = IF j \in S THEN R(j - 1) + 1 ELSE R(j - 1)
  BY <1>1, <1>5
<1>8. R(j) \in Nat /\ R(j - 1) \in Nat /\ R(i) \in Nat
  BY <1>1, <1>5
<1> QED
  BY <1>6, <1>7, <1>8 DEF R

\* The k-th place is the one with k up to it.
NthCounts(S) ==
  /\ \A k \in 1 .. Cardinality(S) : Nth(S, k) \in S /\ Rank(S, Nth(S, k)) = k
  /\ \A i \in S : Rank(S, i) \in 1 .. Cardinality(S) /\ Nth(S, Rank(S, i)) = i

LEMMA NthIsRank ==
  ASSUME NEW N \in Nat, NEW S, S \subseteq 1 .. N
  PROVE  NthCounts(S)
<1> DEFINE R(x) == Rank(S, x)
           C == Cardinality(S)
<1>a. CountedUp(S, N) /\ Grows(S, N)
  BY RankCounts, RankGrows
<1>1. /\ \A x \in 0 .. N : R(x) \in Nat
      /\ \A x \in 0 .. N : x < N => R(x + 1) = IF x + 1 \in S THEN R(x) + 1 ELSE R(x)
      /\ R(0) = 0 /\ R(N) = C /\ C \in Nat
      /\ \A i \in S : i \in 1 .. N
  BY <1>a DEF CountedUp
<1>b. \A i, j \in 0 .. N : i < j => R(i) <= R(j) /\ (j \in S => R(i) < R(j))
  BY <1>a DEF Grows
<1>c. \A k, y : R(y) = k <=> Cardinality({j \in S : j <= y}) = k
  BY DEF Rank
<1> HIDE DEF R, C
<1>2. ASSUME NEW k \in 1 .. C PROVE Nth(S, k) \in S /\ R(Nth(S, k)) = k
  <2> DEFINE T == {x \in 0 .. N : R(x) >= k}
  <2>2. N \in T /\ T \subseteq Nat
    BY <1>1
  <2>3. PICK x \in T : \A y \in T : x <= y
    BY <2>2, LeastNumber
  <2>4. x \in 0 .. N /\ x # 0 /\ R(x) >= k
    BY <1>1, <2>3
  <2>5. x - 1 \in 0 .. N /\ x - 1 < N /\ (x - 1) + 1 = x /\ x - 1 \notin T
    BY <2>3, <2>4
  <2>6. R(x - 1) < k /\ R(x) = IF x \in S THEN R(x - 1) + 1 ELSE R(x - 1)
    BY <1>1, <2>5
  <2>7. x \in S /\ R(x) = k
    BY <1>1, <2>4, <2>5, <2>6
  <2>8. \E y \in S : Cardinality({j \in S : j <= y}) = k
    BY <1>c, <2>7
  <2>9. Nth(S, k) \in S /\ Cardinality({j \in S : j <= Nth(S, k)}) = k
    BY <2>8 DEF Nth
  <2> QED
    BY <1>c, <2>9
<1>3. ASSUME NEW i \in S PROVE R(i) \in 1 .. C /\ Nth(S, R(i)) = i
  <2>2. i \in 0 .. N /\ 0 < i /\ 0 \in 0 .. N /\ N \in 0 .. N /\ (i = N \/ i < N)
    BY <1>1
  <2>3. R(i) > 0
    BY <1>1, <1>b, <2>2
  <2>4. R(i) <= C
    BY <1>1, <1>b, <2>2
  <2>5. R(i) \in 1 .. C
    BY <1>1, <2>2, <2>3, <2>4
  <2> DEFINE n == Nth(S, R(i))
  <2>6. n \in S /\ R(n) = R(i)
    BY <1>2, <2>5
  <2> HIDE DEF n
  <2>7. n \in 0 .. N
    BY <1>1, <2>6
  <2>8. ~(n < i) /\ ~(i < n)
    BY <1>1, <1>b, <2>2, <2>6, <2>7
  <2> QED
    BY <2>2, <2>5, <2>7, <2>8 DEF n
<1> QED
  BY <1>2, <1>3 DEF NthCounts, R, C

-----------------------------------------------------------------------------
(* What is found among the characters, and where its bytes are *)

CharsStart(text, first, S, N, C) ==
  /\ S = Starts(text, first) /\ N = Len(text) /\ C = Cardinality(S)
  /\ CountedUp(S, N) /\ Grows(S, N) /\ NthCounts(S)
  /\ \A i \in 1 .. N : text[i] # ";" => i \in S
  /\ \A i \in S : text[i] \notin first /\ i + 1 <= N =>
       i + 1 \in S /\ Rank(S, i + 1) = Rank(S, i) + 1

LEMMA StartsAre ==
  ASSUME NEW text \in Seq(Byte), NEW first
  PROVE  CharsStart(text, first, Starts(text, first), Len(text), Cardinality(Starts(text, first)))
<1> DEFINE S == Starts(text, first)
           N == Len(text)
<1>1. S \subseteq 1 .. N /\ N \in Nat
  <2>1. DOMAIN text = 1 .. N /\ N \in Nat
    OBVIOUS
  <2> QED
    BY <2>1, Zenon DEF Starts
<1>2. S = {i \in 1 .. N : ~(text[i] = ";" /\ i > 1 /\ text[i - 1] \in first)}
  <2>1. DOMAIN text = 1 .. N
    OBVIOUS
  <2> QED
    BY <2>1, Zenon DEF Starts
<1> HIDE DEF S, N
<1>3. CountedUp(S, N) /\ Grows(S, N) /\ NthCounts(S)
  BY <1>1, RankCounts, RankGrows, NthIsRank
<1>4. ASSUME NEW i \in S, text[i] \notin first, i + 1 <= N
      PROVE  i + 1 \in S /\ Rank(S, i + 1) = Rank(S, i) + 1
  <2>1. i \in 1 .. N /\ i + 1 \in 1 .. N /\ (i + 1) - 1 = i /\ i \in 0 .. N /\ i < N
    BY <1>1, <1>4
  <2>2. i + 1 \in S
    BY <1>2, <1>4, <2>1
  <2> QED
    BY <1>3, <2>1, <2>2 DEF CountedUp
<1>5. \A i \in 1 .. N : text[i] # ";" => i \in S
  BY <1>2
<1>6. CharsStart(text, first, S, N, Cardinality(S))
  BY <1>3, <1>4, <1>5 DEF CharsStart, S, N
<1> QED
  BY <1>6 DEF S, N

\* The bytes of the p-th match, from its first to past its last.
EditOf(f) == [from |-> f - 1, to |-> f + 2]

\* The three bytes of a placeholder start characters one after the other, for whatever is
\* taken to be an entity, and so does the byte behind them.
FoundStarts(f, S, N, C) ==
  /\ f \in 1 .. N /\ f + 1 \in 1 .. N /\ f + 2 \in 1 .. N
  /\ f \in S /\ Rank(S, f) \in 1 .. C
  /\ f + 1 \in S /\ Rank(S, f + 1) = Rank(S, f) + 1
  /\ f + 2 \in S /\ Rank(S, f + 2) = Rank(S, f) + 2
  /\ f + 3 <= N => f + 3 \in S /\ Rank(S, f + 3) = Rank(S, f) + 3
  /\ f + 2 = N => C = Rank(S, f) + 2

LEMMA FoundStart ==
  ASSUME NEW text \in Seq(Byte), NEW f \in Found(text), NEW first, first \subseteq {"&", "&#"},
         NEW S, NEW N, NEW C, CharsStart(text, first, S, N, C)
  PROVE  FoundStarts(f, S, N, C)
<1> DEFINE R(i) == Rank(S, i)
<1>z. N = Len(text) /\ C = Cardinality(S)
  BY DEF CharsStart
<1>1. N \in Nat /\ C \in Nat
  BY <1>z DEF CharsStart, CountedUp
<1>x. R(N) = C
  BY <1>z DEF CharsStart, CountedUp
<1>w. \A i \in 1 .. N : text[i] # ";" => i \in S
  BY DEF CharsStart
<1>a. \A i \in S : text[i] \notin first /\ i + 1 <= N => i + 1 \in S /\ R(i + 1) = R(i) + 1
  BY DEF CharsStart
<1>b. \A i \in S : R(i) \in 1 .. C
  BY <1>z DEF CharsStart, NthCounts
<1> HIDE DEF R
<1>2. /\ f \in 1 .. N /\ f + 1 \in 1 .. N /\ f + 2 \in 1 .. N
      /\ text[f] = "open" /\ text[f + 1] = "key" /\ text[f + 2] = "close"
  <2>1. /\ f \in DOMAIN text /\ f + 2 \in DOMAIN text
        /\ text[f] = "open" /\ text[f + 1] = "key" /\ text[f + 2] = "close"
    BY DEF Found
  <2>2. DOMAIN text = 1 .. N
    BY <1>z
  <2> QED
    BY <1>1, <2>1, <2>2
<1>c. "open" \notin first /\ "key" \notin first /\ "close" \notin first
  OBVIOUS
<1>3. f \in S /\ R(f) \in 1 .. C /\ R(f) \in Nat
  <2>1. f \in S
    BY <1>2, <1>w
  <2> QED
    BY <1>1, <1>b, <2>1
<1>4. f + 1 \in S /\ R(f + 1) = R(f) + 1
  <2>1. f + 1 <= N
    BY <1>1, <1>2
  <2> QED
    BY <1>2, <1>3, <1>a, <1>c, <2>1
<1>5. f + 2 \in S /\ R(f + 2) = R(f) + 2
  <2>1. (f + 1) + 1 = f + 2 /\ (f + 1) + 1 <= N
    BY <1>1, <1>2
  <2>2. f + 2 \in S /\ R(f + 2) = R(f + 1) + 1
    BY <1>2, <1>4, <1>a, <1>c, <2>1
  <2> QED
    BY <1>3, <1>4, <2>2
<1>6. f + 3 <= N => f + 3 \in S /\ R(f + 3) = R(f) + 3
  <2>1. (f + 2) + 1 = f + 3
    BY <1>2
  <2>2. f + 3 <= N => f + 3 \in S /\ R(f + 3) = R(f + 2) + 1
    BY <1>2, <1>5, <1>a, <1>c, <2>1
  <2> QED
    BY <1>3, <1>5, <2>2
<1>7. f + 2 = N => C = R(f) + 2
  BY <1>5, <1>x
<1> QED
  BY <1>2, <1>3, <1>4, <1>5, <1>6, <1>7 DEF FoundStarts, R

\* Up to a byte before which every entity is a known one, both take the same for a character.
LEMMA StartsAgree ==
  ASSUME NEW text \in Seq(Byte), NEW f \in 1 .. Len(text), \A i \in 1 .. f - 1 : text[i] # "&#"
  PROVE  Rank(PlainStarts(text), f) = Rank(SkipStarts(text), f)
<1> DEFINE P == PlainStarts(text)
           Q == SkipStarts(text)
<1>1. P \subseteq 1 .. Len(text) /\ Q \subseteq 1 .. Len(text) /\ Len(text) \in Nat
  <2>1. DOMAIN text = 1 .. Len(text) /\ Len(text) \in Nat
    OBVIOUS
  <2> QED
    BY <2>1, Zenon DEF PlainStarts, SkipStarts, Starts
<1>2. ASSUME NEW i \in 1 .. Len(text), i <= f PROVE i \in P <=> i \in Q
  <2>1. i > 1 => i - 1 \in 1 .. f - 1
    BY <1>2
  <2>2. i > 1 => (text[i - 1] \in {"&"} <=> text[i - 1] \in {"&", "&#"})
    BY <2>1
  <2>3. DOMAIN text = 1 .. Len(text)
    OBVIOUS
  <2> QED
    BY <2>2, <2>3 DEF PlainStarts, SkipStarts, Starts
<1> HIDE DEF P, Q
<1>3. {j \in P : j <= f} = {j \in Q : j <= f}
  BY <1>1, <1>2
<1> QED
  BY <1>3 DEF Rank, P, Q

LEMMA FoundIsMatch ==
  ASSUME NEW text \in Seq(Byte), KnownBefore(text), NEW f \in Found(text)
  PROVE  \E m \in Matches(Unescape(text)) :
           /\ m + 1 = Rank(PlainStarts(text), f)
           /\ MapPos(text, m) = f - 1 /\ MapPos(text, m + 3) = f + 2
<1>0. PICK S, N, C : CharsStart(text, {"&"}, S, N, C)
  BY StartsAre
<1>e. PICK Q, D : CharsStart(text, {"&", "&#"}, Q, N, D)
  <2>1. N = Len(text)
    BY <1>0 DEF CharsStart
  <2> QED
    BY <2>1, StartsAre
<1>z. /\ S = PlainStarts(text) /\ N = Len(text) /\ C = Cardinality(S)
      /\ Q = SkipStarts(text) /\ D = Cardinality(Q)
  BY <1>0, <1>e DEF CharsStart, PlainStarts, SkipStarts
<1>1. N \in Nat /\ C \in Nat /\ D \in Nat
  BY <1>0, <1>e, <1>z DEF CharsStart, CountedUp
<1>b. /\ \A i \in S : Nth(S, Rank(S, i)) = i /\ Rank(S, i) \in 1 .. C
      /\ \A i \in Q : Nth(Q, Rank(Q, i)) = i /\ Rank(Q, i) \in 1 .. D
  BY <1>0, <1>e, <1>z DEF CharsStart, NthCounts
<1>2. FoundStarts(f, S, N, C) /\ FoundStarts(f, Q, N, D)
  <2>1. {"&"} \subseteq {"&", "&#"} /\ {"&", "&#"} \subseteq {"&", "&#"}
    OBVIOUS
  <2> QED
    BY <1>0, <1>e, <2>1, FoundStart
<1>3. /\ f \in 1 .. N /\ f + 1 \in 1 .. N /\ f + 2 \in 1 .. N
      /\ text[f] = "open" /\ text[f + 1] = "key" /\ text[f + 2] = "close"
  BY <1>2 DEF FoundStarts, Found
<1>4. Rank(S, f) = Rank(Q, f)
  <2>1. ASSUME NEW i \in 1 .. f - 1 PROVE text[i] # "&#"
    <3>1. i \in DOMAIN text /\ ~(f < i)
      BY <1>z, <1>1, <1>3
    <3> QED
      BY <3>1 DEF KnownBefore
  <2> QED
    BY <1>z, <1>3, <2>1, StartsAgree
<1> DEFINE m == Rank(S, f) - 1
           plain == Unescape(text)
<1>10. Len(plain) = C /\ \A k \in 1 .. C : plain[k] = text[Nth(S, k)]
  <2>1. plain = [k \in 1 .. C |-> text[Nth(S, k)]]
    BY <1>z, Zenon DEF Unescape
  <2> HIDE DEF plain
  <2> QED
    BY <1>1, <2>1
<1>11. \A p : MapPos(text, p) = IF p >= D THEN N ELSE Nth(Q, p + 1) - 1
  BY <1>z, Zenon DEF MapPos
<1> HIDE DEF plain
<1>12. /\ m \in 0 .. C - 3 /\ m + 1 = Rank(S, f) /\ m + 2 = Rank(S, f + 1) /\ m + 3 = Rank(S, f + 2)
       /\ m + 1 \in 1 .. D
  <2>1. /\ Rank(S, f) \in 1 .. C /\ Rank(S, f + 2) \in 1 .. C /\ Rank(Q, f) \in 1 .. D
        /\ Rank(S, f + 1) = Rank(S, f) + 1 /\ Rank(S, f + 2) = Rank(S, f) + 2
    BY <1>2, <1>b DEF FoundStarts
  <2> QED
    BY <1>1, <1>4, <2>1
<1> HIDE DEF m
<1>7. Nth(S, m + 1) = f /\ Nth(S, m + 2) = f + 1 /\ Nth(S, m + 3) = f + 2
  BY <1>2, <1>12, <1>b DEF FoundStarts
<1>13. m \in Matches(plain)
  <2>0. m + 1 \in 1 .. C /\ m + 2 \in 1 .. C /\ m + 3 \in 1 .. C
    BY <1>1, <1>12
  <2>1. plain[m + 1] = "open" /\ plain[m + 2] = "key" /\ plain[m + 3] = "close"
    BY <1>3, <1>7, <1>10, <2>0
  <2> QED
    BY <1>10, <1>12, <2>1 DEF Matches
<1>14. MapPos(text, m) = f - 1
  <2>1. ~(m >= D)
    BY <1>1, <1>12
  <2>2. Nth(Q, m + 1) = f
    BY <1>2, <1>4, <1>12, <1>b DEF FoundStarts
  <2> QED
    BY <1>11, <2>1, <2>2
<1>15. MapPos(text, m + 3) = f + 2
  <2>1. CASE f + 2 = N
    <3>1. D = Rank(Q, f) + 2
      BY <1>2, <2>1 DEF FoundStarts
    <3>2. m + 3 = D
      BY <1>1, <1>4, <1>12, <3>1
    <3> QED
      BY <1>1, <1>11, <2>1, <3>2
  <2>2. CASE f + 2 # N
    <3>1. f + 3 <= N
      BY <1>1, <1>3, <2>2
    <3>2. f + 3 \in Q /\ Rank(Q, f + 3) = Rank(Q, f) + 3
      BY <1>2, <3>1 DEF FoundStarts
    <3>3. Rank(Q, f + 3) \in 1 .. D /\ Nth(Q, Rank(Q, f + 3)) = f + 3
      BY <1>b, <3>2
    <3>4. (m + 3) + 1 = Rank(Q, f + 3) /\ ~(m + 3 >= D)
      BY <1>1, <1>4, <1>12, <3>2, <3>3
    <3>5. (f + 3) - 1 = f + 2
      BY <1>3
    <3> QED
      BY <1>11, <3>3, <3>4, <3>5
  <2> QED
    BY <2>1, <2>2
<1>16. m + 1 = Rank(PlainStarts(text), f)
  BY <1>z, <1>12
<1> QED
  BY <1>13, <1>14, <1>15, <1>16 DEF plain

LEMMA MatchIsFound ==
  ASSUME NEW text \in Seq(Byte), KnownBefore(text), NEW m \in Matches(Unescape(text))
  PROVE  \E f \in Found(text) : MapPos(text, m) = f - 1 /\ MapPos(text, m + 3) = f + 2
<1>0. PICK S, N, C : CharsStart(text, {"&"}, S, N, C)
  BY StartsAre
<1> DEFINE R(i) == Rank(S, i)
           plain == Unescape(text)
<1>z. S = PlainStarts(text) /\ N = Len(text) /\ C = Cardinality(S)
  BY <1>0 DEF CharsStart, PlainStarts
<1>1. N \in Nat /\ C \in Nat
  BY <1>0, <1>z DEF CharsStart, CountedUp
<1>y. \A i \in S : i \in 1 .. N
  BY <1>0 DEF CharsStart, CountedUp
<1>a. \A i \in S : text[i] # "&" /\ i + 1 <= N => i + 1 \in S /\ R(i + 1) = R(i) + 1
  <2>1. \A i \in S : text[i] \notin {"&"} /\ i + 1 <= N => i + 1 \in S /\ R(i + 1) = R(i) + 1
    BY <1>0 DEF CharsStart
  <2> HIDE DEF R
  <2> QED
    BY <2>1
<1>b. /\ \A i \in S : R(i) \in 1 .. C /\ Nth(S, R(i)) = i
      /\ \A k \in 1 .. C : Nth(S, k) \in S /\ R(Nth(S, k)) = k
  BY <1>0, <1>z DEF CharsStart, NthCounts
<1>c. \A i, j \in 0 .. N : i < j => R(i) <= R(j)
  BY <1>0 DEF CharsStart, Grows
<1>3. Len(plain) = C /\ \A k \in 1 .. C : plain[k] = text[Nth(S, k)]
  <2>1. plain = [k \in 1 .. C |-> text[Nth(S, k)]]
    BY <1>z, Zenon DEF Unescape
  <2> HIDE DEF plain
  <2> QED
    BY <1>1, <2>1
<1>e. m \in Matches(plain)
  OBVIOUS
<1> HIDE DEF plain, R
<1>4. m \in 0 .. C - 3 /\ plain[m + 1] = "open" /\ plain[m + 2] = "key" /\ plain[m + 3] = "close"
  BY <1>3, <1>e DEF Matches
<1> DEFINE i == Nth(S, m + 1)
           j == Nth(S, m + 2)
           k == Nth(S, m + 3)
<1>5. m + 1 \in 1 .. C /\ m + 2 \in 1 .. C /\ m + 3 \in 1 .. C /\ m \in Nat
  BY <1>1, <1>4
<1>6. /\ i \in S /\ j \in S /\ k \in S
      /\ R(i) = m + 1 /\ R(j) = m + 2 /\ R(k) = m + 3
  BY <1>b, <1>5
<1>7. text[i] = "open" /\ text[j] = "key" /\ text[k] = "close"
  BY <1>3, <1>4, <1>5
<1> HIDE DEF i, j, k
<1>8. i \in 1 .. N /\ j \in 1 .. N /\ k \in 1 .. N
  BY <1>y, <1>6
<1>9. i < j /\ j < k
  <2>0. i \in 0 .. N /\ j \in 0 .. N /\ k \in 0 .. N
    BY <1>8
  <2>1. ~(j < i) /\ ~(k < j)
    BY <1>c, <1>5, <1>6, <2>0
  <2>2. i # j /\ j # k
    BY <1>7
  <2> QED
    BY <1>8, <2>1, <2>2
<1>10. ASSUME NEW x \in S, NEW y \in S, x < y, text[x] # "&", R(y) = R(x) + 1 PROVE y = x + 1
  <2>1. x \in 1 .. N /\ y \in 1 .. N /\ x + 1 <= N
    BY <1>1, <1>y, <1>10
  <2>2. x + 1 \in S /\ R(x + 1) = R(x) + 1
    BY <1>10, <1>a, <2>1
  <2>4. Nth(S, R(y)) = y /\ Nth(S, R(x + 1)) = x + 1
    BY <1>b, <2>2
  <2> QED
    BY <1>10, <2>2, <2>4
<1>11. j = i + 1 /\ k = i + 2
  <2>1. text[i] # "&" /\ text[j] # "&" /\ R(j) = R(i) + 1 /\ R(k) = R(j) + 1
    BY <1>5, <1>6, <1>7
  <2>2. j = i + 1 /\ k = j + 1
    BY <1>6, <1>9, <1>10, <2>1
  <2> QED
    BY <1>8, <2>2
<1>12. i \in Found(text)
  <2>1. DOMAIN text = 1 .. N
    BY <1>z
  <2>2. text[i + 1] = "key" /\ text[i + 2] = "close" /\ i + 2 \in 1 .. N
    BY <1>7, <1>8, <1>11
  <2> QED
    BY <1>7, <1>8, <2>1, <2>2 DEF Found
<1>13. PICK n \in Matches(plain) : /\ n + 1 = Rank(PlainStarts(text), i)
                                   /\ MapPos(text, n) = i - 1 /\ MapPos(text, n + 3) = i + 2
  BY <1>12, FoundIsMatch DEF plain
<1>14. n = m
  <2>1. n \in Int /\ m \in Int
    BY <1>5, <1>13 DEF Matches
  <2>2. n + 1 = R(i)
    BY <1>z, <1>13 DEF R
  <2> QED
    BY <1>6, <2>1, <2>2
<1> QED
  BY <1>12, <1>13, <1>14

\* The edits of a paragraph are those of its placeholders.
LEMMA EditsAreFound ==
  ASSUME NEW text \in Seq(Byte), KnownBefore(text)
  PROVE  {[from |-> MapPos(text, m), to |-> MapPos(text, m + 3)] : m \in Matches(Unescape(text))}
         = {EditOf(f) : f \in Found(text)}
BY FoundIsMatch, MatchIsFound DEF EditOf

-----------------------------------------------------------------------------
(* What the edits of a paragraph mean for a run *)

LEMMA RunsFollow ==
  ASSUME NEW n \in Nat, NEW rs \in [1 .. n -> Seq(Byte)], NEW j \in 1 .. n
  PROVE  /\ Start(rs, j) \in Nat /\ End(rs, j) \in Nat /\ (j = 1 => Start(rs, j) = 0)
         /\ \A k \in 1 .. n : (k + 1 = j => End(rs, k) = Start(rs, j)) /\ (k < j => End(rs, k) <= Start(rs, j))
<1>1. Start(rs, j) \in Nat /\ End(rs, j) \in Nat /\ (j = 1 => Start(rs, j) = 0)
  BY RunsLie, Zenon
<1>2. /\ \A k \in 1 .. n : k + 1 = j => End(rs, k) = Start(rs, j)
      /\ \A k \in 1 .. n : k < j => End(rs, k) <= Start(rs, j)
  BY RunsLie, Zenon
<1> QED
  BY <1>1, <1>2, Zenon

\* The value goes into the run where the placeholder begins.
LEMMA FirstTouched ==
  ASSUME NEW n \in Nat, NEW rs \in [1 .. n -> Seq(Byte)], NEW i \in 1 .. n,
         NEW f \in Nat \ {0}, Touches(rs, EditOf(f), i)
  PROVE  (\E j \in 1 .. i - 1 : Touches(rs, EditOf(f), j)) <=> Start(rs, i) > f - 1
<1> DEFINE from == f - 1
           S(j) == Start(rs, j)
           E(j) == End(rs, j)
<1>1. \A j \in 1 .. n : Touches(rs, EditOf(f), j) <=> E(j) > f - 1 /\ S(j) < f + 2
  BY DEF Touches, EditOf
<1>2. ASSUME NEW j \in 1 .. n
      PROVE  /\ S(j) \in Nat /\ E(j) \in Nat /\ (j = 1 => S(j) = 0)
             /\ \A k \in 1 .. n : (k + 1 = j => E(k) = S(j)) /\ (k < j => E(k) <= S(j))
  BY RunsFollow, Zenon
<1>3. E(i) > f - 1 /\ S(i) < f + 2
  BY <1>1
<1> HIDE DEF S, E
<1>4. ASSUME NEW j \in 1 .. i - 1, Touches(rs, EditOf(f), j) PROVE S(i) > f - 1
  <2>1. j \in 1 .. n /\ j < i
    OBVIOUS
  <2>2. E(j) > f - 1
    BY <1>1, <1>4, <2>1
  <2>3. E(j) <= S(i) /\ E(j) \in Nat /\ S(i) \in Nat
    BY <1>2, <2>1
  <2> QED
    BY <2>2, <2>3
<1>5. ASSUME S(i) > f - 1 PROVE \E j \in 1 .. i - 1 : Touches(rs, EditOf(f), j)
  <2> DEFINE T == {j \in 1 .. n : E(j) > f - 1}
  <2>1. i \in T /\ T \subseteq Nat
    BY <1>3
  <2>2. PICK j \in T : \A k \in T : j <= k
    BY <2>1, LeastNumber
  <2>3. j \in 1 .. n /\ E(j) > f - 1 /\ j <= i
    BY <2>1, <2>2
  <2>4. S(j) <= f - 1
    <3>1. CASE j = 1
      BY <1>2, <2>3, <3>1
    <3>2. CASE j # 1
      <4>1. j - 1 \in 1 .. n /\ (j - 1) + 1 = j /\ ~(j <= j - 1)
        BY <2>3, <3>2
      <4>2. ~(E(j - 1) > f - 1)
        BY <2>2, <4>1
      <4>3. E(j - 1) = S(j) /\ E(j - 1) \in Nat
        BY <1>2, <2>3, <4>1
      <4> QED
        BY <4>2, <4>3
    <3> QED
      BY <3>1, <3>2
  <2>5. S(j) \in Nat /\ S(i) \in Nat
    BY <1>2, <2>3
  <2>6. j # i /\ S(j) < f + 2
    BY <1>5, <2>4, <2>5
  <2>7. j \in 1 .. i - 1
    BY <2>3, <2>6
  <2>8. Touches(rs, EditOf(f), j)
    BY <1>1, <2>3, <2>6
  <2> QED
    BY <2>7, <2>8
<1> QED
  BY <1>4, <1>5 DEF S

\* The part of a placeholder that lies in a run.
PartOf(text, f, a, b, e) ==
  /\ e.lo \in Nat /\ e.hi \in Nat
  /\ a + e.lo = Larger(f - 1, a) /\ a + e.hi = Smaller(f + 2, b)
  /\ e.lo <= e.hi /\ e.hi <= b - a /\ (e.lo < e.hi \/ b = a)
  /\ e.value = PlacedBytes(text, a + e.lo, a + e.hi)

LEMMA SubEditIs ==
  ASSUME NEW n \in Nat, NEW rs \in [1 .. n -> Seq(Byte)], NEW i \in 1 .. n,
         NEW f \in Found(Text(rs)), Touches(rs, EditOf(f), i)
  PROVE  PartOf(Text(rs), f, Start(rs, i), End(rs, i), SubEdit(rs, EditOf(f), i))
<1> DEFINE text == Text(rs)
           a == Start(rs, i)
           b == End(rs, i)
           e == SubEdit(rs, EditOf(f), i)
<1>1. text \in Seq(Byte) /\ a \in Nat /\ b \in Nat /\ a <= b /\ b <= Len(text)
  BY RunsLie
<1>2. f \in 1 .. Len(text) /\ f + 2 <= Len(text) /\ Len(text) \in Nat
  <2>1. f \in Found(text)
    OBVIOUS
  <2> HIDE DEF text
  <2> QED
    BY <1>1, <2>1 DEF Found
<1>3. b > f - 1 /\ a < f + 2
  BY DEF Touches, EditOf
<1>4. (\E j \in 1 .. i - 1 : Touches(rs, EditOf(f), j)) <=> a > f - 1
  <2>1. f \in Nat \ {0}
    BY <1>2
  <2> QED
    BY <2>1, FirstTouched
<1>5. e.lo = Larger(f - 1, a) - a /\ e.hi = Smaller(f + 2, b) - a
  BY DEF SubEdit, EditOf
<1>6. e.value = IF a > f - 1 THEN <<>> ELSE <<Value>>
  BY <1>4 DEF SubEdit
<1>7. f \in Found(text)
  OBVIOUS
<1> HIDE DEF text, a, b, e
<1> DEFINE l == Larger(f - 1, a)
           h == Smaller(f + 2, b)
<1>8. /\ l \in Nat /\ h \in Nat /\ a <= l /\ l <= h /\ h <= b /\ (l < h \/ b = a)
      /\ f - 1 <= l /\ h <= f + 2 /\ (l = f - 1 <=> ~(a > f - 1))
      /\ l = h => a > f - 1
  BY <1>1, <1>2, <1>3 DEF Larger, Smaller
<1> HIDE DEF l, h
<1>9. PlacedBytes(text, l, h) = IF a > f - 1 THEN <<>> ELSE <<Value>>
  <2>1. CASE l = h
    <3>1. l \in 0 .. Len(text)
      BY <1>1, <1>8
    <3> QED
      BY <1>1, <1>8, <2>1, <3>1, PlacedNone
  <2>2. CASE l # h
    <3>1. h \in l .. Len(text) /\ l < h
      BY <1>1, <1>8, <2>2
    <3> QED
      BY <1>1, <1>7, <1>8, <3>1, PlacedInside
  <2> QED
    BY <2>1, <2>2
<1>10. e.lo = l - a /\ e.hi = h - a
  BY <1>5 DEF l, h
<1>11. e.lo \in Nat /\ e.hi \in Nat /\ a + e.lo = l /\ a + e.hi = h
       /\ e.lo <= e.hi /\ e.hi <= b - a /\ (e.lo < e.hi \/ b = a)
  BY <1>1, <1>8, <1>10
<1>12. PartOf(text, f, a, b, e)
  BY <1>6, <1>9, <1>11 DEF PartOf, l, h
<1> QED
  BY <1>12 DEF text, a, b, e

LEMMA RunFilled ==
  ASSUME NEW n \in Nat, NEW rs \in [1 .. n -> Seq(Byte)], NEW i \in 1 .. n, KnownBefore(Text(rs))
  PROVE  FillParagraph(rs)[i] = PlacedBytes(Text(rs), Start(rs, i), End(rs, i))
<1> DEFINE text == Text(rs)
           a == Start(rs, i)
           b == End(rs, i)
           run == rs[i]
           touched == {f \in Found(text) : Touches(rs, EditOf(f), i)}
           part(f) == SubEdit(rs, EditOf(f), i)
           edits == {part(f) : f \in touched}
<1>1. /\ text \in Seq(Byte) /\ a \in Nat /\ b \in Nat /\ a <= b /\ b <= Len(text) /\ Len(text) \in Nat
      /\ run \in Seq(Byte) /\ b = a + Len(run) /\ Len(run) \in Nat
      /\ \A k \in 1 .. Len(run) : run[k] = text[a + k]
  <2>1. /\ text \in Seq(Byte) /\ a \in Nat /\ b \in Nat /\ a <= b /\ b <= Len(text)
        /\ b = a + Len(run) /\ \A k \in 1 .. Len(run) : text[a + k] = run[k]
    BY RunsLie
  <2>2. run \in Seq(Byte)
    OBVIOUS
  <2> HIDE DEF text, a, b, run
  <2> QED
    BY <2>1, <2>2
<1>2. FillParagraph(rs)[i] = EditRun(run, edits)
  <2> DEFINE all == {[from |-> MapPos(text, m), to |-> MapPos(text, m + 3)] : m \in Matches(Unescape(text))}
             mine == {d \in all : Touches(rs, d, i)}
  <2>1. all = {EditOf(f) : f \in Found(text)}
    BY <1>1, EditsAreFound
  <2>2. FillParagraph(rs)[i] = EditRun(run, {SubEdit(rs, e, i) : e \in mine})
    BY DEF FillParagraph
  <2> HIDE DEF all
  <2>3. {SubEdit(rs, e, i) : e \in mine} = edits
    <3>1. \A e : e \in mine <=> \E f \in Found(text) : e = EditOf(f) /\ Touches(rs, e, i)
      BY <2>1
    <3> HIDE DEF mine
    <3> QED
      BY <3>1
  <2> QED
    BY <2>2, <2>3
<1>3. ASSUME NEW f \in touched PROVE PartOf(text, f, a, b, part(f))
  BY SubEditIs
<1>4. \A f \in Found(text) : f \in touched <=> b > f - 1 /\ a < f + 2
  BY DEF Touches, EditOf
<1>5. \A e \in edits : \E f \in touched : e = part(f)
  OBVIOUS
<1>6. \A f \in touched : part(f) \in edits /\ f \in Found(text)
  OBVIOUS
<1> HIDE DEF text, a, b, run, touched, part, edits
<1>7. \A f \in Found(text) : f \in Nat
  BY <1>1 DEF Found
<1>8. ASSUME NEW e \in edits
      PROVE  /\ e.lo \in Nat /\ e.hi \in Nat /\ e.lo <= e.hi /\ e.hi <= Len(run)
             /\ e.lo < e.hi \/ Len(run) = 0
             /\ e.value = PlacedBytes(text, a + e.lo, a + e.hi)
  <2>1. PICK f \in touched : e = part(f)
    BY <1>5
  <2>2. PartOf(text, f, a, b, e)
    BY <1>3, <2>1
  <2> QED
    BY <1>1, <2>2 DEF PartOf
<1>9. ASSUME NEW e \in edits, NEW d \in edits PROVE e = d \/ e.hi <= d.lo \/ d.hi <= e.lo
  <2>1. PICK f \in touched, g \in touched : e = part(f) /\ d = part(g)
    BY <1>5
  <2>2. PartOf(text, f, a, b, e) /\ PartOf(text, g, a, b, d)
    BY <1>3, <2>1
  <2>3. f = g \/ f + 3 <= g \/ g + 3 <= f
    <3>1. f \in Found(text) /\ g \in Found(text) /\ f \in Nat /\ g \in Nat
      BY <1>6, <1>7
    <3>2. f < g => f + 3 <= g
      BY <1>1, <3>1, FoundApart
    <3>3. g < f => g + 3 <= f
      BY <1>1, <3>1, FoundApart
    <3> QED
      BY <3>1, <3>2, <3>3
  <2>4. ASSUME NEW x \in Nat, NEW y \in Nat, NEW u, NEW v, x + 3 <= y,
               PartOf(text, x, a, b, u), PartOf(text, y, a, b, v),
               b > y - 1, a < x + 2
        PROVE  u.hi <= v.lo
    <3>1. u.hi \in Nat /\ v.lo \in Nat /\ a + u.hi = Smaller(x + 2, b) /\ a + v.lo = Larger(y - 1, a)
      BY <2>4 DEF PartOf
    <3>2. Smaller(x + 2, b) <= Larger(y - 1, a)
      BY <1>1, <2>4 DEF Smaller, Larger
    <3>3. Smaller(x + 2, b) \in Int /\ Larger(y - 1, a) \in Int
      BY <1>1 DEF Smaller, Larger
    <3> QED
      BY <1>1, <3>1, <3>2, <3>3
  <2>5. b > f - 1 /\ a < f + 2 /\ b > g - 1 /\ a < g + 2 /\ f \in Nat /\ g \in Nat
    BY <1>4, <1>6, <1>7
  <2>6. f + 3 <= g => e.hi <= d.lo
    BY <2>2, <2>4, <2>5
  <2>7. g + 3 <= f => d.hi <= e.lo
    BY <2>2, <2>4, <2>5
  <2> QED
    BY <2>1, <2>3, <2>6, <2>7
<1>10. ASSUME NEW h \in 0 .. Len(run) - 1, ~\E e \in edits : e.lo <= h /\ h < e.hi
       PROVE  Becomes(text, a + h + 1) = <<text[a + h + 1]>>
  <2> DEFINE p == a + h + 1
  <2>1. h \in Nat /\ h < Len(run) /\ p \in Nat /\ p = a + h + 1
    BY <1>1
  <2>2. ASSUME NEW f \in Found(text), f <= p, p <= f + 2 PROVE FALSE
    <3>1. f \in Nat /\ b > f - 1 /\ a < f + 2
      BY <1>1, <1>7, <2>1, <2>2
    <3>2. f \in touched
      BY <1>4, <3>1
    <3>3. PartOf(text, f, a, b, part(f)) /\ part(f) \in edits
      BY <1>3, <1>6, <3>2
    <3>4. PICK lo, hi : lo = part(f).lo /\ hi = part(f).hi
      OBVIOUS
    <3>5. lo \in Nat /\ hi \in Nat /\ a + lo = Larger(f - 1, a) /\ a + hi = Smaller(f + 2, b)
      BY <3>3, <3>4 DEF PartOf
    <3>6. Larger(f - 1, a) <= a + h /\ a + h < Smaller(f + 2, b)
      BY <1>1, <2>1, <2>2, <3>1 DEF Larger, Smaller
    <3>7. lo <= h /\ h < hi
      BY <1>1, <2>1, <3>5, <3>6
    <3> QED
      BY <1>10, <3>3, <3>4, <3>7
  <2>3. p \notin Found(text) /\ p - 1 \notin Found(text) /\ p - 2 \notin Found(text)
    <3>1. p <= p /\ p <= p + 2 /\ p - 1 <= p /\ p <= (p - 1) + 2 /\ p - 2 <= p /\ p <= (p - 2) + 2
      BY <2>1
    <3> HIDE DEF p
    <3> QED
      BY <2>2, <3>1
  <2> QED
    BY <2>3 DEF Becomes
<1>11. RunEdits(text, a, run, edits)
  BY <1>1, <1>8, <1>9, <1>10 DEF RunEdits
<1>12. EditRun(run, edits) = PlacedBytes(text, a, b)
  BY <1>1, <1>11, EditsPlace
<1> QED
  BY <1>2, <1>12 DEF text, a, b, run

-----------------------------------------------------------------------------
(* The paragraph *)

LEMMA EscapedTyped ==
  ASSUME NEW chars \in Seq(Char)
  PROVE  Escaped(chars) \in Seq(Byte)
<1>1. ASSUME NEW ch \in Char PROVE Bytes(ch) \in Seq(Byte)
  <2>1. "&" \in Byte /\ "&#" \in Byte /\ ";" \in Byte /\ (ch \notin {"entity", "numeric"} => ch \in Byte)
    BY DEF Char, Byte
  <2>2. ASSUME NEW x \in Byte PROVE <<x>> \in Seq(Byte)
    OBVIOUS
  <2>3. ASSUME NEW x \in Byte, NEW y \in Byte PROVE <<x, y>> \in Seq(Byte)
    OBVIOUS
  <2>4. \/ Bytes(ch) = <<"&", ";">> \/ Bytes(ch) = <<"&#", ";">>
        \/ ch \notin {"entity", "numeric"} /\ Bytes(ch) = <<ch>>
    BY DEF Bytes
  <2>5. PICK x, y, z : x = "&" /\ y = ";" /\ z = "&#"
    OBVIOUS
  <2>6. x \in Byte /\ y \in Byte /\ z \in Byte
    BY <2>1, <2>5
  <2> QED
    BY <2>1, <2>2, <2>3, <2>4, <2>5, <2>6, Zenon
<1> DEFINE s == [i \in DOMAIN chars |-> Bytes(chars[i])]
<1>2. s \in Seq(Seq(Byte))
  <2>1. DOMAIN chars = 1 .. Len(chars) /\ Len(chars) \in Nat /\ \A i \in 1 .. Len(chars) : chars[i] \in Char
    OBVIOUS
  <2>2. \A i \in 1 .. Len(chars) : Bytes(chars[i]) \in Seq(Byte)
    BY <1>1, <2>1
  <2> QED
    BY <2>1, <2>2
<1> HIDE DEF s
<1>3. FlattenSeq(s) \in Seq(Byte)
  BY <1>2, FlattenTyped
<1> QED
  BY <1>3 DEF Escaped, s

LEMMA TemplateInitTyped == TemplateInit => TemplateTypeOK
<1> SUFFICES ASSUME TemplateInit PROVE TemplateTypeOK
  OBVIOUS
<1>0. PICK n \in 0 .. MaxLength : \E chars \in [1 .. n -> Char], c \in Cuts(n) :
             runs = [i \in 1 .. MaxRuns |-> Escaped(CutAt(chars, c)[i])]
  BY DEF TemplateInit
<1>1. PICK chars \in [1 .. n -> Char], c \in Cuts(n) :
        runs = [i \in 1 .. MaxRuns |-> Escaped(CutAt(chars, c)[i])]
  BY <1>0
<1>2. MaxRuns \in Nat /\ MaxLength \in Nat /\ n \in Nat
  BY TemplateBounds
<1>3. ASSUME NEW i \in 1 .. MaxRuns PROVE Escaped(CutAt(chars, c)[i]) \in Seq(Byte)
  <2>1. c[i - 1] \in 0 .. n /\ c[i] \in 0 .. n
    BY <1>2 DEF Cuts
  <2>2. c[i - 1] + 1 \in Int /\ c[i] \in Int /\ \A k \in c[i - 1] + 1 .. c[i] : chars[k] \in Char
    BY <1>2, <2>1
  <2>3. SubSeq(chars, c[i - 1] + 1, c[i]) \in Seq(Char)
    BY <2>2, SubSeqProperties
  <2> QED
    BY <2>3, EscapedTyped DEF CutAt
<1>4. runs \in [1 .. MaxRuns -> Seq(Byte)]
  BY <1>1, <1>3
<1> QED
  BY <1>4 DEF TemplateInit, TemplateTypeOK

\* The offsets that come back from escapedOffsets are some of the text's, right or wrong.
LEMMA MapPosTyped ==
  ASSUME NEW text \in Seq(Byte), NEW p \in Nat
  PROVE  MapPos(text, p) \in 0 .. Len(text)
<1>0. PICK S, N, C : CharsStart(text, {"&", "&#"}, S, N, C)
  BY StartsAre
<1>1. S = SkipStarts(text) /\ N = Len(text) /\ C = Cardinality(S)
  BY <1>0 DEF CharsStart, SkipStarts
<1>2. N \in Nat /\ C \in Nat /\ \A i \in S : i \in 1 .. N
  BY <1>0, <1>1 DEF CharsStart, CountedUp
<1>3. \A k \in 1 .. C : Nth(S, k) \in S
  BY <1>0, <1>1 DEF CharsStart, NthCounts
<1>4. MapPos(text, p) = IF p >= C THEN N ELSE Nth(S, p + 1) - 1
  BY <1>1, Zenon DEF MapPos
<1>5. ~(p >= C) => Nth(S, p + 1) \in 1 .. N
  BY <1>2, <1>3
<1>6. N \in 0 .. N
  BY <1>2
<1> QED
  BY <1>1, <1>2, <1>4, <1>5, <1>6

\* So what is left of a run is bytes.
LEMMA RunTyped ==
  ASSUME NEW n \in Nat, NEW rs \in [1 .. n -> Seq(Byte)], NEW i \in 1 .. n
  PROVE  FillParagraph(rs)[i] \in Seq(Byte)
<1> DEFINE text == Text(rs)
           all == {[from |-> MapPos(text, m), to |-> MapPos(text, m + 3)] : m \in Matches(Unescape(text))}
           mine == {d \in all : Touches(rs, d, i)}
           edits == {SubEdit(rs, e, i) : e \in mine}
<1>1. FillParagraph(rs)[i] = EditRun(rs[i], edits)
  BY DEF FillParagraph
<1>2. text \in Seq(Byte) /\ Start(rs, i) \in Nat /\ End(rs, i) \in Nat /\ Start(rs, i) <= End(rs, i)
  BY RunsLie
<1>3. \A m \in Matches(Unescape(text)) : m \in Nat /\ m + 3 \in Nat
  BY DEF Matches
<1> HIDE DEF text
<1>4. ASSUME NEW e \in mine PROVE e.from \in Nat /\ e.to \in Nat /\ Touches(rs, e, i)
  <2>1. PICK m \in Matches(Unescape(text)) : e = [from |-> MapPos(text, m), to |-> MapPos(text, m + 3)]
    BY <1>4
  <2>2. MapPos(text, m) \in 0 .. Len(text) /\ MapPos(text, m + 3) \in 0 .. Len(text)
    BY <1>2, <1>3, MapPosTyped
  <2>3. Len(text) \in Nat
    BY <1>2
  <2> QED
    BY <1>4, <2>1, <2>2, <2>3
<1> HIDE DEF all, mine
<1>5. <<>> \in Seq(Byte) /\ <<Value>> \in Seq(Byte)
  <2>1. Value \in Byte
    BY DEF Byte
  <2> HIDE DEF Byte
  <2> QED
    BY <2>1
<1>6. ASSUME NEW d \in edits PROVE d.lo \in Nat /\ d.hi \in Nat /\ d.value \in Seq(Byte)
  <2>1. PICK e \in mine : d = SubEdit(rs, e, i)
    BY <1>6
  <2>2. e.from \in Nat /\ e.to \in Nat /\ End(rs, i) > e.from /\ Start(rs, i) < e.to
    BY <1>4 DEF Touches
  <2>3. /\ Larger(e.from, Start(rs, i)) - Start(rs, i) \in Nat
        /\ Smaller(e.to, End(rs, i)) - Start(rs, i) \in Nat
    BY <1>2, <2>2 DEF Larger, Smaller
  <2>4. d.value = <<>> \/ d.value = <<Value>>
    BY <2>1 DEF SubEdit
  <2>5. d.lo \in Nat /\ d.hi \in Nat
    BY <2>1, <2>3 DEF SubEdit
  <2> QED
    BY <1>5, <2>4, <2>5
<1> HIDE DEF edits
<1>7. rs[i] \in Seq(Byte)
  OBVIOUS
<1> QED
  BY <1>1, <1>6, <1>7, EditRunTyped

LEMMA FillPlaces ==
  ASSUME TemplateTypeOK, Fill
  PROVE  /\ runs' \in [1 .. MaxRuns -> Seq(Byte)]
         /\ KnownBefore(Text(runs)) => RunsAreFilled
<1>1. runs \in [1 .. MaxRuns -> Seq(Byte)] /\ MaxRuns \in Nat /\ DOMAIN runs = 1 .. MaxRuns
  BY TemplateBounds DEF TemplateTypeOK
<1>2. runs' = FillParagraph(runs) /\ DOMAIN FillParagraph(runs) = DOMAIN runs
  BY DEF Fill, FillParagraph
<1>3. ASSUME NEW i \in 1 .. MaxRuns
      PROVE  /\ KnownBefore(Text(runs)) => runs'[i] = PlacedBytes(Text(runs), Start(runs, i), End(runs, i))
             /\ runs'[i] \in Seq(Byte)
  BY <1>1, <1>2, RunFilled, RunTyped
<1>4. runs' = [i \in 1 .. MaxRuns |-> runs'[i]]
  <2>1. FillParagraph(runs) = [i \in DOMAIN runs |-> FillParagraph(runs)[i]]
    BY DEF FillParagraph
  <2> QED
    BY <1>1, <1>2, <2>1
<1>5. runs' \in [1 .. MaxRuns -> Seq(Byte)]
  BY <1>3, <1>4
<1> QED
  BY <1>1, <1>3, <1>5 DEF RunsAreFilled

LEMMA TemplateStepTyped == TemplateTypeOK /\ [Fill]_templateVars => TemplateTypeOK'
<1> SUFFICES ASSUME TemplateTypeOK, [Fill]_templateVars PROVE TemplateTypeOK'
  OBVIOUS
<1>1. CASE Fill
  <2>1. filled' \in BOOLEAN
    BY <1>1 DEF Fill
  <2> QED
    BY <1>1, <2>1, FillPlaces DEF TemplateTypeOK
<1>2. CASE UNCHANGED templateVars
  BY <1>2 DEF TemplateTypeOK, templateVars
<1> QED
  BY <1>1, <1>2

\* Filling leaves runs of bytes, and the value is one. (docxt.fillParagraph)
THEOREM TemplateTyped == TemplateSpec => []TemplateTypeOK
<1>1. TemplateInit => TemplateTypeOK
  BY TemplateInitTyped
<1>2. TemplateTypeOK /\ [Fill]_templateVars => TemplateTypeOK'
  BY TemplateStepTyped
<1> QED
  BY <1>1, <1>2, PTL DEF TemplateSpec

\* However long a paragraph is and however it is cut into runs, filling it changes what the
\* placeholders cover and nothing else, wherever entities stand that unescapeXML knows, and
\* other short ones behind the last placeholder. (docxt.fillParagraph with escapedOffsets: the
\* offsets found among the characters come back as those of bytes.) (One of the
\* others before a placeholder is enough to cut it in the wrong place.)
THEOREM TemplateFilled == TemplateSpec => FilledAsWritten
<1>1. TemplateTypeOK /\ [Fill]_templateVars => [KnownBefore(Text(runs)) => RunsAreFilled]_runs
  <2> SUFFICES ASSUME TemplateTypeOK, Fill PROVE KnownBefore(Text(runs)) => RunsAreFilled
    BY DEF templateVars
  <2> QED
    BY FillPlaces
<1> QED
  BY <1>1, TemplateTyped, PTL DEF TemplateSpec, FilledAsWritten

-----------------------------------------------------------------------------
(* The connection *)

\* What leaves its call with the connection, and what needs it.
Keeping == {"query", "begin", "inside"}
Needing == {"rows", "inside", "commit"}

\* A call, or the rest of one, asks for what needs the connection exactly when what stands
\* before has left it there (h: before the first), and does not end with it.
Fits(s, h) ==
  /\ \A i \in DOMAIN s : s[i] \in Needing <=> (IF i = 1 THEN h ELSE s[i - 1] \in Keeping)
  /\ s # <<>> => s[Len(s)] \notin Keeping

\* What a call asks, or leaves to be done at its end.
Asks == {"statement", "foreign_keys_off", "query", "rows", "begin", "inside", "commit",
         "close", "rollback"}

ConnectionInv ==
  /\ todo \in [Goroutine -> Seq(Asks)] /\ deferred \in [Goroutine -> Seq(Asks)]
  /\ \A g \in Goroutine : Fits(todo[g], conn = g)
  /\ \A g \in Goroutine :
       conn = g => deferred[g] # <<>> /\ Last(deferred[g]) \in {"close", "rollback"}

LEMMA AllAlike ==
  ASSUME NEW S, NEW x \in S, NEW n \in Nat
  PROVE  /\ [i \in 1 .. n |-> x] \in Seq(S) /\ Len([i \in 1 .. n |-> x]) = n
         /\ \A i \in 1 .. n : [j \in 1 .. n |-> x][i] = x
OBVIOUS

LEMMA TwoInSeq ==
  ASSUME NEW S, NEW x \in S, NEW y \in S
  PROVE  /\ <<x>> \in Seq(S)
         /\ <<x, y>> \in Seq(S) /\ Len(<<x, y>>) = 2 /\ <<x, y>>[1] = x /\ <<x, y>>[2] = y
OBVIOUS

LEMMA AppendIs ==
  ASSUME NEW S, NEW s \in Seq(S), NEW x \in S
  PROVE  Append(s, x) \in Seq(S) /\ Append(s, x) # <<>> /\ Last(Append(s, x)) = x
BY DEF Last

LEMMA FrontIs ==
  ASSUME NEW S, NEW s \in Seq(S), s # <<>>
  PROVE  Front(s) \in Seq(S)
BY DEF Front

LEMMA SomeAsks ==
  /\ \A a \in Keeping \union Needing \union {"statement", "foreign_keys_off"} : a \in Asks
  /\ \A a \in {"close", "rollback", "statement"} : a \in Asks
BY DEF Asks, Keeping, Needing

\* One after the other, what fits fits.
LEMMA FitsJoined ==
  ASSUME NEW s \in Seq(Asks), NEW t \in Seq(Asks), Fits(s, FALSE), Fits(t, FALSE)
  PROVE  s \o t \in Seq(Asks) /\ Fits(s \o t, FALSE)
<1> DEFINE u == s \o t
<1>1. /\ u \in Seq(Asks) /\ Len(u) = Len(s) + Len(t) /\ Len(s) \in Nat /\ Len(t) \in Nat
      /\ DOMAIN u = 1 .. Len(u) /\ DOMAIN s = 1 .. Len(s) /\ DOMAIN t = 1 .. Len(t)
      /\ \A i \in 1 .. Len(s) : u[i] = s[i]
      /\ \A i \in 1 .. Len(t) : u[Len(s) + i] = t[i]
  OBVIOUS
<1> HIDE DEF u
<1>2. ASSUME NEW i \in 1 .. Len(u)
      PROVE  u[i] \in Needing <=> (IF i = 1 THEN FALSE ELSE u[i - 1] \in Keeping)
  <2>1. CASE i <= Len(s)
    <3>1. u[i] = s[i] /\ (i # 1 => u[i - 1] = s[i - 1])
      BY <1>1, <2>1
    <3> QED
      BY <1>1, <2>1, <3>1 DEF Fits
  <2>2. CASE i = Len(s) + 1
    <3>1. i - Len(s) = 1 /\ 1 \in DOMAIN t /\ u[i] = t[1]
      BY <1>1, <2>2
    <3>2. u[i] \notin Needing
      BY <3>1 DEF Fits
    <3>3. i # 1 => u[i - 1] \notin Keeping
      BY <1>1, <2>2 DEF Fits
    <3> QED
      BY <3>2, <3>3
  <2>3. CASE i > Len(s) + 1
    <3>1. /\ i - Len(s) \in DOMAIN t /\ i - Len(s) # 1
          /\ u[i] = t[i - Len(s)] /\ u[i - 1] = t[(i - Len(s)) - 1] /\ i # 1
      <4>1. i - Len(s) \in 1 .. Len(t) /\ (i - Len(s)) - 1 \in 1 .. Len(t)
        BY <1>1, <2>3
      <4>2. Len(s) + (i - Len(s)) = i /\ Len(s) + ((i - Len(s)) - 1) = i - 1
        BY <1>1, <2>3
      <4> QED
        BY <1>1, <2>3, <4>1, <4>2
    <3> QED
      BY <3>1 DEF Fits
  <2> QED
    BY <1>1, <2>1, <2>2, <2>3
<1>3. u # <<>> => u[Len(u)] \notin Keeping
  <2>1. CASE Len(t) = 0
    BY <1>1, <2>1 DEF Fits
  <2>2. CASE Len(t) > 0
    <3>1. u[Len(u)] = t[Len(t)] /\ t # <<>>
      BY <1>1, <2>2
    <3> QED
      BY <3>1 DEF Fits
  <2> QED
    BY <1>1, <2>1, <2>2
<1> QED
  BY <1>1, <1>2, <1>3 DEF Fits, u

LEMMA FitsTail ==
  ASSUME NEW s \in Seq(Asks), NEW h \in BOOLEAN, Fits(s, h), s # <<>>
  PROVE  Tail(s) \in Seq(Asks) /\ Fits(Tail(s), Head(s) \in Keeping)
<1> DEFINE u == Tail(s)
<1>1. /\ u \in Seq(Asks) /\ Len(u) = Len(s) - 1 /\ Len(s) \in Nat \ {0} /\ Head(s) = s[1]
      /\ DOMAIN u = 1 .. Len(u) /\ DOMAIN s = 1 .. Len(s)
      /\ \A i \in 1 .. Len(u) : u[i] = s[i + 1]
  OBVIOUS
<1> HIDE DEF u
<1>2. ASSUME NEW i \in 1 .. Len(u)
      PROVE  u[i] \in Needing <=> (IF i = 1 THEN Head(s) \in Keeping ELSE u[i - 1] \in Keeping)
  <2>1. i + 1 \in DOMAIN s /\ i + 1 # 1 /\ (i + 1) - 1 = i /\ u[i] = s[i + 1]
    BY <1>1
  <2>2. s[i + 1] \in Needing <=> s[i] \in Keeping
    BY <2>1 DEF Fits
  <2>3. i # 1 => u[i - 1] = s[i]
    <3>1. i # 1 => i - 1 \in 1 .. Len(u) /\ (i - 1) + 1 = i
      BY <1>1
    <3> QED
      BY <1>1, <3>1
  <2> QED
    BY <1>1, <2>1, <2>2, <2>3
<1>3. u # <<>> => u[Len(u)] \notin Keeping
  <2>1. u # <<>> => Len(u) \in 1 .. Len(u) /\ Len(u) + 1 = Len(s)
    BY <1>1
  <2> QED
    BY <1>1, <2>1 DEF Fits
<1> QED
  BY <1>1, <1>2, <1>3 DEF Fits, u

LEMMA StatementsFit ==
  ASSUME NEW n \in Nat PROVE Statements(n) \in Seq(Asks) /\ Fits(Statements(n), FALSE)
<1> DEFINE s == Statements(n)
<1>0. "statement" \in Asks
  BY SomeAsks
<1>1. /\ s \in Seq(Asks) /\ Len(s) = n /\ DOMAIN s = 1 .. n
      /\ \A i \in 1 .. n : s[i] = "statement"
  BY <1>0, AllAlike DEF Statements
<1> HIDE DEF s
<1>2. \A i \in 1 .. n : i # 1 => i - 1 \in 1 .. n
  OBVIOUS
<1>3. s # <<>> => n \in 1 .. n
  BY <1>1
<1>4. s[n] \notin Keeping \/ n = 0
  BY <1>1 DEF Keeping
<1>5. \A i \in 1 .. n : s[i] \notin Needing /\ (i # 1 => s[i - 1] \notin Keeping)
  BY <1>1, <1>2 DEF Needing, Keeping
<1>6. Fits(s, FALSE)
  BY <1>1, <1>3, <1>4, <1>5 DEF Fits
<1> QED
  BY <1>1, <1>6 DEF s

LEMMA Framed ==
  ASSUME NEW S, NEW a \in S, NEW m \in Seq(S), NEW b \in S
  PROVE  LET s == <<a>> \o m \o <<b>>
         IN  /\ s \in Seq(S) /\ Len(s) = Len(m) + 2 /\ DOMAIN s = 1 .. Len(m) + 2
             /\ s[1] = a /\ s[Len(m) + 2] = b
             /\ \A i \in 2 .. Len(m) + 1 : i - 1 \in 1 .. Len(m) /\ s[i] = m[i - 1]
OBVIOUS

LEMMA TransactionFits ==
  ASSUME NEW n \in Nat PROVE Transaction(n) \in Seq(Asks) /\ Fits(Transaction(n), FALSE)
<1> DEFINE s == Transaction(n)
           m == [i \in 1 .. n |-> "inside"]
<1>0. "inside" \in Asks /\ "begin" \in Asks /\ "commit" \in Asks
  BY SomeAsks DEF Keeping, Needing
<1>1. m \in Seq(Asks) /\ Len(m) = n /\ \A i \in 1 .. n : m[i] = "inside"
  BY <1>0, AllAlike
<1>2. s = <<"begin">> \o m \o <<"commit">>
  BY Zenon DEF Transaction
<1> HIDE DEF m, s
<1>3. /\ s \in Seq(Asks) /\ Len(s) = n + 2 /\ DOMAIN s = 1 .. n + 2
      /\ s[1] = "begin" /\ s[n + 2] = "commit" /\ \A i \in 2 .. n + 1 : s[i] = "inside"
  BY <1>0, <1>1, <1>2, Framed
<1>4. ASSUME NEW i \in 1 .. n + 2
      PROVE  s[i] \in Needing <=> (IF i = 1 THEN FALSE ELSE s[i - 1] \in Keeping)
  <2>1. CASE i = 1
    BY <1>3, <2>1 DEF Needing
  <2>2. CASE i # 1
    <3>1. s[i] \in {"inside", "commit"}
      <4>1. i \in 2 .. n + 1 \/ i = n + 2
        BY <2>2
      <4> QED
        BY <1>3, <4>1
    <3>2. s[i - 1] \in {"begin", "inside"}
      <4>1. i - 1 \in 2 .. n + 1 \/ i - 1 = 1
        BY <2>2
      <4> QED
        BY <1>3, <4>1
    <3> QED
      BY <2>2, <3>1, <3>2 DEF Needing, Keeping
  <2> QED
    BY <2>1, <2>2
<1>5. Fits(s, FALSE)
  BY <1>3, <1>4 DEF Fits, Keeping
<1> QED
  BY <1>3, <1>5 DEF s

LEMMA RowsFit ==
  /\ List \in Seq(Asks) /\ Fits(List, FALSE)
  /\ <<"foreign_keys_off">> \in Seq(Asks) /\ Fits(<<"foreign_keys_off">>, FALSE)
<1>0. "query" \in Asks /\ "rows" \in Asks /\ "foreign_keys_off" \in Asks
  BY SomeAsks DEF Keeping, Needing
<1>1. List \in Seq(Asks) /\ Len(List) = 2 /\ List[1] = "query" /\ List[2] = "rows"
  BY <1>0, TwoInSeq, Zenon DEF List
<1>4. <<"foreign_keys_off">> \in Seq(Asks)
  BY <1>0, TwoInSeq, Zenon
<1>2. Fits(List, FALSE)
  <2>1. DOMAIN List = 1 .. 2 /\ \A i \in 1 .. 2 : i = 1 \/ i = 2
    BY <1>1
  <2> QED
    BY <1>1, <2>1 DEF Fits, Needing, Keeping
<1>3. Fits(<<"foreign_keys_off">>, FALSE)
  BY DEF Fits, Needing, Keeping
<1> QED
  BY <1>1, <1>2, <1>3, <1>4

\* Every call of the store asks for nothing that needs the connection without having taken it,
\* for nothing else while it has it, and ends without it.
LEMMA CallsFit ==
  ASSUME NEW call \in Calls PROVE call \in Seq(Asks) /\ Fits(call, FALSE)
<1> DEFINE Good(s) == s \in Seq(Asks) /\ Fits(s, FALSE)
<1>1. \A s, t : Good(s) /\ Good(t) => Good(s \o t)
  BY FitsJoined
<1>2. Good(Statements(1)) /\ Good(Statements(2)) /\ Good(Statements(4)) /\ Good(Statements(5))
  BY StatementsFit
<1>3. Good(Transaction(2)) /\ Good(Transaction(3)) /\ Good(Transaction(5))
  BY TransactionFits
<1>4. Good(List) /\ Good(<<"foreign_keys_off">>)
  BY RowsFit
<1> HIDE DEF Good
<1>5. Good(Counts) /\ Good(ResetVotes) /\ Good(AcceptCandidacy) /\ Good(ReturnCandidacy)
  BY <1>1, <1>2, <1>3, <1>4, Zenon DEF Counts, ResetVotes, AcceptCandidacy, ReturnCandidacy
<1>6. Good(ChangeCandidacyRole) /\ Good(ApproveApplication) /\ Good(DeleteUser)
  BY <1>1, <1>2, <1>3, Zenon DEF ChangeCandidacyRole, ApproveApplication, DeleteUser
<1>7. Good(ReorderFields) /\ Good(SeedMembers) /\ Good(widenApplicationStatus)
  BY <1>1, <1>2, <1>3, <1>4, Zenon DEF ReorderFields, SeedMembers, widenApplicationStatus
<1>8. Good(CastBallot)
  BY <1>1, <1>2, <1>3, <1>4, Zenon DEF CastBallot
<1>9. Good(call)
  BY <1>2, <1>4, <1>5, <1>6, <1>7, <1>8, Zenon DEF Calls
<1> QED
  BY <1>9 DEF Good

LEMMA ConnectionStep ==
  ASSUME ConnectionInv, ConnectionNext PROVE ConnectionInv'
<1>0. Fits(<<>>, TRUE) /\ Fits(<<>>, FALSE) /\ <<>> \in Seq(Asks)
  BY DEF Fits
<1>1. CASE Restart
  <2>1. \A g \in Goroutine : conn' # g /\ todo'[g] = <<>>
    BY <1>1, ConnectionAssumption DEF Restart
  <2> QED
    BY <1>0, <1>1, <2>1 DEF ConnectionInv, Restart
<1>2. ASSUME NEW g \in Goroutine, Call(g) PROVE ConnectionInv'
  <2>1. PICK call \in Calls : todo' = [todo EXCEPT ![g] = call]
    BY <1>2 DEF Call
  <2>2. call \in Seq(Asks) /\ Fits(call, FALSE)
    BY CallsFit
  <2>3. conn # g /\ UNCHANGED <<conn, deferred>>
    BY <1>2 DEF Call, ConnectionInv
  <2>4. todo' \in [Goroutine -> Seq(Asks)]
    BY <2>1, <2>2 DEF ConnectionInv
  <2>5. ASSUME NEW h \in Goroutine PROVE Fits(todo'[h], conn' = h)
    BY <2>1, <2>2, <2>3 DEF ConnectionInv
  <2> QED
    BY <2>3, <2>4, <2>5 DEF ConnectionInv
<1>3. ASSUME NEW g \in Goroutine, CallStep(g) PROVE ConnectionInv'
  <2>1. /\ todo[g] \in Seq(Asks) /\ Fits(todo[g], conn = g) /\ (conn = g) \in BOOLEAN
        /\ deferred[g] \in Seq(Asks) /\ Free # g
    BY ConnectionAssumption DEF ConnectionInv
  <2>2. \/ /\ todo[g] # <<>> /\ todo' = [todo EXCEPT ![g] = Tail(@)]
           /\ conn' = g <=> Head(todo[g]) \in Keeping
        \/ todo' = [todo EXCEPT ![g] = <<>>]
    <3>1. CASE Statement(g)
      BY <2>1, <3>1 DEF Statement, Has, GoOn, Leave, Keeping
    <3>2. CASE ForeignKeysOff(g)
      BY <2>1, <3>2 DEF ForeignKeysOff, Has, GoOn, Leave, Keeping
    <3>3. CASE Query(g)
      BY <2>1, <3>3 DEF Query, Keep, Has, GoOn, Leave, Keeping
    <3>4. CASE Begin(g)
      BY <2>1, <3>4 DEF Begin, Keep, Has, GoOn, Leave, Keeping
    <3>5. CASE Rows(g)
      BY <2>1, <3>5 DEF Rows, Has, GoOn, Leave, Keeping
    <3>6. CASE Inside(g)
      BY <2>1, <3>6 DEF Inside, Has, GoOn, Leave, Keeping
    <3>7. CASE Commit(g)
      BY <2>1, <3>7 DEF Commit, Has, GoOn, Leave, Keeping
    <3>8. CASE RunDeferred(g)
      BY <2>1, <3>8 DEF RunDeferred, ConnectionInv
    <3> QED
      BY <1>3, <3>1, <3>2, <3>3, <3>4, <3>5, <3>6, <3>7, <3>8 DEF CallStep
  <2>3. \A h \in Goroutine \ {g} : conn' = h <=> conn = h
    BY <1>3, ConnectionAssumption DEF CallStep, Statement, ForeignKeysOff, Query, Begin, Keep, Rows, Inside,
       Commit, RunDeferred
  <2>4. /\ deferred' \in [Goroutine -> Seq(Asks)]
        /\ \A h \in Goroutine \ {g} : deferred'[h] = deferred[h]
        /\ conn' = g => deferred'[g] # <<>> /\ Last(deferred'[g]) \in {"close", "rollback"}
    <3>1. CASE UNCHANGED deferred /\ (conn' = g => conn = g)
      BY <3>1 DEF ConnectionInv
    <3>2. CASE \E d \in {"close", "rollback"} : Defer(g, d)
      <4>1. PICK d \in {"close", "rollback"} : deferred' = [deferred EXCEPT ![g] = Append(@, d)]
        BY <3>2 DEF Defer
      <4>2. deferred'[g] = Append(deferred[g], d) /\ d \in Asks
        BY <4>1, SomeAsks DEF ConnectionInv
      <4>3. deferred'[g] \in Seq(Asks) /\ deferred'[g] # <<>> /\ Last(deferred'[g]) = d
        <5>1. /\ Append(deferred[g], d) \in Seq(Asks) /\ Append(deferred[g], d) # <<>>
              /\ Last(Append(deferred[g], d)) = d
          BY <2>1, <4>2, AppendIs
        <5> QED
          BY <4>2, <5>1
      <4> QED
        BY <4>1, <4>3 DEF ConnectionInv
    <3>3. CASE Defer(g, "statement") /\ conn' # g
      <4>1. Append(deferred[g], "statement") \in Seq(Asks)
        <5>1. "statement" \in Asks
          BY SomeAsks
        <5> QED
          BY <2>1, <5>1, AppendIs, Zenon
      <4> QED
        BY <3>3, <4>1 DEF Defer, ConnectionInv
    <3>4. CASE RunDeferred(g)
      <4>1. Front(deferred[g]) \in Seq(Asks)
        BY <2>1, <3>4, FrontIs DEF RunDeferred
      <4>2. conn' # g
        BY <2>1, <3>4 DEF RunDeferred
      <4> QED
        BY <3>4, <4>1, <4>2 DEF RunDeferred, ConnectionInv
    <3> QED
      BY <1>3, <2>1, <3>1, <3>2, <3>3, <3>4 DEF CallStep, Statement, ForeignKeysOff, Query, Begin, Keep, Rows,
         Inside, Commit
  <2>5. todo' \in [Goroutine -> Seq(Asks)] /\ Fits(todo'[g], conn' = g)
    <3>1. CASE /\ todo[g] # <<>> /\ todo' = [todo EXCEPT ![g] = Tail(@)]
               /\ conn' = g <=> Head(todo[g]) \in Keeping
      <4>1. Tail(todo[g]) \in Seq(Asks) /\ Fits(Tail(todo[g]), Head(todo[g]) \in Keeping)
        BY <2>1, <3>1, FitsTail
      <4> QED
        BY <3>1, <4>1 DEF ConnectionInv, Fits
    <3>2. CASE todo' = [todo EXCEPT ![g] = <<>>]
      <4>1. todo'[g] = <<>>
        BY <3>2 DEF ConnectionInv
      <4> QED
        BY <1>0, <3>2, <4>1 DEF ConnectionInv, Fits
    <3> QED
      BY <2>2, <3>1, <3>2
  <2>6. \A h \in Goroutine \ {g} : Fits(todo'[h], conn' = h)
    <3>1. \A h \in Goroutine \ {g} : todo'[h] = todo[h]
      BY <2>2 DEF ConnectionInv
    <3> QED
      BY <2>3, <3>1 DEF ConnectionInv, Fits
  <2> QED
    BY <2>3, <2>4, <2>5, <2>6 DEF ConnectionInv
<1> QED
  BY <1>1, <1>2, <1>3 DEF ConnectionNext

LEMMA ConnectionInitInv == ConnectionInit => ConnectionInv
<1> SUFFICES ASSUME ConnectionInit PROVE ConnectionInv
  OBVIOUS
<1>1. \A g \in Goroutine : conn # g /\ todo[g] = <<>>
  BY ConnectionAssumption DEF ConnectionInit
<1> QED
  BY <1>1 DEF ConnectionInit, ConnectionInv, Fits

\* No call of the store keeps the one connection of Open without something left to do that
\* gives it back: for any number of goroutines, calls that fail or return anywhere, and stops.
THEOREM ConnectionGoesRound == ConnectionSpec => []ConnectionComesBack
<1>1. ConnectionInv /\ [ConnectionNext]_connectionVars => ConnectionInv'
  <2>1. ASSUME ConnectionInv, UNCHANGED connectionVars PROVE ConnectionInv'
    BY <2>1 DEF connectionVars, ConnectionInv, Fits
  <2> QED
    BY <2>1, ConnectionStep
<1>2. ConnectionInv => ConnectionComesBack
  <2> SUFFICES ASSUME ConnectionInv, NEW g \in Goroutine, conn = g, todo[g] # <<>>
               PROVE  Head(todo[g]) \in {"rows", "inside", "commit"}
    BY DEF ConnectionComesBack, ConnectionInv
  <2>1. todo[g] \in Seq(Asks) /\ Fits(todo[g], TRUE)
    BY DEF ConnectionInv, Fits
  <2>2. 1 \in DOMAIN todo[g] /\ Head(todo[g]) = todo[g][1]
    BY <2>1
  <2> QED
    BY <2>1, <2>2 DEF Fits, Needing
<1> QED
  BY <1>1, <1>2, ConnectionInitInv, PTL DEF ConnectionSpec

-----------------------------------------------------------------------------
(* The parts beside each other *)

PartsNext == PhotosTurn \/ WorkbookTurn \/ FormTurn \/ LimiterTurn \/ TemplateTurn \/ AgesTurn
             \/ ConnectionTurn

\* One part is taken up and the others stay where they are, so what is shown of a part by
\* itself is so of it here: the photographs of SubmitCandidacy's handler, the workbook of
\* export.go, the form of store/form.go, the limiter of rateLimiter.allow and the connection
\* of Open.
THEOREM PartsAreEachOfThem ==
  PartsSpec => PhotosSpec /\ WorkbookSpec /\ FormSpec /\ LimiterSpec /\ ConnectionSpec
<1>1. PartsInit => PhotosInit /\ WorkbookInit /\ FormInit /\ LimiterInit /\ ConnectionInit
  BY DEF PartsInit
<1>2. [PartsNext]_partsVars => /\ [PhotosNext]_photoVars /\ [WorkbookNext]_workbookVars
                               /\ [FormNext]_formVars /\ [LimiterNext]_limiterVars
                               /\ [ConnectionNext]_connectionVars
  BY DEF PartsNext, partsVars, PhotosTurn, WorkbookTurn, FormTurn, LimiterTurn, TemplateTurn,
     AgesTurn, ConnectionTurn
<1> QED
  BY <1>1, <1>2, PTL DEF PartsSpec, PhotosSpec, WorkbookSpec, FormSpec, LimiterSpec, ConnectionSpec,
     PartsNext

LEMMA PartsInitTemplate == PartsInit => TemplateTypeOK
<1> SUFFICES ASSUME PartsInit PROVE TemplateTypeOK
  OBVIOUS
<1>1. CASE turn = "template"
  BY <1>1, TemplateInitTyped DEF PartsInit
<1>2. CASE turn # "template"
  <2>1. <<>> \in Seq(Byte)
    OBVIOUS
  <2>2. runs = [i \in 1 .. MaxRuns |-> <<>>] /\ filled = TRUE
    BY <1>2 DEF PartsInit
  <2> HIDE DEF Byte
  <2> QED
    BY <2>1, <2>2 DEF TemplateTypeOK
<1> QED
  BY <1>1, <1>2

LEMMA PartsStepTemplate == [PartsNext]_partsVars => [Fill]_templateVars
BY DEF PartsNext, partsVars, PhotosTurn, WorkbookTurn, FormTurn, LimiterTurn, TemplateTurn, AgesTurn,
   ConnectionTurn

\* All that the parts keep has its type, however they are taken up: a candidacy its
\* photograph, a path whole files, the form its core questions, a bucket ages that count, a
\* paragraph its runs.
THEOREM PartsTyped == PartsSpec => []PartsTypeOK
<1>1. PartsSpec => []TemplateTypeOK
  <2>1. TemplateTypeOK /\ [PartsNext]_partsVars => TemplateTypeOK'
    BY PartsStepTemplate, TemplateStepTyped
  <2> QED
    BY <2>1, PartsInitTemplate, PTL DEF PartsSpec, PartsNext
<1>2. PhotosTypeOK /\ WorkbookTypeOK /\ FormTypeOK /\ LimiterTypeOK /\ TemplateTypeOK => PartsTypeOK
  BY DEF PartsTypeOK
<1> QED
  BY <1>1, <1>2, PartsAreEachOfThem, PhotosTyped, WorkbookTyped, FormTyped, LimiterKeepsItsWord, PTL

\* Among the other parts a paragraph is filled as it is alone, under the same condition on the
\* entities before its placeholders. (docxt.fillParagraph)
THEOREM PartsFillParagraphs == PartsSpec => FilledAsWritten
<1>1. TemplateTypeOK /\ [PartsNext]_partsVars => [KnownBefore(Text(runs)) => RunsAreFilled]_runs
  <2> SUFFICES ASSUME TemplateTypeOK, [Fill]_templateVars
               PROVE  [KnownBefore(Text(runs)) => RunsAreFilled]_runs
    BY PartsStepTemplate
  <2> QED
    BY FillPlaces DEF templateVars
<1>2. PartsSpec => []TemplateTypeOK
  <2>1. PartsTypeOK => TemplateTypeOK
    BY DEF PartsTypeOK
  <2> QED
    BY <2>1, PartsTyped, PTL
<1> QED
  BY <1>1, <1>2, PTL DEF PartsSpec, PartsNext, FilledAsWritten

\* Among the other parts, too, whoever has the connection of Open gives it back.
THEOREM PartsConnectionGoesRound == PartsSpec => []ConnectionComesBack
BY PartsAreEachOfThem, ConnectionGoesRound, PTL
=============================================================================
