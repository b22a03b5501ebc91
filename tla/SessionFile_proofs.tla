------------------------ MODULE SessionFile_proofs ------------------------
(***************************************************************************)
(* The session manager and its file, for any number of entries and of       *)
(* damaged writes: types, the file against the memory, the refinement of    *)
(* the append-only tree, that results follow their calls in what is sent    *)
(* to the model, what a fork takes over, and what a compaction keeps.       *)
(*                                                                         *)
(* Paths, contexts and forks are made by functions that are defined by      *)
(* recursion.  What they yield is proved here from the defining equations,  *)
(* by least counterexample: first for Only, then for the path of an entry,  *)
(* then for the list a fork makes.  The invariant and the steps come after. *)
(***************************************************************************)
EXTENDS SessionFile, SequenceTheorems, FiniteSetTheorems,
        WellFoundedInduction, TLAPS

(* The least and the greatest element of a set of numbers.                  *)
FirstOf(S) == CHOOSE i \in S : \A j \in S : i <= j
LastOf(S) == CHOOSE i \in S : \A j \in S : j <= i

-----------------------------------------------------------------------------
LEMMA FirstIs ==
    ASSUME NEW S, S \subseteq Nat, S # {}
    PROVE  FirstOf(S) \in S /\ \A j \in S : FirstOf(S) <= j
<1>1. \E x \in S : \A y \in S : ~(<<y, x>> \in OpToRel(<, Nat))
  BY NatLessThanWellFounded, WFMin
<1>2. PICK x \in S : \A y \in S : ~(<<y, x>> \in OpToRel(<, Nat))
  BY <1>1
<1>3. \A y \in S : ~(y < x)
  BY <1>2 DEF OpToRel
<1>4. \A y \in S : x <= y
  BY <1>3
<1>. QED  BY <1>4 DEF FirstOf


LEMMA LastIs ==
    ASSUME NEW n \in Nat, NEW S, S \subseteq 1 .. n, S # {}
    PROVE  LastOf(S) \in S /\ \A j \in S : j <= LastOf(S)
<1> DEFINE T == {n - i : i \in S}
<1>1. T \subseteq Nat /\ T # {}
  <2>1. \A i \in S : n - i \in Nat
    OBVIOUS
  <2>. QED  BY <2>1
<1>2. FirstOf(T) \in T /\ \A j \in T : FirstOf(T) <= j
  BY <1>1, FirstIs
<1>3. PICK x \in S : \A j \in S : n - x <= n - j
  BY <1>2
<1>4. \A j \in S : j <= x
  BY <1>3
<1>. QED  BY <1>4 DEF LastOf


LEMMA ConcatIs ==
    ASSUME NEW S, NEW s \in Seq(S), NEW t \in Seq(S)
    PROVE  /\ s \o t \in Seq(S) /\ Len(s \o t) = Len(s) + Len(t)
           /\ \A i \in 1 .. Len(s) : (s \o t)[i] = s[i]
           /\ \A i \in 1 .. Len(t) : (s \o t)[Len(s) + i] = t[i]
           /\ \A k \in 1 .. Len(s \o t) :
                 k \in 1 .. Len(s) \/ \E i \in 1 .. Len(t) : k = Len(s) + i
<1> DEFINE r == s \o t
           n == Len(s)
           h == Len(t)
<1>1. /\ r \in Seq(S) /\ Len(r) = n + h
      /\ \A i \in 1 .. n + h : r[i] = IF i <= n THEN s[i] ELSE t[i - n]
  BY ConcatProperties
<1>2. n \in Nat /\ h \in Nat
  BY LenProperties
<1>. HIDE DEF r, n, h
<1>3. \A i \in 1 .. n : i \in 1 .. n + h /\ i <= n
  BY <1>2
<1>4. \A i \in 1 .. h : n + i \in 1 .. n + h /\ ~(n + i <= n) /\ (n + i) - n = i
  BY <1>2
<1>5. \A k \in 1 .. n + h : k \in 1 .. n \/ (k - n \in 1 .. h /\ k = n + (k - n))
  BY <1>2
<1>6. \A i \in 1 .. n : r[i] = s[i]
  BY <1>1, <1>3
<1>7. \A i \in 1 .. h : r[n + i] = t[i]
  BY <1>1, <1>4
<1>. QED  BY <1>1, <1>5, <1>6, <1>7 DEF r, n, h

LEMMA ConcatLen ==
    ASSUME NEW S, NEW s \in Seq(S), NEW t \in Seq(S)
    PROVE  Len(s \o t) = Len(s) + Len(t)
BY ConcatIs

LEMMA ConcatSecond ==
    ASSUME NEW S, NEW s \in Seq(S), NEW t \in Seq(S)
    PROVE  \A i \in 1 .. Len(t) : (s \o t)[Len(s) + i] = t[i]
BY ConcatIs

-----------------------------------------------------------------------------
(* What Only takes from a sequence.                                         *)

Nothing == <<>>

(* The function that Only is defined by, one element at a time.             *)
Takes(f, n, s, I) ==
    /\ f[0] = Nothing
    /\ \A i \in 1 .. n : f[i] = IF i \in I THEN Append(f[i - 1], s[i]) ELSE f[i - 1]

LEMMA NothingIs == ASSUME NEW S PROVE Nothing \in Seq(S)
BY EmptySeq DEF Nothing

LEMMA TakesExists ==
    ASSUME NEW S, NEW n \in Nat, NEW s, \A i \in 1 .. n : s[i] \in S, NEW I
    PROVE  \E f : Takes(f, n, s, I) /\ \A i \in 0 .. n : f[i] \in Seq(S)
<1> DEFINE To(f, k) == Takes(f, k, s, I) /\ \A i \in 0 .. k : f[i] \in Seq(S)
           Bad == {k \in 0 .. n : ~\E f : To(f, k)}
<1>1. Bad = {}
  <2> SUFFICES ASSUME Bad # {} PROVE FALSE
    OBVIOUS
  <2> DEFINE k == FirstOf(Bad)
  <2>1. k \in Bad /\ \A j \in Bad : k <= j
    <3>1. Bad \subseteq Nat
      OBVIOUS
    <3>. HIDE DEF Bad
    <3>. QED  BY <3>1, FirstIs
  <2>. HIDE DEF k
  <2>2. k \in 0 .. n /\ ~\E f : To(f, k)
    BY <2>1
  <2>3. k # 0
    <3> DEFINE f == [i \in 0 .. 0 |-> Nothing]
    <3>1. f[0] = Nothing /\ \A i \in 0 .. 0 : f[i] = Nothing
      OBVIOUS
    <3>2. \A i \in 1 .. 0 : FALSE
      OBVIOUS
    <3>. HIDE DEF f
    <3>3. To(f, 0)
      BY <3>1, <3>2, NothingIs DEF Takes
    <3>. HIDE DEF To, Bad
    <3>. QED  BY <2>2, <3>3
  <2>4. k - 1 \in 0 .. n /\ k \in 1 .. n /\ ~(k <= k - 1)
    BY <2>2, <2>3
  <2>5. k - 1 \notin Bad
    BY <2>1, <2>4
  <2>6. PICK f : To(f, k - 1)
    BY <2>4, <2>5
  <2> DEFINE step == IF k \in I THEN Append(f[k - 1], s[k]) ELSE f[k - 1]
             g == [i \in 0 .. k |-> IF i = k THEN step ELSE f[i]]
  <2>7. step \in Seq(S)
    <3>1. k - 1 \in 0 .. k - 1
      BY <2>4
    <3>2. f[k - 1] \in Seq(S) /\ s[k] \in S
      BY <2>4, <2>6, <3>1
    <3>. QED  BY <3>2, AppendProperties
  <2>8. To(g, k)
    <3>1. /\ \A i \in 1 .. k : i \in 0 .. k /\ i - 1 \in 0 .. k /\ i - 1 # k
          /\ \A i \in 1 .. k : i = k \/ i \in 1 .. k - 1
          /\ \A i \in 0 .. k : i = k \/ (i # k /\ i \in 0 .. k - 1)
          /\ \A i \in 1 .. k - 1 : i # k /\ i \in 0 .. k
          /\ 0 \in 0 .. k /\ 0 # k /\ k \in 0 .. k
      BY <2>4
    <3>. HIDE DEF step
    <3>2. \A i \in 0 .. k - 1 : f[i] \in Seq(S)
      BY <2>6
    <3>3. \A i \in 0 .. k : g[i] = IF i = k THEN step ELSE f[i]
      OBVIOUS
    <3>. HIDE DEF g
    <3>4. f[0] = Nothing
      BY <2>6 DEF Takes
    <3>5. \A i \in 0 .. k : g[i] \in Seq(S)
      BY <2>7, <3>1, <3>2, <3>3
    <3>6. g[0] = Nothing /\ g[k] = step /\ \A i \in 1 .. k : g[i - 1] = f[i - 1]
      BY <3>1, <3>3, <3>4
    <3>7. \A i \in 1 .. k - 1 : g[i] = f[i]
      BY <3>1, <3>3
    <3>8. \A i \in 1 .. k :
             g[i] = IF i \in I THEN Append(g[i - 1], s[i]) ELSE g[i - 1]
      <4> SUFFICES ASSUME NEW i \in 1 .. k
                   PROVE  g[i] = IF i \in I THEN Append(g[i - 1], s[i]) ELSE g[i - 1]
        OBVIOUS
      <4>1. CASE i = k
        BY <3>6, <4>1 DEF step
      <4>2. CASE i \in 1 .. k - 1
        BY <2>6, <3>6, <3>7, <4>2 DEF Takes
      <4>. QED  BY <3>1, <4>1, <4>2
    <3>. QED  BY <3>5, <3>6, <3>8 DEF Takes
  <2>. QED  BY <2>2, <2>8
<1>2. n \in 0 .. n
  OBVIOUS
<1>3. PICK f : To(f, n)
  BY <1>1, <1>2
<1>. QED  BY <1>3

(* The function that Only is defined by, from itself.                       *)
Taken(g, n, s, I) == [i \in 0 .. n |-> IF i = 0 THEN Nothing
                                       ELSE IF i \in I THEN Append(g[i - 1], s[i])
                                            ELSE g[i - 1]]

LEMMA TakenExists ==
    ASSUME NEW S, NEW n \in Nat, NEW s, \A i \in 1 .. n : s[i] \in S, NEW I
    PROVE  \E f : f = Taken(f, n, s, I) /\ \A i \in 0 .. n : f[i] \in Seq(S)
<1>1. /\ \A i \in 0 .. n : i = 0 \/ (i # 0 /\ i \in 1 .. n)
      /\ \A i \in 1 .. n : i - 1 \in 0 .. n
      /\ 0 \in 0 .. n
  OBVIOUS
<1>2. PICK w : Takes(w, n, s, I) /\ \A i \in 0 .. n : w[i] \in Seq(S)
  BY TakesExists
<1> DEFINE f == [i \in 0 .. n |-> w[i]]
<1>3. \A i \in 0 .. n : f[i] = w[i]
  OBVIOUS
<1>. HIDE DEF f
<1>4. \A i \in 0 .. n : f[i] = IF i = 0 THEN Nothing
                              ELSE IF i \in I THEN Append(f[i - 1], s[i]) ELSE f[i - 1]
  BY <1>1, <1>2, <1>3 DEF Takes
<1>5. f = Taken(f, n, s, I)
  BY <1>4 DEF Taken, f
<1>6. \A i \in 0 .. n : f[i] \in Seq(S)
  BY <1>2, <1>3
<1>. QED  BY <1>5, <1>6

LEMMA TakesIs ==
    ASSUME NEW S, NEW n \in Nat, NEW s, \A i \in 1 .. n : s[i] \in S, NEW I, NEW from,
           from = Taken(from, n, s, I)
    PROVE  Takes(from, n, s, I) /\ \A i \in 0 .. n : from[i] \in Seq(S)
<1>1. \A i \in 1 .. n : i \in 0 .. n /\ i # 0
  OBVIOUS
<1>2. 0 \in 0 .. n
  OBVIOUS
<1>3. PICK f : Takes(f, n, s, I) /\ \A i \in 0 .. n : f[i] \in Seq(S)
  BY TakesExists
<1>4. from[0] = Nothing
  BY <1>2 DEF Taken
<1>5. \A i \in 1 .. n :
         from[i] = IF i \in I THEN Append(from[i - 1], s[i]) ELSE from[i - 1]
  BY <1>1 DEF Taken
<1>6. \A i \in 0 .. n : from[i] = f[i]
  <2> DEFINE Bad == {i \in 0 .. n : from[i] # f[i]}
  <2> SUFFICES ASSUME Bad # {} PROVE FALSE
    OBVIOUS
  <2>1. PICK k \in Bad : \A j \in Bad : k <= j
    <3>1. Bad \subseteq Nat
      OBVIOUS
    <3>. HIDE DEF Bad
    <3>. QED  BY <3>1, FirstIs
  <2>2. k \in 0 .. n /\ from[k] # f[k]
    BY <2>1
  <2>3. k # 0
    BY <1>3, <1>4, <2>2 DEF Takes
  <2>4. k \in 1 .. n /\ k - 1 \in 0 .. n /\ ~(k <= k - 1)
    BY <2>2, <2>3
  <2>5. from[k - 1] = f[k - 1]
    BY <2>1, <2>4
  <2>6. from[k] = IF k \in I THEN Append(from[k - 1], s[k]) ELSE from[k - 1]
    BY <1>5, <2>4
  <2>7. f[k] = IF k \in I THEN Append(f[k - 1], s[k]) ELSE f[k - 1]
    BY <1>3, <2>4 DEF Takes
  <2>. QED  BY <2>2, <2>5, <2>6, <2>7
<1>7. \A i \in 0 .. n : from[i] \in Seq(S)
  BY <1>3, <1>6
<1>. QED  BY <1>4, <1>5, <1>7 DEF Takes

LEMMA OnlyIs ==
    ASSUME NEW S, NEW s \in Seq(S), NEW I
    PROVE  \E f : /\ Takes(f, Len(s), s, I) /\ Only(s, I) = f[Len(s)]
                  /\ \A i \in 0 .. Len(s) : f[i] \in Seq(S)
<1> DEFINE from == CHOOSE g : g = Taken(g, Len(s), s, I)
<1>1. Only(s, I) = from[Len(s)]
  BY Zenon DEF Only, Taken, Nothing
<1>2. Len(s) \in Nat /\ \A i \in 1 .. Len(s) : s[i] \in S
  BY LenProperties, ElementOfSeq
<1>3. \E f : f = Taken(f, Len(s), s, I)
  <2>1. PICK n : n = Len(s)
    OBVIOUS
  <2>2. n \in Nat /\ \A i \in 1 .. n : s[i] \in S
    BY <1>2, <2>1
  <2>3. \E f : f = Taken(f, n, s, I) /\ \A i \in 0 .. n : f[i] \in Seq(S)
    BY <2>2, TakenExists
  <2>. QED  BY <2>1, <2>3
<1>4. from = Taken(from, Len(s), s, I)
  BY <1>3
<1>. HIDE DEF from
<1>5. Takes(from, Len(s), s, I) /\ \A i \in 0 .. Len(s) : from[i] \in Seq(S)
  BY <1>2, <1>4, TakesIs
<1>. QED  BY <1>1, <1>5


-----------------------------------------------------------------------------
(* The places that Only takes its elements from.                            *)

(* The places of a sequence of length n that are in I.                      *)
Among(I, n) == I \cap 1 .. n

(* p numbers the n elements of D in ascending order.                        *)
Places(p, n, D) ==
    /\ \A k \in 1 .. n : p[k] \in D
    /\ \A d \in D : \E k \in 1 .. n : p[k] = d
    /\ \A i, j \in 1 .. n : i < j => p[i] < p[j]

LEMMA PlacesAgree ==
    ASSUME NEW n \in Nat, NEW m \in Nat, NEW p, NEW q, NEW D, D \subseteq Nat,
           Places(p, n, D), Places(q, m, D)
    PROVE  \A k \in 1 .. n : k \in 1 .. m /\ p[k] = q[k]
<1> DEFINE Bad == {k \in 1 .. n : ~(k \in 1 .. m /\ p[k] = q[k])}
<1> SUFFICES ASSUME Bad # {} PROVE FALSE
  OBVIOUS
<1>1. PICK k \in Bad : \A j \in Bad : k <= j
  <2>1. Bad \subseteq Nat
    OBVIOUS
  <2>. HIDE DEF Bad
  <2>. QED  BY <2>1, FirstIs
<1>2. k \in 1 .. n /\ k \in Nat /\ ~(k \in 1 .. m /\ p[k] = q[k])
  BY <1>1
<1>3. \A i \in 1 .. n : i < k => i \in 1 .. m /\ p[i] = q[i]
  <2> SUFFICES ASSUME NEW i \in 1 .. n, i < k PROVE i \in 1 .. m /\ p[i] = q[i]
    OBVIOUS
  <2>1. ~(k <= i)
    BY <1>2
  <2>. QED  BY <1>1, <2>1
<1>. HIDE DEF Bad
<1>4. PICK j \in 1 .. m : q[j] = p[k]
  BY <1>2 DEF Places
<1>5. p[k] \in Nat
  BY <1>2 DEF Places
<1>6. ~(j < k)
  <2> SUFFICES ASSUME j < k PROVE FALSE
    OBVIOUS
  <2>1. j \in 1 .. n
    BY <1>2
  <2>2. p[j] = q[j] /\ p[j] < p[k]
    BY <1>2, <1>3, <2>1 DEF Places
  <2>. QED  BY <1>4, <1>5, <2>2
<1>7. k \in 1 .. m
  BY <1>2, <1>6
<1>8. q[k] \in D /\ q[k] \in Nat
  BY <1>7 DEF Places
<1>9. PICK i \in 1 .. n : p[i] = q[k]
  BY <1>8 DEF Places
<1>10. ~(i < k)
  <2> SUFFICES ASSUME i < k PROVE FALSE
    OBVIOUS
  <2>1. i \in 1 .. m /\ p[i] = q[i]
    BY <1>3
  <2>2. q[i] < q[k]
    BY <1>7, <2>1 DEF Places
  <2>. QED  BY <1>8, <1>9, <2>1, <2>2
<1>11. p[k] <= q[k]
  <2>1. CASE i = k
    BY <1>5, <1>9, <2>1
  <2>2. CASE k < i
    BY <1>2, <1>5, <1>8, <1>9, <2>2 DEF Places
  <2>. QED  BY <1>2, <1>10, <2>1, <2>2
<1>12. q[k] <= p[k]
  <2>1. CASE j = k
    BY <1>5, <1>4, <2>1
  <2>2. CASE k < j
    BY <1>4, <1>5, <1>7, <1>8, <2>2 DEF Places
  <2>. QED  BY <1>2, <1>6, <2>1, <2>2
<1>. QED  BY <1>2, <1>5, <1>7, <1>8, <1>11, <1>12

LEMMA PlacesUnique ==
    ASSUME NEW n \in Nat, NEW m \in Nat, NEW p, NEW q, NEW D, D \subseteq Nat,
           Places(p, n, D), Places(q, m, D)
    PROVE  n = m /\ \A k \in 1 .. n : p[k] = q[k]
<1>1. \A k \in 1 .. n : k \in 1 .. m /\ p[k] = q[k]
  BY PlacesAgree
<1>2. \A k \in 1 .. m : k \in 1 .. n
  BY PlacesAgree
<1>3. n = 0 \/ n \in 1 .. n
  OBVIOUS
<1>4. m = 0 \/ m \in 1 .. m
  OBVIOUS
<1>5. n <= m
  BY <1>1, <1>3
<1>6. m <= n
  BY <1>2, <1>4
<1>. QED  BY <1>1, <1>5, <1>6

(* One more place.                                                          *)
LEMMA PlacesMore ==
    ASSUME NEW n \in Nat, NEW h \in Nat, NEW m \in Nat, NEW i \in Nat, NEW p, NEW I,
           m = n + 1, i = h + 1, Places(p, n, Among(I, h)), i \in I
    PROVE  \E q : /\ Places(q, m, Among(I, i))
                  /\ \A k \in 1 .. n : q[k] = p[k]
                  /\ q[m] = i
<1> DEFINE q == [k \in 1 .. n + 1 |-> IF k = n + 1 THEN i ELSE p[k]]
<1>1. q[n + 1] = i /\ \A k \in 1 .. n : q[k] = p[k]
  OBVIOUS
<1>. HIDE DEF q
<1>2. \A k \in 1 .. n + 1 : k = n + 1 \/ k \in 1 .. n
  OBVIOUS
<1>3. n + 1 \in 1 .. n + 1 /\ \A k \in 1 .. n : k \in 1 .. n + 1
  OBVIOUS
<1>4. \A d \in 1 .. i : d = i \/ d \in 1 .. h
  OBVIOUS
<1>5. i \in 1 .. i /\ \A d \in 1 .. h : d \in 1 .. i /\ d < i
  OBVIOUS
<1>6. \A k \in 1 .. n : p[k] \in I /\ p[k] \in 1 .. h
  BY DEF Places, Among
<1>7. \A k \in 1 .. n + 1 : q[k] \in Among(I, i)
  BY <1>1, <1>2, <1>5, <1>6 DEF Among
<1>8. \A d \in Among(I, i) : \E k \in 1 .. n + 1 : q[k] = d
  <2> SUFFICES ASSUME NEW d \in Among(I, i) PROVE \E k \in 1 .. n + 1 : q[k] = d
    OBVIOUS
  <2>1. CASE d = i
    BY <1>1, <1>3, <2>1
  <2>2. CASE d \in 1 .. h
    <3>1. PICK k \in 1 .. n : p[k] = d
      BY <2>2 DEF Places, Among
    <3>. QED  BY <1>1, <1>3, <3>1
  <2>. QED  BY <1>4, <2>1, <2>2 DEF Among
<1>9. ASSUME NEW a \in 1 .. n + 1, NEW b \in 1 .. n + 1, a < b PROVE q[a] < q[b]
  <2>1. a \in 1 .. n
    BY <1>9
  <2>2. CASE b = n + 1
    BY <1>1, <1>5, <1>6, <2>1, <2>2
  <2>3. CASE b \in 1 .. n
    BY <1>1, <1>9, <2>1, <2>3 DEF Places
  <2>. QED  BY <1>2, <2>2, <2>3
<1>10. Places(q, n + 1, Among(I, i))
  BY <1>7, <1>8, <1>9 DEF Places
<1>. QED  BY <1>1, <1>10

(* Its k-th element is the one at the k-th place.                           *)
Stands(t, p, s, D) ==
    Places(p, Len(t), D) /\ \A k \in 1 .. Len(t) : t[k] = s[p[k]]

LEMMA PlacesNone ==
    ASSUME NEW D, D = {}, NEW p PROVE Places(p, 0, D)
BY DEF Places

LEMMA StandsMore ==
    ASSUME NEW S, NEW h \in Nat, NEW i \in Nat, i = h + 1, NEW s, s[i] \in S,
           NEW b \in Seq(S), NEW I, i \in I, NEW p, Stands(b, p, s, Among(I, h))
    PROVE  Append(b, s[i]) \in Seq(S) /\ \E q : Stands(Append(b, s[i]), q, s, Among(I, i))
<1> DEFINE a == Append(b, s[i])
<1>1. PICK m \in Nat : m = Len(b)
  BY LenProperties
<1>2. /\ a \in Seq(S) /\ Len(a) = m + 1 /\ a[m + 1] = s[i]
      /\ \A k \in 1 .. m : a[k] = b[k]
  BY <1>1, AppendProperties
<1>. HIDE DEF a
<1>3. Places(p, m, Among(I, h)) /\ \A k \in 1 .. m : b[k] = s[p[k]]
  BY <1>1 DEF Stands
<1>4. PICK c \in Nat : c = m + 1
  OBVIOUS
<1>5. PICK q : Places(q, c, Among(I, i)) /\ (\A k \in 1 .. m : q[k] = p[k]) /\ q[c] = i
  BY SMTT(30), <1>3, <1>4, PlacesMore
<1>6. \A k \in 1 .. c : k = c \/ k \in 1 .. m
  BY <1>4
<1>7. \A k \in 1 .. c : a[k] = s[q[k]]
  BY <1>2, <1>3, <1>4, <1>5, <1>6
<1>8. Stands(a, q, s, Among(I, i))
  BY <1>2, <1>4, <1>5, <1>7 DEF Stands
<1>. QED  BY <1>2, <1>8 DEF a

LEMMA StandsSame ==
    ASSUME NEW h \in Nat, NEW i \in Nat, i = h + 1, NEW I, i \notin I
    PROVE  Among(I, i) = Among(I, h)
<1>1. \A d \in 1 .. i : d = i \/ d \in 1 .. h
  OBVIOUS
<1>2. \A d \in 1 .. h : d \in 1 .. i
  OBVIOUS
<1>. QED  BY <1>1, <1>2 DEF Among

LEMMA TakesPlaces ==
    ASSUME NEW S, NEW n \in Nat, NEW s, \A i \in 1 .. n : s[i] \in S, NEW I, NEW f,
           Takes(f, n, s, I), \A i \in 0 .. n : f[i] \in Seq(S)
    PROVE  f[n] \in Seq(S) /\ \E p : Stands(f[n], p, s, Among(I, n))
<1> DEFINE Of(i, p) == Stands(f[i], p, s, Among(I, i))
           Bad == {i \in 0 .. n : ~\E p : Of(i, p)}
<1>1. Bad = {}
  <2> SUFFICES ASSUME Bad # {} PROVE FALSE
    OBVIOUS
  <2>1. PICK i \in Bad : \A j \in Bad : i <= j
    <3>1. Bad \subseteq Nat
      OBVIOUS
    <3>. HIDE DEF Bad
    <3>. QED  BY <3>1, FirstIs
  <2>2. i \in 0 .. n /\ ~\E p : Of(i, p)
    BY <2>1
  <2>3. i # 0
    <3> SUFFICES ASSUME i = 0 PROVE FALSE
      OBVIOUS
    <3>1. Len(f[0]) = 0
      BY DEF Takes, Nothing
    <3>2. Among(I, 0) = {}
      BY DEF Among
    <3>3. Places(f, Len(f[0]), Among(I, 0))
      BY <3>1, <3>2, PlacesNone
    <3>4. \A k \in 1 .. Len(f[0]) : FALSE
      BY <3>1
    <3>. QED  BY <2>2, <3>3, <3>4 DEF Stands
  <2>4. i - 1 \in 0 .. n /\ i \in 1 .. n /\ ~(i <= i - 1) /\ i \in Nat
    BY <2>2, <2>3
  <2>5. i - 1 \notin Bad
    BY <2>1, <2>4
  <2>6. PICK p : Of(i - 1, p)
    BY <2>4, <2>5
  <2>7. PICK h \in Nat : h = i - 1 /\ i = h + 1
    BY <2>3, <2>4
  <2>8. f[h] \in Seq(S) /\ s[i] \in S /\ Stands(f[h], p, s, Among(I, h))
    BY <2>4, <2>6, <2>7
  <2>9. f[i] = IF i \in I THEN Append(f[h], s[i]) ELSE f[h]
    BY <2>4, <2>7 DEF Takes
  <2>10. \A q : ~Stands(f[i], q, s, Among(I, i))
    BY <2>2
  <2>11. CASE i \in I
    BY <2>4, <2>7, <2>8, <2>9, <2>10, <2>11, StandsMore
  <2>12. CASE i \notin I
    BY <2>4, <2>7, <2>8, <2>9, <2>10, <2>12, StandsSame
  <2>. QED  BY <2>11, <2>12
<1>2. n \in 0 .. n
  OBVIOUS
<1>3. n \in Nat /\ f[n] \in Seq(S)
  BY <1>2
<1>. QED  BY <1>1, <1>2, <1>3

LEMMA OnlyPlaces ==
    ASSUME NEW S, NEW s \in Seq(S), NEW I
    PROVE  Only(s, I) \in Seq(S) /\ \E p : Stands(Only(s, I), p, s, Among(I, Len(s)))
<1>1. PICK f : /\ Takes(f, Len(s), s, I) /\ Only(s, I) = f[Len(s)]
              /\ \A i \in 0 .. Len(s) : f[i] \in Seq(S)
  BY OnlyIs
<1>2. Len(s) \in Nat /\ \A i \in 1 .. Len(s) : s[i] \in S
  BY LenProperties, ElementOfSeq
<1>4. f[Len(s)] \in Seq(S) /\ \E p : Stands(f[Len(s)], p, s, Among(I, Len(s)))
  <2>1. PICK n : n = Len(s)
    OBVIOUS
  <2>2. n \in Nat /\ \A i \in 1 .. n : s[i] \in S
    BY <1>2, <2>1
  <2>3. Takes(f, n, s, I) /\ \A i \in 0 .. n : f[i] \in Seq(S)
    BY <1>1, <2>1
  <2>4. f[n] \in Seq(S) /\ \E p : Stands(f[n], p, s, Among(I, n))
    BY <2>2, <2>3, TakesPlaces
  <2>. QED  BY <2>1, <2>4
<1>. QED  BY <1>1, <1>4

(* Only is the one sequence with these places.                              *)
LEMMA OnlyUnique ==
    ASSUME NEW S, NEW s \in Seq(S), NEW I, NEW t \in Seq(S), NEW p,
           Stands(t, p, s, Among(I, Len(s)))
    PROVE  t = Only(s, I)
<1> DEFINE o == Only(s, I)
<1>0. Only(s, I) \in Seq(S) /\ \E q : Stands(Only(s, I), q, s, Among(I, Len(s)))
  BY OnlyPlaces
<1>1. o \in Seq(S)
  BY <1>0
<1>2. PICK q : Stands(o, q, s, Among(I, Len(s)))
  BY <1>0
<1>. HIDE DEF o
<1>3. PICK n \in Nat : n = Len(t)
  BY LenProperties
<1>4. PICK m \in Nat : m = Len(o)
  BY <1>1, LenProperties
<1>5. Places(p, n, Among(I, Len(s))) /\ Places(q, m, Among(I, Len(s)))
  BY <1>2, <1>3, <1>4 DEF Stands
<1>6. n = m /\ \A k \in 1 .. n : p[k] = q[k]
  <2>1. PICK D : D = Among(I, Len(s))
    OBVIOUS
  <2>2. D \subseteq Nat
    BY <2>1 DEF Among
  <2>. QED  BY <1>5, <2>1, <2>2, PlacesUnique
<1>7. \A k \in 1 .. n : t[k] = o[k]
  BY <1>2, <1>3, <1>4, <1>6 DEF Stands
<1>8. t = o
  BY <1>1, <1>3, <1>4, <1>6, <1>7, SeqEqual
<1>. QED  BY <1>8 DEF o

LEMMA OnlyNone ==
    ASSUME NEW I PROVE Only(<<>>, I) = <<>>
<1> DEFINE S == {}
<1>1. <<>> \in Seq(S)
  OBVIOUS
<1>2. Places(0, Len(<<>>), Among(I, Len(<<>>)))
  <2>1. Len(<<>>) = 0 /\ Among(I, 0) = {}
    BY DEF Among
  <2>. QED  BY <2>1, PlacesNone
<1>3. \A k \in 1 .. Len(<<>>) : FALSE
  OBVIOUS
<1>4. Stands(<<>>, 0, <<>>, Among(I, Len(<<>>)))
  BY <1>2, <1>3 DEF Stands
<1>. QED  BY <1>1, <1>4, OnlyUnique

LEMMA OnlyAppend ==
    ASSUME NEW S, NEW s \in Seq(S), NEW e \in S, NEW I, NEW J,
           \A i \in 1 .. Len(s) : i \in I <=> i \in J
    PROVE  Only(Append(s, e), J) =
              IF Len(s) + 1 \in J THEN Append(Only(s, I), e) ELSE Only(s, I)
<1> DEFINE o == Only(s, I)
           r == Append(s, e)
<1>0. Only(s, I) \in Seq(S) /\ \E q : Stands(Only(s, I), q, s, Among(I, Len(s)))
  BY OnlyPlaces
<1>1. PICK n \in Nat : n = Len(s)
  BY LenProperties
<1>2. PICK p : o \in Seq(S) /\ Stands(o, p, s, Among(I, n))
  BY <1>0, <1>1
<1>3. /\ r \in Seq(S) /\ Len(r) = n + 1 /\ r[n + 1] = e
      /\ \A i \in 1 .. n : r[i] = s[i]
  BY <1>1, AppendProperties
<1>. HIDE DEF o, r
<1>4. PICK i \in Nat : i = n + 1
  OBVIOUS
<1>5. Among(I, n) = Among(J, n)
  <2>1. \A k \in 1 .. n : k \in I <=> k \in J
    BY <1>1
  <2>. QED  BY <2>1 DEF Among
<1>6. Stands(o, p, r, Among(J, n))
  <2>1. \A k \in 1 .. Len(o) : p[k] \in 1 .. n
    BY <1>2 DEF Stands, Places, Among
  <2>. QED  BY <1>2, <1>3, <1>5, <2>1 DEF Stands
<1>7. r[i] \in S /\ r[i] = e
  BY <1>3, <1>4
<1>8. CASE i \in J
  <2>1. Append(o, r[i]) \in Seq(S) /\ \E q : Stands(Append(o, r[i]), q, r, Among(J, i))
    BY <1>2, <1>4, <1>6, <1>7, <1>8, StandsMore
  <2>2. Append(o, e) = Only(r, J)
    BY <1>3, <1>4, <1>7, <2>1, OnlyUnique
  <2>. QED  BY <1>1, <1>4, <1>8, <2>2 DEF o, r
<1>9. CASE i \notin J
  <2>1. Stands(o, p, r, Among(J, i))
    BY <1>4, <1>6, <1>9, StandsSame
  <2>2. o = Only(r, J)
    BY <1>2, <1>3, <1>4, <2>1, OnlyUnique
  <2>. QED  BY <1>1, <1>4, <1>9, <2>2 DEF o, r
<1>. QED  BY <1>8, <1>9

LEMMA OnlyAll ==
    ASSUME NEW S, NEW s \in Seq(S), NEW I, 1 .. Len(s) \subseteq I
    PROVE  Only(s, I) = s
<1> DEFINE n == Len(s)
           p == [k \in 1 .. n |-> k]
<1>1. \A k \in 1 .. n : p[k] = k
  OBVIOUS
<1>. HIDE DEF p
<1>2. Among(I, n) = 1 .. n
  BY DEF Among
<1>3. Places(p, n, Among(I, n))
  BY <1>1, <1>2 DEF Places
<1>4. \A k \in 1 .. n : s[k] = s[p[k]]
  BY <1>1
<1>5. Stands(s, p, s, Among(I, Len(s)))
  BY <1>3, <1>4 DEF Stands
<1>. QED  BY <1>5, OnlyUnique

LEMMA OnlySeq ==
    ASSUME NEW S, NEW s \in Seq(S), NEW I
    PROVE  Only(s, I) \in Seq(S)
BY OnlyPlaces

-----------------------------------------------------------------------------
(* Elements of some kinds.                                                  *)

(* The places of the elements whose kind is in K.                           *)
KindAt(s, K) == {i \in 1 .. Len(s) : s[i].kind \in K}

LEMMA OfKindIs ==
    ASSUME NEW S, NEW s \in Seq(S), NEW K
    PROVE  /\ OfKind(s, K) \in Seq(S)
           /\ \E p : Stands(OfKind(s, K), p, s, KindAt(s, K))
<1> DEFINE I == {i \in DOMAIN s : s[i].kind \in K}
<1>1. DOMAIN s = 1 .. Len(s)
  BY LenProperties
<1>2. Among(I, Len(s)) = KindAt(s, K)
  BY <1>1 DEF Among, KindAt
<1>3. OfKind(s, K) = Only(s, I)
  BY DEF OfKind
<1>. HIDE DEF I
<1>4. Only(s, I) \in Seq(S) /\ \E p : Stands(Only(s, I), p, s, Among(I, Len(s)))
  BY OnlyPlaces
<1>. QED  BY <1>2, <1>3, <1>4

LEMMA OfKindUnique ==
    ASSUME NEW S, NEW s \in Seq(S), NEW K, NEW t \in Seq(S), NEW p,
           Stands(t, p, s, KindAt(s, K))
    PROVE  t = OfKind(s, K)
<1> DEFINE I == {i \in DOMAIN s : s[i].kind \in K}
<1>1. DOMAIN s = 1 .. Len(s)
  BY LenProperties
<1>2. Among(I, Len(s)) = KindAt(s, K)
  BY <1>1 DEF Among, KindAt
<1>3. OfKind(s, K) = Only(s, I)
  BY DEF OfKind
<1>. HIDE DEF I
<1>. QED  BY <1>2, <1>3, OnlyUnique

LEMMA OfKindAppend ==
    ASSUME NEW S, NEW s \in Seq(S), NEW e \in S, NEW K
    PROVE  /\ OfKind(s, K) \in Seq(S)
           /\ OfKind(Append(s, e), K) =
                 IF e.kind \in K THEN Append(OfKind(s, K), e) ELSE OfKind(s, K)
<1> DEFINE r == Append(s, e)
           I == {i \in DOMAIN s : s[i].kind \in K}
           J == {i \in DOMAIN r : r[i].kind \in K}
<1>1. DOMAIN s = 1 .. Len(s) /\ Len(s) \in Nat
  BY LenProperties
<1>2. /\ r \in Seq(S) /\ Len(r) = Len(s) + 1 /\ r[Len(s) + 1] = e
      /\ \A i \in 1 .. Len(s) : r[i] = s[i]
  BY AppendProperties
<1>3. DOMAIN r = 1 .. Len(s) + 1
  BY <1>2, LenProperties
<1>. HIDE DEF r
<1>4. \A i \in 1 .. Len(s) : i \in 1 .. Len(s) + 1
  BY <1>1
<1>5. \A i \in 1 .. Len(s) : i \in I <=> i \in J
  BY <1>1, <1>2, <1>3, <1>4
<1>6. Len(s) + 1 \in 1 .. Len(s) + 1
  BY <1>1
<1>7. Len(s) + 1 \in J <=> e.kind \in K
  BY <1>2, <1>3, <1>6
<1>8. OfKind(s, K) = Only(s, I) /\ OfKind(r, K) = Only(r, J)
  BY DEF OfKind
<1>. HIDE DEF I, J
<1>9. Only(Append(s, e), J) =
         IF Len(s) + 1 \in J THEN Append(Only(s, I), e) ELSE Only(s, I)
  BY <1>5, OnlyAppend
<1>. QED  BY <1>7, <1>8, <1>9, OnlySeq DEF r

LEMMA OfKindAll ==
    ASSUME NEW S, NEW s \in Seq(S), NEW K, \A i \in 1 .. Len(s) : s[i].kind \in K
    PROVE  OfKind(s, K) = s
<1> DEFINE I == {i \in DOMAIN s : s[i].kind \in K}
<1>1. DOMAIN s = 1 .. Len(s)
  BY LenProperties
<1>2. 1 .. Len(s) \subseteq I
  BY <1>1
<1>3. OfKind(s, K) = Only(s, I)
  BY DEF OfKind
<1>. HIDE DEF I
<1>. QED  BY <1>2, <1>3, OnlyAll

LEMMA OfKindNone ==
    ASSUME NEW K PROVE OfKind(<<>>, K) = <<>>
BY OnlyNone DEF OfKind

-----------------------------------------------------------------------------
(* The entries of a session: ids grow, and a parent is older than its       *)
(* child.                                                                   *)

(* What appending makes: n is the id of the entry that comes next.          *)
Grown(es, n) ==
    /\ es \in Seq(Entry)
    /\ \A i \in 1 .. Len(es) : es[i].id \in 1 .. n - 1 /\ es[i].parent < es[i].id
    /\ \A i, j \in 1 .. Len(es) : i < j => es[i].id < es[j].id

LEMMA EntryIs ==
    ASSUME NEW es \in Seq(Entry), NEW i \in 1 .. Len(es)
    PROVE  /\ es[i] \in Entry /\ es[i].id \in Nat /\ es[i].parent \in Nat
           /\ es[i].ref \in Nat /\ es[i].kind \in Kinds /\ i \in Nat /\ Len(es) \in Nat
<1>1. es[i] \in Entry
  <2>. HIDE DEF Entry
  <2>. QED  BY ElementOfSeq
<1>2. Len(es) \in Nat /\ i \in Nat
  BY LenProperties
<1>. QED  BY <1>1, <1>2 DEF Entry

LEMMA IdsAre ==
    ASSUME NEW es \in Seq(Entry)
    PROVE  /\ \A i \in 1 .. Len(es) : es[i].id \in Ids(es)
           /\ \A l \in Ids(es) : l \in Nat /\ \E i \in 1 .. Len(es) : es[i].id = l
<1>1. DOMAIN es = 1 .. Len(es)
  BY LenProperties
<1>2. \A i \in 1 .. Len(es) : es[i].id \in Nat
  BY EntryIs
<1>. QED  BY <1>1, <1>2 DEF Ids

LEMMA AtIs ==
    ASSUME NEW n, NEW es, Grown(es, n), NEW i \in 1 .. Len(es)
    PROVE  At(es, es[i].id) = es[i]
<1>1. es \in Seq(Entry) /\ Len(es) \in Nat /\ DOMAIN es = 1 .. Len(es)
  BY LenProperties DEF Grown
<1>2. \A j \in 1 .. Len(es) : es[j].id \in Nat
  BY <1>1, EntryIs
<1>3. \A j \in 1 .. Len(es) : es[j].id = es[i].id => j = i
  <2> SUFFICES ASSUME NEW j \in 1 .. Len(es), es[j].id = es[i].id, j # i PROVE FALSE
    OBVIOUS
  <2>1. j < i \/ i < j
    BY <1>1
  <2>. QED  BY <1>2, <2>1 DEF Grown
<1>. QED  BY <1>1, <1>3 DEF At

(* An entry by its id.                                                      *)
LEMMA AtIn ==
    ASSUME NEW n \in Nat, NEW es, Grown(es, n), NEW l \in Ids(es)
    PROVE  /\ At(es, l) \in Entry /\ At(es, l).id = l /\ At(es, l).parent \in Nat
           /\ At(es, l).parent < l /\ l \in 1 .. n - 1 /\ l \in Nat
           /\ At(es, l).kind \in Kinds /\ At(es, l).ref \in Nat
           /\ \E i \in 1 .. Len(es) : es[i] = At(es, l)
<1>1. es \in Seq(Entry)
  BY DEF Grown
<1>2. PICK i \in 1 .. Len(es) : es[i].id = l
  BY <1>1, IdsAre
<1>3. At(es, l) = es[i]
  BY <1>2, AtIs
<1>4. /\ es[i] \in Entry /\ es[i].id \in Nat /\ es[i].parent \in Nat
      /\ es[i].ref \in Nat /\ es[i].kind \in Kinds
  BY <1>1, EntryIs
<1>5. es[i].id \in 1 .. n - 1 /\ es[i].parent < es[i].id
  BY DEF Grown
<1>. QED  BY <1>2, <1>3, <1>4, <1>5

(* The last id, where a loaded session stands.                              *)
LEMMA LastIdIn ==
    ASSUME NEW es \in Seq(Entry) PROVE LastId(es) \in Ids(es) \cup {Root}
<1>1. CASE es = <<>>
  BY <1>1 DEF LastId
<1>2. CASE es # <<>>
  <2>1. Len(es) \in 1 .. Len(es)
    BY <1>2, EmptySeq, LenProperties
  <2>. QED  BY <1>2, <2>1, IdsAre DEF LastId
<1>. QED  BY <1>1, <1>2

-----------------------------------------------------------------------------
(* Paths.                                                                   *)

(* One step up.                                                             *)
Up(up, es, id) ==
    IF At(es, id).parent \in Ids(es)
      THEN Append(up[At(es, id).parent], At(es, id))
      ELSE <<At(es, id)>>

LEMMA UpIs ==
    ASSUME NEW n \in Nat, NEW es, Grown(es, n), NEW up, NEW id \in Ids(es),
           At(es, id).parent \in Ids(es) => up[At(es, id).parent] \in Seq(Entry)
    PROVE  Up(up, es, id) \in Seq(Entry)
<1>1. At(es, id) \in Entry
  BY AtIn
<1>. HIDE DEF Entry
<1>2. <<At(es, id)>> \in Seq(Entry)
  BY <1>1
<1>. QED  BY <1>1, <1>2, AppendProperties DEF Up

(* The function that Path is defined by exists.                             *)
LEMMA UpExists ==
    ASSUME NEW n \in Nat, NEW es, Grown(es, n)
    PROVE  \E up : up = [id \in Ids(es) |-> Up(up, es, id)]
<1> DEFINE To(up, k) == \A id \in Ids(es) : id < k =>
                           up[id] \in Seq(Entry) /\ up[id] = Up(up, es, id)
           Bad == {k \in Nat : ~\E up : To(up, k)}
<1>1. \A id \in Ids(es) : /\ id \in Nat /\ At(es, id).parent < id
                          /\ At(es, id).parent \in Nat /\ id < n
  BY AtIn
<1>2. Bad = {}
  <2> SUFFICES ASSUME Bad # {} PROVE FALSE
    OBVIOUS
  <2>1. PICK k \in Bad : \A j \in Bad : k <= j
    <3>1. Bad \subseteq Nat
      OBVIOUS
    <3>. HIDE DEF Bad
    <3>. QED  BY <3>1, FirstIs
  <2>2. k \in Nat /\ ~\E up : To(up, k)
    BY <2>1
  <2>3. k # 0
    <3>1. To(0, 0)
      BY <1>1
    <3>. QED  BY <2>2, <3>1
  <2>4. PICK h \in Nat : k = h + 1 /\ ~(k <= h)
    <3>1. k - 1 \in Nat /\ k = (k - 1) + 1 /\ ~(k <= k - 1)
      BY <2>2, <2>3
    <3>. QED  BY <3>1
  <2>5. PICK w : To(w, h)
    BY <2>1, <2>4
  <2> DEFINE g == [id \in Ids(es) |-> Up(w, es, id)]
  <2>6. \A id \in Ids(es) : g[id] = Up(w, es, id)
    OBVIOUS
  <2>. HIDE DEF g, Bad
  <2>7. ASSUME NEW id \in Ids(es), id < k
        PROVE  g[id] \in Seq(Entry) /\ g[id] = Up(g, es, id)
    <3> DEFINE q == At(es, id).parent
    <3>1. q \in Ids(es) => q < h
      BY <1>1, <2>4, <2>7
    <3>2. q \in Ids(es) => w[q] \in Seq(Entry) /\ w[q] = Up(w, es, q)
      BY <2>5, <3>1
    <3>3. q \in Ids(es) => w[q] = g[q]
      BY <2>6, <3>2
    <3>4. Up(w, es, id) = Up(g, es, id)
      BY <3>3 DEF Up
    <3>5. Up(w, es, id) \in Seq(Entry)
      BY <3>2, UpIs
    <3>. QED  BY <2>6, <3>4, <3>5
  <2>8. To(g, k)
    BY <2>7
  <2>. QED  BY <2>2, <2>8
<1>3. PICK w : To(w, n)
  BY <1>2
<1> DEFINE g == [id \in Ids(es) |-> w[id]]
<1>4. \A id \in Ids(es) : g[id] = w[id] /\ w[id] = Up(w, es, id)
  BY <1>1, <1>3
<1>. HIDE DEF To
<1>5. \A id \in Ids(es) : g[id] = Up(g, es, id)
  BY <1>4 DEF Up
<1>6. g = [id \in Ids(es) |-> Up(g, es, id)]
  BY <1>5
<1>. QED  BY <1>6

(* A path is its parent's path and the entry; a root's, or that of an entry *)
(* whose parent was lost, is the entry.                                     *)
LEMMA PathStep ==
    ASSUME NEW n \in Nat, NEW es, Grown(es, n), NEW l \in Ids(es)
    PROVE  Path(es, l) = IF At(es, l).parent \in Ids(es)
                            THEN Append(Path(es, At(es, l).parent), At(es, l))
                            ELSE <<At(es, l)>>
<1> DEFINE up == CHOOSE up : up = [id \in Ids(es) |-> Up(up, es, id)]
<1>1. up = [id \in Ids(es) |-> Up(up, es, id)]
  BY UpExists
<1>2. \A k : Path(es, k) = IF k \in Ids(es) THEN up[k] ELSE <<>>
  BY Zenon DEF Path, Up
<1>. HIDE DEF up
<1>3. up[l] = Up(up, es, l)
  BY <1>1
<1>. QED  BY <1>2, <1>3 DEF Up

LEMMA PathOutside ==
    ASSUME NEW es, NEW l, l \notin Ids(es) PROVE Path(es, l) = <<>>
BY Zenon DEF Path

LEMMA PathIs ==
    ASSUME NEW n \in Nat, NEW es, Grown(es, n), NEW l
    PROVE  Path(es, l) \in Seq(Entry)
<1> DEFINE Bad == {k \in Ids(es) : Path(es, k) \notin Seq(Entry)}
<1>1. Bad = {}
  <2> SUFFICES ASSUME Bad # {} PROVE FALSE
    OBVIOUS
  <2>1. PICK k \in Bad : \A j \in Bad : k <= j
    <3>1. \A id \in Ids(es) : id \in Nat
      BY AtIn
    <3>2. Bad \subseteq Nat
      BY <3>1
    <3>. HIDE DEF Bad
    <3>. QED  BY <3>2, FirstIs
  <2>2. k \in Ids(es) /\ Path(es, k) \notin Seq(Entry)
    BY <2>1
  <2> DEFINE q == At(es, k).parent
             a == At(es, k)
  <2>3. a \in Entry /\ q \in Nat /\ q < k /\ k \in Nat
    BY <2>2, AtIn
  <2>4. ~(k <= q)
    BY <2>3
  <2>5. q \in Ids(es) => Path(es, q) \in Seq(Entry)
    BY <2>1, <2>4
  <2>6. Path(es, k) = IF q \in Ids(es) THEN Append(Path(es, q), a) ELSE <<a>>
    BY <2>2, PathStep
  <2>. HIDE DEF a, q, Entry
  <2>7. <<a>> \in Seq(Entry)
    BY <2>3
  <2>. QED  BY <2>2, <2>3, <2>5, <2>6, <2>7, AppendProperties
<1>2. l \in Ids(es) => Path(es, l) \in Seq(Entry)
  BY <1>1
<1>3. <<>> \in Seq(Entry)
  OBVIOUS
<1>. QED  BY <1>2, <1>3, PathOutside

-----------------------------------------------------------------------------
(* The beginnings of a sequence.                                            *)

LEMMA PrefixIs ==
    ASSUME NEW S, NEW s \in Seq(S), NEW k \in 0 .. Len(s)
    PROVE  /\ SubSeq(s, 1, k) \in Seq(S) /\ Len(SubSeq(s, 1, k)) = k /\ k \in Nat
           /\ \A i \in 1 .. k : SubSeq(s, 1, k)[i] = s[i] /\ i \in 1 .. Len(s)
<1>1. Len(s) \in Nat /\ k \in Nat /\ k \in Int /\ 1 \in Int /\ k <= Len(s)
  BY LenProperties
<1>2. \A i \in 1 .. k : i \in 1 .. Len(s) /\ s[i] \in S
  BY <1>1, ElementOfSeq
<1> DEFINE t == SubSeq(s, 1, k)
<1>3. /\ t \in Seq(S) /\ Len(t) = IF 1 <= k THEN k - 1 + 1 ELSE 0
      /\ \A i \in 1 .. k - 1 + 1 : t[i] = s[1 + i - 1]
  BY <1>1, <1>2, SubSeqProperties
<1>. HIDE DEF t
<1>4. Len(t) = k /\ k - 1 + 1 = k
  BY <1>1, <1>3
<1>5. \A i \in 1 .. k : 1 + i - 1 = i
  BY <1>1
<1>6. \A i \in 1 .. k : t[i] = s[i]
  BY <1>3, <1>4, <1>5
<1>. QED  BY <1>1, <1>2, <1>3, <1>4, <1>6 DEF t

LEMMA PrefixUnique ==
    ASSUME NEW S, NEW s \in Seq(S), NEW t \in Seq(S), Len(t) <= Len(s),
           \A i \in 1 .. Len(t) : t[i] = s[i]
    PROVE  t = SubSeq(s, 1, Len(t))
<1> DEFINE r == SubSeq(s, 1, Len(t))
<1>1. Len(t) \in 0 .. Len(s)
  BY LenProperties
<1>2. r \in Seq(S) /\ Len(r) = Len(t) /\ \A i \in 1 .. Len(t) : r[i] = s[i]
  BY <1>1, PrefixIs
<1>. HIDE DEF r
<1>3. t = r
  BY <1>2, SeqEqual
<1>. QED  BY <1>3 DEF r

LEMMA PrefixAppend ==
    ASSUME NEW S, NEW s \in Seq(S), NEW e \in S, NEW k \in 0 .. Len(s)
    PROVE  SubSeq(Append(s, e), 1, k) = SubSeq(s, 1, k)
<1> DEFINE r == Append(s, e)
           t == SubSeq(s, 1, k)
<1>1. Len(s) \in Nat
  BY LenProperties
<1>2. r \in Seq(S) /\ Len(r) = Len(s) + 1 /\ \A i \in 1 .. Len(s) : r[i] = s[i]
  BY AppendProperties
<1>3. t \in Seq(S) /\ Len(t) = k /\ \A i \in 1 .. k : t[i] = s[i] /\ i \in 1 .. Len(s)
  BY PrefixIs
<1>. HIDE DEF r, t
<1>4. Len(t) <= Len(r)
  BY <1>1, <1>2, <1>3
<1>5. \A i \in 1 .. Len(t) : t[i] = r[i]
  BY <1>2, <1>3
<1>6. t = SubSeq(r, 1, Len(t))
  BY <1>2, <1>3, <1>4, <1>5, PrefixUnique
<1>. QED  BY <1>3, <1>6 DEF r, t

-----------------------------------------------------------------------------
(* The shape of the path of l.                                              *)

(* p leads from an entry without parent to l, over entries of es; each of   *)
(* its beginnings is the path of the entry it ends with.                    *)
Shape(es, p, l) ==
    /\ p \in Seq(Entry) /\ Len(p) \in 1 .. Len(p) /\ p[Len(p)] = At(es, l)
    /\ \A i \in 1 .. Len(p) :
          /\ p[i].id \in Ids(es) /\ p[i] = At(es, p[i].id)
          /\ p[i].id <= l /\ Path(es, p[i].id) = SubSeq(p, 1, i)
    /\ \A i, j \in 1 .. Len(p) : i < j => p[i].id < p[j].id
    /\ \A i \in 1 .. Len(p) - 1 : p[i + 1].parent = p[i].id
    /\ p[1].parent \notin Ids(es)

LEMMA ShapeRoot ==
    ASSUME NEW n \in Nat, NEW es, Grown(es, n), NEW l \in Ids(es),
           At(es, l).parent \notin Ids(es)
    PROVE  Shape(es, Path(es, l), l)
<1> DEFINE a == At(es, l)
           p == <<a>>
<1>1. Path(es, l) = p
  BY PathStep
<1>2. a \in Entry /\ a.id = l /\ l \in Nat
  BY AtIn
<1>3. p \in Seq(Entry)
  <2>. HIDE DEF Entry, a
  <2>. QED  BY <1>2
<1>4. Len(p) = 1 /\ p[1] = a
  OBVIOUS
<1>5. SubSeq(p, 1, 1) = p
  BY <1>3, <1>4, SubSeqFull
<1>. HIDE DEF p
<1>6. \A i \in 1 .. 1 : i = 1
  OBVIOUS
<1>7. Shape(es, p, l)
  <2>1. p[1].parent \notin Ids(es)
    BY <1>4
  <2>. HIDE DEF Entry, a
  <2>2. \A i \in 1 .. Len(p) - 1 : FALSE
    BY <1>4
  <2>3. \A i, j \in 1 .. Len(p) : ~(i < j)
    BY <1>4
  <2>4. Len(p) \in 1 .. Len(p)
    BY <1>4
  <2>5. p[Len(p)] = At(es, l)
    BY <1>4 DEF a
  <2>6. \A i \in 1 .. Len(p) :
          /\ p[i].id \in Ids(es) /\ p[i] = At(es, p[i].id)
          /\ p[i].id <= l /\ Path(es, p[i].id) = SubSeq(p, 1, i)
    <3>1. l <= l /\ a = At(es, l)
      BY <1>2 DEF a
    <3>. QED  BY <1>1, <1>2, <1>4, <1>5, <1>6, <3>1
  <2>. QED  BY <1>3, <2>1, <2>2, <2>3, <2>4, <2>5, <2>6 DEF Shape
<1>. QED  BY <1>1, <1>7

LEMMA ShapeChild ==
    ASSUME NEW n \in Nat, NEW es, Grown(es, n), NEW l \in Ids(es),
           NEW u \in Ids(es), u = At(es, l).parent, Shape(es, Path(es, u), u)
    PROVE  Shape(es, Path(es, l), l)
<1> DEFINE a == At(es, l)
           q == Path(es, u)
           p == Append(q, a)
<1>1. Path(es, l) = p
  BY PathStep
<1>2. a \in Entry /\ a.id = l /\ l \in Nat /\ u < l /\ u \in Nat /\ a.parent = u
  BY AtIn
<1>3. /\ q \in Seq(Entry) /\ Len(q) \in 1 .. Len(q) /\ q[Len(q)] = At(es, u)
      /\ \A i \in 1 .. Len(q) :
            /\ q[i].id \in Ids(es) /\ q[i] = At(es, q[i].id)
            /\ q[i].id <= u /\ Path(es, q[i].id) = SubSeq(q, 1, i)
      /\ \A i, j \in 1 .. Len(q) : i < j => q[i].id < q[j].id
      /\ \A i \in 1 .. Len(q) - 1 : q[i + 1].parent = q[i].id
      /\ q[1].parent \notin Ids(es)
  BY DEF Shape
<1>4. PICK m \in Nat : m = Len(q)
  BY <1>3, LenProperties
<1>5. /\ p \in Seq(Entry) /\ Len(p) = m + 1 /\ p[m + 1] = a
      /\ \A i \in 1 .. m : p[i] = q[i]
  <2>. HIDE DEF q, a, Entry
  <2>. QED  BY <1>2, <1>3, <1>4, AppendProperties
<1>6. \A k \in 0 .. m : SubSeq(p, 1, k) = SubSeq(q, 1, k)
  <2>. HIDE DEF q, a, Entry
  <2>. QED  BY <1>2, <1>3, <1>4, PrefixAppend
<1>7. SubSeq(p, 1, m + 1) = p
  BY <1>5, SubSeqFull
<1>8. q[m].id = u
  BY <1>3, <1>4, AtIn
<1>. HIDE DEF p, q, a
<1>9. /\ 1 \in 1 .. m /\ m \in 1 .. m /\ m + 1 \in 1 .. m + 1
      /\ \A i \in 1 .. m + 1 : i = m + 1 \/ i \in 1 .. m
      /\ \A i \in 1 .. m : i \in 0 .. m /\ i \in 1 .. m + 1 /\ i < m + 1
      /\ \A i \in 1 .. m : i = m \/ (i \in 1 .. m - 1 /\ i + 1 \in 1 .. m)
  BY <1>3, <1>4
<1>10. \A i \in 1 .. m : q[i].id \in Nat /\ q[i].id < l
  <2>1. \A i \in 1 .. m : q[i].id \in Nat
    BY <1>3, <1>4, EntryIs
  <2>. QED  BY <1>2, <1>3, <1>4, <2>1
<1>11. ASSUME NEW i \in 1 .. m + 1
       PROVE  /\ p[i].id \in Ids(es) /\ p[i] = At(es, p[i].id)
              /\ p[i].id <= l /\ Path(es, p[i].id) = SubSeq(p, 1, i)
  <2>1. CASE i = m + 1
    <3>1. p[i] = a /\ a = At(es, l) /\ l <= l
      BY <1>2, <1>5, <2>1 DEF a
    <3>. QED  BY <1>1, <1>2, <1>7, <2>1, <3>1
  <2>2. CASE i \in 1 .. m
    <3>1. p[i] = q[i] /\ SubSeq(p, 1, i) = SubSeq(q, 1, i) /\ q[i].id <= l
      BY <1>2, <1>5, <1>6, <1>9, <1>10, <2>2
    <3>. QED  BY <1>3, <1>4, <2>2, <3>1
  <2>. QED  BY <1>9, <2>1, <2>2
<1>12. ASSUME NEW i \in 1 .. m + 1, NEW j \in 1 .. m + 1, i < j
       PROVE  p[i].id < p[j].id
  <2>1. i \in 1 .. m
    BY <1>12
  <2>2. CASE j = m + 1
    BY <1>2, <1>5, <1>10, <2>1, <2>2
  <2>3. CASE j \in 1 .. m
    BY <1>3, <1>4, <1>5, <1>12, <2>1, <2>3
  <2>. QED  BY <1>9, <2>2, <2>3
<1>13. ASSUME NEW i \in 1 .. m PROVE p[i + 1].parent = p[i].id
  <2>1. CASE i = m
    BY <1>2, <1>5, <1>8, <1>9, <2>1
  <2>2. CASE i \in 1 .. m - 1 /\ i + 1 \in 1 .. m
    BY <1>3, <1>4, <1>5, <2>2
  <2>. QED  BY <1>9, <2>1, <2>2
<1>14. p[1].parent \notin Ids(es)
  BY <1>3, <1>5, <1>9
<1>15. Len(p) - 1 = m /\ Len(p) \in 1 .. Len(p) /\ p[Len(p)] = At(es, l)
  BY <1>4, <1>5, <1>9 DEF a
<1>16. Shape(es, p, l)
  BY <1>5, <1>11, <1>12, <1>13, <1>14, <1>15 DEF Shape
<1>. QED  BY <1>1, <1>16

LEMMA PathShape ==
    ASSUME NEW n \in Nat, NEW es, Grown(es, n), NEW l \in Ids(es)
    PROVE  Shape(es, Path(es, l), l)
<1> DEFINE Bad == {k \in Ids(es) : ~Shape(es, Path(es, k), k)}
<1> SUFFICES ASSUME Bad # {} PROVE FALSE
  OBVIOUS
<1>1. PICK k \in Bad : \A j \in Bad : k <= j
  <2>1. \A id \in Ids(es) : id \in Nat
    BY AtIn
  <2>2. Bad \subseteq Nat
    BY <2>1
  <2>. HIDE DEF Bad
  <2>. QED  BY <2>2, FirstIs
<1>2. k \in Ids(es) /\ ~Shape(es, Path(es, k), k)
  BY <1>1
<1> DEFINE u == At(es, k).parent
<1>3. u < k /\ u \in Nat /\ k \in Nat
  BY <1>2, AtIn
<1>4. u \notin Bad
  BY <1>1, <1>3
<1>5. u \in Ids(es) => Shape(es, Path(es, u), u)
  BY <1>4
<1>6. u \in Ids(es)
  BY <1>2, ShapeRoot
<1>. QED  BY <1>2, <1>5, <1>6, ShapeChild

-----------------------------------------------------------------------------
(* Two trees that agree on the entries above l have the same path to l.     *)

LEMMA PathSame ==
    ASSUME NEW n \in Nat, NEW es, Grown(es, n), NEW fs, Grown(fs, n),
           \A id \in Ids(es) : /\ id \in Ids(fs) /\ At(fs, id) = At(es, id)
                               /\ At(es, id).parent \in Ids(fs)
                                     => At(es, id).parent \in Ids(es)
    PROVE  \A l \in Ids(es) : Path(fs, l) = Path(es, l)
<1> DEFINE Bad == {k \in Ids(es) : Path(fs, k) # Path(es, k)}
<1> SUFFICES ASSUME Bad # {} PROVE FALSE
  OBVIOUS
<1>1. PICK k \in Bad : \A j \in Bad : k <= j
  <2>1. \A id \in Ids(es) : id \in Nat
    BY AtIn
  <2>2. Bad \subseteq Nat
    BY <2>1
  <2>. HIDE DEF Bad
  <2>. QED  BY <2>2, FirstIs
<1>2. k \in Ids(es) /\ Path(fs, k) # Path(es, k)
  BY <1>1
<1> DEFINE u == At(es, k).parent
<1>3. u < k /\ u \in Nat /\ k \in Nat
  BY <1>2, AtIn
<1>4. u \notin Bad
  BY <1>1, <1>3
<1>5. u \in Ids(es) => Path(fs, u) = Path(es, u)
  BY <1>4
<1>6. k \in Ids(fs) /\ At(fs, k) = At(es, k) /\ (u \in Ids(fs) <=> u \in Ids(es))
  BY <1>2
<1>7. Path(es, k) = IF u \in Ids(es) THEN Append(Path(es, u), At(es, k))
                    ELSE <<At(es, k)>>
  BY <1>2, PathStep
<1>8. Path(fs, k) = IF u \in Ids(fs) THEN Append(Path(fs, u), At(fs, k))
                    ELSE <<At(fs, k)>>
  BY <1>6, PathStep
<1>. QED  BY <1>2, <1>5, <1>6, <1>7, <1>8

LEMMA GrownMore ==
    ASSUME NEW n \in Nat, NEW m \in Nat, n <= m, NEW es, Grown(es, n)
    PROVE  Grown(es, m)
<1>1. \A i \in 1 .. n - 1 : i \in 1 .. m - 1
  OBVIOUS
<1>. QED  BY <1>1 DEF Grown

LEMMA GrownNone == ASSUME NEW n \in Nat PROVE Grown(<<>>, n) /\ Ids(<<>>) = {}
<1>1. <<>> \in Seq(Entry) /\ Len(<<>>) = 0 /\ DOMAIN <<>> = {}
  OBVIOUS
<1>2. \A i \in 1 .. 0 : FALSE
  OBVIOUS
<1>. QED  BY <1>1, <1>2 DEF Grown, Ids

LEMMA GrownPrefix ==
    ASSUME NEW n \in Nat, NEW es, Grown(es, n), NEW k \in 0 .. Len(es)
    PROVE  /\ Grown(SubSeq(es, 1, k), n)
           /\ \A l \in Ids(SubSeq(es, 1, k)) : l \in Ids(es)
                                            /\ Path(es, l) = Path(SubSeq(es, 1, k), l)
<1> DEFINE fs == SubSeq(es, 1, k)
<1>1. es \in Seq(Entry)
  BY DEF Grown
<1>2. /\ fs \in Seq(Entry) /\ Len(fs) = k /\ k \in Nat
      /\ \A i \in 1 .. k : fs[i] = es[i] /\ i \in 1 .. Len(es)
  <2>. HIDE DEF Entry
  <2>. QED  BY <1>1, PrefixIs
<1>. HIDE DEF fs
<1>3. Grown(fs, n)
  BY <1>2 DEF Grown
<1>4. ASSUME NEW id \in Ids(fs)
      PROVE  /\ id \in Ids(es) /\ At(es, id) = At(fs, id)
             /\ At(fs, id).parent \in Ids(es) => At(fs, id).parent \in Ids(fs)
  <2>1. PICK i \in 1 .. k : fs[i].id = id
    BY <1>2, IdsAre
  <2>2. es[i].id = id /\ i \in 1 .. Len(es) /\ At(fs, id) = es[i] /\ At(es, id) = es[i]
    BY <1>2, <1>3, <2>1, AtIs
  <2>3. id \in Ids(es)
    BY <1>1, <2>2, IdsAre
  <2>4. ASSUME es[i].parent \in Ids(es) PROVE es[i].parent \in Ids(fs)
    <3>1. PICK j \in 1 .. Len(es) : es[j].id = es[i].parent
      BY <1>1, <2>4, IdsAre
    <3>2. es[j].id \in Nat /\ es[i].id \in Nat /\ Len(es) \in Nat /\ es[j].id < es[i].id
      BY <1>1, <2>2, <3>1, EntryIs DEF Grown
    <3>3. ~(i < j) /\ i # j
      BY <2>2, <3>2 DEF Grown
    <3>4. j \in 1 .. k
      BY <1>2, <2>1, <3>2, <3>3
    <3>. QED  BY <1>2, <3>1, <3>4, IdsAre
  <2>. QED  BY <2>2, <2>3, <2>4
<1>5. \A l \in Ids(fs) : Path(es, l) = Path(fs, l)
  BY <1>3, <1>4, PathSame
<1>. QED  BY <1>3, <1>4, <1>5 DEF fs

(* One more entry: a child of an older one, or of none.                     *)
LEMMA GrownAppend ==
    ASSUME NEW n \in Nat, NEW es, Grown(es, n), NEW e \in Entry, e.id = n,
           e.parent < n
    PROVE  /\ Grown(Append(es, e), n + 1) /\ Ids(Append(es, e)) = Ids(es) \cup {n}
           /\ n \notin Ids(es) /\ At(Append(es, e), n) = e
           /\ \A l \in Ids(es) : Path(Append(es, e), l) = Path(es, l)
           /\ Path(Append(es, e), n) = IF e.parent \in Ids(es)
                                          THEN Append(Path(es, e.parent), e) ELSE <<e>>
<1> DEFINE fs == Append(es, e)
<1>1. es \in Seq(Entry)
  BY DEF Grown
<1>2. PICK m \in Nat : m = Len(es)
  BY <1>1, LenProperties
<1>3. /\ fs \in Seq(Entry) /\ Len(fs) = m + 1 /\ fs[m + 1] = e
      /\ \A i \in 1 .. m : fs[i] = es[i]
  <2>. HIDE DEF Entry
  <2>. QED  BY <1>1, <1>2, AppendProperties
<1>4. SubSeq(fs, 1, m) = es
  <2>. HIDE DEF Entry
  <2>1. m \in 0 .. Len(es) /\ SubSeq(es, 1, Len(es)) = es
    BY <1>1, <1>2, SubSeqFull
  <2>. QED  BY <1>1, <1>2, <2>1, PrefixAppend
<1>5. e.parent \in Nat /\ e.id \in Nat
  BY DEF Entry
<1>. HIDE DEF fs
<1>6. /\ \A i \in 1 .. m + 1 : i = m + 1 \/ i \in 1 .. m
      /\ m + 1 \in 1 .. m + 1 /\ \A i \in 1 .. m : i \in 1 .. m + 1
      /\ \A i \in 1 .. n - 1 : i \in 1 .. n
      /\ m \in 0 .. m + 1
  OBVIOUS
<1>7. \A i \in 1 .. m : es[i].id \in 1 .. n - 1 /\ es[i].parent < es[i].id
  BY <1>2 DEF Grown
<1>8. n \in 1 .. n
  BY <1>5
<1>9. Grown(fs, n + 1)
  <2>1. \A i \in 1 .. m + 1 : fs[i].id \in 1 .. n /\ fs[i].parent < fs[i].id
    BY <1>3, <1>6, <1>7, <1>8
  <2>2. ASSUME NEW i \in 1 .. m + 1, NEW j \in 1 .. m + 1, i < j
        PROVE  fs[i].id < fs[j].id
    <3>1. i \in 1 .. m
      BY <2>2
    <3>2. CASE j = m + 1
      BY <1>3, <1>7, <3>1, <3>2
    <3>3. CASE j \in 1 .. m
      BY <1>2, <1>3, <2>2, <3>1, <3>3 DEF Grown
    <3>. QED  BY <1>6, <3>2, <3>3
  <2>3. n + 1 - 1 = n
    OBVIOUS
  <2>. QED  BY <1>3, <2>1, <2>2, <2>3 DEF Grown
<1>10. n \notin Ids(es)
  BY AtIn
<1>11. \A l \in Ids(es) : l \in Ids(fs) /\ Path(fs, l) = Path(es, l)
  <2>1. PICK N \in Nat : N = n + 1
    OBVIOUS
  <2>2. Grown(fs, N) /\ m \in 0 .. Len(fs)
    BY <1>3, <1>6, <1>9, <2>1
  <2>3. \A l \in Ids(SubSeq(fs, 1, m)) : l \in Ids(fs)
                                       /\ Path(fs, l) = Path(SubSeq(fs, 1, m), l)
    BY <2>2, GrownPrefix
  <2>. QED  BY <1>4, <2>3
<1>12. n \in Ids(fs) /\ At(fs, n) = e
  BY <1>3, <1>6, <1>9, IdsAre, AtIs
<1>13. \A l \in Ids(fs) : l = n \/ l \in Ids(es)
  <2> SUFFICES ASSUME NEW l \in Ids(fs), l # n PROVE l \in Ids(es)
    OBVIOUS
  <2>1. PICK i \in 1 .. m + 1 : fs[i].id = l
    BY <1>3, IdsAre
  <2>2. i \in 1 .. m
    BY <1>3, <1>6, <2>1
  <2>. QED  BY <1>1, <1>2, <1>3, <2>1, <2>2, IdsAre
<1>14. Ids(fs) = Ids(es) \cup {n}
  BY <1>11, <1>12, <1>13
<1>15. e.parent \in Ids(fs) <=> e.parent \in Ids(es)
  BY <1>5, <1>14
<1>16. Path(fs, n) = IF e.parent \in Ids(fs) THEN Append(Path(fs, e.parent), e)
                     ELSE <<e>>
  BY <1>9, <1>12, PathStep
<1>17. Path(fs, n) = IF e.parent \in Ids(es) THEN Append(Path(es, e.parent), e)
                     ELSE <<e>>
  BY <1>11, <1>15, <1>16
<1>. QED  BY <1>9, <1>10, <1>11, <1>12, <1>14, <1>17 DEF fs

-----------------------------------------------------------------------------
(* The session that a fork makes.                                           *)

(* The three parts of Branched: what is kept of the path, chained anew, and *)
(* a label for each of its entries that has one.                            *)
Kept(es, l) == OfKind(Path(es, l), Kinds \ {"label"})

Labelled(es, kept) ==
    Only(kept, {i \in DOMAIN kept :
                  \E j \in DOMAIN es : es[j].kind = "label" /\ es[j].ref = kept[i].id})

Chained(kept) ==
    [i \in DOMAIN kept |->
       [kept[i] EXCEPT !.parent = IF i = 1 THEN Root ELSE kept[i - 1].id]]

Labels(kept, labelled, fresh) ==
    [k \in DOMAIN labelled |->
       [id |-> fresh + k - 1,
        parent |-> IF k = 1 THEN LastId(kept) ELSE fresh + k - 2,
        kind |-> "label", ref |-> labelled[k].id]]

LEMMA BranchedParts ==
    ASSUME NEW es, NEW l, NEW fresh
    PROVE  Branched(es, l, fresh) =
              Chained(Kept(es, l)) \o Labels(Kept(es, l), Labelled(es, Kept(es, l)), fresh)
BY DEF Branched, Kept, Labelled, Chained, Labels

LEMMA MakeSeq ==
    ASSUME NEW S, NEW n \in Nat, NEW f, DOMAIN f = 1 .. n, f = [i \in 1 .. n |-> f[i]],
           \A i \in 1 .. n : f[i] \in S
    PROVE  f \in Seq(S) /\ Len(f) = n
<1>1. f \in [1 .. n -> S]
  OBVIOUS
<1>2. f \in Seq(S)
  BY <1>1, SeqDef
<1>3. Len(f) \in Nat /\ 1 .. Len(f) = 1 .. n
  BY <1>2, LenProperties
<1>4. Len(f) = n
  <2> DEFINE m == Len(f)
  <2>. HIDE DEF m
  <2>1. m \in Nat /\ \A i : i \in 1 .. m <=> i \in 1 .. n
    BY <1>3 DEF m
  <2>2. m \in 1 .. m \/ m = 0
    BY <2>1
  <2>3. n \in 1 .. n \/ n = 0
    OBVIOUS
  <2>4. m <= n
    BY <2>1, <2>2
  <2>5. n <= m
    BY <2>1, <2>3
  <2>6. m = n
    BY <2>1, <2>4, <2>5
  <2>. QED  BY <2>6 DEF m
<1>. QED  BY <1>2, <1>4

LEMMA ChainedIs ==
    ASSUME NEW kept \in Seq(Entry)
    PROVE  /\ Chained(kept) \in Seq(Entry) /\ Len(Chained(kept)) = Len(kept)
           /\ \A i \in 1 .. Len(kept) :
                 /\ Chained(kept)[i].id = kept[i].id
                 /\ Chained(kept)[i].kind = kept[i].kind
                 /\ Chained(kept)[i].ref = kept[i].ref
                 /\ Chained(kept)[i].parent = IF i = 1 THEN Root ELSE kept[i - 1].id
<1> DEFINE f == Chained(kept)
           up(i) == IF i = 1 THEN Root ELSE kept[i - 1].id
<1>1. PICK n \in Nat : n = Len(kept) /\ DOMAIN kept = 1 .. n
  BY LenProperties
<1>2. f = [i \in 1 .. n |-> [kept[i] EXCEPT !.parent = up(i)]]
  BY <1>1 DEF Chained
<1>3. \A i \in 1 .. n : kept[i] \in Entry /\ kept[i].id \in Nat
  BY <1>1, EntryIs
<1>4. \A i \in 1 .. n : up(i) \in Nat
  <2>1. \A i \in 1 .. n : i = 1 \/ i - 1 \in 1 .. n
    OBVIOUS
  <2>. QED  BY <1>3, <2>1 DEF Root
<1>5. /\ DOMAIN f = 1 .. n /\ f = [i \in 1 .. n |-> f[i]]
      /\ \A i \in 1 .. n : f[i] = [kept[i] EXCEPT !.parent = up(i)]
  BY <1>2
<1>. HIDE DEF f, up
<1>6. ASSUME NEW i \in 1 .. n
      PROVE  /\ f[i] \in Entry /\ f[i].id = kept[i].id /\ f[i].kind = kept[i].kind
             /\ f[i].ref = kept[i].ref /\ f[i].parent = up(i)
  <2>1. kept[i] \in Entry /\ up(i) \in Nat
    BY <1>3, <1>4
  <2> DEFINE e == kept[i]
             p == up(i)
  <2>2. f[i] = [e EXCEPT !.parent = p] /\ e \in Entry /\ p \in Nat
    BY <1>5, <2>1
  <2>. HIDE DEF e, p
  <2>3. /\ f[i] \in Entry /\ f[i].id = e.id /\ f[i].kind = e.kind
        /\ f[i].ref = e.ref /\ f[i].parent = p
    BY <2>2 DEF Entry
  <2>. QED  BY <2>3 DEF e, p
<1>7. f \in Seq(Entry) /\ Len(f) = n
  <2>. HIDE DEF Entry
  <2>. QED  BY <1>5, <1>6, MakeSeq
<1>. QED  BY <1>1, <1>6, <1>7 DEF f, up

LEMMA LabelIs ==
    ASSUME NEW id \in Nat, NEW parent \in Nat, NEW ref \in Nat
    PROVE  [id |-> id, parent |-> parent, kind |-> "label", ref |-> ref] \in Entry
BY DEF Entry, Kinds

LEMMA LabelsAre ==
    ASSUME NEW kept \in Seq(Entry), NEW labelled \in Seq(Entry), NEW fresh \in Nat
    PROVE  /\ Labels(kept, labelled, fresh) \in Seq(Entry)
           /\ Len(Labels(kept, labelled, fresh)) = Len(labelled)
           /\ \A i \in 1 .. Len(labelled) :
                 /\ Labels(kept, labelled, fresh)[i].id = fresh + i - 1
                 /\ Labels(kept, labelled, fresh)[i].kind = "label"
                 /\ Labels(kept, labelled, fresh)[i].parent =
                       IF i = 1 THEN LastId(kept) ELSE fresh + i - 2
<1> DEFINE f == Labels(kept, labelled, fresh)
           up(i) == IF i = 1 THEN LastId(kept) ELSE fresh + i - 2
           e(i) == [id |-> fresh + i - 1, parent |-> up(i), kind |-> "label",
                    ref |-> labelled[i].id]
<1>1. PICK n \in Nat : n = Len(labelled) /\ DOMAIN labelled = 1 .. n
  BY LenProperties
<1>2. f = [i \in 1 .. n |-> e(i)]
  BY <1>1 DEF Labels
<1>3. \A i \in 1 .. n : labelled[i].id \in Nat
  BY <1>1, EntryIs
<1>4. LastId(kept) \in Nat
  BY LastIdIn, IdsAre DEF Root
<1>5. \A i \in 1 .. n : up(i) \in Nat /\ fresh + i - 1 \in Nat
  <2>1. \A i \in 1 .. n : fresh + i - 1 \in Nat /\ (i # 1 => fresh + i - 2 \in Nat)
    OBVIOUS
  <2>. QED  BY <1>4, <2>1
<1>6. /\ DOMAIN f = 1 .. n /\ f = [i \in 1 .. n |-> f[i]]
      /\ \A i \in 1 .. n : f[i] = e(i)
  BY <1>2
<1>. HIDE DEF f, up
<1>7. ASSUME NEW i \in 1 .. n PROVE e(i) \in Entry
  BY <1>3, <1>5, LabelIs
<1>8. f \in Seq(Entry) /\ Len(f) = n
  <2>. HIDE DEF Entry, e
  <2>. QED  BY <1>6, <1>7, MakeSeq
<1>9. \A i \in 1 .. n : f[i].id = fresh + i - 1 /\ f[i].kind = "label" /\ f[i].parent = up(i)
  BY <1>6
<1>. QED  BY <1>1, <1>8, <1>9 DEF f, up

(* Chain: every entry but the first is the child of the one before.         *)
Chain(es) ==
    /\ \A i \in 1 .. Len(es) - 1 : es[i + 1].parent = es[i].id
    /\ Len(es) > 0 => es[1].parent = Root

(* The entries of the path that a fork takes over.                          *)
LEMMA KeptIs ==
    ASSUME NEW n \in Nat, NEW es, Grown(es, n), NEW l \in Ids(es)
    PROVE  /\ Kept(es, l) \in Seq(Entry)
           /\ \A i \in 1 .. Len(Kept(es, l)) :
                 /\ Kept(es, l)[i].id \in Ids(es) /\ Kept(es, l)[i].id \in 1 .. n - 1
                 /\ Kept(es, l)[i] = At(es, Kept(es, l)[i].id)
                 /\ Kept(es, l)[i].kind # "label"
           /\ \A i, j \in 1 .. Len(Kept(es, l)) :
                 i < j => Kept(es, l)[i].id < Kept(es, l)[j].id
<1> DEFINE p == Path(es, l)
           K == Kinds \ {"label"}
           kept == Kept(es, l)
<1>1. Shape(es, p, l)
  BY PathShape
<1>2. p \in Seq(Entry)
  BY <1>1 DEF Shape
<1>3. kept = OfKind(p, K)
  BY DEF Kept
<1>. HIDE DEF kept, p, Entry
<1>4. kept \in Seq(Entry) /\ \E f : Stands(kept, f, p, KindAt(p, K))
  <2>. HIDE DEF K
  <2>. QED  BY <1>2, <1>3, OfKindIs
<1>5. PICK f : Stands(kept, f, p, KindAt(p, K))
  BY <1>4
<1>6. \A i \in 1 .. Len(kept) : kept[i] = p[f[i]] /\ f[i] \in 1 .. Len(p)
                                /\ p[f[i]].kind # "label"
  BY <1>5 DEF Stands, Places, KindAt
<1>7. \A i, j \in 1 .. Len(kept) : i < j => f[i] < f[j]
  BY <1>5 DEF Stands, Places
<1>8. \A i, j \in 1 .. Len(kept) : i < j => kept[i].id < kept[j].id
  BY <1>1, <1>6, <1>7 DEF Shape
<1>9. \A i \in 1 .. Len(kept) : /\ kept[i].id \in Ids(es)
                                /\ kept[i] = At(es, kept[i].id)
  BY <1>1, <1>6 DEF Shape
<1>10. \A i \in 1 .. Len(kept) : kept[i].id \in 1 .. n - 1
  BY <1>9, AtIn
<1>. QED  BY <1>4, <1>6, <1>8, <1>9, <1>10 DEF kept

LEMMA LabelledIs ==
    ASSUME NEW es, NEW kept \in Seq(Entry)
    PROVE  Labelled(es, kept) \in Seq(Entry)
           /\ (Len(kept) = 0 => Len(Labelled(es, kept)) = 0)
<1>. HIDE DEF Entry
<1>1. Labelled(es, kept) \in Seq(Entry)
  BY OnlySeq DEF Labelled
<1>2. ASSUME Len(kept) = 0 PROVE Labelled(es, kept) = <<>>
  <2>1. kept = <<>>
    BY <1>2, EmptySeq
  <2> DEFINE I == {i \in DOMAIN kept :
                     \E j \in DOMAIN es : es[j].kind = "label" /\ es[j].ref = kept[i].id}
  <2>2. Labelled(es, kept) = Only(kept, I)
    BY DEF Labelled
  <2>. HIDE DEF I
  <2>. QED  BY <2>1, <2>2, OnlyNone
<1>3. Len(<<>>) = 0
  OBVIOUS
<1>. QED  BY <1>1, <1>2, <1>3

(* The new session: first what is kept, then its labels, all in one chain.  *)
LEMMA BranchedIs ==
    ASSUME NEW n \in Nat, NEW es, Grown(es, n), NEW l \in Ids(es),
           NEW fresh \in Nat, n <= fresh
    PROVE  LET kept == Kept(es, l)
               new == Branched(es, l, fresh)
               h == Len(Labelled(es, kept))
           IN  /\ new \in Seq(Entry) /\ Len(new) = Len(kept) + h /\ h \in Nat
               /\ Grown(new, fresh + h) /\ Chain(new)
               /\ \A i \in 1 .. Len(kept) :
                     new[i].id = kept[i].id /\ new[i].kind = kept[i].kind
                     /\ new[i].ref = kept[i].ref
               /\ \A i \in 1 .. h : /\ new[Len(kept) + i].id = fresh + i - 1
                                    /\ new[Len(kept) + i].kind = "label"
               /\ Cardinality(Ids(new) \ Ids(es)) = h
<1> DEFINE kept == Kept(es, l)
           labelled == Labelled(es, kept)
           c == Chained(kept)
           d == Labels(kept, labelled, fresh)
           new == c \o d
<1>1. /\ kept \in Seq(Entry)
      /\ \A i \in 1 .. Len(kept) : kept[i].id \in Ids(es) /\ kept[i].id \in 1 .. n - 1
      /\ \A i, j \in 1 .. Len(kept) : i < j => kept[i].id < kept[j].id
  BY KeptIs
<1>2. labelled \in Seq(Entry) /\ (Len(kept) = 0 => Len(labelled) = 0)
  BY <1>1, LabelledIs
<1>3. Branched(es, l, fresh) = new
  BY BranchedParts
<1>. HIDE DEF kept, labelled
<1>4. /\ c \in Seq(Entry) /\ Len(c) = Len(kept)
      /\ \A i \in 1 .. Len(kept) :
            /\ c[i].id = kept[i].id /\ c[i].kind = kept[i].kind
            /\ c[i].ref = kept[i].ref
            /\ c[i].parent = IF i = 1 THEN Root ELSE kept[i - 1].id
  <2>. HIDE DEF Entry
  <2>. QED  BY <1>1, ChainedIs
<1>5. /\ d \in Seq(Entry) /\ Len(d) = Len(labelled)
      /\ \A i \in 1 .. Len(labelled) :
            /\ d[i].id = fresh + i - 1 /\ d[i].kind = "label"
            /\ d[i].parent = IF i = 1 THEN LastId(kept) ELSE fresh + i - 2
  <2>. HIDE DEF Entry
  <2>. QED  BY <1>1, <1>2, LabelsAre
<1>. HIDE DEF c, d
<1>6. PICK k \in Nat : k = Len(kept)
  BY <1>1, LenProperties
<1>7. PICK h \in Nat : h = Len(labelled)
  BY <1>2, LenProperties
<1>8. /\ new \in Seq(Entry) /\ Len(new) = k + h
      /\ \A i \in 1 .. k : new[i] = c[i]
      /\ \A i \in 1 .. h : new[k + i] = d[i]
  <2>. HIDE DEF Entry, new
  <2>1. new \in Seq(Entry)
    BY <1>4, <1>5, ConcatIs DEF new
  <2>5. Len(c \o d) = Len(c) + Len(d)
    <3>1. c \in Seq(Entry) /\ d \in Seq(Entry)
      BY <1>4, <1>5
    <3>. QED  BY ZenonT(30), <3>1, ConcatLen
  <2>2. Len(new) = k + h
    BY <1>4, <1>5, <1>6, <1>7, <2>5 DEF new
  <2>3. \A i \in 1 .. Len(c) : (c \o d)[i] = c[i]
    BY <1>4, <1>5, ConcatIs
  <2>4. \A i \in 1 .. Len(d) : (c \o d)[Len(c) + i] = d[i]
    <3>1. c \in Seq(Entry) /\ d \in Seq(Entry)
      BY <1>4, <1>5
    <3>. QED  BY <3>1, ConcatSecond, Zenon
  <2>. QED  BY <1>4, <1>5, <1>6, <1>7, <2>1, <2>2, <2>3, <2>4 DEF new
<1>. HIDE DEF new
<1>9. \A i \in 1 .. k : /\ new[i].id = kept[i].id /\ new[i].kind = kept[i].kind
                        /\ new[i].ref = kept[i].ref
                        /\ new[i].parent = IF i = 1 THEN Root ELSE kept[i - 1].id
  BY <1>4, <1>6, <1>8
<1>10. \A i \in 1 .. h : /\ new[k + i].id = fresh + i - 1 /\ new[k + i].kind = "label"
                         /\ new[k + i].parent = IF i = 1 THEN LastId(kept)
                                                ELSE fresh + i - 2
  BY ZenonT(60), <1>5, <1>7, <1>8
<1>11. \A x \in 1 .. k + h : x \in 1 .. k \/ \E i \in 1 .. h : x = k + i
  <2>1. \A x \in 1 .. k + h : x \in 1 .. k \/ (x - k \in 1 .. h /\ x = k + (x - k))
    OBVIOUS
  <2>. QED  BY <2>1
<1>12. \A i \in 1 .. k : kept[i].id \in 1 .. n - 1 /\ kept[i].id \in Ids(es)
  BY <1>1, <1>6
<1>13. \A i \in 1 .. Len(new) - 1 : new[i + 1].parent = new[i].id
  <2> SUFFICES ASSUME NEW x \in 1 .. k + h - 1 PROVE new[x + 1].parent = new[x].id
    BY <1>8
  <2>1. x + 1 \in 1 .. k + h /\ x \in 1 .. k + h /\ x + 1 # 1
    OBVIOUS
  <2>2. CASE x + 1 \in 1 .. k
    <3>1. x \in 1 .. k /\ x + 1 - 1 = x
      BY <2>2
    <3>. QED  BY <1>9, <2>1, <2>2, <3>1
  <2>3. ASSUME NEW i \in 1 .. h, x + 1 = k + i PROVE new[x + 1].parent = new[x].id
    <3>1. CASE i = 1
      <4>1. x = k /\ k \in 1 .. k
        BY <2>3, <3>1
      <4>2. kept # <<>>
        BY <1>6, <4>1, EmptySeq
      <4>3. LastId(kept) = kept[k].id
        BY <1>6, <4>2 DEF LastId
      <4>. QED  BY <1>9, <1>10, <2>3, <3>1, <4>1, <4>3
    <3>2. CASE i # 1
      <4>1. i - 1 \in 1 .. h /\ x = k + (i - 1) /\ fresh + (i - 1) - 1 = fresh + i - 2
        BY <2>3, <3>2
      <4>2. new[x].id = fresh + i - 2
        BY <1>10, <4>1
      <4>. QED  BY <1>10, <2>3, <3>2, <4>2
    <3>. QED  BY <3>1, <3>2
  <2>. QED  BY <1>11, <2>1, <2>2, <2>3
<1>14. Len(new) > 0 => new[1].parent = Root
  <2>1. CASE k = 0
    BY <1>2, <1>6, <1>7, <1>8, <2>1
  <2>2. CASE k # 0
    <3>1. 1 \in 1 .. k
      BY <2>2
    <3>. QED  BY <1>9, <3>1
  <2>. QED  BY <2>1, <2>2
<1>15. Chain(new)
  BY <1>13, <1>14 DEF Chain
<1>16. \A i \in 1 .. k + h : new[i].id \in Nat /\ new[i].id # 0
  <2>1. \A i \in 1 .. k : new[i].id \in Nat /\ new[i].id # 0
    BY <1>9, <1>12
  <2>2. ASSUME NEW i \in 1 .. h PROVE new[k + i].id \in Nat /\ new[k + i].id # 0
    <3>1. new[k + i].id = fresh + i - 1
      BY <1>10
    <3>2. fresh # 0
      <4>1. es # <<>>
        BY GrownNone
      <4>2. 1 \in 1 .. Len(es)
        BY <4>1, EmptySeq DEF Grown
      <4>3. es[1].id \in 1 .. n - 1
        BY <4>2 DEF Grown
      <4>. QED  BY <4>3
    <3>. QED  BY <3>1, <3>2
  <2>. QED  BY <1>11, <2>1, <2>2
<1>17. \A i \in 1 .. k + h : new[i].id < fresh + h
  <2>1. \A i \in 1 .. k : new[i].id < fresh + h
    BY <1>9, <1>12
  <2>2. \A i \in 1 .. h : new[k + i].id < fresh + h
    BY <1>10
  <2>. QED  BY <1>11, <2>1, <2>2
<1>18. ASSUME NEW i \in 1 .. k + h, NEW j \in 1 .. k + h, i < j
       PROVE  new[i].id < new[j].id
  <2>1. CASE j \in 1 .. k
    <3>1. i \in 1 .. k
      BY <1>18, <2>1
    <3>. QED  BY <1>1, <1>6, <1>9, <1>18, <2>1, <3>1
  <2>2. ASSUME NEW b \in 1 .. h, j = k + b PROVE new[i].id < new[j].id
    <3>1. CASE i \in 1 .. k
      <4>1. new[i].id = kept[i].id /\ kept[i].id \in 1 .. n - 1
        BY <1>9, <1>12, <3>1
      <4>2. new[j].id = fresh + b - 1
        BY <1>10, <2>2
      <4>. QED  BY <4>1, <4>2
    <3>2. ASSUME NEW a \in 1 .. h, i = k + a PROVE new[i].id < new[j].id
      <4>1. new[i].id = fresh + a - 1 /\ new[j].id = fresh + b - 1 /\ a < b
        BY <1>10, <1>18, <2>2, <3>2
      <4>. QED  BY <4>1
    <3>. QED  BY <1>11, <3>1, <3>2
  <2>. QED  BY <1>11, <2>1, <2>2
<1>19. Grown(new, fresh + h)
  <2>1. \A i \in 1 .. k + h : new[i].id \in 1 .. fresh + h - 1
    BY <1>16, <1>17
  <2>2. ASSUME NEW i \in 1 .. k + h PROVE new[i].parent < new[i].id
    <3>1. CASE i = 1
      BY <1>8, <1>14, <1>16, <3>1 DEF Root
    <3>2. CASE i # 1
      <4>1. i - 1 \in 1 .. k + h - 1 /\ i - 1 \in 1 .. k + h /\ i - 1 < i /\ i - 1 + 1 = i
        BY <3>2
      <4>2. new[i - 1].id < new[i].id
        BY <1>18, <4>1
      <4>. QED  BY <1>8, <1>13, <4>1, <4>2
    <3>. QED  BY <3>1, <3>2
  <2>. QED  BY <1>8, <1>18, <2>1, <2>2 DEF Grown
<1>20. Ids(new) \ Ids(es) = fresh .. fresh + h - 1
  <2>1. ASSUME NEW x \in Ids(new), x \notin Ids(es) PROVE x \in fresh .. fresh + h - 1
    <3>1. PICK i \in 1 .. k + h : new[i].id = x
      BY <1>8, <2>1, IdsAre
    <3>2. i \notin 1 .. k
      BY <1>9, <1>12, <2>1, <3>1
    <3>3. PICK a \in 1 .. h : i = k + a
      BY <1>11, <3>2
    <3>. QED  BY <1>10, <3>1, <3>3
  <2>2. ASSUME NEW x \in fresh .. fresh + h - 1 PROVE x \in Ids(new) /\ x \notin Ids(es)
    <3>1. PICK a \in 1 .. h : fresh + a - 1 = x
      <4>1. x - fresh + 1 \in 1 .. h /\ fresh + (x - fresh + 1) - 1 = x
        OBVIOUS
      <4>. QED  BY <4>1
    <3>2. new[k + a].id = x /\ k + a \in 1 .. k + h
      BY <1>10, <3>1
    <3>3. x \in Ids(new)
      BY <1>8, <3>2, IdsAre
    <3>4. ~(x < n)
      OBVIOUS
    <3>5. x \notin Ids(es)
      BY <3>4, AtIn
    <3>. QED  BY <3>3, <3>5
  <2>. QED  BY <2>1, <2>2
<1>21. Cardinality(Ids(new) \ Ids(es)) = h
  <2>1. PICK b \in Int : b = fresh + h - 1
    OBVIOUS
  <2>2. Cardinality(fresh .. b) = IF fresh > b THEN 0 ELSE b - fresh + 1
    <3>1. fresh \in Int
      OBVIOUS
    <3>. QED  BY <2>1, <3>1, FS_Interval
  <2>3. Cardinality(fresh .. b) = h
    BY <2>1, <2>2
  <2>. QED  BY <1>20, <2>1, <2>3
<1>22. /\ \A i \in 1 .. k : /\ new[i].id = kept[i].id /\ new[i].kind = kept[i].kind
                            /\ new[i].ref = kept[i].ref
       /\ \A i \in 1 .. h : new[k + i].id = fresh + i - 1 /\ new[k + i].kind = "label"
  BY <1>9, <1>10
<1>. QED
  BY <1>3, <1>6, <1>7, <1>8, <1>15, <1>19, <1>21, <1>22 DEF kept, labelled

-----------------------------------------------------------------------------
(* The inductive invariant.                                                 *)

(* What a file may be: a header first, and what it loads are entries that   *)
(* were made, in their order.                                               *)
Sound(f, n) ==
    /\ f \in Seq(FileLine)
    /\ f # <<>> => f[1] \in {Header, Line("header2")}
    /\ Grown(Load(f), n)

(* No line of the file was cut short.                                       *)
Whole(f) == f # <<>> => f[Len(f)].kind # "torn"

(* Between two calls: without a file there is no answer of the model yet;   *)
(* before any damage, a file holds what the memory holds.                   *)
Settled ==
    process = "up" /\ task.kind = "none" =>
        /\ flushed = "yes" => exists = "yes" /\ file # <<>>
        /\ exists = "no" => flushed = "no" /\ ~HasAssistant(entries)
        /\ damage = 0 /\ exists = "yes" => flushed = "yes"
        /\ damage = 0 /\ flushed = "yes" => Load(file) = entries

(* Inside a longer write: the lines before the next one are written.        *)
Writing ==
    task.kind # "none" =>
        /\ flushed = "no" /\ leaf = LastId(entries)
        /\ task.next = 1 => file = <<>>
        /\ task.next # 1 => file = <<Header>> \o SubSeq(entries, 1, task.next - 2)

(* The first write is that of the first answer.                             *)
Creating ==
    task.kind = "create" =>
        /\ entries # <<>>
        /\ ~HasAssistant(SubSeq(entries, 1, Len(entries) - 1))

(* During the write of a fork the session that is left is as it was.        *)
Forking ==
    task.kind = "fork" =>
        /\ HasAssistant(entries)
        /\ Grown(prev.entries, nextId) /\ Sound(prev.file, nextId)
        /\ damage = 0 =>
             /\ Whole(prev.file) /\ Load(prev.file) = prev.entries
             /\ \E l \in Ids(prev.entries), fresh \in 1 .. nextId :
                   Grown(prev.entries, fresh) /\ entries = Branched(prev.entries, l, fresh)

(* What a running process reads or writes begins with a header.             *)
Running == process = "up" /\ file # <<>> => file[1] = Header

(* A process that is down has no memory.                                    *)
Stopped ==
    process = "down" => entries = <<>> /\ leaf = Root /\ flushed = "no"

IInv ==
    /\ FileTypeOK /\ Grown(entries, nextId) /\ Sound(file, nextId)
    /\ damage = 0 => Whole(file)
    /\ task.kind = "none" => task = Idle
    /\ Settled /\ Writing /\ Creating /\ Forking /\ Running /\ Stopped

(* The compactions under way.  The path of the leaf that one was prepared   *)
(* for is as it was then, whatever has been appended and wherever the leaf  *)
(* has gone.                                                                *)
Preparing ==
    /\ prepared \in SUBSET [ref : Nat, from : Ids(entries)]
    /\ process = "down" => prepared = {}
    /\ astray \in {"yes", "no"}
    /\ \A p \in prepared : /\ CanCompact(Path(entries, p.from))
                          /\ p.ref = FirstToKeep(Path(entries, p.from))

(* All but the compactions under way.                                       *)
FileVars == <<process, entries, leaf, flushed, file, exists, task, prev, nextId, damage>>

-----------------------------------------------------------------------------
(* Lines and what they load.                                                *)

LEMMA EntryLine ==
    ASSUME NEW es \in Seq(Entry) PROVE es \in Seq(FileLine)
<1>1. Entry \subseteq FileLine
  BY DEF FileLine
<1>. HIDE DEF Entry, FileLine
<1>. QED  BY <1>1, SeqMonotonic

LEMMA HeaderLine ==
    /\ \A k \in {"header", "header2", "torn", "garbage"} :
          Line(k) \in FileLine /\ Line(k).kind = k
    /\ Header \in FileLine /\ Header.kind = "header"
<1>1. \A k : Line(k).kind = k
  BY DEF Line
<1>. QED  BY <1>1 DEF FileLine, Header

LEMMA EntryParsed ==
    ASSUME NEW e \in Entry
    PROVE  e \in FileLine /\ e.kind \in Kinds \cup {"header", "header2"} /\ e.kind # "torn"
BY DEF FileLine, Entry, Kinds, ShownKinds, MessageKinds

LEMMA LoadNothing == Load(<<>>) = <<>>
BY DEF Load

(* The lines after the first.                                               *)
Parsed == Kinds \cup {"header", "header2"}

LEMMA LoadIs ==
    ASSUME NEW f, f # <<>>, f[1] \in {Header, Line("header2")}
    PROVE  Load(f) = OfKind(Tail(f), Parsed)
<1>1. f[1].kind \in {"header", "header2"}
  BY HeaderLine DEF Header
<1>. QED  BY <1>1 DEF Load, Parsed

LEMMA TailAppend ==
    ASSUME NEW S, NEW f \in Seq(S), f # <<>>, NEW e \in S
    PROVE  /\ Tail(Append(f, e)) = Append(Tail(f), e) /\ Append(f, e) \in Seq(S)
           /\ Append(f, e) # <<>> /\ Append(f, e)[1] = f[1]
<1> DEFINE r == Append(f, e)
           t == Tail(f)
<1>1. PICK n \in Nat : n = Len(f) /\ n # 0
  BY EmptySeq, LenProperties
<1>2. /\ r \in Seq(S) /\ Len(r) = n + 1 /\ r[n + 1] = e /\ \A i \in 1 .. n : r[i] = f[i]
  BY <1>1, AppendProperties
<1>3. t \in Seq(S) /\ Len(t) = n - 1 /\ \A i \in 1 .. n - 1 : t[i] = f[i + 1]
  BY <1>1, HeadTailProperties
<1>. HIDE DEF r, t
<1>4. r # <<>>
  BY <1>1, <1>2, EmptySeq
<1> DEFINE a == Tail(r)
           b == Append(t, e)
<1>5. a \in Seq(S) /\ Len(a) = n /\ \A i \in 1 .. n : a[i] = r[i + 1]
  <2>1. a \in Seq(S) /\ Len(a) = Len(r) - 1 /\ \A i \in 1 .. Len(a) : a[i] = r[i + 1]
    BY <1>2, <1>4, HeadTailProperties
  <2>. HIDE DEF a
  <2>2. Len(a) = n
    BY <1>2, <2>1
  <2>. QED  BY <2>1, <2>2
<1>6. /\ b \in Seq(S) /\ Len(b) = n /\ b[n] = e /\ \A i \in 1 .. n - 1 : b[i] = t[i]
  <2>1. b \in Seq(S) /\ Len(b) = Len(t) + 1 /\ b[Len(t) + 1] = e
        /\ \A i \in 1 .. Len(t) : b[i] = t[i]
    BY <1>3, AppendProperties
  <2>. HIDE DEF b
  <2>2. Len(t) + 1 = n
    BY <1>1, <1>3
  <2>. QED  BY <1>3, <2>1, <2>2
<1>. HIDE DEF a, b
<1>7. \A i \in 1 .. n : i = n \/ (i \in 1 .. n - 1 /\ i + 1 \in 1 .. n)
  OBVIOUS
<1>8. \A i \in 1 .. n : a[i] = b[i]
  <2> SUFFICES ASSUME NEW i \in 1 .. n PROVE a[i] = b[i]
    OBVIOUS
  <2>1. CASE i = n
    BY <1>2, <1>5, <1>6, <2>1
  <2>2. CASE i \in 1 .. n - 1 /\ i + 1 \in 1 .. n
    BY <1>2, <1>3, <1>5, <1>6, <2>2
  <2>. QED  BY <1>7, <2>1, <2>2
<1>9. a = b
  BY <1>5, <1>6, <1>8, SeqEqual
<1>10. 1 \in 1 .. n
  BY <1>1
<1>. QED  BY <1>2, <1>4, <1>9, <1>10 DEF a, b, r, t

LEMMA TailIs ==
    ASSUME NEW S, NEW f \in Seq(S), f # <<>> PROVE Tail(f) \in Seq(S)
BY HeadTailProperties

LEMMA LoadAppend ==
    ASSUME NEW f \in Seq(FileLine), f # <<>>, f[1] \in {Header, Line("header2")},
           NEW e \in FileLine
    PROVE  /\ Append(f, e) \in Seq(FileLine) /\ Append(f, e) # <<>>
           /\ Append(f, e)[1] = f[1]
           /\ Load(Append(f, e)) = IF e.kind \in Parsed THEN Append(Load(f), e) ELSE Load(f)
<1> DEFINE t == Tail(f)
           r == Append(f, e)
<1>. HIDE DEF FileLine
<1>1. /\ r \in Seq(FileLine) /\ r # <<>> /\ r[1] = f[1] /\ Tail(r) = Append(t, e)
  BY TailAppend
<1>2. t \in Seq(FileLine)
  BY TailIs
<1>. HIDE DEF t, r
<1>3. Load(f) = OfKind(t, Parsed)
  BY LoadIs DEF t
<1>4. Load(r) = OfKind(Append(t, e), Parsed)
  BY <1>1, LoadIs
<1>5. OfKind(Append(t, e), Parsed) =
         IF e.kind \in Parsed THEN Append(OfKind(t, Parsed), e) ELSE OfKind(t, Parsed)
  <2>. HIDE DEF Parsed
  <2>. QED  BY <1>2, OfKindAppend
<1>. QED  BY <1>1, <1>3, <1>4, <1>5 DEF r

LEMMA LastLine ==
    ASSUME NEW S, NEW f \in Seq(S), f # <<>>, NEW x \in S
    PROVE  LET g == SubSeq(f, 1, Len(f) - 1)
           IN  /\ g \in Seq(S) /\ f = Append(g, f[Len(f)]) /\ f[Len(f)] \in S
               /\ [f EXCEPT ![Len(f)] = x] = Append(g, x)
               /\ (Len(f) # 1 => g # <<>> /\ g[1] = f[1])
               /\ Len(f) \in Nat /\ Len(f) # 0
<1> DEFINE g == SubSeq(f, 1, Len(f) - 1)
           h == [f EXCEPT ![Len(f)] = x]
           y == f[Len(f)]
<1>1. PICK n \in Nat : n = Len(f) /\ n # 0
  BY EmptySeq, LenProperties
<1>2. n - 1 \in 0 .. Len(f) /\ n - 1 = Len(f) - 1 /\ n \in 1 .. n
  BY <1>1
<1>3. g \in Seq(S) /\ Len(g) = n - 1 /\ \A i \in 1 .. n - 1 : g[i] = f[i]
  BY <1>2, PrefixIs
<1>4. y \in S
  BY <1>1, <1>2, ElementOfSeq
<1>5. h \in Seq(S) /\ Len(h) = n /\ \A j \in 1 .. n : h[j] = IF j = n THEN x ELSE f[j]
  BY <1>1, <1>2, ExceptSeq
<1>. HIDE DEF g, h, y
<1>6. \A z \in S : /\ Append(g, z) \in Seq(S) /\ Len(Append(g, z)) = n
                   /\ Append(g, z)[n] = z
                   /\ \A i \in 1 .. n - 1 : Append(g, z)[i] = g[i]
  <2> TAKE z \in S
  <2> DEFINE b == Append(g, z)
  <2>1. b \in Seq(S) /\ Len(b) = Len(g) + 1 /\ b[Len(g) + 1] = z
        /\ \A i \in 1 .. Len(g) : b[i] = g[i]
    BY <1>3, AppendProperties
  <2>. HIDE DEF b
  <2>2. Len(g) + 1 = n
    BY <1>1, <1>3
  <2>3. b \in Seq(S) /\ Len(b) = n /\ b[n] = z /\ \A i \in 1 .. n - 1 : b[i] = g[i]
    BY <1>3, <2>1, <2>2
  <2>. QED  BY <2>3 DEF b
<1>7. \A i \in 1 .. n : i = n \/ (i \in 1 .. n - 1 /\ i # n)
  OBVIOUS
<1>8. f = Append(g, y)
  <2> DEFINE b == Append(g, y)
  <2>1. b \in Seq(S) /\ Len(b) = n /\ b[n] = y /\ \A i \in 1 .. n - 1 : b[i] = g[i]
    BY <1>4, <1>6
  <2>. HIDE DEF b
  <2>2. \A i \in 1 .. n : f[i] = b[i]
    BY <1>1, <1>3, <1>7, <2>1 DEF y
  <2>3. f = b
    BY <1>1, <2>1, <2>2, SeqEqual
  <2>. QED  BY <2>3 DEF b
<1>9. h = Append(g, x)
  <2> DEFINE b == Append(g, x)
  <2>1. b \in Seq(S) /\ Len(b) = n /\ b[n] = x /\ \A i \in 1 .. n - 1 : b[i] = g[i]
    BY <1>6
  <2>. HIDE DEF b
  <2>2. \A i \in 1 .. n : h[i] = b[i]
    BY <1>3, <1>5, <1>7, <2>1
  <2>3. h = b
    BY <1>5, <2>1, <2>2, SeqEqual
  <2>. QED  BY <2>3 DEF b
<1>10. Len(f) # 1 => g # <<>> /\ g[1] = f[1]
  <2>1. ASSUME n # 1 PROVE 1 \in 1 .. n - 1 /\ n - 1 # 0
    BY <1>1, <2>1
  <2>. QED  BY <1>1, <1>3, <2>1, EmptySeq
<1>. QED  BY <1>1, <1>3, <1>4, <1>8, <1>9, <1>10 DEF g, h, y

(* A line more, or what a line becomes behind the start of another.         *)
LEMMA LoadWithLine ==
    ASSUME NEW f \in Seq(FileLine), f # <<>>, f[1] \in {Header, Line("header2")},
           NEW e \in FileLine
    PROVE  /\ WithLine(f, e) \in Seq(FileLine) /\ WithLine(f, e) # <<>>
           /\ WithLine(f, e)[1] = f[1]
           /\ Whole(f) => WithLine(f, e) = Append(f, e)
           /\ Whole(f) /\ e.kind # "torn" => Whole(WithLine(f, e))
           /\ \/ Load(WithLine(f, e)) = Load(f)
              \/ e.kind \in Parsed /\ Load(WithLine(f, e)) = Append(Load(f), e)
           /\ Whole(f) /\ e.kind \in Parsed => Load(WithLine(f, e)) = Append(Load(f), e)
<1>. HIDE DEF FileLine
<1>0. Len(f) \in Nat \ {0}
  BY EmptySeq
<1>1. CASE f[Len(f)].kind = "torn"
  <2> DEFINE x == Line("garbage")
             y == f[Len(f)]
             g == SubSeq(f, 1, Len(f) - 1)
  <2>1. x \in FileLine /\ x.kind \notin Parsed
    BY HeaderLine DEF Parsed, Kinds, ShownKinds, MessageKinds
  <2>2. WithLine(f, e) = [f EXCEPT ![Len(f)] = x]
    BY <1>1 DEF WithLine
  <2>. HIDE DEF x, g, y
  <2>3. /\ g \in Seq(FileLine) /\ f = Append(g, y) /\ y \in FileLine
        /\ WithLine(f, e) = Append(g, x) /\ (Len(f) # 1 => g # <<>> /\ g[1] = f[1])
    BY <2>1, <2>2, LastLine DEF g, y
  <2>4. Len(f) # 1
    <3>1. f[1].kind # "torn"
      BY HeaderLine
    <3>. QED  BY <1>1, <3>1
  <2>5. g # <<>> /\ g[1] \in {Header, Line("header2")} /\ g[1] = f[1]
    BY <2>3, <2>4
  <2>6. y.kind \notin Parsed
    BY <1>1 DEF y, Parsed, Kinds, ShownKinds, MessageKinds
  <2>7. Load(Append(g, y)) = Load(g)
    BY <2>3, <2>5, <2>6, LoadAppend
  <2>8. /\ Append(g, x) \in Seq(FileLine) /\ Append(g, x) # <<>> /\ Append(g, x)[1] = g[1]
        /\ Load(Append(g, x)) = Load(g)
    BY <2>1, <2>3, <2>5, LoadAppend
  <2>9. ~Whole(f)
    BY <1>1 DEF Whole
  <2>. QED  BY <2>3, <2>5, <2>7, <2>8, <2>9
<1>2. CASE f[Len(f)].kind # "torn"
  <2>1. WithLine(f, e) = Append(f, e)
    BY <1>2 DEF WithLine
  <2>2. /\ Append(f, e) \in Seq(FileLine) /\ Append(f, e) # <<>> /\ Append(f, e)[1] = f[1]
        /\ Load(Append(f, e)) = IF e.kind \in Parsed THEN Append(Load(f), e) ELSE Load(f)
    BY LoadAppend
  <2>3. Append(f, e)[Len(Append(f, e))] = e
    BY AppendProperties
  <2>4. e.kind # "torn" => Whole(WithLine(f, e))
    BY <2>1, <2>3 DEF Whole
  <2>. QED  BY <2>1, <2>2, <2>4
<1>. QED  BY <1>1, <1>2

LEMMA AppendConcat ==
    ASSUME NEW S, NEW s \in Seq(S), NEW t \in Seq(S), NEW e \in S
    PROVE  s \o Append(t, e) = Append(s \o t, e) /\ s \o <<>> = s
<1> DEFINE u == <<e>>
<1>1. u \in Seq(S) /\ s \o t \in Seq(S)
  BY ConcatProperties
<1>. HIDE DEF u
<1>2. s \o (t \o u) = (s \o t) \o u
  BY <1>1, ConcatAssociative
<1>3. Append(t, e) = t \o u /\ Append(s \o t, e) = (s \o t) \o u
  BY <1>1, AppendIsConcat DEF u
<1>. QED  BY <1>2, <1>3, ConcatEmptySeq

(* A file that was written whole loads what was written.                    *)
LEMMA WrittenIs ==
    ASSUME NEW es \in Seq(Entry)
    PROVE  LET f == <<Header>> \o es
           IN  /\ f \in Seq(FileLine) /\ f # <<>> /\ f[1] = Header
               /\ Load(f) = es /\ Whole(f) /\ Len(f) = Len(es) + 1
               /\ \A i \in 1 .. Len(es) : f[i + 1] = es[i]
<1> DEFINE h == <<Header>>
           f == h \o es
           t == Tail(f)
<1>1. h \in Seq(FileLine) /\ Len(h) = 1 /\ h[1] = Header
  BY HeaderLine
<1>2. es \in Seq(FileLine)
  BY EntryLine
<1>3. PICK n \in Nat : n = Len(es)
  BY LenProperties
<1>. HIDE DEF FileLine, Entry, h
<1>4. /\ f \in Seq(FileLine) /\ Len(f) = n + 1 /\ f[1] = Header
      /\ \A i \in 1 .. n : f[i + 1] = es[i]
  <2>1. f \in Seq(FileLine)
    BY <1>1, <1>2, ConcatIs
  <2>2. Len(f) = Len(h) + Len(es)
    BY <1>1, <1>2, ConcatIs
  <2>3. \A i \in 1 .. Len(h) : f[i] = h[i]
    BY <1>1, <1>2, ConcatIs
  <2>4. \A i \in 1 .. Len(es) : f[Len(h) + i] = es[i]
    <3>1. h \in Seq(FileLine)
      BY <1>1
    <3>. QED  BY <1>2, <3>1, ConcatSecond, Zenon
  <2>. HIDE DEF f
  <2>5. Len(f) = n + 1
    BY <1>1, <1>3, <2>2
  <2>6. f[1] = Header
    BY <1>1, <2>3
  <2>7. \A i \in 1 .. n : f[i + 1] = es[i]
    <3>1. \A i \in 1 .. n : 1 + i = i + 1
      OBVIOUS
    <3>. QED  BY <1>1, <1>3, <2>4, <3>1
  <2>. QED  BY <2>1, <2>5, <2>6, <2>7
<1>. HIDE DEF f
<1>5. f # <<>>
  BY <1>4, EmptySeq
<1>6. t = es
  <2>1. t \in Seq(FileLine) /\ Len(t) = Len(f) - 1 /\ \A i \in 1 .. Len(t) : t[i] = f[i + 1]
    BY <1>4, <1>5, HeadTailProperties
  <2>. HIDE DEF t
  <2>2. Len(t) = n
    BY <1>4, <2>1
  <2>3. \A i \in 1 .. n : t[i] = es[i]
    BY <1>4, <2>1, <2>2
  <2>. QED  BY <1>2, <1>3, <2>1, <2>2, <2>3, SeqEqual
<1>7. Load(f) = OfKind(es, Parsed)
  BY <1>4, <1>5, <1>6, LoadIs
<1>8. OfKind(es, Parsed) = es
  <2>1. \A i \in 1 .. Len(es) : es[i].kind \in Parsed
    BY EntryIs DEF Parsed
  <2>. HIDE DEF Parsed
  <2>. QED  BY <2>1, OfKindAll
<1>9. Whole(f)
  <2>1. CASE n = 0
    BY <1>4, <2>1, HeaderLine DEF Whole
  <2>2. CASE n # 0
    <3>1. n \in 1 .. n
      BY <2>2
    <3>2. f[n + 1] = es[n] /\ es[n] \in Entry
      BY <1>3, <1>4, <3>1, ElementOfSeq
    <3>3. es[n].kind # "torn"
      BY <3>2, EntryParsed
    <3>. QED  BY <1>4, <3>2, <3>3 DEF Whole
  <2>. QED  BY <2>1, <2>2
<1>. QED  BY <1>3, <1>4, <1>5, <1>7, <1>8, <1>9 DEF f, h

LEMMA WrittenNone == <<Header>> \o <<>> = <<Header>> /\ <<Header>> \o <<>> = Append(<<>>, Header)
<1>1. <<Header>> \in Seq(FileLine)
  BY HeaderLine
<1>2. <<Header>> \o <<>> = <<Header>>
  BY <1>1, ConcatEmptySeq
<1>. QED  BY <1>2

(* One line further.                                                        *)
LEMMA WrittenMore ==
    ASSUME NEW es \in Seq(Entry), NEW k \in Nat, k + 1 \in 1 .. Len(es)
    PROVE  /\ Append(<<Header>> \o SubSeq(es, 1, k), (<<Header>> \o es)[k + 2])
                 = <<Header>> \o SubSeq(es, 1, k + 1)
           /\ SubSeq(es, 1, k) \in Seq(Entry) /\ SubSeq(es, 1, k + 1) \in Seq(Entry)
<1> DEFINE h == <<Header>>
           a == SubSeq(es, 1, k)
           b == SubSeq(es, 1, k + 1)
           e == es[k + 1]
<1>1. PICK n \in Nat : n = Len(es) /\ k \in 0 .. Len(es) /\ k + 1 \in 0 .. Len(es)
  BY LenProperties
<1>2. h \in Seq(FileLine) /\ es \in Seq(FileLine)
  BY HeaderLine, EntryLine
<1>. HIDE DEF FileLine, Entry, h
<1>3. /\ a \in Seq(Entry) /\ Len(a) = k
      /\ \A i \in 1 .. k : a[i] = es[i]
  BY <1>1, PrefixIs
<1>4. /\ b \in Seq(Entry) /\ Len(b) = k + 1
      /\ \A i \in 1 .. k + 1 : b[i] = es[i]
  BY <1>1, PrefixIs
<1>5. e \in Entry
  BY ElementOfSeq
<1>6. (<<Header>> \o es)[k + 2] = e
  <2> DEFINE f == <<Header>> \o es
  <2>1. \A i \in 1 .. Len(es) : f[i + 1] = es[i]
    BY WrittenIs
  <2>. HIDE DEF f
  <2>2. k + 1 + 1 = k + 2
    OBVIOUS
  <2>3. f[k + 2] = e
    BY <2>1, <2>2
  <2>. QED  BY <2>3 DEF f
<1>. HIDE DEF a, b, e
<1>7. b = Append(a, e)
  <2> DEFINE c == Append(a, e)
  <2>1. c \in Seq(Entry) /\ Len(c) = k + 1 /\ c[k + 1] = e /\ \A i \in 1 .. k : c[i] = a[i]
    BY <1>3, <1>5, AppendProperties
  <2>. HIDE DEF c
  <2>2. \A i \in 1 .. k + 1 : i = k + 1 \/ i \in 1 .. k
    OBVIOUS
  <2>3. \A i \in 1 .. k + 1 : b[i] = c[i]
    BY <1>3, <1>4, <2>1, <2>2 DEF e
  <2>4. b = c
    BY <1>4, <2>1, <2>3, SeqEqual
  <2>. QED  BY <2>4 DEF c
<1>8. a \in Seq(FileLine) /\ e \in FileLine
  BY <1>3, <1>5, EntryLine, EntryParsed
<1>9. h \o Append(a, e) = Append(h \o a, e)
  BY <1>2, <1>8, AppendConcat
<1>. QED  BY <1>3, <1>4, <1>6, <1>7, <1>9 DEF a, b, h

-----------------------------------------------------------------------------
(* Where a compaction cuts.                                                 *)

LEMMA LatestIs ==
    ASSUME NEW path \in Seq(Entry)
    PROVE  /\ LatestCompaction(path) \in 0 .. Len(path) /\ LatestCompaction(path) \in Nat
           /\ LatestCompaction(path) # 0 =>
                 /\ LatestCompaction(path) \in 1 .. Len(path)
                 /\ path[LatestCompaction(path)].kind = "compaction"
           /\ \A i \in 1 .. Len(path) :
                 path[i].kind = "compaction" => i <= LatestCompaction(path)
<1> DEFINE at == {i \in DOMAIN path : path[i].kind = "compaction"}
<1>1. Len(path) \in Nat /\ DOMAIN path = 1 .. Len(path)
  BY LenProperties
<1>2. LatestCompaction(path) = IF at = {} THEN 0 ELSE LastOf(at)
  BY DEF LatestCompaction, LastOf
<1>3. at \subseteq 1 .. Len(path)
  BY <1>1
<1>4. \A i \in 1 .. Len(path) : i \in at <=> path[i].kind = "compaction"
  BY <1>1
<1>. HIDE DEF at
<1>5. at # {} => LastOf(at) \in at /\ \A j \in at : j <= LastOf(at)
  BY <1>1, <1>3, LastIs
<1>6. CASE at = {}
  BY <1>1, <1>2, <1>4, <1>6
<1>7. CASE at # {}
  <2>1. PICK c : c = LastOf(at)
    OBVIOUS
  <2>2. c \in 1 .. Len(path) /\ LatestCompaction(path) = c /\ \A j \in at : j <= c
    BY <1>2, <1>3, <1>5, <1>7, <2>1
  <2>3. path[c].kind = "compaction"
    BY <1>4, <1>5, <1>7, <2>1, <2>2
  <2>4. c \in 0 .. Len(path) /\ c \in Nat
    BY <1>1, <2>2
  <2>. QED  BY <1>4, <2>2, <2>3, <2>4
<1>. QED  BY <1>6, <1>7

LEMMA FirstKeptIs ==
    ASSUME NEW path, NEW c \in Nat, c # 0
    PROVE  /\ FirstKept(path, c) \in 1 .. c /\ FirstKept(path, c) \in Nat
           /\ FirstKept(path, c) # c => path[FirstKept(path, c)].id = path[c].ref
           /\ \A i \in 1 .. c - 1 : path[i].id = path[c].ref =>
                 FirstKept(path, c) <= i /\ FirstKept(path, c) # c
<1> DEFINE at == {i \in 1 .. c - 1 : path[i].id = path[c].ref}
<1>1. FirstKept(path, c) = IF at = {} THEN c ELSE FirstOf(at)
  BY DEF FirstKept, FirstOf
<1>2. at \subseteq Nat /\ at \subseteq 1 .. c - 1
  OBVIOUS
<1>3. \A i \in 1 .. c - 1 : i \in at <=> path[i].id = path[c].ref
  OBVIOUS
<1>. HIDE DEF at
<1>4. at # {} => FirstOf(at) \in at /\ \A j \in at : FirstOf(at) <= j
  BY <1>2, FirstIs
<1>5. CASE at = {}
  <2>1. c \in 1 .. c
    OBVIOUS
  <2>. QED  BY <1>1, <1>3, <1>5, <2>1
<1>6. CASE at # {}
  <2>1. PICK f : f = FirstOf(at)
    OBVIOUS
  <2>2. f \in 1 .. c - 1 /\ FirstKept(path, c) = f /\ \A j \in at : f <= j
    BY <1>1, <1>2, <1>4, <1>6, <2>1
  <2>3. path[f].id = path[c].ref
    BY <1>3, <1>4, <1>6, <2>1, <2>2
  <2>4. f \in 1 .. c /\ f \in Nat /\ f # c
    BY <2>2
  <2>. QED  BY <1>3, <2>2, <2>3, <2>4
<1>. QED  BY <1>5, <1>6

(* Where prepareCompaction begins to look.                                  *)
Start(path) ==
    LET c == LatestCompaction(path)
        first == FirstKept(path, c)
    IN  IF c = 0 THEN 1 ELSE IF first = c THEN c + 1 ELSE first

LEMMA StartIs ==
    ASSUME NEW path \in Seq(Entry), CanCompact(path)
    PROVE  /\ Start(path) \in 1 .. Len(path) /\ Start(path) \in Nat
           /\ FirstToKeep(path) = path[CutPoint(path, Start(path))].id
<1>1. FirstToKeep(path) = path[CutPoint(path, Start(path))].id
  BY DEF FirstToKeep, Start
<1>2. PICK n \in Nat : n = Len(path) /\ n # 0 /\ path[n].kind # "compaction"
  BY EmptySeq DEF CanCompact
<1>3. PICK c : c = LatestCompaction(path)
  OBVIOUS
<1>4. c \in 0 .. n /\ (c # 0 => c \in 1 .. n /\ path[c].kind = "compaction")
  BY <1>2, <1>3, LatestIs
<1>5. c # n /\ c \in Nat
  BY <1>2, <1>4
<1>6. c # 0 => FirstKept(path, c) \in 1 .. c
  BY <1>5, FirstKeptIs
<1>7. Start(path) = IF c = 0 THEN 1 ELSE IF FirstKept(path, c) = c THEN c + 1
                                         ELSE FirstKept(path, c)
  BY <1>3 DEF Start
<1>8. Start(path) \in 1 .. n
  BY <1>2, <1>4, <1>5, <1>6, <1>7
<1>. QED  BY <1>1, <1>2, <1>8

(* findValidCutPoints, from the place where it begins.                      *)
Cuts(path, start) == {i \in start .. Len(path) : CanCut(path[i])}

(* The cut is at a cut point, in or after the budget when there is one, and *)
(* only labels and summaries come between it and what is kept.              *)
CutAt(path, start, cut) ==
    /\ cut \in Cuts(path, start)
    /\ CutPoint(path, start) <= cut
    /\ \A j \in CutPoint(path, start) .. cut - 1 : path[j].kind \in {"label", "summary"}
    /\ BudgetSpent(path, start) > 0 /\ (\E i \in Cuts(path, start) :
          i >= BudgetSpent(path, start)) => cut >= BudgetSpent(path, start)

LEMMA CutIs ==
    ASSUME NEW path \in Seq(Entry), NEW start \in 1 .. Len(path)
    PROVE  /\ CutPoint(path, start) \in start .. Len(path)
           /\ \/ Cuts(path, start) = {} /\ CutPoint(path, start) = start
              \/ \E cut \in Nat : CutAt(path, start, cut)
<1> DEFINE cuts == Cuts(path, start)
           spent == BudgetSpent(path, start)
           after == {i \in cuts : spent > 0 /\ i >= spent}
           from == IF after = {} THEN cuts ELSE after
           cut == FirstOf(from)
           loose == {i \in start .. cut :
                       \A j \in i .. cut - 1 : path[j].kind \in {"label", "summary"}}
<1>1. CutPoint(path, start) = IF cuts = {} THEN start ELSE FirstOf(loose)
  BY DEF CutPoint, Cuts, FirstOf
<1>2. PICK n \in Nat : n = Len(path)
  BY LenProperties
<1>3. start \in Nat /\ start \in 1 .. n /\ start \in start .. n
  BY <1>2
<1>4. cuts \subseteq Nat /\ cuts \subseteq start .. n
  BY <1>2, <1>3 DEF Cuts
<1>5. CASE cuts = {}
  BY <1>1, <1>2, <1>3, <1>5
<1>6. CASE cuts # {}
  <2>. HIDE DEF cuts, spent
  <2>1. from \subseteq Nat /\ from # {} /\ from \subseteq cuts
    BY <1>4, <1>6
  <2>2. (\E i \in cuts : i >= spent) /\ spent > 0 => \A i \in from : i >= spent
    OBVIOUS
  <2>. HIDE DEF from
  <2>3. PICK x : x = FirstOf(from)
    OBVIOUS
  <2>4. x \in from
    BY <2>1, <2>3, FirstIs
  <2>5. x \in cuts /\ x \in start .. n /\ x \in Nat
    BY <1>4, <2>1, <2>4
  <2> DEFINE free == {i \in start .. x :
                        \A j \in i .. x - 1 : path[j].kind \in {"label", "summary"}}
  <2>6. loose = free
    BY <2>3
  <2>7. x \in free
    <3>1. x \in start .. x /\ \A j \in x .. x - 1 : FALSE
      BY <1>3, <2>5
    <3>. QED  BY <3>1
  <2>8. free \subseteq Nat /\ free \subseteq start .. x
    BY <1>3, <2>5
  <2>9. \A i \in free : \A j \in i .. x - 1 : path[j].kind \in {"label", "summary"}
    OBVIOUS
  <2>. HIDE DEF free
  <2>10. PICK k : k = FirstOf(free)
    OBVIOUS
  <2>11. k \in free
    BY <2>7, <2>8, <2>10, FirstIs
  <2>. HIDE DEF loose
  <2>12. CutPoint(path, start) = k
    BY <1>1, <1>6, <2>6, <2>10
  <2>13. k \in start .. x /\ k <= x
    BY <1>3, <2>5, <2>8, <2>11
  <2>14. k \in start .. n
    BY <1>2, <1>3, <2>5, <2>13
  <2>15. spent > 0 /\ (\E i \in cuts : i >= spent) => x >= spent
    BY <2>2, <2>4
  <2>16. CutAt(path, start, x)
    BY <2>5, <2>9, <2>11, <2>12, <2>13, <2>15 DEF CutAt, cuts, spent
  <2>. QED  BY <1>2, <2>5, <2>12, <2>14, <2>16
<1>. QED  BY <1>5, <1>6

LEMMA KeepIs ==
    ASSUME NEW path \in Seq(Entry), CanCompact(path)
    PROVE  FirstToKeep(path) \in Nat
<1>1. Start(path) \in 1 .. Len(path) /\ Len(path) \in Nat
  BY StartIs, LenProperties
<1>2. CutPoint(path, Start(path)) \in Start(path) .. Len(path)
  BY <1>1, CutIs
<1>3. CutPoint(path, Start(path)) \in 1 .. Len(path)
  BY <1>1, <1>2
<1>. QED  BY <1>3, StartIs, EntryIs

-----------------------------------------------------------------------------
(* The steps.                                                               *)

LEMMA OldFileIs ==
    /\ OldFile \in Seq(FileLine) /\ OldFile # <<>> /\ OldFile[1] = Line("header2")
    /\ Grown(Load(OldFile), 3) /\ Whole(OldFile) /\ Len(Load(OldFile)) = 2
    /\ \A i \in 1 .. 2 : Load(OldFile)[i].kind \in {"user", "assistant"}
<1> DEFINE u == [id |-> 1, parent |-> 0, ref |-> 0, kind |-> "user"]
           a == [id |-> 2, parent |-> 1, ref |-> 0, kind |-> "assistant"]
           h == Line("header2")
           f == <<h>>
           g == Append(f, u)
<1>1. u \in Entry /\ a \in Entry
  BY DEF Entry, Kinds, ShownKinds, MessageKinds
<1>2. h \in FileLine /\ u \in FileLine /\ a \in FileLine
  BY <1>1, HeaderLine, EntryParsed
<1>3. f \in Seq(FileLine) /\ f # <<>> /\ f[1] = Line("header2")
  BY <1>2
<1>4. OldFile = Append(g, a)
  BY DEF OldFile
<1>5. /\ u.id = 1 /\ u.parent = 0 /\ u.kind = "user" /\ a.id = 2 /\ a.parent = 1
      /\ a.kind = "assistant"
  OBVIOUS
<1>6. u.kind \in Parsed /\ a.kind \in Parsed
  BY DEF Parsed, Kinds, ShownKinds, MessageKinds
<1>7. Load(f) = <<>>
  <2>1. Load(f) = OfKind(Tail(f), Parsed)
    BY <1>3, LoadIs
  <2>2. Tail(f) = <<>>
    OBVIOUS
  <2>. QED  BY <2>1, <2>2, OfKindNone
<1>. HIDE DEF u, a, h, f, g, FileLine, Entry
<1>8. g \in Seq(FileLine) /\ g # <<>> /\ g[1] = Line("header2")
  BY <1>2, <1>3, LoadAppend DEF g
<1>9. Load(g) = Append(<<>>, u)
  BY <1>2, <1>3, <1>6, <1>7, LoadAppend DEF g
<1>10. OldFile \in Seq(FileLine) /\ OldFile # <<>> /\ OldFile[1] = Line("header2")
  BY <1>2, <1>4, <1>8, LoadAppend
<1>11. Load(OldFile) = Append(Append(<<>>, u), a)
  BY <1>2, <1>4, <1>6, <1>8, <1>9, LoadAppend
<1>12. Grown(<<>>, 1)
  BY GrownNone
<1>13. Grown(Append(<<>>, u), 1 + 1)
  <2>1. u.id = 1 /\ u.parent < 1 /\ 1 \in Nat
    BY <1>5
  <2>. QED  BY <1>1, <1>12, <2>1, GrownAppend
<1>14. Grown(Append(Append(<<>>, u), a), 2 + 1)
  <2>1. a.id = 2 /\ a.parent < 2 /\ 2 \in Nat /\ 1 + 1 = 2
    BY <1>5
  <2>. QED  BY <1>1, <1>13, <2>1, GrownAppend
<1>15. Whole(OldFile)
  <2>1. OldFile[Len(OldFile)] = a
    BY <1>2, <1>4, <1>8, AppendProperties
  <2>. QED  BY <1>5, <2>1 DEF Whole
<1>16. Len(Load(OldFile)) = 2 /\ Load(OldFile)[1] = u /\ Load(OldFile)[2] = a
  BY <1>11
<1>17. \A i \in 1 .. 2 : Load(OldFile)[i].kind \in {"user", "assistant"}
  <2>1. \A i \in 1 .. 2 : i = 1 \/ i = 2
    OBVIOUS
  <2>. QED  BY <1>5, <1>16, <2>1
<1>. QED  BY <1>10, <1>11, <1>14, <1>15, <1>16, <1>17

LEMMA NoAssistant == ~HasAssistant(<<>>)
BY DEF HasAssistant

LEMMA SoundNone == ASSUME NEW n \in Nat PROVE Sound(<<>>, n) /\ Whole(<<>>)
BY LoadNothing, GrownNone DEF Sound, Whole

LEMMA InitInv == Init => IInv
<1> SUFFICES ASSUME Init PROVE IInv
  OBVIOUS
<1>. USE DEF Init
<1>1. MaxEntries \in Nat \ {0, 1}
  BY BoundsAssumption
<1>. HIDE DEF Entry, FileLine
<1>2. nextId \in 1 .. MaxEntries + 1 /\ nextId \in Nat
  BY <1>1
<1>3. file \in Seq(FileLine) /\ (exists = "no" => file = <<>>)
  <2>1. <<>> \in Seq(FileLine)
    OBVIOUS
  <2>2. OldFile \in Seq(FileLine)
    BY OldFileIs
  <2>. QED  BY <2>1, <2>2, Zenon
<1>4. Grown(entries, nextId)
  BY <1>2, GrownNone
<1>5. Sound(file, nextId) /\ Whole(file)
  <2>1. CASE file = <<>>
    BY <1>2, <2>1, SoundNone
  <2>2. CASE file = OldFile /\ nextId = 3
    BY <2>2, OldFileIs DEF Sound
  <2>. QED  BY <2>1, <2>2
<1>6. FileTypeOK
  <2>1. entries \in Seq(Entry) /\ leaf \in Ids(entries) \cup {Root}
    OBVIOUS
  <2>2. task \in [kind : {"none", "create", "fork", "rewrite"}, next : Nat] /\ task.kind = "none"
    BY DEF Idle
  <2>3. prev \in [entries : Seq(Entry), leaf : Nat, file : Seq(FileLine)]
    <3>1. <<>> \in Seq(Entry) /\ <<>> \in Seq(FileLine) /\ Root \in Nat
      BY DEF Root
    <3>. QED  BY <3>1 DEF None
  <2>. QED  BY <1>2, <1>3, <2>1, <2>2, <2>3 DEF FileTypeOK
<1>7. task.kind = "none" /\ task = Idle
  BY DEF Idle
<1>8. Settled /\ Writing /\ Creating /\ Forking /\ Running /\ Stopped
  BY <1>7, NoAssistant, LoadNothing DEF Settled, Writing, Creating, Forking, Running, Stopped
<1>. QED  BY <1>4, <1>5, <1>6, <1>7, <1>8 DEF IInv

LEMMA SoundMore ==
    ASSUME NEW n \in Nat, NEW m \in Nat, n <= m, NEW f, Sound(f, n)
    PROVE  Sound(f, m)
<1>. HIDE DEF FileLine
<1>. QED  BY GrownMore DEF Sound

LEMMA HasAppend ==
    ASSUME NEW es \in Seq(Entry), NEW e \in Entry
    PROVE  /\ HasAssistant(Append(es, e)) <=> (HasAssistant(es) \/ e.kind = "assistant")
           /\ Append(es, e) \in Seq(Entry) /\ LastId(Append(es, e)) = e.id
           /\ Append(es, e) # <<>> /\ Len(Append(es, e)) = Len(es) + 1
           /\ SubSeq(Append(es, e), 1, Len(Append(es, e)) - 1) = es
           /\ Append(es, e)[Len(Append(es, e))] = e
<1> DEFINE r == Append(es, e)
<1>. HIDE DEF Entry
<1>1. PICK n \in Nat : n = Len(es) /\ DOMAIN es = 1 .. n
  BY LenProperties
<1>2. /\ r \in Seq(Entry) /\ Len(r) = n + 1 /\ r[n + 1] = e
      /\ \A i \in 1 .. n : r[i] = es[i]
  BY <1>1, AppendProperties
<1>3. SubSeq(r, 1, Len(r) - 1) = es
  <2>1. n \in 0 .. Len(es)
    BY <1>1
  <2>2. SubSeq(r, 1, n) = SubSeq(es, 1, n)
    BY <2>1, PrefixAppend
  <2>3. SubSeq(es, 1, n) = es
    BY <1>1, SubSeqFull
  <2>4. (n + 1) - 1 = n
    OBVIOUS
  <2>. HIDE DEF r
  <2>. QED  BY <1>2, <2>2, <2>3, <2>4
<1>. HIDE DEF r
<1>4. r # <<>> /\ DOMAIN r = 1 .. n + 1
  BY <1>2, EmptySeq, LenProperties
<1>5. \A i \in 1 .. n + 1 : i \in 1 .. n \/ i = n + 1
  OBVIOUS
<1>6. (\A i \in 1 .. n : i \in 1 .. n + 1) /\ n + 1 \in 1 .. n + 1
  OBVIOUS
<1>7. HasAssistant(r) <=> (HasAssistant(es) \/ e.kind = "assistant")
  BY <1>1, <1>2, <1>4, <1>5, <1>6 DEF HasAssistant
<1>8. LastId(r) = e.id
  BY <1>2, <1>4 DEF LastId
<1>. QED  BY <1>1, <1>2, <1>3, <1>4, <1>7, <1>8 DEF r

(* What an entry is put after, and what it refers to.                       *)
LEMMA PutStep ==
    ASSUME IInv, NEW kind \in Kinds, NEW parent \in Ids(entries) \cup {Root},
           NEW ref \in Nat, Put(kind, parent, ref)
    PROVE  IInv'
<1> DEFINE e == [id |-> nextId, parent |-> parent, kind |-> kind, ref |-> ref]
<1>. HIDE DEF FileLine
<1>1. /\ process = "up" /\ task.kind = "none" /\ task = Idle /\ process' = "up"
      /\ nextId <= MaxEntries /\ leaf' = nextId /\ nextId' = nextId + 1
      /\ flushed' = flushed /\ prev' = prev /\ damage' = damage
      /\ entries' = Append(entries, e) /\ Persist(e)
  BY DEF Put, Calling, IInv
<1>2. /\ nextId \in Nat /\ nextId \in 1 .. MaxEntries + 1 /\ MaxEntries \in Nat
      /\ entries \in Seq(Entry) /\ file \in Seq(FileLine) /\ prev = None /\ damage \in Nat
      /\ process \in {"up", "down"} /\ flushed \in {"yes", "no"} /\ exists \in {"yes", "no"}
      /\ (exists = "no" => file = <<>>)
      /\ prev \in [entries : Seq(Entry), leaf : Nat, file : Seq(FileLine)]
      /\ Grown(entries, nextId) /\ Sound(file, nextId) /\ (damage = 0 => Whole(file))
      /\ Settled /\ Running
  BY <1>1, BoundsAssumption DEF IInv, FileTypeOK
<1>3. /\ nextId' \in Nat /\ nextId <= nextId' /\ nextId' \in 1 .. MaxEntries + 1
  BY <1>1, <1>2
<1>4. e \in Entry /\ e.id = nextId /\ e.kind = kind /\ e.parent = parent
  <2>1. parent \in Nat
    BY <1>2, IdsAre DEF Root
  <2>. QED  BY <1>2, <2>1 DEF Entry
<1>5. e.parent < nextId
  <2>1. parent \in Ids(entries) => parent < nextId
    <3>1. parent \in Ids(entries) => parent \in 1 .. nextId - 1
      BY <1>2, AtIn
    <3>. QED  BY <1>2, <3>1
  <2>2. Root < nextId
    BY <1>2 DEF Root
  <2>. QED  BY <1>4, <2>1, <2>2
<1>. HIDE DEF e, Entry
<1>6. /\ Grown(entries', nextId') /\ Ids(entries') = Ids(entries) \cup {nextId}
  BY <1>1, <1>2, <1>4, <1>5, GrownAppend
<1>7. /\ HasAssistant(entries') <=> (HasAssistant(entries) \/ kind = "assistant")
      /\ entries' \in Seq(Entry) /\ LastId(entries') = nextId /\ entries' # <<>>
      /\ Len(entries') = Len(entries) + 1
      /\ SubSeq(entries', 1, Len(entries') - 1) = entries
  BY <1>1, <1>2, <1>4, HasAppend
<1>8. leaf' \in Ids(entries') \cup {Root}
  BY <1>1, <1>6
<1>9. /\ process' \in {"up", "down"} /\ flushed' \in {"yes", "no"} /\ damage' \in Nat
      /\ prev' \in [entries : Seq(Entry), leaf : Nat, file : Seq(FileLine)] /\ prev' = None
  BY <1>1, <1>2
<1>10. /\ Stopped' /\ (task'.kind # "fork" => Forking')
  BY <1>1 DEF Stopped, Forking
<1>11. CASE flushed = "yes" /\ file' = WithLine(file, e) /\ UNCHANGED <<exists, task>>
  <2>1. exists = "yes" /\ file # <<>> /\ (damage = 0 => Load(file) = entries)
    BY <1>1, <1>2, <1>11 DEF Settled
  <2>2. file[1] = Header
    BY <1>1, <1>2, <2>1 DEF Running
  <2>3. e \in FileLine /\ e.kind \in Parsed /\ e.kind # "torn"
    BY <1>4, EntryParsed DEF Parsed
  <2>4. /\ file' \in Seq(FileLine) /\ file' # <<>> /\ file'[1] = Header
        /\ Whole(file) => Whole(file')
        /\ Load(file') = Load(file) \/ Load(file') = Append(Load(file), e)
        /\ Whole(file) => Load(file') = Append(Load(file), e)
    BY <1>2, <1>11, <2>1, <2>2, <2>3, LoadWithLine
  <2>5. Grown(Load(file), nextId)
    BY <1>2 DEF Sound
  <2>6. Grown(Append(Load(file), e), nextId')
    BY <1>1, <1>2, <1>4, <1>5, <2>5, GrownAppend
  <2>7. Grown(Load(file), nextId')
    BY <1>2, <1>3, <2>5, GrownMore
  <2>8. Sound(file', nextId')
    BY <2>4, <2>6, <2>7 DEF Sound
  <2>9. task' = Idle /\ task'.kind = "none" /\ exists' = "yes" /\ flushed' = "yes"
    BY <1>1, <1>11, <2>1
  <2>10. damage' = 0 => Whole(file') /\ Load(file') = entries'
    BY <1>1, <1>2, <2>1, <2>4
  <2>11. FileTypeOK'
    <3>1. task' \in [kind : {"none", "create", "fork", "rewrite"}, next : Nat]
      BY <2>9 DEF Idle
    <3>. QED  BY <1>3, <1>7, <1>8, <1>9, <2>4, <2>9, <3>1 DEF FileTypeOK
  <2>12. Settled' /\ Writing' /\ Creating' /\ Running'
    BY <2>4, <2>9, <2>10 DEF Settled, Writing, Creating, Running
  <2>13. Forking' /\ (damage' = 0 => Whole(file)')
    BY <1>10, <2>9, <2>10
  <2>. QED  BY <1>6, <1>10, <2>8, <2>9, <2>11, <2>12, <2>13 DEF IInv
<1>12. CASE /\ flushed = "no" /\ (~HasAssistant(Append(entries, e)) \/ exists = "yes")
            /\ UNCHANGED <<file, exists, task>>
  <2>1. task' = Idle /\ task'.kind = "none" /\ exists' = exists /\ flushed' = "no"
        /\ file' = file
    BY <1>1, <1>12
  <2>2. Sound(file', nextId') /\ (damage' = 0 => Whole(file'))
    BY <1>1, <1>2, <1>3, <2>1, SoundMore
  <2>3. FileTypeOK'
    <3>1. task' \in [kind : {"none", "create", "fork", "rewrite"}, next : Nat]
      BY <2>1 DEF Idle
    <3>. QED  BY <1>2, <1>3, <1>7, <1>8, <1>9, <2>1, <3>1 DEF FileTypeOK
  <2>4. exists' = "no" => ~HasAssistant(entries')
    BY <1>1, <1>12, <2>1
  <2>5. damage' = 0 /\ exists' = "yes" => FALSE
    BY <1>1, <1>2, <1>12, <2>1 DEF Settled
  <2>6. Settled' /\ Writing' /\ Creating' /\ Running'
    BY <1>1, <1>2, <2>1, <2>4, <2>5 DEF Settled, Writing, Creating, Running
  <2>7. Forking' /\ (damage' = 0 => Whole(file)')
    BY <1>10, <2>1, <2>2
  <2>8. Sound(file, nextId)'
    BY <2>2
  <2>. QED  BY <1>6, <1>10, <2>1, <2>3, <2>6, <2>7, <2>8 DEF IInv
<1>13. CASE /\ flushed = "no" /\ HasAssistant(Append(entries, e)) /\ exists = "no"
            /\ file' = <<>> /\ exists' = "yes"
            /\ task' = [kind |-> "create", next |-> 1]
  <2>1. /\ task'.kind = "create" /\ task'.next = 1 /\ exists' = "yes" /\ file' = <<>>
        /\ flushed' = "no" /\ process' = "up"
        /\ task' \in [kind : {"none", "create", "fork", "rewrite"}, next : Nat]
    BY <1>1, <1>13
  <2>2. Sound(file', nextId') /\ Whole(file')
    BY <1>3, <2>1, SoundNone
  <2>3. ~HasAssistant(entries)
    BY <1>1, <1>2, <1>13 DEF Settled
  <2>4. 1 \in 1 .. Len(entries') + 1
    BY <1>7, LenProperties
  <2>5. FileTypeOK'
    <3>1. <<>> \in Seq(FileLine)
      OBVIOUS
    <3>. QED  BY <1>3, <1>7, <1>8, <1>9, <2>1, <2>4, <3>1 DEF FileTypeOK
  <2>6. Settled' /\ Writing' /\ Creating' /\ Running'
    BY <1>1, <1>7, <2>1, <2>3 DEF Settled, Writing, Creating, Running
  <2>7. Forking' /\ (damage' = 0 => Whole(file)')
    BY <1>10, <2>1, <2>2
  <2>8. Sound(file, nextId)' /\ task'.kind # "none"
    BY <2>1, <2>2
  <2>. QED  BY <1>6, <1>10, <2>5, <2>6, <2>7, <2>8 DEF IInv
<1>. QED  BY <1>1, <1>11, <1>12, <1>13 DEF Persist

LEMMA AppendMessageStep == ASSUME IInv, AppendMessage PROVE IInv'
<1>1. PICK kind \in MessageKinds : Put(kind, leaf, Root)
  BY DEF AppendMessage
<1>2. kind \in Kinds /\ Root \in Nat /\ leaf \in Ids(entries) \cup {Root}
  BY DEF Kinds, ShownKinds, Root, IInv, FileTypeOK
<1>. QED  BY <1>1, <1>2, PutStep

LEMMA AppendLabelChangeStep == ASSUME IInv, AppendLabelChange PROVE IInv'
<1>1. PICK t \in Ids(entries) : Put("label", leaf, t)
  BY DEF AppendLabelChange
<1>2. "label" \in Kinds /\ leaf \in Ids(entries) \cup {Root} /\ entries \in Seq(Entry)
  BY DEF Kinds, IInv, FileTypeOK
<1>3. t \in Nat
  BY <1>2, IdsAre
<1>. QED  BY <1>1, <1>2, <1>3, PutStep

LEMMA AppendCompactionStep == ASSUME IInv, Preparing, AppendCompaction PROVE IInv'
<1>1. PICK p \in prepared : Put("compaction", leaf, p.ref)
  BY DEF AppendCompaction
<1>2. "compaction" \in Kinds /\ leaf \in Ids(entries) \cup {Root}
  BY DEF Kinds, IInv, FileTypeOK
<1>3. p.ref \in Nat
  BY DEF Preparing
<1>. QED  BY <1>1, <1>2, <1>3, PutStep

LEMMA BranchWithSummaryStep == ASSUME IInv, BranchWithSummary PROVE IInv'
<1>1. PICK p \in Ids(entries) \cup {Root} : Put("summary", p, Root)
  BY DEF BranchWithSummary
<1>2. "summary" \in Kinds /\ Root \in Nat
  BY DEF Kinds, ShownKinds, Root
<1>. QED  BY <1>1, <1>2, PutStep

(* What the steps take from the invariant.                                  *)
LEMMA Facts ==
    ASSUME IInv
    PROVE  /\ nextId \in Nat /\ nextId \in 1 .. MaxEntries + 1 /\ MaxEntries \in Nat
           /\ entries \in Seq(Entry) /\ file \in Seq(FileLine) /\ damage \in Nat
           /\ process \in {"up", "down"} /\ flushed \in {"yes", "no"}
           /\ exists \in {"yes", "no"} /\ (exists = "no" => file = <<>>)
           /\ leaf \in Ids(entries) \cup {Root}
           /\ task \in [kind : {"none", "create", "fork", "rewrite"}, next : Nat]
           /\ prev \in [entries : Seq(Entry), leaf : Nat, file : Seq(FileLine)]
           /\ (task.kind # "none" => process = "up" /\ exists = "yes"
                                     /\ task.next \in 1 .. (Len(entries) + 1))
           /\ (task.kind # "fork" => prev = None)
           /\ (task.kind = "none" => task = Idle)
           /\ Grown(entries, nextId) /\ Sound(file, nextId) /\ (damage = 0 => Whole(file))
           /\ Settled /\ Running /\ Writing /\ Creating /\ Forking /\ Stopped /\ FileTypeOK
<1>. HIDE DEF Entry, FileLine
<1>1. MaxEntries \in Nat
  BY BoundsAssumption
<1>. QED  BY <1>1 DEF IInv, FileTypeOK

LEMMA IdleIs ==
    /\ Idle.kind = "none" /\ Idle \in [kind : {"none", "create", "fork", "rewrite"}, next : Nat]
    /\ None \in [entries : Seq(Entry), leaf : Nat, file : Seq(FileLine)]
    /\ <<>> \in Seq(Entry) /\ <<>> \in Seq(FileLine) /\ Root \in Nat
<1>. HIDE DEF Entry, FileLine
<1>1. <<>> \in Seq(Entry) /\ <<>> \in Seq(FileLine) /\ Root \in Nat
  BY DEF Root
<1>2. Idle.kind = "none" /\ Idle \in [kind : {"none", "create", "fork", "rewrite"}, next : Nat]
  BY DEF Idle
<1>3. None \in [entries : Seq(Entry), leaf : Nat, file : Seq(FileLine)]
  BY <1>1 DEF None
<1>. QED  BY <1>1, <1>2, <1>3

LEMMA MoveLeafStep == ASSUME IInv, MoveLeaf PROVE IInv'
<1>1. /\ process = "up" /\ task.kind = "none" /\ leaf' \in Ids(entries) \cup {Root}
      /\ process' = process /\ entries' = entries /\ flushed' = flushed /\ file' = file
      /\ exists' = exists /\ task' = task /\ prev' = prev /\ nextId' = nextId
      /\ damage' = damage
  BY DEF MoveLeaf, Calling
<1>. HIDE DEF Entry, FileLine
<1>2. FileTypeOK'
  BY <1>1, Facts DEF FileTypeOK
<1>3. Settled' /\ Writing' /\ Creating' /\ Forking' /\ Running' /\ Stopped'
  BY <1>1, Facts DEF Settled, Writing, Creating, Forking, Running, Stopped
<1>4. Grown(entries, nextId)' /\ Sound(file, nextId)' /\ (damage = 0 => Whole(file))'
  BY <1>1, Facts
<1>5. (task.kind = "none" => task = Idle)'
  BY <1>1, Facts
<1>. QED  BY <1>2, <1>3, <1>4, <1>5 DEF IInv

(* A session with nothing in it, and no file.                               *)
LEMMA Fresh ==
    ASSUME IInv, task.kind = "none", process' \in {"up", "down"}, entries' = <<>>, leaf' = Root,
           flushed' = "no", file' = <<>>, exists' \in {"yes", "no"}, damage' \in Nat,
           task' = task, prev' = prev, nextId' = nextId,
           process' = "up" => exists' = "no"
    PROVE  IInv'
<1>. HIDE DEF Entry, FileLine
<1>1. task' = Idle /\ task'.kind = "none" /\ prev' = None
  BY Facts, IdleIs
<1>2. FileTypeOK'
  BY <1>1, Facts, IdleIs DEF FileTypeOK
<1>3. Settled' /\ Writing' /\ Creating' /\ Forking' /\ Running' /\ Stopped'
  BY <1>1, NoAssistant DEF Settled, Writing, Creating, Forking, Running, Stopped
<1>4. nextId' \in Nat
  BY Facts
<1>5. Grown(entries, nextId)' /\ Sound(file, nextId)' /\ (damage = 0 => Whole(file))'
  BY <1>4, GrownNone, SoundNone
<1>. QED  BY <1>1, <1>2, <1>3, <1>5 DEF IInv

LEMMA NewSessionStep == ASSUME IInv, NewSession PROVE IInv'
<1>1. /\ process = "up" /\ task.kind = "none" /\ entries' = <<>> /\ leaf' = Root
      /\ flushed' = "no" /\ file' = <<>> /\ exists' = "no" /\ damage' = 0
      /\ process' = process /\ task' = task /\ prev' = prev /\ nextId' = nextId
  BY DEF NewSession, Calling
<1>. QED  BY <1>1, Fresh

LEMMA LeafOfLoad ==
    ASSUME NEW n \in Nat, NEW f, Sound(f, n)
    PROVE  Load(f) \in Seq(Entry) /\ LastId(Load(f)) \in Ids(Load(f)) \cup {Root}
<1>. HIDE DEF Entry, FileLine
<1>1. Load(f) \in Seq(Entry)
  BY DEF Sound, Grown
<1>. QED  BY <1>1, LastIdIn

LEMMA OpenStep == ASSUME IInv, Open PROVE IInv'
<1>. HIDE DEF Entry, FileLine
<1>1. /\ process = "down" /\ process' = "up" /\ entries' = Load(file)
      /\ leaf' = LastId(Load(file)) /\ exists' = exists /\ prev' = prev
      /\ nextId' = nextId /\ damage' = damage
  BY DEF Open
<1>2. task.kind = "none" /\ task = Idle /\ prev = None
  <2>1. task.kind = "none"
    BY <1>1, Facts
  <2>. QED  BY <2>1, Facts
<1>3. Grown(entries', nextId') /\ entries' \in Seq(Entry) /\ leaf' \in Ids(entries') \cup {Root}
  BY <1>1, Facts, LeafOfLoad DEF Sound
<1>4. prev' = None /\ Stopped' /\ nextId' \in Nat
  BY <1>1, <1>2, Facts DEF Stopped
<1>5. CASE exists = "yes" /\ (Load(file) = <<>> \/ file[1].kind = "header2")
  <2>1. task' = [kind |-> "rewrite", next |-> 1] /\ file' = <<>>
    BY <1>5 DEF Open
  <2>2. /\ task'.kind = "rewrite" /\ task'.next = 1
        /\ task' \in [kind : {"none", "create", "fork", "rewrite"}, next : Nat]
    BY <2>1
  <2>3. flushed' = "no"
    BY <2>1, <2>2, IdleIs DEF Open
  <2>4. 1 \in 1 .. Len(entries') + 1
    BY <1>3, LenProperties
  <2>5. FileTypeOK'
    BY <1>1, <1>3, <1>4, <1>5, <2>1, <2>2, <2>3, <2>4, Facts, IdleIs DEF FileTypeOK
  <2>6. Settled' /\ Writing' /\ Creating' /\ Forking' /\ Running'
    BY <1>1, <2>1, <2>2, <2>3 DEF Settled, Writing, Creating, Forking, Running
  <2>7. Sound(file, nextId)' /\ (damage = 0 => Whole(file))'
    BY <1>4, <2>1, SoundNone
  <2>. QED  BY <1>3, <1>4, <2>2, <2>5, <2>6, <2>7 DEF IInv
<1>6. CASE ~(exists = "yes" /\ (Load(file) = <<>> \/ file[1].kind = "header2"))
  <2>1. task' = Idle /\ file' = file /\ flushed' = exists /\ task'.kind = "none"
    BY <1>2, <1>6, IdleIs DEF Open
  <2>2. exists = "yes" => file # <<>> /\ file[1] = Header
    <3>1. exists = "yes" => file # <<>>
      BY <1>6, LoadNothing
    <3>2. file # <<>> => file[1] \in {Header, Line("header2")}
      BY Facts DEF Sound
    <3>3. exists = "yes" => file[1] # Line("header2")
      BY <1>6, HeaderLine
    <3>. QED  BY <3>1, <3>2, <3>3
  <2>3. exists = "no" => entries' = <<>>
    BY <1>1, Facts, LoadNothing
  <2>4. FileTypeOK'
    BY <1>1, <1>3, <1>4, <2>1, Facts, IdleIs DEF FileTypeOK
  <2>5. Settled' /\ Writing' /\ Creating' /\ Forking' /\ Running'
    <3>1. exists = "yes" \/ exists = "no"
      BY Facts
    <3>2. exists = "no" => file = <<>>
      BY Facts
    <3>. QED  BY <1>1, <2>1, <2>2, <2>3, <3>1, <3>2, NoAssistant
              DEF Settled, Writing, Creating, Forking, Running
  <2>6. Sound(file, nextId)' /\ (damage = 0 => Whole(file))'
    BY <1>1, <2>1, Facts
  <2>. QED  BY <1>3, <1>4, <2>1, <2>4, <2>5, <2>6 DEF IInv
<1>. QED  BY <1>5, <1>6

(* A line of a longer write is the next one of the header and the entries.  *)
LEMMA LineWritten ==
    ASSUME IInv, WriteLine
    PROVE  \E k \in Nat : /\ k + 1 = task.next /\ k + 1 \in 1 .. Len(entries) + 1
                          /\ k \in 0 .. Len(entries)
                          /\ file' = <<Header>> \o SubSeq(entries, 1, k)
<1> DEFINE lines == <<Header>> \o entries
<1>. HIDE DEF Entry, FileLine
<1>1. task.kind # "none" /\ file' = Append(file, lines[task.next])
  BY DEF WriteLine
<1>2. PICK k \in Nat : k + 1 = task.next /\ k + 1 \in 1 .. Len(entries) + 1
  <2>1. task.next \in 1 .. Len(entries) + 1 /\ Len(entries) \in Nat
    BY <1>1, Facts, LenProperties
  <2>2. task.next - 1 \in Nat /\ (task.next - 1) + 1 = task.next
    BY <2>1
  <2>. QED  BY <2>1, <2>2
<1>3. PICK n \in Nat : n = Len(entries)
  BY Facts, LenProperties
<1>4. k \in 0 .. n /\ k \in 0 .. Len(entries)
  BY <1>2, <1>3
<1>5. Len(lines) = n + 1 /\ lines[1] = Header
  BY <1>3, Facts, WrittenIs
<1>6. /\ SubSeq(entries, 1, k) \in Seq(Entry) /\ Grown(SubSeq(entries, 1, k), nextId)
  BY <1>4, Facts, PrefixIs, GrownPrefix
<1>7. file' = <<Header>> \o SubSeq(entries, 1, k)
  <2>1. CASE k = 0
    <3>1. file = <<>> /\ task.next = 1
      BY <1>1, <1>2, <2>1, Facts DEF Writing
    <3>2. SubSeq(entries, 1, 0) = <<>>
      BY <1>4, <2>1, <1>6, PrefixIs, EmptySeq, Facts
    <3>3. file' = Append(<<>>, Header)
      BY <1>1, <1>5, <3>1
    <3>. QED  BY <2>1, <3>2, <3>3, WrittenNone
  <2>2. CASE k # 0
    <3>1. PICK j \in Nat : j + 1 = k /\ task.next = j + 2 /\ task.next # 1 /\ task.next - 2 = j
      <4>1. k - 1 \in Nat /\ (k - 1) + 1 = k /\ k + 1 = (k - 1) + 2 /\ k + 1 # 1
            /\ (k + 1) - 2 = k - 1
        BY <2>2
      <4>. QED  BY <1>2, <4>1
    <3>2. file = <<Header>> \o SubSeq(entries, 1, j)
      BY <1>1, <3>1, Facts DEF Writing
    <3>3. j + 1 \in 1 .. Len(entries)
      BY <1>4, <3>1
    <3>4. Append(<<Header>> \o SubSeq(entries, 1, j), (<<Header>> \o entries)[j + 2])
            = <<Header>> \o SubSeq(entries, 1, j + 1)
      BY <3>3, Facts, WrittenMore
    <3>. QED  BY <1>1, <3>1, <3>2, <3>4
  <2>. QED  BY <2>1, <2>2
<1>. QED  BY <1>2, <1>4, <1>7

LEMMA WriteLineStep == ASSUME IInv, WriteLine PROVE IInv'
<1> DEFINE lines == <<Header>> \o entries
           last == task.next = Len(lines)
<1>. HIDE DEF Entry, FileLine
<1>1. /\ process = "up" /\ task.kind # "none" /\ file' = Append(file, lines[task.next])
      /\ task' = IF last THEN Idle ELSE [task EXCEPT !.next = @ + 1]
      /\ flushed' = IF last THEN "yes" ELSE flushed
      /\ prev' = IF last THEN None ELSE prev
      /\ process' = process /\ entries' = entries /\ leaf' = leaf /\ exists' = exists
      /\ nextId' = nextId /\ damage' = damage
  BY DEF WriteLine
<1>2. PICK k \in Nat : /\ k + 1 = task.next /\ k + 1 \in 1 .. Len(entries) + 1
                       /\ k \in 0 .. Len(entries)
                       /\ file' = <<Header>> \o SubSeq(entries, 1, k)
  BY LineWritten
<1>3. PICK n \in Nat : n = Len(entries)
  BY Facts, LenProperties
<1>4. k \in 0 .. n /\ k \in 0 .. Len(entries)
  BY <1>2, <1>3
<1>5. Len(lines) = n + 1
  BY <1>3, Facts, WrittenIs
<1>6. /\ SubSeq(entries, 1, k) \in Seq(Entry) /\ Grown(SubSeq(entries, 1, k), nextId)
  BY <1>4, Facts, PrefixIs, GrownPrefix
<1>8. /\ file' \in Seq(FileLine) /\ file' # <<>> /\ file'[1] = Header
      /\ Load(file') = SubSeq(entries, 1, k) /\ Whole(file')
  BY <1>2, <1>6, WrittenIs
<1>9. Sound(file, nextId)' /\ (damage = 0 => Whole(file))'
  BY <1>1, <1>6, <1>8 DEF Sound
<1>10. exists = "yes" /\ exists' = "yes" /\ process' = "up"
  BY <1>1, Facts
<1>11. Grown(entries, nextId)' /\ Running' /\ Stopped'
  BY <1>1, <1>8, Facts DEF Running, Stopped
<1>. HIDE DEF lines, last
<1>12. CASE last
  <2>1. task' = Idle /\ flushed' = "yes" /\ prev' = None /\ task'.kind = "none"
    BY <1>1, <1>12, IdleIs
  <2>2. k = n
    <3>1. k + 1 = n + 1
      BY <1>2, <1>5, <1>12 DEF last
    <3>. QED  BY <3>1
  <2>3. SubSeq(entries, 1, k) = entries
    BY <1>3, <2>2, Facts, SubSeqFull
  <2>4. FileTypeOK'
    BY <1>1, <1>8, <1>10, <2>1, Facts, IdleIs DEF FileTypeOK
  <2>5. Settled' /\ Writing' /\ Creating' /\ Forking'
    BY <1>1, <1>8, <1>10, <2>1, <2>3 DEF Settled, Writing, Creating, Forking
  <2>. QED  BY <1>9, <1>11, <2>1, <2>4, <2>5 DEF IInv
<1>13. CASE ~last
  <2>1. task' = [task EXCEPT !.next = @ + 1] /\ flushed' = flushed /\ prev' = prev
    BY <1>1, <1>13
  <2>2. task'.kind = task.kind /\ task'.next = k + 2
        /\ task' \in [kind : {"none", "create", "fork", "rewrite"}, next : Nat]
    <3>1. task \in [kind : {"none", "create", "fork", "rewrite"}, next : Nat]
      BY Facts
    <3>2. task'.kind = task.kind /\ task'.next = task.next + 1
          /\ task' \in [kind : {"none", "create", "fork", "rewrite"}, next : Nat]
      BY <2>1, <3>1
    <3>3. (k + 1) + 1 = k + 2
      OBVIOUS
    <3>. QED  BY <1>2, <3>2, <3>3
  <2>3. k + 2 \in 1 .. n + 1 /\ k + 2 # 1 /\ (k + 2) - 2 = k
    <3>1. k + 1 # n + 1
      BY <1>2, <1>5, <1>13 DEF last
    <3>. QED  BY <1>4, <3>1
  <2>4. FileTypeOK'
    BY <1>1, <1>3, <1>8, <1>10, <2>1, <2>2, <2>3, Facts DEF FileTypeOK
  <2>5. Settled' /\ Creating' /\ Forking'
    BY <1>1, <2>1, <2>2, Facts DEF Settled, Creating, Forking
  <2>6. Writing'
    BY <1>1, <1>2, <2>1, <2>2, <2>3, Facts DEF Writing
  <2>7. (task.kind = "none" => task = Idle)'
    BY <1>1, <2>2
  <2>. QED  BY <1>9, <1>11, <2>4, <2>5, <2>6, <2>7 DEF IInv
<1>. QED  BY <1>12, <1>13

LEMMA CrashStep == ASSUME IInv, Crash PROVE IInv'
<1>. HIDE DEF Entry, FileLine
<1>1. /\ process = "up" /\ process' = "down" /\ entries' = <<>> /\ leaf' = Root
      /\ flushed' = "no" /\ task' = Idle /\ prev' = None
      /\ (file' = file \/ (task.kind = "fork" /\ file' = prev.file))
      /\ damage' = IF task.kind = "rewrite" /\ Load(file) # entries THEN damage + 1 ELSE damage
      /\ exists' = exists /\ nextId' = nextId
  BY DEF Crash
<1>2. damage' \in Nat /\ (damage' = 0 => damage = 0)
  <2>1. damage + 1 \in Nat /\ damage + 1 # 0
    BY Facts
  <2>. QED  BY <1>1, <2>1, Facts
<1>3. /\ Sound(file', nextId) /\ (damage' = 0 => Whole(file'))
      /\ (exists = "no" => file' = <<>>) /\ file' \in Seq(FileLine)
  <2>1. CASE file' = file
    BY <1>2, <2>1, Facts
  <2>2. CASE task.kind = "fork" /\ file' = prev.file
    <3>1. Sound(prev.file, nextId) /\ (damage = 0 => Whole(prev.file)) /\ exists = "yes"
      BY <2>2, Facts DEF Forking
    <3>. QED  BY <1>2, <2>2, <3>1 DEF Sound
  <2>. QED  BY <1>1, <2>1, <2>2
<1>4. FileTypeOK'
  BY <1>1, <1>2, <1>3, Facts, IdleIs DEF FileTypeOK
<1>5. task'.kind = "none"
  BY <1>1, IdleIs
<1>6. Settled' /\ Writing' /\ Creating' /\ Forking' /\ Running' /\ Stopped'
  BY <1>1, <1>5 DEF Settled, Writing, Creating, Forking, Running, Stopped
<1>7. Grown(entries, nextId)' /\ Sound(file, nextId)' /\ (damage = 0 => Whole(file))'
  BY <1>1, <1>3, Facts, GrownNone
<1>. QED  BY <1>1, <1>4, <1>6, <1>7 DEF IInv

LEMMA TearLineStep == ASSUME IInv, TearLine PROVE IInv'
<1>. HIDE DEF Entry, FileLine
<1>1. /\ process = "up" /\ task.kind = "none" /\ flushed = "yes" /\ process' = "down"
      /\ damage' = damage + 1 /\ file' = WithLine(file, Line("torn")) /\ entries' = <<>>
      /\ leaf' = Root /\ flushed' = "no" /\ exists' = exists /\ task' = task
      /\ prev' = prev /\ nextId' = nextId
  BY DEF TearLine, Calling
<1>2. task' = Idle /\ prev' = None /\ exists = "yes" /\ file # <<>> /\ task'.kind = "none"
  BY <1>1, Facts, IdleIs DEF Settled
<1>3. Line("torn") \in FileLine /\ Line("torn").kind \notin Parsed
  BY HeaderLine DEF Parsed, Kinds, ShownKinds, MessageKinds
<1>4. file[1] \in {Header, Line("header2")}
  BY <1>2, Facts DEF Sound
<1>5. /\ file' \in Seq(FileLine) /\ file' # <<>> /\ file'[1] = file[1]
      /\ Load(file') = Load(file)
  BY <1>1, <1>2, <1>3, <1>4, Facts, LoadWithLine
<1>6. Sound(file', nextId)
  BY <1>4, <1>5, Facts DEF Sound
<1>7. damage' \in Nat /\ damage' # 0
  BY <1>1, Facts
<1>8. FileTypeOK'
  BY <1>1, <1>2, <1>5, <1>7, Facts, IdleIs DEF FileTypeOK
<1>9. Settled' /\ Writing' /\ Creating' /\ Forking' /\ Running' /\ Stopped'
  BY <1>1, <1>2 DEF Settled, Writing, Creating, Forking, Running, Stopped
<1>10. Grown(entries, nextId)' /\ Sound(file, nextId)' /\ (damage = 0 => Whole(file))'
  BY <1>1, <1>6, <1>7, Facts, GrownNone
<1>. QED  BY <1>2, <1>8, <1>9, <1>10 DEF IInv

LEMMA AppendFailsStep == ASSUME IInv, AppendFails PROVE IInv'
<1>1. PICK kind \in {"user", "assistant"} :
         entries' = Append(entries, [id |-> nextId, parent |-> leaf, kind |-> kind,
                                     ref |-> Root])
  BY DEF AppendFails
<1> DEFINE e == [id |-> nextId, parent |-> leaf, kind |-> kind, ref |-> Root]
<1>. HIDE DEF FileLine
<1>2. /\ process = "up" /\ task.kind = "none" /\ flushed = "yes" /\ leaf' = nextId
      /\ nextId' = nextId + 1 /\ damage' = damage + 1 /\ nextId < MaxEntries
      /\ process' = process /\ flushed' = flushed /\ file' = file /\ exists' = exists
      /\ task' = task /\ prev' = prev
  BY DEF AppendFails, Calling, MayFail
<1>3. leaf \in Nat /\ leaf < nextId /\ nextId \in Nat
  <2>1. leaf \in Ids(entries) => leaf \in 1 .. nextId - 1
    BY Facts, AtIn
  <2>2. nextId \in Nat /\ nextId > 0
    BY Facts
  <2>. QED  BY <2>1, <2>2, Facts DEF Root
<1>4. e \in Entry /\ e.id = nextId /\ e.parent < nextId
  BY <1>3 DEF Entry, Kinds, ShownKinds, MessageKinds, Root
<1>. HIDE DEF e, Entry
<1>5. entries' = Append(entries, e)
  BY <1>1 DEF e
<1>6. Grown(entries', nextId') /\ Ids(entries') = Ids(entries) \cup {nextId}
  BY <1>2, <1>3, <1>4, <1>5, Facts, GrownAppend
<1>7. entries' \in Seq(Entry) /\ leaf' \in Ids(entries') \cup {Root}
  BY <1>2, <1>6 DEF Grown
<1>8. /\ nextId' \in 1 .. MaxEntries + 1 /\ nextId' \in Nat /\ nextId <= nextId'
      /\ damage' \in Nat /\ damage' # 0
  BY <1>2, Facts
<1>9. exists = "yes" /\ file # <<>> /\ task' = Idle /\ prev' = None /\ task'.kind = "none"
  BY <1>2, Facts, IdleIs DEF Settled
<1>10. FileTypeOK'
  BY <1>2, <1>7, <1>8, <1>9, Facts, IdleIs DEF FileTypeOK
<1>11. Sound(file', nextId')
  BY <1>2, <1>8, Facts, SoundMore
<1>12. Settled' /\ Writing' /\ Creating' /\ Forking' /\ Running' /\ Stopped'
  BY <1>2, <1>8, <1>9, Facts DEF Settled, Writing, Creating, Forking, Running, Stopped
<1>13. Grown(entries, nextId)' /\ Sound(file, nextId)' /\ (damage = 0 => Whole(file))'
  BY <1>6, <1>8, <1>11
<1>. QED  BY <1>9, <1>10, <1>12, <1>13 DEF IInv

LEMMA CreateFailsStep == ASSUME IInv, CreateFails PROVE IInv'
<1>. HIDE DEF Entry, FileLine
<1>1. /\ process = "up" /\ task.kind = "create" /\ task' = Idle /\ damage' = damage + 1
      /\ process' = process /\ entries' = entries /\ leaf' = leaf /\ flushed' = flushed
      /\ file' = file /\ exists' = exists /\ prev' = prev /\ nextId' = nextId
  BY DEF CreateFails
<1>2. /\ exists = "yes" /\ flushed = "no" /\ prev' = None /\ task'.kind = "none"
      /\ damage' \in Nat /\ damage' # 0
  BY <1>1, Facts, IdleIs DEF Writing
<1>3. FileTypeOK'
  BY <1>1, <1>2, Facts, IdleIs DEF FileTypeOK
<1>4. Settled' /\ Writing' /\ Creating' /\ Forking' /\ Running' /\ Stopped'
  BY <1>1, <1>2, Facts DEF Settled, Writing, Creating, Forking, Running, Stopped
<1>5. Grown(entries, nextId)' /\ Sound(file, nextId)' /\ (damage = 0 => Whole(file))'
  BY <1>1, <1>2, Facts
<1>. QED  BY <1>1, <1>3, <1>4, <1>5 DEF IInv

LEMMA ForkStep == ASSUME IInv, Fork PROVE IInv'
<1>. HIDE DEF Entry, FileLine
<1>1. PICK l \in Ids(Load(file)) :
         LET new == Branched(Load(file), l, nextId)
         IN  /\ nextId + Cardinality(Ids(new) \ Ids(Load(file))) <= MaxEntries + 1
             /\ entries' = new /\ leaf' = LastId(new)
             /\ nextId' = nextId + Cardinality(Ids(new) \ Ids(Load(file)))
             /\ file' = <<>> /\ flushed' = "no"
             /\ IF HasAssistant(new)
                  THEN /\ task' = [kind |-> "fork", next |-> 1] /\ exists' = "yes"
                       /\ prev' = [entries |-> entries, leaf |-> leaf, file |-> file]
                  ELSE exists' = "no" /\ UNCHANGED <<task, prev>>
  BY DEF Fork
<1>2. /\ process = "up" /\ task.kind = "none" /\ exists = "yes" /\ process' = "up"
      /\ damage' = damage
  BY DEF Fork, Calling
<1> DEFINE old == Load(file)
           new == Branched(old, l, nextId)
           h == Cardinality(Ids(new) \ Ids(old))
<1>3. Grown(old, nextId) /\ nextId \in Nat /\ nextId <= nextId
  BY Facts DEF Sound
<1>4. new \in Seq(Entry) /\ Grown(new, nextId + h) /\ h \in Nat
  <2>. HIDE DEF old
  <2> DEFINE x == Len(Labelled(old, Kept(old, l)))
  <2>1. l \in Ids(old)
    BY <1>1 DEF old
  <2>2. /\ new \in Seq(Entry) /\ x \in Nat /\ Grown(new, nextId + x)
        /\ Cardinality(Ids(new) \ Ids(old)) = x
    BY <1>3, <2>1, BranchedIs
  <2>3. h = x
    BY <2>2
  <2>. HIDE DEF x, new, h
  <2>. QED  BY <2>2, <2>3
<1>5. /\ nextId + h <= MaxEntries + 1 /\ entries' = new /\ leaf' = LastId(new)
      /\ nextId' = nextId + h /\ file' = <<>> /\ flushed' = "no"
      /\ IF HasAssistant(new)
           THEN /\ task' = [kind |-> "fork", next |-> 1] /\ exists' = "yes"
                /\ prev' = [entries |-> entries, leaf |-> leaf, file |-> file]
           ELSE exists' = "no" /\ task' = task /\ prev' = prev
  BY <1>1
<1>. HIDE DEF new, h
<1>6. /\ nextId' \in Nat /\ nextId' \in 1 .. MaxEntries + 1 /\ nextId <= nextId'
  <2>1. nextId + h \in Nat /\ 1 <= nextId + h /\ nextId <= nextId + h
    BY <1>4, Facts
  <2>. QED  BY <1>5, <2>1, Facts
<1>7. Grown(entries', nextId') /\ entries' \in Seq(Entry)
  BY <1>4, <1>5
<1>8. leaf' = LastId(entries') /\ leaf' \in Ids(entries') \cup {Root}
  BY <1>5, <1>7, LastIdIn
<1>9. /\ Sound(file, nextId)' /\ (damage = 0 => Whole(file))' /\ Running' /\ Stopped'
  BY <1>2, <1>5, <1>6, SoundNone DEF Running, Stopped
<1>10. task = Idle /\ prev = None
  BY <1>2, Facts
<1>11. CASE HasAssistant(new)
  <2>1. /\ task' = [kind |-> "fork", next |-> 1] /\ exists' = "yes"
        /\ prev' = [entries |-> entries, leaf |-> leaf, file |-> file]
    BY <1>5, <1>11
  <2>2. /\ task'.kind = "fork" /\ task'.next = 1
        /\ task' \in [kind : {"none", "create", "fork", "rewrite"}, next : Nat]
    BY <2>1
  <2>3. leaf \in Nat
    BY Facts, IdsAre, IdleIs
  <2>4. /\ prev'.entries = entries /\ prev'.leaf = leaf /\ prev'.file = file
        /\ prev' \in [entries : Seq(Entry), leaf : Nat, file : Seq(FileLine)]
    BY <2>1, <2>3, Facts
  <2>5. 1 \in 1 .. Len(entries') + 1
    BY <1>7, LenProperties
  <2>6. FileTypeOK'
    BY <1>2, <1>5, <1>6, <1>7, <1>8, <2>1, <2>2, <2>4, <2>5, Facts, IdleIs DEF FileTypeOK
  <2>7. Settled' /\ Writing' /\ Creating'
    BY <1>2, <1>5, <1>8, <2>1, <2>2 DEF Settled, Writing, Creating
  <2>8. Forking'
    <3>1. Grown(entries, nextId') /\ Sound(file, nextId')
      BY <1>6, Facts, GrownMore, SoundMore
    <3>2. ASSUME damage' = 0
          PROVE  /\ Whole(file) /\ Load(file) = entries
                 /\ \E k \in Ids(entries), fresh \in 1 .. nextId' :
                       Grown(entries, fresh) /\ entries' = Branched(entries, k, fresh)
      <4>1. damage = 0 /\ Whole(file) /\ old = entries
        BY <1>2, <3>2, Facts DEF Settled
      <4>2. nextId \in 1 .. nextId' /\ l \in Ids(entries)
        BY <1>6, <4>1, Facts
      <4>3. Grown(entries, nextId) /\ entries' = Branched(entries, l, nextId)
        BY <1>5, <4>1, Facts DEF new
      <4>. QED  BY <4>1, <4>2, <4>3
    <3>3. HasAssistant(entries')
      BY <1>5, <1>11
    <3>. QED  BY <2>4, <3>1, <3>2, <3>3 DEF Forking
  <2>9. task'.kind # "none"
    BY <2>2
  <2>. QED  BY <1>7, <1>9, <2>6, <2>7, <2>8, <2>9 DEF IInv
<1>12. CASE ~HasAssistant(new)
  <2>1. exists' = "no" /\ task' = Idle /\ prev' = None /\ task'.kind = "none"
    BY <1>5, <1>10, <1>12, IdleIs
  <2>2. FileTypeOK'
    BY <1>2, <1>5, <1>6, <1>7, <1>8, <2>1, Facts, IdleIs DEF FileTypeOK
  <2>3. Settled' /\ Writing' /\ Creating' /\ Forking'
    BY <1>2, <1>5, <1>12, <2>1 DEF Settled, Writing, Creating, Forking
  <2>. QED  BY <1>7, <1>9, <2>1, <2>2, <2>3 DEF IInv
<1>. QED  BY <1>11, <1>12

LEMMA NextInv == ASSUME IInv, Preparing, [Next]_vars PROVE IInv'
<1>1. CASE UNCHANGED FileVars
  <2>. HIDE DEF Entry, FileLine
  <2>1. /\ process' = process /\ entries' = entries /\ leaf' = leaf /\ flushed' = flushed
        /\ file' = file /\ exists' = exists /\ task' = task /\ prev' = prev
        /\ nextId' = nextId /\ damage' = damage
    BY <1>1 DEF FileVars
  <2>2. FileTypeOK' /\ (task.kind = "none" => task = Idle)'
    BY <2>1, Facts DEF FileTypeOK
  <2>3. Settled' /\ Writing' /\ Creating' /\ Forking' /\ Running' /\ Stopped'
    BY <2>1, Facts DEF Settled, Writing, Creating, Forking, Running, Stopped
  <2>4. Grown(entries, nextId)' /\ Sound(file, nextId)' /\ (damage = 0 => Whole(file))'
    BY <2>1, Facts
  <2>. QED  BY <2>2, <2>3, <2>4 DEF IInv
<1>2. CASE UNCHANGED vars \/ PrepareCompaction \/ CompactionFails
  <2>1. UNCHANGED FileVars
    BY <1>2 DEF vars, FileVars, PrepareCompaction, CompactionFails
  <2>. QED  BY <1>1, <2>1
<1>3. CASE Next /\ ~PrepareCompaction /\ ~CompactionFails
  BY <1>3, AppendMessageStep, AppendLabelChangeStep, AppendCompactionStep,
     BranchWithSummaryStep, MoveLeafStep, NewSessionStep, ForkStep, OpenStep, WriteLineStep,
     CrashStep, TearLineStep, AppendFailsStep, CreateFailsStep DEF Next
<1>. QED  BY <1>2, <1>3

-----------------------------------------------------------------------------
(* The compactions under way.                                               *)

(* Nothing under way, or all of it as it was.                               *)
LEMMA NonePrepared ==
    ASSUME prepared' = {}, astray' \in {"yes", "no"} PROVE Preparing'
BY DEF Preparing

LEMMA SamePrepared ==
    ASSUME Preparing, NEW kept, prepared' = kept, kept \subseteq prepared,
           astray' \in {"yes", "no"}, entries' = entries,
           process' = "up" \/ process' = process
    PROVE  Preparing'
BY DEF Preparing

(* An entry more leaves the path of every other as it was.                  *)
LEMMA MorePrepared ==
    ASSUME IInv, Preparing, NEW kept, prepared' = kept, kept \subseteq prepared,
           astray' \in {"yes", "no"}, process' = "up",
           NEW e \in Entry, e.id = nextId, e.parent < nextId, entries' = Append(entries, e)
    PROVE  Preparing'
<1>. HIDE DEF Entry, FileLine
<1>1. nextId \in Nat /\ Grown(entries, nextId)
  BY Facts
<1>2. /\ Ids(entries') = Ids(entries) \cup {nextId}
      /\ \A l \in Ids(entries) : Path(entries', l) = Path(entries, l)
  BY <1>1, GrownAppend
<1>3. \A p \in prepared' : /\ p \in [ref : Nat, from : Ids(entries)]
                           /\ CanCompact(Path(entries, p.from))
                           /\ p.ref = FirstToKeep(Path(entries, p.from))
  BY DEF Preparing
<1>4. \A p \in prepared' : /\ p \in [ref : Nat, from : Ids(entries')]
                           /\ CanCompact(Path(entries', p.from))
                           /\ p.ref = FirstToKeep(Path(entries', p.from))
  BY <1>2, <1>3
<1>. QED  BY <1>4 DEF Preparing

LEMMA PutPrepared ==
    ASSUME IInv, Preparing, NEW kept, prepared' = kept, kept \subseteq prepared,
           astray' \in {"yes", "no"}, NEW kind \in Kinds,
           NEW parent \in Ids(entries) \cup {Root}, NEW ref \in Nat, Put(kind, parent, ref)
    PROVE  Preparing'
<1> DEFINE e == [id |-> nextId, parent |-> parent, kind |-> kind, ref |-> ref]
<1>. HIDE DEF FileLine
<1>1. process' = "up" /\ entries' = Append(entries, e)
  BY DEF Put, Calling
<1>2. nextId \in Nat /\ nextId \in 1 .. MaxEntries + 1 /\ MaxEntries \in Nat
      /\ Grown(entries, nextId) /\ entries \in Seq(Entry)
  BY Facts
<1>3. parent \in Nat /\ parent < nextId
  <2>1. parent \in Ids(entries) => parent \in 1 .. nextId - 1
    BY <1>2, AtIn
  <2>. QED  BY <1>2, <2>1 DEF Root
<1>4. e \in Entry /\ e.id = nextId /\ e.parent < nextId
  BY <1>2, <1>3 DEF Entry
<1>. HIDE DEF e, Entry
<1>. QED  BY <1>1, <1>4, MorePrepared

LEMMA PrepareCompactionPrepared ==
    ASSUME IInv, Preparing, PrepareCompaction PROVE Preparing'
<1>. HIDE DEF Entry, FileLine
<1>1. PICK path, new :
         /\ path = Path(entries, leaf) /\ new = [ref |-> FirstToKeep(path), from |-> leaf]
         /\ CanCompact(path) /\ prepared' = prepared \cup {new}
         /\ process = "up" /\ process' = process /\ entries' = entries /\ astray' = astray
  BY DEF PrepareCompaction, Calling
<1>2. leaf \in Ids(entries)
  BY <1>1, PathOutside DEF CanCompact
<1>3. path \in Seq(Entry)
  BY <1>1, Facts, PathIs
<1>4. FirstToKeep(path) \in Nat
  BY <1>1, <1>3, KeepIs
<1>5. new \in [ref : Nat, from : Ids(entries)]
  BY <1>1, <1>2, <1>4
<1>6. CanCompact(Path(entries, new.from)) /\ new.ref = FirstToKeep(Path(entries, new.from))
  BY <1>1
<1>7. \A p \in prepared' : /\ p \in [ref : Nat, from : Ids(entries')]
                           /\ CanCompact(Path(entries', p.from))
                           /\ p.ref = FirstToKeep(Path(entries', p.from))
  BY <1>1, <1>5, <1>6 DEF Preparing
<1>8. astray' \in {"yes", "no"} /\ process' # "down"
  BY <1>1 DEF Preparing
<1>. QED  BY <1>7, <1>8 DEF Preparing

LEMMA AppendCompactionPrepared ==
    ASSUME IInv, Preparing, AppendCompaction PROVE Preparing'
<1>1. PICK p \in prepared :
         /\ Put("compaction", leaf, p.ref) /\ prepared' = prepared \ {p}
         /\ astray' = astray \/ astray' = "yes"
  BY DEF AppendCompaction
<1>2. "compaction" \in Kinds /\ leaf \in Ids(entries) \cup {Root} /\ p.ref \in Nat
      /\ astray' \in {"yes", "no"}
  BY <1>1, Facts DEF Kinds, Preparing
<1>3. PICK kept : kept = prepared \ {p} /\ kept \subseteq prepared
  OBVIOUS
<1>. QED  BY <1>1, <1>2, <1>3, PutPrepared

LEMMA PutsPrepared ==
    ASSUME IInv, Preparing, AppendMessage \/ AppendLabelChange \/ BranchWithSummary
    PROVE  Preparing'
<1>1. prepared' = prepared /\ astray' = astray /\ prepared \subseteq prepared
      /\ astray' \in {"yes", "no"}
  BY DEF AppendMessage, AppendLabelChange, BranchWithSummary, Preparing
<1>2. leaf \in Ids(entries) \cup {Root} /\ Root \in Nat /\ MessageKinds \subseteq Kinds
      /\ "label" \in Kinds /\ "summary" \in Kinds /\ Ids(entries) \subseteq Nat
  BY Facts, IdsAre DEF Kinds, ShownKinds, Root
<1>3. \E kind \in Kinds, parent \in Ids(entries) \cup {Root}, ref \in Nat :
         Put(kind, parent, ref)
  <2>1. CASE AppendMessage
    <3>1. PICK kind \in MessageKinds : Put(kind, leaf, Root)
      BY <2>1 DEF AppendMessage
    <3>. QED  BY <1>2, <3>1
  <2>2. CASE AppendLabelChange
    <3>1. PICK t \in Ids(entries) : Put("label", leaf, t)
      BY <2>2 DEF AppendLabelChange
    <3>. QED  BY <1>2, <3>1
  <2>3. CASE BranchWithSummary
    <3>1. PICK p \in Ids(entries) \cup {Root} : Put("summary", p, Root)
      BY <2>3 DEF BranchWithSummary
    <3>. QED  BY <1>2, <3>1
  <2>. QED  BY <2>1, <2>2, <2>3
<1>. QED  BY <1>1, <1>3, PutPrepared

LEMMA AppendFailsPrepared == ASSUME IInv, Preparing, AppendFails PROVE Preparing'
<1>. HIDE DEF FileLine
<1>1. PICK kind \in {"user", "assistant"} :
         entries' = Append(entries, [id |-> nextId, parent |-> leaf, kind |-> kind,
                                     ref |-> Root])
  BY DEF AppendFails
<1>2. process' = "up" /\ prepared' = prepared /\ astray' = astray
      /\ prepared \subseteq prepared /\ astray' \in {"yes", "no"}
  BY DEF AppendFails, Calling, Preparing
<1> DEFINE e == [id |-> nextId, parent |-> leaf, kind |-> kind, ref |-> Root]
<1>3. nextId \in Nat /\ nextId \in 1 .. MaxEntries + 1 /\ MaxEntries \in Nat
      /\ Grown(entries, nextId) /\ entries \in Seq(Entry)
      /\ leaf \in Ids(entries) \cup {Root}
  BY Facts
<1>4. leaf \in Nat /\ leaf < nextId
  <2>1. leaf \in Ids(entries) => leaf \in 1 .. nextId - 1
    BY <1>3, AtIn
  <2>. QED  BY <1>3, <2>1 DEF Root
<1>5. e \in Entry /\ e.id = nextId /\ e.parent < nextId
  BY <1>3, <1>4 DEF Entry, Kinds, ShownKinds, MessageKinds, Root
<1>. HIDE DEF e, Entry
<1>. QED  BY <1>1, <1>2, <1>5, MorePrepared DEF e

(* Every step keeps them.                                                   *)
LEMMA NextPreparing == ASSUME IInv, Preparing, [Next]_vars PROVE Preparing'
<1>1. CASE UNCHANGED vars \/ MoveLeaf \/ WriteLine \/ CreateFails
  <2>1. /\ prepared' = prepared /\ astray' = astray /\ entries' = entries
        /\ process' = process
    BY <1>1 DEF vars, MoveLeaf, WriteLine, CreateFails
  <2>2. astray' \in {"yes", "no"} /\ prepared \subseteq prepared
    BY <2>1 DEF Preparing
  <2>. QED  BY <2>1, <2>2, SamePrepared
<1>2. CASE CompactionFails
  <2>1. PICK kept : prepared' = kept /\ kept \subseteq prepared
    BY <1>2 DEF CompactionFails
  <2>2. astray' \in {"yes", "no"} /\ entries' = entries /\ process' = process
    BY <1>2 DEF CompactionFails, Preparing
  <2>. QED  BY <2>1, <2>2, SamePrepared
<1>3. CASE NewSession \/ Fork \/ Open \/ Crash \/ TearLine
  <2>1. prepared' = {}
    BY <1>3 DEF NewSession, Fork, Open, Crash, TearLine, Preparing
  <2>2. astray' \in {"yes", "no"}
    <3>1. CASE Fork
      BY <3>1 DEF Fork, Preparing
    <3>2. CASE ~Fork
      BY <1>3, <3>2 DEF NewSession, Open, Crash, TearLine, Preparing
    <3>. QED  BY <3>1, <3>2
  <2>. QED  BY <2>1, <2>2, NonePrepared
<1>. QED  BY <1>1, <1>2, <1>3, PutsPrepared, PrepareCompactionPrepared,
             AppendCompactionPrepared, AppendFailsPrepared DEF Next

(* Memory, file and the write under way agree after every step, whatever    *)
(* crashes or fails, and the ids of the entries grow; a compaction under    *)
(* way is still the one that its path asks for.                             *)
THEOREM Invariance == Spec => [](IInv /\ Preparing)
<1>1. IInv /\ Preparing /\ [Next]_vars => IInv' /\ Preparing'
  BY NextInv, NextPreparing
<1>2. Init => IInv /\ Preparing
  <2>1. Init => Preparing
    BY DEF Init, Preparing
  <2>. QED  BY <2>1, InitInv
<1>. QED  BY <1>1, <1>2, PTL DEF Spec

(* TypeOK: the variables keep their types; only a running process is in the *)
(* middle of a write or awaits a summary.                                   *)
THEOREM TypeCorrect == Spec => []TypeOK
<1>1. IInv /\ Preparing => TypeOK
  BY DEF IInv, Preparing, TypeOK
<1>. QED  BY <1>1, Invariance, PTL

(* Until a write fails or is cut short, opening the file again gives the    *)
(* entries in memory, and a session without a file has no answer to lose.   *)
THEOREM MemoryIsFile == Spec => []ReopenIsMemory
<1>1. IInv => ReopenIsMemory
  <2>1. ASSUME IInv, process = "up", task.kind = "none", damage = 0, flushed = "yes"
        PROVE  file # <<>> /\ file[1] = Header /\ Load(file) = entries
    BY <2>1, Facts DEF Settled, Running
  <2>2. ASSUME IInv, process = "up", task.kind = "none", damage = 0, flushed # "yes"
        PROVE  exists = "no" /\ ~HasAssistant(entries)
    <3>1. exists = "no"
      <4>. HIDE DEF Entry, FileLine
      <4>. QED  BY <2>2, Facts DEF Settled
    <3>. QED  BY <2>2, <3>1, Facts DEF Settled
  <2>. QED  BY <2>1, <2>2 DEF ReopenIsMemory
<1>. QED  BY <1>1, Invariance, PTL

-----------------------------------------------------------------------------
(* The session implements the tree.                                         *)

LEMMA SameKinds ==
    /\ Tree!Kinds = Kinds /\ Tree!Root = Root /\ Tree!Entry = Entry
    /\ \A es : /\ Tree!Ids(es) = Ids(es) /\ Tree!LastId(es) = LastId(es)
               /\ Tree!HasAssistant(es) <=> HasAssistant(es)
<1>1. Tree!Kinds = Kinds /\ Tree!Root = Root
  BY DEF Tree!Kinds, Kinds, Tree!Root, Root, ShownKinds, Tree!ShownKinds, MessageKinds,
     Tree!MessageKinds
<1>2. Tree!Entry = Entry
  BY <1>1, Zenon DEF Tree!Entry, Entry
<1>3. \A es : /\ Tree!Ids(es) = Ids(es) /\ Tree!LastId(es) = LastId(es)
              /\ Tree!HasAssistant(es) <=> HasAssistant(es)
  BY DEF Tree!Ids, Ids, Tree!LastId, LastId, Tree!HasAssistant, HasAssistant, Tree!Root, Root
<1>. QED  BY <1>1, <1>2, <1>3

LEMMA SameIds ==
    ASSUME NEW es
    PROVE  Tree!LastId(es) = LastId(es) /\ Tree!Ids(es) = Ids(es)
BY SameKinds

LEMMA SameOnly == ASSUME NEW s, NEW I PROVE Tree!Only(s, I) = Only(s, I)
BY Zenon DEF Tree!Only, Only

LEMMA SameOfKind == ASSUME NEW s, NEW K PROVE Tree!OfKind(s, K) = OfKind(s, K)
BY SameOnly, Zenon DEF Tree!OfKind, OfKind

LEMMA SamePath == ASSUME NEW es, NEW l PROVE Tree!Path(es, l) = Path(es, l)
BY Zenon DEF Tree!Path, Path, Tree!At, At, Tree!Ids, Ids

LEMMA SameBranched ==
    ASSUME NEW es, NEW l, NEW fresh
    PROVE  Tree!Branched(es, l, fresh) = Branched(es, l, fresh)
<1>1. Tree!Kinds = Kinds /\ Tree!Root = Root
  BY SameKinds
<1>. QED  BY ZenonT(60), <1>1, SameIds, SameOnly, SameOfKind, SamePath DEF Tree!Branched, Branched

(* The start of a fork: the ids of its labels matter only from the first on. *)
LEMMA BranchedStart ==
    ASSUME NEW n \in Nat, NEW es, Grown(es, n), NEW l \in Ids(es),
           NEW new, new = Branched(es, l, n), NEW k \in 0 .. Len(new)
    PROVE  \E f \in Ids(SubSeq(new, 1, k)) \cup {Root} :
              /\ Len(Branched(es, l, f)) = Len(new)
              /\ SubSeq(Branched(es, l, f), 1, k) = SubSeq(new, 1, k)
<1> DEFINE kept == Kept(es, l)
           labelled == Labelled(es, kept)
           c == Chained(kept)
           d == Labels(kept, labelled, n)
           z == Labels(kept, labelled, 0)
           t == SubSeq(new, 1, k)
<1>. HIDE DEF Entry
<1>1. kept \in Seq(Entry)
  BY KeptIs
<1>2. labelled \in Seq(Entry)
  BY <1>1, LabelledIs
<1>3. PICK m \in Nat, h \in Nat : m = Len(kept) /\ h = Len(labelled)
  BY <1>1, <1>2, LenProperties
<1>. HIDE DEF kept, labelled
<1>4. c \in Seq(Entry) /\ Len(c) = m
  BY <1>1, <1>3, ChainedIs
<1>5. d \in Seq(Entry) /\ Len(d) = h /\ \A i \in 1 .. h : d[i].id = n + i - 1
  BY <1>1, <1>2, <1>3, LabelsAre
<1>6. z \in Seq(Entry) /\ Len(z) = h
  BY <1>1, <1>2, <1>3, LabelsAre
<1>7. new = c \o d /\ Branched(es, l, 0) = c \o z
  BY BranchedParts DEF kept, labelled
<1>. HIDE DEF c, d, z
<1>8. new \in Seq(Entry)
  BY <1>4, <1>5, <1>7, ConcatIs
<1>9. Len(new) = m + h
  <2>1. c \in Seq(Entry) /\ d \in Seq(Entry)
    BY <1>4, <1>5
  <2>2. Len(c \o d) = Len(c) + Len(d)
    BY ZenonT(30), <2>1, ConcatLen
  <2>. QED  BY <1>4, <1>5, <1>7, <2>2
<1>10. /\ \A i \in 1 .. m : new[i] = c[i]
  BY <1>4, <1>5, <1>7, ConcatIs
<1>11. \A i \in 1 .. h : new[m + i] = d[i]
  <2>1. c \in Seq(Entry) /\ d \in Seq(Entry)
    BY <1>4, <1>5
  <2>2. \A i \in 1 .. Len(d) : (c \o d)[Len(c) + i] = d[i]
    BY <2>1, ConcatSecond, Zenon
  <2>. QED  BY <1>4, <1>5, <1>7, <2>2
<1>12. t \in Seq(Entry) /\ Len(t) = k /\ k \in Nat /\ \A i \in 1 .. k : t[i] = new[i]
  BY <1>8, PrefixIs
<1>. HIDE DEF t
<1>13. CASE k <= m
  <2> DEFINE r == Branched(es, l, 0)
             u == SubSeq(r, 1, k)
  <2>1. r \in Seq(Entry)
    BY <1>4, <1>6, <1>7, ConcatIs
  <2>2. Len(r) = m + h
    <3>1. c \in Seq(Entry) /\ z \in Seq(Entry)
      BY <1>4, <1>6
    <3>2. Len(c \o z) = Len(c) + Len(z)
      BY ZenonT(30), <3>1, ConcatLen
    <3>. QED  BY <1>4, <1>6, <1>7, <3>2
  <2>3. \A i \in 1 .. m : r[i] = c[i]
    BY <1>4, <1>6, <1>7, ConcatIs
  <2>. HIDE DEF r
  <2>4. k \in 0 .. Len(r)
    BY <1>9, <2>2
  <2>5. u \in Seq(Entry) /\ Len(u) = k /\ \A i \in 1 .. k : u[i] = r[i]
    BY <2>1, <2>4, PrefixIs
  <2>. HIDE DEF u
  <2>6. \A i \in 1 .. k : i \in 1 .. m
    BY <1>3, <1>12, <1>13
  <2>7. \A i \in 1 .. k : u[i] = t[i]
    BY <1>10, <1>12, <2>3, <2>5, <2>6
  <2>8. u = t
    BY <1>12, <2>5, <2>7, SeqEqual
  <2>. QED  BY <1>9, <2>2, <2>8 DEF u, t, r, Root
<1>14. CASE ~(k <= m)
  <2>1. m + 1 \in 1 .. k /\ 1 \in 1 .. h /\ n + 1 - 1 = n
    BY <1>3, <1>9, <1>12, <1>14
  <2>2. t[m + 1].id = n
    BY <1>5, <1>11, <1>12, <2>1
  <2>3. n \in Ids(t)
    BY <1>12, <2>1, <2>2, IdsAre
  <2>. QED  BY <2>3 DEF t
<1>. QED  BY <1>3, <1>12, <1>13, <1>14

(* An entry more, as the tree sees it.                                      *)
LEMMA AppendExtends ==
    ASSUME NEW n \in Nat, NEW es, Grown(es, n), NEW e \in Entry, e.id = n
    PROVE  LET t == Append(es, e)
           IN  /\ Len(t) = Len(es) + 1 /\ SubSeq(t, 1, Len(es)) = es
               /\ t[Len(t)] = e /\ n \notin Ids(es)
<1>. HIDE DEF Entry
<1>1. es \in Seq(Entry) /\ Len(es) \in Nat
  BY LenProperties DEF Grown
<1>2. n \notin Ids(es)
  <2>1. \A l \in Ids(es) : l \in 1 .. n - 1
    BY AtIn
  <2>. QED  BY <2>1
<1>3. Len(es) \in 0 .. Len(es)
  BY <1>1
<1>4. SubSeq(Append(es, e), 1, Len(es)) = es
  BY <1>1, <1>3, PrefixAppend, SubSeqFull
<1>. QED  BY <1>1, <1>2, <1>4, HasAppend

(* The last entry, as the tree sees it.                                     *)
LEMMA LastExtends ==
    ASSUME NEW n \in Nat, NEW es, Grown(es, n), es # <<>>
    PROVE  LET s == SubSeq(es, 1, Len(es) - 1)
           IN  /\ Len(es) = Len(s) + 1 /\ SubSeq(es, 1, Len(s)) = s
               /\ es[Len(es)].id \notin Ids(s) /\ LastId(es) = es[Len(es)].id
<1> DEFINE s == SubSeq(es, 1, Len(es) - 1)
<1>. HIDE DEF Entry
<1>1. es \in Seq(Entry)
  BY DEF Grown
<1>2. PICK m \in Nat : m = Len(es) /\ m # 0 /\ m - 1 \in 0 .. Len(es) /\ m \in 1 .. m
  BY <1>1, EmptySeq
<1>3. s \in Seq(Entry) /\ Len(s) = m - 1 /\ \A i \in 1 .. m - 1 : s[i] = es[i]
  BY <1>1, <1>2, PrefixIs
<1>4. \A i \in 1 .. m - 1 : es[i].id < es[m].id /\ es[i].id \in Nat
  BY <1>2 DEF Grown
<1>5. s = SubSeq(es, 1, m - 1)
  BY <1>2
<1>. HIDE DEF s
<1>6. es[m].id \notin Ids(s)
  <2> SUFFICES ASSUME es[m].id \in Ids(s) PROVE FALSE
    OBVIOUS
  <2>1. PICK i \in 1 .. Len(s) : s[i].id = es[m].id
    BY <1>3, IdsAre
  <2>2. i \in 1 .. m - 1 /\ es[i].id = es[m].id
    BY <1>3, <2>1
  <2>. QED  BY <1>4, <2>2
<1>7. m = Len(s) + 1 /\ SubSeq(es, 1, Len(s)) = s
  BY <1>2, <1>3, <1>5
<1>. QED  BY <1>2, <1>6, <1>7 DEF s, LastId

(* What the variables stand for, case by case.                              *)
LEMMA StandsFor ==
    /\ process = "down" /\ task.kind = "none" =>
          /\ AbstractProcess = "down" /\ AbstractTree = Load(file)
          /\ AbstractLeaf = LastId(Load(file))
    /\ process = "up" /\ task.kind \in {"none", "rewrite"} =>
          AbstractProcess = "up" /\ AbstractTree = entries /\ AbstractLeaf = leaf
    /\ process = "up" /\ task.kind = "create" =>
          /\ AbstractProcess = "up" /\ AbstractTree = SubSeq(entries, 1, Len(entries) - 1)
          /\ AbstractLeaf = entries[Len(entries)].parent
    /\ process = "up" /\ task.kind = "fork" =>
          /\ AbstractProcess = "forking" /\ AbstractTree = prev.entries
          /\ AbstractLeaf = prev.leaf
BY DEF AbstractProcess, AbstractTree, AbstractLeaf

LEMMA StandsForNext ==
    /\ process' = "down" /\ task'.kind = "none" =>
          /\ AbstractProcess' = "down" /\ AbstractTree' = Load(file')
          /\ AbstractLeaf' = LastId(Load(file'))
    /\ process' = "up" /\ task'.kind \in {"none", "rewrite"} =>
          AbstractProcess' = "up" /\ AbstractTree' = entries' /\ AbstractLeaf' = leaf'
    /\ process' = "up" /\ task'.kind = "create" =>
          /\ AbstractProcess' = "up"
          /\ AbstractTree' = SubSeq(entries', 1, Len(entries') - 1)
          /\ AbstractLeaf' = entries'[Len(entries')].parent
    /\ process' = "up" /\ task'.kind = "fork" =>
          /\ AbstractProcess' = "forking" /\ AbstractTree' = prev'.entries
          /\ AbstractLeaf' = prev'.leaf
BY DEF AbstractProcess, AbstractTree, AbstractLeaf

LEMMA Extends ==
    ASSUME AbstractProcess = "up", AbstractProcess' = "up", NEW p,
           Len(AbstractTree') = Len(AbstractTree) + 1,
           SubSeq(AbstractTree', 1, Len(AbstractTree)) = AbstractTree,
           AbstractTree'[Len(AbstractTree')].id \notin Ids(AbstractTree),
           AbstractTree'[Len(AbstractTree')].parent = p,
           AbstractLeaf' = AbstractTree'[Len(AbstractTree')].id,
           damage' >= damage
    PROVE  Tree!Extend(p)
BY SameKinds DEF Tree!Extend, Tree!Running

LEMMA PutTree ==
    ASSUME IInv, NEW kind \in Kinds, NEW parent \in Ids(entries) \cup {Root},
           NEW ref \in Nat, Put(kind, parent, ref),
           parent = leaf \/ kind = "summary"
    PROVE  [Tree!Next]_(Tree!vars)
<1> DEFINE e == [id |-> nextId, parent |-> parent, kind |-> kind, ref |-> ref]
<1>. HIDE DEF FileLine
<1>1. /\ process = "up" /\ task.kind = "none" /\ process' = "up"
      /\ leaf' = nextId /\ nextId' = nextId + 1 /\ damage' = damage
      /\ entries' = Append(entries, e) /\ Persist(e)
  BY DEF Put, Calling
<1>2. e \in Entry /\ e.id = nextId /\ e.kind = kind /\ e.parent = parent
  <2>1. parent \in Nat /\ nextId \in Nat
    BY Facts, IdsAre DEF Root
  <2>. QED  BY <2>1 DEF Entry
<1>. HIDE DEF e, Entry
<1>3. /\ Len(entries') = Len(entries) + 1 /\ SubSeq(entries', 1, Len(entries)) = entries
      /\ entries'[Len(entries')] = e /\ nextId \notin Ids(entries)
  BY <1>1, <1>2, Facts, AppendExtends
<1>4. SubSeq(entries', 1, Len(entries') - 1) = entries
  BY <1>1, <1>2, Facts, HasAppend
<1>5. AbstractProcess = "up" /\ AbstractTree = entries /\ AbstractLeaf = leaf
  BY <1>1, StandsFor
<1>6. CASE task' = task
  <2>1. AbstractProcess' = "up" /\ AbstractTree' = entries' /\ AbstractLeaf' = leaf'
    BY <1>1, <1>6, StandsForNext
  <2>2. damage' >= damage
    BY <1>1, Facts
  <2>3. Tree!Extend(parent)
    BY <1>1, <1>2, <1>3, <1>5, <2>1, <2>2, Extends
  <2>4. CASE parent = leaf
    BY <1>5, <2>3, <2>4 DEF Tree!Next, Tree!AppendToLeaf
  <2>5. CASE kind = "summary"
    BY <1>2, <1>3, <1>5, <2>1, <2>3, <2>5, SameKinds DEF Tree!Next, Tree!AppendSummary
  <2>. QED  BY <2>4, <2>5
<1>7. CASE /\ flushed = "no" /\ HasAssistant(Append(entries, e)) /\ exists = "no"
           /\ task' = [kind |-> "create", next |-> 1]
  <2>1. task'.kind = "create"
    BY <1>7
  <2>2. AbstractProcess' = "up" /\ AbstractTree' = entries /\ AbstractLeaf' = parent
    BY <1>1, <1>2, <1>3, <1>4, <2>1, StandsForNext
  <2>3. ~HasAssistant(entries)
    BY <1>1, <1>7, Facts DEF Settled
  <2>4. kind = "assistant"
    BY <1>2, <1>7, <2>3, Facts, HasAppend
  <2>5. parent = leaf
    BY <2>4
  <2>. QED  BY <1>1, <1>5, <2>2, <2>5 DEF Tree!vars
<1>. QED  BY <1>1, <1>6, <1>7 DEF Persist

LEMMA AppendMessageTree == ASSUME IInv, AppendMessage PROVE [Tree!Next]_(Tree!vars)
<1>1. PICK kind \in MessageKinds : Put(kind, leaf, Root)
  BY DEF AppendMessage
<1>2. kind \in Kinds /\ Root \in Nat /\ leaf \in Ids(entries) \cup {Root}
  BY Facts DEF Kinds, ShownKinds, Root
<1>. QED  BY <1>1, <1>2, PutTree

LEMMA AppendLabelChangeTree == ASSUME IInv, AppendLabelChange PROVE [Tree!Next]_(Tree!vars)
<1>1. PICK t \in Ids(entries) : Put("label", leaf, t)
  BY DEF AppendLabelChange
<1>2. "label" \in Kinds /\ leaf \in Ids(entries) \cup {Root} /\ t \in Nat
  BY Facts, IdsAre DEF Kinds
<1>. QED  BY <1>1, <1>2, PutTree

LEMMA AppendCompactionTree ==
    ASSUME IInv, Preparing, AppendCompaction PROVE [Tree!Next]_(Tree!vars)
<1>1. PICK p \in prepared : Put("compaction", leaf, p.ref)
  BY DEF AppendCompaction
<1>2. "compaction" \in Kinds /\ leaf \in Ids(entries) \cup {Root}
  BY Facts DEF Kinds
<1>3. p.ref \in Nat
  BY DEF Preparing
<1>. QED  BY <1>1, <1>2, <1>3, PutTree

LEMMA BranchWithSummaryTree == ASSUME IInv, BranchWithSummary PROVE [Tree!Next]_(Tree!vars)
<1>1. PICK p \in Ids(entries) \cup {Root} : Put("summary", p, Root)
  BY DEF BranchWithSummary
<1>2. "summary" \in Kinds /\ Root \in Nat
  BY DEF Kinds, ShownKinds, Root
<1>. QED  BY <1>1, <1>2, PutTree

LEMMA MoveLeafTree == ASSUME IInv, MoveLeaf PROVE [Tree!Next]_(Tree!vars)
<1>1. /\ process = "up" /\ task.kind = "none" /\ leaf' \in Ids(entries) \cup {Root}
      /\ process' = process /\ entries' = entries /\ task' = task /\ damage' = damage
  BY DEF MoveLeaf, Calling
<1>2. AbstractProcess = "up" /\ AbstractTree = entries
  BY <1>1, StandsFor
<1>3. AbstractProcess' = "up" /\ AbstractTree' = entries' /\ AbstractLeaf' = leaf'
  BY <1>1, StandsForNext
<1>. QED  BY <1>1, <1>2, <1>3, SameKinds DEF Tree!Next, Tree!MoveLeaf, Tree!Running

LEMMA NewSessionTree == ASSUME IInv, NewSession PROVE [Tree!Next]_(Tree!vars)
<1>1. /\ process = "up" /\ task.kind = "none" /\ leaf' = Root /\ entries' = <<>>
      /\ process' = process /\ task' = task /\ damage' = 0
  BY DEF NewSession, Calling
<1>2. AbstractProcess = "up"
  BY <1>1, StandsFor
<1>3. AbstractProcess' = "up" /\ AbstractTree' = <<>> /\ AbstractLeaf' = Root
  BY <1>1, StandsForNext
<1>. QED  BY <1>1, <1>2, <1>3, SameKinds DEF Tree!Next, Tree!StartOver, Tree!Running

LEMMA OpenTree == ASSUME IInv, Open PROVE [Tree!Next]_(Tree!vars)
<1>1. /\ process = "down" /\ process' = "up" /\ entries' = Load(file)
      /\ leaf' = LastId(Load(file)) /\ damage' = damage
      /\ task' = task \/ task' = [kind |-> "rewrite", next |-> 1]
  BY DEF Open
<1>2. task.kind = "none" /\ task'.kind \in {"none", "rewrite"}
  BY <1>1, Facts
<1>3. /\ AbstractProcess = "down" /\ AbstractTree = Load(file)
      /\ AbstractLeaf = LastId(Load(file))
  BY <1>1, <1>2, StandsFor
<1>4. AbstractProcess' = "up" /\ AbstractTree' = entries' /\ AbstractLeaf' = leaf'
  BY <1>1, <1>2, StandsForNext
<1>. QED  BY <1>1, <1>3, <1>4 DEF Tree!Next, Tree!Restart

LEMMA AppendFailsTree == ASSUME IInv, AppendFails PROVE [Tree!Next]_(Tree!vars)
<1>1. PICK kind \in {"user", "assistant"} :
         entries' = Append(entries, [id |-> nextId, parent |-> leaf, kind |-> kind,
                                     ref |-> Root])
  BY DEF AppendFails
<1> DEFINE e == [id |-> nextId, parent |-> leaf, kind |-> kind, ref |-> Root]
<1>2. /\ process = "up" /\ task.kind = "none" /\ leaf' = nextId /\ damage' = damage + 1
      /\ process' = process /\ task' = task
  BY DEF AppendFails, Calling
<1>3. leaf \in Nat /\ nextId \in Nat
  BY Facts, IdsAre DEF Root
<1>4. e \in Entry /\ e.id = nextId /\ e.parent = leaf
  BY <1>3 DEF Entry, Kinds, ShownKinds, MessageKinds, Root
<1>. HIDE DEF e, Entry
<1>5. /\ Len(entries') = Len(entries) + 1 /\ SubSeq(entries', 1, Len(entries)) = entries
      /\ entries'[Len(entries')] = e /\ nextId \notin Ids(entries)
  BY <1>1, <1>3, <1>4, Facts, AppendExtends DEF e
<1>6. AbstractProcess = "up" /\ AbstractTree = entries /\ AbstractLeaf = leaf
  BY <1>2, StandsFor
<1>7. AbstractProcess' = "up" /\ AbstractTree' = entries' /\ AbstractLeaf' = leaf'
  BY <1>2, StandsForNext
<1>8. damage' >= damage
  BY <1>2, Facts
<1>9. Tree!Extend(leaf)
  BY <1>2, <1>4, <1>5, <1>6, <1>7, <1>8, Extends
<1>. QED  BY <1>6, <1>9 DEF Tree!Next, Tree!AppendToLeaf

(* With damage, anything may be lost.                                       *)
LEMMA Loses ==
    ASSUME AbstractProcess # "down", damage' > 0, damage' >= damage,
           AbstractLeaf' = LastId(AbstractTree')
    PROVE  [Tree!Next]_(Tree!vars)
BY SameKinds DEF Tree!Next, Tree!Lose

(* The end of a fork, after n of its entries.                               *)
LEMMA ForkEnds ==
    ASSUME AbstractProcess \in {"up", "forking"}, damage' = damage,
           NEW m \in Nat, NEW es, Grown(es, m), NEW l \in Ids(es),
           NEW new, new = Branched(es, l, m), NEW k \in 0 .. Len(new),
           AbstractTree = es, AbstractTree' = SubSeq(new, 1, k),
           AbstractLeaf' = LastId(AbstractTree'),
           AbstractProcess' = IF k = Len(new) THEN "up" ELSE "down",
           k < Len(new) => AbstractProcess = "forking"
    PROVE  [Tree!Next]_(Tree!vars)
<1>. HIDE DEF Entry
<1>1. PICK f \in Ids(SubSeq(new, 1, k)) \cup {Root} :
         /\ Len(Branched(es, l, f)) = Len(new)
         /\ SubSeq(Branched(es, l, f), 1, k) = SubSeq(new, 1, k)
  BY BranchedStart
<1>2. Tree!Branched(es, l, f) = Branched(es, l, f)
  BY SameBranched
<1>3. /\ Len(Tree!Branched(es, l, f)) = Len(new)
      /\ SubSeq(Tree!Branched(es, l, f), 1, k) = SubSeq(new, 1, k)
  BY <1>1, <1>2
<1>4. k \in 0 .. Len(Tree!Branched(es, l, f))
  BY <1>3
<1>5. Tree!Forked(Tree!Branched(es, l, f), k)
  BY <1>3 DEF Tree!Forked
<1>6. l \in Tree!Ids(AbstractTree) /\ f \in Tree!Ids(AbstractTree') \cup {Tree!Root}
  BY <1>1, SameKinds
<1>7. AbstractLeaf' = Tree!LastId(AbstractTree')
  BY SameKinds
<1>8. Tree!Fork
  BY <1>4, <1>5, <1>6, <1>7 DEF Tree!Fork
<1>. QED  BY <1>8 DEF Tree!Next

(* The end of the process, with a start of what there was.                  *)
LEMMA ProcessEnds ==
    ASSUME AbstractProcess # "down", AbstractProcess' = "down", damage' = damage,
           AbstractLeaf' = LastId(AbstractTree'),
           \/ AbstractTree' = AbstractTree
           \/ /\ ~HasAssistant(AbstractTree)
              /\ \E k \in 0 .. Len(AbstractTree) : AbstractTree' = SubSeq(AbstractTree, 1, k)
    PROVE  [Tree!Next]_(Tree!vars)
BY SameKinds DEF Tree!Next, Tree!End

LEMMA ForkTree == ASSUME IInv, Fork PROVE [Tree!Next]_(Tree!vars)
<1>. HIDE DEF Entry, FileLine
<1>1. PICK l \in Ids(Load(file)) :
         LET new == Branched(Load(file), l, nextId)
         IN  /\ entries' = new /\ leaf' = LastId(new)
             /\ IF HasAssistant(new)
                  THEN /\ task' = [kind |-> "fork", next |-> 1]
                       /\ prev' = [entries |-> entries, leaf |-> leaf, file |-> file]
                  ELSE UNCHANGED <<task, prev>>
  BY DEF Fork
<1>2. /\ process = "up" /\ task.kind = "none" /\ exists = "yes" /\ process' = "up"
      /\ damage' = damage
  BY DEF Fork, Calling
<1> DEFINE old == Load(file)
           new == Branched(old, l, nextId)
<1>3. Grown(old, nextId) /\ nextId \in Nat /\ nextId <= nextId
  BY Facts DEF Sound
<1>4. new \in Seq(Entry)
  BY <1>3, BranchedIs
<1>5. /\ entries' = new /\ leaf' = LastId(new)
      /\ IF HasAssistant(new)
           THEN /\ task' = [kind |-> "fork", next |-> 1]
                /\ prev' = [entries |-> entries, leaf |-> leaf, file |-> file]
           ELSE task' = task /\ prev' = prev
  BY <1>1
<1>. HIDE DEF new
<1>6. AbstractProcess = "up" /\ AbstractTree = entries /\ AbstractLeaf = leaf
  BY <1>2, StandsFor
<1>7. CASE HasAssistant(new)
  <2>1. task'.kind = "fork" /\ prev'.entries = entries /\ prev'.leaf = leaf
    BY <1>5, <1>7
  <2>2. AbstractProcess' = "forking" /\ AbstractTree' = entries /\ AbstractLeaf' = leaf
    BY <1>2, <2>1, StandsForNext
  <2>. QED  BY <1>2, <1>6, <2>2 DEF Tree!Next, Tree!BeginFork
<1>8. CASE ~HasAssistant(new)
  <2>1. task' = task
    BY <1>5, <1>8
  <2>2. AbstractProcess' = "up" /\ AbstractTree' = new /\ AbstractLeaf' = LastId(new)
    BY <1>2, <1>5, <2>1, StandsForNext
  <2>3. CASE damage = 0
    <3>1. old = entries
      BY <1>2, <2>3, Facts DEF Settled
    <3>2. PICK k \in Nat : k = Len(new) /\ k \in 0 .. Len(new) /\ ~(k < Len(new))
      BY <1>4, LenProperties
    <3>3. SubSeq(new, 1, k) = new
      BY <1>4, <3>2, SubSeqFull
    <3>4. new = Branched(old, l, nextId) /\ l \in Ids(old)
      BY <1>1 DEF new
    <3>5. /\ AbstractTree = old /\ AbstractTree' = SubSeq(new, 1, k)
          /\ AbstractLeaf' = LastId(AbstractTree')
          /\ AbstractProcess' = IF k = Len(new) THEN "up" ELSE "down"
          /\ AbstractProcess \in {"up", "forking"}
      BY <1>6, <2>2, <3>1, <3>2, <3>3
    <3>. HIDE DEF old
    <3>6. PICK m \in Nat : m = nextId
      BY <1>3
    <3>7. Grown(old, m) /\ new = Branched(old, l, m)
      BY <1>3, <3>4, <3>6
    <3>8. damage' = damage /\ (k < Len(new) => AbstractProcess = "forking")
      BY <1>2, <3>2
    <3>. QED  BY <3>2, <3>4, <3>5, <3>7, <3>8, ForkEnds
  <2>4. CASE damage # 0
    <3>1. damage' > 0 /\ damage' >= damage
      BY <1>2, <2>4, Facts
    <3>. QED  BY <1>6, <2>2, <3>1, Loses
  <2>. QED  BY <2>3, <2>4
<1>. QED  BY <1>7, <1>8

LEMMA LastIsLeaf ==
    ASSUME IInv, task.kind = "create", process' = "up", damage' >= damage,
           task'.kind = "none", entries' = entries, leaf' = leaf
    PROVE  [Tree!Next]_(Tree!vars)
<1> DEFINE s == SubSeq(entries, 1, Len(entries) - 1)
<1>1. process = "up" /\ entries # <<>> /\ leaf = LastId(entries)
  BY Facts DEF Creating, Writing
<1>2. /\ Len(entries) = Len(s) + 1 /\ SubSeq(entries, 1, Len(s)) = s
      /\ entries[Len(entries)].id \notin Ids(s) /\ LastId(entries) = entries[Len(entries)].id
  BY <1>1, Facts, LastExtends
<1>3. /\ AbstractProcess = "up" /\ AbstractTree = s
      /\ AbstractLeaf = entries[Len(entries)].parent
  BY <1>1, StandsFor
<1>4. AbstractProcess' = "up" /\ AbstractTree' = entries /\ AbstractLeaf' = leaf
  BY StandsForNext
<1>. HIDE DEF s
<1>5. Tree!Extend(AbstractLeaf)
  BY <1>1, <1>2, <1>3, <1>4, Extends
<1>. QED  BY <1>5 DEF Tree!Next, Tree!AppendToLeaf

LEMMA CreateFailsTree == ASSUME IInv, CreateFails PROVE [Tree!Next]_(Tree!vars)
<1>1. /\ process = "up" /\ task.kind = "create" /\ task' = Idle /\ damage' = damage + 1
      /\ process' = process /\ entries' = entries /\ leaf' = leaf
  BY DEF CreateFails
<1>2. damage' >= damage /\ task'.kind = "none"
  BY <1>1, Facts, IdleIs
<1>. QED  BY <1>1, <1>2, LastIsLeaf

LEMMA TearLineTree == ASSUME IInv, TearLine PROVE [Tree!Next]_(Tree!vars)
<1>1. /\ process = "up" /\ task.kind = "none" /\ process' = "down" /\ damage' = damage + 1
      /\ task' = task
  BY DEF TearLine, Calling
<1>2. AbstractProcess = "up"
  BY <1>1, StandsFor
<1>3. AbstractTree' = Load(file') /\ AbstractLeaf' = LastId(Load(file'))
  BY <1>1, StandsForNext
<1>4. damage' > 0 /\ damage' >= damage
  BY <1>1, Facts
<1>. QED  BY <1>2, <1>3, <1>4, Loses

(* What a longer write has written so far.                                  *)
LEMMA WrittenSoFar ==
    ASSUME IInv, task.kind # "none"
    PROVE  \E k \in 0 .. Len(entries) : /\ Load(file) = SubSeq(entries, 1, k)
                                        /\ (k < Len(entries) \/ entries = <<>>)
<1>. HIDE DEF Entry, FileLine
<1>1. PICK n \in Nat : n = Len(entries)
  BY Facts, LenProperties
<1>2. task.next \in 1 .. n + 1 /\ entries \in Seq(Entry)
  BY <1>1, Facts
<1>3. 0 \in 0 .. Len(entries) /\ (0 < Len(entries) \/ entries = <<>>)
  BY <1>1, <1>2, EmptySeq
<1>4. SubSeq(entries, 1, 0) = <<>>
  BY <1>2, <1>3, PrefixIs, EmptySeq
<1>5. CASE task.next = 1
  <2>1. Load(file) = <<>>
    BY <1>5, Facts, LoadNothing DEF Writing
  <2>. QED  BY <1>3, <1>4, <2>1
<1>6. CASE task.next # 1
  <2>1. PICK k \in Nat : k = task.next - 2 /\ k < n /\ k \in 0 .. n
    <3>1. task.next - 2 \in Nat /\ task.next - 2 < n /\ task.next - 2 \in 0 .. n
      BY <1>2, <1>6
    <3>. QED  BY <3>1
  <2>2. file = <<Header>> \o SubSeq(entries, 1, k)
    BY <1>6, <2>1, Facts DEF Writing
  <2>3. SubSeq(entries, 1, k) \in Seq(Entry)
    BY <1>1, <1>2, <2>1, PrefixIs
  <2>4. Load(file) = SubSeq(entries, 1, k)
    BY <2>2, <2>3, WrittenIs
  <2>. QED  BY <1>1, <2>1, <2>4
<1>. QED  BY <1>5, <1>6

LEMMA WriteLineTree == ASSUME IInv, WriteLine PROVE [Tree!Next]_(Tree!vars)
<1> DEFINE last == task.next = Len(<<Header>> \o entries)
<1>. HIDE DEF Entry, FileLine
<1>1. /\ process = "up" /\ task.kind # "none" /\ process' = "up"
      /\ task' = IF last THEN Idle ELSE [task EXCEPT !.next = @ + 1]
      /\ prev' = IF last THEN None ELSE prev
      /\ entries' = entries /\ leaf' = leaf /\ damage' = damage
  BY DEF WriteLine
<1>2. task.kind \in {"create", "fork", "rewrite"} /\ damage' >= damage
  BY <1>1, Facts
<1>. HIDE DEF last
<1>3. CASE ~last
  <2>1. task'.kind = task.kind
    <3>1. task \in [kind : {"none", "create", "fork", "rewrite"}, next : Nat]
      BY Facts
    <3>. QED  BY <1>1, <1>3, <3>1
  <2>2. prev' = prev
    BY <1>1, <1>3
  <2>3. /\ AbstractProcess' = AbstractProcess /\ AbstractTree' = AbstractTree
        /\ AbstractLeaf' = AbstractLeaf
    BY <1>1, <1>2, <2>1, <2>2, StandsFor, StandsForNext
  <2>. QED  BY <1>1, <2>3 DEF Tree!vars
<1>4. CASE last
  <2>1. task'.kind = "none"
    BY <1>1, <1>4, IdleIs
  <2>2. AbstractProcess' = "up" /\ AbstractTree' = entries /\ AbstractLeaf' = leaf
    BY <1>1, <2>1, StandsForNext
  <2>3. leaf = LastId(entries)
    BY <1>1, Facts DEF Writing
  <2>4. CASE task.kind = "create"
    BY <1>1, <1>2, <2>1, <2>4, LastIsLeaf
  <2>5. CASE task.kind = "rewrite"
    <3>1. AbstractProcess = "up" /\ AbstractTree = entries /\ AbstractLeaf = leaf
      BY <1>1, <2>5, StandsFor
    <3>. QED  BY <1>1, <2>2, <3>1 DEF Tree!vars
  <2>6. CASE task.kind = "fork"
    <3>1. AbstractProcess = "forking" /\ AbstractTree = prev.entries
      BY <1>1, <2>6, StandsFor
    <3>2. CASE damage = 0
      <4>1. PICK l \in Ids(prev.entries), fresh \in 1 .. nextId :
               Grown(prev.entries, fresh) /\ entries = Branched(prev.entries, l, fresh)
        BY <2>6, <3>2, Facts DEF Forking
      <4>2. fresh \in Nat
        BY Facts
      <4>3. PICK k \in Nat : k = Len(entries) /\ k \in 0 .. Len(entries) /\ ~(k < Len(entries))
        BY Facts, LenProperties
      <4>4. SubSeq(entries, 1, k) = entries
        BY <4>3, Facts, SubSeqFull
      <4> DEFINE es == prev.entries
      <4>5. /\ AbstractTree = es /\ l \in Ids(es) /\ Grown(es, fresh)
            /\ entries = Branched(es, l, fresh)
        BY <3>1, <4>1
      <4>6. /\ AbstractTree' = SubSeq(entries, 1, k) /\ AbstractLeaf' = LastId(AbstractTree')
            /\ AbstractProcess' = IF k = Len(entries) THEN "up" ELSE "down"
            /\ AbstractProcess \in {"up", "forking"}
        BY <2>2, <2>3, <3>1, <4>3, <4>4
      <4>. HIDE DEF es
      <4>. QED  BY <1>1, <4>2, <4>3, <4>5, <4>6, ForkEnds
    <3>3. CASE damage # 0
      <4>1. damage' > 0
        BY <1>1, <3>3, Facts
      <4>. QED  BY <1>2, <2>2, <2>3, <3>1, <4>1, Loses
    <3>. QED  BY <3>2, <3>3
  <2>. QED  BY <1>2, <2>4, <2>5, <2>6
<1>. QED  BY <1>3, <1>4

LEMMA CrashTree == ASSUME IInv, Crash PROVE [Tree!Next]_(Tree!vars)
<1>. HIDE DEF Entry, FileLine
<1>1. /\ process = "up" /\ process' = "down" /\ task' = Idle
      /\ file' = file \/ (task.kind = "fork" /\ file' = prev.file)
      /\ damage' = IF task.kind = "rewrite" /\ Load(file) # entries THEN damage + 1 ELSE damage
  BY DEF Crash
<1>2. /\ AbstractProcess' = "down" /\ AbstractTree' = Load(file')
      /\ AbstractLeaf' = LastId(AbstractTree')
  BY <1>1, IdleIs, StandsForNext
<1>3. AbstractProcess \in {"up", "forking"} /\ AbstractProcess # "down"
  BY <1>1 DEF AbstractProcess
<1>4. damage' >= damage /\ damage' \in Nat
  BY <1>1, Facts
<1>5. CASE damage' # 0
  <2>1. damage' > 0
    BY <1>4, <1>5
  <2>. QED  BY <1>2, <1>3, <1>4, <2>1, Loses
<1>6. CASE damage' = 0
  <2>1. damage = 0 /\ damage' = damage
    BY <1>1, <1>6, Facts
  <2>2. CASE task.kind \in {"none", "rewrite"}
    <3>1. AbstractTree = entries /\ file' = file
      BY <1>1, <2>2, StandsFor
    <3>2. CASE task.kind = "rewrite" \/ flushed = "yes"
      <4>1. Load(file) = entries
        <5>1. CASE task.kind = "rewrite"
          <6>1. damage + 1 # damage
            BY Facts
          <6>. QED  BY <1>1, <2>1, <5>1, <6>1
        <5>2. CASE task.kind = "none" /\ flushed = "yes"
          BY <1>1, <2>1, <5>2, Facts DEF Settled
        <5>. QED  BY <2>2, <3>2, <5>1, <5>2
      <4>. QED  BY <1>2, <1>3, <2>1, <3>1, <4>1, ProcessEnds
    <3>3. CASE task.kind = "none" /\ flushed = "no"
      <4>1. exists = "no" /\ ~HasAssistant(entries)
        BY <1>1, <2>1, <3>3, Facts DEF Settled
      <4>2. Load(file) = <<>>
        BY <4>1, Facts, LoadNothing
      <4>3. 0 \in 0 .. Len(entries)
        BY Facts, LenProperties
      <4>4. SubSeq(entries, 1, 0) = <<>>
        BY <4>3, Facts, PrefixIs, EmptySeq
      <4>. QED  BY <1>2, <1>3, <2>1, <3>1, <4>1, <4>2, <4>3, <4>4, ProcessEnds
    <3>. QED  BY <2>2, <3>2, <3>3, Facts
  <2>3. CASE task.kind = "create"
    <3> DEFINE s == SubSeq(entries, 1, Len(entries) - 1)
    <3>1. AbstractTree = s /\ file' = file
      BY <1>1, <2>3, StandsFor
    <3>2. entries # <<>> /\ ~HasAssistant(s)
      BY <2>3, Facts DEF Creating
    <3>3. PICK k \in 0 .. Len(entries) : Load(file) = SubSeq(entries, 1, k) /\ k < Len(entries)
      BY <2>3, <3>2, WrittenSoFar
    <3>4. PICK n \in Nat : n = Len(entries) /\ n - 1 \in 0 .. Len(entries) /\ k \in 0 .. n - 1
      <4>1. Len(entries) \in Nat /\ Len(entries) # 0
        BY <3>2, Facts, EmptySeq
      <4>2. Len(entries) - 1 \in 0 .. Len(entries) /\ k \in 0 .. Len(entries) - 1
        BY <3>3, <4>1
      <4>. QED  BY <4>1, <4>2
    <3>5. s \in Seq(Entry) /\ Len(s) = n - 1 /\ \A i \in 1 .. n - 1 : s[i] = entries[i]
      BY SMTT(30), <3>4, Facts, PrefixIs
    <3>6. SubSeq(entries, 1, k) = SubSeq(s, 1, k)
      <4> DEFINE a == SubSeq(entries, 1, k)
                 b == SubSeq(s, 1, k)
      <4>. HIDE DEF s
      <4>1. a \in Seq(Entry) /\ Len(a) = k /\ \A i \in 1 .. k : a[i] = entries[i]
        BY <3>3, Facts, PrefixIs
      <4>2. b \in Seq(Entry) /\ Len(b) = k /\ \A i \in 1 .. k : b[i] = s[i]
        BY <3>4, <3>5, PrefixIs
      <4>3. \A i \in 1 .. k : i \in 1 .. n - 1
        BY <3>4
      <4>. HIDE DEF a, b
      <4>4. \A i \in 1 .. k : a[i] = b[i]
        BY <3>5, <4>1, <4>2, <4>3
      <4>5. a = b
        BY <4>1, <4>2, <4>4, SeqEqual
      <4>. QED  BY <4>5 DEF a, b
    <3>7. k \in 0 .. Len(s)
      BY <3>4, <3>5
    <3>. HIDE DEF s
    <3>. QED  BY <1>2, <1>3, <2>1, <3>1, <3>2, <3>3, <3>6, <3>7, ProcessEnds
  <2>4. CASE task.kind = "fork"
    <3>1. AbstractProcess = "forking" /\ AbstractTree = prev.entries
      BY <1>1, <2>4, StandsFor
    <3>2. PICK l \in Ids(prev.entries), fresh \in 1 .. nextId :
             Grown(prev.entries, fresh) /\ entries = Branched(prev.entries, l, fresh)
      BY <2>1, <2>4, Facts DEF Forking
    <3>3. CASE file' = prev.file
      <4>1. Load(prev.file) = prev.entries
        BY <2>1, <2>4, Facts DEF Forking
      <4>. QED  BY <1>2, <1>3, <2>1, <3>1, <3>3, <4>1, ProcessEnds
    <3>4. CASE file' = file
      <4>1. PICK k \in 0 .. Len(entries) : /\ Load(file) = SubSeq(entries, 1, k)
                                          /\ (k < Len(entries) \/ entries = <<>>)
        BY <2>4, WrittenSoFar
      <4>2. CASE entries = <<>>
        <5>. QED  BY <2>4, <4>2, Facts, NoAssistant DEF Forking
      <4>3. CASE k < Len(entries)
        <5>1. fresh \in Nat /\ k # Len(entries)
          BY <4>3, Facts
        <5> DEFINE es == prev.entries
        <5>2. /\ AbstractTree = es /\ l \in Ids(es) /\ Grown(es, fresh)
              /\ entries = Branched(es, l, fresh)
          BY <3>1, <3>2
        <5>3. /\ AbstractTree' = SubSeq(entries, 1, k) /\ AbstractLeaf' = LastId(AbstractTree')
              /\ AbstractProcess' = IF k = Len(entries) THEN "up" ELSE "down"
              /\ AbstractProcess \in {"up", "forking"}
          BY <1>2, <3>1, <3>4, <4>1, <5>1
        <5>. HIDE DEF es
        <5>. QED  BY <2>1, <3>1, <5>1, <5>2, <5>3, ForkEnds
      <4>. QED  BY <4>1, <4>2, <4>3
    <3>. QED  BY <1>1, <3>3, <3>4
  <2>. QED  BY <2>2, <2>3, <2>4, Facts
<1>. QED  BY <1>4, <1>5, <1>6

(* Memory, file, the writes of several lines, the crashes between them and  *)
(* the writes that fail: each step is one of the tree or none.              *)
THEOREM TreeImplemented == Spec => ImplementsTree
<1>1. Init => Tree!Init
  <2> SUFFICES ASSUME Init PROVE Tree!Init
    OBVIOUS
  <2>. HIDE DEF Entry, FileLine
  <2>1. task.kind = "none" /\ damage = 0 /\ process \in {"up", "down"}
    BY IdleIs DEF Init
  <2>2. IInv
    BY InitInv
  <2>3. CASE process = "up"
    <3>1. AbstractProcess = "up" /\ AbstractTree = <<>> /\ AbstractLeaf = LastId(<<>>)
      BY <2>1, <2>3, StandsFor DEF Init, LastId
    <3>. QED  BY <2>1, <3>1, SameKinds, IdleIs DEF Tree!Init
  <2>4. CASE process = "down"
    <3>1. /\ AbstractProcess = "down" /\ AbstractTree = Load(file)
          /\ AbstractLeaf = LastId(Load(file))
      BY <2>1, <2>4, StandsFor
    <3>2. Load(file) \in Seq(Entry)
      BY <2>2, Facts DEF Sound, Grown
    <3>. QED  BY <2>1, <3>1, <3>2, SameKinds DEF Tree!Init
  <2>. QED  BY <2>1, <2>3, <2>4
<1>2. IInv /\ Preparing /\ [Next]_vars => [Tree!Next]_(Tree!vars)
  <2>1. ASSUME UNCHANGED vars \/ PrepareCompaction \/ CompactionFails
        PROVE  UNCHANGED Tree!vars
    <3>1. UNCHANGED FileVars
      BY <2>1 DEF vars, FileVars, PrepareCompaction, CompactionFails
    <3>. QED  BY <3>1 DEF FileVars, Tree!vars, AbstractProcess, AbstractTree, AbstractLeaf
  <2>2. ASSUME IInv, Preparing, Next, ~PrepareCompaction, ~CompactionFails
        PROVE  [Tree!Next]_(Tree!vars)
    BY <2>2, AppendMessageTree, AppendLabelChangeTree, AppendCompactionTree,
       BranchWithSummaryTree, MoveLeafTree, NewSessionTree, ForkTree, OpenTree, WriteLineTree,
       CrashTree, TearLineTree, AppendFailsTree, CreateFailsTree DEF Next
  <2>. QED  BY <2>1, <2>2
<1>. QED  BY <1>1, <1>2, Invariance, PTL DEF Spec, ImplementsTree, Tree!Spec

-----------------------------------------------------------------------------
(* Results and their calls.                                                 *)

(* What is no message: labels, and compactions.                             *)
Unshown == {"label", "compaction"}

(* The call of the result at j: no message comes between.                   *)
Call(p, from, j) ==
    \E a \in from .. j - 1 : /\ p[a].kind = "assistant"
                             /\ \A x \in a + 1 .. j - 1 : p[x].kind \in Unshown

Safe(p, from, to) == \A j \in from .. to : p[j].kind = "result" => Call(p, from, j)

(* What is kept from f on at c: results with their calls, and a call at the *)
(* end whose result may still come.                                         *)
Awaited(p, a, c) == p[a].kind = "assistant" /\ \A x \in a + 1 .. c - 1 : p[x].kind \in Unshown

Keeps(p, f, c) == Safe(p, f, c) /\ \A a \in 1 .. c - 1 : Awaited(p, a, c) => f <= a

(* Every result has its call, and a compaction keeps both or none.          *)
Good(p) ==
    /\ Safe(p, 1, Len(p))
    /\ \A c \in 1 .. Len(p) : p[c].kind = "compaction" => Keeps(p, FirstKept(p, c), c)

(* So it is for the path of every entry.                                    *)
GoodPaths(es) == \A l \in Ids(es) : Good(Path(es, l))

LEMMA GoodNone == Good(<<>>)
<1>1. Len(<<>>) = 0
  OBVIOUS
<1>2. \A i \in 1 .. 0 : FALSE
  OBVIOUS
<1>. QED  BY <1>1, <1>2 DEF Good, Safe

LEMMA FirstKeptSame ==
    ASSUME NEW p, NEW q, NEW c \in Nat, c # 0, \A i \in 1 .. c : p[i] = q[i]
    PROVE  FirstKept(p, c) = FirstKept(q, c)
<1>1. \A i \in 1 .. c - 1 : i \in 1 .. c
  OBVIOUS
<1>2. c \in 1 .. c
  OBVIOUS
<1> DEFINE a == {i \in 1 .. c - 1 : p[i].id = p[c].ref}
           b == {i \in 1 .. c - 1 : q[i].id = q[c].ref}
<1>3. a = b
  BY <1>1, <1>2
<1>4. FirstKept(p, c) = IF a = {} THEN c ELSE FirstOf(a)
  BY DEF FirstKept, FirstOf
<1>5. FirstKept(q, c) = IF b = {} THEN c ELSE FirstOf(b)
  BY DEF FirstKept, FirstOf
<1>. HIDE DEF a, b
<1>. QED  BY <1>3, <1>4, <1>5

LEMMA SafeSame ==
    ASSUME NEW p, NEW q, NEW from \in Nat, from # 0, NEW to \in Nat,
           \A i \in 1 .. to : p[i] = q[i], Safe(p, from, to)
    PROVE  Safe(q, from, to)
<1> SUFFICES ASSUME NEW j \in from .. to, q[j].kind = "result" PROVE Call(q, from, j)
  BY DEF Safe
<1>1. j \in 1 .. to /\ j \in Nat
  OBVIOUS
<1>2. p[j].kind = "result"
  BY <1>1
<1>3. PICK a \in from .. j - 1 : /\ p[a].kind = "assistant"
                                 /\ \A x \in a + 1 .. j - 1 : p[x].kind \in Unshown
  BY <1>2 DEF Safe, Call
<1>4. a \in 1 .. to /\ \A x \in a + 1 .. j - 1 : x \in 1 .. to
  BY <1>1
<1>5. q[a].kind = "assistant" /\ \A x \in a + 1 .. j - 1 : q[x].kind \in Unshown
  BY <1>3, <1>4
<1>. QED  BY <1>5 DEF Call

LEMMA KeepsSame ==
    ASSUME NEW p, NEW q, NEW from \in Nat, from # 0, NEW c \in Nat,
           \A i \in 1 .. c : p[i] = q[i], Keeps(p, from, c)
    PROVE  Keeps(q, from, c)
<1>1. Safe(q, from, c)
  BY SafeSame DEF Keeps
<1>2. ASSUME NEW a \in 1 .. c - 1, Awaited(q, a, c) PROVE from <= a
  <2>1. a \in 1 .. c /\ \A x \in a + 1 .. c - 1 : x \in 1 .. c
    OBVIOUS
  <2>2. Awaited(p, a, c)
    BY <1>2, <2>1 DEF Awaited
  <2>. QED  BY <2>2 DEF Keeps
<1>. QED  BY <1>1, <1>2 DEF Keeps

LEMMA SafeLess ==
    ASSUME NEW p, NEW from \in Nat, NEW to \in Nat, NEW less \in Nat, less <= to,
           Safe(p, from, to)
    PROVE  Safe(p, from, less)
<1>1. \A j \in from .. less : j \in from .. to
  OBVIOUS
<1>. QED  BY <1>1 DEF Safe

LEMMA GoodPrefix ==
    ASSUME NEW p \in Seq(Entry), NEW q \in Seq(Entry), Good(p), Len(q) <= Len(p),
           \A i \in 1 .. Len(q) : q[i] = p[i]
    PROVE  Good(q)
<1>. HIDE DEF Entry
<1>1. PICK n \in Nat, m \in Nat : n = Len(p) /\ m = Len(q) /\ m <= n
  BY LenProperties
<1>2. \A i \in 1 .. m : p[i] = q[i]
  BY <1>1
<1>3. Safe(q, 1, m)
  <2>1. Safe(p, 1, n)
    BY <1>1 DEF Good
  <2>2. Safe(p, 1, m)
    BY <1>1, <2>1, SafeLess
  <2>. QED  BY <1>2, <2>2, SafeSame
<1>4. ASSUME NEW c \in 1 .. m, q[c].kind = "compaction"
      PROVE  Keeps(q, FirstKept(q, c), c)
  <2>1. c \in Nat /\ c # 0 /\ c \in 1 .. n /\ \A i \in 1 .. c : i \in 1 .. m
    BY <1>1
  <2>2. p[c].kind = "compaction" /\ \A i \in 1 .. c : p[i] = q[i]
    BY <1>2, <1>4, <2>1
  <2>3. Keeps(p, FirstKept(p, c), c)
    BY <1>1, <2>1, <2>2 DEF Good
  <2>4. FirstKept(p, c) = FirstKept(q, c)
    BY <2>1, <2>2, FirstKeptSame
  <2>5. FirstKept(p, c) \in Nat /\ FirstKept(p, c) # 0
    BY <2>1, FirstKeptIs
  <2>6. PICK f \in Nat : f = FirstKept(p, c) /\ f # 0
    BY <2>5
  <2>. QED  BY <2>1, <2>2, <2>3, <2>4, <2>6, KeepsSame
<1>. QED  BY <1>1, <1>3, <1>4 DEF Good

LEMMA GoodAppend ==
    ASSUME NEW p \in Seq(Entry), Good(p), NEW e \in Entry, NEW q, q = Append(p, e),
           NEW n \in Nat, n = Len(p) + 1,
           e.kind = "result" => Call(q, 1, n),
           e.kind = "compaction" => Keeps(q, FirstKept(q, n), n)
    PROVE  Good(q)
<1>. HIDE DEF Entry
<1>1. PICK m \in Nat : m = Len(p) /\ n = m + 1
  BY LenProperties
<1>2. Len(q) = n /\ q[n] = e /\ \A i \in 1 .. m : p[i] = q[i]
  BY <1>1, AppendProperties
<1>3. \A i \in 1 .. n : i = n \/ i \in 1 .. m
  BY <1>1
<1>4. Safe(q, 1, m)
  <2>1. Safe(p, 1, m)
    BY <1>1 DEF Good
  <2>2. \A i \in 1 .. m : p[i] = q[i]
    BY <1>2
  <2>3. PICK from \in Nat : from = 1 /\ from # 0
    OBVIOUS
  <2>. QED  BY <2>1, <2>2, <2>3, SafeSame
<1>5. Safe(q, 1, n)
  BY <1>2, <1>3, <1>4 DEF Safe
<1>6. ASSUME NEW c \in 1 .. m, q[c].kind = "compaction"
      PROVE  Keeps(q, FirstKept(q, c), c)
  <2>1. c \in Nat /\ c # 0 /\ \A i \in 1 .. c : i \in 1 .. m
    BY <1>1
  <2>2. p[c].kind = "compaction" /\ \A i \in 1 .. c : p[i] = q[i]
    BY <1>2, <1>6, <2>1
  <2>3. Keeps(p, FirstKept(p, c), c)
    BY <1>1, <2>1, <2>2 DEF Good
  <2>4. FirstKept(p, c) = FirstKept(q, c)
    BY <2>1, <2>2, FirstKeptSame
  <2>5. FirstKept(p, c) \in Nat /\ FirstKept(p, c) # 0
    BY <2>1, FirstKeptIs
  <2>6. PICK f \in Nat : f = FirstKept(p, c) /\ f # 0
    BY <2>5
  <2>. QED  BY <2>1, <2>2, <2>3, <2>4, <2>6, KeepsSame
<1>. QED  BY <1>2, <1>3, <1>5, <1>6 DEF Good

(* A compaction cuts before a call or after its results; a call at the end  *)
(* is kept.                                                                 *)

(* The cut does not come after the last call, at a, of what is no message.  *)
LEMMA CutBeforeCall ==
    ASSUME NEW p \in Seq(Entry), Good(p), CanCompact(p),
           NEW k, k = CutPoint(p, Start(p)),
           NEW j \in Nat, j <= Len(p) + 1, NEW a \in 1 .. j - 1, Awaited(p, a, j),
           j <= Len(p) => k <= j /\ p[j].kind = "result"
    PROVE  k <= a
<1>. HIDE DEF Entry
<1>1. PICK n \in Nat : n = Len(p)
  BY LenProperties
<1>2. PICK start \in Nat : start = Start(p) /\ start \in 1 .. n
  BY <1>1, StartIs
<1>3. k \in start .. n /\ k \in Nat /\ k \in 1 .. n
  <2>1. k \in start .. n
    BY <1>1, <1>2, CutIs
  <2>. QED  BY <1>2, <2>1
<1>4. a \in 1 .. n /\ a \in Nat /\ a < j
  BY <1>1
<1>5. /\ p[a].kind = "assistant" /\ \A x \in a + 1 .. j - 1 : p[x].kind \in Unshown
  BY DEF Awaited
<1>6. SUFFICES ASSUME a < k PROVE FALSE
  BY <1>3, <1>4
<1>7. CASE Cuts(p, start) = {} /\ k = start
  <2>1. PICK c : c = LatestCompaction(p)
    OBVIOUS
  <2>2. c \in 0 .. n /\ c \in Nat /\ (c # 0 => c \in 1 .. n /\ p[c].kind = "compaction")
    BY <1>1, <2>1, LatestIs
  <2>3. start = IF c = 0 THEN 1 ELSE IF FirstKept(p, c) = c THEN c + 1 ELSE FirstKept(p, c)
    BY <1>2, <2>1 DEF Start
  <2>4. c # 0
    BY <1>4, <1>6, <1>7, <2>3
  <2>5. PICK f \in Nat : f = FirstKept(p, c) /\ f \in 1 .. c
    BY <2>2, <2>4, FirstKeptIs
  <2>6. a # c
    BY <1>5, <2>2, <2>4
  <2>7. Keeps(p, f, c)
    BY <1>1, <2>2, <2>4, <2>5 DEF Good
  <2>8. a < c
    BY <1>4, <1>6, <1>7, <2>2, <2>3, <2>4, <2>5, <2>6
  <2>9. start <= c + 1 /\ f <= start
    BY <2>2, <2>3, <2>4, <2>5
  <2>10. CASE c <= j
    <3>1. a \in 1 .. c - 1 /\ \A x \in a + 1 .. c - 1 : x \in a + 1 .. j - 1
      BY <1>4, <2>2, <2>8, <2>10
    <3>2. Awaited(p, a, c)
      BY <1>5, <3>1 DEF Awaited
    <3>3. f <= a
      BY <2>7, <3>1, <3>2 DEF Keeps
    <3>. QED  BY <1>4, <1>6, <1>7, <2>3, <2>4, <2>5, <2>8, <3>3
  <2>11. CASE j < c
    <3>1. j <= n /\ p[j].kind = "result" /\ k <= j
      BY <1>1, <2>2, <2>11
    <3>2. start = f /\ j \in f .. c
      BY <1>7, <2>2, <2>3, <2>4, <2>5, <2>11, <3>1
    <3>3. Call(p, f, j)
      BY <2>7, <3>1, <3>2 DEF Keeps, Safe
    <3>4. PICK b \in f .. j - 1 : p[b].kind = "assistant"
      BY <3>3 DEF Call
    <3>5. b \in start .. n /\ CanCut(p[b])
      BY <1>1, <2>5, <3>1, <3>2, <3>4 DEF CanCut
    <3>6. b \in Cuts(p, start)
      BY <1>1, <3>5 DEF Cuts
    <3>. QED  BY <1>7, <3>6
  <2>. QED  BY <2>2, <2>10, <2>11
<1>8. CASE \E cut \in Nat : CutAt(p, start, cut)
  <2>1. PICK cut \in Nat : CutAt(p, start, cut)
    BY <1>8
  <2>2. /\ CanCut(p[cut]) /\ k <= cut /\ cut <= n
        /\ \A i \in k .. cut - 1 : p[i].kind \in {"label", "summary"}
    BY <1>1, <1>2, <2>1 DEF CutAt, Cuts
  <2>3. p[cut].kind \notin {"result", "label", "compaction"}
    BY <2>2 DEF CanCut
  <2>4. cut < j
    <3>1. CASE j <= n
      <4>1. p[j].kind = "result" /\ k <= j
        BY <1>1, <3>1
      <4>2. j # cut /\ ~(j \in k .. cut - 1)
        BY <2>2, <2>3, <4>1
      <4>. QED  BY <1>3, <2>2, <4>1, <4>2
    <3>2. CASE ~(j <= n)
      BY <1>1, <2>2, <3>2
    <3>. QED  BY <3>1, <3>2
  <2>5. cut \in a + 1 .. j - 1
    BY <1>3, <1>4, <1>6, <2>2, <2>4
  <2>6. p[cut].kind \in Unshown
    BY <1>5, <2>5
  <2>. QED  BY <2>3, <2>6 DEF Unshown
<1>. QED  BY <1>1, <1>2, <1>7, <1>8, CutIs

LEMMA CutKeeps ==
    ASSUME NEW p \in Seq(Entry), Good(p), CanCompact(p),
           NEW k, k = CutPoint(p, Start(p)), NEW c, c = Len(p) + 1
    PROVE  /\ Safe(p, k, Len(p)) /\ k \in 1 .. Len(p)
           /\ \A a \in 1 .. c - 1 : Awaited(p, a, c) => k <= a
<1>. HIDE DEF Entry
<1>1. PICK n \in Nat : n = Len(p)
  BY LenProperties
<1>2. PICK start \in Nat : start = Start(p) /\ start \in 1 .. n
  BY <1>1, StartIs
<1>3. k \in start .. n /\ k \in Nat /\ k \in 1 .. n
  <2>1. k \in start .. n
    BY <1>1, <1>2, CutIs
  <2>. QED  BY <1>2, <2>1
<1>4. ASSUME NEW j \in k .. n, p[j].kind = "result" PROVE Call(p, k, j)
  <2>1. j \in 1 .. n /\ j \in Nat /\ j <= Len(p) + 1 /\ k <= j
    BY <1>1, <1>3
  <2>2. PICK a \in 1 .. j - 1 : /\ p[a].kind = "assistant"
                                /\ \A x \in a + 1 .. j - 1 : p[x].kind \in Unshown
    BY <1>1, <1>4, <2>1 DEF Good, Safe, Call
  <2>3. Awaited(p, a, j)
    BY <2>2 DEF Awaited
  <2>4. k <= a
    BY <1>4, <2>1, <2>3, CutBeforeCall
  <2>5. a \in k .. j - 1
    BY <1>3, <2>1, <2>4
  <2>. QED  BY <2>2, <2>5 DEF Call
<1>5. ASSUME NEW a \in 1 .. c - 1, Awaited(p, a, c) PROVE k <= a
  <2>1. c \in Nat /\ c <= Len(p) + 1 /\ ~(c <= Len(p))
    BY <1>1
  <2>. QED  BY <1>5, <2>1, CutBeforeCall
<1>. QED  BY <1>1, <1>3, <1>4, <1>5 DEF Safe

LEMMA GoodPathAt ==
    ASSUME NEW es, GoodPaths(es), NEW l PROVE Good(Path(es, l))
BY PathOutside, GoodNone DEF GoodPaths

LEMMA PathsAppend ==
    ASSUME NEW n \in Nat, NEW es, Grown(es, n), NEW e \in Entry, e.id = n, e.parent < n,
           GoodPaths(es), Good(Append(Path(es, e.parent), e))
    PROVE  GoodPaths(Append(es, e))
<1>. HIDE DEF Entry
<1> DEFINE fs == Append(es, e)
<1>1. /\ Ids(fs) = Ids(es) \cup {n} /\ \A l \in Ids(es) : Path(fs, l) = Path(es, l)
      /\ Path(fs, n) = IF e.parent \in Ids(es) THEN Append(Path(es, e.parent), e) ELSE <<e>>
  BY GrownAppend
<1>2. e.parent \notin Ids(es) => Append(Path(es, e.parent), e) = <<e>>
  <2>1. Append(<<>>, e) = <<e>>
    OBVIOUS
  <2>2. e.parent \notin Ids(es) => Path(es, e.parent) = <<>>
    BY PathOutside
  <2>. QED  BY <2>1, <2>2
<1>. HIDE DEF fs
<1>3. Good(Path(fs, n))
  BY <1>1, <1>2
<1>4. GoodPaths(fs)
  BY <1>1, <1>3 DEF GoodPaths
<1>. QED  BY <1>4 DEF fs

LEMMA PathsPrefix ==
    ASSUME NEW n \in Nat, NEW es, Grown(es, n), NEW k \in 0 .. Len(es), GoodPaths(es)
    PROVE  GoodPaths(SubSeq(es, 1, k))
<1> DEFINE fs == SubSeq(es, 1, k)
<1>1. \A l \in Ids(fs) : l \in Ids(es) /\ Path(es, l) = Path(fs, l)
  BY GrownPrefix
<1>. HIDE DEF fs
<1>2. GoodPaths(fs)
  BY <1>1 DEF GoodPaths
<1>. QED  BY <1>2 DEF fs

LEMMA PathsNone == GoodPaths(<<>>)
<1>1. Ids(<<>>) = {}
  BY GrownNone
<1>. QED  BY <1>1 DEF GoodPaths

(* The last message.                                                        *)
LEMMA LastShown ==
    ASSUME NEW p \in Seq(Entry), NEW o, o = OfKind(p, ShownKinds), o # <<>>
    PROVE  \E a \in 1 .. Len(p) : /\ p[a] = o[Len(o)]
                                  /\ \A x \in a + 1 .. Len(p) : p[x].kind \in Unshown
<1> DEFINE D == KindAt(p, ShownKinds)
<1>. HIDE DEF Entry
<1>1. PICK n \in Nat : n = Len(p)
  BY LenProperties
<1>2. \A x \in 1 .. n : x \in D \/ p[x].kind \in Unshown
  <2>1. \A x \in 1 .. n : p[x].kind \in Kinds
    BY <1>1, EntryIs
  <2>2. Kinds = ShownKinds \cup Unshown
    BY DEF Kinds, Unshown
  <2>. QED  BY <1>1, <2>1, <2>2 DEF KindAt
<1>3. D \subseteq 1 .. n
  BY <1>1 DEF KindAt
<1>. HIDE DEF D
<1>4. PICK P : Stands(o, P, p, D)
  BY OfKindIs DEF D
<1>5. o \in Seq(Entry)
  BY OfKindIs
<1>6. PICK m \in Nat : m = Len(o) /\ m \in 1 .. m
  <2>1. Len(o) \in Nat /\ Len(o) # 0
    BY <1>5, EmptySeq
  <2>. QED  BY <2>1
<1>7. /\ \A k \in 1 .. m : P[k] \in D /\ o[k] = p[P[k]]
      /\ \A d \in D : \E k \in 1 .. m : P[k] = d
      /\ \A i, j \in 1 .. m : i < j => P[i] < P[j]
  BY <1>4, <1>6 DEF Stands, Places
<1>8. PICK a \in 1 .. n : a = P[m] /\ p[a] = o[m]
  BY <1>3, <1>6, <1>7
<1>9. ASSUME NEW x \in a + 1 .. n, p[x].kind \notin Unshown PROVE FALSE
  <2>1. x \in 1 .. n /\ a < x
    BY <1>1, <1>8
  <2>2. x \in D
    BY <1>2, <1>9, <2>1
  <2>3. PICK k \in 1 .. m : P[k] = x
    BY <1>7, <2>2
  <2>4. k = m \/ k < m
    BY <1>6
  <2>5. k < m => P[k] < P[m]
    BY <1>6, <1>7
  <2>. QED  BY <1>8, <2>1, <2>3, <2>4, <2>5
<1>. QED  BY <1>1, <1>6, <1>8, <1>9

(* Up to d, the end of what it was prepared for, a compaction that keeps    *)
(* from k on keeps results with their calls, and a call at the end.         *)
KeepsAt(p, k, d) ==
    Safe(p, k, d) /\ \A a \in 1 .. (d + 1) - 1 : Awaited(p, a, d + 1) => k <= a

Prepares(p, ref) ==
    \E d \in 1 .. Len(p) : \E k \in 1 .. d : ref = p[k].id /\ KeepsAt(p, k, d)

(* What may be put after a path.                                            *)
LEMMA NewPathGood ==
    ASSUME NEW p \in Seq(Entry), Good(p), NEW e \in Entry,
           \A i, j \in 1 .. Len(p) : i < j => p[i].id < p[j].id,
           e.kind = "result" =>
               LET o == OfKind(p, ShownKinds)
               IN  o # <<>> /\ o[Len(o)].kind = "assistant",
           e.kind = "compaction" => Prepares(p, e.ref)
    PROVE  Good(Append(p, e))
<1> DEFINE q == Append(p, e)
<1>. HIDE DEF Entry
<1>1. PICK m \in Nat, n \in Nat : m = Len(p) /\ n = m + 1
  <2>1. Len(p) \in Nat /\ Len(p) + 1 \in Nat
    BY LenProperties
  <2>. QED  BY <2>1
<1>2. q[n] = e /\ \A i \in 1 .. m : q[i] = p[i]
  BY <1>1, AppendProperties
<1>. HIDE DEF q
<1>3. ASSUME e.kind = "result" PROVE Call(q, 1, n)
  <2> DEFINE o == OfKind(p, ShownKinds)
  <2>1. o # <<>> /\ o[Len(o)].kind = "assistant"
    BY <1>3
  <2>. HIDE DEF o
  <2>2. PICK a \in 1 .. Len(p) : /\ p[a] = o[Len(o)]
                                 /\ \A x \in a + 1 .. Len(p) : p[x].kind \in Unshown
    BY <2>1, LastShown DEF o
  <2>3. a \in 1 .. n - 1 /\ a \in 1 .. m
        /\ \A x \in a + 1 .. n - 1 : x \in 1 .. m /\ x \in a + 1 .. m
    BY <1>1
  <2>4. q[a].kind = "assistant" /\ \A x \in a + 1 .. n - 1 : q[x].kind \in Unshown
    BY <1>1, <1>2, <2>1, <2>2, <2>3
  <2>. QED  BY <2>3, <2>4 DEF Call
<1>4. ASSUME e.kind = "compaction" PROVE Keeps(q, FirstKept(q, n), n)
  <2>0. PICK d \in 1 .. m : \E k \in 1 .. d : e.ref = p[k].id /\ KeepsAt(p, k, d)
    BY <1>1, <1>4 DEF Prepares
  <2>1. PICK k \in 1 .. d : e.ref = p[k].id /\ KeepsAt(p, k, d)
    BY <2>0
  <2>2. d \in Nat /\ k \in Nat /\ k \in 1 .. m
    BY <1>1, <2>0, <2>1
  <2>4. n \in Nat /\ n # 0 /\ n - 1 = m /\ k \in 1 .. n - 1
    BY <1>1, <2>2
  <2>5. PICK f \in Nat : f = FirstKept(q, n) /\ f \in 1 .. n /\ f <= k /\ f # n
    <3>1. q[k].id = q[n].ref
      BY <1>2, <2>1, <2>2
    <3>2. FirstKept(q, n) \in 1 .. n /\ FirstKept(q, n) \in Nat
      BY <2>4, FirstKeptIs
    <3>3. FirstKept(q, n) <= k /\ FirstKept(q, n) # n
      BY <2>4, <3>1, FirstKeptIs
    <3>. QED  BY <3>2, <3>3
  <2>6. q[f].id = q[n].ref
    BY <2>4, <2>5, FirstKeptIs
  <2>7. f \in 1 .. m
    BY <1>1, <2>5
  <2>8. p[f].id = p[k].id
    BY <1>2, <2>1, <2>6, <2>7
  <2>9. f = k
    <3>1. ~(f < k)
      <4>1. p[f].id \in Nat
        BY <1>1, <2>7, EntryIs
      <4>2. f < k => p[f].id < p[k].id
        BY <1>1, <2>2, <2>7
      <4>. QED  BY <2>8, <4>1, <4>2
    <3>. QED  BY <2>2, <2>5, <3>1
  <2>10. ASSUME NEW j \in 1 .. n, NEW a \in 1 .. j - 1, Awaited(q, a, j), k <= j,
                j \in 1 .. d => q[j].kind = "result"
         PROVE  k <= a
    <3>1. j \in Nat /\ a \in Nat /\ a \in 1 .. m /\ a < j
      BY <1>1
    <3>2. \A x \in a + 1 .. j - 1 : x \in 1 .. m
      BY <1>1
    <3>3. Awaited(p, a, j)
      BY <1>2, <2>10, <3>1, <3>2 DEF Awaited
    <3>4. CASE j <= d
      <4>1. j \in 1 .. d /\ j \in k .. d /\ j \in 1 .. m
        BY <2>1, <2>2, <2>10, <3>1, <3>4
      <4>2. p[j].kind = "result" /\ Safe(p, k, d)
        BY <1>2, <2>1, <2>10, <4>1 DEF KeepsAt
      <4>3. PICK b \in k .. j - 1 : p[b].kind = "assistant"
        BY <4>1, <4>2 DEF Safe, Call
      <4>4. ~(a < b)
        <5>1. a < b => b \in a + 1 .. j - 1
          BY <2>2, <3>1, <4>1
        <5>2. b \in a + 1 .. j - 1 => p[b].kind \in Unshown
          BY <3>3 DEF Awaited
        <5>. QED  BY <4>3, <5>1, <5>2 DEF Unshown
      <4>. QED  BY <2>2, <3>1, <4>1, <4>4
    <3>5. CASE d < j /\ a <= d
      <4>1. a \in 1 .. (d + 1) - 1 /\ \A x \in a + 1 .. (d + 1) - 1 : x \in a + 1 .. j - 1
        BY <2>2, <3>1, <3>5
      <4>2. Awaited(p, a, d + 1)
        BY <3>3, <4>1 DEF Awaited
      <4>. QED  BY <2>1, <4>1, <4>2 DEF KeepsAt
    <3>6. CASE d < a
      BY <2>1, <2>2, <3>1, <3>6
    <3>. QED  BY <2>2, <3>1, <3>4, <3>5, <3>6
  <2>11. ASSUME NEW j \in k .. n, q[j].kind = "result" PROVE Call(q, k, j)
    <3>1. j # n /\ j \in 1 .. m /\ j \in Nat
      BY <1>1, <1>2, <1>4, <2>2, <2>11
    <3>2. p[j].kind = "result" /\ Safe(p, 1, m)
      BY <1>1, <1>2, <2>11, <3>1 DEF Good
    <3>3. PICK a \in 1 .. j - 1 : /\ p[a].kind = "assistant"
                                  /\ \A x \in a + 1 .. j - 1 : p[x].kind \in Unshown
      BY <3>1, <3>2 DEF Safe, Call
    <3>4. a \in 1 .. m /\ \A x \in a + 1 .. j - 1 : x \in 1 .. m
      BY <1>1, <3>1
    <3>5. q[a].kind = "assistant" /\ \A x \in a + 1 .. j - 1 : q[x].kind \in Unshown
      BY <1>2, <3>3, <3>4
    <3>6. Awaited(q, a, j)
      BY <3>5 DEF Awaited
    <3>7. j \in 1 .. n /\ k <= j
      BY <1>1, <2>2, <3>1
    <3>8. k <= a
      BY <2>10, <2>11, <3>6, <3>7
    <3>9. a \in k .. j - 1
      BY <2>2, <3>1, <3>8
    <3>. QED  BY <3>5, <3>9 DEF Call
  <2>12. ASSUME NEW a \in 1 .. n - 1, Awaited(q, a, n) PROVE k <= a
    <3>1. n \in 1 .. n /\ k <= n /\ ~(n \in 1 .. d)
      BY <1>1, <2>1, <2>2
    <3>. QED  BY <2>10, <2>12, <3>1
  <2>13. Keeps(q, k, n)
    BY <2>11, <2>12 DEF Keeps, Safe
  <2>. QED  BY <2>5, <2>9, <2>13
<1>. QED  BY <1>1, <1>3, <1>4, GoodAppend DEF q

LEMMA SubSeqNext ==
    ASSUME NEW S, NEW s \in Seq(S), NEW k \in Nat, NEW i \in Nat, i = k + 1, i <= Len(s)
    PROVE  SubSeq(s, 1, i) = Append(SubSeq(s, 1, k), s[i]) /\ SubSeq(s, 1, k) \in Seq(S)
<1> DEFINE a == SubSeq(s, 1, k)
           b == SubSeq(s, 1, i)
           c == Append(a, s[i])
<1>1. k \in 0 .. Len(s) /\ i \in 0 .. Len(s) /\ i \in 1 .. Len(s)
  BY LenProperties
<1>2. a \in Seq(S) /\ Len(a) = k /\ \A j \in 1 .. k : a[j] = s[j]
  BY <1>1, PrefixIs
<1>3. b \in Seq(S) /\ Len(b) = i /\ \A j \in 1 .. i : b[j] = s[j]
  BY <1>1, PrefixIs
<1>4. s[i] \in S
  BY <1>1, ElementOfSeq
<1>. HIDE DEF a, b
<1>5. c \in Seq(S) /\ Len(c) = i /\ c[i] = s[i] /\ \A j \in 1 .. k : c[j] = a[j]
  <2>1. /\ c \in Seq(S) /\ Len(c) = Len(a) + 1 /\ c[Len(a) + 1] = s[i]
        /\ \A j \in 1 .. Len(a) : c[j] = a[j]
    BY <1>2, <1>4, AppendProperties
  <2>. HIDE DEF c
  <2>. QED  BY <1>2, <2>1
<1>. HIDE DEF c
<1>6. \A j \in 1 .. i : j = i \/ j \in 1 .. k
  OBVIOUS
<1>7. \A j \in 1 .. i : b[j] = c[j]
  BY <1>2, <1>3, <1>5, <1>6
<1>8. b = c
  BY <1>3, <1>5, <1>7, SeqEqual
<1>. QED  BY <1>2, <1>8 DEF a, b, c

(* In a forked session the path of an entry is all that is before it.       *)
LEMMA ChainPaths ==
    ASSUME NEW n \in Nat, NEW es, Grown(es, n), Chain(es)
    PROVE  \A i \in 1 .. Len(es) : Path(es, es[i].id) = SubSeq(es, 1, i)
<1>. HIDE DEF Entry
<1>1. es \in Seq(Entry)
  BY DEF Grown
<1>2. PICK m \in Nat : m = Len(es)
  BY <1>1, LenProperties
<1> DEFINE Bad == {i \in 1 .. m : Path(es, es[i].id) # SubSeq(es, 1, i)}
<1>3. SUFFICES ASSUME Bad # {} PROVE FALSE
  BY <1>2
<1>4. PICK i \in Bad : \A j \in Bad : i <= j
  <2>1. Bad \subseteq Nat
    OBVIOUS
  <2>. HIDE DEF Bad
  <2>. QED  BY <1>3, <2>1, FirstIs
<1>5. i \in 1 .. m /\ Path(es, es[i].id) # SubSeq(es, 1, i)
  BY <1>4
<1>6. PICK k \in Nat : i = k + 1 /\ k <= m /\ i \in Nat
  <2>1. i - 1 \in Nat /\ i = (i - 1) + 1 /\ i - 1 <= m
    BY <1>5
  <2>. QED  BY <1>5, <2>1
<1> DEFINE l == es[i].id
<1>7. At(es, l) = es[i] /\ l \in Ids(es)
  BY <1>1, <1>2, <1>5, AtIs, IdsAre
<1>8. Path(es, l) = IF es[i].parent \in Ids(es)
                      THEN Append(Path(es, es[i].parent), es[i]) ELSE <<es[i]>>
  BY <1>7, PathStep
<1>9. SubSeq(es, 1, i) = Append(SubSeq(es, 1, k), es[i])
  BY <1>1, <1>2, <1>5, <1>6, SubSeqNext
<1>10. CASE k = 0
  <2>1. es[i].parent = Root
    BY <1>2, <1>6, <1>10 DEF Chain
  <2>2. Root \notin Ids(es)
    <3> SUFFICES ASSUME Root \in Ids(es) PROVE FALSE
      OBVIOUS
    <3>1. Root \in 1 .. n - 1
      BY AtIn
    <3>. QED  BY <3>1 DEF Root
  <2>3. SubSeq(es, 1, k) = <<>>
    <3>1. 0 \in 0 .. Len(es)
      BY <1>2
    <3>. QED  BY <1>1, <1>10, <3>1, PrefixIs, EmptySeq
  <2>4. Append(<<>>, es[i]) = <<es[i]>>
    OBVIOUS
  <2>. QED  BY <1>5, <1>8, <1>9, <2>1, <2>2, <2>3, <2>4
<1>11. CASE k # 0
  <2>1. k \in 1 .. m /\ k \in 1 .. Len(es) - 1 /\ k < i
    BY <1>2, <1>5, <1>6, <1>11
  <2>2. es[i].parent = es[k].id
    BY <1>6, <2>1 DEF Chain
  <2>3. es[k].id \in Ids(es)
    BY <1>1, <1>2, <2>1, IdsAre
  <2>4. k \notin Bad
    BY <1>4, <1>6, <2>1
  <2>5. Path(es, es[k].id) = SubSeq(es, 1, k)
    BY <2>1, <2>4
  <2>. QED  BY <1>5, <1>8, <1>9, <2>2, <2>3, <2>5
<1>. QED  BY <1>10, <1>11

(* What a fork takes over: the path without its labels, at places P.        *)
TakenOver(new, p, P, m) ==
    /\ \A i \in 1 .. m : P[i] \in 1 .. Len(p) /\ p[P[i]].kind # "label"
    /\ \A i \in 1 .. m : /\ new[i].id = p[P[i]].id /\ new[i].kind = p[P[i]].kind
                         /\ new[i].ref = p[P[i]].ref
    /\ \A x \in 1 .. Len(p) : p[x].kind # "label" => \E i \in 1 .. m : P[i] = x
    /\ \A i, j \in 1 .. m : i < j => P[i] < P[j]
    /\ \A i \in 1 .. Len(new) : i \in 1 .. m \/ new[i].kind = "label"

(* new begins with what is kept, and goes on with labels.                   *)
Follows(new, kept, m) ==
    /\ m <= Len(new)
    /\ \A i \in 1 .. m : new[i].id = kept[i].id /\ new[i].kind = kept[i].kind
                         /\ new[i].ref = kept[i].ref
    /\ \A i \in 1 .. Len(new) : i \in 1 .. m \/ new[i].kind = "label"

LEMMA BranchedFields ==
    ASSUME NEW n \in Nat, NEW es, Grown(es, n), NEW l \in Ids(es),
           NEW new, new = Branched(es, l, n), NEW kept, kept = Kept(es, l),
           NEW h, h = Len(Labelled(es, kept))
    PROVE  /\ new \in Seq(Entry) /\ h \in Nat /\ Chain(new) /\ Grown(new, n + h)
           /\ kept \in Seq(Entry) /\ Follows(new, kept, Len(kept))
<1>. HIDE DEF Entry
<1>1. n <= n
  OBVIOUS
<1>2. LET b == Branched(es, l, n)
          k == Kept(es, l)
          g == Len(Labelled(es, k))
      IN  /\ b \in Seq(Entry) /\ Len(b) = Len(k) + g /\ g \in Nat
          /\ Grown(b, n + g) /\ Chain(b)
          /\ \A i \in 1 .. Len(k) :
                b[i].id = k[i].id /\ b[i].kind = k[i].kind /\ b[i].ref = k[i].ref
          /\ \A i \in 1 .. g : b[Len(k) + i].id = n + i - 1 /\ b[Len(k) + i].kind = "label"
          /\ Cardinality(Ids(b) \ Ids(es)) = g
  BY <1>1, BranchedIs, Zenon
<1>3. /\ new \in Seq(Entry) /\ Len(new) = Len(kept) + h /\ h \in Nat
      /\ Grown(new, n + h) /\ Chain(new)
  BY <1>2, Zenon
<1>4. \A i \in 1 .. Len(kept) :
         new[i].id = kept[i].id /\ new[i].kind = kept[i].kind /\ new[i].ref = kept[i].ref
  BY <1>2, Zenon
<1>5. \A i \in 1 .. h : new[Len(kept) + i].kind = "label"
  BY <1>2, Zenon
<1>6. kept \in Seq(Entry)
  BY KeptIs
<1>7. PICK m : m = Len(kept)
  OBVIOUS
<1>8. /\ m \in Nat /\ Len(new) = m + h
      /\ \A i \in 1 .. m : new[i].id = kept[i].id /\ new[i].kind = kept[i].kind
                           /\ new[i].ref = kept[i].ref
      /\ \A i \in 1 .. h : new[m + i].kind = "label"
  BY <1>3, <1>4, <1>5, <1>6, <1>7, LenProperties
<1>9. \A i \in 1 .. m + h : i \in 1 .. m \/ (i - m \in 1 .. h /\ i = m + (i - m))
  BY <1>3, <1>8
<1>10. m <= Len(new)
  BY <1>3, <1>8
<1>11. ASSUME NEW i \in 1 .. Len(new), i \notin 1 .. m PROVE new[i].kind = "label"
  <2>1. i \in 1 .. m + h
    BY <1>8
  <2>2. PICK j \in 1 .. h : i = m + j
    BY <1>9, <1>11, <2>1
  <2>. QED  BY <1>8, <2>2
<1>12. Follows(new, kept, m)
  BY <1>8, <1>10, <1>11 DEF Follows
<1>. QED  BY <1>3, <1>6, <1>7, <1>12

LEMMA KeptPlaces ==
    ASSUME NEW n \in Nat, NEW es, Grown(es, n), NEW l \in Ids(es),
           NEW new, new = Branched(es, l, n),
           NEW p, p = Path(es, l)
    PROVE  \E P : \E m \in Nat :
              m <= Len(new) /\ m = Len(Kept(es, l)) /\ TakenOver(new, p, P, m)
<1> DEFINE K == Kinds \ {"label"}
           D == KindAt(p, K)
<1>. HIDE DEF Entry
<1>0. PICK kept, h : kept = Kept(es, l) /\ h = Len(Labelled(es, kept))
  OBVIOUS
<1>1. p \in Seq(Entry)
  BY PathIs
<1>2. \A x \in 1 .. Len(p) : x \in D <=> p[x].kind # "label"
  <2>1. \A x \in 1 .. Len(p) : p[x].kind \in Kinds
    BY <1>1, EntryIs
  <2>. QED  BY <2>1 DEF KindAt
<1>3. D \subseteq 1 .. Len(p)
  BY DEF KindAt
<1>. HIDE DEF K, D
<1>4. PICK P : Stands(OfKind(p, K), P, p, D)
  BY <1>1, OfKindIs DEF D
<1>5. kept = OfKind(p, K)
  BY <1>0 DEF Kept, K
<1>10. kept \in Seq(Entry) /\ Follows(new, kept, Len(kept))
  BY <1>0, BranchedFields
<1>11. PICK m \in Nat : m = Len(kept) /\ Follows(new, kept, m)
  BY <1>10, LenProperties
<1>12. /\ \A k \in 1 .. m : P[k] \in D
       /\ \A k \in 1 .. m : kept[k] = p[P[k]]
       /\ \A d \in D : \E k \in 1 .. m : P[k] = d
       /\ \A i, j \in 1 .. m : i < j => P[i] < P[j]
  BY <1>4, <1>5, <1>11 DEF Stands, Places
<1>13. \A i \in 1 .. m : P[i] \in 1 .. Len(p) /\ p[P[i]].kind # "label"
  BY <1>2, <1>3, <1>12
<1>14. \A i \in 1 .. m : /\ new[i].id = p[P[i]].id /\ new[i].kind = p[P[i]].kind
                         /\ new[i].ref = p[P[i]].ref
  BY <1>11, <1>12 DEF Follows
<1>15. \A x \in 1 .. Len(p) : p[x].kind # "label" => \E i \in 1 .. m : P[i] = x
  BY <1>2, <1>12
<1>16. m <= Len(new)
  BY <1>11 DEF Follows
<1>17. \A i \in 1 .. Len(new) : i \in 1 .. m \/ new[i].kind = "label"
  BY <1>11 DEF Follows
<1>18. TakenOver(new, p, P, m)
  BY <1>12, <1>13, <1>14, <1>15, <1>17 DEF TakenOver
<1>. QED  BY <1>0, <1>11, <1>16, <1>18


LEMMA TakenSafe ==
    ASSUME NEW p \in Seq(Entry), NEW new, NEW P, NEW m \in Nat, TakenOver(new, p, P, m),
           NEW from \in Nat, from # 0, NEW to \in Nat, NEW f \in Nat, NEW t \in Nat,
           to <= m, from <= to => P[from] = f /\ P[to] = t, Safe(p, f, t)
    PROVE  Safe(new, from, to)
<1>. HIDE DEF Entry
<1> SUFFICES ASSUME NEW j \in from .. to, new[j].kind = "result" PROVE Call(new, from, j)
  BY DEF Safe
<1>1. PICK n \in Nat : n = Len(p)
  BY LenProperties
<1>2. j \in 1 .. m /\ from \in 1 .. m /\ to \in 1 .. m /\ from <= to /\ j \in Nat
  OBVIOUS
<1>3. /\ \A i \in 1 .. m : P[i] \in 1 .. n /\ p[P[i]].kind # "label"
      /\ \A i \in 1 .. m : new[i].kind = p[P[i]].kind
      /\ \A x \in 1 .. n : p[x].kind # "label" => \E i \in 1 .. m : P[i] = x
      /\ \A i, k \in 1 .. m : i < k => P[i] < P[k]
  BY <1>1 DEF TakenOver
<1>4. PICK d \in 1 .. n : d = P[j] /\ d \in f .. t
  <2>1. P[j] \in 1 .. n /\ P[from] = f /\ P[to] = t /\ f \in 1 .. n /\ t \in 1 .. n
    BY <1>2, <1>3
  <2>2. from < j => f < P[j]
    BY <1>2, <1>3, <2>1
  <2>3. j < to => P[j] < t
    BY <1>2, <1>3, <2>1
  <2>4. from < j \/ from = j
    BY <1>2
  <2>5. j < to \/ j = to
    BY <1>2
  <2>6. P[j] \in f .. t
    BY <2>1, <2>2, <2>3, <2>4, <2>5
  <2>. QED  BY <2>1, <2>6
<1>5. p[d].kind = "result"
  BY <1>2, <1>3, <1>4
<1>6. PICK a \in f .. d - 1 : /\ p[a].kind = "assistant"
                              /\ \A x \in a + 1 .. d - 1 : p[x].kind \in Unshown
  BY <1>4, <1>5 DEF Safe, Call
<1>7. a \in 1 .. n /\ a < d /\ f <= a
  <2>1. f \in 1 .. n
    BY <1>2, <1>3
  <2>. QED  BY <1>4, <2>1
<1>8. PICK b \in 1 .. m : P[b] = a
  BY <1>3, <1>6, <1>7
<1>9. b < j /\ from <= b
  <2>1. j < b => d < a
    BY <1>2, <1>3, <1>4, <1>8
  <2>2. b # j
    BY <1>4, <1>7, <1>8
  <2>3. b < from => a < f
    BY <1>2, <1>3, <1>8
  <2>. QED  BY <1>2, <1>4, <1>7, <2>1, <2>2, <2>3
<1>10. b \in from .. j - 1
  BY <1>2, <1>9
<1>11. new[b].kind = "assistant"
  BY <1>3, <1>6, <1>8
<1>12. ASSUME NEW x \in b + 1 .. j - 1 PROVE new[x].kind \in Unshown
  <2>1. x \in 1 .. m /\ b < x /\ x < j
    BY <1>2, <1>9
  <2>2. P[x] \in 1 .. n /\ a < P[x] /\ P[x] < d
    BY <1>2, <1>3, <1>4, <1>8, <2>1
  <2>3. P[x] \in a + 1 .. d - 1
    BY <1>4, <1>7, <2>2
  <2>. QED  BY <1>3, <1>6, <2>1, <2>3
<1>. QED  BY <1>10, <1>11, <1>12 DEF Call

(* The first entry that a compaction keeps, in the fork and on the path.    *)
LEMMA TakenFirst ==
    ASSUME NEW p \in Seq(Entry), \A i, j \in 1 .. Len(p) : i < j => p[i].id < p[j].id,
           NEW new, NEW P, NEW m \in Nat, TakenOver(new, p, P, m),
           NEW c \in 1 .. m, new[c].kind = "compaction", FirstKept(new, c) # c
    PROVE  /\ P[c] \in 1 .. Len(p) /\ P[c] \in Nat /\ P[c] # 0
           /\ P[FirstKept(new, c)] = FirstKept(p, P[c]) /\ FirstKept(p, P[c]) # P[c]
           /\ FirstKept(new, c) \in 1 .. c - 1
<1>. HIDE DEF Entry
<1>1. PICK n \in Nat : n = Len(p)
  BY LenProperties
<1>2. /\ \A i \in 1 .. m : P[i] \in 1 .. n
      /\ \A i \in 1 .. m : new[i].id = p[P[i]].id /\ new[i].ref = p[P[i]].ref
      /\ \A i, k \in 1 .. m : i < k => P[i] < P[k]
  BY <1>1 DEF TakenOver
<1>3. c \in Nat /\ c # 0
  OBVIOUS
<1>4. PICK f \in Nat : f = FirstKept(new, c) /\ f \in 1 .. c /\ f # c
                       /\ new[f].id = new[c].ref
  BY <1>3, FirstKeptIs
<1>5. f \in 1 .. c - 1 /\ f \in 1 .. m /\ f < c
  BY <1>4
<1>6. PICK x \in 1 .. n, d \in 1 .. n : x = P[f] /\ d = P[c] /\ x < d
  BY <1>2, <1>5
<1>7. p[x].id = p[d].ref
  BY <1>2, <1>4, <1>5, <1>6
<1>8. d \in Nat /\ d # 0 /\ x \in 1 .. d - 1
  BY <1>6
<1>9. PICK g \in Nat : g = FirstKept(p, d) /\ g \in 1 .. d /\ g <= x /\ g # d
                       /\ p[g].id = p[d].ref
  BY <1>7, <1>8, FirstKeptIs
<1>10. g = x
  <2>1. g \in 1 .. n
    BY <1>8, <1>9, <1>6
  <2>2. p[g].id = p[x].id /\ p[x].id \in Nat
    BY <1>1, <1>7, <1>9, EntryIs
  <2>3. g < x => p[g].id < p[x].id
    BY <1>1, <2>1
  <2>. QED  BY <1>6, <1>9, <2>1, <2>2, <2>3
<1>. QED  BY <1>1, <1>4, <1>5, <1>6, <1>8, <1>9, <1>10

LEMMA ForkGood ==
    ASSUME NEW n \in Nat, NEW es, Grown(es, n), NEW l \in Ids(es), GoodPaths(es),
           ~KeepsFromLabel(Path(es, l)), NEW new, new = Branched(es, l, n)
    PROVE  GoodPaths(new)
<1>. HIDE DEF Entry
<1>1. PICK p : p = Path(es, l)
  OBVIOUS
<1>2. /\ p \in Seq(Entry) /\ Good(p)
      /\ \A i, j \in 1 .. Len(p) : i < j => p[i].id < p[j].id
  <2>1. Shape(es, p, l)
    BY <1>1, PathShape
  <2>. QED  BY <1>1, <2>1, GoodPathAt DEF Shape
<1>3. PICK P : \E m \in Nat : m <= Len(new) /\ TakenOver(new, p, P, m)
  BY <1>1, KeptPlaces
<1>4. PICK m \in Nat : m <= Len(new) /\ TakenOver(new, p, P, m)
  BY <1>3
<1>5. PICK h : h = Len(Labelled(es, Kept(es, l)))
  OBVIOUS
<1>6. new \in Seq(Entry) /\ h \in Nat /\ Grown(new, n + h) /\ Chain(new)
  <2>1. PICK kept : kept = Kept(es, l) /\ h = Len(Labelled(es, kept))
    BY <1>5
  <2>. QED  BY <2>1, BranchedFields
<1>7. PICK z \in Nat : z = Len(new)
  BY <1>6, LenProperties
<1>8. PICK k \in Nat : k = Len(p)
  BY <1>2, LenProperties
<1>9. /\ \A i \in 1 .. m : P[i] \in 1 .. k /\ p[P[i]].kind # "label"
      /\ \A i \in 1 .. m : new[i].kind = p[P[i]].kind
      /\ \A i \in 1 .. z : i \in 1 .. m \/ new[i].kind = "label"
  BY <1>4, <1>7, <1>8 DEF TakenOver
<1>10. Safe(new, 1, z)
  <2>1. Safe(new, 1, m)
    <3>1. CASE m = 0
      BY <3>1 DEF Safe
    <3>2. CASE m # 0
      <4>1. 1 \in 1 .. m /\ m \in 1 .. m /\ P[1] \in 1 .. k /\ P[m] \in 1 .. k
        BY <1>9, <3>2
      <4>2. PICK f \in Nat, t \in Nat, from \in Nat :
               f = P[1] /\ t = P[m] /\ f # 0 /\ t <= k /\ from = 1 /\ from # 0
        BY <4>1
      <4>3. Safe(p, 1, k)
        BY <1>2, <1>8 DEF Good
      <4>4. Safe(p, f, t)
        <5>1. SUFFICES ASSUME NEW j \in f .. t, p[j].kind = "result" PROVE Call(p, f, j)
          BY DEF Safe
        <5>2. j \in 1 .. k /\ j \in Nat
          BY <4>1, <4>2
        <5>3. PICK a \in 1 .. j - 1 : /\ p[a].kind = "assistant"
                                      /\ \A x \in a + 1 .. j - 1 : p[x].kind \in Unshown
          BY <4>3, <5>1, <5>2 DEF Safe, Call
        <5>4. f <= a
          <6>1. a \in 1 .. k
            BY <5>2
          <6>2. PICK i \in 1 .. m : P[i] = a
            BY <1>4, <1>8, <5>3, <6>1 DEF TakenOver
          <6>3. i = 1 \/ 1 < i
            OBVIOUS
          <6>4. 1 < i => P[1] < P[i]
            BY <1>4, <4>1 DEF TakenOver
          <6>. QED  BY <4>2, <6>1, <6>2, <6>3, <6>4
        <5>5. a \in f .. j - 1
          BY <5>2, <5>4
        <5>. QED  BY <5>3, <5>5 DEF Call
      <4>5. from <= m => P[from] = f /\ P[m] = t
        BY <4>2
      <4>6. m <= m
        OBVIOUS
      <4>7. Safe(new, from, m)
        BY <1>2, <1>4, <4>2, <4>4, <4>5, <4>6, TakenSafe
      <4>. QED  BY <4>2, <4>7
    <3>. QED  BY <3>1, <3>2
  <2>2. \A j \in 1 .. z : j \in 1 .. m \/ new[j].kind # "result"
    BY <1>9
  <2>. QED  BY <2>1, <2>2 DEF Safe
<1>11. ASSUME NEW c \in 1 .. z, new[c].kind = "compaction"
       PROVE  Keeps(new, FirstKept(new, c), c)
  <2>1. c \in 1 .. m /\ c \in Nat /\ c # 0
    BY <1>9, <1>11
  <2>2. PICK g \in Nat : g = FirstKept(new, c) /\ g \in 1 .. c
    BY <2>1, FirstKeptIs
  <2>3. PICK d \in Nat : d = P[c] /\ d \in 1 .. k /\ d # 0 /\ p[d].kind = "compaction"
                        /\ p[d].ref = new[c].ref
    <3>1. P[c] \in 1 .. k /\ p[P[c]].kind = new[c].kind
      BY <1>9, <2>1
    <3>2. p[P[c]].ref = new[c].ref
      BY <1>4, <2>1 DEF TakenOver
    <3>3. P[c] \in Nat /\ P[c] # 0
      BY <1>8, <3>1
    <3>. QED  BY <1>11, <3>1, <3>2, <3>3
  <2>4. PICK f \in Nat : f = FirstKept(p, d) /\ f \in 1 .. d
    BY <2>3, FirstKeptIs
  <2>5. Keeps(p, f, d)
    BY <1>2, <1>8, <2>3, <2>4 DEF Good
  <2>6. P[g] = f /\ (g = c => f = d)
    <3>1. CASE g # c
      <4>1. FirstKept(new, c) # c
        BY <2>2, <3>1
      <4>2. P[FirstKept(new, c)] = FirstKept(p, P[c])
        BY <1>2, <1>4, <1>11, <2>1, <4>1, TakenFirst
      <4>3. P[g] = f
        BY <2>2, <2>3, <2>4, <4>2
      <4>. QED  BY <3>1, <4>3
    <3>2. CASE g = c /\ f # d
      <4>1. f \in 1 .. k /\ f < d /\ p[f].id = p[d].ref
        BY <2>3, <2>4, <3>2, FirstKeptIs
      <4>2. p[f].kind # "label"
        <5>1. f \in DOMAIN p /\ d \in DOMAIN p
          BY <1>2, <1>8, <2>3, <4>1, LenProperties
        <5>. QED  BY <1>1, <2>3, <4>1, <5>1 DEF KeepsFromLabel
      <4>3. PICK i \in 1 .. m : P[i] = f
        BY <1>4, <1>8, <4>1, <4>2 DEF TakenOver
      <4>4. i < c
        <5>1. c < i => d < f
          BY <1>4, <2>1, <2>3, <4>3 DEF TakenOver
        <5>2. i # c
          BY <2>3, <4>1, <4>3
        <5>. QED  BY <2>1, <2>3, <2>4, <4>1, <5>1, <5>2
      <4>5. i \in 1 .. c - 1 /\ new[i].id = new[c].ref
        BY <1>4, <2>1, <2>3, <4>1, <4>3, <4>4 DEF TakenOver
      <4>. QED  BY <2>1, <2>2, <3>2, <4>5, FirstKeptIs
    <3>. QED  BY <2>2, <2>3, <2>4, <3>1, <3>2
  <2>7. Safe(new, g, c)
    <3>1. g # 0 /\ c <= m /\ (g <= c => P[g] = f /\ P[c] = d)
      BY <2>1, <2>2, <2>3, <2>6
    <3>2. Safe(p, f, d)
      BY <2>5 DEF Keeps
    <3>. QED  BY <1>2, <1>4, <2>1, <3>1, <3>2, TakenSafe
  <2>8. ASSUME NEW b \in 1 .. c - 1, Awaited(new, b, c) PROVE g <= b
    <3>1. b \in 1 .. m /\ b < c /\ b \in Nat
      BY <2>1
    <3>2. PICK a \in 1 .. k : a = P[b] /\ a < d /\ p[a].kind = "assistant"
      <4>1. new[b].kind = "assistant"
        BY <2>8 DEF Awaited
      <4>2. P[b] \in 1 .. k /\ P[b] < P[c] /\ p[P[b]].kind = new[b].kind
        BY <1>4, <1>8, <2>1, <3>1 DEF TakenOver
      <4>. QED  BY <2>3, <4>1, <4>2
    <3>3. ASSUME NEW x \in a + 1 .. d - 1 PROVE p[x].kind \in Unshown
      <4>1. x \in 1 .. k /\ a < x /\ x < d
        BY <2>3
      <4>2. CASE p[x].kind = "label"
        BY <4>2 DEF Unshown
      <4>3. CASE p[x].kind # "label"
        <5>1. PICK i \in 1 .. m : P[i] = x
          BY <1>4, <1>8, <4>1, <4>3 DEF TakenOver
        <5>2. b < i /\ i < c
          <6>1. i < b => x < a
            BY <1>4, <3>1, <3>2, <5>1 DEF TakenOver
          <6>2. c < i => d < x
            BY <1>4, <2>1, <2>3, <5>1 DEF TakenOver
          <6>3. i # b /\ i # c
            BY <2>3, <3>2, <4>1, <5>1
          <6>. QED  BY <2>1, <3>1, <4>1, <6>1, <6>2, <6>3
        <5>3. i \in b + 1 .. c - 1
          BY <2>1, <3>1, <5>2
        <5>4. new[i].kind \in Unshown /\ new[i].kind = p[x].kind
          BY <1>9, <2>8, <5>1, <5>3 DEF Awaited
        <5>. QED  BY <5>4
      <4>. QED  BY <4>2, <4>3
    <3>4. Awaited(p, a, d) /\ a \in 1 .. d - 1
      BY <3>2, <3>3 DEF Awaited
    <3>5. f <= a
      BY <2>5, <3>4 DEF Keeps
    <3>6. b < g => a < f
      <4>1. g \in 1 .. m
        BY <2>1, <2>2
      <4>. QED  BY <1>4, <2>6, <3>1, <3>2, <4>1 DEF TakenOver
    <3>. QED  BY <2>2, <2>4, <3>1, <3>2, <3>5, <3>6
  <2>. QED  BY <2>2, <2>7, <2>8 DEF Keeps
<1>12. Good(new)
  BY <1>7, <1>10, <1>11 DEF Good
<1>13. ASSUME NEW u \in Ids(new) PROVE Good(Path(new, u))
  <2>1. PICK i \in 1 .. z : new[i].id = u
    BY <1>6, <1>7, <1>13, IdsAre
  <2>2. n + h \in Nat
    BY <1>6
  <2>3. Path(new, u) = SubSeq(new, 1, i)
    BY <1>6, <1>7, <2>1, <2>2, ChainPaths
  <2>4. i \in 0 .. Len(new)
    BY <1>7
  <2>5. SubSeq(new, 1, i) \in Seq(Entry) /\ Len(SubSeq(new, 1, i)) = i
        /\ \A j \in 1 .. i : SubSeq(new, 1, i)[j] = new[j]
    BY <1>6, <2>4, PrefixIs
  <2>6. i <= z
    OBVIOUS
  <2>. QED  BY <1>6, <1>7, <1>12, <2>3, <2>5, <2>6, GoodPrefix
<1>. QED  BY <1>13 DEF GoodPaths

-----------------------------------------------------------------------------
(* Every path that can be opened keeps the results with their calls.        *)

(* Until a write fails or is cut short or a compaction is astray, in        *)
(* memory, in the session that a fork leaves and in the file of a process   *)
(* that is down.                                                            *)
GoodSession ==
    damage = 0 /\ astray = "no" =>
        /\ GoodPaths(entries) /\ GoodPaths(prev.entries)
        /\ process = "down" => GoodPaths(Load(file))

LEMMA PlainGood ==
    ASSUME NEW n \in Nat, NEW es, Grown(es, n),
           \A i \in 1 .. Len(es) : es[i].kind \in {"user", "assistant"}
    PROVE  GoodPaths(es)
<1> SUFFICES ASSUME NEW l \in Ids(es) PROVE Good(Path(es, l))
  BY DEF GoodPaths
<1>. HIDE DEF Entry
<1>1. PICK p : p = Path(es, l)
  OBVIOUS
<1>2. \A i \in 1 .. Len(p) : p[i].id \in Ids(es) /\ p[i] = At(es, p[i].id)
  <2>1. Shape(es, p, l)
    BY <1>1, PathShape
  <2>. QED  BY <2>1 DEF Shape
<1>3. \A i \in 1 .. Len(p) : p[i].kind \in {"user", "assistant"}
  <2>1. \A u \in Ids(es) : \E i \in 1 .. Len(es) : es[i] = At(es, u)
    BY AtIn
  <2>. QED  BY <1>2, <2>1
<1>4. PICK m \in Nat : m = Len(p)
  BY <1>1, PathIs, LenProperties
<1>5. \A i \in 1 .. m : p[i].kind # "result" /\ p[i].kind # "compaction"
  BY <1>3, <1>4
<1>. QED  BY <1>1, <1>4, <1>5 DEF Good, Safe

LEMMA InitGood == Init => GoodSession
<1> SUFFICES ASSUME Init PROVE GoodSession
  OBVIOUS
<1>. HIDE DEF Entry, FileLine
<1>1. entries = <<>> /\ prev.entries = <<>>
  BY DEF Init, None
<1>2. process = "down" => file = OldFile
  BY DEF Init
<1>3. GoodPaths(Load(OldFile))
  BY OldFileIs, PlainGood
<1>. QED  BY <1>1, <1>2, <1>3, PathsNone DEF GoodSession

LEMMA PutGood ==
    ASSUME IInv, GoodSession, NEW kind \in Kinds, NEW parent \in Ids(entries) \cup {Root},
           NEW ref \in Nat, Put(kind, parent, ref),
           kind = "result" => LastMessage = "assistant" /\ parent = leaf,
           astray' = "no" => astray = "no",
           kind = "compaction" /\ damage = 0 /\ astray' = "no" =>
               Prepares(Path(entries, parent), ref)
    PROVE  GoodSession'
<1> DEFINE e == [id |-> nextId, parent |-> parent, kind |-> kind, ref |-> ref]
<1>. HIDE DEF FileLine
<1>1. /\ process = "up" /\ process' = "up" /\ entries' = Append(entries, e)
      /\ prev' = prev /\ damage' = damage
  BY DEF Put, Calling
<1>2. nextId \in Nat /\ Grown(entries, nextId) /\ entries \in Seq(Entry)
  BY Facts
<1>3. e \in Entry /\ e.id = nextId /\ e.kind = kind /\ e.parent = parent /\ e.ref = ref
  <2>1. parent \in Nat
    BY <1>2, IdsAre DEF Root
  <2>. QED  BY <1>2, <2>1 DEF Entry
<1>4. e.parent < nextId
  <2>1. parent \in Ids(entries) => parent < nextId
    <3>1. parent \in Ids(entries) => parent \in 1 .. nextId - 1
      BY <1>2, AtIn
    <3>. QED  BY <1>2, <3>1
  <2>2. Root < nextId
    <3>1. nextId \in 1 .. MaxEntries + 1
      BY Facts
    <3>. QED  BY <3>1 DEF Root
  <2>. QED  BY <1>3, <2>1, <2>2
<1>. HIDE DEF e, Entry
<1>5. SUFFICES ASSUME damage = 0, astray' = "no", astray = "no" PROVE GoodPaths(entries')
  BY <1>1 DEF GoodSession
<1>6. GoodPaths(entries)
  BY <1>5 DEF GoodSession
<1>7. PICK p : p = Path(entries, parent)
  OBVIOUS
<1>8. p \in Seq(Entry) /\ Good(p)
  BY <1>2, <1>6, <1>7, GoodPathAt, PathIs
<1>9. \A i, j \in 1 .. Len(p) : i < j => p[i].id < p[j].id
  <2>1. CASE parent \in Ids(entries)
    <3>1. Shape(entries, p, parent)
      BY <1>2, <1>7, <2>1, PathShape
    <3>. QED  BY <3>1 DEF Shape
  <2>2. CASE parent \notin Ids(entries)
    <3>1. p = <<>>
      BY <1>7, <2>2, PathOutside
    <3>2. Len(p) = 0
      BY <3>1
    <3>. QED  BY <3>2
  <2>. QED  BY <2>1, <2>2
<1>10. ASSUME kind = "result"
       PROVE  LET o == OfKind(p, ShownKinds)
              IN  o # <<>> /\ o[Len(o)].kind = "assistant"
  <2>1. LastMessage = "assistant" /\ p = Path(entries, leaf)
    BY <1>7, <1>10
  <2> DEFINE o == OfKind(p, ShownKinds)
  <2>2. LastMessage = IF o = <<>> THEN "none" ELSE o[Len(o)].kind
    BY <2>1 DEF LastMessage
  <2>. HIDE DEF o
  <2>3. o # <<>> /\ o[Len(o)].kind = "assistant"
    BY <2>1, <2>2
  <2>. QED  BY <2>3 DEF o
<1>11. kind = "compaction" => Prepares(p, ref)
  BY <1>5, <1>7
<1>12. Good(Append(p, e))
  BY <1>3, <1>8, <1>9, <1>10, <1>11, NewPathGood
<1>13. Good(Append(Path(entries, e.parent), e))
  BY <1>3, <1>7, <1>12
<1>14. GoodPaths(Append(entries, e))
  BY <1>2, <1>3, <1>4, <1>6, <1>13, PathsAppend
<1>. QED  BY <1>1, <1>14

LEMMA AppendMessageGood == ASSUME IInv, GoodSession, AppendMessage PROVE GoodSession'
<1>1. PICK kind \in MessageKinds : /\ kind = "result" => LastMessage = "assistant"
                                   /\ Put(kind, leaf, Root)
  BY DEF AppendMessage
<1>2. kind \in Kinds /\ Root \in Nat /\ leaf \in Ids(entries) \cup {Root}
      /\ kind # "compaction" /\ astray' = astray
  BY <1>1, Facts DEF Kinds, ShownKinds, MessageKinds, Root, AppendMessage
<1>. QED  BY <1>1, <1>2, PutGood

LEMMA AppendLabelChangeGood == ASSUME IInv, GoodSession, AppendLabelChange PROVE GoodSession'
<1>1. PICK t \in Ids(entries) : Put("label", leaf, t)
  BY DEF AppendLabelChange
<1>2. "label" \in Kinds /\ leaf \in Ids(entries) \cup {Root} /\ t \in Nat
      /\ astray' = astray
  BY <1>1, Facts, IdsAre DEF Kinds, AppendLabelChange
<1>3. "label" # "result" /\ "label" # "compaction"
  OBVIOUS
<1>. QED  BY <1>1, <1>2, <1>3, PutGood

(* On the branch it was prepared for, a compaction keeps what it should,    *)
(* whatever has been appended since.                                        *)
LEMMA PreparedKeeps ==
    ASSUME IInv, Preparing, GoodPaths(entries), NEW w \in prepared, NEW p,
           p = Path(entries, leaf), NEW i \in DOMAIN p, p[i].id = w.from
    PROVE  Prepares(p, w.ref)
<1>. HIDE DEF Entry, FileLine
<1>1. nextId \in Nat /\ Grown(entries, nextId) /\ leaf \in Ids(entries) \cup {Root}
  BY Facts
<1>2. leaf \in Ids(entries)
  <2>1. leaf \notin Ids(entries) => p = <<>>
    BY PathOutside
  <2>2. DOMAIN <<>> = {}
    OBVIOUS
  <2>. QED  BY <2>1, <2>2
<1>3. Shape(entries, p, leaf)
  BY <1>1, <1>2, PathShape
<1>4. PICK n \in Nat : n = Len(p) /\ i \in 1 .. n /\ p \in Seq(Entry)
  BY <1>3, LenProperties DEF Shape
<1>5. PICK r : r = Path(entries, w.from) /\ r = SubSeq(p, 1, i)
  BY <1>3, <1>4 DEF Shape
<1>6. i \in 0 .. Len(p) /\ i \in Nat
  BY <1>4
<1>7. r \in Seq(Entry) /\ Len(r) = i /\ \A j \in 1 .. i : r[j] = p[j]
  BY <1>4, <1>5, <1>6, PrefixIs
<1>8. Good(r) /\ CanCompact(r) /\ w.ref = FirstToKeep(r)
  BY <1>5, GoodPathAt DEF Preparing
<1>9. PICK k, c : k = CutPoint(r, Start(r)) /\ c = Len(r) + 1
  OBVIOUS
<1>10. /\ Safe(r, k, i) /\ k \in 1 .. i /\ c = i + 1
       /\ \A a \in 1 .. c - 1 : Awaited(r, a, c) => k <= a
  BY <1>7, <1>8, <1>9, CutKeeps
<1>11. w.ref = r[k].id
  BY <1>7, <1>8, <1>9, StartIs
<1>12. w.ref = p[k].id
  BY <1>7, <1>10, <1>11
<1>13. Safe(p, k, i)
  <2>1. k \in Nat /\ k # 0
    BY <1>6, <1>10
  <2>. QED  BY <1>6, <1>7, <1>10, <2>1, SafeSame
<1>14. ASSUME NEW a \in 1 .. (i + 1) - 1, Awaited(p, a, i + 1) PROVE k <= a
  <2>1. a \in 1 .. i /\ \A x \in a + 1 .. (i + 1) - 1 : x \in 1 .. i
    BY <1>6
  <2>2. Awaited(r, a, i + 1)
    BY <1>7, <1>14, <2>1 DEF Awaited
  <2>. QED  BY <1>10, <1>14, <2>2
<1>15. KeepsAt(p, k, i)
  BY <1>13, <1>14 DEF KeepsAt
<1>. QED  BY <1>4, <1>10, <1>12, <1>15 DEF Prepares

LEMMA AppendCompactionGood ==
    ASSUME IInv, Preparing, GoodSession, AppendCompaction PROVE GoodSession'
<1>1. PICK w \in prepared :
         /\ Put("compaction", leaf, w.ref)
         /\ astray' = IF \E i \in DOMAIN Path(entries, leaf) :
                          Path(entries, leaf)[i].id = w.from
                       THEN astray ELSE "yes"
  BY DEF AppendCompaction
<1>2. "compaction" \in Kinds /\ leaf \in Ids(entries) \cup {Root} /\ w.ref \in Nat
  BY Facts DEF Kinds, Preparing
<1>3. "compaction" # "result" /\ "yes" # "no"
  OBVIOUS
<1>4. astray' = "no" =>
         /\ astray = "no"
         /\ \E i \in DOMAIN Path(entries, leaf) : Path(entries, leaf)[i].id = w.from
  BY <1>1, <1>3
<1>5. ASSUME damage = 0, astray' = "no" PROVE Prepares(Path(entries, leaf), w.ref)
  <2>1. GoodPaths(entries)
    BY <1>4, <1>5 DEF GoodSession
  <2>2. PICK p : p = Path(entries, leaf)
    OBVIOUS
  <2>3. PICK i \in DOMAIN p : p[i].id = w.from
    BY <1>4, <1>5, <2>2
  <2>. QED  BY <2>1, <2>2, <2>3, PreparedKeeps
<1>. QED  BY <1>1, <1>2, <1>3, <1>4, <1>5, PutGood

LEMMA BranchWithSummaryGood == ASSUME IInv, GoodSession, BranchWithSummary PROVE GoodSession'
<1>1. PICK p \in Ids(entries) \cup {Root} : Put("summary", p, Root)
  BY DEF BranchWithSummary
<1>2. "summary" \in Kinds /\ Root \in Nat /\ "summary" # "result" /\ "summary" # "compaction"
      /\ astray' = astray
  BY DEF Kinds, ShownKinds, Root, BranchWithSummary
<1>. QED  BY <1>1, <1>2, PutGood

LEMMA OpenGood == ASSUME IInv, GoodSession, Open PROVE GoodSession'
<1>1. /\ process = "down" /\ process' = "up" /\ entries' = Load(file) /\ prev' = prev
      /\ damage' = damage /\ astray' = astray
  BY DEF Open
<1>. QED  BY <1>1 DEF GoodSession

LEMMA NewSessionGood == ASSUME IInv, GoodSession, NewSession PROVE GoodSession'
<1>1. process = "up" /\ process' = process /\ entries' = <<>> /\ prev' = prev
      /\ task.kind = "none"
  BY DEF NewSession, Calling
<1>2. prev.entries = <<>>
  <2>1. prev = None
    BY <1>1, Facts
  <2>. QED  BY <2>1 DEF None
<1>. QED  BY <1>1, <1>2, PathsNone DEF GoodSession

LEMMA ForkKeepsGood == ASSUME IInv, GoodSession, Fork PROVE GoodSession'
<1>. HIDE DEF Entry, FileLine
<1>1. PICK l \in Ids(Load(file)) :
         /\ entries' = Branched(Load(file), l, nextId)
         /\ astray' = IF KeepsFromLabel(Path(Load(file), l)) THEN "yes" ELSE astray
         /\ \/ prev' = [entries |-> entries, leaf |-> leaf, file |-> file]
            \/ prev' = prev
  BY DEF Fork
<1>2. process = "up" /\ task.kind = "none" /\ process' = "up" /\ damage' = damage
      /\ exists = "yes"
  BY DEF Fork, Calling
<1>3. SUFFICES ASSUME damage = 0, astray = "no", ~KeepsFromLabel(Path(Load(file), l))
               PROVE  GoodPaths(entries') /\ GoodPaths(prev'.entries)
  BY <1>1, <1>2 DEF GoodSession
<1>4. Load(file) = entries
  BY <1>2, <1>3, Facts DEF Settled
<1>5. nextId \in Nat /\ Grown(entries, nextId) /\ GoodPaths(entries)
      /\ GoodPaths(prev.entries)
  BY <1>3, Facts DEF GoodSession
<1>6. GoodPaths(entries')
  <2>1. PICK es, new : es = entries /\ new = entries'
    OBVIOUS
  <2>0. PICK n \in Nat : n = nextId
    BY <1>5
  <2>2. /\ Grown(es, n) /\ GoodPaths(es) /\ l \in Ids(es)
        /\ ~KeepsFromLabel(Path(es, l)) /\ new = Branched(es, l, n)
    BY <1>1, <1>3, <1>4, <1>5, <2>0, <2>1
  <2>3. GoodPaths(new)
    BY <2>2, ForkGood
  <2>. QED  BY <2>1, <2>3
<1>7. prev'.entries = entries \/ prev' = prev
  BY <1>1
<1>. QED  BY <1>5, <1>6, <1>7

LEMMA WriteLineGood == ASSUME IInv, GoodSession, WriteLine PROVE GoodSession'
<1>1. /\ process = "up" /\ process' = "up" /\ entries' = entries /\ damage' = damage
      /\ astray' = astray /\ (prev' = None \/ prev' = prev)
  BY DEF WriteLine
<1>2. GoodPaths(None.entries)
  BY PathsNone DEF None
<1>. QED  BY <1>1, <1>2 DEF GoodSession

LEMMA CrashGood == ASSUME IInv, GoodSession, Crash PROVE GoodSession'
<1>. HIDE DEF Entry, FileLine
<1>1. /\ process = "up" /\ process' = "down" /\ entries' = <<>> /\ prev' = None
      /\ (file' = file \/ (task.kind = "fork" /\ file' = prev.file))
      /\ damage' = IF task.kind = "rewrite" /\ Load(file) # entries THEN damage + 1 ELSE damage
      /\ astray' = astray
  BY DEF Crash
<1>2. GoodPaths(entries') /\ GoodPaths(prev'.entries)
  BY <1>1, PathsNone DEF None
<1>3. SUFFICES ASSUME damage' = 0, astray = "no" PROVE GoodPaths(Load(file'))
  BY <1>1, <1>2 DEF GoodSession
<1>4. damage = 0
  <2>1. damage + 1 # 0
    BY Facts
  <2>. QED  BY <1>1, <1>3, <2>1
<1>5. GoodPaths(entries) /\ GoodPaths(prev.entries)
  BY <1>3, <1>4 DEF GoodSession
<1>6. CASE file' = file
  <2>1. CASE task.kind = "none"
    <3>1. CASE exists = "no"
      <4>1. Load(file) = <<>>
        BY <3>1, Facts, LoadNothing
      <4>. QED  BY <1>6, <4>1, PathsNone
    <3>2. CASE exists # "no"
      <4>1. exists = "yes"
        BY <3>2, Facts
      <4>2. Load(file) = entries
        BY <1>1, <1>4, <2>1, <4>1, Facts DEF Settled
      <4>. QED  BY <1>5, <1>6, <4>2
    <3>. QED  BY <3>1, <3>2
  <2>2. CASE task.kind # "none"
    <3>1. PICK k \in 0 .. Len(entries) : Load(file) = SubSeq(entries, 1, k)
      BY <2>2, WrittenSoFar
    <3>2. nextId \in Nat /\ Grown(entries, nextId)
      BY Facts
    <3>3. GoodPaths(SubSeq(entries, 1, k))
      BY <1>5, <3>2, PathsPrefix
    <3>. QED  BY <1>6, <3>1, <3>3
  <2>. QED  BY <2>1, <2>2
<1>7. CASE task.kind = "fork" /\ file' = prev.file
  <2>1. Load(prev.file) = prev.entries
    BY <1>4, <1>7, Facts DEF Forking
  <2>. QED  BY <1>5, <1>7, <2>1
<1>. QED  BY <1>1, <1>6, <1>7

LEMMA NextGood == ASSUME IInv, Preparing, GoodSession, [Next]_vars PROVE GoodSession'
<1>1. CASE UNCHANGED vars
  BY <1>1 DEF vars, GoodSession
<1>2. CASE MoveLeaf \/ PrepareCompaction \/ CompactionFails
  BY <1>2 DEF MoveLeaf, PrepareCompaction, CompactionFails, GoodSession
<1>3. CASE TearLine \/ AppendFails \/ CreateFails
  <2>1. damage' = damage + 1
    BY <1>3 DEF TearLine, AppendFails, CreateFails
  <2>2. damage' # 0
    BY <2>1, Facts
  <2>. QED  BY <2>2 DEF GoodSession
<1>. QED  BY <1>1, <1>2, <1>3, AppendMessageGood, AppendLabelChangeGood, AppendCompactionGood,
             BranchWithSummaryGood, NewSessionGood, ForkKeepsGood, OpenGood, WriteLineGood,
             CrashGood DEF Next

(* What is sent has the call just before the result.                        *)
LEMMA ShownCalls ==
    ASSUME NEW s \in Seq(Entry), NEW t, t = OfKind(s, ShownKinds),
           NEW n \in Nat, n = Len(s), Safe(s, 1, n)
    PROVE  /\ t \in Seq(Entry)
           /\ \A k \in 1 .. Len(t) :
                 t[k].kind = "result" => k - 1 \in 1 .. Len(t) /\ t[k - 1].kind = "assistant"
<1>. HIDE DEF Entry
<1> DEFINE D == KindAt(s, ShownKinds)
<1>1. t \in Seq(Entry)
  BY OfKindIs
<1>2. PICK P : Stands(t, P, s, D)
  BY OfKindIs
<1>3. /\ \A i \in 1 .. n : i \in D <=> s[i].kind \in ShownKinds
      /\ D \subseteq 1 .. n
  BY DEF KindAt
<1>. HIDE DEF D
<1>4. PICK m \in Nat : m = Len(t)
  BY <1>1, LenProperties
<1>5. /\ \A k \in 1 .. m : P[k] \in D /\ t[k] = s[P[k]]
      /\ \A d \in D : \E k \in 1 .. m : P[k] = d
      /\ \A i, j \in 1 .. m : i < j => P[i] < P[j]
  BY <1>2, <1>4 DEF Stands, Places
<1>6. ASSUME NEW k \in 1 .. m, t[k].kind = "result"
      PROVE  k - 1 \in 1 .. m /\ t[k - 1].kind = "assistant"
  <2>1. PICK d \in 1 .. n : d = P[k] /\ s[d].kind = "result"
    <3>1. P[k] \in D /\ t[k] = s[P[k]]
      BY <1>5
    <3>2. P[k] \in 1 .. n
      BY <1>3, <3>1
    <3>. QED  BY <1>6, <3>1, <3>2
  <2>2. PICK a \in 1 .. d - 1 : /\ s[a].kind = "assistant"
                                /\ \A x \in a + 1 .. d - 1 : s[x].kind \in Unshown
    BY <2>1 DEF Safe, Call
  <2>3. a \in 1 .. n /\ a < d /\ a \in Nat
    BY <2>1
  <2>4. a \in D
    <3>1. "assistant" \in ShownKinds
      BY DEF ShownKinds, MessageKinds
    <3>. QED  BY <1>3, <2>2, <2>3, <3>1
  <2>5. PICK j \in 1 .. m : P[j] = a
    BY <1>5, <2>4
  <2>6. j < k
    <3>1. k < j => d < a
      BY <1>5, <2>1, <2>5
    <3>2. j # k
      BY <2>1, <2>3, <2>5
    <3>. QED  BY <2>1, <2>3, <3>1, <3>2
  <2>7. PICK h \in 1 .. m : h = k - 1
    BY <2>6
  <2>8. h = j
    <3>1. SUFFICES ASSUME j < h PROVE FALSE
      BY <2>6, <2>7
    <3>2. P[h] \in D /\ P[h] \in 1 .. n /\ P[j] < P[h] /\ P[h] < P[k]
      <4>1. h < k
        BY <2>7
      <4>. QED  BY <1>3, <1>5, <3>1, <4>1
    <3>3. P[h] \in a + 1 .. d - 1
      BY <2>1, <2>3, <2>5, <3>2
    <3>4. s[P[h]].kind \in Unshown
      BY <2>2, <3>3
    <3>5. Unshown \cap ShownKinds = {}
      BY DEF ShownKinds, MessageKinds, Unshown
    <3>. QED  BY <1>3, <3>2, <3>4, <3>5
  <2>. QED  BY <1>5, <2>2, <2>5, <2>7, <2>8
<1>. QED  BY <1>1, <1>4, <1>6

(* From the first entry kept on, every result has its call.                 *)
LEMMA SafeFrom ==
    ASSUME NEW p \in Seq(Entry), Good(p), NEW n \in Nat, n = Len(p),
           NEW c \in Nat, c = LatestCompaction(p), c # 0,
           NEW f \in Nat, f = FirstKept(p, c)
    PROVE  Safe(p, f, n)
<1> SUFFICES ASSUME NEW j \in f .. n, p[j].kind = "result" PROVE Call(p, f, j)
  BY DEF Safe
<1>. HIDE DEF Entry
<1>1. c \in 1 .. n /\ p[c].kind = "compaction"
  BY LatestIs
<1>2. f \in 1 .. c
  BY FirstKeptIs
<1>3. j \in 1 .. n /\ j \in Nat /\ j # c
  BY <1>1, <1>2
<1>4. CASE j < c
  <2>1. Safe(p, f, c) /\ j \in f .. c
    BY <1>1, <1>4 DEF Good, Keeps
  <2>. QED  BY <2>1 DEF Safe
<1>5. CASE c < j
  <2>1. PICK a \in 1 .. j - 1 : /\ p[a].kind = "assistant"
                                /\ \A x \in a + 1 .. j - 1 : p[x].kind \in Unshown
    BY <1>3 DEF Good, Safe, Call
  <2>2. a \in Nat /\ a # c
    BY <1>1, <2>1
  <2>3. a < c => f <= a
    <3>1. a < c => a \in 1 .. c - 1 /\ \A x \in a + 1 .. c - 1 : x \in a + 1 .. j - 1
      BY <1>1, <1>3, <1>5, <2>2
    <3>2. a < c => Awaited(p, a, c)
      BY <2>1, <3>1 DEF Awaited
    <3>. QED  BY <1>1, <3>1, <3>2 DEF Good, Keeps
  <2>4. a \in f .. j - 1
    BY <1>1, <1>2, <1>3, <2>2, <2>3
  <2>. QED  BY <2>1, <2>4 DEF Call
<1>. QED  BY <1>1, <1>3, <1>4, <1>5

(* As it is sent: a summary of what is left out, if any, and then the rest. *)
Shows(ctx, p, c, f, b, s) ==
    /\ f \in Nat /\ b \in Nat /\ s \in Seq(Entry)
    /\ f = IF c = 0 THEN 1 ELSE FirstKept(p, c)
    /\ f = b + 1 /\ b + Len(s) = Len(p)
    /\ \A i \in 1 .. Len(s) : s[i] = p[b + i] /\ b + i \in 1 .. Len(p)
    /\ ctx = (IF c = 0 THEN <<>> ELSE <<p[c]>>) \o OfKind(s, ShownKinds)

LEMMA ContextIs ==
    ASSUME NEW p \in Seq(Entry), NEW c, c = LatestCompaction(p),
           NEW ctx, ctx = Context(p)
    PROVE  \E f, b, s : Shows(ctx, p, c, f, b, s)
<1>. HIDE DEF Entry
<1>0. PICK n \in Nat : n = Len(p)
  BY LenProperties
<1>1. PICK f : f = IF c = 0 THEN 1 ELSE FirstKept(p, c)
  OBVIOUS
<1>2. f \in Nat /\ f # 0 /\ (c = 0 => f = 1) /\ (c # 0 => f \in 1 .. n)
  <2>1. c # 0 => c \in 1 .. n /\ FirstKept(p, c) \in 1 .. c
    <3>1. c \in Nat /\ (c # 0 => c \in 1 .. n)
      BY <1>0, LatestIs
    <3>. QED  BY <3>1, FirstKeptIs
  <2>. QED  BY <1>1, <2>1
<1>3. PICK b \in Nat : f = b + 1 /\ b <= n
  <2>1. f - 1 \in Nat /\ f = (f - 1) + 1 /\ f - 1 <= n
    BY <1>2
  <2>. QED  BY <2>1
<1>4. PICK s \in Seq(Entry) : \E m \in Nat :
              /\ s = SubSeq(p, f, Len(p)) /\ m = Len(s) /\ b + m = n
              /\ \A i \in 1 .. m : s[i] = p[b + i] /\ b + i \in 1 .. n
  <2>1. f \in Nat /\ b \in Nat /\ f = b + 1 /\ n \in Nat /\ n = Len(p) /\ b <= n
        /\ p \in Seq(Entry)
    BY <1>0, <1>2, <1>3
  <2>2. f \in 1 .. Len(p) + 1 /\ n \in f - 1 .. Len(p)
    BY <2>1
  <2>3. /\ SubSeq(p, f, n) \in Seq(Entry) /\ Len(SubSeq(p, f, n)) = n - f + 1
        /\ \A i \in 1 .. n - f + 1 : SubSeq(p, f, n)[i] = p[f + i - 1]
    BY <2>1, <2>2, SubSeqProperties
  <2>4. PICK s \in Seq(Entry) : s = SubSeq(p, f, n) /\ Len(s) = n - f + 1
                              /\ \A i \in 1 .. n - f + 1 : s[i] = p[f + i - 1]
    BY <2>3
  <2>5. PICK m \in Nat : m = n - f + 1 /\ b + m = n
    <3>1. n - f + 1 \in Nat /\ b + (n - f + 1) = n
      BY <2>1
    <3>. QED  BY <3>1
  <2>6. \A i \in 1 .. m : f + i - 1 = b + i /\ b + i \in 1 .. n
    BY <2>1, <2>5
  <2>7. \A i \in 1 .. m : s[i] = p[b + i] /\ b + i \in 1 .. n
    BY <2>4, <2>5, <2>6
  <2>. QED  BY <2>1, <2>4, <2>5, <2>7
<1>5. ctx = (IF c = 0 THEN <<>> ELSE <<p[c]>>) \o OfKind(s, ShownKinds)
  BY <1>1, <1>4 DEF Context
<1>6. Shows(ctx, p, c, f, b, s)
  BY <1>0, <1>1, <1>2, <1>3, <1>4, <1>5 DEF Shows
<1>. QED  BY <1>6

LEMMA ContextGood ==
    ASSUME NEW p \in Seq(Entry), Good(p), NEW ctx, ctx = Context(p)
    PROVE  /\ ctx \in Seq(Entry)
           /\ \A i \in 1 .. Len(ctx) :
                 ctx[i].kind = "result" => i > 1 /\ ctx[i - 1].kind = "assistant"
<1>. HIDE DEF Entry
<1>1. PICK n \in Nat : n = Len(p)
  BY LenProperties
<1>2. PICK c \in Nat : c = LatestCompaction(p) /\ (c # 0 => c \in 1 .. n)
                       /\ (c # 0 => p[c].kind = "compaction")
  BY <1>1, LatestIs
<1>10. PICK f, b, s : Shows(ctx, p, c, f, b, s)
  BY <1>2, ContextIs
<1>11. PICK m \in Nat : m = Len(s)
  BY <1>10, LenProperties DEF Shows
<1>3. /\ f \in Nat /\ b \in Nat /\ s \in Seq(Entry)
      /\ f = (IF c = 0 THEN 1 ELSE FirstKept(p, c)) /\ f = b + 1
      /\ m = Len(s) /\ b + m = n
      /\ \A i \in 1 .. m : s[i] = p[b + i] /\ b + i \in 1 .. n
      /\ ctx = (IF c = 0 THEN <<>> ELSE <<p[c]>>) \o OfKind(s, ShownKinds)
  BY <1>1, <1>10, <1>11 DEF Shows
<1>4. Safe(p, f, n)
  <2>1. CASE c = 0
    BY <1>1, <1>3, <2>1 DEF Good
  <2>2. CASE c # 0
    BY <1>1, <1>2, <1>3, <2>2, SafeFrom
  <2>. QED  BY <2>1, <2>2
<1>5. Safe(s, 1, m)
  <2> SUFFICES ASSUME NEW j \in 1 .. m, s[j].kind = "result" PROVE Call(s, 1, j)
    BY DEF Safe
  <2>1. PICK d \in 1 .. n : d = b + j /\ p[d].kind = "result"
    BY <1>3
  <2>2. d \in f .. n
    BY <1>3, <2>1
  <2>3. PICK a \in f .. d - 1 : /\ p[a].kind = "assistant"
                                /\ \A x \in a + 1 .. d - 1 : p[x].kind \in Unshown
    BY <1>4, <2>1, <2>2 DEF Safe, Call
  <2>4. PICK e \in 1 .. j - 1 : a = b + e
    <3>1. a - b \in 1 .. j - 1 /\ a = b + (a - b)
      BY <1>3, <2>1
    <3>. QED  BY <3>1
  <2>5. e \in 1 .. m /\ s[e].kind = "assistant"
    <3>1. e \in 1 .. m
      OBVIOUS
    <3>. QED  BY <1>3, <2>3, <2>4, <3>1
  <2>6. ASSUME NEW x \in e + 1 .. j - 1 PROVE s[x].kind \in Unshown
    <3>1. x \in 1 .. m
      OBVIOUS
    <3>2. b + x \in a + 1 .. d - 1
      BY <1>3, <2>1, <2>4
    <3>. QED  BY <1>3, <2>3, <3>1, <3>2
  <2>. QED  BY <2>5, <2>6 DEF Call
<1>6. PICK t : t = OfKind(s, ShownKinds)
  OBVIOUS
<1>7. /\ t \in Seq(Entry)
      /\ \A k \in 1 .. Len(t) :
            t[k].kind = "result" => k - 1 \in 1 .. Len(t) /\ t[k - 1].kind = "assistant"
  <2>1. s \in Seq(Entry) /\ m \in Nat /\ m = Len(s)
    BY <1>3
  <2>2. t = OfKind(s, ShownKinds)
    BY <1>6
  <2>. QED  BY <1>5, <2>1, <2>2, ShownCalls
<1>8. CASE c = 0
  <2>1. ctx = <<>> \o t
    BY <1>3, <1>6, <1>8
  <2>2. <<>> \o t = t
    BY <1>7, ConcatEmptySeq
  <2>. QED  BY <1>7, <2>1, <2>2
<1>9. CASE c # 0
  <2> DEFINE pre == <<p[c]>>
  <2>1. pre \in Seq(Entry) /\ Len(pre) = 1 /\ pre[1] = p[c]
    <3>1. p[c] \in Entry
      BY <1>1, <1>2, <1>9, EntryIs
    <3>. QED  BY <3>1
  <2>2. ctx = pre \o t
    BY <1>3, <1>6, <1>9
  <2>. HIDE DEF pre
  <2>21. t \in Seq(Entry) /\ pre \in Seq(Entry)
    BY <1>7, <2>1
  <2>22. pre \o t \in Seq(Entry) /\ Len(pre \o t) = Len(pre) + Len(t)
    BY <2>21, ConcatIs
  <2>23. \A i \in 1 .. Len(pre) : (pre \o t)[i] = pre[i]
    BY <2>21, ConcatIs
  <2>24. \A i \in 1 .. Len(t) : (pre \o t)[Len(pre) + i] = t[i]
    BY <2>21, ConcatSecond
  <2>3. /\ ctx \in Seq(Entry) /\ Len(ctx) = Len(pre) + Len(t)
        /\ \A i \in 1 .. Len(pre) : ctx[i] = pre[i]
    BY <2>2, <2>22, <2>23
  <2>4. \A i \in 1 .. Len(t) : ctx[Len(pre) + i] = t[i]
    BY <2>2, <2>24
  <2>5. PICK z \in Nat : z = Len(t)
    BY <1>7, LenProperties
  <2>6. ctx[1].kind = "compaction"
    <3>1. 1 \in 1 .. Len(pre)
      BY <2>1
    <3>. QED  BY <1>2, <1>9, <2>1, <2>3, <3>1
  <2>7. \A i \in 1 .. z : ctx[1 + i] = t[i]
    BY <2>1, <2>4, <2>5
  <2>8. ASSUME NEW i \in 1 .. Len(ctx), ctx[i].kind = "result"
        PROVE  i > 1 /\ ctx[i - 1].kind = "assistant"
    <3>1. i # 1 /\ i \in 1 .. 1 + z
      BY <2>1, <2>3, <2>5, <2>6, <2>8
    <3>2. PICK k \in 1 .. z : i = 1 + k
      <4>1. i - 1 \in 1 .. z /\ i = 1 + (i - 1)
        BY <3>1
      <4>. QED  BY <4>1
    <3>3. t[k].kind = "result"
      BY <2>7, <2>8, <3>2
    <3>4. PICK h \in 1 .. z : h = k - 1 /\ t[h].kind = "assistant"
      BY <1>7, <2>5, <3>3
    <3>5. i - 1 = 1 + h /\ i > 1
      BY <3>2, <3>4
    <3>. QED  BY <2>7, <3>4, <3>5
  <2>. QED  BY <2>3, <2>8
<1>. QED  BY <1>8, <1>9

(* Whatever is branched, compacted, forked, reopened, or appended while the *)
(* summary of a compaction is awaited: until a write fails or is cut short, *)
(* or a compaction is astray, what is sent to the model has no result       *)
(* without the call just before it.                                         *)
THEOREM ResultsFollowCalls == Spec => []ResultsHaveCalls
<1>1. IInv /\ GoodSession => ResultsHaveCalls
  <2> SUFFICES ASSUME IInv, GoodSession, damage = 0, astray = "no", NEW ctx,
                      ctx = Context(Path(entries, leaf)), NEW i \in DOMAIN ctx,
                      ctx[i].kind = "result"
               PROVE  i > 1 /\ ctx[i - 1].kind = "assistant"
    BY DEF ResultsHaveCalls
  <2>. HIDE DEF Entry, FileLine
  <2>1. PICK p : p = Path(entries, leaf)
    OBVIOUS
  <2>2. nextId \in Nat /\ Grown(entries, nextId) /\ GoodPaths(entries)
    BY Facts DEF GoodSession
  <2>3. p \in Seq(Entry) /\ Good(p)
    BY <2>1, <2>2, PathIs, GoodPathAt
  <2>4. /\ ctx \in Seq(Entry)
        /\ \A j \in 1 .. Len(ctx) :
              ctx[j].kind = "result" => j > 1 /\ ctx[j - 1].kind = "assistant"
    BY <2>1, <2>3, ContextGood
  <2>5. i \in 1 .. Len(ctx)
    BY <2>4, LenProperties
  <2>. QED  BY <2>4, <2>5
<1>2. IInv /\ Preparing /\ GoodSession /\ [Next]_vars => GoodSession'
  BY NextGood
<1>. QED  BY <1>1, <1>2, InitGood, Invariance, PTL DEF Spec

-----------------------------------------------------------------------------
(* What a fork sends to the model.                                          *)

(* The places of what is shown from f on.                                   *)
From(p, f) == {x \in 1 .. Len(p) : f <= x /\ p[x].kind \in ShownKinds}

(* After h for the summary of a compaction, what stands at the places Q.    *)
Sends(ctx, p, f, h, Q, m) ==
    /\ Len(ctx) = h + m /\ Places(Q, m, From(p, f))
    /\ \A k \in 1 .. m : ctx[h + k] = p[Q[k]]

LEMMA FromPlaces ==
    ASSUME NEW p \in Seq(Entry), NEW c, NEW f, NEW b, NEW s, NEW ctx,
           Shows(ctx, p, c, f, b, s), NEW t, t = OfKind(s, ShownKinds)
    PROVE  \E Q : \E m \in Nat : /\ m = Len(t) /\ Places(Q, m, From(p, f))
                                 /\ \A k \in 1 .. m : t[k] = p[Q[k]]
<1>. HIDE DEF Entry
<1>10. PICK n \in Nat, z \in Nat : n = Len(p) /\ z = Len(s)
  BY LenProperties DEF Shows
<1>11. /\ f \in Nat /\ b \in Nat /\ s \in Seq(Entry) /\ f = b + 1 /\ b + z = n
       /\ \A i \in 1 .. z : s[i] = p[b + i]
  BY <1>10 DEF Shows
<1>12. PICK m \in Nat : m = Len(t)
  <2>1. t \in Seq(Entry)
    BY <1>11, OfKindIs
  <2>. QED  BY <2>1, LenProperties
<1> DEFINE D == KindAt(s, ShownKinds)
           E == From(p, f)
<1>1. PICK P : Stands(t, P, s, D)
  BY <1>11, OfKindIs
<1>2. /\ \A i : i \in D <=> i \in 1 .. z /\ s[i].kind \in ShownKinds
      /\ \A x : x \in E <=> x \in 1 .. n /\ f <= x /\ p[x].kind \in ShownKinds
  BY <1>10 DEF KindAt, From
<1>. HIDE DEF D, E
<1>3. /\ \A k \in 1 .. m : P[k] \in D
      /\ \A k \in 1 .. m : t[k] = s[P[k]]
      /\ \A d \in D : \E k \in 1 .. m : P[k] = d
      /\ \A i, j \in 1 .. m : i < j => P[i] < P[j]
  BY <1>1, <1>12 DEF Stands, Places
<1> DEFINE Q == [k \in 1 .. m |-> b + P[k]]
<1>4. \A k \in 1 .. m : Q[k] = b + P[k]
  OBVIOUS
<1>. HIDE DEF Q
<1>5. \A k \in 1 .. m : P[k] \in 1 .. z /\ s[P[k]].kind \in ShownKinds
  BY <1>2, <1>3
<1>6. ASSUME NEW k \in 1 .. m PROVE Q[k] \in E /\ t[k] = p[Q[k]]
  <2>1. PICK i \in 1 .. z : i = P[k] /\ s[i].kind \in ShownKinds
    BY <1>5
  <2>2. Q[k] = b + i /\ b + i \in 1 .. n /\ f <= b + i /\ s[i] = p[b + i]
    BY <1>4, <1>11, <2>1
  <2>. QED  BY <1>2, <1>3, <2>1, <2>2
<1>7. ASSUME NEW x \in E PROVE \E k \in 1 .. m : Q[k] = x
  <2>1. x \in 1 .. n /\ f <= x /\ p[x].kind \in ShownKinds
    BY <1>2
  <2>2. PICK i \in 1 .. z : x = b + i
    <3>1. x - b \in 1 .. z /\ x = b + (x - b)
      BY <1>11, <2>1
    <3>. QED  BY <3>1
  <2>3. i \in D
    BY <1>2, <1>11, <2>1, <2>2
  <2>4. PICK k \in 1 .. m : P[k] = i
    BY <1>3, <2>3
  <2>. QED  BY <1>4, <2>2, <2>4
<1>8. ASSUME NEW i \in 1 .. m, NEW j \in 1 .. m, i < j PROVE Q[i] < Q[j]
  <2>1. PICK u \in 1 .. z, v \in 1 .. z : u = P[i] /\ v = P[j] /\ u < v
    BY <1>3, <1>5, <1>8
  <2>2. b + u < b + v
    BY <1>11, <2>1
  <2>. QED  BY <1>4, <2>1, <2>2
<1>9. Places(Q, m, E)
  BY <1>6, <1>7, <1>8 DEF Places
<1>. QED  BY <1>6, <1>9, <1>12 DEF E

LEMMA ContextPlaces ==
    ASSUME NEW p \in Seq(Entry), NEW c \in Nat, c = LatestCompaction(p),
           NEW f, f = (IF c = 0 THEN 1 ELSE FirstKept(p, c)),
           NEW h \in Nat, h = (IF c = 0 THEN 0 ELSE 1),
           NEW ctx, ctx = Context(p)
    PROVE  /\ ctx \in Seq(Entry) /\ (c # 0 => ctx[1] = p[c])
           /\ \E Q : \E m \in Nat : Sends(ctx, p, f, h, Q, m)
<1>. HIDE DEF Entry
<1>1. PICK n \in Nat : n = Len(p)
  BY LenProperties
<1>2. PICK g, b, s : Shows(ctx, p, c, g, b, s)
  BY ContextIs
<1>3. f = g /\ ctx = (IF c = 0 THEN <<>> ELSE <<p[c]>>) \o OfKind(s, ShownKinds)
      /\ s \in Seq(Entry)
  BY <1>2 DEF Shows
<1>4. PICK t : t = OfKind(s, ShownKinds)
  OBVIOUS
<1>5. t \in Seq(Entry)
  BY <1>3, <1>4, OfKindIs
<1>7. PICK Q : \E m \in Nat : /\ m = Len(t) /\ Places(Q, m, From(p, g))
                            /\ \A k \in 1 .. m : t[k] = p[Q[k]]
  BY <1>2, <1>4, FromPlaces
<1>6. PICK m \in Nat : /\ m = Len(t) /\ Places(Q, m, From(p, f))
                     /\ \A k \in 1 .. m : t[k] = p[Q[k]]
  BY <1>3, <1>7
<1>8. CASE c = 0
  <2>1. ctx = <<>> \o t
    BY <1>3, <1>4, <1>8
  <2>2. <<>> \o t = t
    BY <1>5, ConcatEmptySeq
  <2>3. ctx = t /\ h = 0
    BY <1>8, <2>1, <2>2
  <2>4. Len(ctx) = h + m /\ \A k \in 1 .. m : h + k = k
    BY <1>6, <2>3
  <2>5. Sends(ctx, p, f, h, Q, m)
    BY <1>6, <2>3, <2>4 DEF Sends
  <2>. QED  BY <1>5, <1>8, <2>3, <2>5
<1>9. CASE c # 0
  <2> DEFINE pre == <<p[c]>>
  <2>1. pre \in Seq(Entry) /\ Len(pre) = 1 /\ pre[1] = p[c]
    <3>1. c \in 1 .. n
      BY <1>1, <1>9, LatestIs
    <3>2. p[c] \in Entry
      BY <1>1, <3>1, EntryIs
    <3>. QED  BY <3>2
  <2>2. ctx = pre \o t
    BY <1>3, <1>4, <1>9
  <2>. HIDE DEF pre
  <2>3. t \in Seq(Entry) /\ pre \in Seq(Entry)
    BY <1>5, <2>1
  <2>4. pre \o t \in Seq(Entry) /\ Len(pre \o t) = Len(pre) + Len(t)
    BY <2>3, ConcatIs
  <2>5. \A i \in 1 .. Len(pre) : (pre \o t)[i] = pre[i]
    BY <2>3, ConcatIs
  <2>6. \A i \in 1 .. Len(t) : (pre \o t)[Len(pre) + i] = t[i]
    BY <2>3, ConcatSecond
  <2>7. h = 1 /\ Len(ctx) = h + m
    BY <1>6, <1>9, <2>1, <2>2, <2>4
  <2>8. ctx[1] = p[c]
    <3>1. 1 \in 1 .. Len(pre)
      BY <2>1
    <3>. QED  BY <2>1, <2>2, <2>5, <3>1
  <2>9. \A k \in 1 .. m : ctx[h + k] = t[k]
    BY <1>6, <2>1, <2>2, <2>6, <2>7
  <2>10. Sends(ctx, p, f, h, Q, m)
    BY <1>6, <2>7, <2>9 DEF Sends
  <2>. QED  BY <2>2, <2>4, <2>8, <2>10
<1>. QED  BY <1>8, <1>9

(* The latest compaction is the latest of the fork.                         *)
LEMMA TakenLatest ==
    ASSUME NEW p \in Seq(Entry), NEW new \in Seq(Entry), NEW P, NEW m \in Nat,
           TakenOver(new, p, P, m), m <= Len(new),
           NEW c \in Nat, c = LatestCompaction(p),
           NEW d \in Nat, d = LatestCompaction(new)
    PROVE  /\ d = 0 <=> c = 0
           /\ d # 0 => d \in 1 .. m /\ P[d] = c /\ new[d].kind = "compaction"
<1>. HIDE DEF Entry
<1>1. PICK n \in Nat, z \in Nat : n = Len(p) /\ z = Len(new)
  BY LenProperties
<1>2. /\ \A i \in 1 .. m : P[i] \in 1 .. n
      /\ \A i \in 1 .. m : new[i].kind = p[P[i]].kind
      /\ \A x \in 1 .. n : p[x].kind # "label" => \E i \in 1 .. m : P[i] = x
      /\ \A i, j \in 1 .. m : i < j => P[i] < P[j]
      /\ \A i \in 1 .. z : i \in 1 .. m \/ new[i].kind = "label"
  BY <1>1 DEF TakenOver
<1>3. /\ c # 0 => c \in 1 .. n /\ p[c].kind = "compaction"
      /\ \A i \in 1 .. n : p[i].kind = "compaction" => i <= c
  BY <1>1, LatestIs
<1>4. /\ d # 0 => d \in 1 .. z /\ new[d].kind = "compaction"
      /\ \A i \in 1 .. z : new[i].kind = "compaction" => i <= d
  BY <1>1, LatestIs
<1>5. ASSUME c # 0 PROVE \E i \in 1 .. m : P[i] = c /\ i <= d
  <2>1. c \in 1 .. n /\ p[c].kind = "compaction"
    BY <1>3, <1>5
  <2>2. PICK i \in 1 .. m : P[i] = c
    BY <1>2, <2>1
  <2>3. i \in 1 .. z /\ new[i].kind = "compaction"
    BY <1>1, <1>2, <2>1, <2>2
  <2>. QED  BY <1>4, <2>2, <2>3
<1>6. ASSUME d # 0 PROVE d \in 1 .. m /\ P[d] \in 1 .. n /\ P[d] <= c
  <2>1. d \in 1 .. m
    BY <1>2, <1>4, <1>6
  <2>2. P[d] \in 1 .. n /\ p[P[d]].kind = "compaction"
    BY <1>2, <1>4, <1>6, <2>1
  <2>. QED  BY <1>3, <2>1, <2>2
<1>7. ASSUME d # 0 PROVE P[d] = c
  <2>1. d \in 1 .. m /\ P[d] \in 1 .. n /\ P[d] <= c
    BY <1>6, <1>7
  <2>2. PICK i \in 1 .. m : P[i] = c /\ i <= d
    <3>1. c # 0
      BY <2>1
    <3>. QED  BY <1>5, <3>1
  <2>3. i < d => P[i] < P[d]
    BY <1>2, <2>1
  <2>. QED  BY <2>1, <2>2, <2>3
<1>8. c # 0 => d # 0
  BY <1>5
<1>9. d # 0 => c # 0
  <2>1. d # 0 => P[d] \in 1 .. n /\ P[d] <= c
    BY <1>6
  <2>. QED  BY <1>7, <2>1
<1>. QED  BY <1>4, <1>6, <1>7, <1>8, <1>9

(* What the fork shows stands at the places of what is shown on the path.   *)
LEMMA TakenPlaces ==
    ASSUME NEW p \in Seq(Entry), NEW new \in Seq(Entry), NEW P, NEW m \in Nat,
           TakenOver(new, p, P, m), m <= Len(new),
           NEW f \in Nat, NEW g \in Nat, (f = 1 /\ g = 1) \/ (g \in 1 .. m /\ P[g] = f),
           NEW w \in Nat, NEW R, Places(R, w, From(new, g))
    PROVE  \E Q : /\ Places(Q, w, From(p, f))
                  /\ \A k \in 1 .. w : p[Q[k]].id = new[R[k]].id
<1>. HIDE DEF Entry
<1> DEFINE D == From(new, g)
           E == From(p, f)
<1>1. PICK n \in Nat, z \in Nat : n = Len(p) /\ z = Len(new)
  BY LenProperties
<1>2. /\ \A i : i \in D <=> i \in 1 .. z /\ g <= i /\ new[i].kind \in ShownKinds
      /\ \A x : x \in E <=> x \in 1 .. n /\ f <= x /\ p[x].kind \in ShownKinds
  BY <1>1 DEF From
<1>. HIDE DEF D, E
<1>3. /\ \A i \in 1 .. m : P[i] \in 1 .. n
      /\ \A i \in 1 .. m : new[i].kind = p[P[i]].kind /\ new[i].id = p[P[i]].id
      /\ \A x \in 1 .. n : p[x].kind # "label" => \E i \in 1 .. m : P[i] = x
      /\ \A i, j \in 1 .. m : i < j => P[i] < P[j]
      /\ \A i \in 1 .. z : i \in 1 .. m \/ new[i].kind = "label"
  BY <1>1 DEF TakenOver
<1>4. /\ \A k \in 1 .. w : R[k] \in D
      /\ \A d \in D : \E k \in 1 .. w : R[k] = d
      /\ \A i, j \in 1 .. w : i < j => R[i] < R[j]
  BY DEF Places, D
<1>5. "label" \notin ShownKinds
  BY DEF ShownKinds, MessageKinds
<1>6. \A d \in D : d \in 1 .. m /\ g <= d
  BY <1>2, <1>3, <1>5
<1>7. ASSUME NEW i \in 1 .. m, g <= i PROVE f <= P[i]
  <2>1. P[i] \in 1 .. n
    BY <1>3
  <2>2. CASE f = 1 /\ g = 1
    BY <2>1, <2>2
  <2>3. CASE g \in 1 .. m /\ P[g] = f
    <3>1. g < i => f < P[i]
      BY <1>3, <2>3
    <3>. QED  BY <1>7, <2>1, <2>3, <3>1
  <2>. QED  BY <2>2, <2>3
<1>8. ASSUME NEW i \in 1 .. m, f <= P[i] PROVE g <= i
  <2>1. CASE f = 1 /\ g = 1
    BY <2>1
  <2>2. CASE g \in 1 .. m /\ P[g] = f
    <3>1. i < g => P[i] < f
      BY <1>3, <2>2
    <3>2. P[i] \in 1 .. n
      BY <1>3
    <3>. QED  BY <1>8, <2>2, <3>1, <3>2
  <2>. QED  BY <2>1, <2>2
<1> DEFINE Q == [k \in 1 .. w |-> P[R[k]]]
<1>9. \A k \in 1 .. w : Q[k] = P[R[k]]
  OBVIOUS
<1>. HIDE DEF Q
<1>10. ASSUME NEW k \in 1 .. w PROVE Q[k] \in E /\ p[Q[k]].id = new[R[k]].id
  <2>1. PICK d \in D : d = R[k]
    BY <1>4
  <2>2. d \in 1 .. m /\ d \in 1 .. z /\ g <= d /\ new[d].kind \in ShownKinds
    BY <1>2, <1>6
  <2>3. P[d] \in 1 .. n /\ f <= P[d] /\ p[P[d]].kind \in ShownKinds
        /\ p[P[d]].id = new[d].id
    BY <1>3, <1>7, <2>2
  <2>4. Q[k] = P[d]
    BY <1>9, <2>1
  <2>. QED  BY <1>2, <2>1, <2>3, <2>4
<1>11. ASSUME NEW x \in E PROVE \E k \in 1 .. w : Q[k] = x
  <2>1. x \in 1 .. n /\ f <= x /\ p[x].kind \in ShownKinds
    BY <1>2
  <2>2. PICK i \in 1 .. m : P[i] = x
    BY <1>3, <1>5, <2>1
  <2>3. g <= i /\ i \in 1 .. z /\ new[i].kind \in ShownKinds
    BY <1>1, <1>3, <1>8, <2>1, <2>2
  <2>4. PICK k \in 1 .. w : R[k] = i
    BY <1>2, <1>4, <2>3
  <2>. QED  BY <1>9, <2>2, <2>4
<1>12. ASSUME NEW i \in 1 .. w, NEW j \in 1 .. w, i < j PROVE Q[i] < Q[j]
  <2>1. R[i] \in 1 .. m /\ R[j] \in 1 .. m /\ R[i] < R[j]
    BY <1>4, <1>6, <1>12
  <2>2. P[R[i]] < P[R[j]]
    BY <1>3, <2>1
  <2>. QED  BY <1>9, <2>2
<1>13. Places(Q, w, E)
  BY <1>10, <1>11, <1>12 DEF Places
<1>. QED  BY <1>10, <1>13 DEF E

(* A fork sends the same, but for a compaction that keeps from a label on.  *)
LEMMA TakenContext ==
    ASSUME NEW p \in Seq(Entry), NEW new \in Seq(Entry), NEW P, NEW m \in Nat,
           TakenOver(new, p, P, m), m <= Len(new),
           \A i, j \in 1 .. Len(p) : i < j => p[i].id < p[j].id,
           NEW c \in Nat, c = LatestCompaction(p),
           \A x \in 1 .. c - 1 : c # 0 /\ p[x].id = p[c].ref => p[x].kind # "label",
           NEW a, a = Context(p), NEW b, b = Context(new)
    PROVE  /\ a \in Seq(Entry) /\ b \in Seq(Entry) /\ Len(a) = Len(b)
           /\ \A i \in 1 .. Len(a) : a[i].id = b[i].id
<1>. HIDE DEF Entry
<1>1. PICK d \in Nat : d = LatestCompaction(new)
  BY LatestIs
<1>2. /\ d = 0 <=> c = 0
      /\ d # 0 => d \in 1 .. m /\ P[d] = c /\ new[d].kind = "compaction"
  BY <1>1, TakenLatest
<1>3. PICK n \in Nat : n = Len(p)
  BY LenProperties
<1>4. PICK f \in Nat : f = (IF c = 0 THEN 1 ELSE FirstKept(p, c)) /\ (c # 0 => f \in 1 .. c)
  BY FirstKeptIs
<1>5. PICK g \in Nat : g = (IF d = 0 THEN 1 ELSE FirstKept(new, d)) /\ (d # 0 => g \in 1 .. d)
  BY FirstKeptIs
<1>6. c # 0 => c \in 1 .. n
  BY <1>3, LatestIs
<1>7. (f = 1 /\ g = 1) \/ (g \in 1 .. m /\ P[g] = f)
  <2>1. CASE c = 0
    BY <1>2, <1>4, <1>5, <2>1
  <2>2. CASE c # 0 /\ g # d
    <3>1. d # 0 /\ d \in 1 .. m /\ P[d] = c /\ new[d].kind = "compaction"
          /\ g = FirstKept(new, d) /\ f = FirstKept(p, c)
      BY <1>2, <1>4, <1>5, <2>2
    <3>2. P[FirstKept(new, d)] = FirstKept(p, P[d]) /\ FirstKept(new, d) \in 1 .. d - 1
      BY <2>2, <3>1, TakenFirst
    <3>3. P[g] = f /\ g \in 1 .. d - 1
      BY <3>1, <3>2
    <3>. QED  BY <3>1, <3>3
  <2>3. CASE c # 0 /\ g = d
    <3>1. d # 0 /\ d \in 1 .. m /\ P[d] = c /\ g = FirstKept(new, d) /\ f = FirstKept(p, c)
      BY <1>2, <1>4, <1>5, <2>3
    <3>2. SUFFICES ASSUME f # c PROVE FALSE
      BY <2>3, <3>1
    <3>3. f \in 1 .. c - 1 /\ f \in 1 .. n /\ f < c
      BY <1>4, <1>6, <2>3, <3>2
    <3>4. p[f].id = p[c].ref
      BY <2>3, <3>1, <3>2, FirstKeptIs
    <3>5. p[f].kind # "label"
      BY <2>3, <3>3, <3>4
    <3>6. PICK i \in 1 .. m : P[i] = f
      BY <1>3, <3>3, <3>5 DEF TakenOver
    <3>7. i < d
      <4>1. d < i => P[d] < P[i]
        BY <3>1 DEF TakenOver
      <4>2. i # d
        BY <3>1, <3>3, <3>6
      <4>. QED  BY <3>1, <3>3, <3>6, <4>1, <4>2
    <3>8. i \in 1 .. d - 1
      BY <3>7
    <3>9. new[i].id = new[d].ref
      <4>1. new[i].id = p[f].id /\ new[d].ref = p[c].ref
        BY <3>1, <3>6 DEF TakenOver
      <4>. QED  BY <3>4, <4>1
    <3>10. d \in Nat /\ d # 0
      BY <3>1
    <3>11. FirstKept(new, d) # d
      BY <3>8, <3>9, <3>10, FirstKeptIs
    <3>. QED  BY <2>3, <3>1, <3>11
  <2>. QED  BY <2>1, <2>2, <2>3
<1>8. PICK h \in Nat : h = (IF c = 0 THEN 0 ELSE 1) /\ h = (IF d = 0 THEN 0 ELSE 1)
  BY <1>2
<1>9. /\ a \in Seq(Entry) /\ (c # 0 => a[1] = p[c])
      /\ \E Q : \E k \in Nat : Sends(a, p, f, h, Q, k)
  BY <1>4, <1>8, ContextPlaces
<1>10. /\ b \in Seq(Entry) /\ (d # 0 => b[1] = new[d])
       /\ \E R : \E w \in Nat : Sends(b, new, g, h, R, w)
  BY <1>1, <1>5, <1>8, ContextPlaces
<1>11. PICK S : \E k \in Nat : Sends(a, p, f, h, S, k)
  BY <1>9
<1>12. PICK R : \E w \in Nat : Sends(b, new, g, h, R, w)
  BY <1>10
<1>20. PICK k \in Nat : Sends(a, p, f, h, S, k)
  BY <1>11
<1>21. PICK w \in Nat : Sends(b, new, g, h, R, w)
  BY <1>12
<1>13. Places(R, w, From(new, g)) /\ Places(S, k, From(p, f))
  BY <1>20, <1>21 DEF Sends
<1>14. PICK Q : Places(Q, w, From(p, f)) /\ \A i \in 1 .. w : p[Q[i]].id = new[R[i]].id
  BY <1>7, <1>13, TakenPlaces
<1>15. k = w /\ \A i \in 1 .. k : S[i] = Q[i]
  <2>1. From(p, f) \subseteq Nat
    BY DEF From
  <2>. QED  BY <1>13, <1>14, <2>1, PlacesUnique
<1>16. Len(a) = h + w /\ Len(b) = h + w
  BY <1>20, <1>21, <1>15 DEF Sends
<1>17. \A i \in 1 .. w : a[h + i].id = b[h + i].id
  <2>1. \A i \in 1 .. w : a[h + i] = p[S[i]] /\ b[h + i] = new[R[i]]
    BY <1>20, <1>21, <1>15 DEF Sends
  <2>. QED  BY ZenonT(60), <1>14, <1>15, <2>1
<1>18. c # 0 => a[1].id = b[1].id
  <2>1. c # 0 => new[d].id = p[c].id
    BY <1>2 DEF TakenOver
  <2>. QED  BY <1>2, <1>9, <1>10, <2>1
<1>19. ASSUME NEW i \in 1 .. h + w PROVE a[i].id = b[i].id
  <2>1. CASE c # 0 /\ i = 1
    BY <1>18, <2>1
  <2>2. CASE ~(c # 0 /\ i = 1)
    <3>1. i - h \in 1 .. w /\ i = h + (i - h)
      BY <1>8, <2>2
    <3>2. PICK j \in 1 .. w : i = h + j
      BY <3>1
    <3>. QED  BY <1>17, <3>2
  <2>. QED  BY <2>1, <2>2
<1>. QED  BY <1>9, <1>10, <1>16, <1>19

(* A fork at any entry sends the same to the model as the entry did, unless *)
(* the latest compaction before it keeps from a label on.                   *)
THEOREM ForkSendsTheSame == Spec => []ForkKeepsContextButForLabels
<1>1. IInv => ForkKeepsContextButForLabels
  <2> SUFFICES ASSUME IInv, NEW l \in Ids(entries), NEW p, p = Path(entries, l),
                      NEW c, c = LatestCompaction(p),
                      ~(/\ c > 0 /\ p[c].ref \in Ids(entries)
                        /\ At(entries, p[c].ref).kind = "label")
               PROVE  ForkedContext(l) = ContextIds(entries, l)
    BY DEF ForkKeepsContextButForLabels
  <2>. HIDE DEF Entry, FileLine
  <2>1. nextId \in Nat /\ Grown(entries, nextId)
    BY Facts
  <2>2. PICK new : new = Branched(entries, l, nextId)
    OBVIOUS
  <2>3. PICK h : h = Len(Labelled(entries, Kept(entries, l)))
    OBVIOUS
  <2>4. new \in Seq(Entry) /\ h \in Nat /\ Chain(new) /\ Grown(new, nextId + h)
    <3>1. PICK kept : kept = Kept(entries, l) /\ h = Len(Labelled(entries, kept))
      BY <2>3
    <3>. QED  BY <2>1, <2>2, <3>1, BranchedFields
  <2>5. Path(new, LastId(new)) = new
    <3>1. CASE new = <<>>
      <4>1. LastId(new) \notin Ids(new)
        BY <2>4, <3>1, GrownNone
      <4>. QED  BY <3>1, <4>1, PathOutside
    <3>2. CASE new # <<>>
      <4>1. PICK z \in Nat : z = Len(new) /\ z \in 1 .. Len(new)
        <5>1. Len(new) \in Nat /\ Len(new) # 0
          BY <2>4, <3>2, EmptySeq, LenProperties
        <5>. QED  BY <5>1
      <4>2. LastId(new) = new[z].id
        BY <3>2, <4>1 DEF LastId
      <4>3. Path(new, new[z].id) = SubSeq(new, 1, z)
        <5>1. nextId + h \in Nat
          BY <2>1, <2>4
        <5>. QED  BY <2>4, <4>1, <5>1, ChainPaths
      <4>4. SubSeq(new, 1, z) = new
        BY <2>4, <4>1, SubSeqFull
      <4>. QED  BY <4>2, <4>3, <4>4
    <3>. QED  BY <3>1, <3>2
  <2>6. PICK P : \E m \in Nat : m <= Len(new) /\ TakenOver(new, p, P, m)
    BY <2>1, <2>2, KeptPlaces
  <2>7. PICK m \in Nat : m <= Len(new) /\ TakenOver(new, p, P, m)
    BY <2>6
  <2>8. Shape(entries, p, l)
    BY <2>1, PathShape
  <2>9. /\ p \in Seq(Entry) /\ \A i, j \in 1 .. Len(p) : i < j => p[i].id < p[j].id
        /\ \A i \in 1 .. Len(p) : p[i].id \in Ids(entries) /\ p[i] = At(entries, p[i].id)
    BY <2>8 DEF Shape
  <2>10. c \in Nat /\ c \in 0 .. Len(p)
    BY <2>9, LatestIs
  <2>11. ASSUME NEW x \in 1 .. c - 1, c # 0, p[x].id = p[c].ref PROVE p[x].kind # "label"
    <3>1. x \in 1 .. Len(p) /\ c > 0
      BY <2>10, <2>9, LenProperties
    <3>2. p[c].ref \in Ids(entries) /\ p[x] = At(entries, p[c].ref)
      BY <2>9, <2>11, <3>1
    <3>. QED  BY <3>1, <3>2
  <2>12. PICK a, b : a = Context(p) /\ b = Context(new)
    OBVIOUS
  <2>13. /\ a \in Seq(Entry) /\ b \in Seq(Entry) /\ Len(a) = Len(b)
         /\ \A i \in 1 .. Len(a) : a[i].id = b[i].id
    BY SMTT(30), <2>4, <2>7, <2>9, <2>10, <2>11, <2>12, TakenContext
  <2>14. DOMAIN a = 1 .. Len(a) /\ DOMAIN b = 1 .. Len(a)
    BY <2>13, LenProperties
  <2>15. [i \in DOMAIN a |-> a[i].id] = [i \in DOMAIN b |-> b[i].id]
    BY <2>13, <2>14
  <2>16. ForkedContext(l) = [i \in DOMAIN b |-> b[i].id]
    BY <2>2, <2>5, <2>12 DEF ForkedContext, ContextIds
  <2>17. ContextIds(entries, l) = [i \in DOMAIN a |-> a[i].id]
    BY <2>12 DEF ContextIds
  <2>. QED  BY <2>15, <2>16, <2>17
<1>. QED  BY <1>1, Invariance, PTL

-----------------------------------------------------------------------------
(* What a compaction keeps.                                                 *)

(* A place from which the messages weigh the budget.                        *)
Spends(path, i) == Tokens(path, i) >= KeepRecent

LEMMA SpentIs ==
    ASSUME NEW path \in Seq(Entry), NEW start \in 1 .. Len(path),
           NEW s, s = BudgetSpent(path, start)
    PROVE  \A i \in start .. Len(path) :
              Spends(path, i) => s \in start .. Len(path) /\ Spends(path, s) /\ i <= s
<1> DEFINE at == {i \in start .. Len(path) : Tokens(path, i) >= KeepRecent}
<1>. HIDE DEF Entry
<1>1. PICK n \in Nat : n = Len(path)
  BY LenProperties
<1>2. BudgetSpent(path, start) = IF at = {} THEN 0 ELSE LastOf(at)
  BY DEF BudgetSpent, LastOf
<1>3. at \subseteq 1 .. n
  BY <1>1
<1>4. \A i \in start .. n : i \in at <=> Spends(path, i)
  BY <1>1 DEF Spends
<1>5. at \subseteq start .. n
  BY <1>1
<1>. HIDE DEF at
<1>6. SUFFICES ASSUME NEW i \in start .. n, i \in at PROVE s \in at /\ i <= s
  BY <1>1, <1>4, <1>5
<1>7. LastOf(at) \in at /\ \A j \in at : j <= LastOf(at)
  BY <1>1, <1>3, <1>6, LastIs
<1>. QED  BY <1>2, <1>6, <1>7

(* What is kept after its first message, m, does not weigh the budget,      *)
(* unless tool results alone do.                                            *)
LEMMA CutFits ==
    ASSUME NEW p \in Seq(Entry), CanCompact(p), NEW k, k = CutPoint(p, Start(p)),
           NEW m \in 1 .. Len(p), k <= m, p[m].kind \in MessageKinds,
           NEW i \in 1 .. Len(p), m < i, Spends(p, i)
    PROVE  \E s \in i .. Len(p) :
              Spends(p, s) /\ \A x \in s .. Len(p) : ~CanCut(p[x])
<1>. HIDE DEF Entry
<1>1. PICK n \in Nat : n = Len(p)
  BY LenProperties
<1>2. PICK start \in Nat : start = Start(p) /\ start \in 1 .. n
  BY <1>1, StartIs
<1>3. k \in start .. n /\ k \in Nat
  <2>1. k \in start .. n
    BY <1>1, <1>2, CutIs
  <2>. QED  BY <1>2, <2>1
<1>4. i \in start .. n /\ i \in Nat /\ m \in Nat
  BY <1>1, <1>2, <1>3
<1>5. PICK s : s = BudgetSpent(p, start)
  OBVIOUS
<1>6. s \in start .. n /\ Spends(p, s) /\ i <= s
  BY <1>1, <1>2, <1>4, <1>5, SpentIs
<1>7. s \in Nat /\ s > 0 /\ s \in i .. n
  BY <1>2, <1>4, <1>6
<1>8. SUFFICES ASSUME NEW x \in s .. n, CanCut(p[x]) PROVE FALSE
  BY <1>1, <1>6, <1>7
<1>9. x \in start .. n /\ x >= s /\ x \in Cuts(p, start)
  <2>1. x \in start .. n /\ x >= s
    BY <1>2, <1>6, <1>7
  <2>. QED  BY <1>1, <1>8, <2>1 DEF Cuts
<1>10. PICK cut \in Nat : CutAt(p, start, cut)
  BY <1>1, <1>2, <1>9, CutIs
<1>11. /\ cut >= s /\ k <= cut
       /\ \A j \in k .. cut - 1 : p[j].kind \in {"label", "summary"}
  BY <1>2, <1>5, <1>7, <1>9, <1>10 DEF CutAt
<1>12. ~(m \in k .. cut - 1)
  BY <1>11 DEF MessageKinds
<1>13. cut <= m
  BY <1>3, <1>4, <1>12
<1>. QED  BY <1>4, <1>6, <1>7, <1>11, <1>13

(* CompactionBounded: whatever the messages weigh, after the first message  *)
(* that it keeps of its path a compaction keeps less than the budget, or    *)
(* else tool results alone spend it.                                        *)
THEOREM CompactionFits == Spec => []CompactionBounded
<1>1. IInv /\ Preparing => CompactionBounded
  <2> SUFFICES ASSUME IInv, Preparing, NEW w \in prepared, NEW p,
                      p = Path(entries, w.from),
                      NEW m \in 1 .. Len(p), \E k \in 1 .. m : p[k].id = w.ref,
                      NEW i \in 1 .. Len(p), p[m].kind \in MessageKinds, m < i,
                      Spends(p, i)
               PROVE  \E s \in i .. Len(p) :
                         /\ Spends(p, s)
                         /\ \A x \in s .. Len(p) :
                               p[x].kind \notin {"user", "assistant", "summary"}
    BY DEF CompactionBounded, Spends
  <2>. HIDE DEF Entry, FileLine
  <2>1. nextId \in Nat /\ Grown(entries, nextId) /\ w.from \in Ids(entries)
        /\ CanCompact(p) /\ w.ref = FirstToKeep(p)
    BY Facts DEF Preparing
  <2>2. p \in Seq(Entry) /\ \A a, b \in 1 .. Len(p) : a < b => p[a].id < p[b].id
    <3>1. Shape(entries, p, w.from)
      BY <2>1, PathShape
    <3>. QED  BY <3>1 DEF Shape
  <2>3. PICK n \in Nat : n = Len(p)
    BY <2>2, LenProperties
  <2>4. PICK k : k = CutPoint(p, Start(p))
    OBVIOUS
  <2>5. k \in 1 .. n /\ w.ref = p[k].id
    <3>1. Start(p) \in 1 .. n /\ w.ref = p[k].id
      BY <2>1, <2>2, <2>3, <2>4, StartIs
    <3>2. k \in Start(p) .. n
      BY <2>2, <2>3, <2>4, <3>1, CutIs
    <3>. QED  BY <3>1, <3>2
  <2>6. k <= m
    <3>1. PICK j \in 1 .. m : p[j].id = p[k].id
      BY <2>5
    <3>2. j \in 1 .. n /\ p[j].id \in Nat
      <4>1. j \in 1 .. n
        BY <2>3
      <4>. QED  BY <2>2, <2>3, <4>1, EntryIs
    <3>3. ~(j < k)
      BY <2>2, <2>3, <2>5, <3>1, <3>2
    <3>. QED  BY <2>5, <3>1, <3>3
  <2>7. PICK s \in i .. n : Spends(p, s) /\ \A x \in s .. n : ~CanCut(p[x])
    BY <2>1, <2>2, <2>3, <2>4, <2>6, CutFits
  <2>. QED  BY <2>3, <2>7 DEF CanCut
<1>. QED  BY <1>1, Invariance, PTL

=============================================================================
