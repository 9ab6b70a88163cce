------------------------ MODULE FreeRTOSKernel_proofs ------------------------
(***************************************************************************)
(* What the functions of list.c and tasks.c do to the lists of the kernel, *)
(* for any number of tasks, priorities and lists of any length: each       *)
(* leaves every task in the one list it is meant to be in.                 *)
(***************************************************************************)
EXTENDS FreeRTOSInvariant, SequenceTheorems, FiniteSetTheorems, WellFoundedInduction, TLAPS

(* Numbers. *)

\* A set of numbers has a least one.
LEMMA LeastNumber ==
    ASSUME NEW S \in SUBSET Nat, S # {}
    PROVE  Min(S) \in S /\ \A n \in S : Min(S) <= n
<1>1. \E x \in S : \A y \in S : <<y, x>> \notin OpToRel(<, Nat)
  BY NatLessThanWellFounded, WFMin, Zenon
<1>2. PICK x \in S : \A y \in S : <<y, x>> \notin OpToRel(<, Nat)
  BY <1>1
<1>3. ASSUME NEW y \in S PROVE x <= y
  <2>1. OpToRel(<, Nat) = {p \in Nat \X Nat : p[1] < p[2]}
    BY Zenon DEF OpToRel
  <2>2. <<y, x>> \notin {p \in Nat \X Nat : p[1] < p[2]}
    BY <1>2, <2>1
  <2> QED BY <2>2
<1> QED BY <1>2, <1>3 DEF Min

\* What holds before the first round of a loop and is kept by each round holds
\* after any number of them.
LEMMA Rounds ==
    ASSUME NEW T \in SUBSET Nat, 0 \in T, \A n \in T : n + 1 \in T
    PROVE  T = Nat
<1> SUFFICES ASSUME Nat \ T # {} PROVE FALSE
  OBVIOUS
<1>1. Min(Nat \ T) \in Nat \ T /\ \A n \in Nat \ T : Min(Nat \ T) <= n
  BY LeastNumber
<1> QED BY <1>1

\* A set of numbers up to n has a greatest one.
LEMMA GreatestNumber ==
    ASSUME NEW n \in Nat, NEW S \in SUBSET (0 .. n), S # {}
    PROVE  Max(S) \in S /\ \A m \in S : m <= Max(S)
<1> DEFINE R == {m \in 0 .. n : n - m \in S}
<1>1. R \in SUBSET Nat /\ R # {}
  <2>1. PICK m \in S : TRUE
    OBVIOUS
  <2>2. n - m \in R
    BY <2>1
  <2> QED BY <2>2
<1>2. Min(R) \in R /\ \A m \in R : Min(R) <= m
  BY <1>1, LeastNumber
<1>3. n - Min(R) \in S /\ \A m \in S : m <= n - Min(R)
  <2>1. \A m \in S : n - m \in R
    OBVIOUS
  <2> QED BY <1>2, <2>1
<1> QED BY <1>3 DEF Max

-----------------------------------------------------------------------------
(* Lists. *)

\* Whom a list holds.
LEMMA HoldsIs ==
    ASSUME NEW l, NEW t \in Tasks
    PROVE  Holds(l, t) <=> \E i \in DOMAIN l : l[i] = t
BY KernelAssumption DEF Holds

\* A list from a sequence without repetition.
LEMMA ListFrom ==
    ASSUME NEW l, ListTypeOK(l)
    PROVE  /\ l \in Seq(Tasks \cup {xListEnd}) /\ Len(l) \in Nat /\ Len(l) >= 1
           /\ DOMAIN l = 1 .. Len(l)
           /\ \A i \in 1 .. Len(l) : l[i] \in Tasks \cup {xListEnd}
           /\ \A i, j \in 1 .. Len(l) : l[i] = l[j] => i = j
           /\ \E i \in 1 .. Len(l) : l[i] = xListEnd
<1>1. l \in Seq(Tasks \cup {xListEnd}) /\ DOMAIN l = 1 .. Len(l) /\ Len(l) \in Nat
  BY DEF ListTypeOK
<1> QED BY <1>1 DEF ListTypeOK

\* A list of tasks without repetition, with the end marker put before it.
LEMMA ListOf ==
    ASSUME NEW s \in Seq(Tasks), \A i, j \in 1 .. Len(s) : s[i] = s[j] => i = j
    PROVE  /\ ListTypeOK(<<xListEnd>> \o s)
           /\ \A t \in Tasks : Holds(<<xListEnd>> \o s, t) <=> \E i \in 1 .. Len(s) : s[i] = t
<1> DEFINE r == <<xListEnd>> \o s
<1>1. /\ r \in Seq(Tasks \cup {xListEnd}) /\ Len(r) = Len(s) + 1 /\ Len(s) \in Nat
      /\ DOMAIN r = 1 .. Len(s) + 1
      /\ r[1] = xListEnd /\ \A i \in 1 .. Len(s) : r[i + 1] = s[i] /\ s[i] \in Tasks
  OBVIOUS
<1> HIDE DEF r
<1>2. \A i \in 2 .. Len(s) + 1 : i - 1 \in 1 .. Len(s) /\ r[i] = s[i - 1] /\ r[i] # xListEnd
  <2>1. ASSUME NEW i \in 2 .. Len(s) + 1 PROVE i - 1 \in 1 .. Len(s) /\ (i - 1) + 1 = i
    BY <1>1
  <2> QED BY <2>1, <1>1, KernelAssumption
<1>3. ASSUME NEW i \in 1 .. Len(s) + 1, NEW j \in 1 .. Len(s) + 1, r[i] = r[j] PROVE i = j
  BY <1>1, <1>2, <1>3
<1>4. ListTypeOK(r)
  BY <1>1, <1>3 DEF ListTypeOK
<1>5. ASSUME NEW t \in Tasks PROVE Holds(r, t) <=> \E i \in 1 .. Len(s) : s[i] = t
  <2>1. Holds(r, t) <=> \E i \in 1 .. Len(s) + 1 : r[i] = t
    BY <1>1, HoldsIs
  <2>2. ASSUME NEW i \in 1 .. Len(s), s[i] = t PROVE \E j \in 1 .. Len(s) + 1 : r[j] = t
    <3>1. i + 1 \in 1 .. Len(s) + 1 /\ r[i + 1] = t
      BY <1>1, <2>2
    <3> QED BY <3>1
  <2>3. ASSUME NEW j \in 1 .. Len(s) + 1, r[j] = t PROVE \E i \in 1 .. Len(s) : s[i] = t
    <3>1. j \in 2 .. Len(s) + 1
      BY <1>1, <2>3, KernelAssumption
    <3> QED BY <3>1, <1>2, <2>3
  <2> QED BY <2>1, <2>2, <2>3
<1> QED BY <1>4, <1>5 DEF r

\* vListInitialise: the list is empty.
LEMMA Initialised ==
    ListTypeOK(vListInitialise) /\ \A t \in Tasks : ~Holds(vListInitialise, t)
<1>1. <<>> \in Seq(Tasks) /\ Len(<<>>) = 0 /\ vListInitialise = <<xListEnd>> \o <<>>
  BY EmptySeq DEF vListInitialise
<1>2. 1 .. 0 = {}
  OBVIOUS
<1> QED BY <1>1, <1>2, ListOf

\* vListInsertEnd.
LEMMA InsertedLast ==
    ASSUME NEW l, ListTypeOK(l), NEW t \in Tasks, ~Holds(l, t)
    PROVE  /\ ListTypeOK(vListInsertEnd(l, t))
           /\ \A u \in Tasks : Holds(vListInsertEnd(l, t), u) <=> u = t \/ Holds(l, u)
<1> DEFINE r == Append(l, t)
           n == Len(l)
<1>1. /\ l \in Seq(Tasks \cup {xListEnd}) /\ n \in Nat /\ DOMAIN l = 1 .. n
      /\ \A i, j \in 1 .. n : l[i] = l[j] => i = j
      /\ \E i \in 1 .. n : l[i] = xListEnd
  BY ListFrom
<1>2. /\ r \in Seq(Tasks \cup {xListEnd}) /\ DOMAIN r = 1 .. n + 1
      /\ \A i \in 1 .. n : r[i] = l[i]
      /\ r[n + 1] = t
  BY <1>1
<1>3. \A i \in 1 .. n : l[i] # t
  BY <1>1, HoldsIs
<1>4. vListInsertEnd(l, t) = r
  BY DEF vListInsertEnd
<1> HIDE DEF r, n
<1>5. ASSUME NEW i \in 1 .. n + 1, NEW j \in 1 .. n + 1, r[i] = r[j] PROVE i = j
  <2>1. (i \in 1 .. n \/ i = n + 1) /\ (j \in 1 .. n \/ j = n + 1)
    BY <1>1
  <2> QED BY <2>1, <1>1, <1>2, <1>3, <1>5
<1>6. \A i \in 1 .. n : i \in 1 .. n + 1
  BY <1>1
<1>7. ListTypeOK(r)
  BY <1>1, <1>2, <1>5, <1>6 DEF ListTypeOK
<1>8. ASSUME NEW u \in Tasks PROVE Holds(r, u) <=> u = t \/ Holds(l, u)
  <2>1. Holds(r, u) <=> \E i \in 1 .. n + 1 : r[i] = u
    BY <1>2, HoldsIs
  <2>2. Holds(l, u) <=> \E i \in 1 .. n : l[i] = u
    BY <1>1, HoldsIs
  <2>3. n + 1 \in 1 .. n + 1 /\ \A i \in 1 .. n + 1 : i \in 1 .. n \/ i = n + 1
    BY <1>1
  <2> QED BY <2>1, <2>2, <2>3, <1>2, <1>6
<1> QED BY <1>4, <1>7, <1>8

\* A walk from the head of the list comes to every task it holds, once.
LEMMA ItemsAre ==
    ASSUME NEW l, ListTypeOK(l)
    PROVE  /\ Items(l) \in Seq(Tasks) /\ Len(Items(l)) = Len(l) - 1
           /\ \A i, j \in 1 .. Len(l) - 1 : Items(l)[i] = Items(l)[j] => i = j
           /\ \A t \in Tasks : Holds(l, t) <=> \E i \in 1 .. Len(l) - 1 : Items(l)[i] = t
<1> DEFINE n == Len(l)
           e == CHOOSE i \in DOMAIN l : l[i] = xListEnd
           s == Items(l)
           from(i) == IF i <= n - e THEN e + i ELSE i - (n - e)
           back(j) == IF j > e THEN j - e ELSE j + (n - e)
<1>1. /\ l \in Seq(Tasks \cup {xListEnd}) /\ n \in Nat /\ n >= 1 /\ DOMAIN l = 1 .. n
      /\ \A i \in 1 .. n : l[i] \in Tasks \cup {xListEnd}
      /\ \A i, j \in 1 .. n : l[i] = l[j] => i = j
      /\ \E i \in 1 .. n : l[i] = xListEnd
  BY ListFrom
<1>2. e \in 1 .. n /\ l[e] = xListEnd
  BY <1>1
<1>3. s = SubSeq(l, e + 1, n) \o SubSeq(l, 1, e - 1)
  BY DEF Items
<1> HIDE DEF n, e
<1>4. /\ Len(s) = n - 1 /\ s \in Seq(Tasks \cup {xListEnd})
      /\ \A i \in 1 .. n - 1 : s[i] = l[from(i)]
  <2> DEFINE x == SubSeq(l, e + 1, n)
             y == SubSeq(l, 1, e - 1)
  <2>1. /\ x \in Seq(Tasks \cup {xListEnd}) /\ Len(x) = n - e
        /\ \A i \in 1 .. n - e : x[i] = l[e + i]
    <3>1. /\ x \in Seq(Tasks \cup {xListEnd}) /\ Len(x) = IF e + 1 <= n THEN n - (e + 1) + 1 ELSE 0
          /\ \A i \in 1 .. n - (e + 1) + 1 : x[i] = l[e + 1 + i - 1]
      BY <1>1, <1>2, SubSeqProperties
    <3> QED BY <3>1, <1>1, <1>2
  <2>2. /\ y \in Seq(Tasks \cup {xListEnd}) /\ Len(y) = e - 1
        /\ \A i \in 1 .. e - 1 : y[i] = l[i]
    <3>1. /\ y \in Seq(Tasks \cup {xListEnd}) /\ Len(y) = IF 1 <= e - 1 THEN e - 1 - 1 + 1 ELSE 0
          /\ \A i \in 1 .. e - 1 - 1 + 1 : y[i] = l[1 + i - 1]
      BY <1>1, <1>2, SubSeqProperties
    <3> QED BY <3>1, <1>1, <1>2
  <2> HIDE DEF x, y, s
  <2>3. s = x \o y
    BY <1>3 DEF x, y
  <2>4. /\ s \in Seq(Tasks \cup {xListEnd}) /\ Len(s) = Len(x) + Len(y)
        /\ \A i \in 1 .. Len(x) + Len(y) : s[i] = IF i <= Len(x) THEN x[i] ELSE y[i - Len(x)]
    BY <2>1, <2>2, <2>3, ConcatProperties
  <2> QED BY <2>1, <2>2, <2>4, <1>1, <1>2
<1>5. /\ \A i \in 1 .. n - 1 : from(i) \in 1 .. n /\ from(i) # e
      /\ \A i, j \in 1 .. n - 1 : from(i) = from(j) => i = j
      /\ \A j \in 1 .. n : j # e => back(j) \in 1 .. n - 1 /\ from(back(j)) = j
  BY <1>1, <1>2
<1> HIDE DEF s, from, back
<1>6. \A i \in 1 .. n - 1 : s[i] \in Tasks
  BY <1>1, <1>2, <1>4, <1>5
<1>7. s \in Seq(Tasks)
  BY <1>1, <1>4, <1>6
<1>8. \A i, j \in 1 .. n - 1 : s[i] = s[j] => i = j
  BY <1>1, <1>4, <1>5
<1>9. ASSUME NEW t \in Tasks PROVE Holds(l, t) <=> \E i \in 1 .. n - 1 : s[i] = t
  <2>1. Holds(l, t) <=> \E j \in 1 .. n : l[j] = t
    BY <1>1, HoldsIs
  <2>2. ASSUME NEW j \in 1 .. n, l[j] = t PROVE \E i \in 1 .. n - 1 : s[i] = t
    <3>1. j # e
      BY <2>2, <1>2, KernelAssumption
    <3> QED BY <2>2, <3>1, <1>4, <1>5
  <2> QED BY <2>1, <2>2, <1>4, <1>5
<1> QED BY <1>4, <1>7, <1>8, <1>9 DEF s, n

\* A list r made of the items of l but those of X, put in another order.
Reindexes(r, l, f, X) ==
    /\ \A j \in DOMAIN r : f[j] \in DOMAIN l /\ r[j] = l[f[j]] /\ r[j] \notin X
    /\ \A i, j \in DOMAIN r : f[i] = f[j] => i = j
    /\ \A i \in DOMAIN l : l[i] \notin X => \E j \in DOMAIN r : f[j] = i

\* It is a list, and holds the others.
LEMMA Reindexed ==
    ASSUME NEW l, ListTypeOK(l), NEW X \in SUBSET Tasks, NEW r \in Seq(Tasks \cup {xListEnd}),
           NEW f, Reindexes(r, l, f, X)
    PROVE  ListTypeOK(r) /\ \A u \in Tasks : Holds(r, u) <=> u \notin X /\ Holds(l, u)
<1>1. /\ \A i, j \in DOMAIN l : l[i] = l[j] => i = j
      /\ \E i \in DOMAIN l : l[i] = xListEnd
  BY DEF ListTypeOK
<1>2. ASSUME NEW i \in DOMAIN r, NEW j \in DOMAIN r, r[i] = r[j] PROVE i = j
  <2>1. /\ f[i] \in DOMAIN l /\ f[j] \in DOMAIN l /\ l[f[i]] = l[f[j]]
        /\ f[i] = f[j] => i = j
    BY <1>2 DEF Reindexes
  <2> QED BY <2>1, <1>1
<1>3. ASSUME NEW v PROVE (\E j \in DOMAIN r : r[j] = v) <=> v \notin X /\ (\E i \in DOMAIN l : l[i] = v)
  <2>1. ASSUME NEW j \in DOMAIN r, r[j] = v PROVE v \notin X /\ (\E i \in DOMAIN l : l[i] = v)
    BY <2>1 DEF Reindexes
  <2>2. ASSUME v \notin X, NEW i \in DOMAIN l, l[i] = v PROVE \E j \in DOMAIN r : r[j] = v
    <3>1. PICK j \in DOMAIN r : f[j] = i
      BY <2>2 DEF Reindexes
    <3> QED BY <2>2, <3>1 DEF Reindexes
  <2> QED BY <2>1, <2>2
<1>4. xListEnd \notin X
  BY KernelAssumption
<1>5. \E j \in DOMAIN r : r[j] = xListEnd
  BY <1>1, <1>3, <1>4, Zenon
<1>6. ListTypeOK(r)
  BY <1>2, <1>5 DEF ListTypeOK
<1> QED BY <1>3, <1>6, HoldsIs

\* uxListRemove of an item that the index is not at: the items behind it close up.
LEMMA RemovedInside ==
    ASSUME NEW l, ListTypeOK(l), NEW t \in Tasks, Holds(l, t), Head(l) # t
    PROVE  LET r == uxListRemove(l, t)
           IN  \E k \in 1 .. Len(l) :
                  /\ l[k] = t
                  /\ r \in Seq(Tasks \cup {xListEnd}) /\ Len(r) = Len(l) - 1
                  /\ \A i \in 1 .. Len(l) - 1 : r[i] = l[IF i < k THEN i ELSE i + 1]
<1> DEFINE n == Len(l)
           k == CHOOSE i \in DOMAIN l : l[i] = t
           x == SubSeq(l, 1, k - 1)
           y == SubSeq(l, k + 1, n)
           r == x \o y
<1>1. /\ l \in Seq(Tasks \cup {xListEnd}) /\ n \in Nat /\ n >= 1 /\ DOMAIN l = 1 .. n
      /\ \A i \in 1 .. n : l[i] \in Tasks \cup {xListEnd}
  BY ListFrom
<1>2. k \in 1 .. n /\ l[k] = t
  BY <1>1, HoldsIs
<1> HIDE DEF k
<1>3. /\ x \in Seq(Tasks \cup {xListEnd}) /\ Len(x) = k - 1
      /\ \A i \in 1 .. k - 1 : x[i] = l[i]
  <2>1. /\ x \in Seq(Tasks \cup {xListEnd}) /\ Len(x) = IF 1 <= k - 1 THEN k - 1 - 1 + 1 ELSE 0
        /\ \A i \in 1 .. k - 1 - 1 + 1 : x[i] = l[1 + i - 1]
    BY <1>1, <1>2, SubSeqProperties
  <2> QED BY <2>1, <1>1, <1>2
<1>4. /\ y \in Seq(Tasks \cup {xListEnd}) /\ Len(y) = n - k
      /\ \A i \in 1 .. n - k : y[i] = l[k + i]
  <2>1. /\ y \in Seq(Tasks \cup {xListEnd}) /\ Len(y) = IF k + 1 <= n THEN n - (k + 1) + 1 ELSE 0
        /\ \A i \in 1 .. n - (k + 1) + 1 : y[i] = l[k + 1 + i - 1]
    BY <1>1, <1>2, SubSeqProperties
  <2> QED BY <2>1, <1>1, <1>2
<1>5. uxListRemove(l, t) = r
  BY DEF uxListRemove, RemoveAt, k
<1> HIDE DEF x, y
<1>6. /\ r \in Seq(Tasks \cup {xListEnd}) /\ Len(r) = n - 1
      /\ \A i \in 1 .. n - 1 : r[i] = IF i <= k - 1 THEN x[i] ELSE y[i - (k - 1)]
  <2>1. /\ r \in Seq(Tasks \cup {xListEnd}) /\ Len(r) = Len(x) + Len(y)
        /\ \A i \in 1 .. Len(x) + Len(y) : r[i] = IF i <= Len(x) THEN x[i] ELSE y[i - Len(x)]
    BY <1>3, <1>4, ConcatProperties
  <2> QED BY <2>1, <1>1, <1>2, <1>3, <1>4
<1> HIDE DEF r, n
<1>7. ASSUME NEW i \in 1 .. n - 1 PROVE r[i] = l[IF i < k THEN i ELSE i + 1]
  <2>1. CASE i < k
    <3>1. i \in 1 .. k - 1
      BY <2>1, <1>1, <1>2
    <3> QED BY <3>1, <2>1, <1>1, <1>2, <1>3, <1>6
  <2>2. CASE i >= k
    <3>1. i - (k - 1) \in 1 .. n - k /\ k + (i - (k - 1)) = i + 1
      BY <2>2, <1>1, <1>2
    <3> QED BY <3>1, <2>2, <1>1, <1>2, <1>4, <1>6
  <2> QED BY <2>1, <2>2, <1>1, <1>2
<1> QED BY <1>2, <1>5, <1>6, <1>7 DEF n

\* uxListRemove of the item at the index: the last one takes its place.
LEMMA RemovedHead ==
    ASSUME NEW l, ListTypeOK(l), NEW t \in Tasks, Holds(l, t), Head(l) = t
    PROVE  LET r == uxListRemove(l, t)
           IN  /\ r \in Seq(Tasks \cup {xListEnd}) /\ Len(r) = Len(l) - 1
               /\ \A i \in 1 .. Len(l) - 1 : r[i] = l[IF i = 1 THEN Len(l) ELSE i]
<1> DEFINE n == Len(l)
           s == SubSeq(l, 2, n - 1)
           r == <<Last(l)>> \o s
<1>1. /\ l \in Seq(Tasks \cup {xListEnd}) /\ n \in Nat /\ n >= 1 /\ DOMAIN l = 1 .. n
      /\ \A i \in 1 .. n : l[i] \in Tasks \cup {xListEnd}
      /\ \E i \in 1 .. n : l[i] = xListEnd
  BY ListFrom
<1>2. n >= 2
  BY <1>1, KernelAssumption
<1>3. /\ s \in Seq(Tasks \cup {xListEnd}) /\ Len(s) = n - 2
      /\ \A i \in 1 .. n - 2 : s[i] = l[i + 1]
  <2>1. /\ s \in Seq(Tasks \cup {xListEnd}) /\ Len(s) = IF 2 <= n - 1 THEN n - 1 - 2 + 1 ELSE 0
        /\ \A i \in 1 .. n - 1 - 2 + 1 : s[i] = l[2 + i - 1]
    BY <1>1, <1>2, SubSeqProperties
  <2> QED BY <2>1, <1>1, <1>2
<1>4. <<Last(l)>> \in Seq(Tasks \cup {xListEnd}) /\ Len(<<Last(l)>>) = 1 /\ <<Last(l)>>[1] = l[n]
  BY <1>1, <1>2 DEF Last
<1>5. uxListRemove(l, t) = r
  BY DEF uxListRemove
<1> HIDE DEF s
<1>6. /\ r \in Seq(Tasks \cup {xListEnd}) /\ Len(r) = n - 1
      /\ \A i \in 1 .. n - 1 : r[i] = IF i <= 1 THEN <<Last(l)>>[i] ELSE s[i - 1]
  <2> DEFINE h == <<Last(l)>>
  <2>1. h \in Seq(Tasks \cup {xListEnd}) /\ Len(h) = 1 /\ s \in Seq(Tasks \cup {xListEnd})
    BY <1>3, <1>4
  <2> HIDE DEF h
  <2>2. /\ h \o s \in Seq(Tasks \cup {xListEnd}) /\ Len(h \o s) = Len(h) + Len(s)
        /\ \A i \in 1 .. Len(h) + Len(s) : (h \o s)[i] = IF i <= Len(h) THEN h[i] ELSE s[i - Len(h)]
    BY <2>1, ConcatProperties, Zenon
  <2>3. /\ h \o s \in Seq(Tasks \cup {xListEnd}) /\ Len(h \o s) = n - 1
        /\ \A i \in 1 .. n - 1 : (h \o s)[i] = IF i <= 1 THEN h[i] ELSE s[i - 1]
    BY <2>2, <2>1, <1>1, <1>2, <1>3
  <2> QED BY <2>3 DEF h
<1> HIDE DEF r, n
<1>7. ASSUME NEW i \in 1 .. n - 1 PROVE r[i] = l[IF i = 1 THEN n ELSE i]
  <2>1. CASE i = 1
    BY <2>1, <1>1, <1>2, <1>4, <1>6
  <2>2. CASE i # 1
    <3>1. i - 1 \in 1 .. n - 2 /\ (i - 1) + 1 = i /\ ~(i <= 1)
      BY <2>2, <1>1, <1>2
    <3> QED BY <3>1, <2>2, <1>1, <1>2, <1>3, <1>6
  <2> QED BY <2>1, <2>2
<1> QED BY <1>5, <1>6, <1>7 DEF n

\* uxListRemove: the list holds all but the item.
LEMMA Removed ==
    ASSUME NEW l, ListTypeOK(l), NEW t \in Tasks
    PROVE  /\ ListTypeOK(uxListRemove(l, t))
           /\ \A u \in Tasks : Holds(uxListRemove(l, t), u) <=> u # t /\ Holds(l, u)
<1> DEFINE n == Len(l)
<1>1. /\ l \in Seq(Tasks \cup {xListEnd}) /\ n \in Nat /\ n >= 1 /\ DOMAIN l = 1 .. n
      /\ \A i \in 1 .. n : l[i] \in Tasks \cup {xListEnd}
      /\ \A i, j \in 1 .. n : l[i] = l[j] => i = j
      /\ \E i \in 1 .. n : l[i] = xListEnd
  BY ListFrom
<1>2. CASE ~Holds(l, t)
  BY <1>2 DEF uxListRemove
<1>3. CASE Holds(l, t) /\ Head(l) = t
  <2> DEFINE r == uxListRemove(l, t)
             f == [j \in 1 .. n - 1 |-> IF j = 1 THEN n ELSE j]
  <2>1. l[1] = t
    BY <1>1, <1>3
  <2>2. n >= 2
    BY <1>1, <2>1, KernelAssumption
  <2>5. /\ r \in Seq(Tasks \cup {xListEnd}) /\ Len(r) = n - 1
        /\ \A i \in 1 .. n - 1 : r[i] = l[IF i = 1 THEN n ELSE i]
    BY <1>3, RemovedHead
  <2> HIDE DEF r, n
  <2>7. \A j \in 1 .. n - 1 : f[j] \in 1 .. n /\ f[j] # 1 /\ r[j] = l[f[j]]
    BY <1>1, <2>2, <2>5
  <2>8. ASSUME NEW i \in 1 .. n - 1, NEW j \in 1 .. n - 1, f[i] = f[j] PROVE i = j
    <3>1. i # n /\ j # n
      BY <1>1, <2>2
    <3> QED BY <2>8, <3>1
  <2>9. \A i \in 1 .. n : i # 1 => \E j \in 1 .. n - 1 : f[j] = i
    <3>1. ASSUME NEW i \in 1 .. n, i # 1 PROVE \E j \in 1 .. n - 1 : f[j] = i
      <4>1. CASE i = n
        BY <2>2, <1>1, <4>1
      <4>2. CASE i # n
        <5>1. i \in 1 .. n - 1
          BY <3>1, <4>2, <1>1
        <5> QED BY <5>1, <3>1
      <4> QED BY <4>1, <4>2
    <3> QED BY <3>1
  <2>10. Reindexes(r, l, f, {t})
    <3>1. DOMAIN r = 1 .. n - 1
      BY <2>5, <1>1, <2>2
    <3>2. \A j \in 1 .. n - 1 : r[j] # t
      BY <1>1, <2>1, <2>7
    <3>3. \A i \in 1 .. n : l[i] # t => i # 1
      BY <2>1
    <3> HIDE DEF f
    <3> QED BY <1>1, <2>7, <2>8, <2>9, <3>1, <3>2, <3>3, Zenon DEF Reindexes
  <2> HIDE DEF f
  <2> QED BY <2>5, <2>10, Reindexed DEF r
<1>4. CASE Holds(l, t) /\ Head(l) # t
  <2> DEFINE r == uxListRemove(l, t)
  <2>1. PICK k \in 1 .. n :
           /\ l[k] = t
           /\ r \in Seq(Tasks \cup {xListEnd}) /\ Len(r) = n - 1
           /\ \A i \in 1 .. n - 1 : r[i] = l[IF i < k THEN i ELSE i + 1]
    BY <1>4, RemovedInside
  <2> DEFINE f == [j \in 1 .. n - 1 |-> IF j < k THEN j ELSE j + 1]
  <2> HIDE DEF r, n
  <2>2. \A j \in 1 .. n - 1 : f[j] \in 1 .. n /\ f[j] # k /\ r[j] = l[f[j]]
    BY <2>1, <1>1
  <2>3. \A i, j \in 1 .. n - 1 : f[i] = f[j] => i = j
    BY <1>1, <2>1
  <2>4. ASSUME NEW i \in 1 .. n, i # k PROVE \E j \in 1 .. n - 1 : f[j] = i
    <3>1. CASE i < k
      <4>1. i \in 1 .. n - 1 /\ f[i] = i
        BY <2>1, <1>1, <3>1
      <4> QED BY <4>1
    <3>2. CASE i > k
      <4>1. i - 1 \in 1 .. n - 1 /\ f[i - 1] = i
        BY <2>1, <1>1, <3>2
      <4> QED BY <4>1
    <3> QED BY <3>1, <3>2, <2>1, <2>4, <1>1
  <2>5. Reindexes(r, l, f, {t})
    <3>1. DOMAIN r = 1 .. n - 1
      BY <2>1, <1>1
    <3>2. \A j \in 1 .. n - 1 : r[j] # t
      BY <1>1, <2>1, <2>2
    <3>3. \A i \in 1 .. n : l[i] # t => i # k
      BY <2>1
    <3> HIDE DEF f
    <3> QED BY <1>1, <2>2, <2>3, <2>4, <3>1, <3>2, <3>3, Zenon DEF Reindexes
  <2> HIDE DEF f
  <2> QED BY <2>1, <2>5, Reindexed DEF r
<1> QED BY <1>2, <1>3, <1>4

\* An item put into a walk.
LEMMA InsertedAt ==
    ASSUME NEW s \in Seq(Tasks), \A i, j \in 1 .. Len(s) : s[i] = s[j] => i = j,
           NEW t \in Tasks, \A i \in 1 .. Len(s) : s[i] # t, NEW k \in 1 .. Len(s)
    PROVE  LET r == InsertAt(s, k, t)
           IN  /\ r \in Seq(Tasks) /\ Len(r) = Len(s) + 1
               /\ \A i \in 1 .. Len(r) :
                     r[i] = IF i < k THEN s[i] ELSE IF i = k THEN t ELSE s[i - 1]
               /\ \A i, j \in 1 .. Len(r) : r[i] = r[j] => i = j
               /\ \A u \in Tasks : (\E i \in 1 .. Len(r) : r[i] = u)
                                      <=> u = t \/ \E i \in 1 .. Len(s) : s[i] = u
<1> DEFINE n == Len(s)
           x == SubSeq(s, 1, k - 1)
           y == SubSeq(s, k, n)
           r == x \o <<t>> \o y
<1>1. n \in Nat /\ k \in 1 .. n /\ \A i \in 1 .. n : s[i] \in Tasks
  OBVIOUS
<1>2. x \in Seq(Tasks) /\ Len(x) = k - 1 /\ \A i \in 1 .. k - 1 : x[i] = s[i]
  <2>1. /\ x \in Seq(Tasks) /\ Len(x) = IF 1 <= k - 1 THEN k - 1 - 1 + 1 ELSE 0
        /\ \A i \in 1 .. k - 1 - 1 + 1 : x[i] = s[1 + i - 1]
    BY <1>1, SubSeqProperties
  <2> QED BY <2>1, <1>1
<1>3. y \in Seq(Tasks) /\ Len(y) = n - k + 1 /\ \A i \in 1 .. n - k + 1 : y[i] = s[k + i - 1]
  <2>1. /\ y \in Seq(Tasks) /\ Len(y) = IF k <= n THEN n - k + 1 ELSE 0
        /\ \A i \in 1 .. n - k + 1 : y[i] = s[k + i - 1]
    BY <1>1, SubSeqProperties
  <2> QED BY <2>1, <1>1
<1> DEFINE z == Append(x, t)
<1>4. z \in Seq(Tasks) /\ Len(z) = k /\ \A i \in 1 .. k : z[i] = IF i = k THEN t ELSE s[i]
  <2> HIDE DEF x
  <2>1. /\ z \in Seq(Tasks) /\ Len(z) = Len(x) + 1
        /\ \A i \in 1 .. Len(x) : z[i] = x[i]
        /\ z[Len(x) + 1] = t
    BY <1>2, AppendProperties
  <2> QED BY <2>1, <1>1, <1>2
<1>5. r = z \o y
  BY <1>2, AppendIsConcat
<1> HIDE DEF x, y, z, r
<1>6. /\ r \in Seq(Tasks) /\ Len(r) = n + 1
      /\ \A i \in 1 .. n + 1 : r[i] = IF i < k THEN s[i] ELSE IF i = k THEN t ELSE s[i - 1]
  <2>1. /\ r \in Seq(Tasks) /\ Len(r) = Len(z) + Len(y)
        /\ \A i \in 1 .. Len(z) + Len(y) : r[i] = IF i <= Len(z) THEN z[i] ELSE y[i - Len(z)]
    <3>1. z \in Seq(Tasks) /\ y \in Seq(Tasks)
      BY <1>3, <1>4
    <3> QED BY <3>1, <1>5, ConcatProperties
  <2>2. ASSUME NEW i \in 1 .. n + 1
        PROVE  r[i] = IF i < k THEN s[i] ELSE IF i = k THEN t ELSE s[i - 1]
    <3>1. CASE i <= k
      <4>1. i \in 1 .. k
        BY <3>1
      <4> QED BY <4>1, <3>1, <2>1, <1>1, <1>3, <1>4
    <3>2. CASE i > k
      <4>1. i - k \in 1 .. n - k + 1 /\ k + (i - k) - 1 = i - 1
        BY <3>2, <1>1
      <4> QED BY <4>1, <3>2, <2>1, <1>1, <1>3, <1>4
    <3> QED BY <3>1, <3>2, <1>1
  <2> QED BY <2>1, <2>2, <1>1, <1>3, <1>4
<1> HIDE DEF n
<1> DEFINE from(i) == IF i < k THEN i ELSE i - 1
<1>7. \A i \in 1 .. n + 1 : i # k => from(i) \in 1 .. n /\ r[i] = s[from(i)]
  BY <1>1, <1>6
<1>8. r[k] = t /\ k \in 1 .. n + 1
  BY <1>1, <1>6
<1>9. ASSUME NEW i \in 1 .. n + 1, NEW j \in 1 .. n + 1, r[i] = r[j] PROVE i = j
  <2>1. CASE i # k /\ j # k
    <3>1. from(i) = from(j)
      BY <1>7, <1>9, <2>1 DEF n
    <3> QED BY <3>1, <2>1, <1>1
  <2>2. CASE i = k \/ j = k
    BY <2>2, <1>7, <1>8, <1>9 DEF n
  <2> QED BY <2>1, <2>2
<1>10. ASSUME NEW i \in 1 .. n PROVE \E j \in 1 .. n + 1 : r[j] = s[i]
  <2> DEFINE j == IF i < k THEN i ELSE i + 1
  <2>1. j \in 1 .. n + 1 /\ j # k /\ from(j) = i
    BY <1>1
  <2> QED BY <2>1, <1>7
<1> HIDE DEF from
<1>11. ASSUME NEW u \in Tasks
       PROVE  (\E i \in 1 .. n + 1 : r[i] = u) <=> u = t \/ \E i \in 1 .. n : s[i] = u
  BY <1>7, <1>8, <1>10
<1>12. InsertAt(s, k, t) = r
  BY DEF InsertAt, r, x, y, n
<1> QED BY <1>6, <1>9, <1>11, <1>12 DEF n

\* vListInsert.
LEMMA InsertedSorted ==
    ASSUME NEW l, ListTypeOK(l), NEW t \in Tasks, ~Holds(l, t), NEW value
    PROVE  /\ ListTypeOK(vListInsert(l, t, value))
           /\ \A u \in Tasks : Holds(vListInsert(l, t, value), u) <=> u = t \/ Holds(l, u)
<1> DEFINE s == Items(l)
           n == Len(l) - 1
           later == {i \in DOMAIN s : value[s[i]] > value[t]}
           r == IF later = {} THEN Append(s, t) ELSE InsertAt(s, Min(later), t)
<1>1. /\ s \in Seq(Tasks) /\ Len(s) = n
      /\ \A i, j \in 1 .. n : s[i] = s[j] => i = j
      /\ \A u \in Tasks : Holds(l, u) <=> \E i \in 1 .. n : s[i] = u
  BY ItemsAre
<1>2. vListInsert(l, t, value) = <<xListEnd>> \o r
  BY DEF vListInsert
<1> HIDE DEF s, n
<1>3. \A i \in 1 .. n : s[i] # t
  BY <1>1
<1>4. DOMAIN s = 1 .. n /\ n \in Nat
  BY <1>1
<1>5. /\ r \in Seq(Tasks)
      /\ \A i, j \in 1 .. Len(r) : r[i] = r[j] => i = j
      /\ \A u \in Tasks : (\E i \in 1 .. Len(r) : r[i] = u) <=> u = t \/ \E i \in 1 .. n : s[i] = u
  <2>1. CASE later = {}
    <3>1. r = Append(s, t)
      BY <2>1
    <3>2. /\ r \in Seq(Tasks) /\ Len(r) = n + 1
          /\ \A i \in 1 .. n : r[i] = s[i]
          /\ r[n + 1] = t
      BY <3>1, <1>1, <1>4, AppendProperties
    <3> HIDE DEF r
    <3>3. n + 1 \in 1 .. n + 1 /\ \A i \in 1 .. n + 1 : i \in 1 .. n \/ i = n + 1
      BY <1>4
    <3>4. \A i \in 1 .. n : i \in 1 .. n + 1
      BY <1>4
    <3>5. ASSUME NEW i \in 1 .. n + 1, NEW j \in 1 .. n + 1, r[i] = r[j] PROVE i = j
      BY <3>2, <3>3, <3>5, <1>1, <1>3
    <3>6. ASSUME NEW u \in Tasks
          PROVE  (\E i \in 1 .. n + 1 : r[i] = u) <=> u = t \/ \E i \in 1 .. n : s[i] = u
      BY <3>2, <3>3, <3>4
    <3> QED BY <3>2, <3>5, <3>6
  <2>2. CASE later # {}
    <3>1. later \in SUBSET Nat
      BY <1>4
    <3>2. Min(later) \in later
      BY <2>2, <3>1, LeastNumber
    <3>3. Min(later) \in 1 .. n
      BY <3>2, <1>4
    <3>4. r = InsertAt(s, Min(later), t)
      BY <2>2
    <3> HIDE DEF r, later
    <3>5. PICK at \in 1 .. Len(s) : r = InsertAt(s, at, t)
      BY <1>1, <3>3, <3>4
    <3>6. s \in Seq(Tasks)
      BY <1>1
    <3>7. \A i, j \in 1 .. Len(s) : s[i] = s[j] => i = j
      BY <1>1
    <3>8. \A i \in 1 .. Len(s) : s[i] # t
      BY <1>1, <1>3
    <3>9. /\ InsertAt(s, at, t) \in Seq(Tasks)
          /\ \A i, j \in 1 .. Len(InsertAt(s, at, t)) : InsertAt(s, at, t)[i] = InsertAt(s, at, t)[j] => i = j
          /\ \A u \in Tasks : (\E i \in 1 .. Len(InsertAt(s, at, t)) : InsertAt(s, at, t)[i] = u)
                                 <=> u = t \/ \E i \in 1 .. Len(s) : s[i] = u
      BY <3>7, <3>8, <3>6, InsertedAt
    <3> QED BY <3>5, <3>9, <1>1
  <2> QED BY <2>1, <2>2
<1> HIDE DEF r, later
<1>6. /\ ListTypeOK(<<xListEnd>> \o r)
      /\ \A u \in Tasks : Holds(<<xListEnd>> \o r, u) <=> \E i \in 1 .. Len(r) : r[i] = u
  BY <1>5, ListOf
<1> QED BY <1>1, <1>2, <1>5, <1>6

\* An empty list is one that holds no task.
LEMMA EmptyOrNot ==
    ASSUME NEW l, ListTypeOK(l)
    PROVE  /\ IsEmpty(l) <=> \A t \in Tasks : ~Holds(l, t)
           /\ IsEmpty(l) <=> Len(l) = 1
<1>1. /\ l \in Seq(Tasks \cup {xListEnd}) /\ Len(l) \in Nat /\ Len(l) >= 1 /\ DOMAIN l = 1 .. Len(l)
      /\ \A i \in 1 .. Len(l) : l[i] \in Tasks \cup {xListEnd}
      /\ \A i, j \in 1 .. Len(l) : l[i] = l[j] => i = j
      /\ \E i \in 1 .. Len(l) : l[i] = xListEnd
  BY ListFrom
<1>2. CASE Len(l) = 1
  <2>1. l[1] = xListEnd /\ \A i \in 1 .. Len(l) : i = 1
    BY <1>1, <1>2
  <2>2. l = <<xListEnd>>
    BY <1>1, <1>2, <2>1
  <2> QED BY <1>2, <2>2, Initialised DEF IsEmpty, vListInitialise
<1>3. CASE Len(l) # 1
  <2>1. 1 \in 1 .. Len(l) /\ 2 \in 1 .. Len(l)
    BY <1>1, <1>3
  <2>2. l[1] \in Tasks \/ l[2] \in Tasks
    BY <1>1, <2>1
  <2>3. \E t \in Tasks : Holds(l, t)
    BY <2>1, <2>2, <1>1, HoldsIs
  <2>4. l # <<xListEnd>>
    BY <1>3
  <2> QED BY <1>3, <2>3, <2>4 DEF IsEmpty, vListInitialise
<1> QED BY <1>2, <1>3

\* listGET_OWNER_OF_HEAD_ENTRY of a list that is not empty.
LEMMA HeadIsHeld ==
    ASSUME NEW l, ListTypeOK(l), ~IsEmpty(l)
    PROVE  HeadEntry(l) \in Tasks /\ Holds(l, HeadEntry(l))
<1>1. /\ Items(l) \in Seq(Tasks) /\ Len(Items(l)) = Len(l) - 1
      /\ \A t \in Tasks : Holds(l, t) <=> \E i \in 1 .. Len(l) - 1 : Items(l)[i] = t
  BY ItemsAre
<1>2. Len(l) \in Nat /\ Len(l) > 1
  BY ListFrom, EmptyOrNot
<1>3. 1 \in 1 .. Len(l) - 1 /\ Head(Items(l)) = Items(l)[1]
  BY <1>1, <1>2
<1>4. Items(l)[1] \in Tasks
  BY <1>1, <1>3
<1> QED BY <1>1, <1>3, <1>4 DEF HeadEntry

\* One step of the index.
LEMMA Rotated ==
    ASSUME NEW l, ListTypeOK(l)
    PROVE  LET r == Append(Tail(l), Head(l))
           IN  /\ ListTypeOK(r) /\ Len(r) = Len(l) /\ \A t \in Tasks : Holds(r, t) <=> Holds(l, t)
               /\ \A j \in 1 .. Len(l) : r[j] = l[IF j = Len(l) THEN 1 ELSE j + 1]
<1> DEFINE n == Len(l)
           x == Tail(l)
           r == Append(x, Head(l))
           f == [j \in 1 .. n |-> IF j = n THEN 1 ELSE j + 1]
<1>1. /\ l \in Seq(Tasks \cup {xListEnd}) /\ n \in Nat /\ n >= 1 /\ DOMAIN l = 1 .. n
      /\ \A i \in 1 .. n : l[i] \in Tasks \cup {xListEnd}
  BY ListFrom
<1>2. l # <<>>
  BY <1>1
<1>3. /\ x \in Seq(Tasks \cup {xListEnd}) /\ Len(x) = n - 1
      /\ \A i \in 1 .. n - 1 : x[i] = l[i + 1]
  BY <1>1, <1>2, HeadTailProperties
<1>4. Head(l) = l[1] /\ Head(l) \in Tasks \cup {xListEnd}
  BY <1>1, <1>2
<1> HIDE DEF x, n
<1>5. /\ r \in Seq(Tasks \cup {xListEnd}) /\ Len(r) = Len(x) + 1
      /\ \A i \in 1 .. Len(x) : r[i] = x[i]
      /\ r[Len(x) + 1] = Head(l)
  BY <1>3, <1>4, AppendProperties
<1> HIDE DEF r
<1>6. Len(r) = n /\ DOMAIN r = 1 .. n
  BY <1>1, <1>3, <1>5
<1>7. ASSUME NEW j \in 1 .. n PROVE f[j] \in 1 .. n /\ r[j] = l[f[j]]
  <2>1. CASE j = n
    BY <2>1, <1>1, <1>3, <1>4, <1>5
  <2>2. CASE j # n
    <3>1. j \in 1 .. n - 1 /\ j + 1 \in 1 .. n
      BY <2>2, <1>1
    <3> QED BY <2>2, <3>1, <1>1, <1>3, <1>5
  <2> QED BY <2>1, <2>2
<1>8. ASSUME NEW i \in 1 .. n, NEW j \in 1 .. n, f[i] = f[j] PROVE i = j
  BY <1>8, <1>1
<1>9. ASSUME NEW i \in 1 .. n PROVE \E j \in 1 .. n : f[j] = i
  <2>1. CASE i = 1
    BY <2>1, <1>1
  <2>2. CASE i # 1
    <3>1. i - 1 \in 1 .. n /\ f[i - 1] = i
      BY <2>2, <1>1
    <3> QED BY <3>1
  <2> QED BY <2>1, <2>2
<1> HIDE DEF f
<1>10. Reindexes(r, l, f, {})
  BY <1>1, <1>6, <1>7, <1>8, <1>9, Zenon DEF Reindexes
<1>11. ListTypeOK(r) /\ \A t \in Tasks : Holds(r, t) <=> Holds(l, t)
  BY <1>5, <1>10, Reindexed
<1>12. \A j \in 1 .. n : r[j] = l[IF j = n THEN 1 ELSE j + 1]
  BY <1>7 DEF f
<1> QED BY <1>6, <1>11, <1>12 DEF n, r, x

\* listGET_OWNER_OF_NEXT_ENTRY: the same tasks, and the next owner is one of them.
LEMMA NextIsHeld ==
    ASSUME NEW l, ListTypeOK(l), ~IsEmpty(l)
    PROVE  /\ ListTypeOK(NextEntry(l)) /\ \A t \in Tasks : Holds(NextEntry(l), t) <=> Holds(l, t)
           /\ Head(NextEntry(l)) \in Tasks /\ Holds(l, Head(NextEntry(l)))
<1> DEFINE m == Append(Tail(l), Head(l))
           r == Append(Tail(m), Head(m))
           e == IF Head(m) = xListEnd THEN r ELSE m
<1>1. Len(l) \in Nat /\ Len(l) > 1
  BY ListFrom, EmptyOrNot
<1>2. ListTypeOK(m) /\ Len(m) = Len(l) /\ \A t \in Tasks : Holds(m, t) <=> Holds(l, t)
  BY Rotated
<1> HIDE DEF m
<1>3. ListTypeOK(r) /\ Len(r) = Len(l) /\ r[1] = m[2] /\ \A t \in Tasks : Holds(r, t) <=> Holds(l, t)
  BY <1>1, <1>2, Rotated
<1> HIDE DEF r
<1>4. NextEntry(l) = e
  BY DEF NextEntry, m, r
<1>5. 1 \in 1 .. Len(m) /\ 2 \in 1 .. Len(m) /\ DOMAIN m = 1 .. Len(m) /\ DOMAIN r = 1 .. Len(m)
  BY <1>1, <1>2, <1>3, ListFrom
<1>6. Head(m) = m[1] /\ Head(r) = r[1]
  BY <1>5, <1>2, <1>3 DEF ListTypeOK
<1>7. Head(e) \in Tasks /\ e[1] = Head(e)
  <2>1. m[1] \in Tasks \cup {xListEnd} /\ m[2] \in Tasks \cup {xListEnd} /\ m[1] # m[2]
    BY <1>2, <1>5, ListFrom
  <2> QED BY <2>1, <1>3, <1>6
<1>8. Holds(e, Head(e)) /\ ListTypeOK(e) /\ \A t \in Tasks : Holds(e, t) <=> Holds(l, t)
  <2>1. 1 \in DOMAIN e
    BY <1>5
  <2> QED BY <2>1, <1>2, <1>3, <1>7, HoldsIs
<1> QED BY <1>4, <1>7, <1>8

-----------------------------------------------------------------------------
(* The turns of the tasks in a list. *)

\* Where every item that is ahead of t in r comes from one ahead of it in l.
LEMMA AheadFrom ==
    ASSUME NEW l, NEW r, NEW f, NEW t,
           \A j \in DOMAIN r : f[j] \in DOMAIN l /\ r[j] = l[f[j]],
           \A i, j \in DOMAIN r : r[j] = t /\ i # j /\ (j = 1 \/ i \in 2 .. j - 1)
                                    => f[j] = 1 \/ f[i] \in 2 .. f[j] - 1
    PROVE  AheadIn(r, t) \subseteq AheadIn(l, t)
<1> SUFFICES ASSUME NEW u \in AheadIn(r, t) PROVE u \in AheadIn(l, t)
  OBVIOUS
<1>1. PICK i \in DOMAIN r, j \in DOMAIN r : r[i] = u /\ r[j] = t /\ (j = 1 \/ i \in 2 .. j - 1)
  BY DEF AheadIn
<1>2. u \in Tasks \ {t}
  BY DEF AheadIn
<1>3. f[i] \in DOMAIN l /\ f[j] \in DOMAIN l /\ l[f[i]] = u /\ l[f[j]] = t
  BY <1>1
<1>4. f[j] = 1 \/ f[i] \in 2 .. f[j] - 1
  BY <1>1, <1>2
<1> QED BY <1>2, <1>3, <1>4 DEF AheadIn

\* vListInsertEnd: the new item comes behind all but the one at the index.
LEMMA AheadInserted ==
    ASSUME NEW l, ListTypeOK(l), NEW x \in Tasks, NEW t \in Tasks, Holds(l, t), Head(l) # t, x # t
    PROVE  /\ AheadIn(vListInsertEnd(l, x), t) \subseteq AheadIn(l, t)
           /\ Head(vListInsertEnd(l, x)) = Head(l)
<1> DEFINE n == Len(l)
           r == vListInsertEnd(l, x)
           f == [j \in 1 .. n + 1 |-> IF j <= n THEN j ELSE 1]
<1>1. /\ l \in Seq(Tasks \cup {xListEnd}) /\ n \in Nat /\ n >= 1 /\ DOMAIN l = 1 .. n
      /\ \A i, j \in 1 .. n : l[i] = l[j] => i = j
  BY ListFrom
<1>2. /\ r \in Seq(Tasks \cup {xListEnd}) /\ DOMAIN r = 1 .. n + 1
      /\ \A i \in 1 .. n : r[i] = l[i]
      /\ r[n + 1] = x
  BY <1>1 DEF vListInsertEnd
<1> HIDE DEF r, n
<1>3. ASSUME NEW u \in AheadIn(r, t) PROVE u \in AheadIn(l, t)
  <2>1. PICK i \in 1 .. n + 1, j \in 1 .. n + 1 : r[i] = u /\ r[j] = t /\ (j = 1 \/ i \in 2 .. j - 1)
    BY <1>2, <1>3 DEF AheadIn
  <2>2. j # n + 1 /\ j # 1
    BY <1>1, <1>2, <2>1
  <2>3. j \in 1 .. n /\ i \in 1 .. n /\ i \in 2 .. j - 1
    BY <1>1, <2>1, <2>2
  <2>4. l[i] = u /\ l[j] = t /\ u \in Tasks \ {t}
    BY <1>2, <1>3, <2>1, <2>3 DEF AheadIn
  <2> QED BY <1>1, <2>3, <2>4 DEF AheadIn
<1>4. Head(r) = Head(l)
  BY <1>1, <1>2
<1> QED BY <1>3, <1>4 DEF r

\* uxListRemove of another item.
LEMMA AheadRemoved ==
    ASSUME NEW l, ListTypeOK(l), NEW x \in Tasks, NEW t \in Tasks, x # t
    PROVE  /\ AheadIn(uxListRemove(l, x), t) \subseteq AheadIn(l, t)
           /\ Head(l) # x => Head(uxListRemove(l, x)) = Head(l)
<1> DEFINE n == Len(l)
           r == uxListRemove(l, x)
<1>1. /\ l \in Seq(Tasks \cup {xListEnd}) /\ n \in Nat /\ n >= 1 /\ DOMAIN l = 1 .. n
      /\ \A i, j \in 1 .. n : l[i] = l[j] => i = j
      /\ \E i \in 1 .. n : l[i] = xListEnd
  BY ListFrom
<1>2. CASE ~Holds(l, x)
  BY <1>2 DEF uxListRemove
<1>3. CASE Holds(l, x) /\ Head(l) = x
  <2>1. /\ r \in Seq(Tasks \cup {xListEnd}) /\ Len(r) = n - 1
        /\ \A i \in 1 .. n - 1 : r[i] = l[IF i = 1 THEN n ELSE i]
    BY <1>3, RemovedHead
  <2>2. l[1] = x /\ n >= 2
    BY <1>1, <1>3, KernelAssumption
  <2> DEFINE f == [i \in 1 .. n - 1 |-> IF i = 1 THEN n ELSE i]
  <2> HIDE DEF r, n
  <2>3. DOMAIN r = 1 .. n - 1
    BY <2>1, <2>2, <1>1
  <2>4. \A j \in DOMAIN r : f[j] \in DOMAIN l /\ r[j] = l[f[j]]
    BY <1>1, <2>1, <2>2, <2>3
  <2>5. \A i, j \in DOMAIN r : r[j] = t /\ i # j /\ (j = 1 \/ i \in 2 .. j - 1)
                                  => f[j] = 1 \/ f[i] \in 2 .. f[j] - 1
    BY <1>1, <2>2, <2>3
  <2> HIDE DEF f
  <2>6. AheadIn(r, t) \subseteq AheadIn(l, t)
    BY <2>4, <2>5, AheadFrom
  <2> QED BY <1>3, <2>6 DEF r
<1>4. CASE Holds(l, x) /\ Head(l) # x
  <2>1. PICK k \in 1 .. n :
           /\ l[k] = x
           /\ r \in Seq(Tasks \cup {xListEnd}) /\ Len(r) = n - 1
           /\ \A i \in 1 .. n - 1 : r[i] = l[IF i < k THEN i ELSE i + 1]
    BY <1>4, RemovedInside
  <2>2. k # 1 /\ n >= 2 /\ Head(l) = l[1]
    BY <1>1, <1>4, <2>1
  <2> DEFINE f == [i \in 1 .. n - 1 |-> IF i < k THEN i ELSE i + 1]
  <2> HIDE DEF r, n
  <2>3. DOMAIN r = 1 .. n - 1 /\ Head(r) = r[1] /\ r[1] = l[1]
    BY <2>1, <2>2, <1>1
  <2>4. \A j \in DOMAIN r : f[j] \in DOMAIN l /\ r[j] = l[f[j]]
    BY <1>1, <2>1, <2>2, <2>3
  <2>5. \A i, j \in DOMAIN r : r[j] = t /\ i # j /\ (j = 1 \/ i \in 2 .. j - 1)
                                  => f[j] = 1 \/ f[i] \in 2 .. f[j] - 1
    BY <1>1, <2>1, <2>2, <2>3
  <2> HIDE DEF f
  <2>6. AheadIn(r, t) \subseteq AheadIn(l, t)
    BY <2>4, <2>5, AheadFrom
  <2> QED BY <2>2, <2>3, <2>6 DEF r
<1> QED BY <1>2, <1>3, <1>4

\* One step of the index, to another item than t.
LEMMA AheadRotated ==
    ASSUME NEW l, ListTypeOK(l), NEW t \in Tasks, Append(Tail(l), Head(l))[1] # t
    PROVE  AheadIn(Append(Tail(l), Head(l)), t) \subseteq AheadIn(l, t)
<1> DEFINE n == Len(l)
           r == Append(Tail(l), Head(l))
           f == [j \in 1 .. n |-> IF j = n THEN 1 ELSE j + 1]
<1>1. n \in Nat /\ n >= 1 /\ DOMAIN l = 1 .. n
  BY ListFrom
<1>2. ListTypeOK(r) /\ Len(r) = n /\ \A j \in 1 .. n : r[j] = l[IF j = n THEN 1 ELSE j + 1]
  BY Rotated
<1>3. r[1] # t
  OBVIOUS
<1> HIDE DEF r, n
<1>4. DOMAIN r = 1 .. n
  BY <1>2, ListFrom
<1>5. \A j \in DOMAIN r : f[j] \in DOMAIN l /\ r[j] = l[f[j]]
  BY <1>1, <1>2, <1>4
<1>6. \A i, j \in DOMAIN r : r[j] = t /\ i # j /\ (j = 1 \/ i \in 2 .. j - 1)
                                => f[j] = 1 \/ f[i] \in 2 .. f[j] - 1
  BY <1>1, <1>3, <1>4
<1> HIDE DEF f
<1>7. AheadIn(r, t) \subseteq AheadIn(l, t)
  BY <1>5, <1>6, AheadFrom
<1> QED BY <1>7 DEF r

\* listGET_OWNER_OF_NEXT_ENTRY, where the next owner is another task than t.
LEMMA AheadNext ==
    ASSUME NEW l, ListTypeOK(l), ~IsEmpty(l), NEW t \in Tasks, Head(NextEntry(l)) # t
    PROVE  AheadIn(NextEntry(l), t) \subseteq AheadIn(l, t)
<1> DEFINE m == Append(Tail(l), Head(l))
           r == Append(Tail(m), Head(m))
<1>1. Len(l) \in Nat /\ Len(l) > 1
  <2>1. Len(l) # 1
    BY EmptyOrNot, Zenon
  <2>2. Len(l) \in Nat /\ Len(l) >= 1
    BY ListFrom, Zenon
  <2> QED BY <2>1, <2>2
<1>2. ListTypeOK(m) /\ Len(m) = Len(l)
  BY Rotated, Zenon
<1>3. NextEntry(l) = IF Head(m) = xListEnd THEN r ELSE m
  BY DEF NextEntry
<1> HIDE DEF m
<1>4. ListTypeOK(r) /\ Len(r) = Len(m)
  BY <1>2, Rotated, Zenon
<1> HIDE DEF r
<1>5. Head(m) = m[1] /\ Head(r) = r[1]
  BY <1>1, <1>2, <1>4 DEF ListTypeOK
<1>6. m[1] # t
  BY <1>3, <1>5, KernelAssumption
<1>7. AheadIn(m, t) \subseteq AheadIn(l, t)
  BY <1>6, AheadRotated DEF m
<1>8. CASE Head(m) = xListEnd
  <2>1. r[1] # t
    BY <1>3, <1>5, <1>8
  <2>2. AheadIn(r, t) \subseteq AheadIn(m, t)
    BY <1>2, <2>1, AheadRotated DEF r
  <2> QED BY <1>3, <1>7, <1>8, <2>2
<1> QED BY <1>3, <1>7, <1>8

-----------------------------------------------------------------------------
(* Lists in the order of the values of their items. *)

\* Such a list, seen from the end marker.
LEMMA SortedFrom ==
    ASSUME NEW l, ListTypeOK(l), NEW value, Sorted(l, value)
    PROVE  /\ \A i \in 2 .. Len(l) : l[i] \in Tasks
           /\ Len(Items(l)) = Len(l) - 1 /\ \A i \in 1 .. Len(l) - 1 : Items(l)[i] = l[i + 1]
<1> DEFINE n == Len(l)
           e == CHOOSE i \in DOMAIN l : l[i] = xListEnd
           x == SubSeq(l, 2, n)
           y == SubSeq(l, 1, 0)
<1>1. /\ l \in Seq(Tasks \cup {xListEnd}) /\ n \in Nat /\ n >= 1 /\ DOMAIN l = 1 .. n
      /\ \A i \in 1 .. n : l[i] \in Tasks \cup {xListEnd}
      /\ \A i, j \in 1 .. n : l[i] = l[j] => i = j
  BY ListFrom
<1>2. l[1] = xListEnd
  BY DEF Sorted
<1>3. \A i \in 2 .. n : l[i] \in Tasks
  BY <1>1, <1>2
<1>4. e = 1
  <2>1. 1 \in DOMAIN l /\ \A i \in DOMAIN l : l[i] = xListEnd => i = 1
    BY <1>1, <1>2
  <2> QED BY <2>1, <1>2
<1>5. Items(l) = x \o y
  <2>1. Items(l) = SubSeq(l, e + 1, n) \o SubSeq(l, 1, e - 1)
    BY DEF Items
  <2> HIDE DEF e
  <2>2. e + 1 = 2 /\ e - 1 = 0
    BY <1>4
  <2> QED BY <2>1, <2>2
<1>6. /\ x \in Seq(Tasks \cup {xListEnd}) /\ Len(x) = n - 1
      /\ \A i \in 1 .. n - 1 : x[i] = l[i + 1]
  <2>1. /\ x \in Seq(Tasks \cup {xListEnd}) /\ Len(x) = IF 2 <= n THEN n - 2 + 1 ELSE 0
        /\ \A i \in 1 .. n - 2 + 1 : x[i] = l[2 + i - 1]
    BY <1>1, SubSeqProperties
  <2> QED BY <2>1, <1>1
<1>7. y \in Seq(Tasks \cup {xListEnd}) /\ Len(y) = 0
  BY <1>1, SubSeqProperties
<1> HIDE DEF x, y
<1>8. /\ Len(Items(l)) = Len(x) + Len(y)
      /\ \A i \in 1 .. Len(x) + Len(y) : Items(l)[i] = IF i <= Len(x) THEN x[i] ELSE y[i - Len(x)]
  BY <1>5, <1>6, <1>7, ConcatProperties
<1>9. Len(Items(l)) = n - 1
  BY <1>1, <1>6, <1>7, <1>8
<1>10. ASSUME NEW i \in 1 .. n - 1 PROVE Items(l)[i] = l[i + 1]
  <2>1. i \in 1 .. Len(x) + Len(y) /\ i <= Len(x)
    BY <1>1, <1>6, <1>7
  <2> QED BY <2>1, <1>6, <1>8
<1> QED BY <1>3, <1>9, <1>10

\* Its head has the least value.
LEMMA HeadIsLeast ==
    ASSUME NEW l, ListTypeOK(l), ~IsEmpty(l), NEW value, Sorted(l, value),
           NEW t \in Tasks, Holds(l, t)
    PROVE  value[HeadEntry(l)] <= value[t]
<1>1. Len(l) \in Nat /\ Len(l) > 1
  <2>1. Len(l) # 1
    BY EmptyOrNot
  <2>2. Len(l) \in Nat /\ Len(l) >= 1
    BY ListFrom
  <2> QED BY <2>1, <2>2
<1>2. Items(l) \in Seq(Tasks) /\ Len(Items(l)) = Len(l) - 1
  BY ItemsAre
<1>3. HeadEntry(l) = l[2]
  <2>1. 1 \in 1 .. Len(l) - 1 /\ Head(Items(l)) = Items(l)[1]
    BY <1>1, <1>2
  <2>2. Items(l)[1] = l[1 + 1]
    BY <2>1, SortedFrom
  <2> QED BY <2>1, <2>2 DEF HeadEntry
<1>4. PICK i \in 1 .. Len(l) : l[i] = t
  BY HoldsIs, ListFrom
<1>5. i # 1
  BY <1>4, KernelAssumption DEF Sorted
<1> QED BY <1>1, <1>3, <1>4, <1>5 DEF Sorted

\* An item removed.
LEMMA SortedRemoved ==
    ASSUME NEW l, ListTypeOK(l), NEW value, Sorted(l, value), NEW t \in Tasks
    PROVE  Sorted(uxListRemove(l, t), value)
<1> DEFINE r == uxListRemove(l, t)
           n == Len(l)
<1>1. n \in Nat /\ n >= 1 /\ l # <<>> /\ l[1] = xListEnd
  BY ListFrom DEF Sorted
<1>2. CASE ~Holds(l, t)
  BY <1>2 DEF uxListRemove
<1>3. CASE Holds(l, t)
  <2>1. Head(l) # t
    BY <1>1, KernelAssumption, ListFrom
  <2>2. PICK k \in 1 .. n :
           /\ l[k] = t
           /\ Len(r) = n - 1
           /\ \A i \in 1 .. n - 1 : r[i] = l[IF i < k THEN i ELSE i + 1]
    BY <1>3, <2>1, RemovedInside
  <2> HIDE DEF r, n
  <2>3. k > 1
    BY <2>2, <1>1, KernelAssumption
  <2>4. r[1] = xListEnd
    BY <1>1, <2>2, <2>3
  <2>5. ASSUME NEW i \in 2 .. n - 1, NEW j \in 2 .. n - 1, i <= j
        PROVE  value[r[i]] <= value[r[j]]
    <3> DEFINE a == IF i < k THEN i ELSE i + 1
               b == IF j < k THEN j ELSE j + 1
    <3>1. a \in 2 .. n /\ b \in 2 .. n /\ a <= b
      BY <1>1, <2>2, <2>5
    <3>2. r[i] = l[a] /\ r[j] = l[b]
      BY <1>1, <2>2
    <3> HIDE DEF a, b
    <3> QED BY <3>1, <3>2 DEF Sorted, n
  <2> QED BY <2>2, <2>4, <2>5 DEF Sorted, r
<1> QED BY <1>2, <1>3

\* vListInsert puts the item where it belongs.
LEMMA SortedInserted ==
    ASSUME NEW l, ListTypeOK(l), NEW value \in [Tasks -> Int], Sorted(l, value),
           NEW t \in Tasks, ~Holds(l, t)
    PROVE  Sorted(vListInsert(l, t, value), value)
<1> DEFINE s == Items(l)
           n == Len(l) - 1
           later == {i \in DOMAIN s : value[s[i]] > value[t]}
           r == IF later = {} THEN Append(s, t) ELSE InsertAt(s, Min(later), t)
<1>1. /\ s \in Seq(Tasks) /\ Len(s) = n /\ DOMAIN s = 1 .. n /\ n \in Nat
      /\ \A i, j \in 1 .. n : s[i] = s[j] => i = j
      /\ \A i \in 1 .. n : s[i] # t
  BY ItemsAre, ListFrom
<1>2. \A i \in 1 .. n : s[i] \in Tasks
  BY <1>1
<1>3. \A i, j \in 1 .. n : i <= j => value[s[i]] <= value[s[j]]
  <2> SUFFICES ASSUME NEW i \in 1 .. n, NEW j \in 1 .. n, i <= j PROVE value[s[i]] <= value[s[j]]
    OBVIOUS
  <2>1. s[i] = l[i + 1] /\ s[j] = l[j + 1]
    BY SortedFrom
  <2>2. i + 1 \in 2 .. Len(l) /\ j + 1 \in 2 .. Len(l) /\ i + 1 <= j + 1
    BY <1>1, ListFrom
  <2> QED BY <2>1, <2>2 DEF Sorted
<1>4. vListInsert(l, t, value) = <<xListEnd>> \o r
  BY DEF vListInsert
<1> HIDE DEF s, n
<1>5. \E k \in 1 .. n + 1 :
         /\ r \in Seq(Tasks) /\ Len(r) = n + 1
         /\ \A i \in 1 .. n + 1 : r[i] = IF i < k THEN s[i] ELSE IF i = k THEN t ELSE s[i - 1]
         /\ \A i \in 1 .. n : IF i < k THEN value[s[i]] <= value[t] ELSE value[t] <= value[s[i]]
  <2>1. CASE later = {}
    <3>1. r = Append(s, t)
      BY <2>1
    <3>2. /\ r \in Seq(Tasks) /\ Len(r) = n + 1
          /\ \A i \in 1 .. n : r[i] = s[i]
          /\ r[n + 1] = t
      <4>1. s \in Seq(Tasks) /\ Len(s) = n
        BY <1>1
      <4> HIDE DEF r, later
      <4> QED BY <3>1, <4>1, AppendProperties
    <3>3. ASSUME NEW i \in 1 .. n PROVE value[s[i]] <= value[t]
      <4>1. ~(value[s[i]] > value[t])
        BY <2>1, <1>1
      <4>2. value[s[i]] \in Int /\ value[t] \in Int
        BY <1>2
      <4> QED BY <4>1, <4>2
    <3> HIDE DEF r, later
    <3>4. n + 1 \in 1 .. n + 1 /\ \A i \in 1 .. n + 1 : i < n + 1 => i \in 1 .. n
      BY <1>1
    <3>5. \A i \in 1 .. n : i < n + 1
      BY <1>1
    <3>6. \A i \in 1 .. n + 1 : i < n + 1 \/ i = n + 1
      BY <1>1
    <3>7. \A i \in 1 .. n + 1 :
             r[i] = IF i < n + 1 THEN s[i] ELSE IF i = n + 1 THEN t ELSE s[i - 1]
      BY <3>2, <3>4, <3>6
    <3> QED BY <3>2, <3>3, <3>4, <3>5, <3>7
  <2>2. CASE later # {}
    <3>1. later \in SUBSET Nat /\ later \subseteq 1 .. n
      BY <1>1
    <3>2. Min(later) \in later /\ \A i \in later : Min(later) <= i
      BY <2>2, <3>1, LeastNumber
    <3>3. r = InsertAt(s, Min(later), t)
      BY <2>2
    <3>4. PICK at \in 1 .. n : at = Min(later)
      BY <3>1, <3>2
    <3>a. value[s[at]] > value[t] /\ \A i \in 1 .. n : i < at => ~(value[s[i]] > value[t])
      <4>1. at \in later
        BY <3>2, <3>4
      <4>2. ASSUME NEW i \in 1 .. n, i < at PROVE ~(value[s[i]] > value[t])
        <5>1. i \notin later
          <6>1. at \in Nat /\ i \in Nat
            BY <1>1
          <6> HIDE DEF later
          <6>2. i \in later => at <= i
            BY <3>2, <3>4
          <6> QED BY <6>1, <6>2, <4>2
        <5> QED BY <5>1, <1>1
      <4> QED BY <4>1, <4>2
    <3> HIDE DEF r, later
    <3>b. /\ s \in Seq(Tasks) /\ at \in 1 .. Len(s)
          /\ \A i, j \in 1 .. Len(s) : s[i] = s[j] => i = j
          /\ \A i \in 1 .. Len(s) : s[i] # t
      BY <1>1, <3>4
    <3>5. /\ InsertAt(s, at, t) \in Seq(Tasks)
          /\ Len(InsertAt(s, at, t)) = Len(s) + 1
          /\ \A i \in 1 .. Len(InsertAt(s, at, t)) :
                InsertAt(s, at, t)[i] = IF i < at THEN s[i] ELSE IF i = at THEN t ELSE s[i - 1]
      BY <3>b, InsertedAt
    <3>c. /\ r \in Seq(Tasks) /\ Len(r) = n + 1
          /\ \A i \in 1 .. n + 1 : r[i] = IF i < at THEN s[i] ELSE IF i = at THEN t ELSE s[i - 1]
      BY <1>1, <3>3, <3>4, <3>5
    <3>6. ASSUME NEW i \in 1 .. n
          PROVE  IF i < at THEN value[s[i]] <= value[t] ELSE value[t] <= value[s[i]]
      <4>1. value[s[i]] \in Int /\ value[t] \in Int /\ value[s[at]] \in Int
        BY <1>2
      <4>2. at <= i => value[s[at]] <= value[s[i]]
        BY <1>3
      <4>3. i < at => ~(value[s[i]] > value[t])
        BY <3>a
      <4>4. i < at \/ (~(i < at) /\ at <= i)
        BY <1>1
      <4> QED BY <4>1, <4>2, <4>3, <4>4, <3>a
    <3>7. at \in 1 .. n + 1
      BY <1>1
    <3> QED BY <3>c, <3>6, <3>7
  <2> QED BY <2>1, <2>2
<1> HIDE DEF r, later
<1>6. PICK k \in 1 .. n + 1 :
         /\ r \in Seq(Tasks) /\ Len(r) = n + 1
         /\ \A i \in 1 .. n + 1 : r[i] = IF i < k THEN s[i] ELSE IF i = k THEN t ELSE s[i - 1]
         /\ \A i \in 1 .. n : IF i < k THEN value[s[i]] <= value[t] ELSE value[t] <= value[s[i]]
  BY <1>5
<1> DEFINE q == <<xListEnd>> \o r
<1>7. q[1] = xListEnd /\ Len(q) = n + 2 /\ \A i \in 2 .. n + 2 : q[i] = r[i - 1]
  <2>1. Len(<<xListEnd>>) = 1 /\ <<xListEnd>>[1] = xListEnd /\ <<xListEnd>> \in Seq({xListEnd} \cup Tasks)
    OBVIOUS
  <2>2. r \in Seq({xListEnd} \cup Tasks)
    BY <1>6
  <2>3. /\ Len(q) = n + 2
        /\ \A i \in 1 .. 1 + (n + 1) : q[i] = IF i <= 1 THEN <<xListEnd>>[i] ELSE r[i - 1]
    BY <1>1, <1>6, <2>1, <2>2, ConcatProperties
  <2> QED BY <1>1, <2>1, <2>3
<1> HIDE DEF q
<1>8. ASSUME NEW i \in 1 .. n + 1, NEW j \in 1 .. n + 1, i <= j PROVE value[r[i]] <= value[r[j]]
  <2>1. i # k => IF i < k THEN i \in 1 .. n ELSE i - 1 \in 1 .. n
    BY <1>1
  <2>2. j # k => IF j < k THEN j \in 1 .. n ELSE j - 1 \in 1 .. n
    BY <1>1
  <2>3. value[t] \in Int
    OBVIOUS
  <2>4. CASE i = k /\ j = k
    BY <1>6, <2>3, <2>4
  <2>5. CASE i = k /\ j # k
    BY <1>6, <1>8, <2>2, <2>5
  <2>6. CASE i # k /\ j = k
    BY <1>6, <1>8, <2>1, <2>6
  <2>7. CASE i # k /\ j # k
    <3>1. CASE i < k /\ j < k
      BY <1>3, <1>6, <1>8, <2>1, <2>2, <3>1
    <3>2. CASE i < k /\ j > k
      <4>1. i \in 1 .. n /\ j - 1 \in 1 .. n /\ ~(j < k) /\ ~(j - 1 < k)
        BY <2>1, <2>2, <3>2, <1>6
      <4>2. r[i] = s[i] /\ r[j] = s[j - 1]
        BY <1>6, <2>7, <3>2, <4>1
      <4>3. value[s[i]] <= value[t] /\ value[t] <= value[s[j - 1]]
        BY <1>6, <3>2, <4>1
      <4>4. value[s[i]] \in Int /\ value[s[j - 1]] \in Int
        BY <1>2, <4>1
      <4> QED BY <2>3, <4>2, <4>3, <4>4
    <3>3. CASE i > k /\ j > k
      <4>1. i - 1 \in 1 .. n /\ j - 1 \in 1 .. n /\ i - 1 <= j - 1 /\ ~(i < k) /\ ~(j < k)
        BY <2>1, <2>2, <3>3, <1>6, <1>8
      <4>2. r[i] = s[i - 1] /\ r[j] = s[j - 1]
        BY <1>6, <2>7, <4>1
      <4> QED BY <1>3, <4>1, <4>2
    <3> QED BY <1>8, <2>7, <3>1, <3>2, <3>3
  <2> QED BY <2>4, <2>5, <2>6, <2>7
<1>9. ASSUME NEW i \in 2 .. n + 2, NEW j \in 2 .. n + 2, i <= j PROVE value[q[i]] <= value[q[j]]
  <2>1. i - 1 \in 1 .. n + 1 /\ j - 1 \in 1 .. n + 1 /\ i - 1 <= j - 1
    BY <1>9, <1>1
  <2> QED BY <2>1, <1>7, <1>8
<1> QED BY <1>4, <1>7, <1>9 DEF Sorted, q

-----------------------------------------------------------------------------
(* The event lists of the queue. *)

\* What of the shape of the kernel the order of these lists rests on.
TcbFields == {"uxPriority", "wake", "state", "value"}
TcbsOK(tcb) ==
    Over(tcb, Tasks) /\ \A t \in Tasks : Over(tcb[t], TcbFields) /\ tcb[t].uxPriority \in Priorities
Keyed(k) == Over(k, KernelFields) /\ Over(k.event, EventLists) /\ TcbsOK(k.tcb)
SamePrios(k, l) == \A t \in Tasks : Prio(l, t) = Prio(k, t)

\* The lists are in order, and no task is in both of them.
QueueLists == {ToSend, ToReceive}
Orderly(k) ==
    /\ Keyed(k) /\ EventsSorted(k)
    /\ \A list \in QueueLists : ListTypeOK(k.event[list])
    /\ \A t \in Tasks : ~(Holds(k.event[ToSend], t) /\ Holds(k.event[ToReceive], t))

\* From k to l nothing happens to them.
Quiet(k, l) == Keyed(l) /\ SamePrios(k, l) /\ \A list \in QueueLists : l.event[list] = k.event[list]

\* From k to l tasks leave them, none that stays before one that leaves.
Left(k, l, list) == {t \in Tasks : Holds(k.event[list], t) /\ ~Holds(l.event[list], t)}
Serves(k, l) ==
    /\ Orderly(l) /\ SamePrios(k, l)
    /\ \A list \in QueueLists : \A u \in Tasks : Holds(l.event[list], u) =>
          Holds(k.event[list], u) /\ \A t \in Left(k, l, list) : Prio(k, u) <= Prio(k, t)

\* A kernel of the right shape with its lists in order is orderly.
LEMMA OrderlyFrom ==
    ASSUME NEW k, KernelOK(k), EventsSorted(k)
    PROVE  Orderly(k)
<1>1. Over(k, KernelFields) /\ Over(k.event, EventLists)
  BY DEF KernelOK, KernelShape, KernelLists
<1>2. TcbsOK(k.tcb)
  <2>1. k.tcb \in [Tasks -> TCBs]
    BY DEF KernelOK, KernelShape
  <2>2. Over(k.tcb, Tasks)
    BY <2>1 DEF Over
  <2>3. ASSUME NEW t \in Tasks PROVE Over(k.tcb[t], TcbFields) /\ k.tcb[t].uxPriority \in Priorities
    <3>1. k.tcb[t] \in TCBs
      BY <2>1
    <3> QED BY <3>1 DEF TCBs, Over, TcbFields
  <2> QED BY <2>2, <2>3 DEF TcbsOK
<1>3. \A list \in QueueLists : ListTypeOK(k.event[list])
  BY DEF KernelOK, KernelLists, QueueLists, EventLists, ToSend, ToReceive
<1>4. ASSUME NEW t \in Tasks PROVE ~(Holds(k.event[ToSend], t) /\ Holds(k.event[ToReceive], t))
  BY DEF KernelOK, Places, EventLists, ToSend, ToReceive
<1> QED BY <1>1, <1>2, <1>3, <1>4 DEF Orderly, Keyed

\* Where nothing happens to them, no task leaves.
LEMMA QuietServes ==
    ASSUME NEW k, Orderly(k), NEW l, Quiet(k, l)
    PROVE  Serves(k, l)
<1>1. EventValues(l) = EventValues(k)
  BY DEF Quiet, SamePrios, EventValues
<1>2. Orderly(l)
  BY <1>1 DEF Orderly, Quiet, EventsSorted, QueueLists
<1> QED BY <1>2 DEF Serves, Quiet, Left

LEMMA QuietOrderly ==
    ASSUME NEW k, Orderly(k), NEW l, Quiet(k, l)
    PROVE  Orderly(l)
BY QuietServes DEF Serves

\* Where neither the event lists nor the control blocks change, all stays.
LEMMA OrderlyAlike ==
    ASSUME NEW k, NEW l, Over(l, KernelFields), l.event = k.event, l.tcb = k.tcb
    PROVE  Orderly(k) => Orderly(l) /\ Serves(k, l)
<1> SUFFICES ASSUME Orderly(k) PROVE Orderly(l) /\ Serves(k, l)
  OBVIOUS
<1>1. Quiet(k, l)
  BY DEF Orderly, Quiet, Keyed, SamePrios, Prio
<1> QED BY <1>1, QuietServes DEF Serves

LEMMA QuietOn ==
    ASSUME NEW k, NEW l, NEW m, Quiet(k, l), Quiet(l, m)
    PROVE  Quiet(k, m)
BY DEF Quiet, SamePrios

LEMMA QuietSame ==
    ASSUME NEW k, Orderly(k)
    PROVE  Keyed(k) /\ Quiet(k, k)
BY DEF Orderly, Quiet, SamePrios

LEMMA SameServes ==
    ASSUME NEW k, Orderly(k)
    PROVE  Serves(k, k)
BY QuietSame, QuietServes

\* One thing after the other.
LEMMA ServesOn ==
    ASSUME NEW k, Orderly(k), NEW l, NEW m, Serves(k, l), Serves(l, m)
    PROVE  Serves(k, m)
<1>1. SamePrios(k, m)
  BY DEF Serves, SamePrios
<1>2. ASSUME NEW list \in QueueLists, NEW u \in Tasks, Holds(m.event[list], u), NEW t \in Left(k, m, list)
      PROVE  Prio(k, u) <= Prio(k, t)
  <2>1. Holds(l.event[list], u)
    BY <1>2 DEF Serves
  <2>2. CASE t \in Left(k, l, list)
    BY <2>1, <2>2 DEF Serves
  <2>3. CASE t \notin Left(k, l, list)
    <3>1. t \in Left(l, m, list)
      BY <1>2, <2>3 DEF Left
    <3>2. Prio(l, u) <= Prio(l, t)
      BY <1>2, <3>1 DEF Serves
    <3> QED BY <3>1, <3>2 DEF Serves, SamePrios, Left
  <2> QED BY <2>2, <2>3
<1> QED BY <1>1, <1>2 DEF Serves

LEMMA ServesQuietly ==
    ASSUME NEW k, Orderly(k), NEW l, NEW m, Serves(k, l), Quiet(l, m)
    PROVE  Serves(k, m)
<1>1. Serves(l, m)
  BY QuietServes DEF Serves
<1> QED BY <1>1, ServesOn

\* Members of control blocks but the priority, and of the kernel but these lists.
WithWake(tcb, t, w) == [tcb EXCEPT ![t].wake = w]
LEMMA WakeSet ==
    ASSUME NEW tcb, TcbsOK(tcb), NEW t, NEW w
    PROVE  /\ TcbsOK(WithWake(tcb, t, w))
           /\ \A u \in Tasks : WithWake(tcb, t, w)[u].uxPriority = tcb[u].uxPriority
<1> DEFINE one == [tcb[t] EXCEPT !.wake = w]
           new == WithWake(tcb, t, w)
<1>1. tcb = [u \in Tasks |-> tcb[u]]
  BY DEF TcbsOK, Over
<1>2. CASE t \notin Tasks
  <2>1. new = tcb
    BY <1>1, <1>2 DEF WithWake
  <2> QED BY <2>1
<1>3. CASE t \in Tasks
  <2>1. new = [u \in Tasks |-> IF u = t THEN one ELSE tcb[u]]
    BY <1>1 DEF WithWake
  <2>2. tcb[t] = [f \in TcbFields |-> tcb[t][f]]
    BY <1>3 DEF TcbsOK, Over
  <2>3. Over(one, TcbFields) /\ one.uxPriority = tcb[t].uxPriority
    BY <2>2 DEF Over, TcbFields
  <2> HIDE DEF one, new
  <2>4. Over(new, Tasks) /\ new[t] = one /\ \A u \in Tasks : u # t => new[u] = tcb[u]
    BY <1>3, <2>1 DEF Over
  <2>5. TcbsOK(new) /\ \A u \in Tasks : new[u].uxPriority = tcb[u].uxPriority
    BY <2>3, <2>4 DEF TcbsOK
  <2> QED BY <2>5 DEF new
<1> QED BY <1>2, <1>3

LEMMA QuietWhere ==
    ASSUME NEW k, Keyed(k), NEW l, Over(l, KernelFields), l.event = k.event, TcbsOK(l.tcb),
           \A t \in Tasks : l.tcb[t].uxPriority = k.tcb[t].uxPriority
    PROVE  Quiet(k, l)
BY DEF Quiet, Keyed, SamePrios, Prio

\* The operators that move no event item.
LEMMA QuietRemoval ==
    ASSUME NEW k, Keyed(k), NEW t
    PROVE  Quiet(k, RemoveGeneric(k, t))
<1> DEFINE l == RemoveGeneric(k, t)
<1>1. Over(l, KernelFields) /\ l.event = k.event /\ l.tcb = [k.tcb EXCEPT ![t].wake = 0]
  <2> DEFINE ready == [p \in Priorities |-> uxListRemove(k.ready[p], t)]
             tcb == [k.tcb EXCEPT ![t].wake = 0]
             delayed == uxListRemove(k.delayed, t)
             overflow == uxListRemove(k.overflow, t)
             termination == uxListRemove(k.termination, t)
  <2>1. k = [f \in KernelFields |-> k[f]]
    BY DEF Keyed, Over
  <2>2. l = [k EXCEPT !.ready = ready, !.delayed = delayed, !.overflow = overflow,
                      !.termination = termination, !.tcb = tcb]
    BY <2>1 DEF RemoveGeneric, KernelFields
  <2> HIDE DEF l, ready, tcb, delayed, overflow, termination
  <2>3. Over(l, KernelFields) /\ l.event = k.event /\ l.tcb = tcb
    BY <2>1, <2>2 DEF Over, KernelFields
  <2> QED BY <2>3 DEF tcb
<1>2. TcbsOK(l.tcb) /\ \A u \in Tasks : l.tcb[u].uxPriority = k.tcb[u].uxPriority
  <2>1. TcbsOK(k.tcb) /\ l.tcb = WithWake(k.tcb, t, 0)
    BY <1>1 DEF Keyed, WithWake
  <2> HIDE DEF l
  <2> QED BY <2>1, WakeSet
<1> QED BY <1>1, <1>2, QuietWhere

LEMMA QuietReadying ==
    ASSUME NEW k, Keyed(k), NEW t
    PROVE  Quiet(k, prvAddTaskToReadyList(k, t))
<1> DEFINE l == prvAddTaskToReadyList(k, t)
<1>1. Over(l, KernelFields) /\ l.event = k.event /\ l.tcb = k.tcb
  BY DEF Keyed, Over, KernelFields, prvAddTaskToReadyList
<1> QED BY <1>1, QuietWhere DEF Keyed

LEMMA QuietSwitch ==
    ASSUME NEW k, Keyed(k)
    PROVE  Quiet(k, vTaskSwitchContext(k))
<1> DEFINE l == vTaskSwitchContext(k)
<1>1. Over(l, KernelFields) /\ l.event = k.event /\ l.tcb = k.tcb
  BY DEF Keyed, Over, KernelFields, vTaskSwitchContext
<1> QED BY <1>1, QuietWhere DEF Keyed

LEMMA QuietNext ==
    ASSUME NEW k, Keyed(k)
    PROVE  Quiet(k, prvResetNextTaskUnblockTime(k))
<1> DEFINE l == prvResetNextTaskUnblockTime(k)
<1>1. Over(l, KernelFields) /\ l.event = k.event /\ l.tcb = k.tcb
  BY DEF Keyed, Over, KernelFields, prvResetNextTaskUnblockTime
<1> QED BY <1>1, QuietWhere DEF Keyed

LEMMA QuietField ==
    ASSUME NEW k, Keyed(k), NEW f \in KernelFields \ {"event", "tcb"}, NEW v
    PROVE  Quiet(k, [k EXCEPT ![f] = v]) /\ Keyed([k EXCEPT ![f] = v])
<1> DEFINE l == [k EXCEPT ![f] = v]
<1>1. k = [g \in KernelFields |-> k[g]]
  BY DEF Keyed, Over
<1>2. Over(l, KernelFields)
  BY <1>1 DEF Over
<1>3. l.event = k.event /\ l.tcb = k.tcb
  BY <1>1 DEF KernelFields
<1>4. Quiet(k, l)
  BY <1>2, <1>3, QuietWhere DEF Keyed
<1> QED BY <1>4 DEF Quiet

LEMMA QuietWaiting ==
    ASSUME NEW k, Keyed(k), NEW wake
    PROVE  Quiet(k, BlockUntil(k, wake))
<1> DEFINE r == RemoveGeneric(k, k.current)
           t == r.current
           keyed == [r EXCEPT !.tcb[t].wake = wake]
           x == vListInsert(keyed.overflow, t, Wakes(keyed))
           y == vListInsert(keyed.delayed, t, Wakes(keyed))
           z == Min({keyed.next, wake})
           late == [keyed EXCEPT !.overflow = x]
           soon == [keyed EXCEPT !.delayed = y, !.next = z]
<1>1. Quiet(k, r) /\ Keyed(r)
  BY QuietRemoval DEF Quiet
<1>2. BlockUntil(k, wake) = IF wake < r.tick THEN late ELSE soon
  BY <1>1 DEF BlockUntil, prvAddCurrentTaskToDelayedList, Keyed, Over, KernelFields
<1> HIDE DEF r
<1>3. r = [f \in KernelFields |-> r[f]]
  BY <1>1 DEF Keyed, Over
<1> DEFINE tcb == [r.tcb EXCEPT ![t].wake = wake]
<1>4. keyed = [r EXCEPT !.tcb = tcb]
  BY <1>3
<1>5. TcbsOK(tcb) /\ \A u \in Tasks : tcb[u].uxPriority = r.tcb[u].uxPriority
  <2>1. TcbsOK(r.tcb) /\ tcb = WithWake(r.tcb, t, wake)
    BY <1>1 DEF Keyed, WithWake
  <2> HIDE DEF tcb, t
  <2> QED BY <2>1, WakeSet
<1> HIDE DEF tcb, keyed
<1>6. Over(keyed, KernelFields) /\ keyed.event = r.event /\ keyed.tcb = tcb
  BY <1>3, <1>4 DEF Over, KernelFields
<1>7. Quiet(r, keyed)
  BY <1>1, <1>5, <1>6, QuietWhere
<1>8. Keyed(keyed) /\ keyed = [f \in KernelFields |-> keyed[f]]
  BY <1>7 DEF Quiet, Keyed, Over
<1> HIDE DEF x, y, z
<1>9. /\ Over(late, KernelFields) /\ late.event = keyed.event /\ late.tcb = keyed.tcb
      /\ Over(soon, KernelFields) /\ soon.event = keyed.event /\ soon.tcb = keyed.tcb
  BY <1>8 DEF Over, KernelFields
<1> HIDE DEF late, soon
<1>10. Quiet(keyed, late) /\ Quiet(keyed, soon)
  BY <1>8, <1>9, QuietWhere DEF Keyed
<1> QED BY <1>1, <1>2, <1>7, <1>10, QuietOn

\* The state and the value of a notification.
Marked(k, t, state, value) == [k EXCEPT !.tcb[t].state = state, !.tcb[t].value = value]

LEMMA QuietMark ==
    ASSUME NEW k, Keyed(k), NEW t, NEW state, NEW value
    PROVE  Quiet(k, Marked(k, t, state, value))
<1> DEFINE l == Marked(k, t, state, value)
           one == [k.tcb[t] EXCEPT !.state = state, !.value = value]
           tcb == [k.tcb EXCEPT ![t] = one]
<1>1. /\ k = [f \in KernelFields |-> k[f]] /\ k.tcb = [u \in Tasks |-> k.tcb[u]]
      /\ TcbsOK(k.tcb)
  BY DEF Keyed, TcbsOK, Over
<1>2. TcbsOK(tcb) /\ \A u \in Tasks : tcb[u].uxPriority = k.tcb[u].uxPriority
  <2>1. CASE t \notin Tasks
    <3>1. tcb = k.tcb
      BY <1>1, <2>1
    <3> QED BY <1>1, <3>1
  <2>2. CASE t \in Tasks
    <3>1. k.tcb[t] = [f \in TcbFields |-> k.tcb[t][f]]
      BY <1>1, <2>2 DEF TcbsOK, Over
    <3>2. Over(one, TcbFields) /\ one.uxPriority = k.tcb[t].uxPriority
      BY <3>1 DEF Over, TcbFields
    <3> HIDE DEF one
    <3>3. tcb = [u \in Tasks |-> IF u = t THEN one ELSE k.tcb[u]]
      BY <1>1
    <3>4. Over(tcb, Tasks) /\ tcb[t] = one /\ \A u \in Tasks : u # t => tcb[u] = k.tcb[u]
      BY <2>2, <3>3 DEF Over
    <3> HIDE DEF tcb
    <3> QED BY <1>1, <3>2, <3>4 DEF TcbsOK
  <2> QED BY <2>1, <2>2
<1>3. Over(l, KernelFields) /\ l.event = k.event /\ l.tcb = tcb
  <2>1. l = [k EXCEPT !.tcb = tcb]
    BY <1>1 DEF Marked, KernelFields
  <2> HIDE DEF l, tcb
  <2> QED BY <1>1, <2>1 DEF Over, KernelFields
<1> HIDE DEF l, tcb
<1>4. Quiet(k, l)
  BY <1>2, <1>3, QuietWhere
<1> QED BY <1>4 DEF l

LEMMA QuietTurn ==
    ASSUME NEW k, Keyed(k)
    PROVE  Quiet(k, SwitchDelayedLists(k))
<1> DEFINE n == (k.overflows + 1) % OverflowMod
           l == [k EXCEPT !.delayed = k.overflow, !.overflow = k.delayed, !.overflows = n]
<1>1. SwitchDelayedLists(k) = prvResetNextTaskUnblockTime(l)
  BY DEF SwitchDelayedLists
<1>2. k = [f \in KernelFields |-> k[f]]
  BY DEF Keyed, Over
<1> HIDE DEF n
<1>3. Over(l, KernelFields) /\ l.event = k.event /\ l.tcb = k.tcb
  BY <1>2 DEF Over, KernelFields
<1> HIDE DEF l
<1>4. Quiet(k, l)
  BY <1>3, QuietWhere DEF Keyed
<1>5. Quiet(l, prvResetNextTaskUnblockTime(l))
  BY <1>4, QuietNext DEF Quiet
<1> QED BY <1>1, <1>4, <1>5, QuietOn

\* RemoveEvent takes one task out of the lists.
LEMMA TakenOut ==
    ASSUME NEW l, ListTypeOK(l), NEW value, Sorted(l, value), NEW t
    PROVE  /\ ListTypeOK(uxListRemove(l, t)) /\ Sorted(uxListRemove(l, t), value)
           /\ \A u \in Tasks : Holds(uxListRemove(l, t), u) <=> u # t /\ Holds(l, u)
<1>1. CASE t \in Tasks
  BY <1>1, Removed, SortedRemoved
<1>2. CASE t \notin Tasks
  <2>1. ~Holds(l, t)
    BY <1>2, ListFrom DEF Holds
  <2> QED BY <1>2, <2>1 DEF uxListRemove
<1> QED BY <1>1, <1>2

LEMMA EventTaken ==
    ASSUME NEW k, Orderly(k), NEW t
    PROVE  LET l == RemoveEvent(k, t)
           IN  /\ Orderly(l) /\ SamePrios(k, l)
               /\ \A list \in QueueLists : \A u \in Tasks :
                     Holds(l.event[list], u) <=> u # t /\ Holds(k.event[list], u)
<1> DEFINE event == [list \in EventLists |-> uxListRemove(k.event[list], t)]
           l == RemoveEvent(k, t)
<1>1. /\ k = [f \in KernelFields |-> k[f]] /\ k.event = [list \in EventLists |-> k.event[list]]
      /\ TcbsOK(k.tcb) /\ QueueLists \subseteq EventLists
  BY DEF Orderly, Keyed, Over, QueueLists, EventLists, ToSend, ToReceive
<1>2. l = [k EXCEPT !.event = event]
  BY <1>1 DEF RemoveEvent
<1> HIDE DEF l
<1>3. Over(l, KernelFields) /\ l.event = event /\ l.tcb = k.tcb /\ Over(event, EventLists)
  <2>1. Over(event, EventLists)
    BY DEF Over
  <2> HIDE DEF event
  <2> QED BY <1>1, <1>2, <2>1 DEF Over, KernelFields
<1>4. Keyed(l) /\ SamePrios(k, l) /\ EventValues(l) = EventValues(k)
  BY <1>1, <1>3 DEF Keyed, SamePrios, Prio, EventValues
<1>5. ASSUME NEW list \in QueueLists
      PROVE  /\ ListTypeOK(l.event[list]) /\ Sorted(l.event[list], EventValues(k))
             /\ \A u \in Tasks : Holds(l.event[list], u) <=> u # t /\ Holds(k.event[list], u)
  <2>1. l.event[list] = uxListRemove(k.event[list], t)
    BY <1>1, <1>3
  <2>2. ListTypeOK(k.event[list]) /\ Sorted(k.event[list], EventValues(k))
    BY DEF Orderly, EventsSorted, QueueLists
  <2> QED BY <2>1, <2>2, TakenOut
<1>6. Orderly(l)
  BY <1>4, <1>5 DEF Orderly, EventsSorted, QueueLists
<1> QED BY <1>4, <1>5, <1>6 DEF l

LEMMA QuietPending ==
    ASSUME NEW k, Keyed(k), NEW x
    PROVE  Quiet(k, [k EXCEPT !.event["xPendingReadyList"] = x])
<1> DEFINE event == [k.event EXCEPT !["xPendingReadyList"] = x]
           l == [k EXCEPT !.event["xPendingReadyList"] = x]
<1>1. /\ k = [f \in KernelFields |-> k[f]] /\ k.event = [list \in EventLists |-> k.event[list]]
      /\ TcbsOK(k.tcb)
  BY DEF Keyed, Over
<1>2. /\ event = [list \in EventLists |-> IF list = "xPendingReadyList" THEN x ELSE k.event[list]]
      /\ \A list \in QueueLists : event[list] = k.event[list]
  BY <1>1 DEF QueueLists, EventLists, ToSend, ToReceive
<1>3. Over(event, EventLists)
  BY <1>2 DEF Over
<1>4. l = [k EXCEPT !.event = event]
  BY <1>1
<1> HIDE DEF event, l
<1>5. Over(l, KernelFields) /\ l.event = event /\ l.tcb = k.tcb
  BY <1>1, <1>4 DEF Over, KernelFields
<1>6. Quiet(k, l)
  BY <1>1, <1>2, <1>3, <1>5 DEF Quiet, Keyed, SamePrios, Prio
<1> QED BY <1>6 DEF l

\* xTaskRemoveFromEventList takes a task that no other comes before.
LEMMA FirstServed ==
    ASSUME NEW k, Orderly(k), NEW list \in QueueLists, ~IsEmpty(k.event[list])
    PROVE  Serves(k, xTaskRemoveFromEventList(k, list).kernel)
<1> DEFINE t == HeadEntry(k.event[list])
           a == RemoveEvent(k, t)
           b == RemoveGeneric(a, t)
           now == prvAddTaskToReadyList(b, t)
           then == [a EXCEPT !.event["xPendingReadyList"] = vListInsertEnd(@, t)]
           m == IF k.suspended = 0 THEN now ELSE then
           l == xTaskRemoveFromEventList(k, list).kernel
<1>1. ListTypeOK(k.event[list]) /\ Sorted(k.event[list], EventValues(k))
  BY DEF Orderly, EventsSorted, QueueLists
<1>2. t \in Tasks /\ Holds(k.event[list], t)
  BY <1>1, HeadIsHeld
<1>3. \A u \in Tasks : Holds(k.event[list], u) => EventValues(k)[t] <= EventValues(k)[u]
  BY <1>1, HeadIsLeast
<1>4. l = [m EXCEPT !.yieldPending = @ \/ Prio(k, t) > Prio(k, k.current)]
  BY DEF xTaskRemoveFromEventList
<1> HIDE DEF t
<1>5. /\ Orderly(a) /\ SamePrios(k, a)
      /\ \A other \in QueueLists : \A u \in Tasks :
            Holds(a.event[other], u) <=> u # t /\ Holds(k.event[other], u)
  BY EventTaken
<1>6. Serves(k, a)
  <2> SUFFICES ASSUME NEW other \in QueueLists, NEW u \in Tasks, Holds(a.event[other], u),
                      NEW v \in Left(k, a, other)
               PROVE  Prio(k, u) <= Prio(k, v)
    BY <1>5 DEF Serves
  <2>1. v = t /\ Holds(k.event[other], t) /\ Holds(k.event[other], u)
    BY <1>5 DEF Left
  <2>2. other = list
    BY <1>2, <2>1 DEF Orderly, QueueLists
  <2>3. EventValues(k)[t] <= EventValues(k)[u]
    BY <1>3, <2>1, <2>2
  <2>4. Prio(k, t) \in Int /\ Prio(k, u) \in Int /\ MaxPriorities \in Int
    BY <1>2, KernelAssumption DEF Orderly, Keyed, TcbsOK, Prio, Priorities
  <2> QED BY <1>2, <2>1, <2>3, <2>4 DEF EventValues
<1> HIDE DEF a
<1>7. Quiet(a, m) /\ Keyed(m)
  <2>1. Keyed(a)
    BY <1>5 DEF Orderly
  <2>2. Quiet(a, then)
    BY <2>1, QuietPending
  <2>3. Quiet(a, b) /\ Keyed(b)
    BY <2>1, QuietRemoval DEF Quiet
  <2> HIDE DEF b
  <2>4. Quiet(a, now)
    BY <2>3, QuietReadying, QuietOn
  <2> HIDE DEF now, then
  <2> QED BY <2>2, <2>4 DEF Quiet
<1> HIDE DEF m
<1>8. Quiet(m, l)
  <2> DEFINE y == m.yieldPending \/ Prio(k, t) > Prio(k, k.current)
  <2>1. l = [m EXCEPT !["yieldPending"] = y]
    BY <1>4
  <2> HIDE DEF l, y
  <2> QED BY <1>7, <2>1, QuietField DEF KernelFields
<1> HIDE DEF l
<1>9. Serves(a, l)
  BY <1>5, <1>7, <1>8, QuietOn, QuietServes
<1> QED BY <1>6, <1>9, ServesOn DEF l

\* A task whose time has come leaves its list as well.
LEMMA OrderlyUnblocked ==
    ASSUME NEW k, Orderly(k), NEW t
    PROVE  Orderly(Unblock(k, t))
<1> DEFINE a == RemoveGeneric(k, t)
           b == RemoveEvent(a, t)
<1>1. Unblock(k, t) = prvAddTaskToReadyList(b, t)
  BY DEF Unblock
<1>2. Orderly(a)
  BY QuietSame, QuietRemoval, QuietServes DEF Serves
<1> HIDE DEF a
<1>3. Orderly(b)
  BY <1>2, EventTaken
<1> HIDE DEF b
<1> QED BY <1>1, <1>3, QuietSame, QuietReadying, QuietServes DEF Serves

\* The list a task is placed on stays in order.
LEMMA OrderlyPlaced ==
    ASSUME NEW k, Orderly(k), NEW list \in QueueLists, k.current \in Tasks,
           \A other \in QueueLists : ~Holds(k.event[other], k.current), NEW ticks
    PROVE  LET l == vTaskPlaceOnEventList(k, list, ticks)
           IN  /\ Orderly(l)
               /\ \A other \in QueueLists : \A u \in Tasks :
                     Holds(k.event[other], u) => Holds(l.event[other], u)
<1> DEFINE t == k.current
           x == vListInsert(k.event[list], t, EventValues(k))
           event == [k.event EXCEPT ![list] = x]
           m == [k EXCEPT !.event[list] = x]
           l == vTaskPlaceOnEventList(k, list, ticks)
           wake == Stored(m.tick + ticks)
<1>1. l = BlockUntil(m, wake)
  BY DEF vTaskPlaceOnEventList, BlockFor
<1>2. /\ k = [f \in KernelFields |-> k[f]] /\ k.event = [other \in EventLists |-> k.event[other]]
      /\ TcbsOK(k.tcb) /\ QueueLists \subseteq EventLists
  BY DEF Orderly, Keyed, Over, QueueLists, EventLists, ToSend, ToReceive
<1>3. /\ ListTypeOK(k.event[list]) /\ Sorted(k.event[list], EventValues(k))
      /\ EventValues(k) \in [Tasks -> Int]
  <2>1. \A u \in Tasks : Prio(k, u) \in Int /\ MaxPriorities - Prio(k, u) \in Int
    BY <1>2, KernelAssumption DEF TcbsOK, Prio, Priorities
  <2> QED BY <2>1 DEF Orderly, EventsSorted, QueueLists, EventValues
<1>4. /\ ListTypeOK(x) /\ Sorted(x, EventValues(k))
      /\ \A u \in Tasks : Holds(x, u) <=> u = t \/ Holds(k.event[list], u)
  BY <1>3, InsertedSorted, SortedInserted
<1> HIDE DEF x, t
<1>5. /\ event = [other \in EventLists |-> IF other = list THEN x ELSE k.event[other]]
      /\ \A other \in QueueLists : event[other] = IF other = list THEN x ELSE k.event[other]
  BY <1>2
<1>6. Over(event, EventLists)
  BY <1>5 DEF Over
<1>7. m = [k EXCEPT !.event = event]
  BY <1>2
<1> HIDE DEF event, m
<1>8. Over(m, KernelFields) /\ m.event = event /\ m.tcb = k.tcb
  BY <1>2, <1>7 DEF Over, KernelFields
<1>9. Keyed(m) /\ SamePrios(k, m) /\ EventValues(m) = EventValues(k)
  BY <1>2, <1>6, <1>8 DEF Keyed, SamePrios, Prio, EventValues
<1>10. ASSUME NEW other \in QueueLists
       PROVE  /\ ListTypeOK(m.event[other]) /\ Sorted(m.event[other], EventValues(k))
              /\ \A u \in Tasks : Holds(k.event[other], u) => Holds(m.event[other], u)
  BY <1>4, <1>5, <1>8 DEF Orderly, EventsSorted, QueueLists
<1>11. ASSUME NEW u \in Tasks PROVE ~(Holds(m.event[ToSend], u) /\ Holds(m.event[ToReceive], u))
  BY <1>4, <1>5, <1>8 DEF Orderly, QueueLists, ToSend, ToReceive, t
<1>12. Orderly(m)
  BY <1>9, <1>10, <1>11 DEF Orderly, EventsSorted, QueueLists
<1> HIDE DEF wake, l
<1>13. Quiet(m, l)
  BY <1>1, <1>9, QuietWaiting
<1>14. Orderly(l)
  BY <1>12, <1>13, QuietServes DEF Serves
<1> QED BY <1>10, <1>13, <1>14 DEF Quiet, l

\* The calls of tasks.c that no event list takes part in.
LEMMA QuietReadied ==
    ASSUME NEW k, Keyed(k), NEW t
    PROVE  Quiet(k, prvAddTaskToReadyList(RemoveGeneric(k, t), t))
<1> DEFINE a == RemoveGeneric(k, t)
<1>1. Quiet(k, a) /\ Keyed(a)
  BY QuietRemoval DEF Quiet
<1> HIDE DEF a
<1>2. Quiet(a, prvAddTaskToReadyList(a, t))
  BY <1>1, QuietReadying
<1>3. Quiet(k, prvAddTaskToReadyList(a, t))
  BY <1>1, <1>2, QuietOn
<1> QED BY <1>3 DEF a

LEMMA QuietSuspension ==
    ASSUME NEW k, Keyed(k)
    PROVE  /\ Quiet(k, vTaskSuspendAll(k)) /\ Keyed(vTaskSuspendAll(k))
           /\ Quiet(k, Resumed(k))
<1> DEFINE n == k.suspended + 1
           m == k.suspended - 1
           a == vTaskSuspendAll(k)
           b == Resumed(k)
<1>1. a = [k EXCEPT !["suspended"] = n] /\ b = [k EXCEPT !["suspended"] = m]
  BY DEF vTaskSuspendAll, Resumed
<1>2. "suspended" \in KernelFields \ {"event", "tcb"}
  BY DEF KernelFields
<1> HIDE DEF n, m, a, b
<1>3. Quiet(k, a) /\ Keyed(a)
  BY <1>1, <1>2, QuietField
<1>4. Quiet(k, b)
  BY <1>1, <1>2, QuietField
<1> QED BY <1>3, <1>4 DEF a, b

LEMMA QuietAwait ==
    ASSUME NEW k, Keyed(k), NEW satisfied, NEW cleared, NEW ticks
    PROVE  Quiet(k, AwaitNotification(k, satisfied, cleared, ticks))
<1> DEFINE m == Marked(k, k.current, eWaiting, cleared)
           asleep == BlockFor(m, ticks)
           l == AwaitNotification(k, satisfied, cleared, ticks)
<1>1. l = k \/ l = m \/ l = vTaskSwitchContext(asleep)
  BY DEF AwaitNotification, Marked
<1>2. Quiet(k, m) /\ Keyed(m)
  BY QuietMark DEF Quiet
<1> HIDE DEF m
<1>3. Quiet(m, asleep) /\ Keyed(asleep)
  BY <1>2, QuietWaiting DEF BlockFor, Quiet
<1> HIDE DEF asleep, l
<1>4. Quiet(asleep, vTaskSwitchContext(asleep))
  BY <1>3, QuietSwitch
<1>5. Quiet(k, k)
  BY DEF Quiet, SamePrios
<1>6. Quiet(k, vTaskSwitchContext(asleep))
  BY <1>2, <1>3, <1>4, QuietOn
<1> QED BY <1>1, <1>2, <1>5, <1>6 DEF l

LEMMA QuietNotify ==
    ASSUME NEW k, Keyed(k), NEW t, NEW value
    PROVE  /\ Quiet(k, xTaskGenericNotify(k, t, value))
           /\ Quiet(k, xTaskGenericNotifyFromISR(k, t, value))
<1> DEFINE m == Notified(k, t, value)
           woken == prvAddTaskToReadyList(RemoveGeneric(m, t), t)
           pending == [m EXCEPT !.event["xPendingReadyList"] = vListInsertEnd(@, t)]
           l == xTaskGenericNotify(k, t, value)
           n == xTaskGenericNotifyFromISR(k, t, value)
<1>1. l \in {m, woken, vTaskSwitchContext(woken)} /\ n \in {m, woken, pending}
  BY DEF xTaskGenericNotify, xTaskGenericNotifyFromISR
<1>2. Quiet(k, m) /\ Keyed(m)
  <2>1. m = Marked(k, t, eNotified, value)
    BY DEF Notified, Marked
  <2> HIDE DEF m
  <2> QED BY <2>1, QuietMark DEF Quiet
<1> HIDE DEF m, l, n
<1>3. Quiet(m, woken) /\ Keyed(woken)
  BY <1>2, QuietReadied DEF Quiet
<1>4. Quiet(m, pending)
  BY <1>2, QuietPending
<1> HIDE DEF woken, pending
<1>5. Quiet(woken, vTaskSwitchContext(woken))
  BY <1>3, QuietSwitch
<1>6. Quiet(k, woken) /\ Quiet(k, pending) /\ Quiet(k, vTaskSwitchContext(woken))
  BY <1>2, <1>3, <1>4, <1>5, QuietOn
<1> QED BY <1>1, <1>2, <1>6 DEF l, n

LEMMA QuietReclaim ==
    ASSUME NEW k, Keyed(k)
    PROVE  Quiet(k, Reclaim(k))
<1> DEFINE a == RemoveGeneric(k, HeadEntry(k.termination))
           m == a.number - 1
           n == a.deleted - 1
           b == [a EXCEPT !["number"] = m]
           l == [b EXCEPT !["deleted"] = n]
<1>1. Quiet(k, a) /\ Keyed(a)
  BY QuietRemoval DEF Quiet
<1>2. Reclaim(k) = [a EXCEPT !.number = @ - 1, !.deleted = @ - 1]
  BY DEF Reclaim
<1> HIDE DEF a
<1>3. Reclaim(k) = l
  BY <1>2
<1>4. "number" \in KernelFields \ {"event", "tcb"} /\ "deleted" \in KernelFields \ {"event", "tcb"}
  BY DEF KernelFields
<1> HIDE DEF m, n
<1>5. Quiet(a, b) /\ Keyed(b)
  BY <1>1, <1>4, QuietField
<1> HIDE DEF b
<1>6. Quiet(b, l)
  BY <1>4, <1>5, QuietField
<1> HIDE DEF l
<1> QED BY <1>1, <1>3, <1>5, <1>6, QuietOn

\* A task that an interrupt has woken under a suspended scheduler is in neither list.
LEMMA OrderlyReadied ==
    ASSUME NEW k, Orderly(k)
    PROVE  Orderly(ReadyPending(k))
<1> DEFINE t == HeadEntry(k.event["xPendingReadyList"])
           a == RemoveEvent(k, t)
           b == prvAddTaskToReadyList(RemoveGeneric(a, t), t)
           y == b.yieldPending \/ Prio(k, t) >= Prio(k, k.current)
           l == ReadyPending(k)
<1>1. l = [b EXCEPT !.yieldPending = @ \/ Prio(k, t) >= Prio(k, k.current)]
  BY DEF ReadyPending
<1>2. Orderly(a) /\ Keyed(a)
  BY EventTaken DEF Orderly
<1> HIDE DEF a
<1>3. Quiet(a, b) /\ Keyed(b)
  BY <1>2, QuietReadied DEF Quiet
<1> HIDE DEF b, t
<1>4. l = [b EXCEPT !["yieldPending"] = y]
  BY <1>1
<1> HIDE DEF y, l
<1>5. Quiet(b, l)
  BY <1>3, <1>4, QuietField DEF KernelFields
<1> QED BY <1>2, <1>3, <1>5, QuietOrderly DEF l

\* A deleted task leaves its list.
LEMMA OrderlyTerminated ==
    ASSUME NEW k, Orderly(k), NEW t
    PROVE  Orderly(Terminate(k, t))
<1> DEFINE a == RemoveGeneric(k, t)
           b == RemoveEvent(a, t)
           x == vListInsertEnd(b.termination, t)
           n == b.deleted + 1
           c == [b EXCEPT !["termination"] = x]
           l == [c EXCEPT !["deleted"] = n]
<1>1. Terminate(k, t) = [b EXCEPT !.termination = vListInsertEnd(@, t), !.deleted = @ + 1]
  BY DEF Terminate
<1>2. Orderly(a)
  BY QuietSame, QuietRemoval, QuietOrderly
<1> HIDE DEF a
<1>3. Orderly(b) /\ Keyed(b)
  BY <1>2, EventTaken DEF Orderly
<1> HIDE DEF b
<1>4. Terminate(k, t) = l
  BY <1>1
<1>5. "termination" \in KernelFields \ {"event", "tcb"} /\ "deleted" \in KernelFields \ {"event", "tcb"}
  BY DEF KernelFields
<1> HIDE DEF x, n
<1>6. Quiet(b, c) /\ Keyed(c)
  BY <1>3, <1>5, QuietField
<1> HIDE DEF c
<1>7. Quiet(c, l)
  BY <1>5, <1>6, QuietField
<1> HIDE DEF l
<1> QED BY <1>3, <1>4, <1>6, <1>7, QuietOrderly

\* A new task has a priority that no list has been sorted by.
LEMMA OrderlyAdded ==
    ASSUME NEW k, Orderly(k), NEW t \in Tasks, \A list \in QueueLists : ~Holds(k.event[list], t),
           NEW prio \in Priorities
    PROVE  LET l == AddTask(k, t, prio)
           IN  Orderly(l) /\ \A list \in QueueLists : l.event[list] = k.event[list]
<1> DEFINE tcb == [k.tcb EXCEPT ![t] = NewTCB(prio)]
           n == k.number + 1
           m == [k EXCEPT !.number = n, !.tcb = tcb]
           l == AddTask(k, t, prio)
<1>1. /\ k = [f \in KernelFields |-> k[f]] /\ k.tcb = [u \in Tasks |-> k.tcb[u]] /\ TcbsOK(k.tcb)
  BY DEF Orderly, Keyed, TcbsOK, Over
<1>2. l = prvAddTaskToReadyList(m, t)
  BY <1>1 DEF AddTask, KernelFields
<1>3. TcbsOK(tcb) /\ \A u \in Tasks : u # t => tcb[u] = k.tcb[u]
  <2>1. tcb = [u \in Tasks |-> IF u = t THEN NewTCB(prio) ELSE k.tcb[u]]
    BY <1>1
  <2>2. Over(tcb, Tasks) /\ tcb[t] = NewTCB(prio) /\ \A u \in Tasks : u # t => tcb[u] = k.tcb[u]
    BY <2>1 DEF Over
  <2>3. Over(NewTCB(prio), TcbFields) /\ NewTCB(prio).uxPriority \in Priorities
    BY DEF NewTCB, Over, TcbFields
  <2> HIDE DEF tcb
  <2> QED BY <1>1, <2>2, <2>3 DEF TcbsOK
<1> HIDE DEF tcb, n
<1>4. Over(m, KernelFields) /\ m.event = k.event /\ m.tcb = tcb
  BY <1>1 DEF Over, KernelFields
<1> HIDE DEF m, l
<1>5. Keyed(m) /\ \A u \in Tasks : u # t => EventValues(m)[u] = EventValues(k)[u]
  BY <1>3, <1>4 DEF Orderly, Keyed, EventValues, Prio
<1>6. ASSUME NEW list \in QueueLists PROVE Sorted(k.event[list], EventValues(m))
  <2> DEFINE s == k.event[list]
  <2>1. ListTypeOK(s) /\ Sorted(s, EventValues(k)) /\ ~Holds(s, t)
    BY <1>6 DEF Orderly, EventsSorted, QueueLists
  <2> HIDE DEF s
  <2>2. \A i \in 2 .. Len(s) : s[i] \in Tasks /\ s[i] # t
    BY <2>1, SortedFrom, ListFrom, KernelAssumption DEF Holds
  <2>3. \A i \in 2 .. Len(s) : EventValues(m)[s[i]] = EventValues(k)[s[i]]
    BY <1>5, <2>2
  <2>4. Sorted(s, EventValues(m))
    BY <2>1, <2>3 DEF Sorted
  <2> QED BY <2>4 DEF s
<1>7. Orderly(m)
  BY <1>4, <1>5, <1>6 DEF Orderly, EventsSorted, QueueLists
<1>8. Quiet(m, l)
  BY <1>2, <1>5, QuietReadying
<1>9. Orderly(l) /\ \A list \in QueueLists : l.event[list] = k.event[list]
  BY <1>4, <1>7, <1>8, QuietOrderly DEF Quiet
<1> QED BY <1>9 DEF l

-----------------------------------------------------------------------------
(* The delayed lists. *)

\* They are sorted by the wake times of their tasks, no task is in both, and a
\* task that is in neither has no wake time.
Timed(k) ==
    /\ Over(k, KernelFields) /\ Over(k.tcb, Tasks)
    /\ \A t \in Tasks : Over(k.tcb[t], TcbFields) /\ Wake(k, t) \in Ticks
    /\ ListTypeOK(k.delayed) /\ Sorted(k.delayed, Wakes(k))
    /\ ListTypeOK(k.overflow) /\ Sorted(k.overflow, Wakes(k))
    /\ \A t \in Tasks :
          /\ ~Holds(k.delayed, t) \/ ~Holds(k.overflow, t)
          /\ Holds(k.delayed, t) \/ Holds(k.overflow, t) \/ Wake(k, t) = 0

\* The same of a task in k and in l.
SameSleep(k, l, t) ==
    /\ Holds(l.delayed, t) <=> Holds(k.delayed, t)
    /\ Holds(l.overflow, t) <=> Holds(k.overflow, t)
    /\ Wake(l, t) = Wake(k, t)
Awake(k, t) == ~Holds(k.delayed, t) /\ ~Holds(k.overflow, t)

\* From k to l the tasks of S leave the delayed lists, and nothing else happens to them.
Leaves(k, l, S) ==
    /\ Timed(l) /\ l.tick = k.tick /\ l.next = k.next
    /\ \A t \in Tasks : IF t \in S THEN Awake(l, t) ELSE SameSleep(k, l, t)
Rests(k, l) == Leaves(k, l, {})

LEMMA LeavesOn ==
    ASSUME NEW k, NEW l, NEW m, NEW S, NEW T, Leaves(k, l, S), Leaves(l, m, T)
    PROVE  Leaves(k, m, S \cup T)
BY DEF Leaves, SameSleep, Awake

LEMMA RestsOn ==
    ASSUME NEW k, NEW l, NEW m, NEW S
    PROVE  /\ Rests(k, l) /\ Leaves(l, m, S) => Leaves(k, m, S)
           /\ Leaves(k, l, S) /\ Rests(l, m) => Leaves(k, m, S)
BY DEF Rests, Leaves, SameSleep, Awake

LEMMA RestsSame ==
    ASSUME NEW k, Timed(k)
    PROVE  Rests(k, k)
BY DEF Rests, Leaves, SameSleep

\* A list stays sorted where the values of its tasks stay.
LEMMA SortedAlike ==
    ASSUME NEW l, ListTypeOK(l), NEW value, Sorted(l, value), NEW other,
           \A t \in Tasks : Holds(l, t) => other[t] = value[t]
    PROVE  Sorted(l, other)
<1>1. \A i \in 2 .. Len(l) : l[i] \in Tasks
  BY SortedFrom, Zenon
<1>2. DOMAIN l = 1 .. Len(l) /\ Len(l) \in Nat
  BY ListFrom
<1>3. ASSUME NEW i \in 2 .. Len(l) PROVE other[l[i]] = value[l[i]]
  <2>1. i \in 1 .. Len(l) /\ l[i] \in Tasks
    BY <1>1, <1>2
  <2>2. Holds(l, l[i])
    BY <1>2, <2>1, HoldsIs
  <2> QED BY <2>1, <2>2
<1> QED BY <1>3 DEF Sorted

\* Writes that leave the lists, the clock and the wake times alone.
LEMMA RestsWhere ==
    ASSUME NEW k, Timed(k), NEW l, Over(l, KernelFields), Over(l.tcb, Tasks),
           \A t \in Tasks : Over(l.tcb[t], TcbFields) /\ l.tcb[t].wake = k.tcb[t].wake,
           l.tick = k.tick, l.next = k.next, l.delayed = k.delayed, l.overflow = k.overflow
    PROVE  Rests(k, l) /\ Timed(l)
<1>1. \A t \in Tasks : Wake(l, t) = Wake(k, t)
  BY DEF Wake
<1>2. Wakes(l) = Wakes(k)
  BY <1>1 DEF Wakes
<1>3. Timed(l)
  BY <1>1, <1>2 DEF Timed
<1> QED BY <1>1, <1>3 DEF Rests, Leaves, SameSleep

LEMMA RestsField ==
    ASSUME NEW k, Timed(k), NEW f \in KernelFields \ {"tick", "next", "delayed", "overflow", "tcb"}, NEW v
    PROVE  Rests(k, [k EXCEPT ![f] = v]) /\ Timed([k EXCEPT ![f] = v])
<1> DEFINE l == [k EXCEPT ![f] = v]
<1>1. k = [g \in KernelFields |-> k[g]]
  BY DEF Timed, Over
<1>2. Over(l, KernelFields)
  BY <1>1 DEF Over
<1>3. l.tick = k.tick /\ l.next = k.next /\ l.delayed = k.delayed /\ l.overflow = k.overflow /\ l.tcb = k.tcb
  BY <1>1 DEF KernelFields
<1> HIDE DEF l
<1>4. Rests(k, l) /\ Timed(l)
  BY <1>2, <1>3, RestsWhere DEF Timed
<1> QED BY <1>4 DEF l

LEMMA RestsReadying ==
    ASSUME NEW k, Timed(k), NEW t
    PROVE  Rests(k, prvAddTaskToReadyList(k, t)) /\ Timed(prvAddTaskToReadyList(k, t))
<1> DEFINE l == prvAddTaskToReadyList(k, t)
<1>1. /\ Over(l, KernelFields) /\ l.tick = k.tick /\ l.next = k.next /\ l.delayed = k.delayed
      /\ l.overflow = k.overflow /\ l.tcb = k.tcb
  BY DEF Timed, Over, KernelFields, prvAddTaskToReadyList
<1> HIDE DEF l
<1>2. Rests(k, l) /\ Timed(l)
  BY <1>1, RestsWhere DEF Timed
<1> QED BY <1>2 DEF l

LEMMA RestsSwitch ==
    ASSUME NEW k, Timed(k)
    PROVE  Rests(k, vTaskSwitchContext(k)) /\ Timed(vTaskSwitchContext(k))
<1> DEFINE l == vTaskSwitchContext(k)
<1>1. /\ Over(l, KernelFields) /\ l.tick = k.tick /\ l.next = k.next /\ l.delayed = k.delayed
      /\ l.overflow = k.overflow /\ l.tcb = k.tcb
  BY DEF Timed, Over, KernelFields, vTaskSwitchContext
<1> HIDE DEF l
<1>2. Rests(k, l) /\ Timed(l)
  BY <1>1, RestsWhere DEF Timed
<1> QED BY <1>2 DEF l

LEMMA RestsEvent ==
    ASSUME NEW k, Timed(k), NEW t, NEW list, NEW x
    PROVE  LET l == RemoveEvent(k, t)
               m == [k EXCEPT !.event[list] = x]
           IN  Rests(k, l) /\ Timed(l) /\ Rests(k, m) /\ Timed(m)
<1> DEFINE taken == [name \in EventLists |-> uxListRemove(k.event[name], t)]
           put == [k.event EXCEPT ![list] = x]
<1>1. RemoveEvent(k, t) = [k EXCEPT !["event"] = taken] /\ [k EXCEPT !.event[list] = x] = [k EXCEPT !["event"] = put]
  BY DEF Timed, Over, KernelFields, RemoveEvent
<1> HIDE DEF taken, put
<1>2. "event" \in KernelFields \ {"tick", "next", "delayed", "overflow", "tcb"}
  BY DEF KernelFields
<1>3. /\ Rests(k, [k EXCEPT !["event"] = taken]) /\ Timed([k EXCEPT !["event"] = taken])
      /\ Rests(k, [k EXCEPT !["event"] = put]) /\ Timed([k EXCEPT !["event"] = put])
  BY <1>2, RestsField, Zenon
<1> QED BY <1>1, <1>3, Zenon

LEMMA RestsMark ==
    ASSUME NEW k, Timed(k), NEW t, NEW state, NEW value
    PROVE  Rests(k, Marked(k, t, state, value)) /\ Timed(Marked(k, t, state, value))
<1> DEFINE l == Marked(k, t, state, value)
           one == [k.tcb[t] EXCEPT !.state = state, !.value = value]
           tcb == [k.tcb EXCEPT ![t] = one]
<1>1. k = [f \in KernelFields |-> k[f]] /\ k.tcb = [u \in Tasks |-> k.tcb[u]]
  BY DEF Timed, Over
<1>2. Over(tcb, Tasks) /\ \A u \in Tasks : Over(tcb[u], TcbFields) /\ tcb[u].wake = k.tcb[u].wake
  <2>1. CASE t \notin Tasks
    <3>1. tcb = k.tcb
      BY <1>1, <2>1
    <3> QED BY <3>1 DEF Timed
  <2>2. CASE t \in Tasks
    <3>1. k.tcb[t] = [f \in TcbFields |-> k.tcb[t][f]]
      BY <2>2 DEF Timed, Over
    <3>2. Over(one, TcbFields) /\ one.wake = k.tcb[t].wake
      BY <3>1 DEF Over, TcbFields
    <3> HIDE DEF one
    <3>3. tcb = [u \in Tasks |-> IF u = t THEN one ELSE k.tcb[u]]
      BY <1>1
    <3>4. Over(tcb, Tasks) /\ tcb[t] = one /\ \A u \in Tasks : u # t => tcb[u] = k.tcb[u]
      BY <2>2, <3>3 DEF Over
    <3> HIDE DEF tcb
    <3> QED BY <3>2, <3>4 DEF Timed
  <2> QED BY <2>1, <2>2
<1>3. /\ Over(l, KernelFields) /\ l.tick = k.tick /\ l.next = k.next /\ l.delayed = k.delayed
      /\ l.overflow = k.overflow /\ l.tcb = tcb
  <2>1. l = [k EXCEPT !.tcb = tcb]
    BY <1>1 DEF Marked, KernelFields
  <2> HIDE DEF l, tcb
  <2> QED BY <1>1, <2>1 DEF Over, KernelFields
<1> HIDE DEF l, tcb
<1>4. Rests(k, l) /\ Timed(l)
  BY <1>2, <1>3, RestsWhere
<1> QED BY <1>4 DEF l

\* Writing a wake time.
LEMMA WakeWritten ==
    ASSUME NEW tcb, Over(tcb, Tasks), \A u \in Tasks : Over(tcb[u], TcbFields), NEW t \in Tasks, NEW w
    PROVE  LET new == WithWake(tcb, t, w)
           IN  /\ Over(new, Tasks) /\ \A u \in Tasks : Over(new[u], TcbFields)
               /\ \A u \in Tasks : new[u].wake = IF u = t THEN w ELSE tcb[u].wake
<1> DEFINE one == [tcb[t] EXCEPT !.wake = w]
           new == WithWake(tcb, t, w)
<1>1. new = [u \in Tasks |-> IF u = t THEN one ELSE tcb[u]]
  BY DEF WithWake, Over
<1>2. tcb[t] = [f \in TcbFields |-> tcb[t][f]]
  BY DEF Over
<1>3. Over(one, TcbFields) /\ one.wake = w
  BY <1>2 DEF Over, TcbFields
<1> HIDE DEF one, new
<1>4. Over(new, Tasks) /\ new[t] = one /\ \A u \in Tasks : u # t => new[u] = tcb[u]
  BY <1>1 DEF Over
<1>5. /\ Over(new, Tasks) /\ \A u \in Tasks : Over(new[u], TcbFields)
      /\ \A u \in Tasks : new[u].wake = IF u = t THEN w ELSE tcb[u].wake
  BY <1>3, <1>4
<1> QED BY <1>5 DEF new

\* A task leaves whatever list it is in.
LEMMA LeavesRemoval ==
    ASSUME NEW k, Timed(k), NEW t
    PROVE  Leaves(k, RemoveGeneric(k, t), {t}) /\ Timed(RemoveGeneric(k, t))
<1> DEFINE l == RemoveGeneric(k, t)
           tcb == [k.tcb EXCEPT ![t].wake = 0]
           near == uxListRemove(k.delayed, t)
           far == uxListRemove(k.overflow, t)
<1>1. /\ Over(l, KernelFields) /\ l.tick = k.tick /\ l.next = k.next
      /\ l.delayed = near /\ l.overflow = far /\ l.tcb = tcb
  <2> DEFINE ready == [p \in Priorities |-> uxListRemove(k.ready[p], t)]
             termination == uxListRemove(k.termination, t)
  <2>1. k = [f \in KernelFields |-> k[f]]
    BY DEF Timed, Over
  <2>2. l = [k EXCEPT !.ready = ready, !.delayed = near, !.overflow = far,
                      !.termination = termination, !.tcb = tcb]
    BY <2>1 DEF RemoveGeneric, KernelFields
  <2> HIDE DEF l, ready, tcb, near, far, termination
  <2> QED BY <2>1, <2>2 DEF Over, KernelFields
<1>2. /\ Over(tcb, Tasks) /\ \A u \in Tasks : Over(tcb[u], TcbFields)
      /\ \A u \in Tasks : tcb[u].wake = IF u = t THEN 0 ELSE k.tcb[u].wake
  <2>1. CASE t \in Tasks
    <3>1. tcb = WithWake(k.tcb, t, 0)
      BY DEF WithWake
    <3> HIDE DEF tcb
    <3> QED BY <2>1, <3>1, WakeWritten DEF Timed
  <2>2. CASE t \notin Tasks
    <3>1. tcb = k.tcb
      BY <2>2 DEF Timed, Over
    <3> QED BY <2>2, <3>1 DEF Timed
  <2> QED BY <2>1, <2>2
<1>3. /\ ListTypeOK(near) /\ Sorted(near, Wakes(k)) /\ ListTypeOK(far) /\ Sorted(far, Wakes(k))
      /\ \A u \in Tasks : /\ Holds(near, u) <=> u # t /\ Holds(k.delayed, u)
                          /\ Holds(far, u) <=> u # t /\ Holds(k.overflow, u)
  BY TakenOut, Zenon DEF Timed
<1> HIDE DEF l, tcb, near, far
<1>4. \A u \in Tasks : Wake(l, u) = IF u = t THEN 0 ELSE Wake(k, u)
  BY <1>1, <1>2 DEF Wake
<1>5. \A u \in Tasks : u # t => Wakes(l)[u] = Wakes(k)[u]
  BY <1>4 DEF Wakes
<1>6. Sorted(near, Wakes(l)) /\ Sorted(far, Wakes(l))
  <2>1. \A u \in Tasks : Holds(near, u) \/ Holds(far, u) => Wakes(l)[u] = Wakes(k)[u]
    BY <1>3, <1>5
  <2> QED BY <1>3, <2>1, SortedAlike, Zenon
<1>7. \A u \in Tasks : Wake(l, u) \in Ticks
  <2>1. 0 \in Ticks
    BY TimeAssumption DEF Ticks
  <2>2. \A u \in Tasks : Wake(k, u) \in Ticks
    BY DEF Timed
  <2> QED BY <1>4, <2>1, <2>2
<1>8. Timed(l)
  BY <1>1, <1>2, <1>3, <1>4, <1>6, <1>7 DEF Timed
<1>9. Leaves(k, l, {t})
  BY <1>1, <1>3, <1>4, <1>8 DEF Leaves, SameSleep, Awake
<1> QED BY <1>8, <1>9 DEF l

\* From k to l the task t, which sleeps no longer, is put to sleep up to a wake time.
Dozes(k, l, t, wake) ==
    /\ Timed(l) /\ l.tick = k.tick
    /\ \A u \in Tasks : u # t => SameSleep(k, l, u)
    /\ Wake(l, t) = wake
    /\ Holds(l.overflow, t) <=> wake < k.tick
    /\ Holds(l.delayed, t) <=> ~(wake < k.tick)
    /\ l.next = IF ~(wake < k.tick) /\ wake < k.next THEN wake ELSE k.next

LEMMA DozesOn ==
    ASSUME NEW k, NEW l, NEW m, NEW t \in Tasks, NEW wake
    PROVE  /\ Rests(k, l) /\ Dozes(l, m, t, wake) => Dozes(k, m, t, wake)
           /\ Leaves(k, l, {t}) /\ Dozes(l, m, t, wake) => Dozes(k, m, t, wake)
           /\ Dozes(k, l, t, wake) /\ Rests(l, m) => Dozes(k, m, t, wake)
BY DEF Rests, Leaves, Dozes, SameSleep

\* prvAddCurrentTaskToDelayedList.
LEMMA AddedDozes ==
    ASSUME NEW k, Timed(k), NEW t \in Tasks, t = k.current, Awake(k, t), k.next \in Ticks, NEW wake \in Ticks
    PROVE  Dozes(k, prvAddCurrentTaskToDelayedList(k, wake), t, wake)
<1> DEFINE l == prvAddCurrentTaskToDelayedList(k, wake)
           tcb == [k.tcb EXCEPT ![t].wake = wake]
           keyed == [k EXCEPT !.tcb[k.current].wake = wake]
           value == Wakes(keyed)
           far == vListInsert(k.overflow, t, value)
           near == vListInsert(k.delayed, t, value)
           next == Min({k.next, wake})
<1>1. /\ Over(keyed, KernelFields) /\ keyed.tcb = tcb /\ keyed.tick = k.tick /\ keyed.next = k.next
      /\ keyed.delayed = k.delayed /\ keyed.overflow = k.overflow /\ keyed.current = t
  BY DEF Timed, Over, KernelFields
<1>2. l = IF wake < k.tick THEN [keyed EXCEPT !.overflow = far] ELSE [keyed EXCEPT !.delayed = near, !.next = next]
  BY <1>1 DEF prvAddCurrentTaskToDelayedList
<1>3. /\ Over(tcb, Tasks) /\ \A u \in Tasks : Over(tcb[u], TcbFields)
      /\ \A u \in Tasks : tcb[u].wake = IF u = t THEN wake ELSE k.tcb[u].wake
  <2>1. tcb = WithWake(k.tcb, t, wake)
    BY DEF WithWake
  <2> HIDE DEF tcb
  <2> QED BY <2>1, WakeWritten DEF Timed
<1> HIDE DEF tcb, keyed
<1>4. /\ \A u \in Tasks : value[u] = IF u = t THEN wake ELSE Wake(k, u)
      /\ value \in [Tasks -> Int]
  BY <1>1, <1>3 DEF Wakes, Wake, Timed, Ticks
<1>5. next = IF wake < k.next THEN wake ELSE k.next
  <2>1. {k.next, wake} \in SUBSET Nat /\ {k.next, wake} # {}
    BY TimeAssumption DEF Ticks
  <2>2. next \in {k.next, wake} /\ \A n \in {k.next, wake} : next <= n
    BY <2>1, LeastNumber
  <2> HIDE DEF next
  <2> QED BY <2>1, <2>2 DEF Ticks
<1> HIDE DEF value, next
<1>6. /\ ListTypeOK(k.delayed) /\ Sorted(k.delayed, value) /\ ~Holds(k.delayed, t)
      /\ ListTypeOK(k.overflow) /\ Sorted(k.overflow, value) /\ ~Holds(k.overflow, t)
  <2>1. \A u \in Tasks : Holds(k.delayed, u) \/ Holds(k.overflow, u) => value[u] = Wakes(k)[u]
    BY <1>4 DEF Awake, Wakes
  <2>2. /\ ListTypeOK(k.delayed) /\ Sorted(k.delayed, Wakes(k)) /\ ~Holds(k.delayed, t)
        /\ ListTypeOK(k.overflow) /\ Sorted(k.overflow, Wakes(k)) /\ ~Holds(k.overflow, t)
    BY DEF Timed, Awake
  <2>3. \A u \in Tasks : Holds(k.delayed, u) => value[u] = Wakes(k)[u]
    BY <2>1
  <2>4. \A u \in Tasks : Holds(k.overflow, u) => value[u] = Wakes(k)[u]
    BY <2>1
  <2>5. Sorted(k.delayed, value)
    BY <2>2, <2>3, SortedAlike, Zenon
  <2>6. Sorted(k.overflow, value)
    BY <2>2, <2>4, SortedAlike, Zenon
  <2> QED BY <2>2, <2>5, <2>6
<1>7. /\ ListTypeOK(near) /\ Sorted(near, value) /\ ListTypeOK(far) /\ Sorted(far, value)
      /\ \A u \in Tasks : /\ Holds(near, u) <=> u = t \/ Holds(k.delayed, u)
                          /\ Holds(far, u) <=> u = t \/ Holds(k.overflow, u)
  BY <1>4, <1>6, InsertedSorted, SortedInserted, Zenon
<1> HIDE DEF near, far
<1>8. /\ Over(l, KernelFields) /\ l.tcb = tcb /\ l.tick = k.tick
      /\ l.overflow = IF wake < k.tick THEN far ELSE k.overflow
      /\ l.delayed = IF wake < k.tick THEN k.delayed ELSE near
      /\ l.next = IF wake < k.tick THEN k.next ELSE next
  BY <1>1, <1>2 DEF Over, KernelFields
<1> HIDE DEF l
<1>9. /\ \A u \in Tasks : Wake(l, u) = IF u = t THEN wake ELSE Wake(k, u)
      /\ Wakes(l) = value
  <2>1. Wakes(l) = Wakes(keyed)
    BY <1>1, <1>8 DEF Wakes, Wake
  <2> QED BY <1>3, <1>8, <2>1 DEF Wake, value
<1>10. \A u \in Tasks : /\ Holds(l.delayed, u) <=> (u = t /\ ~(wake < k.tick)) \/ Holds(k.delayed, u)
                        /\ Holds(l.overflow, u) <=> (u = t /\ wake < k.tick) \/ Holds(k.overflow, u)
  BY <1>6, <1>7, <1>8
<1>11. Timed(l)
  <2>1. \A u \in Tasks : Over(l.tcb[u], TcbFields) /\ Wake(l, u) \in Ticks
    BY <1>3, <1>8, <1>9 DEF Timed
  <2>2. /\ ListTypeOK(l.delayed) /\ Sorted(l.delayed, Wakes(l))
        /\ ListTypeOK(l.overflow) /\ Sorted(l.overflow, Wakes(l))
    BY <1>6, <1>7, <1>8, <1>9
  <2>3. \A u \in Tasks : /\ ~Holds(l.delayed, u) \/ ~Holds(l.overflow, u)
                         /\ Holds(l.delayed, u) \/ Holds(l.overflow, u) \/ Wake(l, u) = 0
    BY <1>6, <1>9, <1>10 DEF Timed
  <2> QED BY <1>3, <1>8, <2>1, <2>2, <2>3 DEF Timed
<1>12. Dozes(k, l, t, wake)
  BY <1>5, <1>6, <1>8, <1>9, <1>10, <1>11 DEF Dozes, SameSleep
<1> QED BY <1>12 DEF l

\* The current task goes to sleep.
LEMMA BlockedDozes ==
    ASSUME NEW k, Timed(k), NEW t \in Tasks, t = k.current, k.next \in Ticks, NEW wake \in Ticks
    PROVE  Dozes(k, BlockUntil(k, wake), t, wake) /\ Timed(BlockUntil(k, wake))
<1> DEFINE m == RemoveGeneric(k, t)
           l == BlockUntil(k, wake)
<1>1. l = prvAddCurrentTaskToDelayedList(m, wake)
  BY DEF BlockUntil
<1>2. m.current = t
  BY DEF RemoveGeneric, Timed, Over, KernelFields
<1>3. Leaves(k, m, {t}) /\ Timed(m)
  BY LeavesRemoval
<1> HIDE DEF m, l
<1>4. Awake(m, t) /\ m.next \in Ticks
  BY <1>3 DEF Leaves
<1>5. Dozes(m, l, t, wake)
  BY <1>1, <1>2, <1>3, <1>4, AddedDozes, Zenon
<1>6. Dozes(k, l, t, wake)
  BY <1>3, <1>5, DozesOn, Zenon
<1> QED BY <1>6 DEF Dozes, l

-----------------------------------------------------------------------------
(* The places of the tasks. *)

\* What the lists say of the kernel, leaving out the choice of the running task.
Sound(k) == KernelShape(k) /\ KernelLists(k) /\ Places(k)

\* The lists the generic and the event items are in, task by task.
HomeOf(k) == [t \in Tasks |-> Home(k, t)]
EventOf(k) == [t \in Tasks |-> Event(k, t)]

\* Every task t is in the list h[t] names and, with its event item, in that of e[t].
Placed(k, h, e) ==
    \A t \in Tasks :
        /\ h[t] \in Homes \cup {"nowhere"} /\ e[t] \in EventLists \cup {"none"}
        /\ \A p \in Priorities : Holds(k.ready[p], t) <=> h[t] = "ready" /\ p = Prio(k, t)
        /\ Holds(k.delayed, t) <=> h[t] = "delayed"
        /\ Holds(k.overflow, t) <=> h[t] = "overflow"
        /\ Holds(k.termination, t) <=> h[t] = "termination"
        /\ \A l \in EventLists : Holds(k.event[l], t) <=> e[t] = l

\* What a move of tasks between lists leaves as it is.
SameData(k, l) ==
    /\ l.tick = k.tick /\ l.overflows = k.overflows
    /\ l.pended = k.pended /\ l.suspended = k.suspended
    /\ \A t \in Tasks : /\ Prio(l, t) = Prio(k, t)
                        /\ l.tcb[t].state = k.tcb[t].state /\ l.tcb[t].value = k.tcb[t].value

\* The same, with the running task.
SameRest(k, l) == l.current = k.current /\ l.yieldPending = k.yieldPending /\ SameData(k, l)

\* A ready task that comes before the running one, and no switch is noted.
Above(k, t) == Home(k, t) = "ready" /\ Prio(k, t) > Prio(k, k.current)
Overlooked(k, t) == Above(k, t) /\ ~k.yieldPending

\* No task is overlooked but those that have been.
Prompt(k, l) ==
    \A t \in Tasks : Overlooked(l, t) => Overlooked(k, t) /\ l.current = k.current

\* So it is where no task becomes ready, and one thing after the other.
LEMMA PromptKept ==
    ASSUME NEW k, k.current \in Tasks, NEW l, l.current = k.current, l.yieldPending = k.yieldPending,
           \A t \in Tasks : Prio(l, t) = Prio(k, t) /\ (Home(l, t) = "ready" => Home(k, t) = "ready")
    PROVE  Prompt(k, l)
BY DEF Prompt, Overlooked, Above

LEMMA PromptOn ==
    ASSUME NEW k, NEW l, NEW m, Prompt(k, l), Prompt(l, m)
    PROVE  Prompt(k, m)
BY DEF Prompt

\* In a sound kernel every task is in the lists that Home and Event name.
LEMMA PlacesOf ==
    ASSUME NEW k, Sound(k)
    PROVE  Placed(k, HomeOf(k), EventOf(k))
<1> SUFFICES ASSUME NEW t \in Tasks
             PROVE  Home(k, t) \in Homes \cup {"nowhere"} /\ Event(k, t) \in EventLists \cup {"none"}
  BY DEF Placed, Sound, Places, HomeOf, EventOf
<1> QED BY DEF Home, Event, Homes, EventLists, ToSend, ToReceive

\* And when every task is in the lists that h and e name, these are Home and
\* Event, and the kernel is sound.
LEMMA PlacesAre ==
    ASSUME NEW k, KernelShape(k), KernelLists(k), NEW h, NEW e, Placed(k, h, e)
    PROVE  /\ Sound(k)
           /\ \A t \in Tasks : Home(k, t) = h[t] /\ Event(k, t) = e[t]
<1>1. ASSUME NEW t \in Tasks PROVE Prio(k, t) \in Priorities
  BY DEF KernelShape, TCBs, Prio
<1>2. ASSUME NEW t \in Tasks PROVE Home(k, t) = h[t] /\ Event(k, t) = e[t]
  <2>1. Home(k, t) = h[t]
    BY <1>1 DEF Placed, Home, Homes
  <2>2. Event(k, t) = e[t]
    BY DEF Placed, Event, EventLists, ToSend, ToReceive
  <2> QED BY <2>1, <2>2
<1>3. Places(k)
  BY <1>2 DEF Placed, Places
<1> QED BY <1>2, <1>3 DEF Sound

\* Writing one member of a control block.
LEMMA TcbWake ==
    ASSUME NEW tcb \in [Tasks -> TCBs], NEW t \in Tasks, NEW w \in Ticks
    PROVE  LET new == [tcb EXCEPT ![t].wake = w]
           IN  /\ new \in [Tasks -> TCBs] /\ new[t].wake = w
               /\ \A u \in Tasks : /\ new[u].uxPriority = tcb[u].uxPriority
                                   /\ new[u].state = tcb[u].state /\ new[u].value = tcb[u].value
                                   /\ u # t => new[u] = tcb[u]
BY DEF TCBs

\* uxListRemove(&xGenericListItem).
LEMMA GenericRemoved ==
    ASSUME NEW k, Sound(k), NEW t \in Tasks
    PROVE  LET l == RemoveGeneric(k, t)
           IN  /\ Sound(l) /\ SameRest(k, l) /\ l.top = k.top
               /\ \A u \in Tasks : /\ Home(l, u) = IF u = t THEN "nowhere" ELSE Home(k, u)
                                   /\ Event(l, u) = Event(k, u)
<1> DEFINE l == RemoveGeneric(k, t)
           h == [u \in Tasks |-> IF u = t THEN "nowhere" ELSE Home(k, u)]
<1>1. KernelShape(k) /\ KernelLists(k) /\ Placed(k, HomeOf(k), EventOf(k))
  BY PlacesOf DEF Sound
<1>2. /\ \A p \in Priorities : l.ready[p] = uxListRemove(k.ready[p], t)
      /\ l.delayed = uxListRemove(k.delayed, t)
      /\ l.overflow = uxListRemove(k.overflow, t)
      /\ l.termination = uxListRemove(k.termination, t)
      /\ l.event = k.event /\ l.tcb = [k.tcb EXCEPT ![t].wake = 0]
      /\ Over(l, KernelFields) /\ Over(l.ready, Priorities)
      /\ l.current = k.current /\ l.top = k.top /\ l.tick = k.tick /\ l.next = k.next
      /\ l.pended = k.pended /\ l.suspended = k.suspended /\ l.overflows = k.overflows
      /\ l.yieldPending = k.yieldPending
  BY <1>1 DEF RemoveGeneric, KernelShape, KernelLists, KernelFields, Over
<1> HIDE DEF l
<1>3. /\ l.tcb \in [Tasks -> TCBs]
      /\ \A u \in Tasks : /\ Prio(l, u) = Prio(k, u)
                          /\ l.tcb[u].state = k.tcb[u].state /\ l.tcb[u].value = k.tcb[u].value
  <2>1. k.tcb \in [Tasks -> TCBs]
    BY <1>1 DEF KernelShape
  <2>2. 0 \in Ticks
    BY TimeAssumption DEF Ticks
  <2> QED BY <1>2, <2>1, <2>2, TcbWake DEF Prio
<1>4. KernelShape(l) /\ SameRest(k, l)
  BY <1>1, <1>2, <1>3 DEF KernelShape, SameRest, SameData
<1>5. KernelLists(l)
  <2>1. \A p \in Priorities : ListTypeOK(l.ready[p])
    BY <1>1, <1>2, Removed DEF KernelLists
  <2>2. ListTypeOK(l.delayed) /\ ListTypeOK(l.overflow) /\ ListTypeOK(l.termination)
    BY <1>1, <1>2, Removed DEF KernelLists
  <2> QED BY <1>1, <1>2, <2>1, <2>2 DEF KernelLists
<1>6. Placed(l, h, EventOf(k))
  <2> SUFFICES ASSUME NEW u \in Tasks
               PROVE  /\ h[u] \in Homes \cup {"nowhere"} /\ EventOf(k)[u] \in EventLists \cup {"none"}
                      /\ \A p \in Priorities : Holds(l.ready[p], u) <=> h[u] = "ready" /\ p = Prio(l, u)
                      /\ Holds(l.delayed, u) <=> h[u] = "delayed"
                      /\ Holds(l.overflow, u) <=> h[u] = "overflow"
                      /\ Holds(l.termination, u) <=> h[u] = "termination"
                      /\ \A m \in EventLists : Holds(l.event[m], u) <=> EventOf(k)[u] = m
    BY DEF Placed
  <2>1. /\ \A p \in Priorities : Holds(l.ready[p], u) <=> u # t /\ Holds(k.ready[p], u)
        /\ Holds(l.delayed, u) <=> u # t /\ Holds(k.delayed, u)
        /\ Holds(l.overflow, u) <=> u # t /\ Holds(k.overflow, u)
        /\ Holds(l.termination, u) <=> u # t /\ Holds(k.termination, u)
    <3>1. \A p \in Priorities : Holds(l.ready[p], u) <=> u # t /\ Holds(k.ready[p], u)
      BY <1>1, <1>2, Removed DEF KernelLists
    <3> QED BY <3>1, <1>1, <1>2, Removed DEF KernelLists
  <2>2. h[u] = IF u = t THEN "nowhere" ELSE HomeOf(k)[u]
    BY DEF HomeOf
  <2> QED BY <1>1, <1>2, <1>3, <2>1, <2>2 DEF Placed
<1> QED BY <1>2, <1>4, <1>5, <1>6, PlacesAre DEF l, EventOf

\* uxListRemove(&xEventListItem).
LEMMA EventRemoved ==
    ASSUME NEW k, Sound(k), NEW t \in Tasks
    PROVE  LET l == RemoveEvent(k, t)
           IN  /\ Sound(l) /\ SameRest(k, l) /\ l.top = k.top
               /\ \A u \in Tasks : /\ Home(l, u) = Home(k, u)
                                   /\ Event(l, u) = IF u = t THEN "none" ELSE Event(k, u)
<1> DEFINE l == RemoveEvent(k, t)
           e == [u \in Tasks |-> IF u = t THEN "none" ELSE Event(k, u)]
<1>1. KernelShape(k) /\ KernelLists(k) /\ Placed(k, HomeOf(k), EventOf(k))
  BY PlacesOf DEF Sound
<1>2. /\ \A m \in EventLists : l.event[m] = uxListRemove(k.event[m], t)
      /\ l.ready = k.ready /\ l.delayed = k.delayed /\ l.overflow = k.overflow
      /\ l.termination = k.termination /\ l.tcb = k.tcb
      /\ Over(l, KernelFields) /\ Over(l.event, EventLists)
      /\ l.current = k.current /\ l.top = k.top /\ l.tick = k.tick /\ l.next = k.next
      /\ l.pended = k.pended /\ l.suspended = k.suspended /\ l.overflows = k.overflows
      /\ l.yieldPending = k.yieldPending
  BY <1>1 DEF RemoveEvent, KernelShape, KernelLists, KernelFields, Over
<1> HIDE DEF l
<1>3. KernelShape(l) /\ SameRest(k, l)
  BY <1>1, <1>2 DEF KernelShape, SameRest, SameData, Prio
<1>4. \A m \in EventLists :
          /\ ListTypeOK(l.event[m])
          /\ \A u \in Tasks : Holds(l.event[m], u) <=> u # t /\ Holds(k.event[m], u)
  BY <1>1, <1>2, Removed DEF KernelLists
<1>5. KernelLists(l)
  BY <1>1, <1>2, <1>4 DEF KernelLists
<1>6. Placed(l, HomeOf(k), e)
  <2> SUFFICES ASSUME NEW u \in Tasks
               PROVE  /\ HomeOf(k)[u] \in Homes \cup {"nowhere"} /\ e[u] \in EventLists \cup {"none"}
                      /\ \A p \in Priorities : Holds(l.ready[p], u) <=> HomeOf(k)[u] = "ready" /\ p = Prio(l, u)
                      /\ Holds(l.delayed, u) <=> HomeOf(k)[u] = "delayed"
                      /\ Holds(l.overflow, u) <=> HomeOf(k)[u] = "overflow"
                      /\ Holds(l.termination, u) <=> HomeOf(k)[u] = "termination"
                      /\ \A m \in EventLists : Holds(l.event[m], u) <=> e[u] = m
    BY DEF Placed
  <2>1. e[u] = IF u = t THEN "none" ELSE EventOf(k)[u]
    BY DEF EventOf
  <2>2. "none" \notin EventLists
    BY DEF EventLists
  <2> HIDE DEF e
  <2> QED BY <1>1, <1>2, <1>4, <2>1, <2>2 DEF Placed, Prio
<1> QED BY <1>2, <1>3, <1>5, <1>6, PlacesAre DEF l, HomeOf

\* A list x that is y with a task more.
Gains(x, y, t) == ListTypeOK(x) /\ \A u \in Tasks : Holds(x, u) <=> u = t \/ Holds(y, u)

\* Writes that no list and no priority depends on.
LEMMA ListsKept ==
    ASSUME NEW k, Sound(k), NEW l, KernelShape(l), \A u \in Tasks : Prio(l, u) = Prio(k, u),
           l.ready = k.ready, l.delayed = k.delayed, l.overflow = k.overflow,
           l.termination = k.termination, l.event = k.event
    PROVE  /\ Sound(l)
           /\ \A u \in Tasks : Home(l, u) = Home(k, u) /\ Event(l, u) = Event(k, u)
<1>1. KernelLists(l)
  BY DEF Sound, KernelLists
<1>2. Placed(l, HomeOf(k), EventOf(k))
  BY PlacesOf DEF Placed
<1> QED BY <1>1, <1>2, PlacesAre DEF HomeOf, EventOf

\* A task that is nowhere is put into one list with its generic item.
LEMMA Joined ==
    ASSUME NEW k, Sound(k), NEW t \in Tasks, Home(k, t) = "nowhere", NEW home \in Homes,
           NEW l, KernelShape(l), \A u \in Tasks : Prio(l, u) = Prio(k, u), l.event = k.event,
           Over(l.ready, Priorities),
           \A p \in Priorities : IF home = "ready" /\ p = Prio(k, t)
                                 THEN Gains(l.ready[p], k.ready[p], t) ELSE l.ready[p] = k.ready[p],
           IF home = "delayed" THEN Gains(l.delayed, k.delayed, t) ELSE l.delayed = k.delayed,
           IF home = "overflow" THEN Gains(l.overflow, k.overflow, t) ELSE l.overflow = k.overflow,
           IF home = "termination" THEN Gains(l.termination, k.termination, t)
                                   ELSE l.termination = k.termination
    PROVE  /\ Sound(l)
           /\ \A u \in Tasks : /\ Home(l, u) = IF u = t THEN home ELSE Home(k, u)
                               /\ Event(l, u) = Event(k, u)
<1> DEFINE h == [u \in Tasks |-> IF u = t THEN home ELSE Home(k, u)]
<1>1. KernelLists(k) /\ Placed(k, HomeOf(k), EventOf(k))
  BY PlacesOf DEF Sound
<1>2. KernelLists(l)
  BY <1>1 DEF KernelLists, Gains
<1>3. ASSUME NEW u \in Tasks
      PROVE  /\ \A p \in Priorities : Holds(l.ready[p], u)
                    <=> Holds(k.ready[p], u) \/ (home = "ready" /\ p = Prio(k, t) /\ u = t)
             /\ Holds(l.delayed, u) <=> Holds(k.delayed, u) \/ (home = "delayed" /\ u = t)
             /\ Holds(l.overflow, u) <=> Holds(k.overflow, u) \/ (home = "overflow" /\ u = t)
             /\ Holds(l.termination, u) <=> Holds(k.termination, u) \/ (home = "termination" /\ u = t)
  BY DEF Gains
<1>4. Placed(l, h, EventOf(k))
  <2> SUFFICES ASSUME NEW u \in Tasks
               PROVE  /\ h[u] \in Homes \cup {"nowhere"} /\ EventOf(k)[u] \in EventLists \cup {"none"}
                      /\ \A p \in Priorities : Holds(l.ready[p], u) <=> h[u] = "ready" /\ p = Prio(l, u)
                      /\ Holds(l.delayed, u) <=> h[u] = "delayed"
                      /\ Holds(l.overflow, u) <=> h[u] = "overflow"
                      /\ Holds(l.termination, u) <=> h[u] = "termination"
                      /\ \A m \in EventLists : Holds(l.event[m], u) <=> EventOf(k)[u] = m
    BY DEF Placed
  <2>1. h[u] = IF u = t THEN home ELSE HomeOf(k)[u]
    BY DEF HomeOf
  <2>2. HomeOf(k)[t] = "nowhere"
    BY DEF HomeOf
  <2> HIDE DEF h
  <2> QED BY <1>1, <1>3, <2>1, <2>2 DEF Placed, Homes
<1> QED BY <1>2, <1>4, PlacesAre DEF EventOf

\* prvAddTaskToReadyList.
LEMMA ReadyAdded ==
    ASSUME NEW k, Sound(k), NEW t \in Tasks, Home(k, t) = "nowhere"
    PROVE  LET l == prvAddTaskToReadyList(k, t)
           IN  /\ Sound(l) /\ SameRest(k, l) /\ l.top = Max2(k.top, Prio(k, t))
               /\ \A u \in Tasks : /\ Home(l, u) = IF u = t THEN "ready" ELSE Home(k, u)
                                   /\ Event(l, u) = Event(k, u)
<1> DEFINE l == prvAddTaskToReadyList(k, t)
           q == Prio(k, t)
<1>1. KernelShape(k) /\ KernelLists(k)
  BY DEF Sound
<1>2. q \in Priorities
  BY <1>1 DEF KernelShape, TCBs, Prio
<1>3. /\ \A p \in Priorities : l.ready[p] = IF p = q THEN vListInsertEnd(k.ready[p], t) ELSE k.ready[p]
      /\ l.delayed = k.delayed /\ l.overflow = k.overflow
      /\ l.termination = k.termination /\ l.event = k.event /\ l.tcb = k.tcb
      /\ Over(l, KernelFields) /\ Over(l.ready, Priorities)
      /\ l.top = Max2(k.top, q)
      /\ l.current = k.current /\ l.tick = k.tick /\ l.next = k.next
      /\ l.pended = k.pended /\ l.suspended = k.suspended /\ l.overflows = k.overflows
      /\ l.yieldPending = k.yieldPending
  BY <1>1, <1>2 DEF prvAddTaskToReadyList, KernelShape, KernelLists, KernelFields, Over
<1> HIDE DEF l
<1>4. KernelShape(l) /\ SameRest(k, l)
  BY <1>1, <1>2, <1>3 DEF KernelShape, SameRest, SameData, Prio, Max2
<1>5. ~Holds(k.ready[q], t)
  BY <1>2 DEF Sound, Places
<1>6. Gains(vListInsertEnd(k.ready[q], t), k.ready[q], t)
  BY <1>1, <1>2, <1>5, InsertedLast DEF KernelLists, Gains
<1>7. "ready" \in Homes /\ \A u \in Tasks : Prio(l, u) = Prio(k, u)
  BY <1>4 DEF SameRest, SameData, Homes
<1>8. /\ Sound(l)
      /\ \A u \in Tasks : /\ Home(l, u) = IF u = t THEN "ready" ELSE Home(k, u)
                          /\ Event(l, u) = Event(k, u)
  BY <1>3, <1>4, <1>6, <1>7, Joined
<1> QED BY <1>3, <1>4, <1>8 DEF l

\* A task that waits for no event is put into an event list.
LEMMA EventJoined ==
    ASSUME NEW k, Sound(k), NEW t \in Tasks, Event(k, t) = "none", NEW list \in EventLists,
           NEW x, Gains(x, k.event[list], t)
    PROVE  LET l == [k EXCEPT !.event[list] = x]
           IN  /\ Sound(l) /\ SameRest(k, l) /\ l.top = k.top /\ l.ready = k.ready
               /\ \A u \in Tasks : /\ Home(l, u) = Home(k, u)
                                   /\ Event(l, u) = IF u = t THEN list ELSE Event(k, u)
<1> DEFINE l == [k EXCEPT !.event[list] = x]
           e == [u \in Tasks |-> IF u = t THEN list ELSE Event(k, u)]
<1>1. KernelShape(k) /\ KernelLists(k) /\ Placed(k, HomeOf(k), EventOf(k))
  BY PlacesOf DEF Sound
<1>2. /\ \A m \in EventLists : l.event[m] = IF m = list THEN x ELSE k.event[m]
      /\ l.ready = k.ready /\ l.delayed = k.delayed /\ l.overflow = k.overflow
      /\ l.termination = k.termination /\ l.tcb = k.tcb
      /\ Over(l, KernelFields) /\ Over(l.event, EventLists)
      /\ l.current = k.current /\ l.top = k.top /\ l.tick = k.tick /\ l.next = k.next
      /\ l.pended = k.pended /\ l.suspended = k.suspended /\ l.overflows = k.overflows
      /\ l.yieldPending = k.yieldPending
  BY <1>1 DEF KernelShape, KernelLists, KernelFields, Over
<1> HIDE DEF l
<1>3. KernelShape(l) /\ SameRest(k, l)
  BY <1>1, <1>2 DEF KernelShape, SameRest, SameData, Prio
<1>4. \A m \in EventLists :
          /\ ListTypeOK(l.event[m])
          /\ \A u \in Tasks : Holds(l.event[m], u) <=> Holds(k.event[m], u) \/ (u = t /\ m = list)
  BY <1>1, <1>2 DEF KernelLists, Gains
<1>5. KernelLists(l)
  BY <1>1, <1>2, <1>4 DEF KernelLists
<1>6. Placed(l, HomeOf(k), e)
  <2> SUFFICES ASSUME NEW u \in Tasks
               PROVE  /\ HomeOf(k)[u] \in Homes \cup {"nowhere"} /\ e[u] \in EventLists \cup {"none"}
                      /\ \A p \in Priorities : Holds(l.ready[p], u) <=> HomeOf(k)[u] = "ready" /\ p = Prio(l, u)
                      /\ Holds(l.delayed, u) <=> HomeOf(k)[u] = "delayed"
                      /\ Holds(l.overflow, u) <=> HomeOf(k)[u] = "overflow"
                      /\ Holds(l.termination, u) <=> HomeOf(k)[u] = "termination"
                      /\ \A m \in EventLists : Holds(l.event[m], u) <=> e[u] = m
    BY DEF Placed
  <2>1. e[u] = IF u = t THEN list ELSE EventOf(k)[u]
    BY DEF EventOf
  <2>2. "none" \notin EventLists
    BY DEF EventLists
  <2>3. EventOf(k)[t] = "none"
    BY DEF EventOf
  <2> HIDE DEF e
  <2> QED BY <1>1, <1>2, <1>4, <2>1, <2>2, <2>3 DEF Placed, Prio
<1> QED BY <1>2, <1>3, <1>5, <1>6, PlacesAre DEF l, HomeOf

\* vListInsert and vListInsertEnd put a task that is not there into a list.
LEMMA InsertGains ==
    ASSUME NEW y, ListTypeOK(y), NEW t \in Tasks, ~Holds(y, t), NEW value
    PROVE  Gains(vListInsert(y, t, value), y, t) /\ Gains(vListInsertEnd(y, t), y, t)
BY InsertedLast, InsertedSorted DEF Gains

\* prvAddCurrentTaskToDelayedList.
LEMMA DelayedAdded ==
    ASSUME NEW k, Sound(k), Home(k, k.current) = "nowhere", NEW wake \in Ticks
    PROVE  LET l == prvAddCurrentTaskToDelayedList(k, wake)
           IN  /\ Sound(l) /\ SameRest(k, l) /\ l.top = k.top
               /\ \A u \in Tasks :
                    /\ Home(l, u) = IF u # k.current THEN Home(k, u)
                                    ELSE IF wake < k.tick THEN "overflow" ELSE "delayed"
                    /\ Event(l, u) = Event(k, u)
<1> DEFINE t == k.current
           l == prvAddCurrentTaskToDelayedList(k, wake)
           keyed == [k EXCEPT !.tcb[t].wake = wake]
<1>1. KernelShape(k) /\ KernelLists(k) /\ t \in Tasks
  BY DEF Sound, KernelShape
<1>2. /\ keyed.tcb = [k.tcb EXCEPT ![t].wake = wake]
      /\ keyed.ready = k.ready /\ keyed.delayed = k.delayed /\ keyed.overflow = k.overflow
      /\ keyed.termination = k.termination /\ keyed.event = k.event
      /\ Over(keyed, KernelFields)
      /\ keyed.current = k.current /\ keyed.top = k.top /\ keyed.tick = k.tick
      /\ keyed.next = k.next /\ keyed.pended = k.pended /\ keyed.suspended = k.suspended
      /\ keyed.overflows = k.overflows /\ keyed.yieldPending = k.yieldPending
  BY <1>1 DEF KernelShape, KernelFields, Over
<1>3. /\ keyed.tcb \in [Tasks -> TCBs]
      /\ \A u \in Tasks : /\ Prio(keyed, u) = Prio(k, u)
                          /\ keyed.tcb[u].state = k.tcb[u].state /\ keyed.tcb[u].value = k.tcb[u].value
  <2>1. k.tcb \in [Tasks -> TCBs]
    BY <1>1 DEF KernelShape
  <2> QED BY <1>1, <1>2, <2>1, TcbWake DEF Prio
<1> DEFINE values == Wakes(keyed)
           far == [keyed EXCEPT !.overflow = vListInsert(@, t, values)]
           near == [keyed EXCEPT !.delayed = vListInsert(@, t, values), !.next = Min({@, wake})]
<1>4. l = IF wake < k.tick THEN far ELSE near
  BY DEF prvAddCurrentTaskToDelayedList
<1> HIDE DEF keyed, l
<1>5. /\ Gains(vListInsert(k.overflow, t, values), k.overflow, t)
      /\ Gains(vListInsert(k.delayed, t, values), k.delayed, t)
  BY <1>1, InsertGains DEF Sound, Places, KernelLists
<1>6. Min({k.next, wake}) \in Ticks
  <2>1. {k.next, wake} \in SUBSET Nat /\ {k.next, wake} \subseteq Ticks
    BY <1>1, TimeAssumption DEF KernelShape, Ticks
  <2> QED BY <2>1, LeastNumber
<1> HIDE DEF values
<1>7. CASE wake < k.tick
  <2>1. /\ l.overflow = vListInsert(k.overflow, t, values) /\ l.delayed = k.delayed
        /\ l.ready = k.ready /\ l.termination = k.termination /\ l.event = k.event
        /\ l.tcb = keyed.tcb /\ Over(l, KernelFields)
        /\ l.current = k.current /\ l.top = k.top /\ l.tick = k.tick
        /\ l.next = k.next /\ l.pended = k.pended /\ l.suspended = k.suspended
        /\ l.overflows = k.overflows
        /\ l.yieldPending = k.yieldPending
    BY <1>2, <1>4, <1>7 DEF KernelFields, Over
  <2>2. KernelShape(l) /\ SameRest(k, l)
    BY <1>1, <1>3, <2>1 DEF KernelShape, SameRest, SameData, Prio
  <2>3. "overflow" \in Homes /\ Over(l.ready, Priorities) /\ \A u \in Tasks : Prio(l, u) = Prio(k, u)
    BY <1>1, <2>1, <2>2 DEF SameRest, SameData, Homes, KernelLists
  <2>4. /\ Sound(l)
        /\ \A u \in Tasks : /\ Home(l, u) = IF u = t THEN "overflow" ELSE Home(k, u)
                            /\ Event(l, u) = Event(k, u)
    BY <1>1, <1>5, <2>1, <2>2, <2>3, Joined
  <2> QED BY <1>7, <2>1, <2>2, <2>4 DEF l
<1>8. CASE ~(wake < k.tick)
  <2>1. /\ l.overflow = k.overflow /\ l.delayed = vListInsert(k.delayed, t, values)
        /\ l.ready = k.ready /\ l.termination = k.termination /\ l.event = k.event
        /\ l.tcb = keyed.tcb /\ Over(l, KernelFields)
        /\ l.current = k.current /\ l.top = k.top /\ l.tick = k.tick
        /\ l.next = Min({k.next, wake}) /\ l.pended = k.pended /\ l.suspended = k.suspended
        /\ l.overflows = k.overflows
        /\ l.yieldPending = k.yieldPending
    BY <1>2, <1>4, <1>8 DEF KernelFields, Over
  <2>2. KernelShape(l) /\ SameRest(k, l)
    BY <1>1, <1>3, <1>6, <2>1 DEF KernelShape, SameRest, SameData, Prio
  <2>3. "delayed" \in Homes /\ Over(l.ready, Priorities) /\ \A u \in Tasks : Prio(l, u) = Prio(k, u)
    BY <1>1, <2>1, <2>2 DEF SameRest, SameData, Homes, KernelLists
  <2>4. /\ Sound(l)
        /\ \A u \in Tasks : /\ Home(l, u) = IF u = t THEN "delayed" ELSE Home(k, u)
                            /\ Event(l, u) = Event(k, u)
    BY <1>1, <1>5, <2>1, <2>2, <2>3, Joined
  <2> QED BY <1>8, <2>1, <2>2, <2>4 DEF l
<1> QED BY <1>7, <1>8

-----------------------------------------------------------------------------
(* The functions of tasks.c. *)

\* The current task, if it is not the idle task, goes to sleep.
LEMMA Slept ==
    ASSUME NEW k, KernelOK(k), k.current # IdleTask, NEW wake \in Ticks
    PROVE  LET l == BlockUntil(k, wake)
           IN  /\ KernelOK(l) /\ SameRest(k, l)
               /\ \A u \in Tasks :
                    /\ IF u = k.current THEN Home(l, u) \in Blocked ELSE Home(l, u) = Home(k, u)
                    /\ Event(l, u) = Event(k, u)
<1> DEFINE out == RemoveGeneric(k, k.current)
           l == BlockUntil(k, wake)
<1>1. Sound(k) /\ Choice(k) /\ k.current \in Tasks
  BY DEF KernelOK, Sound, KernelShape
<1>2. /\ Sound(out) /\ SameRest(k, out) /\ out.top = k.top
      /\ \A u \in Tasks : /\ Home(out, u) = IF u = k.current THEN "nowhere" ELSE Home(k, u)
                          /\ Event(out, u) = Event(k, u)
  BY <1>1, GenericRemoved
<1> HIDE DEF out
<1>3. /\ Sound(l) /\ SameRest(out, l) /\ l.top = out.top
      /\ \A u \in Tasks :
            /\ Home(l, u) = IF u # out.current THEN Home(out, u)
                            ELSE IF wake < out.tick THEN "overflow" ELSE "delayed"
            /\ Event(l, u) = Event(out, u)
  <2>1. out.current = k.current /\ Home(out, out.current) = "nowhere"
    BY <1>1, <1>2 DEF SameRest, SameData
  <2>2. l = prvAddCurrentTaskToDelayedList(out, wake)
    BY DEF BlockUntil, out
  <2> QED BY <1>2, <2>1, <2>2, DelayedAdded
<1> HIDE DEF l
<1>4. SameRest(k, l)
  BY <1>2, <1>3 DEF SameRest, SameData
<1>5. \A u \in Tasks :
          /\ IF u = k.current THEN Home(l, u) \in Blocked ELSE Home(l, u) = Home(k, u)
          /\ Event(l, u) = Event(k, u)
  BY <1>2, <1>3 DEF SameRest, SameData, Blocked
<1>6. Choice(l)
  BY <1>1, <1>2, <1>3, <1>4, <1>5, KernelAssumption DEF Choice, SameRest, SameData, Blocked
<1> QED BY <1>3, <1>4, <1>5, <1>6 DEF KernelOK, Sound, l

\* A sum of ticks is a tick.
LEMMA StoredIsTick ==
    ASSUME NEW a \in Ticks, NEW b \in Ticks
    PROVE  Stored(a + b) \in Ticks
BY TimeAssumption DEF Ticks, Stored

\* prvAddCurrentTaskToDelayedList with the ticks a caller asks for.
LEMMA SleptFor ==
    ASSUME NEW k, KernelOK(k), k.current # IdleTask, NEW ticks \in Ticks
    PROVE  LET l == BlockFor(k, ticks)
           IN  /\ KernelOK(l) /\ SameRest(k, l)
               /\ \A u \in Tasks :
                    /\ IF u = k.current THEN Home(l, u) \in Blocked ELSE Home(l, u) = Home(k, u)
                    /\ Event(l, u) = Event(k, u)
<1>1. Stored(k.tick + ticks) \in Ticks
  BY StoredIsTick DEF KernelOK, KernelShape
<1> QED BY <1>1, Slept DEF BlockFor

\* vTaskPlaceOnEventList.
LEMMA PlacedOnList ==
    ASSUME NEW k, KernelOK(k), k.current # IdleTask, Event(k, k.current) = "none",
           NEW list \in EventLists, NEW ticks \in Ticks
    PROVE  LET l == vTaskPlaceOnEventList(k, list, ticks)
           IN  /\ KernelOK(l) /\ SameRest(k, l)
               /\ \A u \in Tasks :
                    IF u = k.current THEN Home(l, u) \in Blocked /\ Event(l, u) = list
                    ELSE Home(l, u) = Home(k, u) /\ Event(l, u) = Event(k, u)
<1> DEFINE t == k.current
           x == vListInsert(k.event[list], t, EventValues(k))
           m == [k EXCEPT !.event[list] = x]
           l == vTaskPlaceOnEventList(k, list, ticks)
<1>1. Sound(k) /\ Choice(k) /\ t \in Tasks /\ KernelLists(k)
  BY DEF KernelOK, Sound, KernelShape
<1>2. list # "none"
  BY DEF EventLists
<1>3. Gains(x, k.event[list], t)
  BY <1>1, <1>2, InsertGains DEF KernelLists, Sound, Places
<1>4. l = BlockFor(m, ticks)
  BY DEF vTaskPlaceOnEventList
<1> HIDE DEF x
<1>5. /\ Sound(m) /\ SameRest(k, m) /\ m.top = k.top
      /\ \A u \in Tasks : /\ Home(m, u) = Home(k, u)
                          /\ Event(m, u) = IF u = t THEN list ELSE Event(k, u)
  BY <1>1, <1>3, EventJoined
<1> HIDE DEF m, l
<1>6. KernelOK(m) /\ m.current = k.current
  BY <1>1, <1>5, KernelAssumption DEF KernelOK, Sound, Choice, SameRest, SameData
<1>7. /\ KernelOK(l) /\ SameRest(m, l)
      /\ \A u \in Tasks :
            /\ IF u = t THEN Home(l, u) \in Blocked ELSE Home(l, u) = Home(m, u)
            /\ Event(l, u) = Event(m, u)
  BY <1>4, <1>6, SleptFor
<1>8. SameRest(k, l)
  BY <1>5, <1>7 DEF SameRest, SameData
<1> QED BY <1>5, <1>7, <1>8 DEF l

\* vTaskSwitchContext: some ready task of the highest priority comes next, or the
\* switch has to wait.
LEMMA Switched ==
    ASSUME NEW k, KernelOK(k)
    PROVE  LET l == vTaskSwitchContext(k)
           IN  /\ KernelOK(l) /\ SameData(k, l)
               /\ \A u \in Tasks : Home(l, u) = Home(k, u) /\ Event(l, u) = Event(k, u)
               /\ IF k.suspended # 0 THEN l.current = k.current ELSE Home(l, l.current) = "ready"
               /\ \A u \in Tasks : ~Overlooked(l, u)
<1> DEFINE l == vTaskSwitchContext(k)
           S == {p \in 0 .. k.top : ~IsEmpty(k.ready[p])}
           top == Max(S)
<1>1. KernelShape(k) /\ KernelLists(k) /\ Placed(k, HomeOf(k), EventOf(k)) /\ Sound(k) /\ Choice(k)
  BY PlacesOf DEF KernelOK, Sound
<1>2. CASE k.suspended # 0
  <2>1. l = [k EXCEPT !.yieldPending = TRUE]
    BY <1>2 DEF vTaskSwitchContext
  <2>2. /\ Over(l, KernelFields) /\ l.current = k.current /\ l.top = k.top /\ l.tick = k.tick
        /\ l.next = k.next /\ l.pended = k.pended /\ l.suspended = k.suspended
        /\ l.overflows = k.overflows /\ l.yieldPending /\ l.tcb = k.tcb
        /\ l.ready = k.ready /\ l.delayed = k.delayed /\ l.overflow = k.overflow
        /\ l.termination = k.termination /\ l.event = k.event
    BY <1>1, <2>1 DEF KernelShape, KernelFields, Over
  <2> HIDE DEF l
  <2>3. KernelShape(l) /\ \A u \in Tasks : Prio(l, u) = Prio(k, u)
    BY <1>1, <2>2 DEF KernelShape, Prio
  <2>4. /\ Sound(l)
        /\ \A u \in Tasks : Home(l, u) = Home(k, u) /\ Event(l, u) = Event(k, u)
    BY <1>1, <2>2, <2>3, ListsKept
  <2>5. Choice(l)
    BY <1>1, <2>2, <2>3, <2>4, KernelAssumption DEF Choice
  <2>6. SameData(k, l)
    BY <1>1, <2>2 DEF SameRest, SameData, Prio, KernelShape, KernelFields, Over
  <2>7. \A u \in Tasks : ~Overlooked(l, u)
    BY <2>2 DEF Overlooked
  <2> QED BY <1>2, <2>2, <2>4, <2>5, <2>6, <2>7 DEF KernelOK, Sound, l
<1>3. CASE k.suspended = 0
  <2>1. k.top \in Nat /\ 0 .. k.top \subseteq Priorities /\ S \in SUBSET (0 .. k.top)
    BY <1>1, KernelAssumption DEF KernelShape, Priorities
  <2>2. \A u \in Tasks : Home(k, u) = "ready" => Prio(k, u) \in S
    <3>1. ASSUME NEW u \in Tasks, Home(k, u) = "ready" PROVE Prio(k, u) \in S
      <4>1. Prio(k, u) \in Priorities /\ Prio(k, u) <= k.top
        BY <1>1, <3>1 DEF KernelShape, TCBs, Prio, Choice
      <4>2. Holds(k.ready[Prio(k, u)], u)
        BY <1>1, <3>1, <4>1 DEF Sound, Places
      <4>3. ~IsEmpty(k.ready[Prio(k, u)])
        BY <1>1, <4>1, <4>2, EmptyOrNot DEF KernelLists
      <4> QED BY <4>1, <4>3, <2>1 DEF Priorities
    <3> QED BY <3>1
  <2>3. S # {}
    BY <1>1, <2>2, KernelAssumption DEF Choice
  <2>4. top \in S /\ \A p \in S : p <= top
    BY <2>1, <2>3, GreatestNumber
  <2>5. top \in Priorities /\ ~IsEmpty(k.ready[top])
    BY <2>1, <2>4
  <2> DEFINE x == NextEntry(k.ready[top])
  <2>6. l = [k EXCEPT !.yieldPending = FALSE, !.top = top,
                      !.ready[top] = NextEntry(@), !.current = Head(NextEntry(k.ready[top]))]
    BY <1>3 DEF vTaskSwitchContext
  <2> HIDE DEF S, top
  <2>7. /\ ListTypeOK(x) /\ \A u \in Tasks : Holds(x, u) <=> Holds(k.ready[top], u)
        /\ Head(x) \in Tasks /\ Holds(k.ready[top], Head(x))
    BY <1>1, <2>5, NextIsHeld DEF KernelLists
  <2> DEFINE ready == [k.ready EXCEPT ![top] = x]
  <2>8. l = [k EXCEPT !.yieldPending = FALSE, !.top = top, !.ready = ready, !.current = Head(x)]
    BY <2>6, <1>1 DEF KernelShape, KernelFields, Over
  <2>9. /\ Over(ready, Priorities)
        /\ \A p \in Priorities : ready[p] = IF p = top THEN x ELSE k.ready[p]
    BY <1>1 DEF KernelLists, Over
  <2> HIDE DEF l, x, ready
  <2>10. /\ Over(l, KernelFields) /\ Over(l.ready, Priorities) /\ l.current = Head(x) /\ l.top = top
         /\ l.tick = k.tick
         /\ l.next = k.next /\ l.pended = k.pended /\ l.suspended = k.suspended
         /\ l.overflows = k.overflows /\ l.tcb = k.tcb
         /\ \A p \in Priorities : l.ready[p] = IF p = top THEN x ELSE k.ready[p]
         /\ l.delayed = k.delayed /\ l.overflow = k.overflow
         /\ l.termination = k.termination /\ l.event = k.event
    <3>1. Over(k, KernelFields)
      BY <1>1 DEF KernelShape
    <3>2. l.ready = ready
      BY <2>8, <3>1 DEF Over, KernelFields
    <3> QED BY <2>8, <2>9, <3>1, <3>2 DEF KernelFields, Over
  <2>11. KernelShape(l) /\ \A u \in Tasks : Prio(l, u) = Prio(k, u)
    BY <1>1, <2>5, <2>7, <2>10 DEF KernelShape, Prio
  <2>12. KernelLists(l)
    BY <1>1, <2>7, <2>10 DEF KernelLists
  <2>13. Placed(l, HomeOf(k), EventOf(k))
    <3>1. \A p \in Priorities : \A u \in Tasks : Holds(l.ready[p], u) <=> Holds(k.ready[p], u)
      BY <2>7, <2>10
    <3> SUFFICES ASSUME NEW u \in Tasks
                 PROVE  /\ HomeOf(k)[u] \in Homes \cup {"nowhere"} /\ EventOf(k)[u] \in EventLists \cup {"none"}
                        /\ \A p \in Priorities : Holds(l.ready[p], u) <=> HomeOf(k)[u] = "ready" /\ p = Prio(l, u)
                        /\ Holds(l.delayed, u) <=> HomeOf(k)[u] = "delayed"
                        /\ Holds(l.overflow, u) <=> HomeOf(k)[u] = "overflow"
                        /\ Holds(l.termination, u) <=> HomeOf(k)[u] = "termination"
                        /\ \A m \in EventLists : Holds(l.event[m], u) <=> EventOf(k)[u] = m
      BY DEF Placed
    <3> QED BY <1>1, <2>10, <2>11, <3>1 DEF Placed
  <2>14. /\ Sound(l)
         /\ \A u \in Tasks : Home(l, u) = Home(k, u) /\ Event(l, u) = Event(k, u)
    BY <2>11, <2>12, <2>13, PlacesAre DEF HomeOf, EventOf
  <2>15. Choice(l)
    BY <1>1, <2>2, <2>4, <2>10, <2>11, <2>14, KernelAssumption DEF Choice
  <2>16. Home(k, l.current) = "ready"
    <3>1. l.current \in Tasks /\ Holds(k.ready[top], l.current)
      BY <2>7, <2>10
    <3> QED BY <3>1, <1>1, <2>5 DEF Sound, Places
  <2>17. SameData(k, l)
    BY <1>1, <2>10 DEF SameRest, SameData, Prio, KernelShape, KernelFields, Over
  <2>18. ASSUME NEW u \in Tasks PROVE ~Overlooked(l, u)
    <3>1. l.current \in Tasks /\ Holds(k.ready[top], l.current)
      BY <2>7, <2>10
    <3>2. Prio(l, l.current) = top
      BY <1>1, <2>5, <2>11, <3>1 DEF Sound, Places
    <3>3. Home(l, u) = "ready" => Prio(l, u) <= top
      BY <2>2, <2>4, <2>11, <2>14
    <3>4. Prio(l, u) \in Nat /\ top \in Nat
      BY <2>5, <2>11 DEF KernelShape, TCBs, Prio, Priorities
    <3> QED BY <3>2, <3>3, <3>4 DEF Overlooked, Above
  <2> QED BY <1>3, <2>7, <2>10, <2>14, <2>15, <2>16, <2>17, <2>18 DEF KernelOK, Sound, l
<1> QED BY <1>2, <1>3

\* t goes on waiting for its turn, and nobody gets in before it.
NoneBefore(k, l, t) ==
    Home(k, t) = "ready" =>
        Home(l, t) = "ready" /\ Prio(l, t) = Prio(k, t) /\ Ahead(l, t) \subseteq Ahead(k, t)

\* And the task at the index of its list stays there.
First(k, t) == Head(k.ready[Prio(k, t)])
InTurn(k, l, t) ==
    Home(k, t) = "ready" /\ First(k, t) # t => NoneBefore(k, l, t) /\ First(l, t) = First(k, t)
Turns(k, l) == \A t \in Tasks : InTurn(k, l, t)

\* So it is where no ready list changes, and one thing after the other.
LEMMA TurnsAlike ==
    ASSUME NEW k, NEW l, l.ready = k.ready, \A t \in Tasks : Prio(l, t) = Prio(k, t)
    PROVE  Turns(k, l) /\ \A t \in Tasks : NoneBefore(k, l, t)
BY DEF Turns, InTurn, NoneBefore, First, Home, Ahead

\* A step in which t waits for its turn, and does not get it.
Slices(k, l, t) ==
    Home(k, t) = "ready" /\ First(k, t) # t /\ Home(l, t) = "ready" /\ l.current # t
        => Ahead(l, t) \subseteq Ahead(k, t)

LEMMA SlicesOn ==
    ASSUME NEW k, NEW l, NEW m, NEW t, InTurn(k, l, t), t # m.current => NoneBefore(l, m, t)
    PROVE  Slices(k, m, t)
BY DEF Slices, InTurn, NoneBefore

LEMMA TurnsOn ==
    ASSUME NEW k, NEW l, NEW m, Turns(k, l), Turns(l, m)
    PROVE  Turns(k, m)
BY DEF Turns, InTurn, NoneBefore

\* The task at the index of a ready list is ready.
LEMMA FirstIsReady ==
    ASSUME NEW k, Sound(k), NEW t \in Tasks, NEW u \in Tasks, First(k, t) = u
    PROVE  Home(k, u) = "ready"
<1> DEFINE list == k.ready[Prio(k, t)]
<1>1. Prio(k, t) \in Priorities
  BY DEF Sound, KernelShape, TCBs, Prio
<1>2. ListTypeOK(list)
  BY <1>1 DEF Sound, KernelLists
<1>3. Len(list) \in Nat /\ Len(list) >= 1 /\ DOMAIN list = 1 .. Len(list) /\ list \in Seq(Tasks \cup {xListEnd})
  BY <1>2, ListFrom
<1>4. list[1] = u
  BY <1>3 DEF First
<1>5. Holds(list, u)
  BY <1>3, <1>4, HoldsIs
<1> QED BY <1>1, <1>5 DEF Sound, Places

\* uxListRemove(&xGenericListItem) of another task.
LEMMA RemovalTurns ==
    ASSUME NEW k, Sound(k), NEW u \in Tasks, NEW t \in Tasks, t # u
    PROVE  LET l == RemoveGeneric(k, u)
           IN  NoneBefore(k, l, t) /\ (First(k, t) # u => InTurn(k, l, t))
<1> DEFINE l == RemoveGeneric(k, u)
           q == Prio(k, t)
<1>1. /\ Sound(l) /\ SameRest(k, l)
      /\ Home(l, t) = Home(k, t)
  BY GenericRemoved
<1>2. \A p \in Priorities : l.ready[p] = uxListRemove(k.ready[p], u)
  BY DEF RemoveGeneric, Sound, KernelShape, KernelLists, KernelFields, Over
<1> HIDE DEF l
<1>3. Prio(l, t) = q /\ q \in Priorities
  BY <1>1 DEF SameRest, SameData, Sound, KernelShape, TCBs, Prio
<1>4. ListTypeOK(k.ready[q])
  BY <1>3 DEF Sound, KernelLists
<1>5. /\ AheadIn(l.ready[q], t) \subseteq AheadIn(k.ready[q], t)
      /\ Head(k.ready[q]) # u => Head(l.ready[q]) = Head(k.ready[q])
  BY <1>2, <1>3, <1>4, AheadRemoved
<1> QED BY <1>1, <1>3, <1>5 DEF NoneBefore, InTurn, First, Ahead, l

\* And of one that is not ready.
LEMMA MoveTurns ==
    ASSUME NEW k, Sound(k), NEW u \in Tasks, Home(k, u) # "ready"
    PROVE  Turns(k, RemoveGeneric(k, u))
<1> SUFFICES ASSUME NEW t \in Tasks, Home(k, t) = "ready" PROVE InTurn(k, RemoveGeneric(k, u), t)
  BY DEF Turns, InTurn
<1>1. t # u /\ First(k, t) # u
  BY FirstIsReady
<1> QED BY <1>1, RemovalTurns

\* prvAddTaskToReadyList.
LEMMA ReadyingTurns ==
    ASSUME NEW k, Sound(k), NEW u \in Tasks, Home(k, u) = "nowhere"
    PROVE  Turns(k, prvAddTaskToReadyList(k, u))
<1> DEFINE l == prvAddTaskToReadyList(k, u)
<1> SUFFICES ASSUME NEW t \in Tasks, Home(k, t) = "ready", First(k, t) # t PROVE InTurn(k, l, t)
  BY DEF Turns, InTurn
<1> DEFINE q == Prio(k, t)
<1>1. /\ Sound(l) /\ SameRest(k, l)
      /\ Home(l, t) = "ready"
  BY ReadyAdded
<1>2. Prio(l, t) = q /\ q \in Priorities /\ Prio(k, u) \in Priorities /\ t # u
  <2>1. Prio(l, t) = q
    BY <1>1 DEF SameRest, SameData
  <2> QED BY <2>1 DEF Sound, KernelShape, TCBs, Prio
<1>3. l.ready[q] = IF q = Prio(k, u) THEN vListInsertEnd(k.ready[q], u) ELSE k.ready[q]
  BY <1>2 DEF prvAddTaskToReadyList, Sound, KernelShape, KernelLists, KernelFields, Over
<1> HIDE DEF l
<1>4. ListTypeOK(k.ready[q]) /\ Holds(k.ready[q], t) /\ Head(k.ready[q]) # t
  BY <1>2 DEF Sound, KernelLists, Places, First
<1>5. /\ AheadIn(l.ready[q], t) \subseteq AheadIn(k.ready[q], t)
      /\ Head(l.ready[q]) = Head(k.ready[q])
  BY <1>2, <1>3, <1>4, AheadInserted
<1> QED BY <1>1, <1>2, <1>5 DEF NoneBefore, InTurn, First, Ahead, l

\* A task is made ready that is not t, nor at the index of its list - or was not ready.
LEMMA ReadiedTurns ==
    ASSUME NEW k, Sound(k), NEW u \in Tasks, NEW t \in Tasks,
           Home(k, u) = "ready" => u \notin {t, First(k, t)}
    PROVE  InTurn(k, prvAddTaskToReadyList(RemoveGeneric(k, u), u), t)
<1> DEFINE m == RemoveGeneric(k, u)
           l == prvAddTaskToReadyList(m, u)
<1>1. Sound(m) /\ Home(m, u) = "nowhere"
  BY GenericRemoved
<1>2. Turns(m, l)
  BY <1>1, ReadyingTurns
<1>3. InTurn(k, m, t)
  <2>1. CASE Home(k, u) # "ready"
    BY <2>1, MoveTurns DEF Turns
  <2>2. CASE Home(k, u) = "ready"
    BY <2>2, RemovalTurns
  <2> QED BY <2>1, <2>2
<1> HIDE DEF m, l
<1> QED BY <1>2, <1>3 DEF Turns, InTurn, NoneBefore, l, m

\* vTaskSwitchContext, where another task than t comes next.
LEMMA SwitchTurns ==
    ASSUME NEW k, KernelOK(k), NEW t \in Tasks, t # vTaskSwitchContext(k).current
    PROVE  NoneBefore(k, vTaskSwitchContext(k), t)
<1> DEFINE l == vTaskSwitchContext(k)
           q == Prio(k, t)
<1> SUFFICES ASSUME Home(k, t) = "ready" PROVE NoneBefore(k, l, t)
  BY DEF NoneBefore
<1>1. Home(l, t) = "ready" /\ Prio(l, t) = q /\ q \in Priorities
  <2>1. Home(l, t) = "ready" /\ Prio(l, t) = q
    BY Switched DEF SameData
  <2> QED BY <2>1 DEF KernelOK, KernelShape, TCBs, Prio
<1>2. ListTypeOK(k.ready[q]) /\ Holds(k.ready[q], t)
  BY <1>1 DEF KernelOK, KernelLists, Places
<1>3. ~IsEmpty(k.ready[q])
  BY <1>2, EmptyOrNot, Zenon
<1>4. AheadIn(NextEntry(k.ready[q]), t) \subseteq AheadIn(k.ready[q], t) \/ Head(NextEntry(k.ready[q])) = t
  BY <1>2, <1>3, AheadNext, Zenon
<1>5. l.ready[q] = k.ready[q] \/ (l.ready[q] = NextEntry(k.ready[q]) /\ l.current = Head(NextEntry(k.ready[q])))
  <2> DEFINE top == Max({p \in 0 .. k.top : ~IsEmpty(k.ready[p])})
             x == NextEntry(k.ready[top])
  <2>1. l = IF k.suspended # 0 THEN [k EXCEPT !.yieldPending = TRUE]
            ELSE [k EXCEPT !.yieldPending = FALSE, !.top = top, !.ready[top] = x, !.current = Head(x)]
    BY DEF vTaskSwitchContext
  <2>2. x = NextEntry(k.ready[top])
    OBVIOUS
  <2> HIDE DEF l, top, x
  <2> QED BY <1>1, <2>1, <2>2 DEF KernelOK, KernelShape, KernelLists, KernelFields, Over
<1>6. AheadIn(l.ready[q], t) \subseteq AheadIn(k.ready[q], t)
  BY <1>4, <1>5
<1> QED BY <1>1, <1>6 DEF NoneBefore, Ahead

LEMMA NoneBeforeOn ==
    ASSUME NEW k, NEW l, NEW m, NEW t, NoneBefore(k, l, t), NoneBefore(l, m, t)
    PROVE  NoneBefore(k, m, t)
BY DEF NoneBefore

\* The current task goes to sleep; the others come nearer.
LEMMA SleepTurns ==
    ASSUME NEW k, KernelOK(k), k.current # IdleTask, NEW wake \in Ticks, NEW t \in Tasks, t # k.current
    PROVE  NoneBefore(k, BlockUntil(k, wake), t)
<1> DEFINE out == RemoveGeneric(k, k.current)
           l == BlockUntil(k, wake)
<1>1. Sound(k) /\ k.current \in Tasks
  BY DEF KernelOK, Sound, KernelShape
<1>2. Sound(out) /\ SameRest(k, out)
  BY <1>1, GenericRemoved
<1>3. NoneBefore(k, out, t)
  BY <1>1, RemovalTurns
<1>4. SameRest(k, l)
  BY Slept
<1>5. l = prvAddCurrentTaskToDelayedList(out, wake)
  BY DEF BlockUntil
<1> HIDE DEF out, l
<1>6. l.ready = out.ready
  BY <1>2, <1>5 DEF prvAddCurrentTaskToDelayedList, Sound, KernelShape, KernelFields, Over
<1>7. NoneBefore(out, l, t)
  BY <1>2, <1>4, <1>6, TurnsAlike DEF SameRest, SameData
<1> QED BY <1>3, <1>7, NoneBeforeOn DEF l

LEMMA SleepSlices ==
    ASSUME NEW k, KernelOK(k), k.current # IdleTask, NEW wake \in Ticks, NEW t \in Tasks
    PROVE  Slices(k, BlockUntil(k, wake), t)
<1>1. CASE t = k.current
  BY <1>1, Slept DEF Slices, Blocked
<1>2. CASE t # k.current
  BY <1>2, SleepTurns DEF Slices, NoneBefore
<1> QED BY <1>1, <1>2

\* vTaskPlaceOnEventList.
LEMMA PlaceSlices ==
    ASSUME NEW k, KernelOK(k), k.current # IdleTask, Event(k, k.current) = "none",
           NEW list \in EventLists, NEW ticks \in Ticks, NEW t \in Tasks
    PROVE  Slices(k, vTaskPlaceOnEventList(k, list, ticks), t)
<1> DEFINE x == vListInsert(k.event[list], k.current, EventValues(k))
           m == [k EXCEPT !.event[list] = x]
           wake == Stored(m.tick + ticks)
           l == vTaskPlaceOnEventList(k, list, ticks)
<1>1. Sound(k) /\ Choice(k) /\ k.current \in Tasks /\ KernelLists(k)
  BY DEF KernelOK, Sound, KernelShape
<1>2. Gains(x, k.event[list], k.current)
  <2>1. list # "none"
    BY DEF EventLists
  <2> QED BY <2>1, <1>1, InsertGains DEF KernelLists, Sound, Places
<1>3. l = BlockUntil(m, wake)
  BY DEF vTaskPlaceOnEventList, BlockFor
<1> HIDE DEF x
<1>4. /\ Sound(m) /\ SameRest(k, m) /\ m.top = k.top /\ m.ready = k.ready
      /\ \A u \in Tasks : Home(m, u) = Home(k, u)
  BY <1>1, <1>2, EventJoined
<1> HIDE DEF m, l
<1>5. KernelOK(m) /\ m.current = k.current
  BY <1>1, <1>4, KernelAssumption DEF KernelOK, Sound, Choice, SameRest, SameData
<1>6. wake \in Ticks
  BY <1>5, StoredIsTick DEF KernelOK, KernelShape
<1>7. Turns(k, m)
  BY <1>4, TurnsAlike DEF SameRest, SameData
<1>8. Slices(m, l, t)
  BY <1>3, <1>5, <1>6, SleepSlices
<1> QED BY <1>7, <1>8 DEF Turns, InTurn, NoneBefore, Slices, l

\* prvResetNextTaskUnblockTime.
LEMMA NextReset ==
    ASSUME NEW k, KernelOK(k)
    PROVE  LET l == prvResetNextTaskUnblockTime(k)
           IN  /\ KernelOK(l) /\ SameRest(k, l) /\ Turns(k, l)
               /\ \A u \in Tasks : Home(l, u) = Home(k, u) /\ Event(l, u) = Event(k, u)
<1> DEFINE l == prvResetNextTaskUnblockTime(k)
           next == IF IsEmpty(k.delayed) THEN portMAX_DELAY ELSE Wake(k, HeadEntry(k.delayed))
<1>1. Sound(k) /\ Choice(k) /\ KernelShape(k) /\ KernelLists(k)
  BY DEF KernelOK, Sound
<1>2. next \in Ticks
  <2>1. CASE IsEmpty(k.delayed)
    BY <2>1, TimeAssumption DEF portMAX_DELAY, Ticks
  <2>2. CASE ~IsEmpty(k.delayed)
    BY <2>2, <1>1, HeadIsHeld DEF KernelLists, KernelShape, TCBs, Wake
  <2> QED BY <2>1, <2>2
<1>3. l = [k EXCEPT !.next = next]
  BY DEF prvResetNextTaskUnblockTime
<1> HIDE DEF next
<1>4. /\ Over(l, KernelFields) /\ l.current = k.current /\ l.top = k.top /\ l.tick = k.tick
      /\ l.next = next /\ l.pended = k.pended /\ l.suspended = k.suspended
      /\ l.overflows = k.overflows /\ l.yieldPending = k.yieldPending /\ l.tcb = k.tcb
      /\ l.ready = k.ready /\ l.delayed = k.delayed /\ l.overflow = k.overflow
      /\ l.termination = k.termination /\ l.event = k.event
  BY <1>1, <1>3 DEF KernelShape, KernelFields, Over
<1> HIDE DEF l
<1>5. KernelShape(l) /\ SameRest(k, l)
  BY <1>1, <1>2, <1>4 DEF KernelShape, SameRest, SameData, Prio
<1>6. /\ Sound(l)
      /\ \A u \in Tasks : Home(l, u) = Home(k, u) /\ Event(l, u) = Event(k, u)
  BY <1>1, <1>4, <1>5, ListsKept DEF SameRest, SameData
<1>7. Choice(l)
  BY <1>1, <1>4, <1>5, <1>6, KernelAssumption DEF Choice, SameRest, SameData
<1>8. Turns(k, l)
  BY <1>4, <1>5, TurnsAlike DEF SameRest, SameData
<1> QED BY <1>5, <1>6, <1>7, <1>8 DEF KernelOK, Sound, l

\* A task is made ready, and waits for no event.
LEMMA Unblocked ==
    ASSUME NEW k, KernelOK(k), NEW t \in Tasks
    PROVE  LET l == Unblock(k, t)
           IN  /\ KernelOK(l) /\ SameRest(k, l)
               /\ \A u \in Tasks : IF u = t THEN Home(l, u) = "ready" /\ Event(l, u) = "none"
                                   ELSE Home(l, u) = Home(k, u) /\ Event(l, u) = Event(k, u)
               /\ Home(k, t) # "ready" => Turns(k, l)
<1> DEFINE a == RemoveGeneric(k, t)
           b == RemoveEvent(a, t)
           l == Unblock(k, t)
<1>1. Sound(k) /\ Choice(k) /\ k.top \in Priorities /\ Prio(k, t) \in Priorities
  BY DEF KernelOK, Sound, KernelShape, TCBs, Prio
<1>2. /\ Sound(a) /\ SameRest(k, a) /\ a.top = k.top
      /\ \A u \in Tasks : /\ Home(a, u) = IF u = t THEN "nowhere" ELSE Home(k, u)
                          /\ Event(a, u) = Event(k, u)
  BY <1>1, GenericRemoved
<1> HIDE DEF a
<1>3. /\ Sound(b) /\ SameRest(a, b) /\ b.top = a.top
      /\ \A u \in Tasks : /\ Home(b, u) = Home(a, u)
                          /\ Event(b, u) = IF u = t THEN "none" ELSE Event(a, u)
  BY <1>2, EventRemoved
<1>4. l = prvAddTaskToReadyList(b, t)
  BY DEF Unblock, a
<1> HIDE DEF b, l
<1>5. /\ Sound(l) /\ SameRest(b, l) /\ l.top = Max2(b.top, Prio(b, t))
      /\ \A u \in Tasks : /\ Home(l, u) = IF u = t THEN "ready" ELSE Home(b, u)
                          /\ Event(l, u) = Event(b, u)
  BY <1>2, <1>3, <1>4, ReadyAdded
<1>6. SameRest(k, l)
  BY <1>2, <1>3, <1>5 DEF SameRest, SameData
<1>7. ASSUME NEW u \in Tasks
      PROVE  IF u = t THEN Home(l, u) = "ready" /\ Event(l, u) = "none"
             ELSE Home(l, u) = Home(k, u) /\ Event(l, u) = Event(k, u)
  BY <1>2, <1>3, <1>5
<1>8. Choice(l)
  <2>1. \A u \in Tasks : Prio(k, u) \in Priorities /\ Prio(l, u) = Prio(k, u)
    BY <1>6 DEF SameRest, SameData, KernelOK, KernelShape, TCBs, Prio
  <2>2. l.top = Max2(k.top, Prio(k, t))
    BY <1>2, <1>3, <1>5 DEF SameRest, SameData
  <2> QED BY <1>1, <1>7, <2>1, <2>2, KernelAssumption DEF Choice, Max2, Priorities
<1>9. ASSUME Home(k, t) # "ready" PROVE Turns(k, l)
  <2>1. Turns(k, a)
    BY <1>1, <1>9, MoveTurns DEF a
  <2>2. Turns(a, b)
    <3>1. b.ready = a.ready
      BY <1>2 DEF b, RemoveEvent, Sound, KernelShape, KernelFields, Over
    <3> QED BY <1>3, <3>1, TurnsAlike DEF SameRest, SameData
  <2>3. Turns(b, l)
    BY <1>2, <1>3, <1>4, ReadyingTurns
  <2> QED BY <2>1, <2>2, <2>3, TurnsOn
<1> QED BY <1>5, <1>6, <1>7, <1>8, <1>9 DEF KernelOK, Sound, l

\* What the passing of time may do with the tasks: those that sleep go on
\* sleeping, or are woken and wait for nothing; their lists stay in order.
Passes(k, l) ==
    /\ \A u \in Tasks :
          /\ Prio(l, u) = Prio(k, u)
          /\ l.tcb[u].state = k.tcb[u].state /\ l.tcb[u].value = k.tcb[u].value
          /\ \/ Home(l, u) = Home(k, u) /\ Event(l, u) = Event(k, u)
             \/ Home(k, u) \in Blocked /\ Home(l, u) \in Blocked /\ Event(l, u) = Event(k, u)
             \/ Home(k, u) \in Blocked /\ Home(l, u) = "ready" /\ Event(l, u) = "none"
    /\ Orderly(k) => Orderly(l)

\* The loop over the due tasks, round by round.
LEMMA UnblockLoop ==
    ASSUME NEW k, NEW due, NEW last \in Nat
    PROVE  \E f : f = [n \in 0 .. last |-> IF n = 0 THEN k ELSE Unblock(f[n - 1], due[n])]
<1> DEFINE T == {m \in Nat : \E f : f = [n \in 0 .. m |-> IF n = 0 THEN k ELSE Unblock(f[n - 1], due[n])]}
<1>1. 0 \in T
  <2> DEFINE f == [n \in 0 .. 0 |-> k]
  <2>1. f = [n \in 0 .. 0 |-> IF n = 0 THEN k ELSE Unblock(f[n - 1], due[n])]
    OBVIOUS
  <2> QED BY <2>1
<1>2. ASSUME NEW m \in T PROVE m + 1 \in T
  <2>1. PICK f : f = [n \in 0 .. m |-> IF n = 0 THEN k ELSE Unblock(f[n - 1], due[n])]
    OBVIOUS
  <2> DEFINE g == [n \in 0 .. m + 1 |-> IF n = m + 1 THEN Unblock(f[m], due[m + 1]) ELSE f[n]]
  <2>2. ASSUME NEW n \in 0 .. m + 1
        PROVE  g[n] = IF n = 0 THEN k ELSE Unblock(g[n - 1], due[n])
    <3>1. CASE n = 0
      BY <2>1, <3>1
    <3>2. CASE n = m + 1
      BY <3>2
    <3>3. CASE n # 0 /\ n # m + 1
      <4>1. n \in 0 .. m /\ n - 1 \in 0 .. m + 1 /\ n - 1 # m + 1
        BY <3>3
      <4> QED BY <2>1, <3>3, <4>1
    <3> QED BY <3>1, <3>2, <3>3
  <2>3. g = [n \in 0 .. m + 1 |-> IF n = 0 THEN k ELSE Unblock(g[n - 1], due[n])]
    BY <2>2
  <2> HIDE DEF g
  <2> QED BY <2>3
<1>3. T = Nat
  BY <1>1, <1>2, Rounds
<1> QED BY <1>3

\* The loop of xTaskIncrementTick wakes tasks that sleep.
LEMMA DueUnblocked ==
    ASSUME NEW k, KernelOK(k)
    PROVE  LET l == UnblockDue(k).kernel
           IN  /\ KernelOK(l) /\ SameRest(k, l) /\ Passes(k, l) /\ Turns(k, l)
               /\ \A u \in Tasks : Above(l, u) => Above(k, u) \/ UnblockDue(k).switch
<1> DEFINE items == Items(k.delayed)
           later == {i \in DOMAIN items : Wake(k, items[i]) > k.tick}
           due == IF later = {} THEN items ELSE SubSeq(items, 1, Min(later) - 1)
           IsLoop(f) == f = [n \in 0 .. Len(due) |-> IF n = 0 THEN k ELSE Unblock(f[n - 1], due[n])]
           after == CHOOSE f : IsLoop(f)
           Due(n) == {due[i] : i \in 1 .. n}
           Good(n, m) == /\ KernelOK(m) /\ SameRest(k, m) /\ Turns(k, m) /\ (Orderly(k) => Orderly(m))
                         /\ \A u \in Tasks :
                               IF u \in Due(n) THEN Home(m, u) = "ready" /\ Event(m, u) = "none"
                               ELSE Home(m, u) = Home(k, u) /\ Event(m, u) = Event(k, u)
<1>1. /\ UnblockDue(k).kernel = prvResetNextTaskUnblockTime(after[Len(due)])
      /\ UnblockDue(k).switch <=> \E i \in DOMAIN due : Prio(k, due[i]) >= Prio(k, k.current)
  BY DEF UnblockDue
<1>2. /\ Len(due) \in Nat /\ DOMAIN due = 1 .. Len(due)
      /\ \A i \in 1 .. Len(due) : due[i] \in Tasks /\ Home(k, due[i]) = "delayed"
      /\ \A i, j \in 1 .. Len(due) : due[i] = due[j] => i = j
  <2>1. /\ items \in Seq(Tasks)
        /\ \A t \in Tasks : Holds(k.delayed, t) <=> \E i \in 1 .. Len(items) : items[i] = t
        /\ \A i, j \in 1 .. Len(items) : items[i] = items[j] => i = j
    BY ItemsAre DEF KernelOK, KernelLists
  <2>2. \A i \in 1 .. Len(items) : items[i] \in Tasks /\ Home(k, items[i]) = "delayed"
    BY <2>1 DEF KernelOK, Places
  <2>3. CASE later = {}
    BY <2>1, <2>2, <2>3
  <2>4. CASE later # {}
    <3>1. later \in SUBSET Nat /\ later \subseteq 1 .. Len(items)
      BY <2>1
    <3>2. Min(later) \in 1 .. Len(items)
      BY <2>4, <3>1, LeastNumber
    <3> DEFINE n == Min(later) - 1
    <3>3. due = SubSeq(items, 1, n)
      BY <2>4
    <3> HIDE DEF later, due
    <3>4. n \in Nat /\ n <= Len(items)
      BY <2>1, <3>2
    <3> HIDE DEF n, items
    <3>5. \A i \in 1 .. n : items[i] \in Tasks
      BY <2>1, <2>2, <3>4
    <3>6. Len(due) = (IF 1 <= n THEN n - 1 + 1 ELSE 0) /\ \A i \in 1 .. n - 1 + 1 : due[i] = items[1 + i - 1]
      BY <3>4, <3>5, <3>3, SubSeqProperties
    <3>7. due \in Seq(Tasks)
      BY <2>1, <3>3, <3>4, <3>5, SubSeqProperties
    <3>8. Len(due) = n /\ DOMAIN due = 1 .. n /\ \A i \in 1 .. n : i \in 1 .. Len(items) /\ due[i] = items[i]
      BY <2>1, <3>4, <3>6, <3>7
    <3> QED BY <2>1, <2>2, <3>4, <3>8
  <2> QED BY <2>3, <2>4
<1> HIDE DEF due
<1>3. IsLoop(after)
  BY <1>2, UnblockLoop
<1> HIDE DEF after
<1>4. Good(0, k)
  <2>1. Due(0) = {}
    OBVIOUS
  <2> HIDE DEF Due
  <2> QED BY <2>1, TurnsAlike DEF SameRest, SameData
<1>5. ASSUME NEW n \in 0 .. Len(due) - 1, NEW m, Good(n, m)
      PROVE  Good(n + 1, Unblock(m, due[n + 1]))
  <2> DEFINE t == due[n + 1]
             l == Unblock(m, t)
  <2>1. t \in Tasks /\ t \notin Due(n) /\ Due(n + 1) = Due(n) \cup {t}
    <3>1. n + 1 \in 1 .. Len(due) /\ 1 .. n \subseteq 1 .. Len(due) /\ n + 1 \notin 1 .. n
          /\ 1 .. n + 1 = 1 .. n \cup {n + 1}
      BY <1>2
    <3> QED BY <3>1, <1>2
  <2>2. Home(m, t) # "ready"
    <3>1. n + 1 \in 1 .. Len(due)
      BY <1>2
    <3> QED BY <1>2, <1>5, <2>1, <3>1
  <2> HIDE DEF Due
  <2>3. /\ KernelOK(l) /\ SameRest(m, l)
        /\ \A u \in Tasks : IF u = t THEN Home(l, u) = "ready" /\ Event(l, u) = "none"
                            ELSE Home(l, u) = Home(m, u) /\ Event(l, u) = Event(m, u)
        /\ Turns(m, l)
    BY <1>5, <2>1, <2>2, Unblocked
  <2>4. Orderly(k) => Orderly(l)
    BY <1>5, <2>1, OrderlyUnblocked
  <2> HIDE DEF l, t
  <2>5. SameRest(k, l) /\ Turns(k, l)
    BY <1>5, <2>3, TurnsOn DEF SameRest, SameData
  <2> QED BY <1>5, <2>1, <2>3, <2>4, <2>5 DEF l, t
<1>6. ASSUME NEW n \in Nat PROVE n <= Len(due) => Good(n, after[n])
  <2> HIDE DEF Good
  <2> DEFINE T == {m \in Nat : m <= Len(due) => Good(m, after[m])}
  <2>1. 0 \in T
    BY <1>2, <1>3, <1>4
  <2>2. ASSUME NEW m \in T PROVE m + 1 \in T
    <3>1. CASE m + 1 <= Len(due)
      <4>1. after[m + 1] = Unblock(after[m], due[m + 1])
        BY <1>2, <1>3, <3>1
      <4>2. m \in 0 .. Len(due) - 1 /\ Good(m, after[m])
        BY <1>2, <3>1
      <4>3. Good(m + 1, after[m + 1])
        BY <1>5, <4>1, <4>2
      <4> QED BY <4>3
    <3> QED BY <1>2, <3>1
  <2>3. T = Nat
    BY <2>1, <2>2, Rounds
  <2> QED BY <2>3
<1> DEFINE m == after[Len(due)]
           l == prvResetNextTaskUnblockTime(m)
<1>7. /\ Good(Len(due), m)
      /\ \A u \in Due(Len(due)) : Home(k, u) = "delayed" /\ \E i \in 1 .. Len(due) : due[i] = u
  BY <1>2, <1>6
<1> HIDE DEF m, Due
<1>8. KernelOK(m) /\ Sound(m) /\ Choice(m) /\ KernelShape(m) /\ SameRest(k, m) /\ Turns(k, m)
  BY <1>7 DEF KernelOK, Sound
<1> HIDE DEF l
<1>9. /\ KernelOK(l) /\ SameRest(m, l) /\ Turns(m, l)
      /\ \A u \in Tasks : Home(l, u) = Home(m, u) /\ Event(l, u) = Event(m, u)
  BY <1>8, NextReset DEF l
<1>10. SameRest(k, l) /\ Passes(k, l) /\ Turns(k, l)
  <2>1. Orderly(k) => Orderly(l)
    BY <1>7, QuietSame, QuietNext, QuietOrderly DEF l
  <2> QED BY <1>7, <1>8, <1>9, <2>1, TurnsOn DEF SameRest, SameData, Passes, Blocked
<1>11. ASSUME NEW u \in Tasks, Above(l, u), ~Above(k, u) PROVE UnblockDue(k).switch
  <2>1. /\ Prio(l, u) = Prio(k, u) /\ l.current = k.current /\ k.current \in Tasks
        /\ Prio(l, l.current) = Prio(k, k.current)
    BY <1>10 DEF SameRest, SameData, KernelOK, KernelShape
  <2>2. Home(l, u) = "ready" /\ Home(k, u) # "ready"
    BY <1>11, <2>1 DEF Above
  <2>3. \E i \in 1 .. Len(due) : due[i] = u
    BY <1>7, <1>9, <2>2
  <2>4. Prio(k, u) > Prio(k, k.current) /\ Prio(k, u) \in Nat /\ Prio(k, k.current) \in Nat
    BY <1>11, <2>1 DEF Above, KernelOK, KernelShape, TCBs, Prio, Priorities
  <2> QED BY <1>1, <1>2, <2>3, <2>4
<1> QED BY <1>1, <1>9, <1>10, <1>11 DEF l, m

\* taskSWITCH_DELAYED_LISTS.
LEMMA ListsSwitched ==
    ASSUME NEW k, KernelOK(k)
    PROVE  LET l == SwitchDelayedLists(k)
           IN  /\ KernelOK(l) /\ Passes(k, l) /\ Turns(k, l)
               /\ l.current = k.current /\ l.tick = k.tick /\ l.pended = k.pended /\ l.suspended = k.suspended
               /\ l.overflows = (k.overflows + 1) % OverflowMod /\ l.yieldPending = k.yieldPending
               /\ \A u \in Tasks : Home(l, u) = "ready" => Home(k, u) = "ready"
<1> DEFINE m == [k EXCEPT !.delayed = k.overflow, !.overflow = k.delayed,
                          !.overflows = (@ + 1) % OverflowMod]
           l == SwitchDelayedLists(k)
           h == [u \in Tasks |-> IF Home(k, u) = "delayed" THEN "overflow"
                                 ELSE IF Home(k, u) = "overflow" THEN "delayed" ELSE Home(k, u)]
<1>1. /\ KernelShape(k) /\ KernelLists(k) /\ Choice(k) /\ Sound(k)
      /\ Placed(k, HomeOf(k), EventOf(k))
  BY PlacesOf DEF KernelOK, Sound
<1>2. l = prvResetNextTaskUnblockTime(m)
  BY DEF SwitchDelayedLists
<1>3. /\ Over(m, KernelFields) /\ m.current = k.current /\ m.top = k.top /\ m.tick = k.tick
      /\ m.next = k.next /\ m.pended = k.pended /\ m.suspended = k.suspended
      /\ m.overflows = (k.overflows + 1) % OverflowMod /\ m.tcb = k.tcb
      /\ m.yieldPending = k.yieldPending
      /\ m.ready = k.ready /\ m.delayed = k.overflow /\ m.overflow = k.delayed
      /\ m.termination = k.termination /\ m.event = k.event
  BY <1>1 DEF KernelShape, KernelFields, Over
<1> HIDE DEF m, l
<1>4. (k.overflows + 1) % OverflowMod \in 0 .. OverflowMod - 1
  BY <1>1, KernelAssumption DEF KernelShape
<1>5. /\ KernelShape(m)
      /\ \A u \in Tasks : /\ Prio(m, u) = Prio(k, u)
                          /\ m.tcb[u].state = k.tcb[u].state /\ m.tcb[u].value = k.tcb[u].value
  BY <1>1, <1>3, <1>4 DEF KernelShape, Prio
<1>6. KernelLists(m)
  BY <1>1, <1>3 DEF KernelLists
<1>7. Placed(m, h, EventOf(k))
  <2> SUFFICES ASSUME NEW u \in Tasks
               PROVE  /\ h[u] \in Homes \cup {"nowhere"} /\ EventOf(k)[u] \in EventLists \cup {"none"}
                      /\ \A p \in Priorities : Holds(m.ready[p], u) <=> h[u] = "ready" /\ p = Prio(m, u)
                      /\ Holds(m.delayed, u) <=> h[u] = "delayed"
                      /\ Holds(m.overflow, u) <=> h[u] = "overflow"
                      /\ Holds(m.termination, u) <=> h[u] = "termination"
                      /\ \A e \in EventLists : Holds(m.event[e], u) <=> EventOf(k)[u] = e
    BY DEF Placed
  <2>1. h[u] = IF HomeOf(k)[u] = "delayed" THEN "overflow"
               ELSE IF HomeOf(k)[u] = "overflow" THEN "delayed" ELSE HomeOf(k)[u]
    BY DEF HomeOf
  <2> HIDE DEF h
  <2> QED BY <1>1, <1>3, <1>5, <2>1 DEF Placed, Homes
<1>8. /\ Sound(m)
      /\ \A u \in Tasks : Home(m, u) = h[u] /\ Event(m, u) = Event(k, u)
  BY <1>5, <1>6, <1>7, PlacesAre DEF EventOf
<1>9. KernelOK(m) /\ Passes(k, m)
  <2>1. Passes(k, m)
    BY <1>3, <1>5, <1>8, OrderlyAlike DEF Passes, Blocked
  <2>2. Choice(m)
    BY <1>1, <1>3, <1>5, <1>8, KernelAssumption DEF Choice
  <2> QED BY <1>8, <2>1, <2>2 DEF KernelOK, Sound
<1>10. /\ KernelOK(l) /\ SameRest(m, l) /\ Turns(m, l)
       /\ \A u \in Tasks : Home(l, u) = Home(m, u) /\ Event(l, u) = Event(m, u)
  BY <1>2, <1>9, NextReset
<1>11. \A u \in Tasks : Home(l, u) = "ready" => Home(k, u) = "ready"
  BY <1>8, <1>10
<1>12. Orderly(k) => Orderly(l)
  BY <1>2, <1>9, QuietSame, QuietNext, QuietOrderly DEF Passes
<1>13. Turns(k, l)
  BY <1>3, <1>5, <1>10, TurnsAlike, TurnsOn
<1> QED BY <1>3, <1>9, <1>10, <1>11, <1>12, <1>13 DEF Passes, SameRest, SameData, l

\* One passing of time after another.
LEMMA PassesOn ==
    ASSUME NEW k, NEW l, NEW m, Passes(k, l), Passes(l, m)
    PROVE  Passes(k, m)
BY DEF Passes, Blocked

\* xTaskIncrementTick, where the scheduler is not suspended.
LEMMA TickCounted ==
    ASSUME NEW k, KernelOK(k), k.suspended = 0
    PROVE  LET l == xTaskIncrementTick(k).kernel
           IN  /\ KernelOK(l) /\ Passes(k, l) /\ Turns(k, l)
               /\ l.current = k.current /\ l.pended = k.pended /\ l.suspended = k.suspended
               /\ l.tick = Stored(k.tick + 1)
               /\ l.overflows = IF l.tick = 0 THEN (k.overflows + 1) % OverflowMod ELSE k.overflows
               /\ l.yieldPending = k.yieldPending
               /\ ~xTaskIncrementTick(k).switch =>
                     ~k.yieldPending /\ \A u \in Tasks : Above(l, u) => Above(k, u)
<1> DEFINE counted == [k EXCEPT !.tick = Stored(@ + 1)]
           listed == IF counted.tick = 0 THEN SwitchDelayedLists(counted) ELSE counted
           due == UnblockDue(listed)
           woken == IF listed.tick >= listed.next THEN due.kernel ELSE listed
           switch == listed.tick >= listed.next /\ due.switch
           l == xTaskIncrementTick(k).kernel
<1>1. KernelShape(k) /\ KernelLists(k) /\ Choice(k) /\ Sound(k)
  BY DEF KernelOK, Sound
<1>2. l = woken /\ (~xTaskIncrementTick(k).switch => ~switch /\ ~k.yieldPending)
  <2> DEFINE ticked == IF listed.tick >= listed.next THEN UnblockDue(listed)
                       ELSE [kernel |-> listed, switch |-> FALSE]
  <2>1. ticked.kernel = woken /\ (ticked.switch <=> switch) /\ {"kernel", "switch"} \subseteq DOMAIN ticked
    <3>1. {"kernel", "switch"} \subseteq DOMAIN UnblockDue(listed)
      BY DEF UnblockDue
    <3> HIDE DEF listed
    <3> QED BY <3>1
  <2>2. \E slice : xTaskIncrementTick(k) = [ticked EXCEPT !.switch = @ \/ slice \/ k.yieldPending]
    BY DEF xTaskIncrementTick
  <2> HIDE DEF ticked, woken, switch
  <2> QED BY <2>1, <2>2
<1>3. /\ Over(counted, KernelFields) /\ counted.current = k.current /\ counted.top = k.top
      /\ counted.tick = Stored(k.tick + 1) /\ counted.next = k.next /\ counted.pended = k.pended
      /\ counted.suspended = k.suspended /\ counted.overflows = k.overflows
      /\ counted.yieldPending = k.yieldPending /\ counted.tcb = k.tcb
      /\ counted.ready = k.ready /\ counted.delayed = k.delayed /\ counted.overflow = k.overflow
      /\ counted.termination = k.termination /\ counted.event = k.event
  BY <1>1 DEF KernelShape, KernelFields, Over
<1> HIDE DEF counted, l
<1>4. Stored(k.tick + 1) \in Ticks
  BY <1>1, TimeAssumption DEF KernelShape, Ticks, Stored
<1>5. /\ KernelShape(counted)
      /\ \A u \in Tasks : /\ Prio(counted, u) = Prio(k, u)
                          /\ counted.tcb[u].state = k.tcb[u].state /\ counted.tcb[u].value = k.tcb[u].value
  BY <1>1, <1>3, <1>4 DEF KernelShape, Prio
<1>6. /\ Sound(counted)
      /\ \A u \in Tasks : Home(counted, u) = Home(k, u) /\ Event(counted, u) = Event(k, u)
  BY <1>1, <1>3, <1>5, ListsKept
<1>7. KernelOK(counted) /\ Passes(k, counted)
  BY <1>1, <1>3, <1>5, <1>6, KernelAssumption, OrderlyAlike DEF KernelOK, Sound, Choice, Passes
<1>8. /\ KernelOK(listed) /\ Passes(counted, listed) /\ Turns(counted, listed)
      /\ listed.current = k.current /\ listed.tick = counted.tick /\ listed.pended = k.pended
      /\ listed.suspended = k.suspended
      /\ listed.overflows = IF listed.tick = 0 THEN (k.overflows + 1) % OverflowMod ELSE k.overflows
      /\ listed.yieldPending = k.yieldPending
      /\ \A u \in Tasks : Home(listed, u) = "ready" => Home(counted, u) = "ready"
  BY <1>3, <1>7, ListsSwitched, TurnsAlike DEF Passes
<1> HIDE DEF listed
<1>9. /\ KernelOK(woken) /\ Passes(listed, woken) /\ SameRest(listed, woken) /\ Turns(listed, woken)
      /\ \A u \in Tasks : Above(woken, u) => Above(listed, u) \/ switch
  <2>1. CASE listed.tick >= listed.next
    BY <1>8, <2>1, DueUnblocked
  <2>2. CASE ~(listed.tick >= listed.next)
    BY <1>8, <2>2, TurnsAlike DEF Passes, SameRest, SameData
  <2> QED BY <2>1, <2>2
<1> HIDE DEF woken, switch, due
<1>10. Passes(k, woken) /\ Turns(k, woken)
  <2>1. Turns(k, counted)
    BY <1>3, <1>5, TurnsAlike
  <2> QED BY <2>1, <1>7, <1>8, <1>9, PassesOn, TurnsOn
<1>11. ASSUME NEW u \in Tasks, Above(listed, u) PROVE Above(k, u)
  <2>1. k.current \in Tasks /\ listed.current = k.current
    BY <1>1, <1>8 DEF KernelShape
  <2>2. \A v \in Tasks : Prio(listed, v) = Prio(k, v)
    BY <1>7, <1>8 DEF Passes
  <2> QED BY <1>6, <1>8, <1>11, <2>1, <2>2 DEF Above
<1> QED BY <1>2, <1>3, <1>8, <1>9, <1>10, <1>11 DEF SameRest, SameData, l

\* The same under a suspended scheduler, and then vTaskSwitchContext.
LEMMA TickHandled ==
    ASSUME NEW k, KernelOK(k)
    PROVE  LET l == vPortYieldFromTick(k)
           IN  /\ KernelOK(l) /\ Passes(k, l) /\ l.suspended = k.suspended
               /\ IF k.suspended # 0
                  THEN /\ l.current = k.current /\ l.tick = k.tick /\ l.pended = k.pended + 1
                       /\ l.overflows = k.overflows
                       /\ \A u \in Tasks : Home(l, u) = Home(k, u) /\ Event(l, u) = Event(k, u)
                  ELSE /\ l.current = k.current \/ Home(l, l.current) = "ready"
                       /\ l.tick = Stored(k.tick + 1) /\ l.pended = k.pended
                       /\ l.overflows = IF l.tick = 0 THEN (k.overflows + 1) % OverflowMod
                                        ELSE k.overflows
               /\ Prompt(k, l)
               /\ \A t \in Tasks : Slices(k, l, t)
<1> DEFINE ticked == xTaskIncrementTick(k)
           m == ticked.kernel
           l == vPortYieldFromTick(k)
<1>1. l = IF ticked.switch THEN vTaskSwitchContext(m) ELSE m
  BY DEF vPortYieldFromTick
<1>2. /\ KernelOK(m) /\ Passes(k, m) /\ m.suspended = k.suspended /\ m.current = k.current
      /\ IF k.suspended # 0
         THEN /\ m.tick = k.tick /\ m.pended = k.pended + 1 /\ m.overflows = k.overflows
              /\ \A u \in Tasks : Home(m, u) = Home(k, u) /\ Event(m, u) = Event(k, u)
         ELSE /\ m.tick = Stored(k.tick + 1) /\ m.pended = k.pended
              /\ m.overflows = IF m.tick = 0 THEN (k.overflows + 1) % OverflowMod ELSE k.overflows
      /\ ~ticked.switch => Prompt(k, m)
      /\ Turns(k, m)
  <2>1. CASE k.suspended # 0
    <3>1. KernelShape(k) /\ KernelLists(k) /\ Choice(k) /\ Sound(k)
      BY DEF KernelOK, Sound
    <3>2. m = [k EXCEPT !.pended = @ + 1]
      BY <2>1 DEF xTaskIncrementTick
    <3>3. /\ Over(m, KernelFields) /\ m.current = k.current /\ m.top = k.top /\ m.tick = k.tick
          /\ m.next = k.next /\ m.pended = k.pended + 1 /\ m.suspended = k.suspended
          /\ m.overflows = k.overflows /\ m.yieldPending = k.yieldPending /\ m.tcb = k.tcb
          /\ m.ready = k.ready /\ m.delayed = k.delayed /\ m.overflow = k.overflow
          /\ m.termination = k.termination /\ m.event = k.event
      BY <3>1, <3>2 DEF KernelShape, KernelFields, Over
    <3> HIDE DEF m, ticked
    <3>4. /\ KernelShape(m)
          /\ \A u \in Tasks : /\ Prio(m, u) = Prio(k, u)
                              /\ m.tcb[u].state = k.tcb[u].state /\ m.tcb[u].value = k.tcb[u].value
      BY <3>1, <3>3 DEF KernelShape, Prio
    <3>5. /\ Sound(m)
          /\ \A u \in Tasks : Home(m, u) = Home(k, u) /\ Event(m, u) = Event(k, u)
      BY <3>1, <3>3, <3>4, ListsKept
    <3>6. KernelOK(m) /\ Passes(k, m)
      BY <3>1, <3>3, <3>4, <3>5, KernelAssumption, OrderlyAlike DEF KernelOK, Sound, Choice, Passes
    <3>7. Prompt(k, m)
      BY <3>1, <3>3, <3>4, <3>5, PromptKept DEF KernelShape
    <3>8. Turns(k, m)
      BY <3>3, <3>4, TurnsAlike
    <3> QED BY <2>1, <3>3, <3>5, <3>6, <3>7, <3>8
  <2>2. CASE k.suspended = 0
    <3>1. /\ KernelOK(m) /\ Passes(k, m) /\ Turns(k, m)
          /\ m.current = k.current /\ m.pended = k.pended /\ m.suspended = k.suspended
          /\ m.tick = Stored(k.tick + 1)
          /\ m.overflows = IF m.tick = 0 THEN (k.overflows + 1) % OverflowMod ELSE k.overflows
          /\ ~ticked.switch => ~k.yieldPending /\ \A u \in Tasks : Above(m, u) => Above(k, u)
      BY <2>2, TickCounted
    <3>2. ~ticked.switch => Prompt(k, m)
      BY <3>1 DEF Prompt, Overlooked
    <3> QED BY <2>2, <3>1, <3>2
  <2> QED BY <2>1, <2>2
<1> HIDE DEF ticked, m, l
<1>3. CASE l = m /\ ~ticked.switch
  <2>1. \A t \in Tasks : Slices(k, l, t)
    BY <1>2, <1>3 DEF Turns, InTurn, NoneBefore, Slices
  <2> QED BY <1>2, <1>3, <2>1 DEF l
<1>4. CASE l = vTaskSwitchContext(m)
  <2>1. /\ KernelOK(l) /\ SameData(m, l)
        /\ \A u \in Tasks : Home(l, u) = Home(m, u) /\ Event(l, u) = Event(m, u)
        /\ IF m.suspended # 0 THEN l.current = m.current ELSE Home(l, l.current) = "ready"
        /\ Prompt(k, l)
    BY <1>2, <1>4, Switched DEF Prompt
  <2>2. /\ l.tick = m.tick /\ l.pended = m.pended /\ l.suspended = m.suspended
        /\ l.overflows = m.overflows
        /\ \A u \in Tasks : /\ Prio(l, u) = Prio(m, u)
                            /\ l.tcb[u].state = m.tcb[u].state /\ l.tcb[u].value = m.tcb[u].value
    BY <2>1 DEF SameData, Prio
  <2>3. Orderly(m) => Orderly(l)
    BY <1>4, QuietSame, QuietSwitch, QuietOrderly
  <2>4. Passes(m, l)
    BY <2>1, <2>2, <2>3 DEF Passes
  <2>5. Passes(k, l)
    BY <1>2, <2>4, PassesOn
  <2>6. ASSUME NEW t \in Tasks PROVE Slices(k, l, t)
    <3>1. t # l.current => NoneBefore(m, l, t)
      BY <1>2, <1>4, SwitchTurns
    <3> QED BY <3>1, <1>2, SlicesOn DEF Turns
  <2> QED BY <1>2, <2>1, <2>2, <2>5, <2>6 DEF l
<1> QED BY <1>1, <1>3, <1>4 DEF m

\* Every task is where it was.
Stays(k, l) == \A u \in Tasks : Home(l, u) = Home(k, u) /\ Event(l, u) = Event(k, u)

\* Writes of the kernel's counters.
LEMMA CountersSet ==
    ASSUME NEW k, KernelOK(k), NEW l, KernelShape(l), l.top = k.top, l.tcb = k.tcb,
           l.ready = k.ready, l.delayed = k.delayed, l.overflow = k.overflow,
           l.termination = k.termination, l.event = k.event
    PROVE  KernelOK(l) /\ Stays(k, l)
<1>1. \A u \in Tasks : Prio(l, u) = Prio(k, u)
  BY DEF Prio
<1>2. Sound(l) /\ Stays(k, l)
  BY <1>1, ListsKept DEF KernelOK, Sound, Stays
<1> QED BY <1>1, <1>2, KernelAssumption DEF KernelOK, Sound, Choice, Stays

\* vTaskSuspendAll, and the first line of xTaskResumeAll.
LEMMA SuspensionCounted ==
    ASSUME NEW k, KernelOK(k), NEW n \in Nat
    PROVE  LET l == [k EXCEPT !.suspended = n]
           IN  /\ KernelOK(l) /\ Stays(k, l) /\ l.current = k.current /\ l.suspended = n
               /\ l.tick = k.tick /\ l.overflows = k.overflows /\ l.pended = k.pended
               /\ l.tcb = k.tcb /\ l.event = k.event /\ l.yieldPending = k.yieldPending
<1> DEFINE l == [k EXCEPT !.suspended = n]
<1>1. KernelShape(k)
  BY DEF KernelOK
<1>2. /\ Over(l, KernelFields) /\ l.current = k.current /\ l.top = k.top /\ l.tick = k.tick
      /\ l.next = k.next /\ l.pended = k.pended /\ l.suspended = n
      /\ l.overflows = k.overflows /\ l.yieldPending = k.yieldPending /\ l.tcb = k.tcb
      /\ l.ready = k.ready /\ l.delayed = k.delayed /\ l.overflow = k.overflow
      /\ l.termination = k.termination /\ l.event = k.event /\ l.yieldPending = k.yieldPending
  BY <1>1 DEF KernelShape, KernelFields, Over
<1> HIDE DEF l
<1>3. KernelShape(l)
  BY <1>1, <1>2 DEF KernelShape
<1> QED BY <1>2, <1>3, CountersSet DEF l

\* xYieldPending.
LEMMA YieldNoted ==
    ASSUME NEW k, KernelOK(k), NEW y
    PROVE  LET l == [k EXCEPT !.yieldPending = y]
           IN  KernelOK(l) /\ Stays(k, l) /\ l.current = k.current /\ l.yieldPending = y /\ SameData(k, l)
<1> DEFINE l == [k EXCEPT !.yieldPending = y]
<1>1. KernelShape(k)
  BY DEF KernelOK
<1>2. /\ Over(l, KernelFields) /\ l.current = k.current /\ l.top = k.top /\ l.tick = k.tick
      /\ l.next = k.next /\ l.pended = k.pended /\ l.suspended = k.suspended
      /\ l.overflows = k.overflows /\ l.yieldPending = y /\ l.tcb = k.tcb
      /\ l.ready = k.ready /\ l.delayed = k.delayed /\ l.overflow = k.overflow
      /\ l.termination = k.termination /\ l.event = k.event
  BY <1>1 DEF KernelShape, KernelFields, Over
<1> HIDE DEF l
<1>3. KernelShape(l) /\ SameData(k, l)
  BY <1>1, <1>2 DEF KernelShape, SameData, Prio
<1> QED BY <1>2, <1>3, CountersSet DEF l

\* One of the tasks woken under a suspended scheduler is made ready.
LEMMA PendingReadied ==
    ASSUME NEW k, KernelOK(k), ~IsEmpty(k.event["xPendingReadyList"])
    PROVE  LET l == ReadyPending(k)
           IN  /\ KernelOK(l) /\ l.current = k.current /\ SameData(k, l) /\ Prompt(k, l)
               /\ \E t \in Tasks :
                    /\ Event(k, t) = "xPendingReadyList"
                    /\ \A u \in Tasks : IF u = t THEN Home(l, u) = "ready" /\ Event(l, u) = "none"
                                        ELSE Home(l, u) = Home(k, u) /\ Event(l, u) = Event(k, u)
<1> DEFINE t == HeadEntry(k.event["xPendingReadyList"])
           a == RemoveEvent(k, t)
           b == RemoveGeneric(a, t)
           m == prvAddTaskToReadyList(b, t)
           l == ReadyPending(k)
<1>1. Sound(k) /\ Choice(k) /\ KernelLists(k) /\ k.top \in Priorities
  BY DEF KernelOK, Sound, KernelShape
<1>2. "xPendingReadyList" \in EventLists
  BY DEF EventLists
<1>3. t \in Tasks /\ Holds(k.event["xPendingReadyList"], t)
  BY <1>1, <1>2, HeadIsHeld DEF KernelLists
<1>4. Event(k, t) = "xPendingReadyList"
  BY <1>1, <1>2, <1>3 DEF Sound, Places
<1> DEFINE y == m.yieldPending \/ Prio(k, t) >= Prio(k, k.current)
<1>5. l = [m EXCEPT !.yieldPending = @ \/ Prio(k, t) >= Prio(k, k.current)]
  BY DEF ReadyPending
<1> HIDE DEF t
<1>6. /\ Sound(a) /\ SameRest(k, a) /\ a.top = k.top
      /\ \A u \in Tasks : /\ Home(a, u) = Home(k, u)
                          /\ Event(a, u) = IF u = t THEN "none" ELSE Event(k, u)
  BY <1>1, <1>3, EventRemoved
<1> HIDE DEF a
<1>7. /\ Sound(b) /\ SameRest(a, b) /\ b.top = a.top
      /\ \A u \in Tasks : /\ Home(b, u) = IF u = t THEN "nowhere" ELSE Home(a, u)
                          /\ Event(b, u) = Event(a, u)
  BY <1>3, <1>6, GenericRemoved
<1> HIDE DEF b
<1>8. /\ Sound(m) /\ SameRest(b, m) /\ m.top = Max2(b.top, Prio(b, t))
      /\ \A u \in Tasks : /\ Home(m, u) = IF u = t THEN "ready" ELSE Home(b, u)
                          /\ Event(m, u) = Event(b, u)
  BY <1>3, <1>7, ReadyAdded
<1> HIDE DEF m
<1>9. SameRest(k, m)
  BY <1>6, <1>7, <1>8 DEF SameRest, SameData
<1>10. \A u \in Tasks : IF u = t THEN Home(m, u) = "ready" /\ Event(m, u) = "none"
                        ELSE Home(m, u) = Home(k, u) /\ Event(m, u) = Event(k, u)
  BY <1>6, <1>7, <1>8
<1>11. Choice(m)
  <2>1. \A u \in Tasks : Prio(k, u) \in Priorities /\ Prio(m, u) = Prio(k, u)
    BY <1>9 DEF SameRest, SameData, KernelOK, KernelShape, TCBs, Prio
  <2>2. m.top = Max2(k.top, Prio(k, t))
    BY <1>3, <1>6, <1>7, <1>8 DEF SameRest, SameData
  <2> QED BY <1>1, <1>3, <1>10, <2>1, <2>2, KernelAssumption DEF Choice, Max2, Priorities
<1>12. KernelOK(m)
  BY <1>8, <1>11 DEF KernelOK, Sound
<1>13. /\ KernelOK(l) /\ Stays(m, l) /\ l.current = m.current /\ SameData(m, l)
       /\ l.yieldPending = y
  <2>1. l = [m EXCEPT !.yieldPending = y]
    BY <1>5, <1>12 DEF KernelOK, KernelShape, KernelFields, Over
  <2> HIDE DEF l, y
  <2> QED BY <1>12, <2>1, YieldNoted
<1> HIDE DEF l
<1>14. l.current = k.current /\ SameData(k, l)
  BY <1>9, <1>13 DEF SameRest, SameData
<1>15. Prompt(k, l)
  <2> SUFFICES ASSUME NEW u \in Tasks, Above(l, u), ~l.yieldPending
               PROVE  Above(k, u) /\ ~k.yieldPending
    BY <1>14 DEF Prompt, Overlooked
  <2>1. /\ k.current \in Tasks /\ \A v \in Tasks : Prio(k, v) \in Nat /\ Prio(l, v) = Prio(k, v)
    BY <1>14 DEF KernelOK, KernelShape, TCBs, Prio, Priorities, SameData
  <2>2. ~k.yieldPending /\ ~(Prio(k, t) >= Prio(k, k.current))
    BY <1>9, <1>13 DEF SameRest
  <2>3. u # t
    BY <1>14, <2>1, <2>2 DEF Above
  <2> QED BY <1>10, <1>13, <1>14, <2>1, <2>2, <2>3 DEF Above, Stays
<1> QED BY <1>3, <1>4, <1>10, <1>13, <1>14, <1>15 DEF Stays, l

\* One of the ticks of a suspension is made up for.
LEMMA PendedCounted ==
    ASSUME NEW k, KernelOK(k), k.suspended = 0, k.pended # 0
    PROVE  LET l == CountPended(k)
           IN  /\ KernelOK(l) /\ Passes(k, l)
               /\ l.current = k.current /\ l.pended = k.pended - 1 /\ l.suspended = k.suspended
               /\ l.tick = Stored(k.tick + 1)
               /\ l.overflows = IF l.tick = 0 THEN (k.overflows + 1) % OverflowMod ELSE k.overflows
               /\ Prompt(k, l)
<1> DEFINE ticked == xTaskIncrementTick(k)
           m == ticked.kernel
           l == CountPended(k)
<1>1. /\ KernelOK(m) /\ Passes(k, m)
      /\ m.current = k.current /\ m.pended = k.pended /\ m.suspended = k.suspended
      /\ m.tick = Stored(k.tick + 1)
      /\ m.overflows = IF m.tick = 0 THEN (k.overflows + 1) % OverflowMod ELSE k.overflows
      /\ ~ticked.switch => ~k.yieldPending /\ \A u \in Tasks : Above(m, u) => Above(k, u)
  BY TickCounted
<1>2. l = [m EXCEPT !.pended = @ - 1, !.yieldPending = @ \/ ticked.switch]
  BY DEF CountPended
<1> HIDE DEF ticked, m
<1>3. KernelShape(m) /\ k.pended \in Nat
  BY <1>1 DEF KernelOK, KernelShape
<1>4. /\ Over(l, KernelFields) /\ l.current = m.current /\ l.top = m.top /\ l.tick = m.tick
      /\ l.next = m.next /\ l.pended = m.pended - 1 /\ l.suspended = m.suspended
      /\ l.overflows = m.overflows /\ l.tcb = m.tcb
      /\ ticked.switch => l.yieldPending
      /\ l.ready = m.ready /\ l.delayed = m.delayed /\ l.overflow = m.overflow
      /\ l.termination = m.termination /\ l.event = m.event
  BY <1>2, <1>3 DEF KernelShape, KernelFields, Over
<1> HIDE DEF l
<1>5. KernelShape(l)
  BY <1>1, <1>3, <1>4 DEF KernelShape
<1>6. KernelOK(l) /\ Stays(m, l)
  BY <1>1, <1>4, <1>5, CountersSet
<1>7. Passes(m, l)
  BY <1>4, <1>6, OrderlyAlike DEF Passes, Stays, Prio
<1>8. Passes(k, l)
  BY <1>1, <1>7, PassesOn
<1>9. Prompt(k, l)
  <2>1. k.current \in Tasks /\ \A u \in Tasks : Above(l, u) => Above(m, u)
    BY <1>1, <1>4, <1>6 DEF KernelOK, KernelShape, Above, Stays, Prio
  <2> QED BY <1>1, <1>4, <2>1 DEF Prompt, Overlooked
<1> QED BY <1>1, <1>4, <1>6, <1>8, <1>9 DEF l

\* The tasks of an event list that are woken: at once, or under a suspended
\* scheduler put off, the first of them first; nothing else happens.
WakesSome(k, l) ==
    /\ SameData(k, l) /\ Prompt(k, l) /\ (Orderly(k) => Serves(k, l))
    /\ \A u \in Tasks :
          \/ Home(l, u) = Home(k, u) /\ Event(l, u) = Event(k, u)
          \/ /\ Event(k, u) \in {ToSend, ToReceive}
             /\ IF k.suspended = 0 THEN Home(l, u) = "ready" /\ Event(l, u) = "none"
                ELSE Home(l, u) = Home(k, u) /\ Event(l, u) = "xPendingReadyList"

\* Waking some tasks and then some more is waking some.
LEMMA WakesOn ==
    ASSUME NEW k, NEW l, NEW m, WakesSome(k, l), WakesSome(l, m)
    PROVE  WakesSome(k, m)
<1>1. Orderly(k) => Serves(k, m)
  BY ServesOn DEF WakesSome, Serves
<1> QED BY <1>1, PromptOn DEF WakesSome, SameData, ToSend, ToReceive

\* Waking none is, too.
LEMMA WakesNone ==
    ASSUME NEW k
    PROVE  WakesSome(k, k)
BY SameServes DEF WakesSome, SameData, Prompt

\* xTaskRemoveFromEventList.
LEMMA FirstWoken ==
    ASSUME NEW k, KernelOK(k), NEW list \in {ToSend, ToReceive}, ~IsEmpty(k.event[list])
    PROVE  LET l == xTaskRemoveFromEventList(k, list).kernel
           IN  /\ KernelOK(l) /\ WakesSome(k, l) /\ l.current = k.current
               /\ \E t \in Tasks : Event(k, t) = list /\ Event(l, t) # list
<1> DEFINE t == HeadEntry(k.event[list])
           a == RemoveEvent(k, t)
           b == RemoveGeneric(a, t)
           now == prvAddTaskToReadyList(b, t)
           then == [a EXCEPT !.event["xPendingReadyList"] = vListInsertEnd(@, t)]
           m == IF k.suspended = 0 THEN now ELSE then
           y == m.yieldPending \/ Prio(k, t) > Prio(k, k.current)
           l == xTaskRemoveFromEventList(k, list).kernel
<1>1. Sound(k) /\ Choice(k) /\ KernelLists(k) /\ k.top \in Priorities
  BY DEF KernelOK, Sound, KernelShape
<1>2. list \in EventLists /\ "xPendingReadyList" \in EventLists
  BY DEF EventLists, ToSend, ToReceive
<1>3. t \in Tasks /\ Holds(k.event[list], t)
  BY <1>1, <1>2, HeadIsHeld DEF KernelLists
<1>4. Event(k, t) = list
  BY <1>1, <1>2, <1>3 DEF Sound, Places
<1>5. l = [m EXCEPT !.yieldPending = @ \/ Prio(k, t) > Prio(k, k.current)]
  BY DEF xTaskRemoveFromEventList
<1> HIDE DEF t
<1>6. /\ Sound(a) /\ SameRest(k, a) /\ a.top = k.top
      /\ \A u \in Tasks : /\ Home(a, u) = Home(k, u)
                          /\ Event(a, u) = IF u = t THEN "none" ELSE Event(k, u)
  BY <1>1, <1>3, EventRemoved
<1> HIDE DEF a
<1>7. /\ Sound(b) /\ SameRest(a, b) /\ b.top = a.top
      /\ \A u \in Tasks : /\ Home(b, u) = IF u = t THEN "nowhere" ELSE Home(a, u)
                          /\ Event(b, u) = Event(a, u)
  BY <1>3, <1>6, GenericRemoved
<1> HIDE DEF b
<1>8. /\ KernelOK(m) /\ SameRest(k, m)
      /\ \A u \in Tasks :
            IF u # t THEN Home(m, u) = Home(k, u) /\ Event(m, u) = Event(k, u)
            ELSE IF k.suspended = 0 THEN Home(m, u) = "ready" /\ Event(m, u) = "none"
            ELSE Home(m, u) = Home(k, u) /\ Event(m, u) = "xPendingReadyList"
  <2>1. CASE k.suspended = 0
    <3>1. /\ Sound(now) /\ SameRest(b, now) /\ now.top = Max2(b.top, Prio(b, t))
          /\ \A u \in Tasks : /\ Home(now, u) = IF u = t THEN "ready" ELSE Home(b, u)
                              /\ Event(now, u) = Event(b, u)
      BY <1>3, <1>7, ReadyAdded
    <3>2. m = now
      BY <2>1
    <3> HIDE DEF now, m
    <3>3. SameRest(k, now)
      BY <1>6, <1>7, <3>1 DEF SameRest, SameData
    <3>4. \A u \in Tasks : IF u = t THEN Home(now, u) = "ready" /\ Event(now, u) = "none"
                           ELSE Home(now, u) = Home(k, u) /\ Event(now, u) = Event(k, u)
      BY <1>6, <1>7, <3>1
    <3>5. Choice(now)
      <4>1. \A u \in Tasks : Prio(k, u) \in Priorities /\ Prio(now, u) = Prio(k, u)
        BY <3>3 DEF SameRest, SameData, KernelOK, KernelShape, TCBs, Prio
      <4>2. now.top = Max2(k.top, Prio(k, t))
        BY <1>3, <1>6, <1>7, <3>1 DEF SameRest, SameData
      <4> QED BY <1>1, <1>3, <3>4, <4>1, <4>2, KernelAssumption DEF Choice, Max2, Priorities
    <3>6. KernelOK(now)
      BY <3>1, <3>5 DEF KernelOK, Sound
    <3> QED BY <2>1, <3>2, <3>3, <3>4, <3>6
  <2>2. CASE k.suspended # 0
    <3> DEFINE x == vListInsertEnd(a.event["xPendingReadyList"], t)
    <3>1. Gains(x, a.event["xPendingReadyList"], t)
      BY <1>2, <1>3, <1>6, InsertGains DEF Sound, KernelLists, Places
    <3>2. m = [a EXCEPT !.event["xPendingReadyList"] = x]
      BY <2>2
    <3> HIDE DEF x, m, then
    <3>3. /\ Sound(m) /\ SameRest(a, m) /\ m.top = a.top
          /\ \A u \in Tasks : /\ Home(m, u) = Home(a, u)
                              /\ Event(m, u) = IF u = t THEN "xPendingReadyList" ELSE Event(a, u)
      BY <1>2, <1>3, <1>6, <3>1, <3>2, EventJoined
    <3>4. SameRest(k, m)
      BY <1>6, <3>3 DEF SameRest, SameData
    <3>5. \A u \in Tasks : IF u = t THEN Home(m, u) = Home(k, u) /\ Event(m, u) = "xPendingReadyList"
                           ELSE Home(m, u) = Home(k, u) /\ Event(m, u) = Event(k, u)
      BY <1>6, <3>3
    <3>6. KernelOK(m)
      BY <1>1, <1>6, <3>3, <3>4, <3>5, KernelAssumption DEF KernelOK, Sound, Choice, SameRest, SameData
    <3> QED BY <2>2, <3>4, <3>5, <3>6
  <2> QED BY <2>1, <2>2
<1> HIDE DEF m, l
<1>9. l = [m EXCEPT !.yieldPending = y]
  BY <1>5, <1>8 DEF KernelOK, KernelShape, KernelFields, Over
<1> HIDE DEF y
<1>10. /\ KernelOK(l) /\ Stays(m, l) /\ l.current = m.current /\ SameData(m, l) /\ l.yieldPending = y
  BY <1>8, <1>9, YieldNoted
<1>11. SameData(k, l) /\ l.current = k.current
  BY <1>8, <1>10 DEF SameRest, SameData
<1>12. Prompt(k, l)
  <2> SUFFICES ASSUME NEW u \in Tasks, Above(l, u), ~l.yieldPending
               PROVE  Above(k, u) /\ ~k.yieldPending
    BY <1>11 DEF Prompt, Overlooked
  <2>1. /\ k.current \in Tasks /\ \A v \in Tasks : Prio(l, v) = Prio(k, v)
    BY <1>11 DEF KernelOK, KernelShape, SameData
  <2>2. ~k.yieldPending /\ ~(Prio(k, t) > Prio(k, k.current))
    BY <1>8, <1>10 DEF SameRest, y
  <2>3. u # t
    BY <1>11, <2>1, <2>2 DEF Above
  <2> QED BY <1>8, <1>10, <1>11, <2>1, <2>2, <2>3 DEF Above, Stays
<1>13. Orderly(k) => Serves(k, l)
  BY FirstServed DEF QueueLists, l
<1>14. WakesSome(k, l)
  BY <1>2, <1>3, <1>4, <1>8, <1>10, <1>11, <1>12, <1>13 DEF WakesSome, Stays
<1>15. Event(l, t) # list
  BY <1>2, <1>3, <1>8, <1>10 DEF Stays, ToSend, ToReceive
<1> QED BY <1>3, <1>4, <1>10, <1>11, <1>8, <1>14, <1>15 DEF l

-----------------------------------------------------------------------------
(* The functions of queue.c that wake tasks. *)

\* A task of the event list, if there is any, and perhaps a switch.
LEMMA WokenAndYielded ==
    ASSUME NEW k, KernelOK(k), NEW list \in {ToSend, ToReceive}
    PROVE  LET l == WakeAndYield(k, list)
           IN  /\ KernelOK(l) /\ WakesSome(k, l)
               /\ l.current = k.current \/ (k.suspended = 0 /\ Home(l, l.current) = "ready")
<1> DEFINE woken == xTaskRemoveFromEventList(k, list)
           m == woken.kernel
           l == WakeAndYield(k, list)
<1>1. CASE l = k
  BY <1>1, WakesNone
<1>2. CASE ~IsEmpty(k.event[list]) /\ l = m
  BY <1>2, FirstWoken
<1>3. CASE ~IsEmpty(k.event[list]) /\ l = vTaskSwitchContext(m)
  <2>1. KernelOK(m) /\ WakesSome(k, m) /\ m.current = k.current
    BY <1>3, FirstWoken
  <2> HIDE DEF m, l
  <2>2. /\ KernelOK(l) /\ SameData(m, l)
        /\ \A u \in Tasks : Home(l, u) = Home(m, u) /\ Event(l, u) = Event(m, u)
        /\ IF m.suspended # 0 THEN l.current = m.current ELSE Home(l, l.current) = "ready"
        /\ Prompt(k, l)
    BY <1>3, <2>1, Switched DEF Prompt
  <2>3. Orderly(k) => Serves(k, l)
    BY <1>3, <2>1, QuietSame, QuietSwitch, ServesQuietly DEF WakesSome, Serves
  <2>4. WakesSome(k, l) /\ m.suspended = k.suspended
    BY <2>1, <2>2, <2>3 DEF WakesSome, SameData
  <2> QED BY <2>1, <2>2, <2>4 DEF l
<1> QED BY <1>1, <1>2, <1>3 DEF WakeAndYield

\* The same from an interrupt, which never switches.
LEMMA WokenFromISR ==
    ASSUME NEW k, KernelOK(k), NEW list \in {ToSend, ToReceive}, NEW lock
    PROVE  LET l == WakeFromISR(k, list, lock)
           IN  KernelOK(l) /\ WakesSome(k, l) /\ l.current = k.current
<1> DEFINE l == WakeFromISR(k, list, lock)
<1>1. CASE l = k
  BY <1>1, WakesNone
<1>2. CASE ~IsEmpty(k.event[list]) /\ l = xTaskRemoveFromEventList(k, list).kernel
  BY <1>2, FirstWoken
<1> QED BY <1>1, <1>2 DEF WakeFromISR

\* One round of prvUnlockQueue.
LEMMA OneWoken ==
    ASSUME NEW k, KernelOK(k), NEW list \in {ToSend, ToReceive}
    PROVE  LET l == WakeOne(k, list)
           IN  KernelOK(l) /\ WakesSome(k, l) /\ l.current = k.current
<1> DEFINE m == xTaskRemoveFromEventList(k, list).kernel
           l == WakeOne(k, list)
<1>1. CASE l = k
  BY <1>1, WakesNone
<1>2. CASE ~IsEmpty(k.event[list]) /\ l = m
  BY <1>2, FirstWoken
<1>3. CASE ~IsEmpty(k.event[list]) /\ l = vTaskMissedYield(m)
  <2>1. KernelOK(m) /\ WakesSome(k, m) /\ m.current = k.current
    BY <1>3, FirstWoken
  <2>2. l = [m EXCEPT !.yieldPending = TRUE]
    BY <1>3 DEF vTaskMissedYield
  <2> HIDE DEF m, l
  <2>3. KernelOK(l) /\ Stays(m, l) /\ l.current = m.current /\ SameData(m, l) /\ l.yieldPending
    BY <2>1, <2>2, YieldNoted
  <2>4. Orderly(k) => Serves(k, l)
    <3> SUFFICES ASSUME Orderly(k) PROVE Serves(k, l)
      OBVIOUS
    <3>1. Serves(k, m) /\ Keyed(m)
      BY <2>1 DEF WakesSome, Serves, Orderly
    <3>2. l = [m EXCEPT !["yieldPending"] = TRUE]
      BY <2>2
    <3>3. Quiet(m, l)
      BY <3>1, <3>2, QuietField DEF KernelFields
    <3> QED BY <3>1, <3>3, ServesQuietly
  <2>5. WakesSome(k, l)
    BY <2>1, <2>3, <2>4 DEF WakesSome, SameData, Stays, Prompt, Overlooked
  <2> QED BY <2>1, <2>3, <2>5 DEF l
<1> QED BY <1>1, <1>2, <1>3 DEF WakeOne

\* The loop of prvUnlockQueue, round by round.
LEMMA WakeLoop ==
    ASSUME NEW k, NEW list, NEW last \in Nat
    PROVE  \E f : f = [n \in 0 .. last |-> IF n = 0 THEN k ELSE WakeOne(f[n - 1], list)]
<1> DEFINE T == {m \in Nat : \E f : f = [n \in 0 .. m |-> IF n = 0 THEN k ELSE WakeOne(f[n - 1], list)]}
<1>1. 0 \in T
  <2> DEFINE f == [n \in 0 .. 0 |-> k]
  <2>1. f = [n \in 0 .. 0 |-> IF n = 0 THEN k ELSE WakeOne(f[n - 1], list)]
    OBVIOUS
  <2> QED BY <2>1
<1>2. ASSUME NEW m \in T PROVE m + 1 \in T
  <2>1. PICK f : f = [n \in 0 .. m |-> IF n = 0 THEN k ELSE WakeOne(f[n - 1], list)]
    OBVIOUS
  <2> DEFINE g == [n \in 0 .. m + 1 |-> IF n = m + 1 THEN WakeOne(f[m], list) ELSE f[n]]
  <2>2. ASSUME NEW n \in 0 .. m + 1
        PROVE  g[n] = IF n = 0 THEN k ELSE WakeOne(g[n - 1], list)
    <3>1. CASE n = 0
      BY <2>1, <3>1
    <3>2. CASE n = m + 1
      BY <3>2
    <3>3. CASE n # 0 /\ n # m + 1
      <4>1. n \in 0 .. m /\ n - 1 \in 0 .. m + 1 /\ n - 1 # m + 1
        BY <3>3
      <4> QED BY <2>1, <3>3, <4>1
    <3> QED BY <3>1, <3>2, <3>3
  <2>3. g = [n \in 0 .. m + 1 |-> IF n = 0 THEN k ELSE WakeOne(g[n - 1], list)]
    BY <2>2
  <2> HIDE DEF g
  <2> QED BY <2>3
<1>3. T = Nat
  BY <1>1, <1>2, Rounds
<1> QED BY <1>3

\* It wakes tasks of the list.
LEMMA WaitingWoken ==
    ASSUME NEW k, KernelOK(k), NEW list \in {ToSend, ToReceive}, NEW moved \in Int
    PROVE  LET l == WakeWaiting(k, list, moved)
           IN  KernelOK(l) /\ WakesSome(k, l) /\ l.current = k.current
<1> DEFINE last == Max2(moved, 0)
           IsLoop(f) == f = [n \in 0 .. last |-> IF n = 0 THEN k ELSE WakeOne(f[n - 1], list)]
           after == CHOOSE f : IsLoop(f)
           Good(m) == KernelOK(m) /\ WakesSome(k, m) /\ m.current = k.current
<1>1. WakeWaiting(k, list, moved) = after[last]
  BY DEF WakeWaiting
<1>2. last \in Nat
  BY DEF Max2
<1> HIDE DEF last
<1>3. IsLoop(after)
  BY <1>2, WakeLoop
<1> HIDE DEF after
<1>4. Good(k)
  BY WakesNone
<1>5. ASSUME NEW m, Good(m) PROVE Good(WakeOne(m, list))
  BY <1>5, OneWoken, WakesOn
<1> HIDE DEF Good
<1> DEFINE T == {m \in Nat : m <= last => Good(after[m])}
<1>6. 0 \in T
  BY <1>2, <1>3, <1>4
<1>7. ASSUME NEW m \in T PROVE m + 1 \in T
  <2>1. CASE m + 1 <= last
    <3>1. after[m + 1] = WakeOne(after[m], list)
      BY <1>2, <1>3, <2>1
    <3>2. Good(after[m])
      BY <1>2, <2>1
    <3> QED BY <1>5, <3>1, <3>2
  <2> QED BY <1>2, <2>1
<1>8. T = Nat
  BY <1>6, <1>7, Rounds
<1>9. Good(after[last])
  BY <1>2, <1>8
<1> QED BY <1>1, <1>9 DEF Good

-----------------------------------------------------------------------------
(* How many are woken, and who is on the way to look at the queue. *)

\* Tasks of the list are woken, so many of them, or all.
WakesOf(k, l, list, n) ==
    /\ WakesSome(k, l)
    /\ \/ \A u \in Tasks : Event(l, u) # list
       \/ \E X \in SUBSET Tasks : /\ IsFiniteSet(X) /\ Cardinality(X) = n
                                  /\ \A u \in X : Event(k, u) = list /\ Event(l, u) # list

LEMMA WakesOfOne ==
    ASSUME NEW k, NEW l, WakesSome(k, l), NEW list,
           \/ \A u \in Tasks : Event(l, u) # list
           \/ \E u \in Tasks : Event(k, u) = list /\ Event(l, u) # list
    PROVE  WakesOf(k, l, list, 1)
<1>1. ASSUME NEW u \in Tasks, Event(k, u) = list, Event(l, u) # list
      PROVE  WakesOf(k, l, list, 1)
  <2>1. IsFiniteSet({u}) /\ Cardinality({u}) = 1 /\ {u} \in SUBSET Tasks
    BY FS_Singleton
  <2> QED BY <1>1, <2>1 DEF WakesOf
<1> QED BY <1>1 DEF WakesOf

\* Waking some of a list and then one more.
LEMMA WakesOfMore ==
    ASSUME NEW k, NEW l, NEW m, NEW list \in {ToSend, ToReceive}, NEW n \in Nat,
           WakesOf(k, l, list, n), WakesSome(l, m),
           \/ \A u \in Tasks : Event(m, u) # list
           \/ \E u \in Tasks : Event(l, u) = list /\ Event(m, u) # list
    PROVE  WakesOf(k, m, list, n + 1)
<1>1. WakesSome(k, m)
  BY WakesOn DEF WakesOf
<1>2. \A u \in Tasks : /\ Event(l, u) = list => Event(k, u) = list
                       /\ Event(m, u) = list => Event(l, u) = list
  BY DEF WakesOf, WakesSome, ToSend, ToReceive
<1>3. CASE \A u \in Tasks : Event(m, u) # list
  BY <1>1, <1>3 DEF WakesOf
<1>4. ASSUME NEW u \in Tasks, Event(l, u) = list, Event(m, u) # list,
             NEW X \in SUBSET Tasks, IsFiniteSet(X), Cardinality(X) = n,
             \A v \in X : Event(k, v) = list /\ Event(l, v) # list
      PROVE  WakesOf(k, m, list, n + 1)
  <2>1. IsFiniteSet(X \cup {u}) /\ Cardinality(X \cup {u}) = n + 1
    BY <1>4, FS_AddElement
  <2>2. \A v \in X \cup {u} : Event(k, v) = list /\ Event(m, v) # list
    BY <1>2, <1>4
  <2>3. X \cup {u} \in SUBSET Tasks
    OBVIOUS
  <2> QED BY <1>1, <2>1, <2>2, <2>3 DEF WakesOf
<1> QED BY <1>2, <1>3, <1>4 DEF WakesOf

\* An empty list has nobody waiting.
LEMMA NobodyWaits ==
    ASSUME NEW k, KernelOK(k), NEW list \in {ToSend, ToReceive}, IsEmpty(k.event[list])
    PROVE  \A u \in Tasks : Event(k, u) # list
<1>1. list \in EventLists /\ ListTypeOK(k.event[list])
  BY DEF EventLists, ToSend, ToReceive, KernelOK, KernelLists
<1>2. \A u \in Tasks : ~Holds(k.event[list], u)
  BY <1>1, EmptyOrNot
<1> QED BY <1>1, <1>2 DEF KernelOK, Places

\* The first task, with or without a switch.
LEMMA WokenOfList ==
    ASSUME NEW k, KernelOK(k), NEW list \in {ToSend, ToReceive}
    PROVE  /\ WakesOf(k, WakeAndYield(k, list), list, 1)
           /\ WakesOf(k, WakeFromISR(k, list, queueUNLOCKED), list, 1)
           /\ WakesSome(k, WakeOne(k, list))
           /\ LET l == WakeOne(k, list)
              IN  \/ \A u \in Tasks : Event(l, u) # list
                  \/ \E u \in Tasks : Event(k, u) = list /\ Event(l, u) # list
<1> DEFINE m == xTaskRemoveFromEventList(k, list).kernel
           Out(l) == \/ \A u \in Tasks : Event(l, u) # list
                     \/ \E u \in Tasks : Event(k, u) = list /\ Event(l, u) # list
<1>1. /\ WakesSome(k, WakeAndYield(k, list)) /\ WakesSome(k, WakeFromISR(k, list, queueUNLOCKED))
      /\ WakesSome(k, WakeOne(k, list))
  BY WokenAndYielded, WokenFromISR, OneWoken
<1>2. CASE IsEmpty(k.event[list])
  <2>1. /\ WakeAndYield(k, list) = k /\ WakeOne(k, list) = k
        /\ WakeFromISR(k, list, queueUNLOCKED) = k
    BY <1>2 DEF WakeAndYield, WakeOne, WakeFromISR
  <2>2. Out(k)
    BY <1>2, NobodyWaits
  <2> QED BY <1>1, <2>1, <2>2, WakesOfOne
<1>3. CASE ~IsEmpty(k.event[list])
  <2>1. KernelOK(m) /\ \E u \in Tasks : Event(k, u) = list /\ Event(m, u) # list
    BY <1>3, FirstWoken
  <2>2. /\ WakeAndYield(k, list) \in {m, vTaskSwitchContext(m)}
        /\ WakeFromISR(k, list, queueUNLOCKED) = m
        /\ WakeOne(k, list) \in {m, [m EXCEPT !.yieldPending = TRUE]}
    BY <1>3 DEF WakeAndYield, WakeOne, WakeFromISR, vTaskMissedYield
  <2> HIDE DEF m
  <2>3. \A u \in Tasks : /\ Event(vTaskSwitchContext(m), u) = Event(m, u)
                         /\ Event([m EXCEPT !.yieldPending = TRUE], u) = Event(m, u)
    BY <2>1, Switched, YieldNoted DEF Stays
  <2>4. /\ Out(WakeAndYield(k, list)) /\ Out(WakeOne(k, list))
        /\ Out(WakeFromISR(k, list, queueUNLOCKED))
    BY <2>1, <2>2, <2>3
  <2> QED BY <1>1, <2>4, WakesOfOne
<1> QED BY <1>2, <1>3

\* As many tasks as rounds.
LEMMA WaitingServed ==
    ASSUME NEW k, KernelOK(k), NEW list \in {ToSend, ToReceive}, NEW moved \in Int
    PROVE  WakesOf(k, WakeWaiting(k, list, moved), list, Max2(moved, 0))
<1> DEFINE last == Max2(moved, 0)
           IsLoop(f) == f = [n \in 0 .. last |-> IF n = 0 THEN k ELSE WakeOne(f[n - 1], list)]
           after == CHOOSE f : IsLoop(f)
           Good(m, n) == KernelOK(m) /\ WakesOf(k, m, list, n)
<1>1. WakeWaiting(k, list, moved) = after[last]
  BY DEF WakeWaiting
<1>2. last \in Nat
  BY DEF Max2
<1> HIDE DEF last
<1>3. IsLoop(after)
  BY <1>2, WakeLoop
<1> HIDE DEF after
<1>4. Good(k, 0)
  <2>1. IsFiniteSet({}) /\ Cardinality({}) = 0
    BY FS_EmptySet
  <2>2. {} \in SUBSET Tasks /\ \A u \in {} : Event(k, u) = list /\ Event(k, u) # list
    OBVIOUS
  <2> QED BY <2>1, <2>2, WakesNone DEF WakesOf
<1>5. ASSUME NEW m, NEW n \in Nat, Good(m, n) PROVE Good(WakeOne(m, list), n + 1)
  <2> DEFINE l == WakeOne(m, list)
  <2>1. KernelOK(l) /\ WakesSome(m, l)
    BY <1>5, OneWoken
  <2>2. \/ \A u \in Tasks : Event(l, u) # list
        \/ \E u \in Tasks : Event(m, u) = list /\ Event(l, u) # list
    BY <1>5, WokenOfList
  <2> HIDE DEF l
  <2>3. WakesOf(k, l, list, n + 1)
    BY <1>5, <2>1, <2>2, WakesOfMore
  <2> QED BY <2>1, <2>3 DEF l
<1> HIDE DEF Good
<1> DEFINE T == {m \in Nat : m <= last => Good(after[m], m)}
<1>6. 0 \in T
  BY <1>2, <1>3, <1>4
<1>7. ASSUME NEW m \in T PROVE m + 1 \in T
  <2>1. CASE m + 1 <= last
    <3>1. after[m + 1] = WakeOne(after[m], list)
      BY <1>2, <1>3, <2>1
    <3>2. Good(after[m], m)
      BY <1>2, <2>1
    <3> QED BY <1>5, <3>1, <3>2
  <2> QED BY <1>2, <2>1
<1>8. T = Nat
  BY <1>6, <1>7, Rounds
<1>9. Good(after[last], last)
  BY <1>2, <1>8
<1> QED BY <1>1, <1>9 DEF Good, last

\* Up: not asleep, or woken while the scheduler was suspended.  Nobody falls
\* asleep, nobody is no longer woken, nobody comes to wait on a list of the queue.
Up(k, t) == Home(k, t) \notin Blocked \/ Event(k, t) = "xPendingReadyList"
Stirs(k, l, t) ==
    /\ Up(k, t) => Up(l, t)
    /\ Event(l, t) \in QueueLists => Event(l, t) = Event(k, t)

\* Those that are woken are up.
LEMMA WokenUp ==
    ASSUME NEW k, NEW l, WakesSome(k, l), NEW t \in Tasks
    PROVE  Stirs(k, l, t) /\ (Event(k, t) \in QueueLists /\ Event(l, t) # Event(k, t) => Up(l, t))
BY DEF WakesSome, Stirs, Up, Blocked, QueueLists, ToSend, ToReceive

\* Time that passes wakes.
LEMMA PassingStirs ==
    ASSUME NEW k, NEW l, Passes(k, l), NEW t \in Tasks
    PROVE  Stirs(k, l, t)
BY DEF Passes, Stirs, Up, Blocked, QueueLists, ToSend, ToReceive

-----------------------------------------------------------------------------
(* The delayed lists, when time passes. *)

LEMMA RestsViews ==
    ASSUME NEW k, NEW l, Rests(k, l)
    PROVE  /\ Timed(l) /\ l.tick = k.tick /\ l.next = k.next /\ Wakes(l) = Wakes(k)
           /\ Listed(l.delayed) = Listed(k.delayed) /\ Listed(l.overflow) = Listed(k.overflow)
BY DEF Rests, Leaves, SameSleep, Listed, Wakes

\* The wake time of the head of a list, as DelayedLists has it.
EarliestOf(list, wake) ==
    IF list = {} THEN portMAX_DELAY
    ELSE CHOOSE w \in Ticks : /\ \E t \in list : wake[t] = w
                              /\ \A t \in list : w <= wake[t]

LEMMA EarliestIs ==
    ASSUME NEW list \in SUBSET Tasks, NEW wake, NEW t \in list, wake[t] \in Ticks,
           \A u \in list : wake[t] <= wake[u]
    PROVE  EarliestOf(list, wake) = wake[t]
<1> DEFINE Least(w) == (\E u \in list : wake[u] = w) /\ \A u \in list : w <= wake[u]
<1>1. EarliestOf(list, wake) = CHOOSE w \in Ticks : Least(w)
  BY DEF EarliestOf
<1>2. wake[t] \in Ticks /\ Least(wake[t])
  OBVIOUS
<1>3. ASSUME NEW w \in Ticks, Least(w) PROVE w = wake[t]
  <2>1. w <= wake[t] /\ wake[t] <= w
    BY <1>3
  <2> QED BY <2>1 DEF Ticks
<1> HIDE DEF Least
<1> QED BY <1>1, <1>2, <1>3

LEMMA EarliestAlike ==
    ASSUME NEW list \in SUBSET Tasks, NEW wake, NEW other,
           \A t \in list : other[t] = wake[t] /\ wake[t] \in Ticks
    PROVE  EarliestOf(list, other) = EarliestOf(list, wake)
<1>1. CASE list = {}
  BY <1>1 DEF EarliestOf
<1>2. CASE list # {}
  <2> DEFINE W == {wake[t] : t \in list}
  <2>1. W \in SUBSET Nat /\ W # {}
    BY <1>2, TimeAssumption DEF Ticks
  <2>2. Min(W) \in W /\ \A n \in W : Min(W) <= n
    BY <2>1, LeastNumber
  <2>3. PICK t \in list : \A u \in list : wake[t] <= wake[u]
    BY <2>2
  <2>4. EarliestOf(list, wake) = wake[t]
    BY <2>3, EarliestIs
  <2>5. other[t] \in Ticks /\ \A u \in list : other[t] <= other[u]
    BY <2>3
  <2>6. EarliestOf(list, other) = other[t]
    BY <2>5, EarliestIs
  <2> QED BY <2>4, <2>6
<1> QED BY <1>1, <1>2

\* prvResetNextTaskUnblockTime: the near list is sorted, and its head has the
\* earliest wake time.
Resets(k, l) ==
    /\ Timed(l) /\ l.tick = k.tick /\ \A t \in Tasks : SameSleep(k, l, t)
    /\ l.next = EarliestOf(Listed(k.delayed), Wakes(k))

LEMMA ResetNextTimed ==
    ASSUME NEW k, Timed(k)
    PROVE  Resets(k, prvResetNextTaskUnblockTime(k)) /\ Timed(prvResetNextTaskUnblockTime(k))
<1> DEFINE next == IF IsEmpty(k.delayed) THEN portMAX_DELAY ELSE Wake(k, HeadEntry(k.delayed))
           l == prvResetNextTaskUnblockTime(k)
<1>1. next = EarliestOf(Listed(k.delayed), Wakes(k))
  <2>1. ListTypeOK(k.delayed) /\ Sorted(k.delayed, Wakes(k))
    BY DEF Timed
  <2>2. CASE IsEmpty(k.delayed)
    <3>1. Listed(k.delayed) = {}
      BY <2>1, <2>2, EmptyOrNot DEF Listed
    <3> QED BY <2>2, <3>1 DEF EarliestOf
  <2>3. CASE ~IsEmpty(k.delayed)
    <3> DEFINE t == HeadEntry(k.delayed)
    <3>1. t \in Tasks /\ Holds(k.delayed, t)
      BY <2>1, <2>3, HeadIsHeld
    <3>2. \A u \in Tasks : Holds(k.delayed, u) => Wakes(k)[t] <= Wakes(k)[u]
      BY <2>1, <2>3, HeadIsLeast, Zenon
    <3> HIDE DEF t
    <3>3. t \in Listed(k.delayed) /\ Wakes(k)[t] \in Ticks /\ Wakes(k)[t] = Wake(k, t)
      BY <3>1 DEF Listed, Timed, Wakes
    <3>4. \A u \in Listed(k.delayed) : Wakes(k)[t] <= Wakes(k)[u]
      BY <3>2 DEF Listed
    <3>5. Listed(k.delayed) \in SUBSET Tasks
      BY DEF Listed
    <3>6. EarliestOf(Listed(k.delayed), Wakes(k)) = Wakes(k)[t]
      BY <3>3, <3>4, <3>5, EarliestIs
    <3> QED BY <2>3, <3>3, <3>6 DEF t
  <2> QED BY <2>2, <2>3
<1>2. l = [k EXCEPT !.next = next]
  BY DEF prvResetNextTaskUnblockTime
<1> HIDE DEF next
<1>3. /\ Over(l, KernelFields) /\ l.tick = k.tick /\ l.next = next /\ l.delayed = k.delayed
      /\ l.overflow = k.overflow /\ l.tcb = k.tcb
  BY <1>2 DEF Timed, Over, KernelFields
<1> HIDE DEF l
<1>4. Wakes(l) = Wakes(k) /\ \A t \in Tasks : Wake(l, t) = Wake(k, t)
  BY <1>3 DEF Wakes, Wake
<1>5. Timed(l)
  BY <1>3, <1>4 DEF Timed
<1>6. Resets(k, l)
  BY <1>1, <1>3, <1>4, <1>5 DEF Resets, SameSleep
<1> QED BY <1>5, <1>6 DEF l

\* What xTaskIncrementTick does, as DelayedLists has it.
DueIn(list, wake, now) == {t \in list : wake[t] <= now}
Counts(k, l) ==
    LET now == Stored(k.tick + 1)
        list == IF now = 0 THEN Listed(k.overflow) ELSE Listed(k.delayed)
        look == now >= (IF now = 0 THEN EarliestOf(list, Wakes(k)) ELSE k.next)
        due == IF look THEN DueIn(list, Wakes(k), now) ELSE {}
    IN  /\ Timed(l) /\ l.tick = now
        /\ Listed(l.delayed) = list \ due
        /\ Listed(l.overflow) = IF now = 0 THEN Listed(k.delayed) ELSE Listed(k.overflow)
        /\ Wakes(l) = [t \in Tasks |-> IF t \in due THEN 0 ELSE Wakes(k)[t]]
        /\ l.next = IF look THEN EarliestOf(list \ due, Wakes(k))
                    ELSE IF now = 0 THEN EarliestOf(list, Wakes(k)) ELSE k.next

LEMMA CountsOn ==
    ASSUME NEW k, NEW l, NEW m, Counts(k, l), Rests(l, m)
    PROVE  Counts(k, m)
BY RestsViews DEF Counts

\* The tasks of the delayed list whose time has come.
DueTasks(k) ==
    LET items == Items(k.delayed)
        later == {i \in DOMAIN items : Wake(k, items[i]) > k.tick}
    IN  IF later = {} THEN items ELSE SubSeq(items, 1, Min(later) - 1)

LEMMA DueAre ==
    ASSUME NEW k, ListTypeOK(k.delayed)
    PROVE  LET due == DueTasks(k)
           IN  /\ Len(due) \in Nat /\ DOMAIN due = 1 .. Len(due)
               /\ \A i \in 1 .. Len(due) : due[i] \in Tasks /\ Holds(k.delayed, due[i])
               /\ \A i, j \in 1 .. Len(due) : due[i] = due[j] => i = j
               /\ k.tick \in Ticks /\ Timed(k) =>
                     \A t \in Tasks : (\E i \in 1 .. Len(due) : due[i] = t)
                                        <=> Holds(k.delayed, t) /\ Wake(k, t) <= k.tick
<1> DEFINE items == Items(k.delayed)
           later == {i \in DOMAIN items : Wake(k, items[i]) > k.tick}
           due == DueTasks(k)
<1>1. /\ items \in Seq(Tasks) /\ Len(items) \in Nat /\ DOMAIN items = 1 .. Len(items)
      /\ \A t \in Tasks : Holds(k.delayed, t) <=> \E i \in 1 .. Len(items) : items[i] = t
      /\ \A i, j \in 1 .. Len(items) : items[i] = items[j] => i = j
  BY ItemsAre
<1>2. \A i \in 1 .. Len(items) : items[i] \in Tasks /\ Holds(k.delayed, items[i])
  BY <1>1
<1>3. due = IF later = {} THEN items ELSE SubSeq(items, 1, Min(later) - 1)
  BY DEF DueTasks
<1>4. later \in SUBSET Nat /\ later \subseteq 1 .. Len(items)
  BY <1>1
<1> DEFINE n == IF later = {} THEN Len(items) ELSE Min(later) - 1
<1>5. n \in Nat /\ n <= Len(items) /\ \A i \in 1 .. n : i \notin later
  <2>1. CASE later = {}
    BY <1>1, <2>1
  <2>2. CASE later # {}
    <3>1. Min(later) \in later /\ \A i \in later : Min(later) <= i
      BY <1>4, <2>2, LeastNumber
    <3>2. Min(later) \in 1 .. Len(items)
      BY <1>4, <3>1
    <3>3. n = Min(later) - 1
      BY <2>2
    <3> HIDE DEF n, later
    <3>4. n \in Nat /\ n <= Len(items)
      BY <1>1, <3>2, <3>3
    <3>5. ASSUME NEW i \in 1 .. n PROVE i \notin later
      BY <3>1, <3>2, <3>3, <3>5
    <3> QED BY <3>4, <3>5
  <2> QED BY <2>1, <2>2
<1>6. later # {} => n + 1 \in later
  <2>1. ASSUME later # {} PROVE n + 1 \in later
    <3>1. Min(later) \in later /\ Min(later) \in Nat
      BY <1>4, <2>1, LeastNumber
    <3> QED BY <2>1, <3>1
  <2> QED BY <2>1
<1>7. Len(due) = n /\ DOMAIN due = 1 .. n /\ \A i \in 1 .. n : i \in 1 .. Len(items) /\ due[i] = items[i]
  <2>1. CASE later = {}
    BY <1>1, <1>3, <2>1
  <2>2. CASE later # {}
    <3>1. due = SubSeq(items, 1, n)
      BY <1>3, <2>2
    <3> HIDE DEF due, later, n
    <3>2. \A i \in 1 .. n : items[i] \in Tasks
      BY <1>1, <1>2, <1>5
    <3> HIDE DEF items
    <3>3. Len(due) = (IF 1 <= n THEN n - 1 + 1 ELSE 0) /\ \A i \in 1 .. n - 1 + 1 : due[i] = items[1 + i - 1]
      BY <1>5, <3>1, <3>2, SubSeqProperties
    <3>4. due \in Seq(Tasks)
      BY <1>1, <1>5, <3>1, <3>2, SubSeqProperties
    <3> QED BY <1>1, <1>5, <3>3, <3>4
  <2> QED BY <2>1, <2>2
<1>8. ASSUME k.tick \in Ticks, Timed(k), NEW t \in Tasks
      PROVE  (\E i \in 1 .. Len(due) : due[i] = t) <=> Holds(k.delayed, t) /\ Wake(k, t) <= k.tick
  <2>0. \A u \in Tasks : Wake(k, u) \in Int /\ Wakes(k)[u] = Wake(k, u)
    BY <1>8, TimeAssumption DEF Timed, Ticks, Wakes
  <2>1. ASSUME NEW i \in 1 .. Len(due), due[i] = t PROVE Holds(k.delayed, t) /\ Wake(k, t) <= k.tick
    <3>1. i \in 1 .. n /\ i \in 1 .. Len(items) /\ items[i] = t /\ i \notin later
      BY <1>5, <1>7, <2>1
    <3>2. ~(Wake(k, t) > k.tick)
      BY <1>1, <3>1
    <3> QED BY <1>2, <1>8, <2>0, <3>1, <3>2 DEF Ticks
  <2>2. ASSUME Holds(k.delayed, t), Wake(k, t) <= k.tick PROVE \E i \in 1 .. Len(due) : due[i] = t
    <3>1. PICK i \in 1 .. Len(items) : items[i] = t
      BY <1>1, <2>2
    <3>2. CASE i <= n
      <4>1. i \in 1 .. n
        BY <1>5, <3>2
      <4> QED BY <1>7, <3>1, <4>1
    <3>3. CASE ~(i <= n)
      <4>1. n + 1 <= i
        BY <1>5, <3>3
      <4>2. later # {} /\ n + 1 \in later
        <5>1. later # {}
          BY <3>3, <1>1
        <5> QED BY <5>1, <1>6
      <4>3. n + 1 \in 1 .. Len(items) /\ Wake(k, items[n + 1]) > k.tick
        BY <1>1, <4>2
      <4>4. Wakes(k)[items[n + 1]] <= Wakes(k)[items[i]]
        <5> DEFINE s == k.delayed
        <5>1. ListTypeOK(s) /\ Sorted(s, Wakes(k))
          BY <1>8 DEF Timed
        <5>2. Len(items) = Len(s) - 1 /\ Len(s) \in Nat /\ \A j \in 1 .. Len(s) - 1 : items[j] = s[j + 1]
          BY <5>1, SortedFrom, ListFrom, Zenon
        <5> HIDE DEF items, n, s
        <5>3. n + 2 \in 2 .. Len(s) /\ i + 1 \in 2 .. Len(s) /\ n + 2 <= i + 1
          BY <1>5, <4>1, <4>3, <5>2
        <5>4. items[n + 1] = s[n + 2] /\ items[i] = s[i + 1]
          <6>1. (n + 1) + 1 = n + 2 /\ n + 1 \in 1 .. Len(s) - 1 /\ i \in 1 .. Len(s) - 1
            BY <1>5, <4>3, <5>2
          <6> QED BY <5>2, <6>1
        <5>5. Wakes(k)[s[n + 2]] <= Wakes(k)[s[i + 1]]
          BY <5>1, <5>3 DEF Sorted
        <5> QED BY <5>4, <5>5
      <4>5. Wake(k, items[n + 1]) <= Wake(k, t) /\ items[n + 1] \in Tasks
        BY <1>2, <2>0, <3>1, <4>3, <4>4
      <4> QED BY <1>8, <2>0, <2>2, <4>3, <4>5 DEF Ticks
    <3> QED BY <3>2, <3>3
  <2> QED BY <2>1, <2>2
<1> HIDE DEF n, later, items
<1>9. /\ Len(due) \in Nat /\ DOMAIN due = 1 .. Len(due)
      /\ \A i \in 1 .. Len(due) : due[i] \in Tasks /\ Holds(k.delayed, due[i])
      /\ \A i, j \in 1 .. Len(due) : due[i] = due[j] => i = j
  BY <1>1, <1>2, <1>5, <1>7
<1> QED BY <1>8, <1>9 DEF due

LEMMA UnblockLeaves ==
    ASSUME NEW k, Timed(k), NEW t
    PROVE  Leaves(k, Unblock(k, t), {t}) /\ Timed(Unblock(k, t))
<1> DEFINE a == RemoveGeneric(k, t)
           b == RemoveEvent(a, t)
           l == prvAddTaskToReadyList(b, t)
<1>1. Unblock(k, t) = l
  BY DEF Unblock
<1>2. Leaves(k, a, {t}) /\ Timed(a)
  BY LeavesRemoval
<1> HIDE DEF a
<1>3. Rests(a, b) /\ Timed(b)
  BY <1>2, RestsEvent
<1> HIDE DEF b
<1>4. Rests(b, l) /\ Timed(l)
  BY <1>3, RestsReadying
<1> HIDE DEF l
<1>5. Leaves(k, l, {t})
  BY <1>2, <1>3, <1>4, RestsOn, Zenon
<1> QED BY <1>1, <1>4, <1>5

LEMMA UnblockAfter ==
    ASSUME NEW k, NEW due, Len(due) \in Nat
    PROVE  LET IsLoop(f) == f = [n \in 0 .. Len(due) |->
                                   IF n = 0 THEN k ELSE Unblock(f[n - 1], due[n])]
               after == CHOOSE f : IsLoop(f)
           IN  IsLoop(after)
BY UnblockLoop

\* The loop of xTaskIncrementTick takes out the tasks that are due.
LEMMA DueLeave ==
    ASSUME NEW k, Timed(k), k.tick \in Ticks
    PROVE  \E m : /\ Leaves(k, m, DueIn(Listed(k.delayed), Wakes(k), k.tick))
                  /\ Resets(m, UnblockDue(k).kernel)
<1> DEFINE due == DueTasks(k)
           IsLoop(f) == f = [n \in 0 .. Len(due) |-> IF n = 0 THEN k ELSE Unblock(f[n - 1], due[n])]
           after == CHOOSE f : IsLoop(f)
           Done(n) == {due[i] : i \in 1 .. n}
           Good(n, m) == Leaves(k, m, Done(n)) /\ Timed(m)
<1>1. UnblockDue(k).kernel = prvResetNextTaskUnblockTime(after[Len(due)])
  BY DEF UnblockDue, DueTasks
<1>2. /\ Len(due) \in Nat /\ \A i \in 1 .. Len(due) : due[i] \in Tasks
      /\ \A t \in Tasks : (\E i \in 1 .. Len(due) : due[i] = t)
                             <=> Holds(k.delayed, t) /\ Wake(k, t) <= k.tick
  <2>1. ListTypeOK(k.delayed)
    BY DEF Timed
  <2> QED BY <2>1, DueAre
<1> HIDE DEF due
<1>3. IsLoop(after)
  BY <1>2, UnblockAfter
<1> HIDE DEF after
<1>4. Good(0, k)
  <2>1. Done(0) = {}
    OBVIOUS
  <2> HIDE DEF Done
  <2> QED BY <2>1, RestsSame DEF Rests
<1>5. ASSUME NEW n \in 0 .. Len(due) - 1, NEW m, Good(n, m)
      PROVE  Good(n + 1, Unblock(m, due[n + 1]))
  <2> DEFINE t == due[n + 1]
             l == Unblock(m, t)
  <2>1. Done(n + 1) = Done(n) \cup {t}
    <3>1. 1 .. n + 1 = 1 .. n \cup {n + 1}
      BY <1>2
    <3> QED BY <3>1
  <2> HIDE DEF Done, t
  <2>2. Leaves(m, l, {t}) /\ Timed(l)
    BY <1>5, UnblockLeaves
  <2>3. Leaves(k, l, Done(n) \cup {t})
    BY <1>5, <2>2, LeavesOn
  <2> QED BY <2>1, <2>2, <2>3 DEF t
<1> HIDE DEF Good
<1> DEFINE T == {m \in Nat : m <= Len(due) => Good(m, after[m])}
<1>6. 0 \in T
  BY <1>2, <1>3, <1>4
<1>7. ASSUME NEW m \in T PROVE m + 1 \in T
  <2>1. CASE m + 1 <= Len(due)
    <3>1. after[m + 1] = Unblock(after[m], due[m + 1])
      BY <1>2, <1>3, <2>1
    <3>2. m \in 0 .. Len(due) - 1 /\ Good(m, after[m])
      BY <1>2, <2>1
    <3> QED BY <1>5, <3>1, <3>2
  <2> QED BY <1>2, <2>1
<1>8. T = Nat
  BY <1>6, <1>7, Rounds
<1>9. Good(Len(due), after[Len(due)])
  BY <1>2, <1>8
<1>10. Done(Len(due)) = DueIn(Listed(k.delayed), Wakes(k), k.tick)
  <2>1. \A t \in Tasks : t \in Done(Len(due)) <=> t \in DueIn(Listed(k.delayed), Wakes(k), k.tick)
    BY <1>2 DEF DueIn, Listed, Wakes
  <2>2. Done(Len(due)) \subseteq Tasks /\ DueIn(Listed(k.delayed), Wakes(k), k.tick) \subseteq Tasks
    BY <1>2 DEF DueIn, Listed
  <2> HIDE DEF Done
  <2> QED BY <2>1, <2>2
<1>11. Resets(after[Len(due)], UnblockDue(k).kernel)
  BY <1>1, <1>9, ResetNextTimed DEF Good
<1> QED BY <1>9, <1>10, <1>11 DEF Good

\* taskSWITCH_DELAYED_LISTS.
LEMMA ListsSwitchedTimed ==
    ASSUME NEW k, Timed(k)
    PROVE  LET l == SwitchDelayedLists(k)
           IN  /\ Timed(l) /\ l.tick = k.tick /\ Wakes(l) = Wakes(k)
               /\ Listed(l.delayed) = Listed(k.overflow) /\ Listed(l.overflow) = Listed(k.delayed)
               /\ l.next = EarliestOf(Listed(k.overflow), Wakes(k))
<1> DEFINE n == (k.overflows + 1) % OverflowMod
           m == [k EXCEPT !.delayed = k.overflow, !.overflow = k.delayed, !.overflows = n]
           l == SwitchDelayedLists(k)
<1>1. l = prvResetNextTaskUnblockTime(m)
  BY DEF SwitchDelayedLists
<1>2. k = [f \in KernelFields |-> k[f]]
  BY DEF Timed, Over
<1> HIDE DEF n
<1>3. /\ Over(m, KernelFields) /\ m.tick = k.tick /\ m.tcb = k.tcb
      /\ m.delayed = k.overflow /\ m.overflow = k.delayed
  BY <1>2 DEF Over, KernelFields
<1> HIDE DEF m, l
<1>4. Wakes(m) = Wakes(k) /\ \A t \in Tasks : Wake(m, t) = Wake(k, t)
  BY <1>3 DEF Wakes, Wake
<1>5. Timed(m)
  BY <1>3, <1>4 DEF Timed
<1>6. Resets(m, l)
  BY <1>1, <1>5, ResetNextTimed
<1>7. Wakes(l) = Wakes(m) /\ Listed(l.delayed) = Listed(m.delayed) /\ Listed(l.overflow) = Listed(m.overflow)
  BY <1>6 DEF Resets, SameSleep, Wakes, Listed
<1> QED BY <1>3, <1>4, <1>6, <1>7 DEF Resets, l

\* xTaskIncrementTick, where the scheduler is not suspended.
LEMMA TickCounts ==
    ASSUME NEW k, Timed(k), k.tick \in Ticks, k.suspended = 0
    PROVE  Counts(k, xTaskIncrementTick(k).kernel)
<1> DEFINE now == Stored(k.tick + 1)
           counted == [k EXCEPT !.tick = Stored(@ + 1)]
           listed == IF counted.tick = 0 THEN SwitchDelayedLists(counted) ELSE counted
           woken == IF listed.tick >= listed.next THEN UnblockDue(listed).kernel ELSE listed
           l == xTaskIncrementTick(k).kernel
           list == IF now = 0 THEN Listed(k.overflow) ELSE Listed(k.delayed)
           other == IF now = 0 THEN Listed(k.delayed) ELSE Listed(k.overflow)
           next == IF now = 0 THEN EarliestOf(list, Wakes(k)) ELSE k.next
<1>1. l = woken
  <2> DEFINE ticked == IF listed.tick >= listed.next THEN UnblockDue(listed)
                       ELSE [kernel |-> listed, switch |-> FALSE]
  <2>1. ticked.kernel = woken /\ {"kernel", "switch"} \subseteq DOMAIN ticked
    <3>1. {"kernel", "switch"} \subseteq DOMAIN UnblockDue(listed)
      BY DEF UnblockDue
    <3> HIDE DEF listed
    <3> QED BY <3>1
  <2>2. \E slice : xTaskIncrementTick(k) = [ticked EXCEPT !.switch = @ \/ slice \/ k.yieldPending]
    BY DEF xTaskIncrementTick
  <2> HIDE DEF ticked, woken
  <2> QED BY <2>1, <2>2
<1>2. now \in Ticks
  BY TimeAssumption DEF Ticks, Stored
<1>3. /\ Over(counted, KernelFields) /\ counted.tick = now /\ counted.next = k.next
      /\ counted.tcb = k.tcb /\ counted.delayed = k.delayed /\ counted.overflow = k.overflow
  BY DEF Timed, Over, KernelFields
<1> HIDE DEF counted, l, now
<1>4. Wakes(counted) = Wakes(k) /\ \A t \in Tasks : Wake(counted, t) = Wake(k, t)
  BY <1>3 DEF Wakes, Wake
<1>5. Timed(counted)
  BY <1>3, <1>4 DEF Timed
<1>6. /\ Timed(listed) /\ listed.tick = now /\ listed.next = next /\ Wakes(listed) = Wakes(k)
      /\ Listed(listed.delayed) = list /\ Listed(listed.overflow) = other
  BY <1>3, <1>4, <1>5, ListsSwitchedTimed
<1>7. list \in SUBSET Tasks /\ \A t \in list : t \notin other /\ Wakes(k)[t] \in Ticks
  BY DEF Listed, Timed, Wakes
<1> HIDE DEF list, other, next, listed
<1>8. ASSUME listed.tick >= listed.next, NEW due, due = DueIn(list, Wakes(k), now)
      PROVE  /\ Timed(woken) /\ woken.tick = now
             /\ Listed(woken.delayed) = list \ due /\ Listed(woken.overflow) = other
             /\ Wakes(woken) = [t \in Tasks |-> IF t \in due THEN 0 ELSE Wakes(k)[t]]
             /\ woken.next = EarliestOf(list \ due, Wakes(k))
  <2>1. PICK m : Leaves(listed, m, due) /\ Resets(m, UnblockDue(listed).kernel)
    BY <1>2, <1>6, <1>8, DueLeave
  <2>2. woken = UnblockDue(listed).kernel
    BY <1>8
  <2> HIDE DEF woken
  <2>3. due \subseteq list
    BY <1>8 DEF DueIn
  <2>4. /\ m.tick = now /\ Timed(m)
        /\ Listed(m.delayed) = Listed(listed.delayed) \ due
        /\ Listed(m.overflow) = Listed(listed.overflow) \ due
    BY <1>6, <2>1 DEF Leaves, Listed, Awake, SameSleep
  <2>5. Listed(m.delayed) = list \ due /\ Listed(m.overflow) = other
    BY <1>6, <1>7, <2>3, <2>4
  <2>6. Wakes(m) = [t \in Tasks |-> IF t \in due THEN 0 ELSE Wakes(k)[t]]
    <3>1. ASSUME NEW t \in Tasks PROVE Wake(m, t) = IF t \in due THEN 0 ELSE Wake(listed, t)
      BY <2>1, <2>4 DEF Leaves, SameSleep, Awake, Timed
    <3> QED BY <1>6, <3>1 DEF Wakes
  <2>7. /\ Timed(woken) /\ woken.tick = now /\ Wakes(woken) = Wakes(m)
        /\ Listed(woken.delayed) = Listed(m.delayed) /\ Listed(woken.overflow) = Listed(m.overflow)
        /\ woken.next = EarliestOf(list \ due, Wakes(m))
    BY <2>1, <2>2, <2>4, <2>5 DEF Resets, SameSleep, Wakes, Listed
  <2>8. EarliestOf(list \ due, Wakes(m)) = EarliestOf(list \ due, Wakes(k))
    <3>1. \A t \in list \ due : Wakes(m)[t] = Wakes(k)[t] /\ Wakes(k)[t] \in Ticks
      BY <1>7, <2>6
    <3>2. list \ due \in SUBSET Tasks
      BY <1>7
    <3> QED BY <3>1, <3>2, EarliestAlike, Zenon
  <2> QED BY <2>5, <2>6, <2>7, <2>8
<1>9. ASSUME ~(listed.tick >= listed.next)
      PROVE  /\ Timed(woken) /\ woken.tick = now /\ woken.next = next
             /\ Listed(woken.delayed) = list /\ Listed(woken.overflow) = other
             /\ Wakes(woken) = [t \in Tasks |-> Wakes(k)[t]]
  <2>1. woken = listed
    BY <1>9
  <2>2. Wakes(k) = [t \in Tasks |-> Wakes(k)[t]]
    BY DEF Wakes
  <2> QED BY <1>6, <2>1, <2>2
<1> HIDE DEF woken
<1>10. CASE listed.tick >= listed.next
  <2>1. now >= next
    BY <1>6, <1>10
  <2> QED BY <1>1, <1>8, <1>10, <2>1 DEF Counts, now, next, list, other, l
<1>11. CASE ~(listed.tick >= listed.next)
  <2>1. ~(now >= next)
    BY <1>6, <1>11
  <2> QED BY <1>1, <1>9, <1>11, <2>1 DEF Counts, now, next, list, other, l
<1> QED BY <1>10, <1>11

-----------------------------------------------------------------------------
(* The delayed lists, in the functions of the kernel. *)

\* A task, or none, leaves the delayed lists; or it falls asleep for n ticks.
Drops(k, l) == \E t : Leaves(k, l, {t})
FallsAsleep(k, l) ==
    \E t \in Tasks : Awake(k, t) /\ \E n \in 1 .. portMAX_DELAY : Dozes(k, l, t, Stored(k.tick + n))

\* What the kernel does to its delayed lists, as DelayedLists has it.
Delays(k, l) == Drops(k, l) \/ Counts(k, l) \/ Resets(k, l) \/ FallsAsleep(k, l)

LEMMA DropsOn ==
    ASSUME NEW k, NEW l
    PROVE  /\ Rests(k, l) => Drops(k, l)
           /\ \A m : Rests(k, l) /\ Drops(l, m) => Drops(k, m)
           /\ \A m : Drops(k, l) /\ Rests(l, m) => Drops(k, m)
<1>1. Rests(k, l) => Leaves(k, l, {xListEnd})
  BY KernelAssumption DEF Rests, Leaves
<1> QED BY <1>1, RestsOn DEF Drops

LEMMA SleepsOn ==
    ASSUME NEW k, NEW l, NEW m
    PROVE  /\ Rests(k, l) /\ FallsAsleep(l, m) => FallsAsleep(k, m)
           /\ FallsAsleep(k, l) /\ Rests(l, m) => FallsAsleep(k, m)
<1>1. Rests(k, l) => l.tick = k.tick /\ \A t \in Tasks : Awake(l, t) => Awake(k, t)
  BY DEF Rests, Leaves, SameSleep, Awake
<1>2. ASSUME Rests(k, l), FallsAsleep(l, m) PROVE FallsAsleep(k, m)
  <2>1. PICK t \in Tasks, n \in 1 .. portMAX_DELAY : Awake(l, t) /\ Dozes(l, m, t, Stored(l.tick + n))
    BY <1>2 DEF FallsAsleep
  <2>2. Awake(k, t) /\ Dozes(k, m, t, Stored(k.tick + n))
    BY <1>1, <1>2, <2>1, DozesOn
  <2> QED BY <2>2 DEF FallsAsleep
<1>3. ASSUME FallsAsleep(k, l), Rests(l, m) PROVE FallsAsleep(k, m)
  <2>1. PICK t \in Tasks, n \in 1 .. portMAX_DELAY : Awake(k, t) /\ Dozes(k, l, t, Stored(k.tick + n))
    BY <1>3 DEF FallsAsleep
  <2>2. Dozes(k, m, t, Stored(k.tick + n))
    BY <1>3, <2>1, DozesOn
  <2> QED BY <2>1, <2>2 DEF FallsAsleep
<1> QED BY <1>2, <1>3

LEMMA DelaysTimed ==
    ASSUME NEW k, NEW l, Delays(k, l)
    PROVE  Timed(l)
BY DEF Delays, Drops, Leaves, Counts, Resets, FallsAsleep, Dozes

\* Fields that the delayed lists do not know of.
LEMMA RestsPending ==
    ASSUME NEW k, Timed(k), NEW v
    PROVE  /\ Rests(k, [k EXCEPT !.yieldPending = v]) /\ Timed([k EXCEPT !.yieldPending = v])
           /\ Rests(k, [k EXCEPT !.pended = v]) /\ Timed([k EXCEPT !.pended = v])
           /\ Rests(k, [k EXCEPT !.suspended = v]) /\ Timed([k EXCEPT !.suspended = v])
           /\ Rests(k, [k EXCEPT !.number = v]) /\ Timed([k EXCEPT !.number = v])
           /\ Rests(k, [k EXCEPT !.deleted = v]) /\ Timed([k EXCEPT !.deleted = v])
           /\ Rests(k, [k EXCEPT !.current = v]) /\ Timed([k EXCEPT !.current = v])
           /\ Rests(k, [k EXCEPT !.termination = v]) /\ Timed([k EXCEPT !.termination = v])
<1>1. {"yieldPending", "pended", "suspended", "number", "deleted", "current", "termination"}
        \subseteq KernelFields \ {"tick", "next", "delayed", "overflow", "tcb"}
  BY DEF KernelFields
<1>2. \A f \in {"yieldPending", "pended", "suspended", "number", "deleted", "current", "termination"} :
         Rests(k, [k EXCEPT ![f] = v]) /\ Timed([k EXCEPT ![f] = v])
  BY <1>1, RestsField
<1> QED BY <1>2

\* The tick interrupt.
LEMMA TickDelays ==
    ASSUME NEW k, Timed(k), k.tick \in Ticks
    PROVE  Delays(k, vPortYieldFromTick(k))
<1> DEFINE m == xTaskIncrementTick(k).kernel
           l == vPortYieldFromTick(k)
<1>1. l = m \/ l = vTaskSwitchContext(m)
  BY DEF vPortYieldFromTick
<1>2. CASE k.suspended # 0
  <2>1. m = [k EXCEPT !.pended = k.pended + 1]
    BY <1>2 DEF xTaskIncrementTick
  <2> HIDE DEF m, l
  <2>2. Rests(k, m) /\ Timed(m)
    BY <2>1, RestsPending
  <2>3. Rests(k, l)
    BY <1>1, <2>2, RestsSwitch, RestsOn DEF Rests
  <2> QED BY <2>3, DropsOn DEF Delays, l
<1>3. CASE k.suspended = 0
  <2>1. Counts(k, m)
    BY <1>3, TickCounts
  <2> HIDE DEF m, l
  <2>2. Timed(m)
    BY <2>1 DEF Counts
  <2>3. Counts(k, l)
    BY <1>1, <2>1, <2>2, RestsSwitch, CountsOn
  <2> QED BY <2>3 DEF Delays, l
<1> QED BY <1>2, <1>3

\* A tick that has come under a suspended scheduler, and a task that an
\* interrupt has woken meanwhile.
LEMMA CatchUpDelays ==
    ASSUME NEW k, Timed(k), k.tick \in Ticks, k.suspended = 0
    PROVE  Delays(k, CatchUp(k))
<1>1. Counts(k, CountPended(k))
  <2> DEFINE ticked == xTaskIncrementTick(k)
             a == ticked.kernel
             b == [a EXCEPT !.pended = a.pended - 1]
             c == [b EXCEPT !.yieldPending = b.yieldPending \/ ticked.switch]
  <2>1. Counts(k, a) /\ Timed(a)
    BY TickCounts DEF Counts
  <2>2. CountPended(k) = c
    <3>1. CountPended(k) = [a EXCEPT !.pended = @ - 1, !.yieldPending = @ \/ ticked.switch]
      BY DEF CountPended
    <3> HIDE DEF a, ticked
    <3>2. a = [f \in KernelFields |-> a[f]]
      BY <2>1 DEF Timed, Over
    <3> QED BY <3>1, <3>2 DEF KernelFields
  <2> HIDE DEF a
  <2>3. Rests(a, b) /\ Timed(b)
    BY <2>1, RestsPending
  <2> HIDE DEF b, ticked
  <2>4. Rests(b, c)
    BY <2>3, RestsPending
  <2> QED BY <2>1, <2>2, <2>3, <2>4, CountsOn
<1>2. Drops(k, ReadyPending(k))
  <2> DEFINE t == HeadEntry(k.event["xPendingReadyList"])
             a == RemoveEvent(k, t)
             b == RemoveGeneric(a, t)
             c == prvAddTaskToReadyList(b, t)
             y == c.yieldPending \/ Prio(k, t) >= Prio(k, k.current)
             l == [c EXCEPT !.yieldPending = y]
  <2>1. ReadyPending(k) = l
    BY DEF ReadyPending
  <2> HIDE DEF t
  <2>2. Rests(k, a) /\ Timed(a)
    BY RestsEvent
  <2> HIDE DEF a
  <2>3. Leaves(a, b, {t}) /\ Timed(b)
    BY <2>2, LeavesRemoval
  <2> HIDE DEF b
  <2>4. Rests(b, c) /\ Timed(c)
    BY <2>3, RestsReadying
  <2> HIDE DEF c, y
  <2>5. Rests(c, l)
    BY <2>4, RestsPending
  <2> HIDE DEF l
  <2>6. Leaves(k, l, {t})
    BY <2>2, <2>3, <2>4, <2>5, RestsOn, Zenon
  <2> QED BY <2>1, <2>6 DEF Drops
<1> QED BY <1>1, <1>2 DEF CatchUp, Delays

\* Waking the first task of an event list: under a suspended scheduler it stays
\* on its delayed list.
LEMMA FirstDrops ==
    ASSUME NEW k, Timed(k), NEW list
    PROVE  LET l == xTaskRemoveFromEventList(k, list).kernel
           IN  /\ Drops(k, l) /\ Timed(l)
               /\ k.suspended # 0 => Rests(k, l) /\ l.suspended = k.suspended
<1> DEFINE t == HeadEntry(k.event[list])
           above == Prio(k, t) > Prio(k, k.current)
           removed == RemoveEvent(k, t)
           taken == RemoveGeneric(removed, t)
           woken == IF k.suspended = 0 THEN prvAddTaskToReadyList(taken, t)
                    ELSE [removed EXCEPT !.event["xPendingReadyList"] = vListInsertEnd(@, t)]
           y == woken.yieldPending \/ above
           l == [woken EXCEPT !.yieldPending = y]
<1>1. xTaskRemoveFromEventList(k, list).kernel = l
  BY DEF xTaskRemoveFromEventList
<1> HIDE DEF t, above
<1>2. Rests(k, removed) /\ Timed(removed) /\ removed.suspended = k.suspended
  <2>1. Rests(k, removed) /\ Timed(removed)
    BY RestsEvent
  <2>2. k = [f \in KernelFields |-> k[f]]
    BY DEF Timed, Over
  <2>3. removed.suspended = k.suspended
    BY <2>2 DEF RemoveEvent, KernelFields
  <2> QED BY <2>1, <2>3
<1> HIDE DEF removed
<1>3. CASE k.suspended = 0
  <2>1. Leaves(removed, taken, {t}) /\ Timed(taken)
    BY <1>2, LeavesRemoval
  <2> HIDE DEF taken
  <2>2. Rests(taken, woken) /\ Timed(woken)
    BY <1>3, <2>1, RestsReadying
  <2> HIDE DEF woken, y
  <2>3. Rests(woken, l) /\ Timed(l)
    BY <2>2, RestsPending
  <2> HIDE DEF l
  <2>4. Leaves(k, l, {t})
    BY <1>2, <2>1, <2>2, <2>3, RestsOn, Zenon
  <2> QED BY <1>1, <1>3, <2>3, <2>4 DEF Drops
<1>4. CASE k.suspended # 0
  <2> DEFINE x == vListInsertEnd(removed.event["xPendingReadyList"], t)
  <2>1. woken = [removed EXCEPT !.event["xPendingReadyList"] = x]
    BY <1>4
  <2> HIDE DEF woken, x, y
  <2>2. Rests(removed, woken) /\ Timed(woken)
    BY <1>2, <2>1, RestsEvent
  <2>3. Rests(woken, l) /\ Timed(l)
    BY <2>2, RestsPending
  <2>4. l.suspended = k.suspended
    <3>1. removed = [f \in KernelFields |-> removed[f]]
      BY <1>2 DEF Timed, Over
    <3> QED BY <1>2, <2>1, <3>1 DEF KernelFields
  <2> HIDE DEF l
  <2>5. Rests(k, l)
    BY <1>2, <2>2, <2>3, RestsOn, Zenon DEF Rests
  <2> QED BY <1>1, <2>3, <2>4, <2>5, DropsOn
<1> QED BY <1>3, <1>4

\* A waiting task is woken, by a task or by an interrupt.
LEMMA WakeDrops ==
    ASSUME NEW k, Timed(k), NEW list, NEW lock
    PROVE  Drops(k, WakeAndYield(k, list)) /\ Drops(k, WakeFromISR(k, list, lock))
<1> DEFINE m == xTaskRemoveFromEventList(k, list).kernel
           l == WakeAndYield(k, list)
           h == WakeFromISR(k, list, lock)
<1>1. l = k \/ l = m \/ l = vTaskSwitchContext(m)
  BY DEF WakeAndYield
<1>2. h = k \/ h = m
  BY DEF WakeFromISR
<1>3. Drops(k, m) /\ Timed(m)
  BY FirstDrops
<1> HIDE DEF l, m, h
<1>4. Rests(k, k) /\ Rests(m, vTaskSwitchContext(m))
  BY <1>3, RestsSame, RestsSwitch
<1>5. Drops(k, k) /\ Drops(k, vTaskSwitchContext(m))
  BY <1>3, <1>4, DropsOn
<1> QED BY <1>1, <1>2, <1>3, <1>5 DEF l, h

\* prvUnlockQueue wakes tasks while the scheduler is suspended.
LEMMA WaitingRests ==
    ASSUME NEW k, Timed(k), k.suspended # 0, NEW list, NEW moved \in Int
    PROVE  Rests(k, WakeWaiting(k, list, moved))
<1> DEFINE last == Max2(moved, 0)
           IsLoop(f) == f = [n \in 0 .. last |-> IF n = 0 THEN k ELSE WakeOne(f[n - 1], list)]
           after == CHOOSE f : IsLoop(f)
           Good(m) == Rests(k, m) /\ Timed(m) /\ m.suspended = k.suspended
<1>1. WakeWaiting(k, list, moved) = after[last]
  BY DEF WakeWaiting
<1>2. last \in Nat
  BY DEF Max2
<1> HIDE DEF last
<1>3. IsLoop(after)
  BY <1>2, WakeLoop
<1> HIDE DEF after
<1>4. Good(k)
  BY RestsSame
<1>5. ASSUME NEW m, Good(m) PROVE Good(WakeOne(m, list))
  <2> DEFINE a == xTaskRemoveFromEventList(m, list).kernel
             b == WakeOne(m, list)
  <2>1. b = m \/ b = a \/ b = [a EXCEPT !.yieldPending = TRUE]
    BY DEF WakeOne, vTaskMissedYield
  <2>2. Rests(m, a) /\ Timed(a) /\ a.suspended = k.suspended
    BY <1>5, FirstDrops
  <2> HIDE DEF a, b
  <2>3. Rests(k, a)
    BY <1>5, <2>2, RestsOn, Zenon DEF Rests
  <2> DEFINE c == [a EXCEPT !.yieldPending = TRUE]
  <2>4. c.suspended = a.suspended
    <3>1. a = [f \in KernelFields |-> a[f]]
      BY <2>2 DEF Timed, Over
    <3> QED BY <3>1 DEF KernelFields
  <2>5. Rests(a, c) /\ Timed(c)
    BY <2>2, RestsPending
  <2> HIDE DEF c
  <2>6. Rests(k, c)
    BY <2>3, <2>5, RestsOn, Zenon DEF Rests
  <2> QED BY <1>5, <2>1, <2>2, <2>3, <2>4, <2>5, <2>6 DEF b, c
<1> HIDE DEF Good
<1> DEFINE T == {m \in Nat : m <= last => Good(after[m])}
<1>6. 0 \in T
  BY <1>2, <1>3, <1>4
<1>7. ASSUME NEW m \in T PROVE m + 1 \in T
  <2>1. CASE m + 1 <= last
    <3>1. after[m + 1] = WakeOne(after[m], list)
      BY <1>2, <1>3, <2>1
    <3>2. Good(after[m])
      BY <1>2, <2>1
    <3> QED BY <1>5, <3>1, <3>2
  <2> QED BY <1>2, <2>1
<1>8. T = Nat
  BY <1>6, <1>7, Rounds
<1>9. Good(after[last])
  BY <1>2, <1>8
<1> QED BY <1>1, <1>9 DEF Good

\* The current task falls asleep for some ticks.
LEMMA BlockSleeps ==
    ASSUME NEW k, Timed(k), k.tick \in Ticks, k.next \in Ticks, k.current \in Tasks, Awake(k, k.current),
           NEW ticks \in Ticks \ {0}
    PROVE  FallsAsleep(k, BlockFor(k, ticks)) /\ Timed(BlockFor(k, ticks))
<1> DEFINE wake == Stored(k.tick + ticks)
<1>1. wake \in Ticks /\ ticks \in 1 .. portMAX_DELAY
  BY TimeAssumption DEF Ticks, Stored, portMAX_DELAY
<1> HIDE DEF wake
<1>2. Dozes(k, BlockUntil(k, wake), k.current, wake) /\ Timed(BlockUntil(k, wake))
  BY <1>1, BlockedDozes
<1>3. BlockFor(k, ticks) = BlockUntil(k, wake)
  BY DEF BlockFor, wake
<1> HIDE DEF BlockFor
<1> QED BY <1>1, <1>2, <1>3 DEF FallsAsleep, wake

\* Waiting for the queue, and for a notification.
LEMMA PlaceSleeps ==
    ASSUME NEW k, Timed(k), k.tick \in Ticks, k.next \in Ticks, k.current \in Tasks, Awake(k, k.current),
           NEW list, NEW ticks \in Ticks \ {0}
    PROVE  FallsAsleep(k, vTaskPlaceOnEventList(k, list, ticks))
<1> DEFINE x == vListInsert(k.event[list], k.current, EventValues(k))
           m == [k EXCEPT !.event[list] = x]
<1>1. vTaskPlaceOnEventList(k, list, ticks) = BlockFor(m, ticks)
  BY DEF vTaskPlaceOnEventList
<1> HIDE DEF x
<1>2. Rests(k, m) /\ Timed(m)
  BY RestsEvent
<1>3. m.current = k.current
  BY DEF Timed, Over, KernelFields
<1> HIDE DEF m
<1>4. m.tick = k.tick /\ m.next = k.next /\ Awake(m, k.current)
  BY <1>2 DEF Rests, Leaves, SameSleep, Awake
<1>5. FallsAsleep(m, BlockFor(m, ticks))
  BY <1>2, <1>3, <1>4, BlockSleeps
<1> QED BY <1>1, <1>2, <1>5, SleepsOn

LEMMA AwaitDelays ==
    ASSUME NEW k, Timed(k), k.tick \in Ticks, k.next \in Ticks, k.current \in Tasks, Awake(k, k.current),
           NEW satisfied \in BOOLEAN, NEW cleared, NEW ticks \in Ticks
    PROVE  Delays(k, AwaitNotification(k, satisfied, cleared, ticks))
<1> DEFINE m == Marked(k, k.current, eWaiting, cleared)
           asleep == BlockFor(m, ticks)
           l == AwaitNotification(k, satisfied, cleared, ticks)
<1>1. l = IF satisfied THEN k ELSE IF ticks = 0 THEN m ELSE vTaskSwitchContext(asleep)
  BY DEF AwaitNotification, Marked
<1>2. Rests(k, m) /\ Timed(m)
  BY RestsMark
<1>3. m.current = k.current
  BY DEF Marked, Timed, Over, KernelFields
<1> HIDE DEF m, l
<1>4. m.tick = k.tick /\ m.next = k.next /\ Awake(m, k.current)
  BY <1>2 DEF Rests, Leaves, SameSleep, Awake
<1>5. CASE satisfied \/ ticks = 0
  <2>1. l = k \/ l = m
    BY <1>1, <1>5
  <2>2. Rests(k, l)
    BY <1>2, <2>1, RestsSame
  <2> QED BY <2>2, DropsOn DEF Delays, l
<1>6. CASE ~satisfied /\ ticks # 0
  <2>1. l = vTaskSwitchContext(asleep)
    BY <1>1, <1>6
  <2>2. FallsAsleep(m, asleep) /\ Timed(asleep)
    BY <1>2, <1>3, <1>4, <1>6, BlockSleeps
  <2> HIDE DEF asleep
  <2>3. Rests(asleep, l)
    BY <2>1, <2>2, RestsSwitch
  <2>4. FallsAsleep(k, l)
    BY <1>2, <2>2, <2>3, SleepsOn, Zenon
  <2> QED BY <2>4 DEF Delays, l
<1> QED BY <1>5, <1>6

\* Notifying a task, and the end of its wait.
LEMMA NotifyDrops ==
    ASSUME NEW k, Timed(k), NEW t, NEW value
    PROVE  /\ Drops(k, xTaskGenericNotify(k, t, value))
           /\ Drops(k, xTaskGenericNotifyFromISR(k, t, value))
           /\ Drops(k, EndNotification(k, value))
<1> DEFINE m == Notified(k, t, value)
           a == RemoveGeneric(m, t)
           b == prvAddTaskToReadyList(a, t)
           x == vListInsertEnd(m.event["xPendingReadyList"], t)
           c == [m EXCEPT !.event["xPendingReadyList"] = x]
           e == EndNotification(k, value)
           l == xTaskGenericNotify(k, t, value)
           h == xTaskGenericNotifyFromISR(k, t, value)
<1>1. l = m \/ l = b \/ l = vTaskSwitchContext(b)
  BY DEF xTaskGenericNotify
<1>2. h = m \/ h = b \/ h = c
  BY DEF xTaskGenericNotifyFromISR
<1>3. m = Marked(k, t, eNotified, value) /\ e = Marked(k, k.current, eNotWaiting, value)
  BY DEF Notified, EndNotification, Marked
<1> HIDE DEF m, l, h, e, x
<1>4. Rests(k, m) /\ Timed(m) /\ Rests(k, e)
  BY <1>3, RestsMark
<1>5. Leaves(m, a, {t}) /\ Timed(a)
  BY <1>4, LeavesRemoval
<1> HIDE DEF a
<1>6. Rests(a, b) /\ Timed(b)
  BY <1>5, RestsReadying
<1> HIDE DEF b
<1>7. Rests(b, vTaskSwitchContext(b))
  BY <1>6, RestsSwitch
<1>8. Rests(m, c)
  BY <1>4, RestsEvent
<1> HIDE DEF c
<1>9. Leaves(k, b, {t}) /\ Rests(k, c)
  BY <1>4, <1>5, <1>6, <1>8, RestsOn, Zenon DEF Rests
<1>10. Leaves(k, vTaskSwitchContext(b), {t})
  BY <1>7, <1>9, RestsOn, Zenon
<1>11. Drops(k, b) /\ Drops(k, vTaskSwitchContext(b))
  BY <1>9, <1>10 DEF Drops
<1>12. Drops(k, m) /\ Drops(k, c) /\ Drops(k, e)
  BY <1>4, <1>9, DropsOn
<1> QED BY <1>1, <1>2, <1>11, <1>12 DEF l, h, e

\* A task comes: it is in no delayed list yet.
LEMMA AddRests ==
    ASSUME NEW k, Timed(k), NEW t \in Tasks, Awake(k, t), NEW prio
    PROVE  Rests(k, AddTask(k, t, prio)) /\ Timed(AddTask(k, t, prio))
<1> DEFINE one == NewTCB(prio)
           tcb == [k.tcb EXCEPT ![t] = one]
           m == [k EXCEPT !.number = @ + 1, !.tcb[t] = one]
           l == AddTask(k, t, prio)
<1>1. l = prvAddTaskToReadyList(m, t)
  BY DEF AddTask
<1>2. k = [f \in KernelFields |-> k[f]] /\ k.tcb = [u \in Tasks |-> k.tcb[u]]
  BY DEF Timed, Over
<1>3. Over(one, TcbFields) /\ one.wake = 0 /\ k.tcb[t].wake = 0
  BY DEF Over, TcbFields, NewTCB, Timed, Awake, Wake
<1> HIDE DEF one
<1>4. Over(tcb, Tasks) /\ \A u \in Tasks : Over(tcb[u], TcbFields) /\ tcb[u].wake = k.tcb[u].wake
  <2>1. tcb = [u \in Tasks |-> IF u = t THEN one ELSE k.tcb[u]]
    BY <1>2
  <2>2. Over(tcb, Tasks) /\ tcb[t] = one /\ \A u \in Tasks : u # t => tcb[u] = k.tcb[u]
    BY <2>1 DEF Over
  <2> HIDE DEF tcb
  <2> QED BY <1>3, <2>2 DEF Timed
<1>5. /\ Over(m, KernelFields) /\ m.tick = k.tick /\ m.next = k.next /\ m.delayed = k.delayed
      /\ m.overflow = k.overflow /\ m.tcb = tcb
  BY <1>2 DEF Over, KernelFields
<1> HIDE DEF m, tcb, l
<1>6. Rests(k, m) /\ Timed(m)
  BY <1>4, <1>5, RestsWhere
<1>7. Rests(m, l) /\ Timed(l)
  BY <1>1, <1>6, RestsReadying
<1>8. Rests(k, l)
  BY <1>6, <1>7, RestsOn, Zenon DEF Rests
<1> QED BY <1>7, <1>8 DEF l

\* A task goes, and its memory is reclaimed.
LEMMA GoneDrops ==
    ASSUME NEW k, Timed(k), NEW t
    PROVE  Drops(k, Terminate(k, t)) /\ Drops(k, Reclaim(k))
<1>1. Drops(k, Terminate(k, t))
  <2> DEFINE a == RemoveGeneric(k, t)
             b == RemoveEvent(a, t)
             c == [b EXCEPT !.termination = vListInsertEnd(b.termination, t)]
             l == [c EXCEPT !.deleted = c.deleted + 1]
  <2>1. Leaves(k, a, {t}) /\ Timed(a)
    BY LeavesRemoval
  <2> HIDE DEF a
  <2>2. Rests(a, b) /\ Timed(b)
    BY <2>1, RestsEvent
  <2>3. Terminate(k, t) = l
    <3>1. b = [f \in KernelFields |-> b[f]]
      BY <2>2 DEF Timed, Over
    <3>2. Terminate(k, t) = [b EXCEPT !.termination = vListInsertEnd(@, t), !.deleted = @ + 1]
      BY DEF Terminate, a
    <3> HIDE DEF b
    <3> QED BY <3>1, <3>2 DEF KernelFields
  <2> HIDE DEF b
  <2>4. Rests(b, c) /\ Timed(c)
    BY <2>2, RestsPending
  <2> HIDE DEF c
  <2>5. Rests(c, l)
    BY <2>4, RestsPending
  <2> HIDE DEF l
  <2>6. Leaves(k, l, {t})
    BY <2>1, <2>2, <2>4, <2>5, RestsOn, Zenon
  <2> QED BY <2>3, <2>6 DEF Drops
<1>2. Drops(k, Reclaim(k))
  <2> DEFINE u == HeadEntry(k.termination)
             a == RemoveGeneric(k, u)
             b == [a EXCEPT !.number = a.number - 1]
             l == [b EXCEPT !.deleted = b.deleted - 1]
  <2> HIDE DEF u
  <2>1. Leaves(k, a, {u}) /\ Timed(a)
    BY LeavesRemoval
  <2>2. Reclaim(k) = l
    <3>1. a = [f \in KernelFields |-> a[f]]
      BY <2>1 DEF Timed, Over
    <3>2. Reclaim(k) = [a EXCEPT !.number = @ - 1, !.deleted = @ - 1]
      BY DEF Reclaim, u
    <3> HIDE DEF a
    <3> QED BY <3>1, <3>2 DEF KernelFields
  <2> HIDE DEF a
  <2>3. Rests(a, b) /\ Timed(b)
    BY <2>1, RestsPending
  <2> HIDE DEF b
  <2>4. Rests(b, l)
    BY <2>3, RestsPending
  <2> HIDE DEF l
  <2>5. Leaves(k, l, {u})
    BY <2>1, <2>3, <2>4, RestsOn, Zenon
  <2> QED BY <2>2, <2>5 DEF Drops
<1> QED BY <1>1, <1>2

-----------------------------------------------------------------------------
(* Turns, where tasks are woken. *)

\* A task that has been woken under a suspended scheduler is made ready.
LEMMA PendingTurns ==
    ASSUME NEW k, KernelOK(k), NEW u \in Tasks, u = HeadEntry(k.event["xPendingReadyList"]),
           NEW t \in Tasks, Home(k, u) = "ready" => u \notin {t, First(k, t)}
    PROVE  InTurn(k, ReadyPending(k), t)
<1> DEFINE a == RemoveEvent(k, u)
           m == prvAddTaskToReadyList(RemoveGeneric(a, u), u)
           l == ReadyPending(k)
<1>1. Sound(k)
  BY DEF KernelOK, Sound
<1>2. Sound(a) /\ SameRest(k, a) /\ \A v \in Tasks : Home(a, v) = Home(k, v)
  BY <1>1, EventRemoved
<1>3. a.ready = k.ready
  BY <1>1 DEF RemoveEvent, Sound, KernelShape, KernelFields, Over
<1>4. l = [m EXCEPT !.yieldPending = @ \/ Prio(k, u) >= Prio(k, k.current)]
  BY DEF ReadyPending
<1> HIDE DEF a, l
<1>5. Turns(k, a) /\ First(a, t) = First(k, t)
  BY <1>2, <1>3, TurnsAlike DEF SameRest, SameData, First
<1>6. InTurn(a, m, t)
  BY <1>2, <1>5, ReadiedTurns
<1>7. Sound(m)
  BY <1>2, GenericRemoved, ReadyAdded
<1> HIDE DEF m
<1>8. l.ready = m.ready /\ l.tcb = m.tcb
  BY <1>4, <1>7 DEF Sound, KernelShape, KernelFields, Over
<1>9. Turns(m, l)
  BY <1>8, TurnsAlike DEF Prio
<1> QED BY <1>5, <1>6, <1>9 DEF Turns, InTurn, NoneBefore, l

\* A tick of the suspension is made up for.
LEMMA PendedTurns ==
    ASSUME NEW k, KernelOK(k), k.suspended = 0
    PROVE  Turns(k, CountPended(k))
<1> DEFINE ticked == xTaskIncrementTick(k)
           m == ticked.kernel
           l == CountPended(k)
<1>1. KernelOK(m) /\ Turns(k, m)
  BY TickCounted
<1>2. l = [m EXCEPT !.pended = @ - 1, !.yieldPending = @ \/ ticked.switch]
  BY DEF CountPended
<1> HIDE DEF ticked, m, l
<1>3. l.ready = m.ready /\ l.tcb = m.tcb
  BY <1>1, <1>2 DEF KernelOK, KernelShape, KernelFields, Over
<1>4. Turns(m, l)
  BY <1>3, TurnsAlike DEF Prio
<1> QED BY <1>1, <1>4, TurnsOn DEF l

\* No task that waits for the queue is ready.
Asleep(k) == \A u \in Tasks : Event(k, u) \in {ToSend, ToReceive} => Home(k, u) # "ready"

LEMMA AsleepOn ==
    ASSUME NEW k, NEW l, Asleep(k), WakesSome(k, l)
    PROVE  Asleep(l)
BY DEF Asleep, WakesSome, ToSend, ToReceive

\* xTaskRemoveFromEventList.
LEMMA WokenTurns ==
    ASSUME NEW k, KernelOK(k), Asleep(k), NEW list \in {ToSend, ToReceive}, ~IsEmpty(k.event[list])
    PROVE  Turns(k, xTaskRemoveFromEventList(k, list).kernel)
<1> DEFINE u == HeadEntry(k.event[list])
           a == RemoveEvent(k, u)
           now == prvAddTaskToReadyList(RemoveGeneric(a, u), u)
           then == [a EXCEPT !.event["xPendingReadyList"] = vListInsertEnd(@, u)]
           m == IF k.suspended = 0 THEN now ELSE then
           l == xTaskRemoveFromEventList(k, list).kernel
<1>1. Sound(k) /\ list \in EventLists
  BY DEF KernelOK, Sound, EventLists, ToSend, ToReceive
<1>2. u \in Tasks /\ Holds(k.event[list], u)
  BY <1>1, HeadIsHeld DEF Sound, KernelLists
<1>3. Event(k, u) = list
  BY <1>1, <1>2 DEF Sound, Places
<1>4. Home(k, u) # "ready"
  BY <1>2, <1>3 DEF Asleep
<1>5. l = [m EXCEPT !.yieldPending = @ \/ Prio(k, u) > Prio(k, k.current)]
  BY DEF xTaskRemoveFromEventList
<1> HIDE DEF u
<1>6. Sound(a) /\ SameRest(k, a) /\ \A v \in Tasks : Home(a, v) = Home(k, v)
  BY <1>1, <1>2, EventRemoved
<1>7. a.ready = k.ready
  BY <1>1 DEF RemoveEvent, Sound, KernelShape, KernelFields, Over
<1> HIDE DEF a, l
<1>8. Turns(k, a)
  BY <1>6, <1>7, TurnsAlike DEF SameRest, SameData
<1>9. Over(m, KernelFields) /\ Turns(a, m)
  <2>1. CASE k.suspended = 0
    <3>1. Turns(a, now)
      BY <1>2, <1>4, <1>6, ReadiedTurns DEF Turns
    <3>2. Sound(now)
      BY <1>2, <1>6, GenericRemoved, ReadyAdded
    <3> HIDE DEF now
    <3> QED BY <2>1, <3>1, <3>2 DEF Sound, KernelShape
  <2>2. CASE k.suspended # 0
    <3>1. Over(then, KernelFields) /\ then.ready = a.ready /\ then.tcb = a.tcb
      BY <1>6 DEF Sound, KernelShape, KernelFields, Over
    <3> HIDE DEF then
    <3> QED BY <2>2, <3>1, TurnsAlike DEF Prio
  <2> QED BY <2>1, <2>2
<1> HIDE DEF m
<1>10. l.ready = m.ready /\ l.tcb = m.tcb
  BY <1>5, <1>9 DEF KernelFields, Over
<1>11. Turns(m, l)
  BY <1>10, TurnsAlike DEF Prio
<1> QED BY <1>8, <1>9, <1>11, TurnsOn DEF l

\* A send or a receive, and the switch to the task it has woken.
LEMMA WakeSlices ==
    ASSUME NEW k, KernelOK(k), Asleep(k), NEW list \in {ToSend, ToReceive}, NEW t \in Tasks
    PROVE  Slices(k, WakeAndYield(k, list), t)
<1> DEFINE m == xTaskRemoveFromEventList(k, list).kernel
           l == WakeAndYield(k, list)
<1>1. ~IsEmpty(k.event[list]) => KernelOK(m) /\ Turns(k, m)
  BY FirstWoken, WokenTurns
<1>2. \/ l = k
      \/ ~IsEmpty(k.event[list]) /\ l \in {m, vTaskSwitchContext(m)}
  BY DEF WakeAndYield
<1> HIDE DEF m, l
<1>3. ASSUME l = k PROVE Slices(k, l, t)
  BY <1>3 DEF Slices
<1>4. ASSUME ~IsEmpty(k.event[list]), l = m PROVE Slices(k, l, t)
  BY <1>1, <1>4 DEF Turns, InTurn, NoneBefore, Slices
<1>5. ASSUME ~IsEmpty(k.event[list]), l = vTaskSwitchContext(m) PROVE Slices(k, l, t)
  BY <1>1, <1>5, SwitchTurns, SlicesOn DEF Turns
<1> QED BY <1>2, <1>3, <1>4, <1>5 DEF l

\* The same from an interrupt, which never switches.
LEMMA WakeISRTurns ==
    ASSUME NEW k, KernelOK(k), Asleep(k), NEW list \in {ToSend, ToReceive}, NEW lock
    PROVE  Turns(k, WakeFromISR(k, list, lock))
<1>1. Turns(k, k)
  BY TurnsAlike
<1> QED BY <1>1, WokenTurns DEF WakeFromISR

\* prvUnlockQueue, round by round.
LEMMA OneTurns ==
    ASSUME NEW k, KernelOK(k), Asleep(k), NEW list \in {ToSend, ToReceive}
    PROVE  Turns(k, WakeOne(k, list))
<1> DEFINE m == xTaskRemoveFromEventList(k, list).kernel
           l == WakeOne(k, list)
<1>1. CASE IsEmpty(k.event[list])
  BY <1>1, TurnsAlike DEF WakeOne
<1>2. CASE ~IsEmpty(k.event[list])
  <2>1. KernelOK(m) /\ Turns(k, m)
    BY <1>2, FirstWoken, WokenTurns
  <2>2. l = m \/ l = [m EXCEPT !.yieldPending = TRUE]
    BY <1>2 DEF WakeOne, vTaskMissedYield
  <2> HIDE DEF m, l
  <2>3. l.ready = m.ready /\ l.tcb = m.tcb
    BY <2>1, <2>2 DEF KernelOK, KernelShape, KernelFields, Over
  <2>4. Turns(m, l)
    BY <2>3, TurnsAlike DEF Prio
  <2> QED BY <2>1, <2>4, TurnsOn DEF l
<1> QED BY <1>1, <1>2

LEMMA WaitingTurns ==
    ASSUME NEW k, KernelOK(k), Asleep(k), NEW list \in {ToSend, ToReceive}, NEW moved \in Int
    PROVE  Turns(k, WakeWaiting(k, list, moved))
<1> DEFINE last == Max2(moved, 0)
           IsLoop(f) == f = [n \in 0 .. last |-> IF n = 0 THEN k ELSE WakeOne(f[n - 1], list)]
           after == CHOOSE f : IsLoop(f)
           Good(m) == KernelOK(m) /\ Asleep(m) /\ Turns(k, m)
<1>1. WakeWaiting(k, list, moved) = after[last]
  BY DEF WakeWaiting
<1>2. last \in Nat
  BY DEF Max2
<1> HIDE DEF last
<1>3. IsLoop(after)
  BY <1>2, WakeLoop
<1> HIDE DEF after
<1>4. Good(k)
  BY TurnsAlike
<1>5. ASSUME NEW m, Good(m) PROVE Good(WakeOne(m, list))
  BY <1>5, OneWoken, OneTurns, AsleepOn, TurnsOn
<1> HIDE DEF Good
<1> DEFINE T == {m \in Nat : m <= last => Good(after[m])}
<1>6. 0 \in T
  BY <1>2, <1>3, <1>4
<1>7. ASSUME NEW m \in T PROVE m + 1 \in T
  <2>1. CASE m + 1 <= last
    <3>1. after[m + 1] = WakeOne(after[m], list)
      BY <1>2, <1>3, <2>1
    <3>2. Good(after[m])
      BY <1>2, <2>1
    <3> QED BY <1>5, <3>1, <3>2
  <2> QED BY <1>2, <2>1
<1>8. T = Nat
  BY <1>6, <1>7, Rounds
<1>9. Good(after[last])
  BY <1>2, <1>8
<1> QED BY <1>1, <1>9 DEF Good

-----------------------------------------------------------------------------
(* Notifications. *)

\* eNotifyValue of a control block.
States == {eNotWaiting, eWaiting, eNotified}

\* Every task keeps its priority, and all but t the state of their notifications.
StatesBut(k, l, t) ==
    \A u \in Tasks : /\ Prio(l, u) = Prio(k, u)
                     /\ u # t => l.tcb[u].state = k.tcb[u].state /\ l.tcb[u].value = k.tcb[u].value

\* What else a notification leaves as it is.
SameClock(k, l) ==
    /\ l.tick = k.tick /\ l.overflows = k.overflows /\ l.pended = k.pended
    /\ l.suspended = k.suspended

\* Writing the state and the value of a notification moves no task.
LEMMA NotificationSet ==
    ASSUME NEW k, KernelOK(k), NEW t \in Tasks, NEW state \in States, NEW value \in Nat
    PROVE  LET l == Marked(k, t, state, value)
           IN  /\ KernelOK(l) /\ Stays(k, l) /\ SameClock(k, l) /\ StatesBut(k, l, t)
               /\ l.current = k.current /\ l.yieldPending = k.yieldPending
               /\ l.tcb[t].state = state /\ l.tcb[t].value = value
               /\ \A u \in Tasks : u # t => l.tcb[u] = k.tcb[u]
<1> DEFINE l == Marked(k, t, state, value)
           tcb == [k.tcb EXCEPT ![t] = [@ EXCEPT !.state = state, !.value = value]]
<1>1. KernelShape(k) /\ Choice(k) /\ Sound(k) /\ k.tcb \in [Tasks -> TCBs]
  BY DEF KernelOK, Sound, KernelShape
<1>2. l.tcb = tcb
  BY <1>1 DEF Marked, KernelShape, KernelFields, Over, TCBs
<1>3. /\ Over(l, KernelFields) /\ l.current = k.current /\ l.top = k.top /\ l.tick = k.tick
      /\ l.next = k.next /\ l.pended = k.pended /\ l.suspended = k.suspended
      /\ l.overflows = k.overflows
      /\ l.yieldPending = k.yieldPending
      /\ l.ready = k.ready /\ l.delayed = k.delayed /\ l.overflow = k.overflow
      /\ l.termination = k.termination /\ l.event = k.event
  BY <1>1 DEF Marked, KernelShape, KernelFields, Over
<1> HIDE DEF l
<1>4. /\ tcb \in [Tasks -> TCBs] /\ tcb[t].state = state /\ tcb[t].value = value
      /\ tcb[t].uxPriority = k.tcb[t].uxPriority
      /\ \A u \in Tasks : u # t => tcb[u] = k.tcb[u]
  BY <1>1 DEF TCBs, States
<1> HIDE DEF tcb
<1>5. KernelShape(l) /\ StatesBut(k, l, t) /\ SameClock(k, l)
  BY <1>1, <1>2, <1>3, <1>4 DEF KernelShape, StatesBut, SameClock, Prio
<1>6. Sound(l) /\ Stays(k, l)
  BY <1>1, <1>3, <1>5, ListsKept DEF Stays, StatesBut
<1>7. Choice(l)
  BY <1>1, <1>3, <1>5, <1>6, KernelAssumption DEF Choice, StatesBut, Stays
<1> QED BY <1>2, <1>3, <1>4, <1>5, <1>6, <1>7 DEF KernelOK, Sound, l

\* The same for the state that a notification sets.
LEMMA NotifiedSet ==
    ASSUME NEW k, KernelOK(k), NEW t \in Tasks, NEW value \in Nat
    PROVE  LET l == Notified(k, t, value)
           IN  /\ KernelOK(l) /\ Stays(k, l) /\ SameClock(k, l) /\ StatesBut(k, l, t)
               /\ l.current = k.current /\ l.yieldPending = k.yieldPending
               /\ l.tcb[t].state = eNotified /\ l.tcb[t].value = value
               /\ \A u \in Tasks : u # t => l.tcb[u] = k.tcb[u]
<1>1. eNotified \in States
  BY DEF States
<1>2. Notified(k, t, value) = Marked(k, t, eNotified, value)
  BY DEF Notified, Marked
<1> QED BY <1>1, <1>2, NotificationSet

\* The first critical section of ulTaskNotifyTake and xTaskNotifyWait.
LEMMA Awaited ==
    ASSUME NEW k, KernelOK(k), k.current # IdleTask, k.suspended = 0,
           NEW satisfied \in BOOLEAN, NEW cleared \in Nat, NEW ticks \in Ticks
    PROVE  LET l == AwaitNotification(k, satisfied, cleared, ticks)
           IN  /\ KernelOK(l) /\ SameClock(k, l) /\ StatesBut(k, l, k.current) /\ Prompt(k, l)
               /\ l.current = k.current \/ Home(l, l.current) = "ready"
               /\ \/ Home(l, k.current) = Home(k, k.current)
                  \/ /\ Home(l, k.current) \in Blocked /\ Home(l, l.current) = "ready" /\ ~satisfied
                     /\ l.tcb[k.current].state = eWaiting /\ l.tcb[k.current].value = cleared
               /\ \A u \in Tasks : /\ u # k.current => Home(l, u) = Home(k, u)
                                   /\ Event(l, u) = Event(k, u)
<1> DEFINE t == k.current
           waiting == [k EXCEPT !.tcb[t].state = eWaiting, !.tcb[t].value = cleared]
           asleep == BlockFor(waiting, ticks)
           l == AwaitNotification(k, satisfied, cleared, ticks)
<1>1. t \in Tasks /\ eWaiting \in States
  BY DEF KernelOK, KernelShape, States
<1>2. /\ KernelOK(waiting) /\ Stays(k, waiting) /\ SameClock(k, waiting) /\ StatesBut(k, waiting, t)
      /\ waiting.current = t /\ waiting.yieldPending = k.yieldPending
      /\ waiting.tcb[t].state = eWaiting /\ waiting.tcb[t].value = cleared
  <2>1. waiting = Marked(k, t, eWaiting, cleared)
    BY DEF Marked
  <2> HIDE DEF waiting
  <2> QED BY <1>1, <2>1, NotificationSet
<1>3. l = k \/ l = waiting \/ (l = vTaskSwitchContext(asleep) /\ ~satisfied)
  BY DEF AwaitNotification
<1> HIDE DEF waiting
<1>4. /\ KernelOK(asleep) /\ SameRest(waiting, asleep)
      /\ \A u \in Tasks :
            /\ IF u = t THEN Home(asleep, u) \in Blocked ELSE Home(asleep, u) = Home(waiting, u)
            /\ Event(asleep, u) = Event(waiting, u)
  BY <1>2, SleptFor
<1> HIDE DEF asleep, l
<1>5. CASE l = k
  BY <1>5 DEF SameClock, StatesBut, Prompt, l
<1>6. CASE l = waiting
  <2>1. Prompt(k, waiting)
    BY <1>1, <1>2, PromptKept DEF Stays, StatesBut
  <2> QED BY <1>1, <1>2, <1>6, <2>1 DEF Stays, l
<1>7. CASE l = vTaskSwitchContext(asleep) /\ ~satisfied
  <2>1. /\ KernelOK(l) /\ SameData(asleep, l)
        /\ \A u \in Tasks : Home(l, u) = Home(asleep, u) /\ Event(l, u) = Event(asleep, u)
        /\ IF asleep.suspended # 0 THEN l.current = asleep.current ELSE Home(l, l.current) = "ready"
        /\ Prompt(k, l)
    BY <1>4, <1>7, Switched DEF Prompt
  <2>2. asleep.suspended = 0
    BY <1>2, <1>4 DEF SameRest, SameData, SameClock
  <2>3. SameClock(k, l) /\ StatesBut(k, l, t)
    BY <1>2, <1>4, <2>1 DEF SameRest, SameData, SameClock, StatesBut
  <2>4. l.tcb[t].state = eWaiting /\ l.tcb[t].value = cleared
    BY <1>1, <1>2, <1>4, <2>1 DEF SameRest, SameData
  <2> QED BY <1>1, <1>2, <1>4, <1>7, <2>1, <2>2, <2>3, <2>4 DEF Stays, l
<1> QED BY <1>3, <1>5, <1>6, <1>7

\* A task is woken by a notification: it is ready at once.
LEMMA NotifiedReadied ==
    ASSUME NEW k, KernelOK(k), NEW t \in Tasks, NEW value \in Nat
    PROVE  LET l == prvAddTaskToReadyList(RemoveGeneric(Notified(k, t, value), t), t)
           IN  /\ KernelOK(l) /\ SameClock(k, l) /\ StatesBut(k, l, t)
               /\ l.current = k.current /\ l.yieldPending = k.yieldPending /\ l.tcb[t].state = eNotified
               /\ \A u \in Tasks : /\ Home(l, u) = IF u = t THEN "ready" ELSE Home(k, u)
                                   /\ Event(l, u) = Event(k, u)
<1> DEFINE a == Notified(k, t, value)
           b == RemoveGeneric(a, t)
           l == prvAddTaskToReadyList(b, t)
<1>1. /\ KernelOK(a) /\ Stays(k, a) /\ SameClock(k, a) /\ StatesBut(k, a, t)
      /\ a.current = k.current /\ a.yieldPending = k.yieldPending /\ a.tcb[t].state = eNotified
  BY NotifiedSet
<1> HIDE DEF a
<1>2. Sound(a) /\ Choice(a) /\ a.top \in Priorities /\ Prio(a, t) \in Priorities
  BY <1>1 DEF KernelOK, Sound, KernelShape, TCBs, Prio
<1>3. /\ Sound(b) /\ SameRest(a, b) /\ b.top = a.top
      /\ \A u \in Tasks : /\ Home(b, u) = IF u = t THEN "nowhere" ELSE Home(a, u)
                          /\ Event(b, u) = Event(a, u)
  BY <1>2, GenericRemoved
<1> HIDE DEF b
<1>4. /\ Sound(l) /\ SameRest(b, l) /\ l.top = Max2(b.top, Prio(b, t))
      /\ \A u \in Tasks : /\ Home(l, u) = IF u = t THEN "ready" ELSE Home(b, u)
                          /\ Event(l, u) = Event(b, u)
  BY <1>3, ReadyAdded
<1> HIDE DEF l
<1>5. SameRest(a, l)
  BY <1>3, <1>4 DEF SameRest, SameData
<1>6. \A u \in Tasks : /\ Home(l, u) = IF u = t THEN "ready" ELSE Home(a, u)
                       /\ Event(l, u) = Event(a, u)
  BY <1>3, <1>4
<1>7. Choice(l)
  <2>1. \A u \in Tasks : Prio(a, u) \in Priorities /\ Prio(l, u) = Prio(a, u)
    BY <1>1, <1>5 DEF SameRest, SameData, KernelOK, KernelShape, TCBs, Prio
  <2>2. l.top = Max2(a.top, Prio(a, t))
    BY <1>3, <1>4 DEF SameRest, SameData
  <2> QED BY <1>2, <1>6, <2>1, <2>2, KernelAssumption DEF Choice, Max2, Priorities
<1> QED BY <1>1, <1>4, <1>5, <1>6, <1>7
        DEF KernelOK, Sound, SameRest, SameData, SameClock, StatesBut, Stays, l, b, a

\* xTaskGenericNotify.
LEMMA TaskNotified ==
    ASSUME NEW k, KernelOK(k), NEW t \in Tasks, NEW value \in Nat
    PROVE  LET l == xTaskGenericNotify(k, t, value)
           IN  /\ KernelOK(l) /\ SameClock(k, l) /\ StatesBut(k, l, t)
               /\ l.current = k.current \/ (k.suspended = 0 /\ Home(l, l.current) = "ready")
               /\ l.tcb[t].state = eNotified /\ Prompt(k, l)
               /\ \A u \in Tasks :
                    /\ Home(l, u) = IF u = t /\ k.tcb[t].state = eWaiting THEN "ready" ELSE Home(k, u)
                    /\ Event(l, u) = Event(k, u)
<1> DEFINE a == Notified(k, t, value)
           m == prvAddTaskToReadyList(RemoveGeneric(a, t), t)
           l == xTaskGenericNotify(k, t, value)
<1>1. /\ KernelOK(a) /\ Stays(k, a) /\ SameClock(k, a) /\ StatesBut(k, a, t)
      /\ a.current = k.current /\ a.yieldPending = k.yieldPending /\ a.tcb[t].state = eNotified
  BY NotifiedSet
<1>2. /\ KernelOK(m) /\ SameClock(k, m) /\ StatesBut(k, m, t)
      /\ m.current = k.current /\ m.yieldPending = k.yieldPending /\ m.tcb[t].state = eNotified
      /\ \A u \in Tasks : /\ Home(m, u) = IF u = t THEN "ready" ELSE Home(k, u)
                          /\ Event(m, u) = Event(k, u)
  BY NotifiedReadied
<1>3. \/ k.tcb[t].state # eWaiting /\ l = a
      \/ /\ k.tcb[t].state = eWaiting
         /\ (l = m /\ ~(Prio(k, t) > Prio(k, k.current))) \/ l = vTaskSwitchContext(m)
  BY DEF xTaskGenericNotify
<1> HIDE DEF a, m, l
<1>4. CASE k.tcb[t].state # eWaiting /\ l = a
  <2>1. Prompt(k, a)
    BY <1>1, PromptKept DEF KernelOK, KernelShape, Stays, StatesBut
  <2> QED BY <1>1, <1>4, <2>1 DEF Stays, l
<1>5. CASE k.tcb[t].state = eWaiting /\ l = m /\ ~(Prio(k, t) > Prio(k, k.current))
  <2>1. Prompt(k, m)
    BY <1>2, <1>5 DEF KernelOK, KernelShape, StatesBut, Prompt, Overlooked, Above
  <2> QED BY <1>2, <1>5, <2>1 DEF l
<1>6. CASE k.tcb[t].state = eWaiting /\ l = vTaskSwitchContext(m)
  <2>1. /\ KernelOK(l) /\ SameData(m, l)
        /\ \A u \in Tasks : Home(l, u) = Home(m, u) /\ Event(l, u) = Event(m, u)
        /\ IF m.suspended # 0 THEN l.current = m.current ELSE Home(l, l.current) = "ready"
        /\ Prompt(k, l)
    BY <1>2, <1>6, Switched DEF Prompt
  <2>2. SameClock(k, l) /\ StatesBut(k, l, t) /\ l.tcb[t].state = eNotified /\ m.suspended = k.suspended
    BY <1>2, <2>1 DEF SameData, SameClock, StatesBut
  <2> QED BY <1>2, <1>6, <2>1, <2>2 DEF l
<1> QED BY <1>3, <1>4, <1>5, <1>6

\* xTaskGenericNotifyFromISR, for a task that waits for no event.
LEMMA NotifiedFromISR ==
    ASSUME NEW k, KernelOK(k), NEW t \in Tasks, NEW value \in Nat,
           k.tcb[t].state = eWaiting => Event(k, t) = "none"
    PROVE  LET l == xTaskGenericNotifyFromISR(k, t, value)
           IN  /\ KernelOK(l) /\ SameClock(k, l) /\ StatesBut(k, l, t) /\ l.current = k.current
               /\ l.yieldPending = k.yieldPending /\ l.tcb[t].state = eNotified
               /\ \A u \in Tasks :
                    /\ Home(l, u) = IF u = t /\ k.tcb[t].state = eWaiting /\ k.suspended = 0
                                    THEN "ready" ELSE Home(k, u)
                    /\ Event(l, u) = IF u = t /\ k.tcb[t].state = eWaiting /\ k.suspended # 0
                                     THEN "xPendingReadyList" ELSE Event(k, u)
<1> DEFINE a == Notified(k, t, value)
           m == prvAddTaskToReadyList(RemoveGeneric(a, t), t)
           x == vListInsertEnd(a.event["xPendingReadyList"], t)
           p == [a EXCEPT !.event["xPendingReadyList"] = x]
           l == xTaskGenericNotifyFromISR(k, t, value)
<1>1. /\ KernelOK(a) /\ Stays(k, a) /\ SameClock(k, a) /\ StatesBut(k, a, t)
      /\ a.current = k.current /\ a.yieldPending = k.yieldPending /\ a.tcb[t].state = eNotified
  BY NotifiedSet
<1>2. /\ KernelOK(m) /\ SameClock(k, m) /\ StatesBut(k, m, t)
      /\ m.current = k.current /\ m.yieldPending = k.yieldPending /\ m.tcb[t].state = eNotified
      /\ \A u \in Tasks : /\ Home(m, u) = IF u = t THEN "ready" ELSE Home(k, u)
                          /\ Event(m, u) = Event(k, u)
  BY NotifiedReadied
<1>3. \/ k.tcb[t].state # eWaiting /\ l = a
      \/ k.tcb[t].state = eWaiting /\ k.suspended = 0 /\ l = m
      \/ k.tcb[t].state = eWaiting /\ k.suspended # 0 /\ l = p
  BY DEF xTaskGenericNotifyFromISR
<1> HIDE DEF a, m, l
<1>4. CASE k.tcb[t].state # eWaiting /\ l = a
  BY <1>1, <1>4 DEF Stays, l
<1>5. CASE k.tcb[t].state = eWaiting /\ k.suspended = 0 /\ l = m
  BY <1>2, <1>5 DEF l
<1>6. CASE k.tcb[t].state = eWaiting /\ k.suspended # 0 /\ l = p
  <2>1. Sound(a) /\ Choice(a) /\ Event(a, t) = "none" /\ "xPendingReadyList" \in EventLists
    BY <1>1, <1>6 DEF KernelOK, Sound, Stays, EventLists
  <2>2. Gains(x, a.event["xPendingReadyList"], t)
    BY <2>1, InsertGains DEF Sound, KernelLists, Places
  <2> HIDE DEF x
  <2>3. /\ Sound(p) /\ SameRest(a, p) /\ p.top = a.top
        /\ \A u \in Tasks : /\ Home(p, u) = Home(a, u)
                            /\ Event(p, u) = IF u = t THEN "xPendingReadyList" ELSE Event(a, u)
    BY <2>1, <2>2, EventJoined
  <2> HIDE DEF p
  <2>4. KernelOK(p)
    BY <2>1, <2>3, KernelAssumption DEF KernelOK, Sound, Choice, SameRest, SameData
  <2>5. /\ SameClock(k, p) /\ StatesBut(k, p, t) /\ p.current = k.current
        /\ p.yieldPending = k.yieldPending /\ p.tcb[t].state = eNotified
    BY <1>1, <2>3 DEF SameRest, SameData, SameClock, StatesBut
  <2> QED BY <1>1, <1>6, <2>3, <2>4, <2>5 DEF Stays, l
<1> QED BY <1>3, <1>4, <1>5, <1>6

\* The second critical section of ulTaskNotifyTake and xTaskNotifyWait.
LEMMA NotificationEnded ==
    ASSUME NEW k, KernelOK(k), NEW left \in Nat
    PROVE  LET l == EndNotification(k, left)
           IN  /\ KernelOK(l) /\ Stays(k, l) /\ SameClock(k, l) /\ StatesBut(k, l, k.current)
               /\ l.current = k.current /\ l.yieldPending = k.yieldPending
               /\ l.tcb[k.current].state = eNotWaiting
<1>1. k.current \in Tasks /\ eNotWaiting \in States
  BY DEF KernelOK, KernelShape, States
<1>2. EndNotification(k, left) = Marked(k, k.current, eNotWaiting, left)
  BY DEF EndNotification, Marked
<1> QED BY <1>1, <1>2, NotificationSet

-----------------------------------------------------------------------------
(* Tasks that come and go. *)

\* The critical section of xTaskGenericCreate, for a task that is in no list.
LEMMA TaskAdded ==
    ASSUME NEW k, Sound(k), NEW t \in Tasks, Home(k, t) = "nowhere", NEW prio \in Priorities
    PROVE  LET l == AddTask(k, t, prio)
           IN  /\ Sound(l) /\ SameClock(k, l) /\ l.current = k.current /\ l.yieldPending = k.yieldPending
               /\ l.top = Max2(k.top, prio) /\ Prio(l, t) = prio /\ l.tcb[t].state = eNotWaiting
               /\ \A u \in Tasks : /\ Home(l, u) = IF u = t THEN "ready" ELSE Home(k, u)
                                   /\ Event(l, u) = Event(k, u)
                                   /\ u # t => /\ Prio(l, u) = Prio(k, u)
                                               /\ l.tcb[u].state = k.tcb[u].state
                                               /\ l.tcb[u].value = k.tcb[u].value
<1> DEFINE m == [k EXCEPT !.number = @ + 1, !.tcb[t] = NewTCB(prio)]
           l == AddTask(k, t, prio)
           tcb == [k.tcb EXCEPT ![t] = NewTCB(prio)]
<1>1. KernelShape(k) /\ KernelLists(k) /\ Placed(k, HomeOf(k), EventOf(k))
  BY PlacesOf DEF Sound
<1>2. m.tcb = tcb /\ l = prvAddTaskToReadyList(m, t)
  BY <1>1 DEF KernelShape, KernelFields, Over, AddTask
<1>3. /\ Over(m, KernelFields) /\ m.current = k.current /\ m.top = k.top /\ m.tick = k.tick
      /\ m.next = k.next /\ m.pended = k.pended /\ m.suspended = k.suspended
      /\ m.overflows = k.overflows /\ m.yieldPending = k.yieldPending
      /\ m.ready = k.ready /\ m.delayed = k.delayed /\ m.overflow = k.overflow
      /\ m.termination = k.termination /\ m.event = k.event
  BY <1>1 DEF KernelShape, KernelFields, Over
<1> HIDE DEF m, l
<1>4. /\ tcb \in [Tasks -> TCBs] /\ tcb[t].uxPriority = prio /\ tcb[t].state = eNotWaiting
      /\ \A u \in Tasks : u # t => tcb[u] = k.tcb[u]
  BY <1>1, TimeAssumption DEF KernelShape, TCBs, NewTCB, Ticks
<1> HIDE DEF tcb
<1>5. /\ KernelShape(m) /\ Prio(m, t) = prio /\ m.tcb[t].state = eNotWaiting
      /\ \A u \in Tasks : u # t => /\ Prio(m, u) = Prio(k, u)
                                   /\ m.tcb[u].state = k.tcb[u].state /\ m.tcb[u].value = k.tcb[u].value
  BY <1>1, <1>2, <1>3, <1>4 DEF KernelShape, Prio
<1>6. KernelLists(m)
  BY <1>1, <1>3 DEF KernelLists
<1>7. Placed(m, HomeOf(k), EventOf(k))
  <2> DEFINE h == HomeOf(k)
             e == EventOf(k)
  <2>1. \A u \in Tasks : \A p \in Priorities :
            Holds(k.ready[p], u) <=> h[u] = "ready" /\ p = Prio(m, u)
    BY <1>1, <1>5 DEF Placed, HomeOf
  <2> HIDE DEF h, e
  <2>2. \A u \in Tasks :
            /\ h[u] \in Homes \cup {"nowhere"} /\ e[u] \in EventLists \cup {"none"}
            /\ Holds(k.delayed, u) <=> h[u] = "delayed"
            /\ Holds(k.overflow, u) <=> h[u] = "overflow"
            /\ Holds(k.termination, u) <=> h[u] = "termination"
            /\ \A list \in EventLists : Holds(k.event[list], u) <=> e[u] = list
    BY <1>1 DEF Placed, h, e
  <2>3. Placed(m, h, e)
    BY <1>3, <2>1, <2>2 DEF Placed
  <2> QED BY <2>3 DEF h, e
<1>8. Sound(m) /\ \A u \in Tasks : Home(m, u) = Home(k, u) /\ Event(m, u) = Event(k, u)
  BY <1>5, <1>6, <1>7, PlacesAre DEF HomeOf, EventOf
<1>9. /\ Sound(l) /\ SameRest(m, l) /\ l.top = Max2(m.top, Prio(m, t))
      /\ \A u \in Tasks : /\ Home(l, u) = IF u = t THEN "ready" ELSE Home(m, u)
                          /\ Event(l, u) = Event(m, u)
  BY <1>2, <1>8, ReadyAdded
<1> QED BY <1>3, <1>5, <1>8, <1>9 DEF SameRest, SameData, SameClock, l

\* The same while the scheduler runs.
LEMMA TaskCreated ==
    ASSUME NEW k, KernelOK(k), NEW t \in Tasks, Home(k, t) = "nowhere", NEW prio \in Priorities
    PROVE  LET l == AddTask(k, t, prio)
           IN  /\ KernelOK(l) /\ SameClock(k, l) /\ l.current = k.current /\ l.yieldPending = k.yieldPending
               /\ Prio(l, t) = prio /\ l.tcb[t].state = eNotWaiting
               /\ \A u \in Tasks : /\ Home(l, u) = IF u = t THEN "ready" ELSE Home(k, u)
                                   /\ Event(l, u) = Event(k, u)
                                   /\ u # t => /\ Prio(l, u) = Prio(k, u)
                                               /\ l.tcb[u].state = k.tcb[u].state
                                               /\ l.tcb[u].value = k.tcb[u].value
<1> DEFINE l == AddTask(k, t, prio)
<1>1. Sound(k) /\ Choice(k) /\ k.top \in Priorities /\ t # IdleTask
  BY DEF KernelOK, Sound, Choice, KernelShape
<1>2. /\ Sound(l) /\ SameClock(k, l) /\ l.current = k.current /\ l.yieldPending = k.yieldPending
      /\ l.top = Max2(k.top, prio) /\ Prio(l, t) = prio /\ l.tcb[t].state = eNotWaiting
      /\ \A u \in Tasks : /\ Home(l, u) = IF u = t THEN "ready" ELSE Home(k, u)
                          /\ Event(l, u) = Event(k, u)
                          /\ u # t => /\ Prio(l, u) = Prio(k, u)
                                      /\ l.tcb[u].state = k.tcb[u].state
                                      /\ l.tcb[u].value = k.tcb[u].value
  BY <1>1, TaskAdded
<1> HIDE DEF l
<1>3. \A u \in Tasks : Prio(k, u) \in Priorities
  BY <1>1 DEF Sound, KernelShape, TCBs, Prio
<1>4. Choice(l)
  BY <1>1, <1>2, <1>3, KernelAssumption DEF Choice, Max2, Priorities
<1> QED BY <1>2, <1>4 DEF KernelOK, Sound, l

\* The first critical section of vTaskDelete.
LEMMA Terminated ==
    ASSUME NEW k, KernelOK(k), NEW t \in Tasks \ {IdleTask}
    PROVE  LET l == Terminate(k, t)
           IN  /\ KernelOK(l) /\ SameRest(k, l)
               /\ \A u \in Tasks : /\ Home(l, u) = IF u = t THEN "termination" ELSE Home(k, u)
                                   /\ Event(l, u) = IF u = t THEN "none" ELSE Event(k, u)
<1> DEFINE a == RemoveGeneric(k, t)
           b == RemoveEvent(a, t)
           x == vListInsertEnd(b.termination, t)
           l == Terminate(k, t)
<1>1. Sound(k) /\ Choice(k)
  BY DEF KernelOK, Sound
<1>2. /\ Sound(a) /\ SameRest(k, a) /\ a.top = k.top
      /\ \A u \in Tasks : /\ Home(a, u) = IF u = t THEN "nowhere" ELSE Home(k, u)
                          /\ Event(a, u) = Event(k, u)
  BY <1>1, GenericRemoved
<1> HIDE DEF a
<1>3. /\ Sound(b) /\ SameRest(a, b) /\ b.top = a.top
      /\ \A u \in Tasks : /\ Home(b, u) = Home(a, u)
                          /\ Event(b, u) = IF u = t THEN "none" ELSE Event(a, u)
  BY <1>2, EventRemoved
<1>4. l = [b EXCEPT !.termination = x, !.deleted = @ + 1]
  BY DEF Terminate, a
<1> HIDE DEF b, l
<1>5. KernelShape(b) /\ KernelLists(b) /\ Home(b, t) = "nowhere" /\ ~Holds(b.termination, t)
  BY <1>2, <1>3 DEF Sound, Places
<1>6. Gains(x, b.termination, t)
  BY <1>5, InsertGains DEF KernelLists
<1> HIDE DEF x
<1>7. /\ Over(l, KernelFields) /\ l.current = b.current /\ l.top = b.top /\ l.tick = b.tick
      /\ l.next = b.next /\ l.pended = b.pended /\ l.suspended = b.suspended
      /\ l.overflows = b.overflows /\ l.yieldPending = b.yieldPending /\ l.tcb = b.tcb
      /\ l.ready = b.ready /\ l.delayed = b.delayed /\ l.overflow = b.overflow
      /\ l.termination = x /\ l.event = b.event
  BY <1>4, <1>5 DEF KernelShape, KernelFields, Over
<1>8. KernelShape(l) /\ \A u \in Tasks : Prio(l, u) = Prio(b, u)
  BY <1>5, <1>7 DEF KernelShape, Prio
<1>9. "termination" \in Homes /\ Over(l.ready, Priorities)
  BY <1>5, <1>7 DEF Homes, KernelLists
<1>10. /\ Sound(l)
       /\ \A u \in Tasks : /\ Home(l, u) = IF u = t THEN "termination" ELSE Home(b, u)
                           /\ Event(l, u) = Event(b, u)
  BY <1>3, <1>5, <1>6, <1>7, <1>8, <1>9, Joined
<1>11. SameRest(k, l)
  BY <1>2, <1>3, <1>7, <1>8 DEF SameRest, SameData
<1>12. Choice(l)
  BY <1>1, <1>2, <1>3, <1>7, <1>10, <1>11, KernelAssumption DEF Choice, SameRest, SameData
<1> QED BY <1>2, <1>3, <1>10, <1>11, <1>12 DEF KernelOK, Sound, l

\* The critical section of prvCheckTasksWaitingTermination.
LEMMA TaskReclaimed ==
    ASSUME NEW k, KernelOK(k), NEW v \in Tasks, Home(k, v) = "termination"
    PROVE  LET l == Reclaim(k)
               dead == HeadEntry(k.termination)
           IN  /\ KernelOK(l) /\ SameRest(k, l)
               /\ dead \in Tasks /\ Home(k, dead) = "termination"
               /\ \A u \in Tasks : /\ Home(l, u) = IF u = dead THEN "nowhere" ELSE Home(k, u)
                                   /\ Event(l, u) = Event(k, u)
<1> DEFINE t == HeadEntry(k.termination)
           a == RemoveGeneric(k, t)
           l == Reclaim(k)
<1>1. Sound(k) /\ Choice(k)
  BY DEF KernelOK, Sound
<1>2. ListTypeOK(k.termination) /\ Holds(k.termination, v)
  BY <1>1 DEF Sound, KernelLists, Places
<1>3. t \in Tasks /\ Holds(k.termination, t)
  BY <1>2, HeadIsHeld, EmptyOrNot
<1>4. Home(k, t) = "termination"
  BY <1>1, <1>3 DEF Sound, Places
<1> HIDE DEF t
<1>5. /\ Sound(a) /\ SameRest(k, a) /\ a.top = k.top
      /\ \A u \in Tasks : /\ Home(a, u) = IF u = t THEN "nowhere" ELSE Home(k, u)
                          /\ Event(a, u) = Event(k, u)
  BY <1>1, <1>3, GenericRemoved
<1>6. l = [a EXCEPT !.number = @ - 1, !.deleted = @ - 1]
  BY DEF Reclaim, t
<1> HIDE DEF a, l
<1>7. /\ Over(l, KernelFields) /\ l.current = a.current /\ l.top = a.top /\ l.tick = a.tick
      /\ l.next = a.next /\ l.pended = a.pended /\ l.suspended = a.suspended
      /\ l.overflows = a.overflows /\ l.yieldPending = a.yieldPending /\ l.tcb = a.tcb
      /\ l.ready = a.ready /\ l.delayed = a.delayed /\ l.overflow = a.overflow
      /\ l.termination = a.termination /\ l.event = a.event
  BY <1>5, <1>6 DEF Sound, KernelShape, KernelFields, Over
<1>8. KernelShape(l) /\ \A u \in Tasks : Prio(l, u) = Prio(a, u)
  BY <1>5, <1>7 DEF Sound, KernelShape, Prio
<1>9. Sound(l) /\ \A u \in Tasks : Home(l, u) = Home(a, u) /\ Event(l, u) = Event(a, u)
  BY <1>5, <1>7, <1>8, ListsKept
<1>10. SameRest(k, l)
  BY <1>5, <1>7, <1>8 DEF SameRest, SameData
<1>11. Choice(l)
  BY <1>1, <1>4, <1>5, <1>7, <1>9, <1>10, KernelAssumption DEF Choice, SameRest, SameData
<1> QED BY <1>3, <1>4, <1>5, <1>9, <1>10, <1>11 DEF KernelOK, Sound, l, t

-----------------------------------------------------------------------------
(* Turns, where tasks are notified, come and go. *)

\* The first critical section of ulTaskNotifyTake and of xTaskNotifyWait.
LEMMA AwaitSlices ==
    ASSUME NEW k, KernelOK(k), k.current # IdleTask, k.suspended = 0,
           NEW satisfied \in BOOLEAN, NEW cleared \in Nat, NEW ticks \in Ticks, NEW t \in Tasks
    PROVE  Slices(k, AwaitNotification(k, satisfied, cleared, ticks), t)
<1> DEFINE waiting == [k EXCEPT !.tcb[k.current].state = eWaiting, !.tcb[k.current].value = cleared]
           wake == Stored(waiting.tick + ticks)
           slept == BlockUntil(waiting, wake)
           l == AwaitNotification(k, satisfied, cleared, ticks)
<1>1. k.current \in Tasks /\ KernelShape(k)
  BY DEF KernelOK, KernelShape
<1>2. waiting = Marked(k, k.current, eWaiting, cleared)
  BY DEF Marked
<1>3. l = IF satisfied THEN k ELSE IF ticks = 0 THEN waiting ELSE vTaskSwitchContext(slept)
  BY DEF AwaitNotification, BlockFor
<1> HIDE DEF waiting, l
<1>4. /\ KernelOK(waiting) /\ waiting.current = k.current
      /\ \A u \in Tasks : Prio(waiting, u) = Prio(k, u) /\ Home(waiting, u) = Home(k, u)
  <2>1. eWaiting \in States
    BY DEF States
  <2> QED BY <1>1, <1>2, <2>1, NotificationSet DEF StatesBut, Stays
<1>5. waiting.ready = k.ready
  BY <1>1, <1>2 DEF Marked, KernelShape, KernelFields, Over
<1>6. Turns(k, waiting) /\ \A u \in Tasks : NoneBefore(k, waiting, u)
  BY <1>4, <1>5, TurnsAlike
<1>7. ASSUME l = k PROVE Slices(k, l, t)
  BY <1>7 DEF Slices
<1>8. ASSUME l = waiting PROVE Slices(k, l, t)
  BY <1>6, <1>8 DEF Slices, NoneBefore
<1>9. ASSUME l = vTaskSwitchContext(slept) PROVE Slices(k, l, t)
  <2>1. wake \in Ticks
    BY <1>4, StoredIsTick DEF KernelOK, KernelShape
  <2> HIDE DEF wake
  <2>2. KernelOK(slept) /\ Home(slept, k.current) \in Blocked
    BY <1>1, <1>4, <2>1, Slept
  <2> HIDE DEF slept
  <2>3. CASE t = k.current
    <3>1. Home(l, t) = Home(slept, t)
      BY <1>9, <2>2, Switched
    <3> QED BY <2>2, <2>3, <3>1 DEF Slices, Blocked
  <2>4. CASE t # k.current
    <3>1. NoneBefore(waiting, slept, t)
      BY <1>4, <2>1, <2>4, SleepTurns DEF slept
    <3>2. t # l.current => NoneBefore(slept, l, t)
      BY <1>9, <2>2, SwitchTurns
    <3> QED BY <1>6, <3>1, <3>2 DEF Slices, NoneBefore
  <2> QED BY <2>3, <2>4
<1> QED BY <1>3, <1>7, <1>8, <1>9 DEF l

\* A task is notified that is not t, nor at the index of its list - or is not ready.
LEMMA NotifiedTurns ==
    ASSUME NEW k, KernelOK(k), NEW u \in Tasks, NEW value \in Nat, NEW t \in Tasks,
           Home(k, u) = "ready" => u \notin {t, First(k, t)}
    PROVE  InTurn(k, prvAddTaskToReadyList(RemoveGeneric(Notified(k, u, value), u), u), t)
<1> DEFINE a == Notified(k, u, value)
           l == prvAddTaskToReadyList(RemoveGeneric(a, u), u)
<1>1. /\ KernelOK(a) /\ \A v \in Tasks : Prio(a, v) = Prio(k, v) /\ Home(a, v) = Home(k, v)
  BY NotifiedSet DEF StatesBut, Stays
<1>2. a.ready = k.ready
  BY DEF Notified, KernelOK, KernelShape, KernelFields, Over
<1> HIDE DEF a
<1>3. Turns(k, a) /\ First(a, t) = First(k, t)
  BY <1>1, <1>2, TurnsAlike DEF First
<1>4. InTurn(a, l, t)
  BY <1>1, <1>3, ReadiedTurns DEF KernelOK, Sound
<1> HIDE DEF l
<1> QED BY <1>3, <1>4 DEF Turns, InTurn, NoneBefore, l, a

\* xTaskGenericNotify, unless t or the task at the index of its list is notified late.
LEMMA NotifySlices ==
    ASSUME NEW k, KernelOK(k), NEW u \in Tasks, NEW value \in Nat, NEW t \in Tasks,
           Home(k, u) = "ready" /\ k.tcb[u].state = eWaiting => u \notin {t, First(k, t)}
    PROVE  Slices(k, xTaskGenericNotify(k, u, value), t)
<1> DEFINE a == Notified(k, u, value)
           m == prvAddTaskToReadyList(RemoveGeneric(a, u), u)
           l == xTaskGenericNotify(k, u, value)
<1>1. /\ KernelOK(a) /\ \A v \in Tasks : Prio(a, v) = Prio(k, v)
  BY NotifiedSet DEF StatesBut
<1>2. a.ready = k.ready
  BY DEF Notified, KernelOK, KernelShape, KernelFields, Over
<1>3. Turns(k, a)
  BY <1>1, <1>2, TurnsAlike
<1>4. KernelOK(m)
  BY NotifiedReadied
<1>5. l = IF k.tcb[u].state # eWaiting THEN a
          ELSE IF Prio(k, u) > Prio(k, k.current) THEN vTaskSwitchContext(m) ELSE m
  BY DEF xTaskGenericNotify
<1>6. k.tcb[u].state = eWaiting => InTurn(k, m, t)
  BY NotifiedTurns
<1> HIDE DEF a, m, l
<1>7. CASE l = a
  BY <1>3, <1>7 DEF Turns, InTurn, NoneBefore, Slices, l
<1>8. CASE l = m /\ k.tcb[u].state = eWaiting
  BY <1>6, <1>8 DEF InTurn, NoneBefore, Slices, l
<1>9. CASE l = vTaskSwitchContext(m) /\ k.tcb[u].state = eWaiting
  BY <1>4, <1>6, <1>9, SwitchTurns, SlicesOn DEF l
<1> QED BY <1>5, <1>7, <1>8, <1>9

\* xTaskGenericNotifyFromISR.
LEMMA NotifyISRSlices ==
    ASSUME NEW k, KernelOK(k), NEW u \in Tasks, NEW value \in Nat, NEW t \in Tasks,
           Home(k, u) = "ready" /\ k.tcb[u].state = eWaiting => u \notin {t, First(k, t)}
    PROVE  Slices(k, xTaskGenericNotifyFromISR(k, u, value), t)
<1> DEFINE a == Notified(k, u, value)
           late == [a EXCEPT !.event["xPendingReadyList"] = vListInsertEnd(@, u)]
           m == prvAddTaskToReadyList(RemoveGeneric(a, u), u)
           l == xTaskGenericNotifyFromISR(k, u, value)
<1>1. l = IF k.tcb[u].state # eWaiting THEN a ELSE IF k.suspended # 0 THEN late ELSE m
  BY DEF xTaskGenericNotifyFromISR
<1>2. CASE l = m /\ k.tcb[u].state = eWaiting
  BY <1>2, NotifiedTurns DEF InTurn, NoneBefore, Slices
<1>3. CASE l = a \/ l = late
  <2>1. /\ KernelOK(a) /\ \A v \in Tasks : Prio(a, v) = Prio(k, v)
    BY NotifiedSet DEF StatesBut
  <2>2. a.ready = k.ready
    BY DEF Notified, KernelOK, KernelShape, KernelFields, Over
  <2> HIDE DEF a, l
  <2>3. late.ready = a.ready /\ late.tcb = a.tcb
    BY <2>1 DEF KernelOK, KernelShape, KernelFields, Over
  <2> HIDE DEF late
  <2>4. l.ready = k.ready /\ \A v \in Tasks : Prio(l, v) = Prio(k, v)
    BY <1>3, <2>1, <2>2, <2>3 DEF Prio
  <2>5. Turns(k, l)
    BY <2>4, TurnsAlike
  <2> QED BY <2>5 DEF Turns, InTurn, NoneBefore, Slices, l
<1> QED BY <1>1, <1>2, <1>3

\* The critical section of xTaskGenericCreate.
LEMMA AddTurns ==
    ASSUME NEW k, KernelOK(k), NEW u \in Tasks, Home(k, u) = "nowhere", NEW prio \in Priorities
    PROVE  Turns(k, AddTask(k, u, prio))
<1> DEFINE tcb == [k.tcb EXCEPT ![u] = NewTCB(prio)]
           a == [k EXCEPT !.number = @ + 1, !.tcb[u] = NewTCB(prio)]
           l == AddTask(k, u, prio)
<1> SUFFICES ASSUME NEW t \in Tasks, Home(k, t) = "ready", First(k, t) # t PROVE InTurn(k, l, t)
  BY DEF Turns, InTurn
<1> DEFINE q == Prio(k, t)
<1>1. t # u /\ Sound(k)
  BY DEF KernelOK, Sound
<1>2. Home(l, t) = "ready" /\ Prio(l, t) = q /\ q \in Priorities
  BY <1>1, TaskCreated DEF KernelOK, KernelShape, TCBs, Prio
<1>3. a.ready = k.ready /\ a.tcb = tcb /\ Over(a, KernelFields)
  BY DEF KernelOK, KernelShape, KernelFields, Over
<1>4. Prio(a, u) = prio
  <2>1. k.tcb \in [Tasks -> TCBs]
    BY DEF KernelOK, KernelShape
  <2> HIDE DEF a
  <2> QED BY <1>3, <2>1 DEF Prio, NewTCB
<1>5. l = prvAddTaskToReadyList(a, u)
  BY DEF AddTask
<1> HIDE DEF a, l
<1>6. l.ready[q] = IF q = prio THEN vListInsertEnd(k.ready[q], u) ELSE k.ready[q]
  BY <1>2, <1>3, <1>4, <1>5 DEF prvAddTaskToReadyList, KernelOK, KernelLists, KernelFields, Over
<1>7. ListTypeOK(k.ready[q]) /\ Holds(k.ready[q], t) /\ Head(k.ready[q]) # t
  BY <1>1, <1>2 DEF Sound, KernelLists, Places, First
<1>8. /\ AheadIn(l.ready[q], t) \subseteq AheadIn(k.ready[q], t)
      /\ Head(l.ready[q]) = Head(k.ready[q])
  BY <1>1, <1>6, <1>7, AheadInserted
<1> QED BY <1>2, <1>8 DEF NoneBefore, InTurn, First, Ahead, l

\* The first critical section of vTaskDelete.
LEMMA TerminateSlices ==
    ASSUME NEW k, KernelOK(k), NEW u \in Tasks \ {IdleTask}, NEW t \in Tasks
    PROVE  Slices(k, Terminate(k, u), t)
<1> DEFINE a == RemoveGeneric(k, u)
           b == RemoveEvent(a, u)
           l == Terminate(k, u)
<1>1. SameRest(k, l) /\ (t = u => Home(l, t) = "termination")
  BY Terminated
<1>2. CASE t = u
  BY <1>1, <1>2 DEF Slices
<1>3. CASE t # u
  <2>1. Sound(k)
    BY DEF KernelOK, Sound
  <2>2. Sound(a) /\ SameRest(k, a) /\ NoneBefore(k, a, t)
    BY <1>3, <2>1, GenericRemoved, RemovalTurns
  <2>3. l = [b EXCEPT !.termination = vListInsertEnd(@, u), !.deleted = @ + 1]
    BY DEF Terminate
  <2> HIDE DEF a, l
  <2>4. b.ready = a.ready /\ Over(b, KernelFields)
    BY <2>2 DEF RemoveEvent, Sound, KernelShape, KernelFields, Over
  <2> HIDE DEF b
  <2>5. l.ready = a.ready
    BY <2>3, <2>4 DEF KernelFields, Over
  <2>6. NoneBefore(a, l, t)
    BY <1>1, <2>2, <2>5, TurnsAlike DEF SameRest, SameData, l
  <2> QED BY <2>2, <2>6 DEF NoneBefore, Slices, l
<1> QED BY <1>2, <1>3

\* The critical section of prvCheckTasksWaitingTermination.
LEMMA ReclaimTurns ==
    ASSUME NEW k, KernelOK(k), NEW v \in Tasks, Home(k, v) = "termination"
    PROVE  Turns(k, Reclaim(k))
<1> DEFINE u == HeadEntry(k.termination)
           a == RemoveGeneric(k, u)
           l == Reclaim(k)
<1>1. SameRest(k, l) /\ u \in Tasks /\ Home(k, u) = "termination"
  BY TaskReclaimed
<1>2. Sound(k)
  BY DEF KernelOK, Sound
<1> HIDE DEF u
<1>3. Sound(a) /\ SameRest(k, a) /\ Turns(k, a)
  BY <1>1, <1>2, GenericRemoved, MoveTurns
<1>4. l = [a EXCEPT !.number = @ - 1, !.deleted = @ - 1]
  BY DEF Reclaim, u
<1> HIDE DEF a, l
<1>5. l.ready = a.ready
  BY <1>3, <1>4 DEF Sound, KernelShape, KernelFields, Over
<1>6. Turns(a, l)
  BY <1>1, <1>3, <1>5, TurnsAlike DEF SameRest, SameData, l
<1> QED BY <1>3, <1>6, TurnsOn DEF l

\* The same before the scheduler runs.
LEMMA FirstTaskAdded ==
    ASSUME NEW k, Sound(k), NEW t \in Tasks, Home(k, t) = "nowhere", NEW prio \in Priorities
    PROVE  LET l == AddFirstTask(k, t, prio)
           IN  /\ Sound(l) /\ SameClock(k, l) /\ l.number = k.number + 1
               /\ \/ l.current = t /\ (k.number = 0 \/ Prio(k, k.current) <= prio)
                  \/ l.current = k.current /\ k.number # 0 /\ Prio(k, k.current) > prio
               /\ l.top = Max2(k.top, prio) /\ Prio(l, t) = prio /\ l.tcb[t].state = eNotWaiting
               /\ \A u \in Tasks : /\ Home(l, u) = IF u = t THEN "ready" ELSE Home(k, u)
                                   /\ Event(l, u) = Event(k, u)
                                   /\ u # t => /\ Prio(l, u) = Prio(k, u)
                                               /\ l.tcb[u].state = k.tcb[u].state
<1> DEFINE m == AddTask(k, t, prio)
           l == AddFirstTask(k, t, prio)
           c == IF k.number = 0 \/ Prio(k, m.current) <= prio THEN t ELSE m.current
<1>1. /\ Sound(m) /\ SameClock(k, m) /\ m.current = k.current
      /\ m.top = Max2(k.top, prio) /\ Prio(m, t) = prio /\ m.tcb[t].state = eNotWaiting
      /\ \A u \in Tasks : /\ Home(m, u) = IF u = t THEN "ready" ELSE Home(k, u)
                          /\ Event(m, u) = Event(k, u)
                          /\ u # t => /\ Prio(m, u) = Prio(k, u)
                                      /\ m.tcb[u].state = k.tcb[u].state
  BY TaskAdded
<1>2. KernelShape(k) /\ KernelShape(m) /\ k.current \in Tasks
  BY <1>1 DEF Sound, KernelShape
<1>3. m.number = k.number + 1
  BY <1>2 DEF AddTask, prvAddTaskToReadyList, KernelShape, KernelFields, Over
<1>4. l = [m EXCEPT !.current = c]
  <2>1. l = [m EXCEPT !.current = IF k.number = 0 \/ Prio(k, @) <= prio THEN t ELSE @]
    BY DEF AddFirstTask
  <2> HIDE DEF m, l
  <2> QED BY <2>1, <1>2 DEF KernelShape, KernelFields, Over
<1>5. /\ c \in Tasks
      /\ \/ c = t /\ (k.number = 0 \/ Prio(k, k.current) <= prio)
         \/ c = k.current /\ k.number # 0 /\ Prio(k, k.current) > prio
  <2>1. Prio(k, k.current) \in Nat /\ prio \in Nat
    BY <1>2 DEF KernelShape, TCBs, Prio, Priorities
  <2> QED BY <1>1, <1>2, <2>1
<1> HIDE DEF m, l, c
<1>6. /\ Over(l, KernelFields) /\ l.current = c /\ l.top = m.top /\ l.tick = m.tick
      /\ l.next = m.next /\ l.pended = m.pended /\ l.suspended = m.suspended
      /\ l.overflows = m.overflows /\ l.yieldPending = m.yieldPending /\ l.tcb = m.tcb /\ l.number = m.number
      /\ l.ready = m.ready /\ l.delayed = m.delayed /\ l.overflow = m.overflow
      /\ l.termination = m.termination /\ l.event = m.event
  BY <1>2, <1>4 DEF KernelShape, KernelFields, Over
<1>7. KernelShape(l) /\ \A u \in Tasks : Prio(l, u) = Prio(m, u)
  BY <1>2, <1>5, <1>6 DEF KernelShape, Prio
<1>8. Sound(l) /\ \A u \in Tasks : Home(l, u) = Home(m, u) /\ Event(l, u) = Event(m, u)
  BY <1>1, <1>6, <1>7, ListsKept
<1> QED BY <1>1, <1>3, <1>5, <1>6, <1>7, <1>8 DEF SameClock, l

\* The creations of main, round by round.
LEMMA StartLoop ==
    ASSUME NEW start, NEW prio, NEW last \in Nat
    PROVE  \E f : f = [n \in 0 .. last |-> IF n = 0 THEN EmptyKernel
                                           ELSE AddFirstTask(f[n - 1], start[n], prio[start[n]])]
<1> DEFINE Round(k, n) == AddFirstTask(k, start[n], prio[start[n]])
           IsLoop(f, m) == f = [n \in 0 .. m |-> IF n = 0 THEN EmptyKernel ELSE Round(f[n - 1], n)]
           T == {m \in Nat : \E f : IsLoop(f, m)}
<1> SUFFICES \E f : IsLoop(f, last)
  OBVIOUS
<1> HIDE DEF Round
<1>1. 0 \in T
  <2> DEFINE f == [n \in 0 .. 0 |-> EmptyKernel]
  <2>1. IsLoop(f, 0)
    OBVIOUS
  <2> QED BY <2>1
<1>2. ASSUME NEW m \in T PROVE m + 1 \in T
  <2>1. PICK f : IsLoop(f, m)
    OBVIOUS
  <2> DEFINE g == [n \in 0 .. m + 1 |-> IF n = m + 1 THEN Round(f[m], m + 1) ELSE f[n]]
  <2>2. ASSUME NEW n \in 0 .. m + 1
        PROVE  g[n] = IF n = 0 THEN EmptyKernel ELSE Round(g[n - 1], n)
    <3>1. CASE n = 0
      BY <2>1, <3>1
    <3>2. CASE n = m + 1
      BY <3>2
    <3>3. CASE n # 0 /\ n # m + 1
      <4>1. n \in 0 .. m /\ n - 1 \in 0 .. m + 1 /\ n - 1 # m + 1
        BY <3>3
      <4> QED BY <2>1, <3>3, <4>1
    <3> QED BY <3>1, <3>2, <3>3
  <2>3. IsLoop(g, m + 1)
    BY <2>2
  <2> HIDE DEF g
  <2> QED BY <2>3
<1>3. T = Nat
  BY <1>1, <1>2, Rounds
<1> QED BY <1>3

\* The kernel when the scheduler starts.
LEMMA Started ==
    ASSUME Init
    PROVE  /\ KernelOK(kernel) /\ kernel.tick = 0 /\ kernel.overflows = 0
           /\ kernel.pended = 0 /\ kernel.suspended = 0
           /\ Home(kernel, kernel.current) = "ready" /\ \A u \in Tasks : ~Above(kernel, u)
           /\ \A u \in Tasks :
                /\ Event(kernel, u) = "none" /\ kernel.tcb[u].state = eNotWaiting
                /\ Home(kernel, u) = IF u = IdleTask \/ \E i \in DOMAIN plan.start : plan.start[i] = u
                                     THEN "ready" ELSE "nowhere"
<1> DEFINE start == plan.start
           prio == plan.prio
           last == Len(start)
           Round(k, n) == AddFirstTask(k, start[n], prio[start[n]])
           IsLoop(f) == f = [n \in 0 .. last |-> IF n = 0 THEN EmptyKernel ELSE Round(f[n - 1], n)]
           started == CHOOSE f : IsLoop(f)
           AtRest(k) == /\ Sound(k) /\ k.tick = 0 /\ k.overflows = 0 /\ k.pended = 0 /\ k.suspended = 0
                        /\ \A u \in Tasks : /\ Event(k, u) = "none" /\ k.tcb[u].state = eNotWaiting
                                            /\ Home(k, u) = "ready" => Prio(k, u) <= k.top
           Good(k, n) == /\ AtRest(k) /\ k.number = n
                         /\ n # 0 => Home(k, k.current) = "ready" /\ \A u \in Tasks : ~Above(k, u)
                         /\ \A u \in Tasks : Home(k, u) = IF \E i \in 1 .. n : start[i] = u
                                                          THEN "ready" ELSE "nowhere"
<1>1. /\ start \in Seq(Tasks \ {IdleTask}) /\ prio \in [Tasks -> Priorities]
      /\ \A i, j \in DOMAIN start : start[i] = start[j] => i = j
  BY TaskAssumption DEF Init
<1>2. /\ last \in Nat /\ DOMAIN start = 1 .. last
      /\ \A i \in 1 .. last : start[i] \in Tasks \ {IdleTask} /\ prio[start[i]] \in Priorities
  BY <1>1
<1>3. kernel = AddFirstTask(started[last], IdleTask, 0)
  BY DEF Init
<1> HIDE DEF start, prio, last
<1>4. IsLoop(started)
  <2>1. \E f : IsLoop(f)
    <3>1. last \in Nat
      BY <1>2
    <3> QED BY <3>1, StartLoop, Zenon
  <2> HIDE DEF IsLoop
  <2> QED BY <2>1
<1> HIDE DEF started
<1>5. Good(EmptyKernel, 0)
  <2>1. KernelShape(EmptyKernel)
    <3>1. Over(EmptyKernel, KernelFields)
      BY DEF Over, KernelFields, EmptyKernel
    <3>2. EmptyKernel.tcb \in [Tasks -> TCBs]
      <4>1. NewTCB(0) \in TCBs
        BY KernelAssumption, TimeAssumption DEF TCBs, NewTCB, Priorities, Ticks
      <4>2. EmptyKernel.tcb = [t \in Tasks |-> NewTCB(0)]
        BY DEF EmptyKernel
      <4> QED BY <4>1, <4>2
    <3>3. /\ EmptyKernel.current = IdleTask /\ EmptyKernel.top = 0 /\ EmptyKernel.tick = 0
          /\ EmptyKernel.next = portMAX_DELAY /\ EmptyKernel.pended = 0
          /\ EmptyKernel.suspended = 0 /\ EmptyKernel.overflows = 0
      BY DEF EmptyKernel
    <3> QED BY <3>1, <3>2, <3>3, KernelAssumption, TimeAssumption
            DEF KernelShape, Priorities, Ticks, portMAX_DELAY
  <2>2. KernelLists(EmptyKernel)
    BY Initialised DEF KernelLists, Over, EmptyKernel
  <2>3. Placed(EmptyKernel, [u \in Tasks |-> "nowhere"], [u \in Tasks |-> "none"])
    BY Initialised DEF Placed, EmptyKernel, Homes, EventLists
  <2>4. /\ Sound(EmptyKernel)
        /\ \A u \in Tasks : Home(EmptyKernel, u) = "nowhere" /\ Event(EmptyKernel, u) = "none"
    BY <2>1, <2>2, <2>3, PlacesAre
  <2>5. /\ EmptyKernel.tick = 0 /\ EmptyKernel.overflows = 0 /\ EmptyKernel.pended = 0
        /\ EmptyKernel.suspended = 0 /\ EmptyKernel.number = 0
        /\ \A u \in Tasks : EmptyKernel.tcb[u].state = eNotWaiting
    BY DEF EmptyKernel, NewTCB
  <2> QED BY <2>4, <2>5
<1>6. ASSUME NEW k, AtRest(k), NEW t \in Tasks, Home(k, t) = "nowhere", NEW p \in Priorities
      PROVE  /\ AtRest(AddFirstTask(k, t, p)) /\ AddFirstTask(k, t, p).number = k.number + 1
             /\ \A u \in Tasks : Home(AddFirstTask(k, t, p), u) = IF u = t THEN "ready" ELSE Home(k, u)
             /\ \/ AddFirstTask(k, t, p).current = t
                \/ AddFirstTask(k, t, p).current = k.current /\ k.number # 0
             /\ Prio(AddFirstTask(k, t, p), t) = p
             /\ \/ k.number = 0 /\ \A u \in Tasks : Home(k, u) = "nowhere"
                \/ /\ k.number # 0 /\ Home(k, k.current) = "ready"
                   /\ \A u \in Tasks : ~Above(k, u)
                => \A u \in Tasks : ~Above(AddFirstTask(k, t, p), u)
  <2> DEFINE l == AddFirstTask(k, t, p)
  <2>1. /\ Sound(l) /\ SameClock(k, l) /\ l.number = k.number + 1
        /\ \/ l.current = t /\ (k.number = 0 \/ Prio(k, k.current) <= p)
           \/ l.current = k.current /\ k.number # 0 /\ Prio(k, k.current) > p
        /\ l.top = Max2(k.top, p) /\ Prio(l, t) = p /\ l.tcb[t].state = eNotWaiting
        /\ \A u \in Tasks : /\ Home(l, u) = IF u = t THEN "ready" ELSE Home(k, u)
                            /\ Event(l, u) = Event(k, u)
                            /\ u # t => /\ Prio(l, u) = Prio(k, u)
                                        /\ l.tcb[u].state = k.tcb[u].state
    BY <1>6, FirstTaskAdded
  <2> HIDE DEF l
  <2>2. k.top \in Priorities /\ \A u \in Tasks : Prio(k, u) \in Priorities
    BY <1>6 DEF Sound, KernelShape, TCBs, Prio
  <2>3. ASSUME NEW u \in Tasks, Home(l, u) = "ready" PROVE Prio(l, u) <= l.top
    BY <1>6, <2>1, <2>2, <2>3 DEF Max2, Priorities
  <2>4. AtRest(l)
    BY <1>6, <2>1, <2>3 DEF SameClock
  <2>5. ASSUME \/ k.number = 0 /\ \A u \in Tasks : Home(k, u) = "nowhere"
               \/ /\ k.number # 0 /\ Home(k, k.current) = "ready"
                  /\ \A u \in Tasks : ~Above(k, u),
               NEW u \in Tasks
        PROVE  ~Above(l, u)
    <3>1. k.current \in Tasks
      BY <1>6 DEF Sound, KernelShape
    <3>2. p \in Nat /\ \A v \in Tasks : Prio(k, v) \in Nat
      BY <1>6, <2>2 DEF Priorities
    <3>3. CASE u = t
      <4>1. l.current = t \/ Prio(l, l.current) > p
        BY <1>6, <2>1, <2>5, <3>1
      <4> QED BY <2>1, <3>1, <3>2, <3>3, <4>1 DEF Above
    <3>4. CASE u # t /\ k.number = 0
      BY <2>1, <2>5, <3>4 DEF Above
    <3>5. CASE u # t /\ k.number # 0
      <4>1. k.current # t /\ ~Above(k, u)
        BY <1>6, <2>5, <3>5
      <4>2. /\ Home(l, u) = Home(k, u) /\ Prio(l, u) = Prio(k, u)
            /\ Prio(l, k.current) = Prio(k, k.current)
        BY <2>1, <3>1, <3>5, <4>1
      <4> QED BY <2>1, <3>1, <3>2, <3>5, <4>1, <4>2 DEF Above
    <3> QED BY <3>3, <3>4, <3>5
  <2> QED BY <2>1, <2>4, <2>5 DEF l
<1>7. ASSUME NEW k, NEW n \in Nat, n + 1 <= last, Good(k, n) PROVE Good(Round(k, n + 1), n + 1)
  <2> DEFINE t == start[n + 1]
             l == Round(k, n + 1)
  <2>1. t \in Tasks /\ prio[t] \in Priorities /\ n + 1 \in 1 .. last
    BY <1>2, <1>7
  <2>2. Home(k, t) = "nowhere" /\ AtRest(k) /\ k.number = n
    <3>1. \A i \in 1 .. n : start[i] # t
      BY <1>1, <1>2, <1>7, <2>1
    <3> HIDE DEF AtRest
    <3> QED BY <1>7, <2>1, <3>1
  <2> HIDE DEF AtRest
  <2>3. /\ AtRest(l) /\ l.number = n + 1
        /\ \A u \in Tasks : Home(l, u) = IF u = t THEN "ready" ELSE Home(k, u)
        /\ l.current = t \/ (l.current = k.current /\ n # 0)
        /\ \A u \in Tasks : ~Above(l, u)
    <3>1. ASSUME n = 0, NEW u \in Tasks PROVE Home(k, u) = "nowhere"
      <4>1. ~\E i \in 1 .. n : start[i] = u
        BY <3>1
      <4> QED BY <1>7, <4>1
    <3>2. \/ k.number = 0 /\ \A u \in Tasks : Home(k, u) = "nowhere"
          \/ /\ k.number # 0 /\ Home(k, k.current) = "ready"
             /\ \A u \in Tasks : ~Above(k, u)
      BY <1>7, <2>2, <3>1
    <3> QED BY <1>6, <2>1, <2>2, <3>2
  <2>4. k.current \in Tasks
    BY <2>2 DEF AtRest, Sound, KernelShape
  <2> HIDE DEF l
  <2>5. ASSUME NEW u \in Tasks
        PROVE  Home(l, u) = IF \E i \in 1 .. n + 1 : start[i] = u THEN "ready" ELSE "nowhere"
    <3>1. 1 .. n + 1 = (1 .. n) \cup {n + 1}
      OBVIOUS
    <3> QED BY <1>7, <2>3, <3>1
  <2>6. Home(l, l.current) = "ready"
    BY <1>7, <2>1, <2>3, <2>4
  <2>7. Good(l, n + 1)
    BY <2>3, <2>5, <2>6
  <2> QED BY <2>7 DEF l
<1> DEFINE T == {n \in Nat : n <= last => Good(started[n], n)}
<1> HIDE DEF Good
<1>8. 0 \in T
  BY <1>2, <1>4, <1>5
<1>9. ASSUME NEW n \in T PROVE n + 1 \in T
  <2>1. CASE n + 1 <= last
    <3>1. started[n + 1] = Round(started[n], n + 1)
      BY <1>2, <1>4, <2>1
    <3>2. Good(started[n], n)
      BY <1>2, <2>1
    <3> HIDE DEF Round, T
    <3>3. n \in Nat
      BY DEF T
    <3>4. Good(started[n + 1], n + 1)
      BY <1>7, <2>1, <3>1, <3>2, <3>3
    <3> QED BY <3>3, <3>4 DEF T
  <2> QED BY <1>2, <2>1
<1>10. T = Nat
  BY <1>8, <1>9, Rounds
<1>11. Good(started[last], last)
  BY <1>2, <1>10
<1> DEFINE before == started[last]
<1> HIDE DEF T, before
<1>12. /\ AtRest(before) /\ before.number = last /\ Home(before, IdleTask) = "nowhere"
       /\ last # 0 => Home(before, before.current) = "ready" /\ \A u \in Tasks : ~Above(before, u)
       /\ before.current \in Tasks
       /\ \A u \in Tasks : Home(before, u) = IF \E i \in 1 .. last : start[i] = u
                                             THEN "ready" ELSE "nowhere"
  <2>1. Good(before, last)
    BY <1>11 DEF before
  <2>2. AtRest(before)
    BY <2>1 DEF Good
  <2>3. before.current \in Tasks
    BY <2>2 DEF AtRest, Sound, KernelShape
  <2>4. ~\E i \in 1 .. last : start[i] = IdleTask
    BY <1>2
  <2> HIDE DEF AtRest
  <2> QED BY <2>1, <2>2, <2>3, <2>4, KernelAssumption DEF Good
<1>13. 0 \in Priorities /\ IdleTask \in Tasks
  BY KernelAssumption DEF Priorities
<1>14. /\ AtRest(kernel) /\ Prio(kernel, IdleTask) = 0
       /\ \A u \in Tasks : Home(kernel, u) = IF u = IdleTask THEN "ready" ELSE Home(before, u)
       /\ kernel.current = IdleTask \/ (kernel.current = before.current /\ last # 0)
       /\ \A u \in Tasks : ~Above(kernel, u)
  <2> HIDE DEF AtRest
  <2>1. ASSUME last = 0, NEW u \in Tasks PROVE Home(before, u) = "nowhere"
    <3>1. ~\E i \in 1 .. last : start[i] = u
      BY <2>1
    <3> QED BY <1>12, <3>1
  <2>2. \/ before.number = 0 /\ \A u \in Tasks : Home(before, u) = "nowhere"
        \/ /\ before.number # 0 /\ Home(before, before.current) = "ready"
           /\ \A u \in Tasks : ~Above(before, u)
    BY <1>12, <2>1
  <2>3. kernel = AddFirstTask(before, IdleTask, 0)
    BY <1>3 DEF before
  <2> QED BY <1>6, <1>12, <1>13, <2>2, <2>3
<1>15. Choice(kernel)
  BY <1>13, <1>14 DEF Choice
<1>16. Home(kernel, kernel.current) = "ready"
  BY <1>12, <1>13, <1>14
<1> QED BY <1>2, <1>12, <1>14, <1>15, <1>16 DEF KernelOK, Sound, start, last

\* When the scheduler starts no task is delayed.
LEMMA StartedAwake ==
    ASSUME Init
    PROVE  /\ Timed(kernel) /\ kernel.tick = 0 /\ kernel.next = portMAX_DELAY
           /\ \A t \in Tasks : Awake(kernel, t)
<1> DEFINE start == plan.start
           prio == plan.prio
           last == Len(start)
           Round(k, n) == AddFirstTask(k, start[n], prio[start[n]])
           IsLoop(f) == f = [n \in 0 .. last |-> IF n = 0 THEN EmptyKernel ELSE Round(f[n - 1], n)]
           started == CHOOSE f : IsLoop(f)
           Good(k) == /\ Timed(k) /\ k.tick = 0 /\ k.next = portMAX_DELAY
                      /\ \A t \in Tasks : Awake(k, t)
<1>1. start \in Seq(Tasks \ {IdleTask})
  BY TaskAssumption DEF Init
<1>2. last \in Nat /\ \A i \in 1 .. last : start[i] \in Tasks
  BY <1>1
<1>3. kernel = AddFirstTask(started[last], IdleTask, 0)
  BY DEF Init
<1> HIDE DEF start, prio, last
<1>4. IsLoop(started)
  <2>1. \E f : IsLoop(f)
    <3>1. last \in Nat
      BY <1>2
    <3> QED BY <3>1, StartLoop, Zenon
  <2> HIDE DEF IsLoop
  <2> QED BY <2>1
<1> HIDE DEF started
<1>5. Good(EmptyKernel)
  <2>1. /\ EmptyKernel.tick = 0 /\ EmptyKernel.next = portMAX_DELAY
        /\ EmptyKernel.delayed = vListInitialise /\ EmptyKernel.overflow = vListInitialise
        /\ Over(EmptyKernel, KernelFields) /\ Over(EmptyKernel.tcb, Tasks)
        /\ \A t \in Tasks : EmptyKernel.tcb[t] = NewTCB(0)
    BY DEF EmptyKernel, Over, KernelFields
  <2>2. Over(NewTCB(0), TcbFields) /\ NewTCB(0).wake = 0 /\ 0 \in Ticks
    BY TimeAssumption DEF NewTCB, Over, TcbFields, Ticks
  <2>3. \A t \in Tasks : Wake(EmptyKernel, t) = 0
    BY <2>1, <2>2 DEF Wake
  <2>4. ListTypeOK(vListInitialise) /\ \A t \in Tasks : ~Holds(vListInitialise, t)
    BY Initialised
  <2>5. \A value : Sorted(vListInitialise, value)
    BY DEF Sorted, vListInitialise
  <2> QED BY <2>1, <2>2, <2>3, <2>4, <2>5 DEF Timed, Awake
<1>6. ASSUME NEW k, Good(k), NEW t \in Tasks, NEW p PROVE Good(AddFirstTask(k, t, p))
  <2> DEFINE m == AddTask(k, t, p)
             c == IF k.number = 0 \/ Prio(k, m.current) <= p THEN t ELSE m.current
             l == [m EXCEPT !.current = c]
  <2>1. AddFirstTask(k, t, p) = l
    BY DEF AddFirstTask
  <2>2. Rests(k, m) /\ Timed(m)
    BY <1>6, AddRests
  <2> HIDE DEF m, c
  <2>3. Rests(m, l) /\ Timed(l)
    BY <2>2, RestsPending
  <2> HIDE DEF l
  <2> QED BY <1>6, <2>1, <2>2, <2>3 DEF Rests, Leaves, SameSleep, Awake
<1> HIDE DEF Good
<1> DEFINE T == {n \in Nat : n <= last => Good(started[n])}
<1>7. 0 \in T
  BY <1>2, <1>4, <1>5
<1>8. ASSUME NEW n \in T PROVE n + 1 \in T
  <2>1. CASE n + 1 <= last
    <3>1. started[n + 1] = Round(started[n], n + 1)
      BY <1>2, <1>4, <2>1
    <3>2. Good(started[n]) /\ start[n + 1] \in Tasks
      BY <1>2, <2>1
    <3> QED BY <1>6, <3>1, <3>2
  <2> QED BY <1>2, <2>1
<1>9. T = Nat
  BY <1>7, <1>8, Rounds
<1>10. Good(started[last])
  BY <1>2, <1>9
<1>11. Good(kernel)
  BY <1>3, <1>6, <1>10, KernelAssumption
<1> QED BY <1>11 DEF Good
=============================================================================
