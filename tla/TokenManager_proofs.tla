------------------------ MODULE TokenManager_proofs ------------------------
(***************************************************************************)
(* What the methods of the token manager (lib/core/auth/tokenManager.ts)   *)
(* keep, for any tokens and connections: the lemmas that Sessions_proofs   *)
(* rests on.                                                               *)
(***************************************************************************)
EXTENDS TokenManager, TLAPS, FiniteSetTheorems, SequenceTheorems

LEMMA MinExists ==
  ASSUME NEW T, T \subseteq Nat, T # {}
  PROVE  \E x \in T : \A y \in T : x <= y
<1>1. PICK x \in T : \A y \in T : ~(<<y, x>> \in OpToRel(<, Nat))
  BY WFMin, NatLessThanWellFounded, Zenon
<1>2. \A y \in T : ~(y < x)
  BY <1>1, Zenon DEF OpToRel
<1> QED
  BY <1>2

LEMMA MaxExists ==
  ASSUME NEW n \in Nat, NEW T, T \subseteq 1..n, T # {}
  PROVE  \E x \in T : \A y \in T : y <= x
<1> DEFINE U == {n - y : y \in T}
<1>1. U # {}
  OBVIOUS
<1>2. \A y \in T : y \in Nat /\ n - y \in Nat
  OBVIOUS
<1>3. U \subseteq Nat
  BY <1>2
<1>4. PICK u \in U : \A v \in U : u <= v
  BY <1>1, <1>3, MinExists
<1>5. PICK x \in T : u = n - x
  OBVIOUS
<1>6. ASSUME NEW y \in T PROVE y <= x
  <2>1. n - x <= n - y
    BY <1>4, <1>5
  <2> QED
    BY <1>2, <2>1
<1> QED
  BY <1>6

-----------------------------------------------------------------------------
(* Insertion and removal in a sequence.                                    *)

LEMMA Inserted ==
  ASSUME NEW S, NEW s \in Seq(S), NEW e \in S, NEW p \in 1..(Len(s) + 1)
  PROVE  /\ InsertAt(s, p, e) \in Seq(S)
         /\ Len(InsertAt(s, p, e)) = Len(s) + 1
         /\ \A i \in 1..(Len(s) + 1) :
              InsertAt(s, p, e)[i] = IF i < p THEN s[i] ELSE IF i = p THEN e ELSE s[i - 1]
<1> DEFINE a == SubSeq(s, 1, p - 1)
           b == SubSeq(s, p, Len(s))
<1>1. Len(s) \in Nat /\ p \in Int /\ \A i \in 1..Len(s) : s[i] \in S
  OBVIOUS
<1>2. /\ a \in Seq(S) /\ Len(a) = p - 1
      /\ \A i \in 1..(p - 1) : a[i] = s[i]
  BY <1>1, SubSeqProperties
<1>3. /\ b \in Seq(S) /\ Len(b) = Len(s) - p + 1
      /\ \A i \in 1..(Len(s) - p + 1) : b[i] = s[p + i - 1]
  BY <1>1, SubSeqProperties
<1>4. InsertAt(s, p, e) = (a \o <<e>>) \o b
  BY DEF InsertAt
<1> HIDE DEF a, b
<1> DEFINE d == a \o <<e>>
           r == InsertAt(s, p, e)
<1>5. d \in Seq(S) /\ Len(d) = p /\ \A i \in 1..p : d[i] = IF i < p THEN s[i] ELSE e
  BY <1>1, <1>2, ConcatProperties
<1>6. r = d \o b
  BY <1>4
<1> HIDE DEF d, r
<1>7. /\ r \in Seq(S) /\ Len(r) = Len(d) + Len(b)
      /\ \A i \in 1..(Len(d) + Len(b)) : r[i] = IF i <= Len(d) THEN d[i] ELSE b[i - Len(d)]
  BY <1>3, <1>5, <1>6, ConcatProperties
<1>8. Len(r) = Len(s) + 1
  BY <1>1, <1>3, <1>5, <1>7
<1>9. ASSUME NEW i \in 1..(Len(s) + 1)
      PROVE  r[i] = IF i < p THEN s[i] ELSE IF i = p THEN e ELSE s[i - 1]
  <2>1. r[i] = IF i <= p THEN d[i] ELSE b[i - p]
    BY <1>1, <1>3, <1>5, <1>7
  <2>2. CASE i <= p
    BY <1>1, <1>5, <2>1, <2>2
  <2>3. CASE i > p
    <3>1. i - p \in 1..(Len(s) - p + 1) /\ p + (i - p) - 1 = i - 1
      BY <1>1, <2>3
    <3>2. b[i - p] = s[i - 1]
      BY <1>3, <3>1
    <3> QED
      BY <1>1, <2>1, <2>3, <3>2
  <2> QED
    BY <1>1, <2>2, <2>3
<1> QED
  BY <1>7, <1>8, <1>9 DEF r

LEMMA Removed ==
  ASSUME NEW S, NEW s \in Seq(S), NEW p \in 1..Len(s)
  PROVE  /\ RemoveAt(s, p) \in Seq(S)
         /\ Len(RemoveAt(s, p)) = Len(s) - 1
         /\ \A i \in 1..(Len(s) - 1) : RemoveAt(s, p)[i] = IF i < p THEN s[i] ELSE s[i + 1]
<1> DEFINE a == SubSeq(s, 1, p - 1)
           b == SubSeq(s, p + 1, Len(s))
<1>1. Len(s) \in Nat /\ p \in Int /\ \A i \in 1..Len(s) : s[i] \in S
  OBVIOUS
<1>2. /\ a \in Seq(S) /\ Len(a) = p - 1
      /\ \A i \in 1..(p - 1) : a[i] = s[i]
  BY <1>1, SubSeqProperties
<1>3. /\ b \in Seq(S) /\ Len(b) = Len(s) - p
      /\ \A i \in 1..(Len(s) - p) : b[i] = s[p + i]
  BY <1>1, SubSeqProperties
<1>4. RemoveAt(s, p) = a \o b
  BY DEF RemoveAt
<1> DEFINE r == RemoveAt(s, p)
<1>5. r = a \o b
  BY <1>4
<1> HIDE DEF a, b, r
<1>6. /\ r \in Seq(S) /\ Len(r) = Len(a) + Len(b)
      /\ \A i \in 1..(Len(a) + Len(b)) : r[i] = IF i <= Len(a) THEN a[i] ELSE b[i - Len(a)]
  BY <1>2, <1>3, <1>5, ConcatProperties
<1>7. Len(r) = Len(s) - 1
  BY <1>1, <1>2, <1>3, <1>6
<1>8. ASSUME NEW i \in 1..(Len(s) - 1)
      PROVE  r[i] = IF i < p THEN s[i] ELSE s[i + 1]
  <2>1. r[i] = IF i <= p - 1 THEN a[i] ELSE b[i - (p - 1)]
    BY <1>1, <1>2, <1>3, <1>6
  <2>2. CASE i < p
    BY <1>1, <1>2, <2>1, <2>2
  <2>3. CASE i >= p
    <3>1. i - (p - 1) \in 1..(Len(s) - p) /\ p + (i - (p - 1)) = i + 1
      BY <1>1, <2>3
    <3>2. b[i - (p - 1)] = s[i + 1]
      BY <1>3, <3>1
    <3> QED
      BY <1>1, <2>1, <2>3, <3>2
  <2> QED
    BY <1>1, <2>2, <2>3
<1> QED
  BY <1>6, <1>7, <1>8 DEF r

LEMMA InsertedRange ==
  ASSUME NEW S, NEW s \in Seq(S), NEW e \in S, NEW p \in 1..(Len(s) + 1)
  PROVE  Range(InsertAt(s, p, e)) = Range(s) \cup {e}
<1> DEFINE r == InsertAt(s, p, e)
<1>1. /\ DOMAIN r = 1..(Len(s) + 1) /\ DOMAIN s = 1..Len(s) /\ Len(s) \in Nat
      /\ \A i \in 1..(Len(s) + 1) : r[i] = IF i < p THEN s[i] ELSE IF i = p THEN e ELSE s[i - 1]
  BY Inserted
<1> HIDE DEF r
<1>2. ASSUME NEW i \in DOMAIN r PROVE r[i] \in Range(s) \cup {e}
  BY <1>1 DEF Range
<1>3. r[p] = e /\ p \in DOMAIN r
  BY <1>1
<1>4. ASSUME NEW i \in DOMAIN s PROVE s[i] \in Range(r)
  <2>1. CASE i < p
    BY <1>1, <2>1 DEF Range
  <2>2. CASE i >= p
    <3>1. i + 1 \in DOMAIN r /\ r[i + 1] = s[i]
      BY <1>1, <2>2
    <3> QED
      BY <3>1 DEF Range
  <2> QED
    BY <1>1, <2>1, <2>2
<1> QED
  BY <1>2, <1>3, <1>4 DEF Range, r

LEMMA RemovedRange ==
  ASSUME NEW S, NEW s \in Seq(S), NEW p \in 1..Len(s)
  PROVE  /\ Range(RemoveAt(s, p)) \subseteq Range(s)
         /\ Range(s) \subseteq Range(RemoveAt(s, p)) \cup {s[p]}
<1> DEFINE r == RemoveAt(s, p)
<1>1. /\ DOMAIN r = 1..(Len(s) - 1) /\ DOMAIN s = 1..Len(s) /\ Len(s) \in Nat
      /\ \A i \in 1..(Len(s) - 1) : r[i] = IF i < p THEN s[i] ELSE s[i + 1]
  <2>1. /\ r \in Seq(S) /\ Len(r) = Len(s) - 1
        /\ \A i \in 1..(Len(s) - 1) : r[i] = IF i < p THEN s[i] ELSE s[i + 1]
    BY Removed
  <2> HIDE DEF r
  <2> QED
    BY <2>1
<1> HIDE DEF r
<1>2. ASSUME NEW i \in DOMAIN r PROVE r[i] \in Range(s)
  BY <1>1 DEF Range
<1>3. ASSUME NEW i \in DOMAIN s PROVE s[i] \in Range(r) \cup {s[p]}
  <2>1. CASE i < p
    BY <1>1, <2>1 DEF Range
  <2>2. CASE i > p
    <3>1. i - 1 \in DOMAIN r /\ r[i - 1] = s[i]
      BY <1>1, <2>2
    <3> QED
      BY <3>1 DEF Range
  <2> QED
    BY <1>1, <2>1, <2>2
<1> QED
  BY <1>2, <1>3 DEF Range, r

LEMMA TailRange ==
  ASSUME NEW S, NEW s \in Seq(S), s # <<>>
  PROVE  /\ Range(Tail(s)) \subseteq Range(s)
         /\ Range(s) \subseteq Range(Tail(s)) \cup {s[1]}
<1> DEFINE r == Tail(s)
<1>1. /\ DOMAIN r = 1..(Len(s) - 1) /\ DOMAIN s = 1..Len(s) /\ Len(s) \in Nat
      /\ \A i \in 1..(Len(s) - 1) : r[i] = s[i + 1]
  BY HeadTailProperties
<1> HIDE DEF r
<1>2. ASSUME NEW i \in DOMAIN r PROVE r[i] \in Range(s)
  BY <1>1 DEF Range
<1>3. ASSUME NEW i \in DOMAIN s PROVE s[i] \in Range(r) \cup {s[1]}
  <2>1. CASE i > 1
    <3>1. i - 1 \in DOMAIN r /\ r[i - 1] = s[i]
      BY <1>1, <2>1
    <3> QED
      BY <3>1 DEF Range
  <2> QED
    BY <1>1, <2>1
<1> QED
  BY <1>2, <1>3 DEF Range, r

-----------------------------------------------------------------------------
(* The sorted array.                                                       *)

Dated(h) == Exp[Tok(h)] # Never

\* Tokens that expire come first, by date and without doubles.
Ordered(arr) ==
  \A i, j \in DOMAIN arr :
    i < j => ~Dated(arr[j]) \/ (Dated(arr[i]) /\ Exp[Tok(arr[i])] < Exp[Tok(arr[j])])

LEMMA Dates ==
  /\ \A t \in Tokens : Exp[t] = Never \/ Exp[t] \in Nat
  /\ \A h \in Handles : Tok(h) \in Tokens /\ h # None
  /\ Never = -1 /\ Never \notin Nat
BY TokenManagerAssumption DEF Never, Handles, Tok

LEMMA SearchFinds ==
  ASSUME NEW arr \in Seq(Handles), NEW t \in Tokens
  PROVE  /\ Search(arr, t) \in 0..Len(arr)
         /\ Search(arr, t) # 0 => Tok(arr[Search(arr, t)]) = t
         /\ Search(arr, t) = 0 /\ Exp[t] # Never => \A h \in Range(arr) : Tok(h) # t
<1> DEFINE hits == {i \in 1..Len(arr) :
                     /\ Tok(arr[i]) = t
                     /\ Exp[t] = Never => i \in Probed(Len(arr), FiniteCount(arr))}
<1>1. Search(arr, t) = IF hits = {} THEN 0 ELSE CHOOSE i \in hits : \A j \in hits : j <= i
  BY DEF Search
<1>2. hits \subseteq 1..Len(arr) /\ Len(arr) \in Nat /\ DOMAIN arr = 1..Len(arr)
  OBVIOUS
<1>3. CASE hits = {}
  BY <1>1, <1>2, <1>3 DEF Range
<1>4. CASE hits # {}
  <2> HIDE DEF hits
  <2>1. \E i \in hits : \A j \in hits : j <= i
    BY <1>2, <1>4, MaxExists
  <2>2. Search(arr, t) \in hits
    BY <1>1, <1>4, <2>1
  <2>3. Search(arr, t) \in 1..Len(arr) /\ Tok(arr[Search(arr, t)]) = t
    BY <2>2 DEF hits
  <2> QED
    BY <1>2, <2>3
<1> QED
  BY <1>3, <1>4

LEMMA PlaceFits ==
  ASSUME NEW arr \in Seq(Handles), Ordered(arr), NEW t \in Tokens
  PROVE  /\ Place(arr, t) \in 1..(Len(arr) + 1)
         /\ \A i \in 1..Len(arr) : i < Place(arr, t) <=> StaysBefore(arr[i], t)
<1> DEFINE U == {i \in 1..(Len(arr) + 1) : i = Len(arr) + 1 \/ ~StaysBefore(arr[i], t)}
<1>1. Len(arr) \in Nat /\ DOMAIN arr = 1..Len(arr) /\ \A i \in 1..Len(arr) : arr[i] \in Handles
  OBVIOUS
<1>2. U \subseteq Nat /\ Len(arr) + 1 \in U
  BY <1>1
<1>3. PICK p \in U : \A y \in U : p <= y
  BY <1>2, MinExists
<1>4. p \in 1..(Len(arr) + 1)
  OBVIOUS
<1>5. ASSUME NEW i \in 1..Len(arr), i < p PROVE StaysBefore(arr[i], t)
  BY <1>1, <1>3, <1>5
<1>6. ASSUME NEW i \in 1..Len(arr), ~(i < p), StaysBefore(arr[i], t) PROVE FALSE
  <2>1. p \in 1..Len(arr) /\ ~StaysBefore(arr[p], t)
    BY <1>1, <1>4, <1>6
  <2>2. p < i
    BY <1>1, <1>4, <1>6, <2>1
  <2>3. ~Dated(arr[i]) \/ (Dated(arr[p]) /\ Exp[Tok(arr[p])] < Exp[Tok(arr[i])])
    BY <1>1, <2>1, <2>2 DEF Ordered
  <2>4. Exp[t] \in Nat /\ Exp[Tok(arr[i])] \in Nat /\ Exp[Tok(arr[i])] <= Exp[t]
    BY <1>1, <1>6, <2>1, Dates DEF StaysBefore
  <2>5. Exp[Tok(arr[p])] \in Nat
    BY <1>1, <2>1, <2>3, <2>4, Dates DEF Dated
  <2> QED
    BY <2>1, <2>3, <2>4, <2>5, Dates DEF StaysBefore, Dated
<1>7. \A i \in 1..Len(arr) : i < p <=> StaysBefore(arr[i], t)
  BY <1>5, <1>6
<1> QED
  BY <1>4, <1>7 DEF Place

LEMMA OrderedInsert ==
  ASSUME NEW arr \in Seq(Handles), Ordered(arr), NEW h \in Handles,
         Dated(h) => \A g \in Range(arr) : Tok(g) # Tok(h)
  PROVE  Ordered(InsertAt(arr, Place(arr, Tok(h)), h))
<1> DEFINE t == Tok(h)
           p == Place(arr, t)
           r == InsertAt(arr, p, h)
<1>1. /\ Len(arr) \in Nat /\ DOMAIN arr = 1..Len(arr)
      /\ \A i \in 1..Len(arr) : arr[i] \in Handles /\ arr[i] \in Range(arr)
  BY DEF Range
<1>2. t \in Tokens
  BY Dates
<1>3. /\ p \in 1..(Len(arr) + 1)
      /\ \A i \in 1..Len(arr) : i < p <=> StaysBefore(arr[i], t)
  BY <1>2, PlaceFits
<1> HIDE DEF p
<1>4. /\ DOMAIN r = 1..(Len(arr) + 1)
      /\ \A i \in 1..(Len(arr) + 1) :
           r[i] = IF i < p THEN arr[i] ELSE IF i = p THEN h ELSE arr[i - 1]
  <2>1. /\ r \in Seq(Handles) /\ Len(r) = Len(arr) + 1
        /\ \A i \in 1..(Len(arr) + 1) :
             r[i] = IF i < p THEN arr[i] ELSE IF i = p THEN h ELSE arr[i - 1]
    BY <1>3, Inserted
  <2> HIDE DEF r
  <2> QED
    BY <2>1
<1> HIDE DEF r
<1>5. ASSUME NEW i \in 1..Len(arr), i < p, Dated(h)
      PROVE  Dated(arr[i]) /\ Exp[Tok(arr[i])] < Exp[t]
  <2>1. Dated(arr[i]) /\ Exp[Tok(arr[i])] <= Exp[t]
    BY <1>3, <1>5 DEF StaysBefore, Dated
  <2>2. Tok(arr[i]) # t /\ Tok(arr[i]) \in Tokens
    BY <1>1, <1>5, Dates
  <2>3. Exp[Tok(arr[i])] # Exp[t]
    BY <1>2, <1>5, <2>2, TokenManagerAssumption DEF Dated
  <2>4. Exp[Tok(arr[i])] \in Nat /\ Exp[t] \in Nat
    BY <1>2, <1>5, <2>1, <2>2, Dates DEF Dated
  <2> QED
    BY <2>1, <2>3, <2>4
<1>6. ASSUME NEW i \in 1..Len(arr), ~(i < p), Dated(arr[i])
      PROVE  Dated(h) /\ Exp[t] < Exp[Tok(arr[i])]
  <2>1. ~StaysBefore(arr[i], t)
    BY <1>3, <1>6
  <2>2. Exp[t] # Never /\ ~(Exp[Tok(arr[i])] <= Exp[t])
    BY <1>6, <2>1 DEF StaysBefore, Dated
  <2>3. Exp[Tok(arr[i])] \in Nat /\ Exp[t] \in Nat
    BY <1>1, <1>2, <1>6, <2>2, Dates DEF Dated
  <2> QED
    BY <2>2, <2>3 DEF Dated
<1>7. ASSUME NEW i \in DOMAIN r, NEW j \in DOMAIN r, i < j, Dated(r[j])
      PROVE  Dated(r[i]) /\ Exp[Tok(r[i])] < Exp[Tok(r[j])]
  <2>1. CASE j < p
    BY <1>1, <1>3, <1>4, <1>7, <2>1 DEF Ordered
  <2>2. CASE j = p
    BY <1>1, <1>3, <1>4, <1>5, <1>7, <2>2
  <2>3. CASE j > p
    <3>1. j - 1 \in 1..Len(arr) /\ r[j] = arr[j - 1] /\ ~(j - 1 < p)
      BY <1>1, <1>3, <1>4, <2>3
    <3>2. CASE i < p
      <4>1. i \in 1..Len(arr) /\ r[i] = arr[i] /\ i < j - 1
        BY <1>1, <1>3, <1>4, <2>3, <3>2
      <4> QED
        BY <1>1, <1>7, <3>1, <4>1 DEF Ordered
    <3>3. CASE i = p
      BY <1>4, <1>6, <1>7, <3>1, <3>3
    <3>4. CASE i > p
      <4>1. i - 1 \in 1..Len(arr) /\ r[i] = arr[i - 1] /\ i - 1 < j - 1
        BY <1>1, <1>3, <1>4, <1>7, <3>4
      <4> QED
        BY <1>1, <1>7, <3>1, <4>1 DEF Ordered
    <3> QED
      BY <1>3, <1>4, <3>2, <3>3, <3>4
  <2> QED
    BY <1>3, <1>4, <2>1, <2>2, <2>3
<1> QED
  BY <1>7 DEF Ordered, r, p

LEMMA OrderedRemove ==
  ASSUME NEW arr \in Seq(Handles), Ordered(arr), NEW p \in 1..Len(arr)
  PROVE  Ordered(RemoveAt(arr, p))
<1> DEFINE r == RemoveAt(arr, p)
<1>1. /\ r \in Seq(Handles) /\ Len(r) = Len(arr) - 1
      /\ \A i \in 1..(Len(arr) - 1) : r[i] = IF i < p THEN arr[i] ELSE arr[i + 1]
  BY Removed
<1> HIDE DEF r
<1>2. DOMAIN r = 1..(Len(arr) - 1) /\ DOMAIN arr = 1..Len(arr) /\ Len(arr) \in Nat
  BY <1>1
<1> DEFINE old(i) == IF i < p THEN i ELSE i + 1
<1>3. \A i \in DOMAIN r : old(i) \in DOMAIN arr /\ r[i] = arr[old(i)]
  BY <1>1, <1>2
<1>4. \A i, j \in DOMAIN r : i < j => old(i) < old(j)
  BY <1>2
<1> HIDE DEF old
<1> QED
  BY <1>3, <1>4 DEF Ordered, r

LEMMA OrderedTail ==
  ASSUME NEW arr \in Seq(Handles), Ordered(arr), arr # <<>>
  PROVE  Ordered(Tail(arr))
<1> DEFINE r == Tail(arr)
<1>1. r \in Seq(Handles) /\ Len(r) = Len(arr) - 1 /\ \A i \in 1..Len(r) : r[i] = arr[i + 1]
  BY HeadTailProperties
<1> HIDE DEF r
<1>2. DOMAIN r = 1..(Len(arr) - 1) /\ DOMAIN arr = 1..Len(arr) /\ Len(arr) \in Nat
  BY <1>1
<1>3. \A i \in DOMAIN r : i + 1 \in DOMAIN arr /\ r[i] = arr[i + 1]
  BY <1>1, <1>2
<1>4. \A i, j \in DOMAIN r : i < j => i + 1 < j + 1
  BY <1>2
<1> QED
  BY <1>3, <1>4 DEF Ordered, r

-----------------------------------------------------------------------------
(* What the methods keep.                                                  *)

\* The array is sorted, and the manager knows tokens of T only.
Sane(m, T) ==
  /\ m \in ManagerType
  /\ Ordered(m.arr)
  /\ \A h \in Range(m.arr) : Tok(h) \in T
  /\ \A c \in Conns : m.linked[c] # None => Tok(m.linked[c]) \in T

\* A timer fires when the first token expires.
Covered(m, now) ==
  m.arr # <<>> /\ Dated(m.arr[1])
    => m.timer # None /\ (m.timer <= Exp[Tok(m.arr[1])] \/ m.timer <= now)

\* The connection c is linked to a token that does not expire, or it is one of those
\* of the object it is linked to, which is in the array or, by W, about to be
\* notified to c; or the token is in R, or its object is astray.
Kept(m, c, W, R) ==
  LET h == m.linked[c]
  IN  h # None /\ Dated(h)
        => \/ c \in m.conns[h] /\ (h \in Range(m.arr) \/ <<h, c>> \in W)
           \/ Tok(h) \in R
           \/ h \in m.astray

LEMMA ManagerFields ==
  ASSUME NEW m \in ManagerType
  PROVE  /\ m.arr \in Seq(Handles) /\ m.conns \in [Handles -> SUBSET Conns]
         /\ m.linked \in [Conns -> Handles \cup {None}] /\ m.timer \in Nat \cup {None}
         /\ m.astray \subseteq Handles
BY DEF ManagerType

LEMMA DeadlineFits ==
  ASSUME NEW t \in Tokens, NEW now \in Nat
  PROVE  /\ Deadline(t, now) \in Nat
         /\ Exp[t] # Never => Deadline(t, now) <= Exp[t] \/ Deadline(t, now) <= now
BY Dates, TokenManagerAssumption DEF Deadline

LEMMA RunTimerFits ==
  ASSUME NEW m, NEW T, Sane(m, T), NEW now \in Nat, NEW W, NEW R
  PROVE  /\ Sane(RunTimer(m, now), T) /\ Covered(RunTimer(m, now), now)
         /\ \A c \in Conns : Kept(m, c, W, R) => Kept(RunTimer(m, now), c, W, R)
<1> DEFINE n == RunTimer(m, now)
<1>1. CASE m.arr = <<>>
  BY <1>1 DEF RunTimer, Covered
<1>2. CASE m.arr # <<>>
  <2> DEFINE t == Tok(m.arr[1])
  <2>1. m.arr[1] \in Handles
    BY <1>2, ManagerFields DEF Sane
  <2>2. /\ n.arr = m.arr /\ n.linked = m.linked /\ n.conns = m.conns /\ n.astray = m.astray
        /\ n.timer = Deadline(t, now) /\ n \in ManagerType
    BY <1>2, <2>1, Dates, DeadlineFits DEF RunTimer, Sane, ManagerType
  <2>3. n.timer # None
    BY <2>1, <2>2, Dates, DeadlineFits, TokenManagerAssumption
  <2> QED
    BY <2>1, <2>2, <2>3, Dates, DeadlineFits DEF Sane, Covered, Kept, Dated
<1> QED
  BY <1>1, <1>2

\* deleteByIndex: the connections of another object than the one meant, h, keep what
\* they had, or theirs is astray.
LEMMA DeleteAtFits ==
  ASSUME NEW m, NEW T, Sane(m, T), NEW pos \in Nat, NEW h, NEW now \in Nat, NEW W, NEW R
  PROVE  /\ Sane(DeleteAt(m, pos, h), T)
         /\ Covered(m, now) => Covered(DeleteAt(m, pos, h), now)
         /\ DeleteAt(m, pos, h).linked = m.linked /\ DeleteAt(m, pos, h).conns = m.conns
         /\ Range(DeleteAt(m, pos, h).arr) \subseteq Range(m.arr)
         /\ \A c \in Conns :
              /\ Kept(m, c, W, R)
              /\ m.linked[c] = h => c \notin m.conns[h] \/ Tok(h) \in R
              => Kept(DeleteAt(m, pos, h), c, W, R)
<1> DEFINE n == DeleteAt(m, pos, h)
<1>1. CASE pos \notin DOMAIN m.arr
  BY <1>1 DEF DeleteAt
<1>2. CASE pos \in DOMAIN m.arr
  <2> DEFINE a == RemoveAt(m.arr, pos)
  <2>1. /\ m.arr \in Seq(Handles) /\ pos \in 1..Len(m.arr) /\ Len(m.arr) \in Nat
        /\ m.arr[pos] \in Handles
    BY <1>2, ManagerFields DEF Sane
  <2>2. /\ a \in Seq(Handles) /\ Len(a) = Len(m.arr) - 1
        /\ \A i \in 1..(Len(m.arr) - 1) : a[i] = IF i < pos THEN m.arr[i] ELSE m.arr[i + 1]
    BY <2>1, Removed
  <2>3. Range(a) \subseteq Range(m.arr) /\ Range(m.arr) \subseteq Range(a) \cup {m.arr[pos]}
    BY <2>1, RemovedRange
  <2>4. Ordered(a)
    BY <2>1, OrderedRemove DEF Sane
  <2> HIDE DEF a
  <2>5. /\ n.arr = a /\ n.linked = m.linked /\ n.conns = m.conns /\ n.timer = m.timer
        /\ n.astray = IF m.arr[pos] = h THEN m.astray ELSE m.astray \cup {m.arr[pos]}
        /\ n \in ManagerType
    BY <1>2, <2>1, <2>2 DEF DeleteAt, Sane, ManagerType, a
  <2> HIDE DEF n
  <2>6. Sane(n, T)
    BY <2>3, <2>4, <2>5 DEF Sane
  <2>7. ASSUME Covered(m, now) PROVE Covered(n, now)
    <3> SUFFICES ASSUME a # <<>>, Dated(a[1])
                 PROVE  n.timer # None /\ (n.timer <= Exp[Tok(a[1])] \/ n.timer <= now)
      BY <2>5 DEF Covered
    <3>1. Len(a) >= 1 /\ Len(m.arr) >= 2 /\ m.arr # <<>>
      BY <2>1, <2>2
    <3>2. a[1] = m.arr[1] \/ a[1] = m.arr[2]
      BY <2>1, <2>2, <3>1
    <3>3. /\ m.arr[1] \in Handles /\ m.arr[2] \in Handles /\ 1 \in DOMAIN m.arr
          /\ 2 \in DOMAIN m.arr
      BY <2>1, <3>1
    <3>4. a[1] # m.arr[1] => Dated(m.arr[1]) /\ Exp[Tok(m.arr[1])] < Exp[Tok(a[1])]
      BY <3>2, <3>3 DEF Sane, Ordered
    <3>5. Dated(m.arr[1]) /\ Exp[Tok(m.arr[1])] <= Exp[Tok(a[1])]
      BY <3>2, <3>3, <3>4, Dates DEF Dated
    <3>6. m.timer # None /\ (m.timer <= Exp[Tok(m.arr[1])] \/ m.timer <= now)
      BY <2>7, <3>1, <3>5 DEF Covered
    <3>7. m.timer \in Nat /\ Exp[Tok(m.arr[1])] \in Nat /\ Exp[Tok(a[1])] \in Nat
      BY <3>2, <3>3, <3>5, <3>6, Dates, ManagerFields DEF Dated, Sane
    <3> QED
      BY <2>5, <3>5, <3>6, <3>7
  <2>8. ASSUME NEW c \in Conns, Kept(m, c, W, R),
               m.linked[c] = h => c \notin m.conns[h] \/ Tok(h) \in R
        PROVE  Kept(n, c, W, R)
    <3> DEFINE g == m.linked[c]
    <3> SUFFICES ASSUME g # None, Dated(g)
                 PROVE  \/ c \in m.conns[g] /\ (g \in Range(a) \/ <<g, c>> \in W)
                        \/ Tok(g) \in R \/ g \in n.astray
      BY <2>5 DEF Kept
    <3>1. CASE g \in Range(m.arr) /\ c \in m.conns[g]
      <4>1. CASE g = m.arr[pos] /\ g = h
        BY <2>8, <3>1, <4>1
      <4>2. CASE g = m.arr[pos] /\ g # h
        BY <2>5, <4>2
      <4>3. CASE g # m.arr[pos]
        BY <2>3, <3>1, <4>3
      <4> QED
        BY <4>1, <4>2, <4>3
    <3> QED
      BY <2>5, <2>8, <3>1 DEF Kept
  <2> QED
    BY <2>3, <2>5, <2>6, <2>7, <2>8 DEF n
<1> QED
  BY <1>1, <1>2

\* removeConnectionLinkedToToken: the connection c leaves the object h.
LEMMA RemoveLinkedFits ==
  ASSUME NEW m, NEW T, Sane(m, T), NEW c \in Conns, NEW h \in Handles, NEW now \in Nat,
         NEW W, NEW R
  PROVE  /\ Sane(RemoveLinked(m, c, h), T)
         /\ Covered(m, now) => Covered(RemoveLinked(m, c, h), now)
         /\ RemoveLinked(m, c, h).linked = m.linked
         /\ Range(RemoveLinked(m, c, h).arr) \subseteq Range(m.arr)
         /\ \A d \in Conns : Kept(m, d, W, R) /\ (d # c \/ m.linked[d] # h)
                             => Kept(RemoveLinked(m, c, h), d, W, R)
<1> DEFINE n == [m EXCEPT !.conns[h] = @ \ {c}]
           pos == Search(n.arr, Tok(h))
<1>1. /\ n.arr = m.arr /\ n.linked = m.linked /\ n.timer = m.timer /\ n.astray = m.astray
      /\ n.conns = [m.conns EXCEPT ![h] = @ \ {c}] /\ n \in ManagerType
  BY DEF Sane, ManagerType
<1>2. RemoveLinked(m, c, h) = IF n.conns[h] = {} THEN DeleteAt(n, pos, h) ELSE n
  BY DEF RemoveLinked
<1>3. m.arr \in Seq(Handles) /\ Tok(h) \in Tokens
  BY ManagerFields, Dates DEF Sane
<1>4. pos \in Nat
  BY <1>1, <1>3, SearchFinds
<1> HIDE DEF n, pos
<1>5. Sane(n, T)
  BY <1>1 DEF Sane
<1>6. Covered(m, now) => Covered(n, now)
  BY <1>1 DEF Covered
<1>7. ASSUME NEW d \in Conns, Kept(m, d, W, R), d # c \/ m.linked[d] # h
      PROVE  Kept(n, d, W, R)
  <2>1. m.linked[d] # None /\ d \in m.conns[m.linked[d]] => d \in n.conns[m.linked[d]]
    BY <1>1, <1>7, ManagerFields DEF Sane
  <2> QED
    BY <1>1, <1>7, <2>1 DEF Kept
<1>8. CASE n.conns[h] # {}
  BY <1>1, <1>2, <1>5, <1>6, <1>7, <1>8
<1>9. CASE n.conns[h] = {}
  <2>1. /\ Sane(DeleteAt(n, pos, h), T)
        /\ Covered(n, now) => Covered(DeleteAt(n, pos, h), now)
        /\ DeleteAt(n, pos, h).linked = n.linked
        /\ Range(DeleteAt(n, pos, h).arr) \subseteq Range(n.arr)
        /\ \A d \in Conns : Kept(n, d, W, R) => Kept(DeleteAt(n, pos, h), d, W, R)
    BY <1>4, <1>5, <1>9, DeleteAtFits
  <2> QED
    BY <1>1, <1>2, <1>6, <1>7, <1>9, <2>1
<1> QED
  BY <1>8, <1>9

LEMMA FreshFits ==
  ASSUME NEW m, NEW t, NEW held, HasCopy(m, t, held)
  PROVE  /\ Fresh(m, t, held) \in Handles /\ Tok(Fresh(m, t, held)) = t
         /\ Fresh(m, t, held) \notin held \cup Range(m.arr)
         /\ \A c \in Conns : m.linked[c] # Fresh(m, t, held)
BY DEF HasCopy, Fresh, Unused

LEMMA HasCopyKept ==
  ASSUME NEW m, NEW n, n.linked = m.linked, Range(n.arr) \subseteq Range(m.arr),
         NEW t, NEW held, HasCopy(m, t, held)
  PROVE  HasCopy(n, t, held)
<1>1. Unused(m, held) \subseteq Unused(n, held)
  BY DEF Unused
<1> QED
  BY <1>1 DEF HasCopy

LEMMA AddFits ==
  ASSUME NEW m, NEW T, Sane(m, T), NEW t \in Tokens \cap T, NEW cs \in SUBSET Conns,
         NEW held, HasCopy(m, t, held), NEW now \in Nat, NEW W, NEW R,
         Exp[t] # Never => \A g \in Range(m.arr) : Tok(g) # t
  PROVE  /\ Sane(Add(m, t, cs, held, now), T)
         /\ Covered(m, now) => Covered(Add(m, t, cs, held, now), now)
         /\ \A c \in Conns : c \in cs \/ Kept(m, c, W, R)
                             => Kept(Add(m, t, cs, held, now), c, W, R)
         /\ \A c \in Conns : Add(m, t, cs, held, now).linked[c] =
                               IF c \in cs THEN Fresh(m, t, held) ELSE m.linked[c]
         /\ \A g \in Handles \ {Fresh(m, t, held)} :
              Add(m, t, cs, held, now).conns[g] = m.conns[g]
<1> DEFINE h == Fresh(m, t, held)
           p == Place(m.arr, t)
           a == InsertAt(m.arr, p, h)
           n == [m EXCEPT !.arr = InsertAt(@, Place(@, t), h),
                          !.conns[h] = cs,
                          !.linked = [c \in Conns |-> IF c \in cs THEN h ELSE @[c]],
                          !.astray = @ \ {h}]
<1>1. /\ h \in Handles /\ Tok(h) = t /\ h \notin Range(m.arr) /\ h # None
      /\ \A c \in Conns : m.linked[c] # h
  BY FreshFits, Dates
<1>2. m.arr \in Seq(Handles) /\ Ordered(m.arr) /\ Len(m.arr) \in Nat
  BY ManagerFields DEF Sane
<1>3. p \in 1..(Len(m.arr) + 1) /\ \A i \in 1..Len(m.arr) : i < p <=> StaysBefore(m.arr[i], t)
  BY <1>2, PlaceFits
<1>4. Add(m, t, cs, held, now) = IF Tok(n.arr[1]) = t THEN RunTimer(n, now) ELSE n
  BY DEF Add
<1> HIDE DEF h
<1>5. Ordered(a)
  BY <1>1, <1>2, OrderedInsert DEF Dated
<1> HIDE DEF p
<1>6. /\ a \in Seq(Handles) /\ Len(a) = Len(m.arr) + 1
      /\ \A i \in 1..(Len(m.arr) + 1) :
           a[i] = IF i < p THEN m.arr[i] ELSE IF i = p THEN h ELSE m.arr[i - 1]
  <2> DEFINE s == m.arr
  <2>1. s \in Seq(Handles) /\ h \in Handles /\ p \in 1..(Len(s) + 1)
    BY <1>1, <1>2, <1>3
  <2>2. a = InsertAt(s, p, h)
    OBVIOUS
  <2> HIDE DEF s, a
  <2>3. /\ InsertAt(s, p, h) \in Seq(Handles) /\ Len(InsertAt(s, p, h)) = Len(s) + 1
        /\ \A i \in 1..(Len(s) + 1) :
             InsertAt(s, p, h)[i] = IF i < p THEN s[i] ELSE IF i = p THEN h ELSE s[i - 1]
    BY <2>1, Inserted
  <2> QED
    BY <2>2, <2>3 DEF s
<1>7. Range(a) = Range(m.arr) \cup {h}
  BY <1>1, <1>2, <1>3, InsertedRange
<1> HIDE DEF a
<1>8. /\ n.arr = a /\ n.timer = m.timer
      /\ n.conns = [m.conns EXCEPT ![h] = cs]
      /\ n.linked = [c \in Conns |-> IF c \in cs THEN h ELSE m.linked[c]]
      /\ n.astray = m.astray \ {h}
      /\ n \in ManagerType
  BY <1>1, <1>6 DEF Sane, ManagerType, a, p
<1> HIDE DEF n
<1>9. Sane(n, T)
  BY <1>1, <1>5, <1>7, <1>8 DEF Sane
<1>10. ASSUME NEW c \in Conns, c \in cs \/ Kept(m, c, W, R) PROVE Kept(n, c, W, R)
  <2>1. CASE c \in cs
    BY <1>1, <1>7, <1>8, <2>1, ManagerFields DEF Kept, Sane
  <2>2. CASE c \notin cs
    <3>1. n.linked[c] = m.linked[c] /\ m.linked[c] # h
      BY <1>1, <1>8, <2>2
    <3>2. m.linked[c] # None => n.conns[m.linked[c]] = m.conns[m.linked[c]]
      BY <1>8, <3>1, ManagerFields DEF Sane
    <3> QED
      BY <1>7, <1>8, <1>10, <2>2, <3>1, <3>2 DEF Kept
  <2> QED
    BY <2>1, <2>2
<1>11. /\ \A c \in Conns : n.linked[c] = IF c \in cs THEN h ELSE m.linked[c]
       /\ \A g \in Handles \ {h} : n.conns[g] = m.conns[g]
  BY <1>8, ManagerFields DEF Sane
<1>12. CASE Tok(n.arr[1]) = t
  <2>1. RunTimer(n, now).linked = n.linked /\ RunTimer(n, now).conns = n.conns
    BY <1>8, ManagerFields DEF RunTimer, ManagerType
  <2>2. /\ Sane(RunTimer(n, now), T) /\ Covered(RunTimer(n, now), now)
        /\ \A c \in Conns : Kept(n, c, W, R) => Kept(RunTimer(n, now), c, W, R)
    BY <1>9, RunTimerFits
  <2> QED
    BY <1>4, <1>10, <1>11, <1>12, <2>1, <2>2 DEF h
<1>13. CASE Tok(n.arr[1]) # t
  <2>1. p # 1
    BY <1>1, <1>2, <1>6, <1>8, <1>13
  <2>2. a[1] = m.arr[1] /\ m.arr # <<>>
    BY <1>2, <1>3, <1>6, <2>1
  <2>3. Covered(m, now) => Covered(n, now)
    BY <1>8, <2>2 DEF Covered
  <2> QED
    BY <1>4, <1>9, <1>10, <1>11, <1>13, <2>3 DEF h
<1> QED
  BY <1>12, <1>13

LEMMA LinkFits ==
  ASSUME NEW m, NEW T, Sane(m, T), NEW t \in (Tokens \cap T) \cup {None}, NEW c \in Conns,
         NEW held, t # None => HasCopy(m, t, held), NEW now \in Nat, NEW W, NEW R
  PROVE  /\ Sane(Link(m, t, c, held, now), T)
         /\ Covered(m, now) => Covered(Link(m, t, c, held, now), now)
         /\ \A d \in Conns : Kept(m, d, W, R) => Kept(Link(m, t, c, held, now), d, W, R)
<1> DEFINE n   == IF m.linked[c] = None THEN m ELSE RemoveLinked(m, c, m.linked[c])
           pos == Search(n.arr, t)
           l   == [n EXCEPT !.conns[n.arr[pos]] = @ \cup {c}, !.linked[c] = n.arr[pos]]
<1>1. CASE t = None \/ (m.linked[c] # None /\ Tok(m.linked[c]) = t)
  BY <1>1 DEF Link
<1>2. CASE ~(t = None \/ (m.linked[c] # None /\ Tok(m.linked[c]) = t))
  <2>1. Link(m, t, c, held, now) = IF pos = 0 THEN Add(n, t, {c}, held, now) ELSE l
    BY <1>2 DEF Link
  <2>2. t \in Tokens \cap T /\ HasCopy(m, t, held)
    BY <1>2
  <2>3. /\ Sane(n, T) /\ n.linked = m.linked /\ Range(n.arr) \subseteq Range(m.arr)
        /\ Covered(m, now) => Covered(n, now)
        /\ \A d \in Conns \ {c} : Kept(m, d, W, R) => Kept(n, d, W, R)
    <3>1. CASE m.linked[c] = None
      BY <3>1
    <3>2. CASE m.linked[c] # None
      <4>1. m.linked[c] \in Handles
        BY <3>2, ManagerFields DEF Sane
      <4> QED
        BY <3>2, <4>1, RemoveLinkedFits
    <3> QED
      BY <3>1, <3>2
  <2> HIDE DEF n
  <2>4. HasCopy(n, t, held)
    BY <2>2, <2>3, HasCopyKept
  <2>5. /\ n.arr \in Seq(Handles) /\ pos \in 0..Len(n.arr) /\ Len(n.arr) \in Nat
        /\ pos # 0 => Tok(n.arr[pos]) = t
        /\ pos = 0 /\ Exp[t] # Never => \A h \in Range(n.arr) : Tok(h) # t
    BY <2>2, <2>3, ManagerFields, SearchFinds DEF Sane
  <2> HIDE DEF pos
  <2>6. CASE pos = 0
    <3> DEFINE cs == {c}
    <3>1. cs \in SUBSET Conns /\ \A d \in Conns : d \in cs \/ d \in Conns \ {c}
      OBVIOUS
    <3> HIDE DEF cs
    <3>2. /\ Sane(Add(n, t, cs, held, now), T)
          /\ Covered(n, now) => Covered(Add(n, t, cs, held, now), now)
          /\ \A d \in Conns : d \in cs \/ Kept(n, d, W, R)
                              => Kept(Add(n, t, cs, held, now), d, W, R)
      <4>1. /\ Sane(n, T) /\ t \in Tokens \cap T /\ cs \in SUBSET Conns /\ HasCopy(n, t, held)
            /\ Exp[t] # Never => \A g \in Range(n.arr) : Tok(g) # t
        BY <2>2, <2>3, <2>4, <2>5, <2>6, <3>1
      <4> QED
        BY <4>1, AddFits
    <3>3. Link(m, t, c, held, now) = Add(n, t, cs, held, now)
      BY <2>1, <2>6 DEF cs
    <3> QED
      BY <2>3, <3>1, <3>2, <3>3
  <2>7. CASE pos # 0
    <3> DEFINE h == n.arr[pos]
    <3>1. h \in Handles /\ h \in Range(n.arr) /\ Tok(h) = t /\ h # None
      BY <2>5, <2>7, Dates DEF Range
    <3>2. /\ l.arr = n.arr /\ l.timer = n.timer /\ l.astray = n.astray
          /\ l.conns = [n.conns EXCEPT ![h] = @ \cup {c}]
          /\ l.linked = [n.linked EXCEPT ![c] = h]
          /\ l \in ManagerType
      BY <2>3, <3>1 DEF Sane, ManagerType
    <3> HIDE DEF h, l
    <3>3. Sane(l, T)
      BY <2>2, <2>3, <3>1, <3>2, ManagerFields DEF Sane
    <3>4. Covered(m, now) => Covered(l, now)
      BY <2>3, <3>2 DEF Covered
    <3>5. ASSUME NEW d \in Conns, Kept(m, d, W, R) PROVE Kept(l, d, W, R)
      <4>1. CASE d = c
        BY <2>3, <3>1, <3>2, <4>1, ManagerFields DEF Kept, Sane
      <4>2. CASE d # c
        <5>1. l.linked[d] = n.linked[d] /\ Kept(n, d, W, R)
          BY <2>3, <3>2, <3>5, <4>2, ManagerFields DEF Sane
        <5>2. n.linked[d] # None => n.conns[n.linked[d]] \subseteq l.conns[n.linked[d]]
          BY <2>3, <3>2, ManagerFields DEF Sane
        <5> QED
          BY <3>2, <5>1, <5>2 DEF Kept
      <4> QED
        BY <4>1, <4>2
    <3> QED
      BY <2>1, <2>7, <3>3, <3>4, <3>5
  <2> QED
    BY <2>6, <2>7
<1> QED
  BY <1>1, <1>2

LEMMA UnlinkFits ==
  ASSUME NEW m, NEW T, Sane(m, T), NEW t \in Tokens \cup {None}, NEW c \in Conns,
         NEW now \in Nat, NEW W, NEW R
  PROVE  /\ Sane(Unlink(m, t, c), T)
         /\ Covered(m, now) => Covered(Unlink(m, t, c), now)
         /\ \A d \in Conns : Kept(m, d, W, R) => Kept(Unlink(m, t, c), d, W, R)
<1> DEFINE pos == Search(m.arr, t)
           n   == RemoveLinked(m, c, m.arr[pos])
           u   == [n EXCEPT !.linked[c] = None]
<1>1. CASE t = None \/ pos = 0
  BY <1>1 DEF Unlink
<1>2. CASE ~(t = None \/ pos = 0)
  <2>1. Unlink(m, t, c) = IF n.linked[c] # None /\ Tok(n.linked[c]) = t THEN u ELSE n
    BY <1>2 DEF Unlink
  <2>2. m.arr[pos] \in Handles /\ Tok(m.arr[pos]) = t
    BY <1>2, ManagerFields, SearchFinds DEF Sane
  <2> HIDE DEF pos
  <2>3. /\ Sane(n, T) /\ n.linked = m.linked
        /\ Covered(m, now) => Covered(n, now)
        /\ \A d \in Conns : Kept(m, d, W, R) /\ (d # c \/ m.linked[d] # m.arr[pos])
                            => Kept(n, d, W, R)
    BY <2>2, RemoveLinkedFits
  <2> HIDE DEF n
  <2>4. CASE n.linked[c] # None /\ Tok(n.linked[c]) = t
    <3>1. /\ u.arr = n.arr /\ u.timer = n.timer /\ u.astray = n.astray /\ u.conns = n.conns
          /\ u.linked = [n.linked EXCEPT ![c] = None] /\ u \in ManagerType
      BY <2>3 DEF Sane, ManagerType
    <3> HIDE DEF u
    <3>2. Sane(u, T)
      BY <2>3, <3>1, ManagerFields DEF Sane
    <3>3. ASSUME NEW d \in Conns, Kept(m, d, W, R) PROVE Kept(u, d, W, R)
      BY <2>3, <3>1, <3>3, ManagerFields DEF Sane, Kept
    <3>4. Covered(n, now) => Covered(u, now)
      BY <3>1 DEF Covered
    <3> QED
      BY <2>1, <2>3, <2>4, <3>2, <3>3, <3>4
  <2>5. CASE ~(n.linked[c] # None /\ Tok(n.linked[c]) = t)
    <3>1. m.linked[c] # m.arr[pos]
      BY <2>2, <2>3, <2>5, Dates
    <3> QED
      BY <2>1, <2>3, <2>5, <3>1
  <2> QED
    BY <2>4, <2>5
<1> QED
  BY <1>1, <1>2

LEMMA RemoveConnectionFits ==
  ASSUME NEW m, NEW T, Sane(m, T), NEW c \in Conns, NEW now \in Nat, NEW W, NEW R
  PROVE  /\ Sane(RemoveConnection(m, c), T)
         /\ Covered(m, now) => Covered(RemoveConnection(m, c), now)
         /\ \A d \in Conns : Kept(m, d, W, R) => Kept(RemoveConnection(m, c), d, W, R)
<1>1. CASE m.linked[c] = None
  BY <1>1 DEF RemoveConnection
<1>2. CASE m.linked[c] # None
  <2>1. Tok(m.linked[c]) \in Tokens
    BY <1>2, ManagerFields, Dates DEF Sane
  <2> QED
    BY <1>2, <2>1, UnlinkFits DEF RemoveConnection
<1> QED
  BY <1>1, <1>2

LEMMA RefreshFits ==
  ASSUME NEW m, NEW T, Sane(m, T), NEW old \in Tokens, NEW new \in Tokens \cap T,
         NEW held, HasCopy(m, new, held), NEW now \in Nat, NEW W, NEW R,
         \A h \in Range(m.arr) : Tok(h) # new
  PROVE  /\ Sane(Refresh(m, old, new, held, now), T)
         /\ Covered(m, now) => Covered(Refresh(m, old, new, held, now), now)
         /\ \A d \in Conns : Kept(m, d, W, R) => Kept(Refresh(m, old, new, held, now), d, W, R)
<1> DEFINE pos == Search(m.arr, old)
           h   == m.arr[pos]
           cs  == m.conns[h]
           n   == Add(m, new, cs, held, now)
<1>1. CASE pos = 0 \/ old = new
  BY <1>1 DEF Refresh
<1>2. CASE ~(pos = 0 \/ old = new)
  <2>1. Refresh(m, old, new, held, now) = DeleteAt(n, pos, h)
    BY <1>2 DEF Refresh
  <2>2. pos \in 1..Len(m.arr) /\ pos \in Nat /\ h \in Handles /\ h \in Range(m.arr)
    <3>1. m.arr \in Seq(Handles) /\ pos \in 1..Len(m.arr)
      BY <1>2, ManagerFields, SearchFinds DEF Sane
    <3> HIDE DEF pos
    <3> QED
      BY <3>1 DEF Range
  <2> HIDE DEF pos, h
  <2>3. cs \in SUBSET Conns
    BY <2>2, ManagerFields DEF Sane
  <2> DEFINE f == Fresh(m, new, held)
  <2>4. f \notin Range(m.arr)
    BY FreshFits
  <2>5. cs = m.conns[h]
    OBVIOUS
  <2> HIDE DEF cs
  <2>6. /\ Sane(n, T)
        /\ Covered(m, now) => Covered(n, now)
        /\ \A c \in Conns : c \in cs \/ Kept(m, c, W, R) => Kept(n, c, W, R)
        /\ \A c \in Conns : n.linked[c] = IF c \in cs THEN f ELSE m.linked[c]
        /\ \A g \in Handles \ {f} : n.conns[g] = m.conns[g]
    <3>1. Exp[new] # Never => \A g \in Range(m.arr) : Tok(g) # new
      OBVIOUS
    <3>2. Sane(n, T) /\ (Covered(m, now) => Covered(n, now))
      BY <2>3, <3>1, AddFits
    <3>3. \A c \in Conns : c \in cs \/ Kept(m, c, W, R) => Kept(n, c, W, R)
      BY <2>3, <3>1, AddFits
    <3>4. /\ \A c \in Conns : n.linked[c] = IF c \in cs THEN f ELSE m.linked[c]
          /\ \A g \in Handles \ {f} : n.conns[g] = m.conns[g]
      BY <2>3, <3>1, AddFits
    <3> QED
      BY <3>2, <3>3, <3>4
  <2> HIDE DEF n, f
  <2>7. \A d \in Conns : n.linked[d] = h => d \notin n.conns[h]
    BY <2>2, <2>4, <2>5, <2>6
  <2>8. /\ Sane(DeleteAt(n, pos, h), T)
        /\ Covered(n, now) => Covered(DeleteAt(n, pos, h), now)
        /\ \A d \in Conns :
             Kept(n, d, W, R) /\ (n.linked[d] = h => d \notin n.conns[h] \/ Tok(h) \in R)
             => Kept(DeleteAt(n, pos, h), d, W, R)
    BY <2>2, <2>6, DeleteAtFits
  <2> QED
    BY <2>1, <2>6, <2>7, <2>8
<1> QED
  BY <1>1, <1>2

LEMMA CollectFits ==
  ASSUME NEW m, NEW T, Sane(m, T), NEW held, NEW now \in Nat, NEW W, NEW R
  PROVE  /\ Sane(Collect(m, held), T)
         /\ Covered(m, now) => Covered(Collect(m, held), now)
         /\ Collect(m, held).arr = m.arr /\ Collect(m, held).linked = m.linked
         /\ \A d \in Conns : Kept(m, d, W, R) => Kept(Collect(m, held), d, W, R)
<1> DEFINE n == Collect(m, held)
<1>1. /\ n.arr = m.arr /\ n.linked = m.linked /\ n.timer = m.timer
      /\ n.conns = [h \in Handles |-> IF h \in Unused(m, held) THEN {} ELSE m.conns[h]]
      /\ n.astray = m.astray \ Unused(m, held) /\ n \in ManagerType
  BY DEF Collect, Sane, ManagerType
<1> HIDE DEF n
<1>2. Sane(n, T)
  BY <1>1 DEF Sane
<1>3. \A c \in Conns : m.linked[c] # None =>
        m.linked[c] \in Handles /\ m.linked[c] \notin Unused(m, held)
  BY ManagerFields DEF Sane, Unused
<1> QED
  BY <1>1, <1>2, <1>3 DEF n, Kept, Covered
=============================================================================
