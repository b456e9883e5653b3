---------------------------- MODULE UploadProofs ----------------------------
(* Proofs about LocalUpload, for any clients, uploads, limits, window and time. *)
EXTENDS LocalUpload, FiniteSetTheorems, SequenceTheorems, WellFoundedInduction, TLAPS

-----------------------------------------------------------------------------
(* Rolling windows *)

\* The popleft loop stops at the first hit still in the window.
LEMMA LeastExists ==
    ASSUME NEW T \in SUBSET Nat, T # {}
    PROVE  Min(T) \in T /\ \A n \in T : Min(T) <= n
<1> DEFINE R == {pair \in Nat \X Nat : pair[1] < pair[2]}
<1>1. IsWellFoundedOn(R, Nat)
  BY NatLessThanWellFounded DEF OpToRel
<1> HIDE DEF R
<1>2. PICK x \in T : \A y \in T : ~(<<y, x>> \in R)
  BY <1>1, WFMin
<1>3. ASSUME NEW y \in T PROVE x <= y
  <2>1. x \in Nat /\ y \in Nat /\ <<y, x>> \notin R
    BY <1>2, <1>3
  <2>2. <<y, x>> \in Nat \X Nat /\ <<y, x>>[1] = y /\ <<y, x>>[2] = x
    BY <2>1
  <2>3. ~(y < x)
    BY <2>1, <2>2 DEF R
  <2> QED  BY <2>1, <2>3
<1> QED  BY <1>2, <1>3 DEF Min

LEMMA DroppedAreOld ==
    ASSUME NEW k, NEW c, hits[k][c] \in Seq(Nat), now \in Nat, Window \in Nat
    PROVE  LET h == hits[k][c]  d == Dropped(k, c) IN
           /\ d \in 0..Len(h)
           /\ \A i \in 1..d : h[i] <= now - Window
           /\ d < Len(h) => h[d + 1] > now - Window
<1> DEFINE h == hits[k][c]
           T == {n \in 0..Len(h) : n = Len(h) \/ h[n + 1] > now - Window}
<1>1. Len(h) \in T /\ T \in SUBSET Nat
  OBVIOUS
<1>2. Dropped(k, c) = Min(T)
  BY DEF Dropped
<1>3. Dropped(k, c) \in T /\ \A n \in T : Dropped(k, c) <= n
  BY <1>1, <1>2, LeastExists
<1>4. Len(h) \in Nat /\ Dropped(k, c) \in 0..Len(h) /\ \A j \in 1..Len(h) : h[j] \in Nat
  <2>1. Dropped(k, c) \in 0..Len(h)
    BY <1>3
  <2>2. h \in Seq(Nat)
    OBVIOUS
  <2> HIDE DEF h, T
  <2> QED  BY <2>1, <2>2
<1> HIDE DEF h
<1>5. ASSUME NEW i \in 1..Dropped(k, c) PROVE h[i] <= now - Window
  <2>1. i - 1 \in 0..Len(h) /\ i - 1 < Dropped(k, c) /\ i - 1 + 1 = i
    BY <1>4, <1>5
  <2>2. ~(Dropped(k, c) <= i - 1)
    BY <1>4, <2>1
  <2>3. i - 1 \notin T
    BY <1>3, <2>2
  <2>4. ~(h[i] > now - Window)
    BY <2>1, <2>3
  <2>5. h[i] \in Nat
    BY <1>4, <1>5
  <2> QED  BY <2>4, <2>5
<1> QED  BY <1>3, <1>4, <1>5 DEF h

\* A wait and what is told of it differ by half a second at most, unless the wait
\* is shorter: then it is told as a second.
LEMMA Rounding ==
    ASSUME NEW wait \in Nat
    PROVE  /\ RetryAfter(wait) \in Nat /\ Second * RetryAfter(wait) \in Nat
           /\ 2 * (Second * RetryAfter(wait)) + Second >= 2 * wait
           /\ 2 * wait <= Second => Second * RetryAfter(wait) >= wait
<1> DEFINE s == wait \div Second  m == wait % Second  n == Rounded(wait)
<1>1. /\ Second \in Nat \ {0} /\ s \in Nat /\ m \in 0..Second - 1
      /\ wait = Second * s + m
  BY UploadAssumption
<1>2. \/ n = s /\ 2 * m <= Second
      \/ n = s + 1
  BY <1>1 DEF Rounded
<1> HIDE DEF s, m, n
<1>3. n \in Nat
  BY <1>1, <1>2
<1>4. 2 * (Second * n) + Second >= 2 * wait
  <2>1. Second * s \in Nat /\ Second * (s + 1) = Second * s + Second
    BY <1>1
  <2>2. CASE n = s /\ 2 * m <= Second
    BY <1>1, <2>1, <2>2
  <2>3. CASE n = s + 1
    BY <1>1, <2>1, <2>3
  <2> QED  BY <1>2, <2>2, <2>3
<1> DEFINE a == RetryAfter(wait)
<1>5. a = IF 1 >= n THEN 1 ELSE n
  BY DEF RetryAfter, Larger, n
<1> HIDE DEF a
<1>6. a \in Nat /\ Second * a \in Nat /\ Second * a >= Second * n /\ Second * a >= Second
  <2>1. CASE a = 1 /\ 1 >= n
    <3>1. n = 0 \/ n = 1
      BY <1>3, <2>1
    <3> QED  BY <1>1, <2>1, <3>1
  <2>2. CASE a = n /\ n > 1
    <3>1. PICK b \in Nat : n = b + 1
      <4>1. n - 1 \in Nat /\ n = n - 1 + 1
        BY <1>3, <2>2
      <4> QED  BY <4>1
    <3>2. Second * b \in Nat /\ Second * (b + 1) = Second * b + Second
      BY <1>1
    <3> QED  BY <1>1, <1>3, <2>2, <3>1, <3>2
  <2> QED  BY <1>3, <1>5, <2>1, <2>2
<1>7. Second * n \in Nat
  BY <1>1, <1>3
<1>8. 2 * (Second * a) + Second >= 2 * wait
  BY <1>1, <1>4, <1>6, <1>7
<1>9. 2 * wait <= Second => Second * a >= wait
  BY <1>1, <1>6
<1> QED  BY <1>6, <1>8, <1>9 DEF a

\* What a refused client was told is half a second early at most, and not early
\* when it had waited before.
ToldOK(h, p) ==
    p # None =>
      /\ Len(h) > 0 /\ p.until \in Nat
      /\ 2 * p.until + Second >= 2 * (h[1] + Window)
      /\ p.waited => p.until >= h[1] + Window

\* A window: the hits kept are the last ones allowed, and those dropped are old.
CounterOK(k, h, a, p) ==
    /\ h \in Seq(Nat) /\ a \in Seq(Nat)
    /\ Len(h) <= Len(a) /\ Len(h) <= Limit[k]
    /\ \A i \in 1..Len(h) : h[i] = a[Len(a) - Len(h) + i]
    /\ \A i \in 1..Len(a) - Len(h) : a[i] <= now - Window
    /\ \A i \in 1..Len(a) : a[i] <= now
    /\ \A n \in 1..Len(a) : n > Limit[k] => a[n] - a[n - Limit[k]] >= Window
    /\ ToldOK(h, p)

Table(f) == f = [k \in Kinds |-> [c \in Clients |-> f[k][c]]]

CountersOK ==
    /\ now \in Nat
    /\ Table(hits) /\ Table(accepted) /\ Table(told)
    /\ \A k \in Kinds, c \in Clients :
         CounterOK(k, hits[k][c], accepted[k][c], told[k][c])

LEMMA RecentAreKept ==
    ASSUME CountersOK, NEW k \in Kinds, NEW c \in Clients
    PROVE  LET r == RecentHits(k, c)  a == accepted[k][c] IN
           /\ r \in Seq(Nat) /\ Len(r) = Len(hits[k][c]) - Dropped(k, c)
           /\ Len(r) <= Len(hits[k][c])
           /\ \A i \in 1..Len(r) : r[i] = a[Len(a) - Len(r) + i]
           /\ \A i \in 1..Len(a) - Len(r) : a[i] <= now - Window
<1> DEFINE h == hits[k][c]  a == accepted[k][c]  d == Dropped(k, c)
           r == RecentHits(k, c)
<1>1. CounterOK(k, h, a, told[k][c]) /\ now \in Nat
  BY DEF CountersOK
<1>2. /\ h \in Seq(Nat) /\ a \in Seq(Nat) /\ Len(h) <= Len(a)
      /\ \A i \in 1..Len(h) : h[i] = a[Len(a) - Len(h) + i]
      /\ \A i \in 1..Len(a) - Len(h) : a[i] <= now - Window
  BY <1>1 DEF CounterOK
<1>3. d \in 0..Len(h) /\ \A i \in 1..d : h[i] <= now - Window
  BY <1>1, <1>2, DroppedAreOld, UploadAssumption
<1>4. ASSUME NEW i \in d + 1..Len(h) PROVE h[i] \in Nat
  <2>1. h \in Seq(Nat)
    BY <1>2
  <2>2. i \in 1..Len(h)
    BY <1>2, <1>3
  <2> HIDE DEF h, a, d, r
  <2> QED  BY <2>1, <2>2
<1>5. /\ r \in Seq(Nat)
      /\ Len(r) = IF d + 1 <= Len(h) THEN Len(h) - (d + 1) + 1 ELSE 0
      /\ \A i \in 1..Len(h) - (d + 1) + 1 : r[i] = h[d + 1 + i - 1]
  <2>1. d + 1 \in Int /\ Len(h) \in Int
    BY <1>2, <1>3
  <2> HIDE DEF h, d
  <2>2. /\ SubSeq(h, d + 1, Len(h)) \in Seq(Nat)
        /\ Len(SubSeq(h, d + 1, Len(h))) =
             IF d + 1 <= Len(h) THEN Len(h) - (d + 1) + 1 ELSE 0
        /\ \A i \in 1..Len(h) - (d + 1) + 1 :
             SubSeq(h, d + 1, Len(h))[i] = h[d + 1 + i - 1]
    BY <1>4, <2>1, SubSeqProperties
  <2> QED  BY <2>2 DEF RecentHits, h, d
<1>6. Len(h) \in Nat /\ Len(a) \in Nat /\ Len(r) \in Nat /\ d \in Nat
  <2>1. Len(h) \in Nat /\ Len(a) \in Nat
    BY <1>2
  <2>2. Len(r) \in Nat
    BY <1>5
  <2> QED  BY <1>3, <2>1, <2>2
<1> HIDE DEF h, a, d, r
<1>7. ASSUME NEW i \in 1..d PROVE a[Len(a) - Len(h) + i] <= now - Window
  <2>1. i \in 1..Len(h)
    BY <1>3, <1>6
  <2>2. h[i] = a[Len(a) - Len(h) + i] /\ h[i] <= now - Window
    BY <1>2, <1>3, <2>1
  <2> QED  BY <2>2
<1>8. Len(r) = Len(h) - d /\ \A i \in 1..Len(r) : r[i] = h[d + i]
  <2>1. Len(r) = Len(h) - d
    BY <1>3, <1>5, <1>6
  <2>2. ASSUME NEW i \in 1..Len(r) PROVE r[i] = h[d + i]
    <3>1. i \in 1..Len(h) - (d + 1) + 1 /\ d + 1 + i - 1 = d + i
      BY <1>6, <2>1
    <3> QED  BY <1>5, <3>1
  <2> QED  BY <2>1, <2>2
<1>9. ASSUME NEW i \in 1..Len(r) PROVE r[i] = a[Len(a) - Len(r) + i]
  <2>1. d + i \in 1..Len(h) /\ Len(a) - Len(h) + (d + i) = Len(a) - Len(r) + i
    BY <1>6, <1>8
  <2> QED  BY <1>2, <1>8, <2>1
<1>10. ASSUME NEW i \in 1..Len(a) - Len(r) PROVE a[i] <= now - Window
  <2>1. CASE i <= Len(a) - Len(h)
    <3>1. i \in 1..Len(a) - Len(h)
      BY <1>6, <2>1
    <3> QED  BY <1>2, <3>1
  <2>2. CASE ~(i <= Len(a) - Len(h))
    <3> DEFINE j == i - (Len(a) - Len(h))
    <3>1. j \in 1..d /\ Len(a) - Len(h) + j = i
      BY <1>6, <1>8, <2>2
    <3> QED  BY <1>7, <3>1
  <2> QED  BY <2>1, <2>2
<1>11. Len(r) <= Len(h) /\ r \in Seq(Nat)
  BY <1>5, <1>6, <1>8
<1> QED  BY <1>8, <1>9, <1>10, <1>11 DEF h, a, d, r

LEMMA LimitType == \A k \in Kinds : Limit[k] \in Nat \ {0}
BY UploadAssumption DEF Kinds, Limit

LEMMA TableExcept ==
    ASSUME NEW f, Table(f), NEW k \in Kinds, NEW c \in Clients, NEW v,
           NEW g, g = [f EXCEPT ![k][c] = v]
    PROVE  Table(g)
<1> DEFINE F(l, e) == IF l = k /\ e = c THEN v ELSE f[l][e]
<1>1. g = [l \in Kinds |-> [e \in Clients |-> F(l, e)]]
  BY DEF Table
<1>2. \A l \in Kinds, e \in Clients : g[l][e] = F(l, e)
  BY <1>1
<1>3. Table(g)
  BY <1>1, <1>2, Zenon DEF Table
<1> QED  BY <1>3

\* Other windows do not move with the one of a call.
LEMMA OneCounterMoves ==
    ASSUME CountersOK, NEW k \in Kinds, NEW c \in Clients, NEW h, NEW a, NEW p,
           hits' = [hits EXCEPT ![k][c] = h],
           accepted' = [accepted EXCEPT ![k][c] = a],
           told' = [told EXCEPT ![k][c] = p],
           now' = now, CounterOK(k, h, a, p)
    PROVE  CountersOK'
<1>1. \A l \in Kinds, e \in Clients :
        /\ hits'[l][e] = IF l = k /\ e = c THEN h ELSE hits[l][e]
        /\ accepted'[l][e] = IF l = k /\ e = c THEN a ELSE accepted[l][e]
        /\ told'[l][e] = IF l = k /\ e = c THEN p ELSE told[l][e]
  <2>1. Table(hits) /\ Table(accepted) /\ Table(told)
    BY DEF CountersOK
  <2>2. \A l \in Kinds, e \in Clients :
          hits'[l][e] = IF l = k /\ e = c THEN h ELSE hits[l][e]
    BY <2>1 DEF Table
  <2>3. \A l \in Kinds, e \in Clients :
          accepted'[l][e] = IF l = k /\ e = c THEN a ELSE accepted[l][e]
    BY <2>1 DEF Table
  <2>4. \A l \in Kinds, e \in Clients :
          told'[l][e] = IF l = k /\ e = c THEN p ELSE told[l][e]
    BY <2>1 DEF Table
  <2> QED  BY <2>2, <2>3, <2>4
<1>2. Table(hits') /\ Table(accepted') /\ Table(told')
  BY TableExcept DEF CountersOK
<1>3. ASSUME NEW l \in Kinds, NEW e \in Clients
      PROVE  CounterOK(l, hits[l][e], accepted[l][e], told[l][e])'
  <2>1. CASE l = k /\ e = c
    <3>1. hits'[l][e] = h /\ accepted'[l][e] = a /\ told'[l][e] = p
      BY <1>1, <2>1
    <3> QED  BY <2>1, <3>1 DEF CounterOK
  <2>2. CASE ~(l = k /\ e = c)
    <3>1. /\ hits'[l][e] = hits[l][e] /\ accepted'[l][e] = accepted[l][e]
          /\ told'[l][e] = told[l][e]
      BY <1>1, <2>2
    <3>2. CounterOK(l, hits[l][e], accepted[l][e], told[l][e])
      BY DEF CountersOK
    <3> QED  BY <3>1, <3>2 DEF CounterOK
  <2> QED  BY <2>1, <2>2
<1> QED  BY <1>2, <1>3 DEF CountersOK, Table

LEMMA Appended ==
    ASSUME NEW s \in Seq(Nat), NEW t \in Nat
    PROVE  /\ Append(s, t) \in Seq(Nat) /\ Len(s) \in Nat
           /\ Len(Append(s, t)) = Len(s) + 1 /\ Append(s, t)[Len(s) + 1] = t
           /\ \A i \in 1..Len(s) : Append(s, t)[i] = s[i] /\ s[i] \in Nat
OBVIOUS

LEMMA AllowKeeps ==
    ASSUME CountersOK, NEW k \in Kinds, NEW c \in Clients, Allow(k, c), now' = now
    PROVE  CountersOK'
<1> DEFINE a == accepted[k][c]  r == RecentHits(k, c)
           h2 == Append(r, now)  a2 == Append(a, now)
<1>1. CounterOK(k, hits[k][c], a, told[k][c]) /\ now \in Nat
  BY DEF CountersOK
<1>2. /\ r \in Seq(Nat) /\ Len(r) <= Len(hits[k][c])
      /\ \A i \in 1..Len(r) : r[i] = a[Len(a) - Len(r) + i]
      /\ \A i \in 1..Len(a) - Len(r) : a[i] <= now - Window
  BY RecentAreKept
<1>3. /\ a \in Seq(Nat) /\ Len(hits[k][c]) <= Len(a)
      /\ hits[k][c] \in Seq(Nat)
      /\ \A i \in 1..Len(a) : a[i] <= now
      /\ \A n \in 1..Len(a) : n > Limit[k] => a[n] - a[n - Limit[k]] >= Window
  BY <1>1 DEF CounterOK
<1>4. Len(r) < Limit[k] /\ Limit[k] \in Nat \ {0} /\ Len(r) \in Nat
  BY <1>2, LimitType DEF Allow, Refused
<1>5. /\ hits' = [hits EXCEPT ![k][c] = h2]
      /\ accepted' = [accepted EXCEPT ![k][c] = a2]
      /\ told' = [told EXCEPT ![k][c] = None]
  BY DEF Allow
<1>6. /\ h2 \in Seq(Nat) /\ Len(h2) = Len(r) + 1 /\ h2[Len(r) + 1] = now
      /\ \A i \in 1..Len(r) : h2[i] = r[i]
      /\ a2 \in Seq(Nat) /\ Len(a2) = Len(a) + 1 /\ a2[Len(a) + 1] = now
      /\ \A i \in 1..Len(a) : a2[i] = a[i] /\ a[i] \in Nat
      /\ Len(a) \in Nat /\ Len(r) <= Len(a)
  <2>1. Len(r) <= Len(a)
    BY <1>2, <1>3
  <2> QED  BY <1>1, <1>2, <1>3, <2>1, Appended
<1> HIDE DEF a, r, h2, a2
<1>7. /\ Len(a) \in Nat /\ Len(r) \in Nat /\ Len(r) <= Len(a)
       /\ Len(h2) = Len(r) + 1 /\ Len(a2) = Len(a) + 1
       /\ Len(r) < Limit[k] /\ Limit[k] \in Nat \ {0}
  BY <1>4, <1>6
<1>8. ASSUME NEW i \in 1..Len(h2) PROVE h2[i] = a2[Len(a2) - Len(h2) + i]
  <2>1. Len(a2) - Len(h2) + i = Len(a) - Len(r) + i
    BY <1>7
  <2>2. CASE i = Len(r) + 1
    BY <1>4, <1>6, <2>1, <2>2
  <2>3. CASE i \in 1..Len(r)
    <3>1. Len(a) - Len(r) + i \in 1..Len(a)
      BY <1>7, <2>3
    <3> QED  BY <1>2, <1>6, <2>1, <2>3, <3>1
  <2> QED  BY <1>7, <2>2, <2>3
<1>9. ASSUME NEW i \in 1..Len(a2) - Len(h2) PROVE a2[i] <= now - Window
  <2>1. i \in 1..Len(a) - Len(r) /\ i \in 1..Len(a)
    BY <1>7
  <2> QED  BY <1>2, <1>6, <2>1
<1>10. ASSUME NEW i \in 1..Len(a2) PROVE a2[i] <= now
  <2>1. CASE i \in 1..Len(a)
    BY <1>3, <1>6, <2>1
  <2>2. CASE i = Len(a) + 1
    BY <1>1, <1>6, <2>2
  <2> QED  BY <1>7, <2>1, <2>2
<1>11. ASSUME NEW n \in 1..Len(a2), n > Limit[k]
       PROVE  a2[n] - a2[n - Limit[k]] >= Window
  <2>1. CASE n \in 1..Len(a)
    <3>1. n - Limit[k] \in 1..Len(a)
      BY <1>7, <1>11, <2>1
    <3>2. a[n] - a[n - Limit[k]] >= Window
      BY <1>3, <1>11, <2>1
    <3>3. a2[n] = a[n] /\ a2[n - Limit[k]] = a[n - Limit[k]]
      BY <1>6, <2>1, <3>1
    <3> QED  BY <3>2, <3>3
  <2>2. CASE n = Len(a) + 1
    <3> DEFINE m == n - Limit[k]
    <3>1. m \in 1..Len(a) - Len(r) /\ m \in 1..Len(a)
      BY <1>7, <1>11, <2>2
    <3> HIDE DEF m
    <3>2. a2[m] = a[m] /\ a[m] \in Nat
      BY <1>6, <3>1
    <3>3. a[m] <= now - Window
      BY <1>2, <3>1
    <3>4. a2[n] = now
      BY <1>6, <2>2
    <3> QED  BY <1>1, <3>2, <3>3, <3>4, UploadAssumption DEF m
  <2> QED  BY <1>7, <2>1, <2>2
<1>12. CounterOK(k, h2, a2, None)
  BY <1>4, <1>6, <1>8, <1>9, <1>10, <1>11 DEF CounterOK, ToldOK
<1> QED  BY <1>5, <1>12, OneCounterMoves

\* A refused client has all its hits in the window: the first of them is still
\* the one it was told to wait for.
LEMMA RefuseKeeps ==
    ASSUME CountersOK, NEW k \in Kinds, NEW c \in Clients, Refuse(k, c), now' = now
    PROVE  CountersOK'
<1> DEFINE h == hits[k][c]  a == accepted[k][c]  r == RecentHits(k, c)  d == Dropped(k, c)
           old == told[k][c]
           wait == Head(r) + Window - now
           p == [until |-> now + Second * RetryAfter(wait),
                 waited |-> old # None /\ now >= old.until]
<1>1. CounterOK(k, h, a, old) /\ now \in Nat /\ Window \in Nat
  BY UploadAssumption DEF CountersOK
<1>2. /\ r \in Seq(Nat) /\ Len(r) = Len(h) - d /\ Len(r) <= Len(h)
      /\ \A i \in 1..Len(r) : r[i] = a[Len(a) - Len(r) + i]
      /\ \A i \in 1..Len(a) - Len(r) : a[i] <= now - Window
  BY RecentAreKept
<1>3. Len(r) >= Limit[k] /\ Limit[k] \in Nat \ {0} /\ Len(r) \in Nat
  BY <1>2, LimitType DEF Refuse, Refused
<1>4. /\ h \in Seq(Nat) /\ a \in Seq(Nat) /\ Len(h) <= Len(a) /\ Len(h) <= Limit[k]
      /\ \A i \in 1..Len(h) : h[i] = a[Len(a) - Len(h) + i]
  BY <1>1 DEF CounterOK
<1>5. Len(r) <= Len(a) /\ Len(r) <= Limit[k] /\ Len(r) = Len(h) /\ Len(h) \in Nat
  <2>1. Len(h) \in Nat /\ Len(a) \in Nat
    BY <1>4
  <2> HIDE DEF h, a, r
  <2> QED  BY <1>2, <1>3, <1>4, <2>1
<1>6. d = 0 /\ h[1] > now - Window
  <2>1. d \in 0..Len(h) /\ (d < Len(h) => h[d + 1] > now - Window)
    BY <1>1, <1>4, DroppedAreOld
  <2>2. d = 0 /\ 0 < Len(h)
    <3> HIDE DEF h, r, d
    <3> QED  BY <1>2, <1>3, <1>5, <2>1
  <2>3. 0 + 1 = 1
    OBVIOUS
  <2> HIDE DEF h, r, d
  <2> QED  BY <2>1, <2>2, <2>3
<1>7. Head(r) = r[1] /\ Len(r) > 0 /\ r[1] = h[1] /\ r[1] \in Nat
  <2>1. Head(r) = r[1] /\ Len(r) > 0 /\ r[1] \in Nat
    BY <1>2, <1>3
  <2>2. 1 \in 1..Len(r) /\ 1 \in 1..Len(h)
    <3> HIDE DEF h, r
    <3> QED  BY <1>3, <1>5
  <2>3. r[1] = a[Len(a) - Len(r) + 1] /\ h[1] = a[Len(a) - Len(h) + 1]
    <3> HIDE DEF h, r, a
    <3> QED  BY <1>2, <1>4, <2>2
  <2>4. r[1] = h[1]
    <3> HIDE DEF h, r, a
    <3> QED  BY <1>5, <2>3
  <2> QED  BY <2>1, <2>4
<1>8. wait \in Nat /\ wait = r[1] + Window - now
  BY <1>1, <1>6, <1>7
<1>9. /\ hits' = [hits EXCEPT ![k][c] = r]
      /\ accepted' = [accepted EXCEPT ![k][c] = a]
      /\ told' = [told EXCEPT ![k][c] = p]
  <2>1. accepted = [accepted EXCEPT ![k][c] = a]
    BY DEF CountersOK, Table
  <2> QED  BY <2>1 DEF Refuse
<1>10. ToldOK(h, old)
  BY <1>1 DEF CounterOK
<1>11. ToldOK(r, p)
  <2> HIDE DEF h, a, r, d, wait, old
  <2> DEFINE w == Second * RetryAfter(wait)
  <2>1. w \in Nat /\ 2 * w + Second >= 2 * wait /\ (2 * wait <= Second => w >= wait)
    BY <1>8, Rounding
  <2>2. p.until = now + w /\ (p.waited <=> old # None /\ now >= old.until)
    OBVIOUS
  <2> HIDE DEF w, p
  <2>3. Second \in Nat
    BY UploadAssumption
  <2>4. p.until \in Nat /\ 2 * p.until + Second >= 2 * (r[1] + Window)
    BY <1>1, <1>7, <1>8, <2>1, <2>2, <2>3
  <2>5. ASSUME p.waited PROVE p.until >= r[1] + Window
    <3>1. /\ old.until \in Nat /\ now >= old.until
          /\ 2 * old.until + Second >= 2 * (r[1] + Window)
      BY <1>7, <1>10, <2>2, <2>5 DEF ToldOK
    <3> DEFINE e == r[1] + Window  u == old.until
    <3>2. /\ e \in Nat /\ now \in Nat /\ u \in Nat /\ wait = e - now
          /\ now >= u /\ 2 * u + Second >= 2 * e
      BY <1>1, <1>7, <1>8, <3>1
    <3> HIDE DEF e, u
    <3>3. 2 * e - 2 * now <= Second
      BY <2>3, <3>2
    <3>4. 2 * wait = 2 * e - 2 * now
      BY <3>2
    <3>5. w >= wait
      BY <1>8, <2>1, <2>3, <3>3, <3>4
    <3>6. p.until >= e
      BY <2>1, <2>2, <3>2, <3>5
    <3> QED  BY <3>6 DEF e
  <2> QED  BY <1>7, <2>4, <2>5 DEF ToldOK
<1>12. CounterOK(k, r, a, p)
  BY <1>1, <1>2, <1>5, <1>11 DEF CounterOK
<1> QED  BY <1>9, <1>12, OneCounterMoves

LEMMA TimeKeeps ==
    ASSUME CountersOK, now' = now + 1, UNCHANGED <<hits, accepted, told>>
    PROVE  CountersOK'
<1>1. ASSUME NEW k \in Kinds, NEW c \in Clients
      PROVE  CounterOK(k, hits[k][c], accepted[k][c], told[k][c])'
  <2> DEFINE h == hits[k][c]  a == accepted[k][c]  p == told[k][c]
  <2>1. CounterOK(k, h, a, p) /\ now \in Nat /\ Window \in Nat
    BY UploadAssumption DEF CountersOK
  <2>2. a \in Seq(Nat) /\ h \in Seq(Nat) /\ Len(h) <= Len(a)
    BY <2>1 DEF CounterOK
  <2>3. \A i \in 1..Len(a) : a[i] \in Nat
    BY <2>2
  <2>4. \A i \in 1..Len(a) - Len(h) : i \in 1..Len(a)
    BY <2>2
  <2>5. h' = h /\ a' = a /\ p' = p
    OBVIOUS
  <2> HIDE DEF h, a, p
  <2>6. \A i \in 1..Len(a) - Len(h) : a[i] <= now' - Window
    BY <2>1, <2>3, <2>4 DEF CounterOK
  <2>7. \A i \in 1..Len(a) : a[i] <= now'
    BY <2>1, <2>3 DEF CounterOK
  <2>8. CounterOK(k, h, a, p)'
    BY <2>1, <2>5, <2>6, <2>7 DEF CounterOK
  <2> QED  BY <2>8 DEF h, a, p
<1>2. (Table(hits) /\ Table(accepted) /\ Table(told))' /\ now' \in Nat
  BY DEF CountersOK, Table
<1> QED  BY <1>1, <1>2 DEF CountersOK

\* From the counters: the limits hold, and a client told to wait is let in half a
\* second later, or at once the second time.
LEMMA CountersImply ==
    ASSUME CountersOK PROVE WindowBound /\ SecondWaitIsEnough
<1>1. WindowBound
  <2> SUFFICES ASSUME NEW k \in Kinds, NEW c \in Clients,
                      NEW n \in DOMAIN accepted[k][c], n > Limit[k]
               PROVE  accepted[k][c][n] - accepted[k][c][n - Limit[k]] >= Window
    BY DEF WindowBound
  <2>1. CounterOK(k, hits[k][c], accepted[k][c], told[k][c])
    BY DEF CountersOK
  <2>2. n \in 1..Len(accepted[k][c])
    BY <2>1 DEF CounterOK
  <2> QED  BY <2>1, <2>2 DEF CounterOK
<1>2. ASSUME NEW k \in Kinds, NEW c \in Clients, Len(hits[k][c]) > 0,
             now >= hits[k][c][1] + Window
      PROVE  ~Refused(k, c)
  <2> DEFINE h == hits[k][c]  d == Dropped(k, c)
  <2>1. CounterOK(k, h, accepted[k][c], told[k][c]) /\ now \in Nat
    BY DEF CountersOK
  <2>2. h \in Seq(Nat) /\ Len(h) > 0 /\ Len(h) <= Limit[k] /\ Limit[k] \in Nat
    BY <1>2, <2>1, LimitType DEF CounterOK
  <2>3. h[1] \in Nat /\ h[1] <= now - Window
    BY <1>2, <2>1, <2>2, UploadAssumption
  <2>4. d \in 0..Len(h) /\ (d < Len(h) => h[d + 1] > now - Window)
    BY <2>1, <2>2, DroppedAreOld, UploadAssumption
  <2>5. d # 0
    BY <2>1, <2>2, <2>3, <2>4, UploadAssumption
  <2>6. Len(RecentHits(k, c)) = Len(h) - d
    BY RecentAreKept
  <2> QED  BY <2>2, <2>4, <2>5, <2>6 DEF Refused
<1>3. SecondWaitIsEnough
  <2> SUFFICES ASSUME NEW k \in Kinds, NEW c \in Clients, told[k][c] # None,
                      \/ 2 * now >= 2 * told[k][c].until + Second
                      \/ told[k][c].waited /\ now >= told[k][c].until
               PROVE  ~Refused(k, c)
    BY DEF SecondWaitIsEnough
  <2> DEFINE h == hits[k][c]  p == told[k][c]
  <2>1. CounterOK(k, h, accepted[k][c], p)
    BY DEF CountersOK
  <2>2. /\ now \in Nat /\ Second \in Nat /\ Window \in Nat /\ h \in Seq(Nat)
        /\ Len(h) > 0 /\ p.until \in Nat
        /\ 2 * p.until + Second >= 2 * (h[1] + Window)
        /\ p.waited => p.until >= h[1] + Window
    BY <2>1, UploadAssumption DEF CountersOK, CounterOK, ToldOK
  <2> DEFINE first == h[1]  t == p.until
  <2>3. first \in Nat
    <3>1. \A s \in Seq(Nat) : Len(s) > 0 => s[1] \in Nat
      OBVIOUS
    <3> HIDE DEF h
    <3> QED  BY <2>2, <3>1
  <2>4. now >= first + Window
    <3> HIDE DEF h, p, first, t
    <3>1. t \in Nat /\ 2 * t + Second >= 2 * (first + Window)
      BY <2>2 DEF first, t
    <3>2. CASE 2 * now >= 2 * t + Second
      BY <2>2, <2>3, <3>1, <3>2
    <3>3. CASE p.waited /\ now >= t
      <4>1. t >= first + Window
        BY <2>2, <3>3 DEF first, t
      <4> QED  BY <2>2, <2>3, <3>1, <3>3, <4>1
    <3> QED  BY <3>2, <3>3 DEF p, t
  <2> QED  BY <1>2, <2>2, <2>4
<1> QED  BY <1>1, <1>3
-----------------------------------------------------------------------------
(* Uploads and their slots *)

Step ==
    {"idle", "slot", "check", "open", "body", "rename", "unlink", "mark",
     "delete_final", "delete_part", "release"}
Upload == [step : Step, client : Clients \cup {None}, read : 0..MaxBytes,
           handle : Inodes \cup {None}]

UploadOK(x) ==
    /\ x \in Upload
    /\ x.step # "idle" => x.client \in Clients
    /\ x.step \in {"slot", "check", "open"} => x.handle = None
    /\ x.step = "body" => x.handle \in Inodes

UploadsOK == up = [u \in Uploads |-> up[u]] /\ \A u \in Uploads : UploadOK(up[u])

HasSlot(x) == x.step \notin {"idle", "slot"}
HeldBy(c) == {u \in Uploads : Holds(u) /\ up[u].client = c}
SlotsOK == active \in [Clients -> Nat] /\ SlotsMatch

LEMMA NoUploadIsOK == UploadOK(NoUpload) /\ NoUpload.step = "idle"
BY UploadAssumption DEF UploadOK, NoUpload, Upload, Step

LEMMA UploadMoves ==
    ASSUME UploadsOK, NEW u \in Uploads, NEW x, UploadOK(x), up' = [up EXCEPT ![u] = x]
    PROVE  UploadsOK' /\ \A v \in Uploads : up'[v] = IF v = u THEN x ELSE up[v]
BY DEF UploadsOK, UploadOK

\* An upload that goes on as it was keeps its slot, or is still without one.
LEMMA SlotStays ==
    ASSUME UploadsOK, SlotsOK, NEW u \in Uploads, NEW x, up' = [up EXCEPT ![u] = x],
           HasSlot(x) <=> HasSlot(up[u]),
           HasSlot(x) => x.client = up[u].client, active' = active
    PROVE  SlotsOK'
<1>1. \A v \in Uploads : up'[v] = IF v = u THEN x ELSE up[v]
  BY DEF UploadsOK
<1>2. \A c : HeldBy(c)' = HeldBy(c)
  BY <1>1 DEF HeldBy, Holds, HasSlot
<1> QED  BY <1>2 DEF SlotsOK, SlotsMatch, HeldBy

LEMMA HeldIsFinite == \A c : IsFiniteSet(HeldBy(c)) /\ Cardinality(HeldBy(c)) \in Nat
<1> SUFFICES ASSUME NEW c
             PROVE  IsFiniteSet(HeldBy(c)) /\ Cardinality(HeldBy(c)) \in Nat
  OBVIOUS
<1>1. HeldBy(c) \in SUBSET Uploads /\ IsFiniteSet(Uploads)
  BY UploadAssumption DEF HeldBy
<1>2. IsFiniteSet(HeldBy(c))
  BY <1>1, FS_Subset
<1> QED  BY <1>2, FS_CardinalityType

LEMMA SlotTaken ==
    ASSUME UploadsOK, SlotsOK, NEW u \in Uploads, NEW x, up' = [up EXCEPT ![u] = x],
           ~HasSlot(up[u]), HasSlot(x), x.client \in Clients, active[x.client] < SlotLimit,
           active' = [active EXCEPT ![x.client] = @ + 1]
    PROVE  SlotsOK'
<1> DEFINE c == x.client
<1>1. \A v \in Uploads : up'[v] = IF v = u THEN x ELSE up[v]
  BY DEF UploadsOK
<1>2. u \notin HeldBy(c) /\ HeldBy(c)' = HeldBy(c) \cup {u}
  BY <1>1 DEF HeldBy, Holds, HasSlot
<1>3. \A e \in Clients : e # c => HeldBy(e)' = HeldBy(e)
  BY <1>1 DEF HeldBy, Holds, HasSlot
<1>4. Cardinality(HeldBy(c)') = Cardinality(HeldBy(c)) + 1
  BY <1>2, HeldIsFinite, FS_AddElement
<1>5. \A e \in Clients :
        active[e] \in Nat /\ active[e] = Cardinality(HeldBy(e)) /\ active[e] <= SlotLimit
  BY DEF SlotsOK, SlotsMatch, HeldBy
<1>6. /\ active' \in [Clients -> Nat]
      /\ \A e \in Clients : active'[e] = IF e = c THEN active[e] + 1 ELSE active[e]
  BY <1>5 DEF SlotsOK
<1>7. ASSUME NEW e \in Clients
      PROVE  active'[e] = Cardinality(HeldBy(e)') /\ active'[e] <= SlotLimit
  <2>1. CASE e = c
    BY <1>4, <1>5, <1>6, <2>1, UploadAssumption
  <2>2. CASE e # c
    BY <1>3, <1>5, <1>6, <2>2
  <2> QED  BY <2>1, <2>2
<1> QED  BY <1>6, <1>7 DEF SlotsOK, SlotsMatch, HeldBy

LEMMA SlotGivenBack ==
    ASSUME UploadsOK, SlotsOK, NEW u \in Uploads, Release(u)
    PROVE  SlotsOK'
<1> SUFFICES ASSUME NEW c, c = up[u].client PROVE SlotsOK'
  OBVIOUS
<1>1. /\ HasSlot(up[u]) /\ c \in Clients
      /\ up' = [up EXCEPT ![u] = NoUpload]
      /\ active' = [active EXCEPT ![c] = AfterRelease(@)]
  BY DEF Release, At, HasSlot, UploadsOK, UploadOK
<1>2. \A v \in Uploads : up'[v] = IF v = u THEN NoUpload ELSE up[v]
  BY <1>1 DEF UploadsOK
<1>3. u \in HeldBy(c) /\ HeldBy(c)' = HeldBy(c) \ {u}
  <2>1. u \in HeldBy(c)
    BY <1>1 DEF HeldBy, Holds, HasSlot
  <2>2. \A v \in Uploads : v \in HeldBy(c)' <=> v # u /\ v \in HeldBy(c)
    BY <1>2, NoUploadIsOK DEF HeldBy, Holds
  <2>3. HeldBy(c)' \subseteq Uploads /\ HeldBy(c) \subseteq Uploads
    BY DEF HeldBy
  <2> QED  BY <2>1, <2>2, <2>3
<1>4. \A e \in Clients : e # c => HeldBy(e)' = HeldBy(e)
  BY <1>2, NoUploadIsOK DEF HeldBy, Holds
<1>5. Cardinality(HeldBy(c)') = Cardinality(HeldBy(c)) - 1 /\ Cardinality(HeldBy(c)') \in Nat
  <2>1. Cardinality(HeldBy(c) \ {u}) = Cardinality(HeldBy(c)) - 1
    BY <1>3, HeldIsFinite, FS_RemoveElement
  <2>2. IsFiniteSet(HeldBy(c) \ {u}) /\ Cardinality(HeldBy(c) \ {u}) \in Nat
    BY HeldIsFinite, FS_RemoveElement, FS_CardinalityType
  <2> QED  BY <1>3, <2>1, <2>2
<1>6. \A e \in Clients :
        active[e] \in Nat /\ active[e] = Cardinality(HeldBy(e)) /\ active[e] <= SlotLimit
  BY DEF SlotsOK, SlotsMatch, HeldBy
<1>7. c \in Clients /\ AfterRelease(active[c]) = active[c] - 1 /\ active[c] - 1 \in Nat
  BY <1>1, <1>5, <1>6, HeldIsFinite DEF AfterRelease
<1>8. /\ active' \in [Clients -> Nat]
      /\ \A e \in Clients : active'[e] = IF e = c THEN active[e] - 1 ELSE active[e]
  BY <1>1, <1>6, <1>7 DEF SlotsOK
<1>9. ASSUME NEW e \in Clients
      PROVE  active'[e] = Cardinality(HeldBy(e)') /\ active'[e] <= SlotLimit
  <2>1. CASE e = c
    BY <1>5, <1>6, <1>7, <1>8, <2>1, UploadAssumption
  <2>2. CASE e # c
    BY <1>4, <1>6, <1>8, <2>2
  <2> QED  BY <2>1, <2>2
<1> QED  BY <1>8, <1>9 DEF SlotsOK, SlotsMatch, HeldBy
-----------------------------------------------------------------------------
(* Files *)

Writing(x) == x.step \in {"body", "rename", "unlink"}

\* A partial file has an upload that will rename or remove it.
FilesOK ==
    /\ inode \in [Inodes -> [size : 0..MaxBytes, writers : SUBSET Uploads]]
    /\ part \in Inodes \cup {None} /\ final \in Inodes \cup {None}
    /\ part # None => \E u \in Uploads : Writing(up[u])

\* There are more inodes than names and handles while one upload has none.
LEMMA UnusedExists ==
    ASSUME UploadsOK, NEW u \in Uploads, up[u].handle = None
    PROVE  \E j \in Inodes : Unused(j)
<1> SUFFICES ASSUME \A j \in Inodes : ~Unused(j) PROVE FALSE
  OBVIOUS
<1> DEFINE name(v) == IF v = u THEN final ELSE up[v].handle
           F == [v \in Uploads |-> IF name(v) \in Inodes THEN name(v) ELSE 0]
<1>1. IsFiniteSet(Uploads) /\ Cardinality(Uploads) \in Nat
  BY UploadAssumption, FS_CardinalityType
<1>2. Cardinality(Inodes) = Cardinality(Uploads) + 1
  <2>1. Cardinality(0..Cardinality(Uploads)) =
          IF 0 > Cardinality(Uploads) THEN 0 ELSE Cardinality(Uploads) - 0 + 1
    BY <1>1, FS_Interval
  <2> QED  BY <1>1, <2>1 DEF Inodes
<1>3. 0 \in Inodes /\ None \notin Inodes
  BY <1>1, UploadAssumption DEF Inodes
<1>4. \A j \in Inodes : \E v \in Uploads : name(v) = j
  BY <1>3 DEF Unused
<1> HIDE DEF name
<1>5. F \in [Uploads -> Inodes]
  BY <1>3
<1>6. \A j \in Inodes : \E v \in Uploads : F[v] = j
  BY <1>4
<1> HIDE DEF F
<1>7. F \in Surjection(Uploads, Inodes)
  BY <1>5, <1>6 DEF Surjection
<1>8. Cardinality(Inodes) <= Cardinality(Uploads)
  BY <1>1, <1>7, FS_Surjection
<1> QED  BY <1>1, <1>2, <1>8

\* The files as they were; an upload that had to clean up still has to.
LEMMA FilesStay ==
    ASSUME UploadsOK, FilesOK, NEW u \in Uploads, NEW x, up' = [up EXCEPT ![u] = x],
           Writing(up[u]) => Writing(x), UNCHANGED fileVars
    PROVE  FilesOK'
<1>1. \A v \in Uploads : up'[v] = IF v = u THEN x ELSE up[v]
  BY DEF UploadsOK
<1>2. part # None => \E v \in Uploads : Writing(up'[v])
  BY <1>1 DEF FilesOK
<1> QED  BY <1>2 DEF FilesOK, fileVars

LEMMA PartRemoved ==
    ASSUME FilesOK, part' = None, final' \in {part, final, None}, inode' = inode
    PROVE  FilesOK'
BY DEF FilesOK

\* An upload takes its next step.
LEMMA GoneTo ==
    ASSUME UploadsOK, NEW u \in Uploads, NEW step \in Step, GoTo(u, step),
           up[u].step # "idle",
           step \in Step \ {"idle", "slot", "check", "open", "body"}
           \/ /\ up[u].handle = None
              /\ step \in {"check", "open"}
    PROVE  LET x == [up[u] EXCEPT !.step = step] IN
           /\ up' = [up EXCEPT ![u] = x] /\ UploadOK(x) /\ UploadsOK'
           /\ x.step = step /\ x.client = up[u].client
<1> DEFINE x == [up[u] EXCEPT !.step = step]
<1>1. UploadOK(up[u])
  BY DEF UploadsOK
<1>2. /\ x \in Upload /\ x.step = step /\ x.client = up[u].client
      /\ x.handle = up[u].handle
  BY <1>1 DEF UploadOK, Upload
<1>3. UploadOK(x)
  BY <1>1, <1>2 DEF UploadOK, Step
<1>4. up' = [up EXCEPT ![u] = x]
  BY DEF GoTo
<1> HIDE DEF x
<1>5. UploadsOK'
  BY <1>3, <1>4, UploadMoves
<1> QED  BY <1>2, <1>3, <1>4, <1>5 DEF x

-----------------------------------------------------------------------------
(* The invariant *)

Inv == CountersOK /\ UploadsOK /\ SlotsOK /\ FilesOK

\* No upload holds a slot at first.
LEMMA InitInv == ASSUME Init PROVE Inv
<1>1. CountersOK
  <2>1. Table(hits) /\ Table(accepted) /\ Table(told) /\ now = 0
    BY DEF Init, Table
  <2>2. ASSUME NEW k \in Kinds, NEW c \in Clients
        PROVE  CounterOK(k, hits[k][c], accepted[k][c], told[k][c])
    <3>1. hits[k][c] = <<>> /\ accepted[k][c] = <<>> /\ told[k][c] = None
      BY DEF Init
    <3> QED  BY <3>1, LimitType DEF CounterOK, ToldOK
  <2> QED  BY <2>1, <2>2 DEF CountersOK
<1>2. UploadsOK /\ \A u \in Uploads : up[u].step = "idle"
  BY NoUploadIsOK DEF Init, UploadsOK
<1>3. SlotsOK
  <2>1. \A c \in Clients : HeldBy(c) = {} /\ active[c] = 0
    BY <1>2 DEF Init, HeldBy, Holds
  <2>2. active \in [Clients -> Nat]
    BY DEF Init
  <2> QED  BY <2>1, <2>2, FS_EmptySet, UploadAssumption DEF SlotsOK, SlotsMatch, HeldBy
<1>4. FilesOK
  BY UploadAssumption DEF Init, FilesOK, Empty
<1> QED  BY <1>1, <1>2, <1>3, <1>4 DEF Inv
LEMMA CountersStay ==
    ASSUME CountersOK, UNCHANGED gateVars PROVE CountersOK'
<1>1. now' = now /\ hits' = hits /\ accepted' = accepted /\ told' = told
  BY DEF gateVars
<1>2. ASSUME NEW k \in Kinds, NEW c \in Clients
      PROVE  CounterOK(k, hits[k][c], accepted[k][c], told[k][c])'
  <2>1. CounterOK(k, hits[k][c], accepted[k][c], told[k][c])
    BY DEF CountersOK
  <2> QED  BY <1>1, <2>1, Zenon DEF CounterOK
<1> QED  BY <1>1, <1>2 DEF CountersOK, Table

LEMMA UploadsStay ==
    ASSUME UploadsOK, SlotsOK, FilesOK, UNCHANGED <<active, up, fileVars>>
    PROVE  UploadsOK' /\ SlotsOK' /\ FilesOK'
<1>1. UploadsOK'
  BY DEF UploadsOK, UploadOK
<1>2. SlotsOK'
  BY DEF SlotsOK, SlotsMatch, Holds
<1>3. FilesOK'
  BY DEF FilesOK, Writing, fileVars
<1> QED  BY <1>1, <1>2, <1>3

\* An upload with its slot goes on, and the files stay.
LEMMA StepKeeps ==
    ASSUME Inv, NEW u \in Uploads, NEW step \in Step \ {"idle", "slot"},
           GoTo(u, step), HasSlot(up[u]),
           step \notin {"check", "open", "body"} \/ (step = "open" /\ At(u, "check")),
           Writing(up[u]) => step \in {"body", "rename", "unlink"},
           UNCHANGED <<gateVars, active, fileVars>>
    PROVE  Inv'
<1> DEFINE x == [up[u] EXCEPT !.step = step]
<1>1. UploadOK(up[u])
  BY DEF Inv, UploadsOK
<1>2. up[u].step # "idle" /\ (At(u, "check") => up[u].handle = None)
  BY <1>1 DEF UploadOK, HasSlot, At
<1>3. /\ up' = [up EXCEPT ![u] = x] /\ UploadsOK'
      /\ x.step = step /\ x.client = up[u].client
  BY <1>2, GoneTo DEF Inv
<1> HIDE DEF x
<1>4. SlotsOK'
  BY <1>3, SlotStays DEF Inv, HasSlot
<1>5. FilesOK'
  BY <1>3, FilesStay DEF Inv, Writing
<1> QED  BY <1>3, <1>4, <1>5, CountersStay DEF Inv

LEMMA StartKeeps ==
    ASSUME Inv, NEW u \in Uploads, NEW c \in Clients, UploadStarts(u, c)
    PROVE  Inv'
<1> DEFINE x == [NoUpload EXCEPT !.step = "slot", !.client = c]
<1>1. CountersOK'
  BY AllowKeeps, RefuseKeeps DEF Inv, UploadStarts, Kinds
<1>2. CASE up' = [up EXCEPT ![u] = x]
  <2>1. UploadOK(x) /\ ~HasSlot(x)
    <3>1. NoUpload \in Upload /\ NoUpload.handle = None
      BY NoUploadIsOK DEF UploadOK, NoUpload
    <3>2. x \in Upload /\ x.step = "slot" /\ x.client = c /\ x.handle = None
      BY <3>1 DEF Upload, Step
    <3> QED  BY <3>2 DEF UploadOK, HasSlot
  <2>2. ~HasSlot(up[u]) /\ ~Writing(up[u])
    BY DEF UploadStarts, At, HasSlot, Writing
  <2> HIDE DEF x
  <2>3. UploadsOK' /\ SlotsOK' /\ FilesOK'
    BY <1>2, <2>1, <2>2, UploadMoves, SlotStays, FilesStay DEF Inv, UploadStarts
  <2> QED  BY <1>1, <2>3 DEF Inv
<1>3. CASE UNCHANGED up
  BY <1>1, <1>3, UploadsStay DEF Inv, UploadStarts
<1> QED  BY <1>2, <1>3 DEF UploadStarts

LEMMA AcquireKeeps ==
    ASSUME Inv, NEW u \in Uploads, Acquire(u) PROVE Inv'
<1>1. /\ UploadOK(up[u]) /\ up[u].step = "slot" /\ up[u].client \in Clients
      /\ up[u].handle = None /\ ~HasSlot(up[u]) /\ ~Writing(up[u])
  BY DEF Inv, UploadsOK, UploadOK, Acquire, At, HasSlot, Writing
<1>2. CASE /\ active[up[u].client] >= SlotLimit
           /\ up' = [up EXCEPT ![u] = NoUpload] /\ UNCHANGED active
  <2>1. UploadsOK' /\ SlotsOK' /\ FilesOK'
    BY <1>1, <1>2, NoUploadIsOK, UploadMoves, SlotStays, FilesStay
    DEF Inv, Acquire, HasSlot
  <2> QED  BY <2>1, CountersStay DEF Inv, Acquire
<1>3. CASE /\ ~(active[up[u].client] >= SlotLimit)
           /\ active' = [active EXCEPT ![up[u].client] = @ + 1] /\ GoTo(u, "check")
  <2> DEFINE x == [up[u] EXCEPT !.step = "check"]
  <2>1. /\ up' = [up EXCEPT ![u] = x] /\ UploadsOK'
        /\ x.step = "check" /\ x.client = up[u].client
    BY <1>1, <1>3, GoneTo DEF Inv, Step
  <2>2. HasSlot(x) /\ active[x.client] < SlotLimit
    BY <1>1, <1>3, <2>1, UploadAssumption DEF HasSlot, Inv, SlotsOK
  <2> HIDE DEF x
  <2>3. SlotsOK'
    BY <1>1, <1>3, <2>1, <2>2, SlotTaken DEF Inv
  <2>4. FilesOK'
    BY <1>1, <2>1, FilesStay DEF Inv, Acquire
  <2> QED  BY <2>1, <2>3, <2>4, CountersStay DEF Inv, Acquire
<1> QED  BY <1>2, <1>3 DEF Acquire

LEMMA ReleaseKeeps ==
    ASSUME Inv, NEW u \in Uploads, Release(u) PROVE Inv'
<1>1. up' = [up EXCEPT ![u] = NoUpload] /\ ~Writing(up[u])
  BY DEF Release, At, Writing
<1>2. UploadsOK' /\ FilesOK'
  BY <1>1, NoUploadIsOK, UploadMoves, FilesStay DEF Inv, Release
<1> QED  BY <1>2, SlotGivenBack, CountersStay DEF Inv, Release

\* The file an upload opens is one nobody writes, or the partial file there is.
LEMMA OpenKeeps ==
    ASSUME Inv, NEW u \in Uploads, Open(u) PROVE Inv'
<1>1. UploadOK(up[u]) /\ up[u].handle = None /\ HasSlot(up[u]) /\ up[u].step = "open"
  BY DEF Inv, UploadsOK, UploadOK, Open, At, HasSlot
<1>2. PICK i \in Inodes : part' = i /\ inode' = [inode EXCEPT ![i] = Empty]
                          /\ up' = [up EXCEPT ![u].step = "body", ![u].handle = i]
  <2>1. part = None => (CHOOSE j \in Inodes : Unused(j)) \in Inodes
    BY <1>1, UnusedExists DEF Inv
  <2>2. part # None => part \in Inodes
    BY DEF Inv, FilesOK
  <2> QED  BY <2>1, <2>2 DEF Open
<1> DEFINE x == [up[u] EXCEPT !.step = "body", !.handle = i]
<1>3. /\ x \in Upload /\ x.step = "body" /\ x.handle = i /\ x.client = up[u].client
      /\ UploadOK(x)
  BY <1>1 DEF UploadOK, Upload, Step
<1>4. up' = [up EXCEPT ![u] = x]
  BY <1>2 DEF Inv, UploadsOK
<1> HIDE DEF x
<1>5. UploadsOK' /\ up'[u] = x
  <2>1. UploadsOK
    BY DEF Inv
  <2>2. UploadsOK'
    BY <1>3, <1>4, <2>1, UploadMoves
  <2> QED  BY <1>4, <2>1, <2>2 DEF UploadsOK
<1>6. SlotsOK'
  BY <1>1, <1>3, <1>4, SlotStays DEF Inv, Open, HasSlot
<1>7. FilesOK'
  <2>1. Empty \in [size : 0..MaxBytes, writers : SUBSET Uploads]
    BY UploadAssumption DEF Empty
  <2>2. inode' \in [Inodes -> [size : 0..MaxBytes, writers : SUBSET Uploads]]
    BY <1>2, <2>1 DEF Inv, FilesOK
  <2>3. Writing(up[u])'
    BY <1>3, <1>5 DEF Writing
  <2> QED  BY <1>2, <2>2, <2>3 DEF Inv, FilesOK, Open
<1> QED  BY <1>5, <1>6, <1>7, CountersStay DEF Inv, Open

LEMMA ChunkKeeps ==
    ASSUME Inv, NEW u \in Uploads, Chunk(u) PROVE Inv'
<1> DEFINE x == [up[u] EXCEPT !.read = @ + 1]
           i == up[u].handle
           file == [size |-> Larger(inode[i].size, up[u].read + 1),
                    writers |-> inode[i].writers \cup {u}]
<1>1. UploadOK(up[u]) /\ up[u].step = "body" /\ i \in Inodes
  BY DEF Inv, UploadsOK, UploadOK, Chunk, At
<1>2. up[u].read + 1 \in 0..MaxBytes
  BY <1>1, UploadAssumption DEF Chunk, TooLarge, UploadOK, Upload
<1>3. /\ x \in Upload /\ x.step = "body" /\ x.client = up[u].client
      /\ x.handle = i /\ UploadOK(x)
  BY <1>1, <1>2 DEF UploadOK, Upload
<1>4. up' = [up EXCEPT ![u] = x]
  BY DEF Chunk, Inv, UploadsOK
<1>5. inode' = [inode EXCEPT ![i] = file]
  BY DEF Chunk
<1>6. file \in [size : 0..MaxBytes, writers : SUBSET Uploads]
  BY <1>1, <1>2, UploadAssumption DEF Inv, FilesOK, Larger
<1> HIDE DEF x, i, file
<1>7. UploadsOK' /\ up'[u] = x
  <2>1. UploadsOK
    BY DEF Inv
  <2>2. UploadsOK'
    BY <1>3, <1>4, <2>1, UploadMoves
  <2> QED  BY <1>4, <2>1, <2>2 DEF UploadsOK
<1>8. SlotsOK'
  BY <1>1, <1>3, <1>4, SlotStays DEF Inv, Chunk, HasSlot
<1>9. FilesOK'
  <2>1. inode' \in [Inodes -> [size : 0..MaxBytes, writers : SUBSET Uploads]]
    BY <1>5, <1>6 DEF Inv, FilesOK
  <2>2. Writing(up[u])'
    BY <1>3, <1>7 DEF Writing
  <2> QED  BY <2>1, <2>2 DEF Inv, FilesOK, Chunk
<1> QED  BY <1>7, <1>8, <1>9, CountersStay DEF Inv, Chunk

\* A step that leaves no partial name: rename, or a removal.
LEMMA PartGone ==
    ASSUME Inv, NEW u \in Uploads, NEW step \in {"mark", "release", "delete_part"},
           GoTo(u, step), HasSlot(up[u]), part' = None \/ (part' = part /\ ~Writing(up[u])),
           final' \in {part, final, None}, UNCHANGED <<gateVars, active, inode>>
    PROVE  Inv'
<1> DEFINE x == [up[u] EXCEPT !.step = step]
<1>1. /\ up' = [up EXCEPT ![u] = x] /\ UploadsOK'
      /\ x.step = step /\ x.client = up[u].client
  <2>1. step \in Step \ {"idle", "slot", "check", "open", "body"} /\ up[u].step # "idle"
    BY DEF Step, HasSlot
  <2> QED  BY <2>1, GoneTo DEF Inv
<1> HIDE DEF x
<1>2. SlotsOK'
  BY <1>1, SlotStays DEF Inv, HasSlot
<1>3. \A v \in Uploads : v # u => up'[v] = up[v]
  BY <1>1
<1>4. FilesOK'
  BY <1>3, PartRemoved DEF Inv, FilesOK, Writing
<1> QED  BY <1>1, <1>2, <1>4, CountersStay DEF Inv
LEMMA UploadStepKeeps ==
    ASSUME Inv, NEW u \in Uploads, UploadStep(u) PROVE Inv'
<1>1. CASE Acquire(u)
  BY <1>1, AcquireKeeps
<1>2. CASE Release(u)
  BY <1>2, ReleaseKeeps
<1>3. CASE Check(u)
  <2>1. HasSlot(up[u]) /\ ~Writing(up[u])
    BY <1>3 DEF Check, At, HasSlot, Writing
  <2>2. CASE GoTo(u, "open")
    BY <1>3, <2>1, <2>2, StepKeeps DEF Check, Step
  <2>3. CASE GoTo(u, "release")
    BY <1>3, <2>1, <2>3, StepKeeps DEF Check, Step
  <2> QED  BY <1>3, <2>2, <2>3 DEF Check
<1>4. CASE Open(u)
  BY <1>4, OpenKeeps
<1>5. CASE Chunk(u)
  BY <1>5, ChunkKeeps
<1>6. CASE BodyEnds(u)
  <2>1. HasSlot(up[u])
    BY <1>6 DEF BodyEnds, At, HasSlot
  <2>2. CASE GoTo(u, "rename")
    BY <1>6, <2>1, <2>2, StepKeeps DEF BodyEnds, Step
  <2>3. CASE GoTo(u, "unlink")
    BY <1>6, <2>1, <2>3, StepKeeps DEF BodyEnds, Step
  <2> QED  BY <1>6, <2>2, <2>3 DEF BodyEnds
<1>7. CASE Rename(u)
  <2>1. HasSlot(up[u])
    BY <1>7 DEF Rename, At, HasSlot
  <2>2. CASE part = None
    BY <1>7, <2>1, <2>2, StepKeeps DEF Rename, Step
  <2>3. CASE part # None
    BY <1>7, <2>1, <2>3, PartGone DEF Rename
  <2> QED  BY <2>2, <2>3
<1>8. CASE Unlink(u)
  <2>1. HasSlot(up[u])
    BY <1>8 DEF Unlink, At, HasSlot
  <2> QED  BY <1>8, <2>1, PartGone DEF Unlink
<1>9. CASE Mark(u)
  <2>1. HasSlot(up[u]) /\ ~Writing(up[u])
    BY <1>9 DEF Mark, At, HasSlot, Writing
  <2>2. CASE GoTo(u, "release")
    BY <1>9, <2>1, <2>2, StepKeeps DEF Mark, Step
  <2>3. CASE GoTo(u, "delete_final")
    BY <1>9, <2>1, <2>3, StepKeeps DEF Mark, Step
  <2> QED  BY <1>9, <2>2, <2>3 DEF Mark
<1>10. CASE DeleteFinal(u)
  <2>1. HasSlot(up[u]) /\ ~Writing(up[u])
    BY <1>10 DEF DeleteFinal, At, HasSlot, Writing
  <2> QED  BY <1>10, <2>1, PartGone DEF DeleteFinal
<1>11. CASE DeletePart(u)
  <2>1. HasSlot(up[u])
    BY <1>11 DEF DeletePart, At, HasSlot
  <2> QED  BY <1>11, <2>1, PartGone DEF DeletePart
<1>12. CASE OpenFails(u)
  <2>1. HasSlot(up[u]) /\ ~Writing(up[u])
    BY <1>12 DEF OpenFails, At, HasSlot, Writing
  <2>2. CASE GoTo(u, "release")
    BY <1>12, <2>1, <2>2, StepKeeps DEF OpenFails, Step
  <2>3. CASE GoTo(u, "unlink")
    BY <1>12, <2>1, <2>3, StepKeeps DEF OpenFails, Step
  <2> QED  BY <1>12, <2>2, <2>3 DEF OpenFails
<1> QED  BY <1>1, <1>2, <1>3, <1>4, <1>5, <1>6, <1>7, <1>8, <1>9, <1>10, <1>11, <1>12
         DEF UploadStep

LEMMA NextKeeps == ASSUME Inv, [Next]_vars PROVE Inv'
<1>1. CASE Tick
  BY <1>1, TimeKeeps, UploadsStay DEF Inv, Tick
<1>2. ASSUME NEW c \in Clients, OtherRequest(c) PROVE Inv'
  <2>1. CountersOK'
    BY <1>2, AllowKeeps, RefuseKeeps DEF Inv, OtherRequest, Kinds
  <2> QED  BY <1>2, <2>1, UploadsStay DEF Inv, OtherRequest
<1>3. ASSUME NEW c \in Clients, Create(c) PROVE Inv'
  <2>1. CountersOK'
    BY <1>3, AllowKeeps, RefuseKeeps DEF Inv, Create, Kinds
  <2> QED  BY <1>3, <2>1, UploadsStay DEF Inv, Create
<1>4. ASSUME NEW u \in Uploads, NEW c \in Clients, UploadStarts(u, c) PROVE Inv'
  BY <1>4, StartKeeps
<1>5. ASSUME NEW u \in Uploads, UploadStep(u) PROVE Inv'
  BY <1>5, UploadStepKeeps
<1>6. CASE UNCHANGED vars
  BY <1>6, CountersStay, UploadsStay DEF Inv, vars
<1> QED  BY <1>1, <1>2, <1>3, <1>4, <1>5, <1>6 DEF Next

LEMMA Invariant == Spec => []Inv
BY InitInv, NextKeeps, PTL DEF Spec

-----------------------------------------------------------------------------
(* Theorems *)

\* However the calls of a client are spaced, no stretch of time shorter than the
\* window has more of them allowed than the limit (rate_limit.py:77-87).
THEOREM WindowsAreBounded == Spec => []WindowBound
<1>1. Inv => WindowBound
  BY CountersImply DEF Inv
<1> QED  BY <1>1, Invariant, PTL

\* Whatever the rounding of the wait, a refused client that waits as it was told,
\* and once more when it came too early, is let in, unless another of its calls
\* was meanwhile (rate_limit.py:81-85, core/errors.py:119-120).
THEOREM SecondWaitSuffices == Spec => []SecondWaitIsEnough
<1>1. Inv => SecondWaitIsEnough
  BY CountersImply DEF Inv
<1> QED  BY <1>1, Invariant, PTL

\* No upload loses a slot or keeps one, whichever way it ends, and no client has
\* more than the limit (rate_limit.py:98-112, api/replays.py:107-123).
THEOREM SlotsAreCounted == Spec => []SlotsMatch
<1>1. Inv => SlotsMatch
  BY DEF Inv, SlotsOK
<1> QED  BY <1>1, Invariant, PTL

\* However many uploads share the files, what has the final name is within the
\* limit (local.py:64-89).
THEOREM SizesAreBounded == Spec => []SizeBounded
<1>1. Inv => SizeBounded
  <2> SUFFICES ASSUME FilesOK, final # None PROVE inode[final].size <= MaxBytes
    BY DEF Inv, SizeBounded
  <2>1. inode[final].size \in 0..MaxBytes
    BY DEF FilesOK
  <2> QED  BY <2>1, UploadAssumption
<1> QED  BY <1>1, Invariant, PTL

\* However many uploads rename and remove each other's partial file, none is
\* left when they are over (local.py:81-89, 168-171).
THEOREM PartsAreCleaned == Spec => []NoPartLeft
<1>1. Inv => NoPartLeft
  BY DEF Inv, FilesOK, NoPartLeft, Writing, Holds
<1> QED  BY <1>1, Invariant, PTL
=============================================================================
