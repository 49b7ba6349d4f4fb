-------------------------- MODULE EventLog_proofs ---------------------------
(***************************************************************************)
(* Lemmas about the event log that the proofs of its users share: greatest *)
(* versions, a log with one more event, and the least element of a set of  *)
(* naturals, which is how these proofs do induction.                       *)
(***************************************************************************)
EXTENDS EventLog, SequenceTheorems, WellFoundedInduction, TLAPS

-----------------------------------------------------------------------------
(* Induction.                                                              *)

(***************************************************************************)
(* The order of the naturals is well founded.                              *)
(***************************************************************************)
LEMMA NatWellFounded == IsWellFoundedOn({ss \in Nat \X Nat : ss[1] < ss[2]}, Nat)
  BY NatLessThanWellFounded DEF OpToRel

(***************************************************************************)
(* A set of naturals that is not empty has a least element: the least      *)
(* counterexample of an induction.                                         *)
(***************************************************************************)
LEMMA LeastNatural ==
  ASSUME NEW T, T \subseteq Nat, T # {}
  PROVE  \E n \in T : \A m \in T : n <= m
<1> DEFINE R == {ss \in Nat \X Nat : ss[1] < ss[2]}
<1>1. \A x, y \in Nat : y < x => <<y, x>> \in R
  OBVIOUS
<1>2. IsWellFoundedOn(R, Nat)
  BY NatWellFounded
<1> HIDE DEF R
<1>3. PICK n \in T : \A m \in T : ~ (<<m, n>> \in R)
  BY <1>2, WFMin
<1>4. \A m \in T : ~ (m < n)
  BY <1>1, <1>3
<1> QED
  BY <1>4

-----------------------------------------------------------------------------
(* Greatest versions.                                                      *)

(***************************************************************************)
(* v is the greatest version in S, or 0 when S is empty.  Unlike           *)
(* TopVersion it involves no CHOOSE, so an invariant can carry it.         *)
(***************************************************************************)
IsTop(S, v) ==
  \/ S = {} /\ v = 0
  \/ /\ \E e \in S : e.version = v
     /\ \A e \in S : e.version <= v

(***************************************************************************)
(* The greatest version is unique, so TopVersion computes it.              *)
(***************************************************************************)
LEMMA TopVersionIs ==
  ASSUME NEW S, NEW v \in Nat, IsTop(S, v),
         \A e \in S : e.version \in Nat \ {0}
  PROVE  TopVersion(S) = v
<1>1. CASE S = {}
  BY <1>1 DEF IsTop, TopVersion
<1>2. CASE S # {}
  <2> DEFINE P(w) == w \in {e.version : e \in S} /\ \A e \in S : e.version <= w
  <2>1. P(v)
    BY <1>2 DEF IsTop
  <2>2. \A w : P(w) => w = v
    <3> SUFFICES ASSUME NEW w, P(w) PROVE w = v
      OBVIOUS
    <3>1. PICK e \in S : e.version = w
      OBVIOUS
    <3>2. PICK f \in S : f.version = v
      BY <2>1
    <3>3. e.version <= v /\ f.version <= w
      BY <2>1, <3>1, <3>2
    <3> QED
      BY <3>1, <3>2, <3>3
  <2> HIDE DEF P
  <2>3. (CHOOSE w : P(w)) = v
    BY <2>1, <2>2
  <2>4. TopVersion(S) = CHOOSE w : P(w)
    BY <1>2 DEF TopVersion, P
  <2> QED
    BY <2>3, <2>4
<1> QED
  BY <1>1, <1>2

(***************************************************************************)
(* The versions of a log, or of a part of it, have a greatest one, and     *)
(* TopVersion computes it.  By induction on the log's length they have a   *)
(* bound; the least bound is one of them.                                  *)
(***************************************************************************)
LEMMA TopExists ==
  ASSUME NEW l, Len(l) \in Nat, NEW S, S \subseteq EventsOf(l),
         \A e \in S : e.version \in Nat \ {0}
  PROVE  TopVersion(S) \in Nat /\ IsTop(S, TopVersion(S))
<1> DEFINE Bounds(n, v) == \A i \in 1..n : l[i] \in S => l[i].version <= v
           T == {n \in 0..Len(l) : ~ \E v \in Nat : Bounds(n, v)}
<1>1. T = {}
  <2> SUFFICES ASSUME T # {} PROVE FALSE
    OBVIOUS
  <2>1. PICK n \in T : \A m \in T : n <= m
    <3>1. T \subseteq Nat
      OBVIOUS
    <3> HIDE DEF T
    <3> QED
      BY <3>1, LeastNatural
  <2>2. n # 0
    <3>1. Bounds(0, 0)
      OBVIOUS
    <3> HIDE DEF Bounds
    <3> QED
      BY <2>1, <3>1
  <2>3. n - 1 \in 0..Len(l) /\ n \in 1..Len(l) /\ n - 1 \notin T
    <3> HIDE DEF Bounds
    <3>1. n \in 0..Len(l)
      OBVIOUS
    <3>2. n - 1 \notin T
      BY <2>1, <3>1
    <3> QED
      BY <2>2, <3>1, <3>2
  <2>4. PICK v \in Nat : Bounds(n - 1, v)
    BY <2>3
  <2>5. CASE l[n] \in S /\ l[n].version > v
    <3>1. l[n].version \in Nat
      BY <2>5
    <3>2. Bounds(n, l[n].version)
      <4> SUFFICES ASSUME NEW i \in 1..n, l[i] \in S PROVE l[i].version <= l[n].version
        OBVIOUS
      <4>1. CASE i = n
        <5>1. l[i].version = l[n].version
          BY <4>1
        <5>2. \A a \in Nat : a <= a
          OBVIOUS
        <5> HIDE DEF T, Bounds
        <5> QED
          BY <3>1, <5>1, <5>2
      <4>2. CASE i # n
        <5>1. i \in 1..n - 1
          BY <2>3, <4>2
        <5>2. l[i].version <= v
          BY <2>4, <5>1
        <5>3. \A a, b, c \in Nat : a <= b /\ c > b => a <= c
          OBVIOUS
        <5>4. l[i].version \in Nat /\ v \in Nat
          OBVIOUS
        <5>5. l[n].version > v
          BY <2>5
        <5> HIDE DEF T, Bounds
        <5> QED
          BY <3>1, <5>2, <5>3, <5>4, <5>5
      <4> QED
        BY <4>1, <4>2
    <3> HIDE DEF Bounds
    <3> QED
      BY <2>1, <3>1, <3>2
  <2>6. CASE ~ (l[n] \in S /\ l[n].version > v)
    <3>1. Bounds(n, v)
      <4> SUFFICES ASSUME NEW i \in 1..n, l[i] \in S PROVE l[i].version <= v
        OBVIOUS
      <4>1. CASE i = n
        <5>1. l[i].version \in Nat /\ v \in Nat /\ l[n] \in S /\ l[i].version = l[n].version
          BY <4>1
        <5>2. ~ (l[i].version > v)
          BY <2>6, <5>1
        <5>3. \A a, b \in Nat : ~ (a > b) => a <= b
          OBVIOUS
        <5> HIDE DEF T, Bounds
        <5> QED
          BY <5>1, <5>2, <5>3
      <4>2. CASE i # n
        <5>1. i \in 1..n - 1
          BY <2>3, <4>2
        <5> QED
          BY <2>4, <5>1
      <4> QED
        BY <4>1, <4>2
    <3> HIDE DEF Bounds
    <3> QED
      BY <2>1, <3>1
  <2> QED
    BY <2>5, <2>6
<1> DEFINE U == {v \in Nat : \A e \in S : e.version <= v}
<1>2. U # {}
  <2>1. PICK v \in Nat : Bounds(Len(l), v)
    <3> HIDE DEF Bounds
    <3>1. Len(l) \in 0..Len(l)
      OBVIOUS
    <3> QED
      BY <1>1, <3>1
  <2>2. \A e \in S : e.version <= v
    BY <2>1 DEF EventsOf
  <2> QED
    BY <2>2
<1>3. PICK v \in U : \A w \in U : v <= w
  <2>1. U \subseteq Nat
    OBVIOUS
  <2> HIDE DEF U
  <2> QED
    BY <1>2, <2>1, LeastNatural
<1>4. v \in Nat /\ \A e \in S : e.version <= v
  OBVIOUS
<1>5. IsTop(S, v)
  <2>1. CASE \E e \in S : e.version = v
    BY <1>4, <2>1 DEF IsTop
  <2>2. CASE S # {} /\ \A e \in S : e.version # v
    <3>1. PICK e \in S : TRUE
      BY <2>2
    <3>2. v - 1 \in Nat
      BY <1>4, <3>1
    <3>3. \A d \in S : d.version <= v - 1
      BY <1>4, <2>2
    <3>4. v - 1 \in U
      BY <3>2, <3>3
    <3> QED
      BY <1>3, <1>4, <3>4
  <2>3. CASE S = {}
    <3>1. 0 \in U
      BY <2>3
    <3>2. v = 0
      BY <1>3, <1>4, <3>1
    <3> QED
      BY <2>3, <3>2 DEF IsTop
  <2> QED
    BY <2>1, <2>2, <2>3
<1> QED
  BY <1>4, <1>5, TopVersionIs

-----------------------------------------------------------------------------
(* More events.                                                            *)

\* The event that an append of one payload stores.
StoredEvent(l, s, b, cur, body) ==
  [stream |-> s, branch |-> b, version |-> cur + 1, position |-> Len(l) + 1, body |-> body]

IsLog(l) == \E S : l \in Seq(S)

\* m is the log after an append of one payload to l.
Grows(l, m, s, b, cur, body) == m = l \o Stored(l, s, b, cur, <<body>>)

\* m is l with one more event.
OneLonger(l, m) ==
  /\ IsLog(l) /\ IsLog(m)
  /\ Len(l) \in Nat /\ Len(m) = Len(l) + 1
  /\ \A i \in 1..Len(l) : m[i] = l[i]

(***************************************************************************)
(* A log with one more event keeps the events it had, in their places.     *)
(***************************************************************************)
LEMMA OneMore ==
  ASSUME NEW l, IsLog(l), NEW s, NEW b, NEW cur, NEW body, NEW next,
         Grows(l, next, s, b, cur, body)
  PROVE  /\ OneLonger(l, next)
         /\ next[Len(next)] = StoredEvent(l, s, b, cur, body)
         /\ EventsOf(next) = EventsOf(l) \union {StoredEvent(l, s, b, cur, body)}
<1> DEFINE e == StoredEvent(l, s, b, cur, body)
<1>1. PICK S : l \in Seq(S)
  BY DEF IsLog
<1>2. Stored(l, s, b, cur, <<body>>) = <<e>>
  <2>1. Len(<<body>>) = 1 /\ <<body>>[1] = body
    OBVIOUS
  <2>2. Stored(l, s, b, cur, <<body>>) = [i \in 1..1 |-> e]
    BY <2>1 DEF Stored, StoredEvent
  <2> HIDE DEF e
  <2>3. [i \in 1..1 |-> e] = <<e>>
    OBVIOUS
  <2> QED
    BY <2>2, <2>3
<1> HIDE DEF e
<1>3. l \in Seq(S \union {e}) /\ <<e>> \in Seq(S \union {e})
  BY <1>1
<1>4. next = l \o <<e>>
  BY <1>2 DEF Grows
<1>5. /\ next \in Seq(S \union {e})
      /\ Len(l) \in Nat /\ Len(next) = Len(l) + 1
      /\ \A i \in 1..Len(l) : next[i] = l[i]
      /\ next[Len(l) + 1] = e
  <2> DEFINE T == S \union {e}
  <2>1. l \in Seq(T) /\ <<e>> \in Seq(T) /\ Len(<<e>>) = 1 /\ <<e>>[1] = e
    BY <1>3
  <2> HIDE DEF T
  <2>2. Len(l) \in Nat
    BY <2>1, LenProperties
  <2>3. /\ next \in Seq(T) /\ Len(next) = Len(l) + 1
        /\ \A i \in 1..Len(l) + 1 : next[i] = IF i <= Len(l) THEN l[i] ELSE <<e>>[i - Len(l)]
    <3> DEFINE last == <<e>>
    <3>1. last \in Seq(T) /\ Len(last) = 1 /\ next = l \o last
      BY <1>4, <2>1
    <3> HIDE DEF last
    <3>2. /\ l \o last \in Seq(T) /\ Len(l \o last) = Len(l) + Len(last)
          /\ \A i \in 1..Len(l) + Len(last) :
                (l \o last)[i] = IF i <= Len(l) THEN l[i] ELSE last[i - Len(l)]
      BY <2>1, <3>1, ConcatProperties
    <3> QED
      BY <3>1, <3>2 DEF last
  <2>4. \A i \in 1..Len(l) : next[i] = l[i]
    BY <2>2, <2>3
  <2>5. next[Len(l) + 1] = e
    <3>1. Len(l) + 1 \in 1..Len(l) + 1 /\ ~ (Len(l) + 1 <= Len(l)) /\ Len(l) + 1 - Len(l) = 1
      BY <2>2
    <3> QED
      BY <2>1, <2>3, <3>1
  <2> QED
    BY <2>2, <2>3, <2>4, <2>5 DEF T
<1>6. EventsOf(next) = EventsOf(l) \union {e}
  <2>1. ASSUME NEW d \in EventsOf(next) PROVE d \in EventsOf(l) \union {e}
    BY <1>5, <2>1 DEF EventsOf
  <2>2. ASSUME NEW d \in EventsOf(l) PROVE d \in EventsOf(next)
    BY <1>5, <2>2 DEF EventsOf
  <2>3. e \in EventsOf(next)
    BY <1>5 DEF EventsOf
  <2> QED
    BY <2>1, <2>2, <2>3
<1> QED
  BY <1>1, <1>5, <1>6 DEF OneLonger, IsLog, e

\* The k-th event that an append of a batch stores, and the log after it.
StoredAt(l, s, b, cur, batch, k) ==
  [stream |-> s, branch |-> b, version |-> cur + k, position |-> Len(l) + k, body |-> batch[k]]

\* All of them.
StoredEvents(l, s, b, cur, batch) == {StoredAt(l, s, b, cur, batch, k) : k \in 1..Len(batch)}

GrowsBy(l, m, s, b, cur, batch) == m = l \o Stored(l, s, b, cur, batch)

(***************************************************************************)
(* A log with a batch more keeps the events it had, in their places, and   *)
(* has the batch after them.                                               *)
(***************************************************************************)
LEMMA ManyMore ==
  ASSUME NEW l, IsLog(l), NEW s, NEW b, NEW cur, NEW batch, Len(batch) \in Nat,
         NEW m, GrowsBy(l, m, s, b, cur, batch)
  PROVE  /\ IsLog(m)
         /\ Len(l) \in Nat /\ Len(m) = Len(l) + Len(batch)
         /\ \A i \in 1..Len(l) : m[i] = l[i]
         /\ \A k \in 1..Len(batch) : m[Len(l) + k] = StoredAt(l, s, b, cur, batch, k)
         /\ EventsOf(m) = EventsOf(l) \union StoredEvents(l, s, b, cur, batch)
<1> DEFINE E(k) == StoredAt(l, s, b, cur, batch, k)
           n == Len(batch)
           new == [k \in 1..n |-> E(k)]
<1>1. PICK S : l \in Seq(S)
  BY DEF IsLog
<1>2. m = l \o new
  BY DEF GrowsBy, Stored, StoredAt
<1> DEFINE T == S \union {E(k) : k \in 1..n}
<1> HIDE DEF E
<1>3. new \in Seq(T) /\ Len(new) = n
  OBVIOUS
<1>4. l \in Seq(T) /\ Len(l) \in Nat
  BY <1>1, LenProperties
<1>5. \A k \in 1..n : new[k] = E(k)
  OBVIOUS
<1> HIDE DEF new, T
<1>6. /\ m \in Seq(T) /\ Len(m) = Len(l) + n
      /\ \A i \in 1..Len(l) + n : m[i] = IF i <= Len(l) THEN l[i] ELSE new[i - Len(l)]
  <2>1. /\ l \o new \in Seq(T)
        /\ Len(l \o new) = Len(l) + Len(new)
        /\ \A i \in 1..Len(l) + Len(new) :
             (l \o new)[i] = IF i <= Len(l) THEN l[i] ELSE new[i - Len(l)]
    BY <1>3, <1>4, ConcatProperties
  <2> QED
    BY <1>2, <1>3, <2>1
<1>7. \A i \in 1..Len(l) : m[i] = l[i]
  BY <1>4, <1>6
<1>8. ASSUME NEW k \in 1..n PROVE m[Len(l) + k] = E(k)
  <2>1. Len(l) + k \in 1..Len(l) + n /\ ~ (Len(l) + k <= Len(l)) /\ Len(l) + k - Len(l) = k
    BY <1>4
  <2> QED
    BY <1>5, <1>6, <2>1
<1>9. EventsOf(m) = EventsOf(l) \union {E(k) : k \in 1..n}
  <2>1. ASSUME NEW e \in EventsOf(m) PROVE e \in EventsOf(l) \union {E(k) : k \in 1..n}
    <3>1. PICK i \in 1..Len(l) + n : e = m[i]
      BY <1>6 DEF EventsOf
    <3>2. CASE i <= Len(l)
      BY <1>4, <1>7, <3>1, <3>2 DEF EventsOf
    <3>3. CASE ~ (i <= Len(l))
      <4>1. i - Len(l) \in 1..n /\ i = Len(l) + (i - Len(l))
        BY <1>4, <3>3
      <4> QED
        BY <1>8, <3>1, <4>1
    <3> QED
      BY <3>2, <3>3
  <2>2. ASSUME NEW e \in EventsOf(l) PROVE e \in EventsOf(m)
    <3>1. PICK i \in 1..Len(l) : e = l[i]
      BY DEF EventsOf
    <3>2. i \in 1..Len(m)
      BY <1>4, <1>6
    <3> QED
      BY <1>7, <3>1, <3>2 DEF EventsOf
  <2>3. ASSUME NEW k \in 1..n PROVE E(k) \in EventsOf(m)
    <3>1. Len(l) + k \in 1..Len(m)
      BY <1>4, <1>6
    <3> QED
      BY <1>8, <3>1 DEF EventsOf
  <2> QED
    BY <2>1, <2>2, <2>3
<1>10. StoredEvents(l, s, b, cur, batch) = {E(k) : k \in 1..n}
  BY DEF StoredEvents, E
<1> QED
  BY <1>4, <1>6, <1>7, <1>8, <1>9, <1>10 DEF IsLog, E

-----------------------------------------------------------------------------
(* Part of a log.                                                          *)

\* The events come in the order of their positions.
Ordered(seq) == \A i, j \in 1..Len(seq) : i < j => seq[i].position < seq[j].position

\* f is the function OnlyIn chooses, on the first n elements.
IsKept(f, seq, S, n) ==
  f = [i \in 0..n |-> IF i = 0 THEN <<>>
                      ELSE IF seq[i] \in S THEN Append(f[i - 1], seq[i])
                      ELSE f[i - 1]]

(***************************************************************************)
(* OnlyIn is the value of such a function.                                 *)
(***************************************************************************)
LEMMA OnlyInIsKept ==
  ASSUME NEW seq, NEW S
  PROVE  OnlyIn(seq, S) = (CHOOSE f : IsKept(f, seq, S, Len(seq)))[Len(seq)]
  BY DEF OnlyIn, IsKept

(***************************************************************************)
(* The function exists for every length, by induction.                     *)
(***************************************************************************)
LEMMA KeptExists ==
  ASSUME NEW seq, NEW S
  PROVE  \A n \in Nat : \E f : IsKept(f, seq, S, n)
<1> DEFINE T == {n \in Nat : ~ \E f : IsKept(f, seq, S, n)}
<1> SUFFICES ASSUME T # {} PROVE FALSE
  OBVIOUS
<1>1. PICK n \in T : \A m \in T : n <= m
  BY LeastNatural
<1>2. n # 0
  <2> DEFINE f == [i \in 0..0 |-> <<>>]
  <2>1. IsKept(f, seq, S, 0)
    BY DEF IsKept
  <2> HIDE DEF f
  <2> QED
    BY <2>1
<1>3. n \in Nat /\ n - 1 \in Nat /\ n - 1 \notin T
  BY <1>1, <1>2
<1>4. PICK f : IsKept(f, seq, S, n - 1)
  BY <1>3
<1> DEFINE Next(x) == IF seq[n] \in S THEN Append(x, seq[n]) ELSE x
           g == [i \in 0..n |-> IF i = n THEN Next(f[n - 1]) ELSE f[i]]
           h == [i \in 0..n |-> IF i = 0 THEN <<>>
                                ELSE IF seq[i] \in S THEN Append(g[i - 1], seq[i])
                                ELSE g[i - 1]]
<1>5. ASSUME NEW i \in 0..n PROVE g[i] = h[i]
  <2>1. CASE i = n
    <3>1. g[n - 1] = f[n - 1] /\ g[n] = Next(f[n - 1])
      BY <1>3
    <3>2. h[n] = IF seq[n] \in S THEN Append(g[n - 1], seq[n]) ELSE g[n - 1]
      BY <1>2, <1>3
    <3> QED
      BY <2>1, <3>1, <3>2
  <2>2. CASE i # n
    <3>1. i \in 0..n - 1
      BY <1>3, <2>2
    <3>2. f[i] = IF i = 0 THEN <<>>
                 ELSE IF seq[i] \in S THEN Append(f[i - 1], seq[i])
                 ELSE f[i - 1]
      BY <1>4, <3>1 DEF IsKept
    <3>3. g[i] = f[i] /\ (i # 0 => g[i - 1] = f[i - 1])
      BY <1>3, <2>2
    <3> QED
      BY <3>2, <3>3
  <2> QED
    BY <2>1, <2>2
<1>6. g = h
  BY <1>5
<1>7. IsKept(g, seq, S, n)
  BY <1>6 DEF IsKept
<1> QED
  BY <1>1, <1>7

\* part holds what the first n elements of seq have in S, in order if seq is.
Draws(part, seq, S, n) ==
  /\ part \in Seq(S \intersect EventsOf(seq))
  /\ \A a \in 1..Len(part) : \E j \in 1..n : part[a] = seq[j]
  /\ \A j \in 1..n : seq[j] \in S => \E a \in 1..Len(part) : part[a] = seq[j]
  /\ Ordered(seq) => Ordered(part)

(***************************************************************************)
(* One more element keeps the order.                                       *)
(***************************************************************************)
LEMMA DrawOne ==
  ASSUME NEW seq, NEW S, NEW n \in 1..Len(seq), Len(seq) \in Nat,
         NEW part, Draws(part, seq, S, n - 1)
  PROVE  Draws(IF seq[n] \in S THEN Append(part, seq[n]) ELSE part, seq, S, n)
<1>1. \A j \in 1..n : j = n \/ j \in 1..n - 1
  OBVIOUS
<1>2. CASE seq[n] \notin S
  BY <1>1, <1>2 DEF Draws
<1>3. CASE seq[n] \in S
  <2>1. PICK next : next = Append(part, seq[n])
    OBVIOUS
  <2>2. seq[n] \in S \intersect EventsOf(seq) /\ part \in Seq(S \intersect EventsOf(seq))
    BY <1>3 DEF EventsOf, Draws
  <2>3. /\ next \in Seq(S \intersect EventsOf(seq))
        /\ Len(part) \in Nat /\ Len(next) = Len(part) + 1
        /\ \A a \in 1..Len(part) : next[a] = part[a]
        /\ next[Len(part) + 1] = seq[n]
    BY <2>1, <2>2, AppendProperties, LenProperties
  <2>4. \A a \in 1..Len(next) : \E j \in 1..n : next[a] = seq[j]
    <3> SUFFICES ASSUME NEW a \in 1..Len(next) PROVE \E j \in 1..n : next[a] = seq[j]
      OBVIOUS
    <3>1. CASE a \in 1..Len(part)
      <4>1. PICK j \in 1..n - 1 : part[a] = seq[j]
        BY <3>1 DEF Draws
      <4> QED
        BY <2>3, <3>1, <4>1
    <3>2. CASE a = Len(part) + 1
      BY <2>3, <3>2
    <3> QED
      BY <2>3, <3>1, <3>2
  <2>5. \A j \in 1..n : seq[j] \in S => \E a \in 1..Len(next) : next[a] = seq[j]
    <3> SUFFICES ASSUME NEW j \in 1..n, seq[j] \in S
                 PROVE  \E a \in 1..Len(next) : next[a] = seq[j]
      OBVIOUS
    <3>1. CASE j = n
      BY <2>3, <3>1
    <3>2. CASE j # n
      <4>1. PICK a \in 1..Len(part) : part[a] = seq[j]
        BY <1>1, <3>2 DEF Draws
      <4> QED
        BY <2>3, <4>1
    <3> QED
      BY <3>1, <3>2
  <2>6. Ordered(seq) => Ordered(next)
    <3> SUFFICES ASSUME Ordered(seq),
                        NEW a \in 1..Len(next), NEW b \in 1..Len(next), a < b
                 PROVE  next[a].position < next[b].position
      BY DEF Ordered
    <3>1. a \in 1..Len(part)
      BY <2>3
    <3>2. CASE b \in 1..Len(part)
      BY <2>3, <3>1, <3>2 DEF Draws, Ordered
    <3>3. CASE b = Len(part) + 1
      <4>1. PICK j \in 1..n - 1 : part[a] = seq[j]
        BY <3>1 DEF Draws
      <4>2. j \in 1..Len(seq) /\ j < n
        OBVIOUS
      <4>3. seq[j].position < seq[n].position
        BY <4>2 DEF Ordered
      <4> QED
        BY <2>3, <3>1, <3>3, <4>1, <4>3
    <3> QED
      BY <2>3, <3>2, <3>3
  <2> QED
    BY <1>3, <2>1, <2>3, <2>4, <2>5, <2>6 DEF Draws
<1> QED
  BY <1>2, <1>3

(***************************************************************************)
(* OnlyIn has the elements in the set, all of them, in their order.        *)
(***************************************************************************)
LEMMA OnlyInDraws ==
  ASSUME NEW seq, Len(seq) \in Nat, NEW S
  PROVE  Draws(OnlyIn(seq, S), seq, S, Len(seq))
<1> DEFINE n == Len(seq)
<1>1. PICK f : f = CHOOSE x : IsKept(x, seq, S, n)
  OBVIOUS
<1>2. IsKept(f, seq, S, n) /\ OnlyIn(seq, S) = f[n]
  BY <1>1, KeptExists, OnlyInIsKept
<1>3. f[0] = <<>>
  BY <1>2 DEF IsKept
<1>4. \A i \in 1..n : f[i] = IF seq[i] \in S THEN Append(f[i - 1], seq[i]) ELSE f[i - 1]
  <2> HIDE DEF n
  <2>1. \A i \in 0..n : f[i] = IF i = 0 THEN <<>>
                                ELSE IF seq[i] \in S THEN Append(f[i - 1], seq[i])
                                ELSE f[i - 1]
    BY <1>2 DEF IsKept
  <2>2. \A i \in 1..n : i \in 0..n /\ i # 0
    BY DEF n
  <2> QED
    BY <2>1, <2>2
<1> DEFINE T == {i \in 0..n : ~ Draws(f[i], seq, S, i)}
<1>5. T = {}
  <2> SUFFICES ASSUME T # {} PROVE FALSE
    OBVIOUS
  <2>1. PICK i \in T : \A j \in T : i <= j
    <3>1. T \subseteq Nat
      OBVIOUS
    <3> HIDE DEF T
    <3> QED
      BY <3>1, LeastNatural
  <2>2. Draws(f[0], seq, S, 0)
    <3>1. <<>> \in Seq(S \intersect EventsOf(seq)) /\ Len(<<>>) = 0
      OBVIOUS
    <3> QED
      BY <1>3, <3>1 DEF Draws, Ordered
  <2>3. i \in 1..n /\ i - 1 \in 0..n
    BY <2>1, <2>2
  <2>4. Draws(f[i - 1], seq, S, i - 1)
    BY <2>1, <2>3
  <2>5. Draws(f[i], seq, S, i)
    BY <1>4, <2>3, <2>4, DrawOne
  <2> QED
    BY <2>5
<1>6. n \in 0..n
  OBVIOUS
<1> QED
  BY <1>2, <1>5, <1>6

(***************************************************************************)
(* The elements of a part are those of the sequence that are in the set.   *)
(***************************************************************************)
LEMMA OnlyInEvents ==
  ASSUME NEW seq, Ordered(seq), Len(seq) \in Nat, NEW S
  PROVE  /\ IsLog(OnlyIn(seq, S)) /\ Len(OnlyIn(seq, S)) \in Nat
         /\ Ordered(OnlyIn(seq, S))
         /\ EventsOf(OnlyIn(seq, S)) = EventsOf(seq) \intersect S
<1>1. PICK part : part = OnlyIn(seq, S)
  OBVIOUS
<1>2. Draws(part, seq, S, Len(seq))
  BY <1>1, OnlyInDraws
<1>3. part \in Seq(S \intersect EventsOf(seq)) /\ Len(part) \in Nat /\ Ordered(part)
  BY <1>2 DEF Draws
<1>4. ASSUME NEW e \in EventsOf(part) PROVE e \in EventsOf(seq) \intersect S
  <2>1. PICK a \in 1..Len(part) : e = part[a]
    BY DEF EventsOf
  <2> QED
    BY <1>3, <2>1
<1>5. ASSUME NEW e \in EventsOf(seq) \intersect S PROVE e \in EventsOf(part)
  <2>1. PICK j \in 1..Len(seq) : e = seq[j]
    BY DEF EventsOf
  <2>2. PICK a \in 1..Len(part) : part[a] = seq[j]
    BY <1>2, <2>1 DEF Draws
  <2> QED
    BY <2>1, <2>2 DEF EventsOf
<1> QED
  BY <1>1, <1>3, <1>4, <1>5 DEF IsLog

(***************************************************************************)
(* So they are where the elements have no positions.                       *)
(***************************************************************************)
LEMMA OnlyInItems ==
  ASSUME NEW seq, Len(seq) \in Nat, NEW S, NEW part, part = OnlyIn(seq, S)
  PROVE  /\ part \in Seq(EventsOf(seq) \intersect S) /\ Len(part) \in Nat
         /\ EventsOf(part) = EventsOf(seq) \intersect S
<1>1. Draws(part, seq, S, Len(seq))
  BY OnlyInDraws
<1>2. part \in Seq(S \intersect EventsOf(seq)) /\ Len(part) \in Nat
  BY <1>1 DEF Draws
<1>3. ASSUME NEW e \in EventsOf(part) PROVE e \in EventsOf(seq) \intersect S
  <2>1. PICK a \in 1..Len(part) : e = part[a]
    BY DEF EventsOf
  <2> QED
    BY <1>2, <2>1
<1>4. ASSUME NEW e \in EventsOf(seq) \intersect S PROVE e \in EventsOf(part)
  <2>1. PICK j \in 1..Len(seq) : e = seq[j]
    BY DEF EventsOf
  <2>2. PICK a \in 1..Len(part) : part[a] = seq[j]
    BY <1>1, <2>1 DEF Draws
  <2> QED
    BY <2>1, <2>2 DEF EventsOf
<1>5. S \intersect EventsOf(seq) = EventsOf(seq) \intersect S
  OBVIOUS
<1> QED
  BY <1>2, <1>3, <1>4, <1>5

\* A sequence of events in the order of their positions.
Placed(seq) ==
  IsLog(seq) /\ Len(seq) \in Nat /\ Ordered(seq) /\ \A e \in EventsOf(seq) : e.position \in Nat

(***************************************************************************)
(* Of two such sequences of the same events, each starts with the other.   *)
(***************************************************************************)
LEMMA SamePrefix ==
  ASSUME NEW x, Placed(x), NEW y, Placed(y), EventsOf(x) = EventsOf(y)
  PROVE  \A i \in 1..Len(x) : i <= Len(y) /\ x[i] = y[i]
<1> DEFINE T == {i \in 1..Len(x) : ~ (i <= Len(y) /\ x[i] = y[i])}
<1> SUFFICES ASSUME T # {} PROVE FALSE
  OBVIOUS
<1>0. /\ Len(x) \in Nat /\ Len(y) \in Nat /\ Ordered(x) /\ Ordered(y)
      /\ \A i \in 1..Len(x) : x[i] \in EventsOf(x) /\ x[i].position \in Nat
      /\ \A i \in 1..Len(y) : y[i] \in EventsOf(y) /\ y[i].position \in Nat
  BY DEF Placed, EventsOf
<1>1. PICK i \in T : \A j \in T : i <= j
  <2>1. T \subseteq Nat
    BY <1>0
  <2> HIDE DEF T
  <2> QED
    BY <2>1, LeastNatural
<1>2. i \in 1..Len(x) /\ ~ (i <= Len(y) /\ x[i] = y[i])
  OBVIOUS
<1>3. \A j \in 1..i - 1 : j <= Len(y) /\ x[j] = y[j]
  <2> SUFFICES ASSUME NEW j \in 1..i - 1 PROVE j \notin T /\ j \in 1..Len(x)
    OBVIOUS
  <2>1. ~ (i <= j) /\ j \in 1..Len(x)
    BY <1>0, <1>2
  <2> HIDE DEF T
  <2> QED
    BY <1>1, <2>1
<1> HIDE DEF T
<1>4. PICK k \in 1..Len(y) : x[i] = y[k]
  BY <1>0, <1>2 DEF EventsOf
<1>5. ~ (k < i)
  <2> SUFFICES ASSUME k < i PROVE FALSE
    OBVIOUS
  <2>1. k \in 1..i - 1 /\ k \in 1..Len(x)
    BY <1>0, <1>2
  <2>2. x[k] = x[i] /\ x[k].position < x[i].position
    BY <1>0, <1>2, <1>3, <1>4, <2>1 DEF Ordered
  <2> QED
    BY <1>0, <1>2, <2>2
<1>6. i <= Len(y) /\ i \in 1..Len(y) /\ x[i] # y[i] /\ i < k
  BY <1>0, <1>2, <1>4, <1>5
<1>7. PICK h \in 1..Len(x) : y[i] = x[h]
  BY <1>0, <1>6 DEF EventsOf
<1>8. ~ (h < i)
  <2> SUFFICES ASSUME h < i PROVE FALSE
    OBVIOUS
  <2>1. h \in 1..i - 1 /\ h \in 1..Len(y)
    BY <1>0, <1>2, <1>6
  <2>2. y[h] = y[i] /\ y[h].position < y[i].position
    BY <1>0, <1>3, <1>6, <1>7, <2>1 DEF Ordered
  <2> QED
    BY <1>0, <1>6, <2>2
<1>9. i < h
  BY <1>0, <1>6, <1>7, <1>8
<1>10. y[i].position < y[k].position /\ x[i].position < x[h].position
  BY <1>0, <1>2, <1>6, <1>9 DEF Ordered
<1>11. y[i].position < x[i].position /\ x[i].position < y[i].position
  BY <1>4, <1>7, <1>10
<1>12. x[i].position \in Nat /\ y[i].position \in Nat
  BY <1>0, <1>2, <1>6
<1> QED
  BY <1>11, <1>12

(***************************************************************************)
(* So they are the same sequence.                                          *)
(***************************************************************************)
LEMMA SameSequence ==
  ASSUME NEW x, Placed(x), NEW y, Placed(y), EventsOf(x) = EventsOf(y)
  PROVE  x = y
<1>1. /\ \A i \in 1..Len(x) : i <= Len(y) /\ x[i] = y[i]
      /\ \A i \in 1..Len(y) : i <= Len(x) /\ y[i] = x[i]
  BY SamePrefix
<1>2. Len(x) \in Nat /\ Len(y) \in Nat
  BY DEF Placed
<1>3. Len(x) = Len(y)
  <2>1. CASE Len(x) < Len(y)
    <3>1. Len(y) \in 1..Len(y)
      BY <1>2, <2>1
    <3> QED
      BY <1>1, <1>2, <2>1, <3>1
  <2>2. CASE Len(y) < Len(x)
    <3>1. Len(x) \in 1..Len(x)
      BY <1>2, <2>2
    <3> QED
      BY <1>1, <1>2, <2>2, <3>1
  <2> QED
    BY <1>2, <2>1, <2>2
<1>4. PICK S, U : x \in Seq(S) /\ y \in Seq(U)
  BY DEF Placed, IsLog
<1>5. x \in Seq(S \union U) /\ y \in Seq(S \union U)
  BY <1>4
<1> QED
  BY <1>1, <1>3, <1>5, SeqEqual

(***************************************************************************)
(* A part of such a sequence is one, of the events in the set.             *)
(***************************************************************************)
LEMMA OnlyInPlaced ==
  ASSUME NEW seq, Placed(seq), NEW S, NEW part, part = OnlyIn(seq, S)
  PROVE  Placed(part) /\ EventsOf(part) = EventsOf(seq) \intersect S
<1>1. /\ IsLog(part) /\ Len(part) \in Nat /\ Ordered(part)
      /\ EventsOf(part) = EventsOf(seq) \intersect S
  BY OnlyInEvents DEF Placed
<1> QED
  BY <1>1 DEF Placed

(***************************************************************************)
(* Hence so is what it has of one stream.                                  *)
(***************************************************************************)
LEMMA OnStreamPlaced ==
  ASSUME NEW seq, Placed(seq), NEW s, NEW part, part = OnStream(seq, s)
  PROVE  Placed(part) /\ EventsOf(part) = {e \in EventsOf(seq) : e.stream = s}
<1>1. PICK S : S = {e \in EventsOf(seq) : e.stream = s}
  OBVIOUS
<1>2. part = OnlyIn(seq, S) /\ EventsOf(seq) \intersect S = S
  BY <1>1 DEF OnStream
<1>3. Placed(part) /\ EventsOf(part) = EventsOf(seq) \intersect S
  BY <1>2, OnlyInPlaced
<1> QED
  BY <1>1, <1>2, <1>3

(***************************************************************************)
(* A page of an ordered sequence is ordered, and its events are its.       *)
(***************************************************************************)
LEMMA CappedEvents ==
  ASSUME NEW seq, IsLog(seq), Ordered(seq), NEW limit \in Int
  PROVE  /\ IsLog(Capped(seq, limit)) /\ Len(Capped(seq, limit)) \in Nat
         /\ Ordered(Capped(seq, limit))
         /\ EventsOf(Capped(seq, limit)) \subseteq EventsOf(seq)
<1>1. PICK S : seq \in Seq(S)
  BY DEF IsLog
<1>2. Len(seq) \in Nat
  BY <1>1, LenProperties
<1>3. PICK n \in Nat \ {0} : n = IF limit < 1 THEN 1 ELSE limit
  OBVIOUS
<1>4. PICK page : page = Capped(seq, limit)
  OBVIOUS
<1>5. page = IF Len(seq) <= n THEN seq ELSE SubSeq(seq, 1, n)
  BY <1>3, <1>4 DEF Capped
<1>6. CASE Len(seq) <= n
  BY <1>2, <1>4, <1>5, <1>6
<1>7. CASE ~ (Len(seq) <= n)
  <2>1. /\ page \in Seq(S) /\ Len(page) = n
        /\ \A i \in 1..n : page[i] = seq[i]
    BY <1>1, <1>2, <1>5, <1>7
  <2>2. \A i \in 1..n : i \in 1..Len(seq)
    BY <1>2, <1>7
  <2>3. Ordered(page)
    BY <2>1, <2>2 DEF Ordered
  <2>4. EventsOf(page) \subseteq EventsOf(seq)
    BY <2>1, <2>2 DEF EventsOf
  <2> QED
    BY <1>4, <2>1, <2>3, <2>4 DEF IsLog
<1> QED
  BY <1>6, <1>7

=============================================================================
