------------------------- MODULE RateLimiter_proofs -------------------------
(***************************************************************************)
(* Proofs about RateLimiter, for rings and tables of any size: the ring of *)
(* a client answers as a complete log of its admissions would.             *)
(***************************************************************************)
EXTENDS RateLimiter, FiniteSetTheorems, SequenceTheorems, TLAPS

\* A function on the clients is typed by its values.
LEMMA ByValue ==
  ASSUME NEW S, NEW f, f = [j \in Key |-> f[j]], \A j \in Key : f[j] \in S
  PROVE  f \in [Key -> S]
OBVIOUS

-----------------------------------------------------------------------------
(***************************************************************************)
(* The ring buffer.                                                        *)
(***************************************************************************)
\* Positions in the ring: one turn around it at most.
LEMMA OneTurn ==
    \A s \in Slot, i \in 0..Capacity :
        /\ (s + i) % Capacity = IF s + i < Capacity THEN s + i ELSE s + i - Capacity
        /\ (s + i) % Capacity \in Slot
<1>1. \A a, c \in Nat : c > 0 /\ a < c => a % c = a
  OBVIOUS
<1>2. \A a, c \in Nat : c > 0 /\ c <= a /\ a < c + c => a % c = a - c
  OBVIOUS
<1> TAKE s \in Slot, i \in 0..Capacity
<1>3. s + i \in Nat /\ Capacity \in Nat /\ Capacity > 0 /\ s + i < Capacity + Capacity
  BY WindowAssumption DEF Slot
<1>4. CASE s + i < Capacity
  BY <1>1, <1>3, <1>4 DEF Slot
<1>5. CASE ~(s + i < Capacity)
  <2>1. s \in Nat /\ i \in Nat /\ s <= Capacity - 1 /\ i <= Capacity /\ Capacity <= s + i
    BY <1>3, <1>5, WindowAssumption DEF Slot
  <2>2. (s + i) % Capacity = s + i - Capacity
    BY <1>2, <1>3, <2>1
  <2>3. s + i - Capacity \in Slot
    BY <1>3, <2>1 DEF Slot
  <2> QED
    BY <1>5, <2>2, <2>3
<1> QED
  BY <1>4, <1>5

LEMMA DroppedTracks ==
    ASSUME NEW e \in Entry, NEW n \in 0..Capacity, n <= e.count_used
    PROVE  /\ Dropped(e, n) \in Entry
           /\ Dropped(e, n).count_used = e.count_used - n
           /\ \A i \in 0..(e.count_used - n - 1) : Oldest(Dropped(e, n), i) = Oldest(e, n + i)
<1>1. e.start \in Slot /\ e.count_used \in 0..Capacity /\ e.timestamps \in [Slot -> Nat]
  BY DEF Entry
<1> DEFINE s2 == (e.start + n) % Capacity
<1>2. s2 \in Slot /\ s2 = IF e.start + n < Capacity THEN e.start + n
                                                   ELSE e.start + n - Capacity
  BY <1>1, OneTurn
<1> HIDE DEF s2
<1>3. Dropped(e, n) = [timestamps |-> e.timestamps, start |-> s2,
                       count_used |-> e.count_used - n]
  BY DEF Dropped, s2
<1>4. Dropped(e, n) \in Entry
  BY <1>1, <1>2, <1>3, WindowAssumption DEF Entry
<1>5. ASSUME NEW i \in 0..(e.count_used - n - 1)
      PROVE  Oldest(Dropped(e, n), i) = Oldest(e, n + i)
  <2>1. i \in 0..Capacity /\ n + i \in 0..Capacity /\ n + i < Capacity
    BY <1>1, WindowAssumption
  <2>2. /\ (s2 + i) % Capacity = IF s2 + i < Capacity THEN s2 + i ELSE s2 + i - Capacity
        /\ (e.start + (n + i)) % Capacity =
             IF e.start + (n + i) < Capacity THEN e.start + (n + i)
                                             ELSE e.start + (n + i) - Capacity
    BY <1>1, <1>2, <2>1, OneTurn
  <2> DEFINE m1 == (s2 + i) % Capacity
             m2 == (e.start + (n + i)) % Capacity
             s1 == e.start
  <2> HIDE DEF m1, m2, s1
  <2>3. /\ s1 \in 0..(Capacity - 1) /\ Capacity \in Nat
        /\ s2 = IF s1 + n < Capacity THEN s1 + n ELSE s1 + n - Capacity
        /\ m1 = IF s2 + i < Capacity THEN s2 + i ELSE s2 + i - Capacity
        /\ m2 = IF s1 + (n + i) < Capacity THEN s1 + (n + i) ELSE s1 + (n + i) - Capacity
    BY <1>1, <1>2, <2>2, WindowAssumption DEF m1, m2, s1, Slot
  <2>4. m1 = m2
    BY <2>1, <2>3
  <2> QED
    BY <1>3, <2>4 DEF Oldest, m1, m2
<1> QED
  BY <1>3, <1>4, <1>5

LEMMA AddedTracks ==
    ASSUME NEW e \in Entry, NEW t \in Nat, Admits(e)
    PROVE  /\ Added(e, t) \in Entry
           /\ Added(e, t).count_used = e.count_used + 1
           /\ \A i \in 0..(e.count_used - 1) : Oldest(Added(e, t), i) = Oldest(e, i)
           /\ Oldest(Added(e, t), e.count_used) = t
<1>1. /\ e.start \in Slot /\ e.count_used \in 0..Capacity /\ e.timestamps \in [Slot -> Nat]
      /\ e.count_used < Capacity
  BY DEF Entry, Admits
<1> DEFINE pos == (e.start + e.count_used) % Capacity
<1>2. pos \in Slot
  BY <1>1, OneTurn
<1>3. \A i \in 0..(e.count_used - 1) :
        (e.start + i) % Capacity \in Slot /\ (e.start + i) % Capacity # pos
  <2> TAKE i \in 0..(e.count_used - 1)
  <2>1. i \in 0..Capacity
    BY <1>1, WindowAssumption
  <2>2. /\ (e.start + i) % Capacity = IF e.start + i < Capacity THEN e.start + i
                                                           ELSE e.start + i - Capacity
        /\ pos = IF e.start + e.count_used < Capacity
                 THEN e.start + e.count_used ELSE e.start + e.count_used - Capacity
        /\ (e.start + i) % Capacity \in Slot
    BY <1>1, <2>1, OneTurn
  <2> DEFINE m == (e.start + i) % Capacity
             s == e.start
             c == e.count_used
  <2> HIDE DEF pos, m, s, c
  <2>3. /\ s \in 0..(Capacity - 1) /\ c \in 0..(Capacity - 1) /\ Capacity \in Nat
        /\ i \in 0..(c - 1)
        /\ m = IF s + i < Capacity THEN s + i ELSE s + i - Capacity
        /\ pos = IF s + c < Capacity THEN s + c ELSE s + c - Capacity
    BY <1>1, <2>2, WindowAssumption DEF m, s, c, Slot
  <2>4. m # pos
    BY <2>3
  <2> QED
    BY <2>2, <2>4 DEF m
<1> HIDE DEF pos
<1>4. Added(e, t) = [timestamps |-> [e.timestamps EXCEPT ![pos] = t],
                     start |-> e.start, count_used |-> e.count_used + 1]
  BY DEF Added, pos
<1>5. Added(e, t) \in Entry
  BY <1>1, <1>2, <1>4, WindowAssumption DEF Entry
<1>6. \A i \in 0..(e.count_used - 1) : Oldest(Added(e, t), i) = Oldest(e, i)
  BY <1>1, <1>3, <1>4 DEF Oldest
<1>7. Oldest(Added(e, t), e.count_used) = t
  BY <1>1, <1>2, <1>4 DEF Oldest, pos
<1> QED
  BY <1>4, <1>5, <1>6, <1>7

-----------------------------------------------------------------------------
(***************************************************************************)
(* One client: its entry e, the log l of its admissions, the reset time p  *)
(* it was given, at time t.  What depends on the clock holds while the     *)
(* clock was never set back (b is FALSE).                                  *)
(***************************************************************************)
\* The ring holds the end of the log.
Tracks(e, l) ==
    /\ e.count_used <= Len(l)
    /\ \A i \in 0..(e.count_used - 1) :
         Oldest(e, i) = l[Len(l) - e.count_used + 1 + i]

\* A refused client's ring stays full until the client comes back.
Refused(e, p) == p > 0 => e.count_used = Capacity /\ p = Oldest(e, 0) + Window

Sorted(l, t) ==
    /\ \A i, j \in 1..Len(l) : i <= j => l[i] <= l[j]
    /\ \A i \in 1..Len(l) : l[i] <= t

\* What is in the log and not in the ring has left the window.
Left(e, l, t) == \A i \in 1..(Len(l) - e.count_used) : l[i] <= t - Window

Spread(l) == \A i \in 1..Len(l) : i + Capacity \in 1..Len(l) => l[i + Capacity] - l[i] >= Window

Good(e, l, p, t, b) ==
    /\ e \in Entry /\ l \in Seq(Nat) /\ p \in Nat
    /\ Tracks(e, l)
    /\ Refused(e, p)
    /\ ~b => Sorted(l, t) /\ Left(e, l, t) /\ Spread(l)

LEMMA EntryType ==
    ASSUME NEW e \in Entry
    PROVE  /\ e.count_used \in 0..Capacity /\ e.count_used \in Nat
           /\ \A i \in 0..Capacity : Oldest(e, i) \in Nat
<1>1. e.start \in Slot /\ e.count_used \in 0..Capacity /\ e.timestamps \in [Slot -> Nat]
  BY DEF Entry
<1>2. \A i \in 0..Capacity : (e.start + i) % Capacity \in Slot
  BY <1>1, OneTurn
<1> QED
  BY <1>1, <1>2, WindowAssumption DEF Oldest

LEMMA EmptyGood == \A t \in Nat, b \in BOOLEAN : Good(EmptyEntry, <<>>, 0, t, b)
<1>1. EmptyEntry \in Entry
  BY WindowAssumption DEF EmptyEntry, Entry, Slot
<1>2. EmptyEntry.count_used = 0
  BY DEF EmptyEntry
<1> QED
  BY <1>1, <1>2 DEF Good, Tracks, Refused, Sorted, Left, Spread

\* Time passes.
LEMMA TickGood ==
    ASSUME NEW e, NEW l, NEW p, NEW t \in Nat, NEW u \in Nat, NEW b \in BOOLEAN,
           Good(e, l, p, t, b)
    PROVE  Good(e, l, p, u, b \/ u < t)
<1>1. /\ l \in Seq(Nat) /\ Len(l) \in Nat /\ \A i \in 1..Len(l) : l[i] \in Nat
      /\ e.count_used \in Nat /\ Window \in Nat
  BY EntryType, WindowAssumption DEF Good
<1>2. ASSUME ~b, ~(u < t) PROVE Sorted(l, u) /\ Left(e, l, u) /\ Spread(l)
  <2>1. Sorted(l, t) /\ Left(e, l, t) /\ Spread(l)
    BY <1>2 DEF Good
  <2>2. Sorted(l, u)
    BY <1>1, <1>2, <2>1 DEF Sorted
  <2>3. Left(e, l, u)
    BY <1>1, <1>2, <2>1 DEF Left
  <2> QED
    BY <2>1, <2>2, <2>3
<1> QED
  BY <1>2 DEF Good

\* Pruning keeps the end of the log, and what it drops has left the window.
LEMMA PruneGood ==
    ASSUME NEW e, NEW l, NEW p, NEW t \in Nat, NEW b \in BOOLEAN,
           Good(e, l, p, t, b), NEW n \in 0..Capacity, Prunes(e, t, n)
    PROVE  /\ Dropped(e, n) \in Entry
           /\ Tracks(Dropped(e, n), l)
           /\ ~b => Left(Dropped(e, n), l, t)
           /\ Dropped(e, n).count_used > 0 => Oldest(Dropped(e, n), 0) > t - Window
<1> DEFINE d == Dropped(e, n)
           c == e.count_used
<1>0. /\ e \in Entry /\ l \in Seq(Nat) /\ Len(l) \in Nat
      /\ c \in Nat /\ c <= Len(l) /\ c <= Capacity /\ n \in 0..c /\ n \in Nat
      /\ Capacity \in Nat /\ Window \in Nat
      /\ \A i \in 0..Capacity : Oldest(e, i) \in Nat
      /\ \A i \in 0..(c - 1) : Oldest(e, i) = l[Len(l) - c + 1 + i]
  BY EntryType, WindowAssumption DEF Good, Tracks, Prunes
<1>1. d \in Entry /\ d.count_used = c - n
      /\ \A i \in 0..(c - n - 1) : Oldest(d, i) = Oldest(e, n + i)
  BY <1>0, DroppedTracks
<1> HIDE DEF d, c
<1>2. Tracks(d, l)
  <2>1. \A i \in 0..(c - n - 1) : Oldest(d, i) = l[Len(l) - c + 1 + (n + i)]
    BY <1>0, <1>1
  <2>2. \A i \in 0..(c - n - 1) : Len(l) - c + 1 + (n + i) = Len(l) - (c - n) + 1 + i
    BY <1>0
  <2> QED
    BY <1>0, <1>1, <2>1, <2>2 DEF Tracks
<1>3. ~b => Left(d, l, t)
  <2> SUFFICES ASSUME ~b, NEW i \in 1..(Len(l) - (c - n)) PROVE l[i] <= t - Window
    BY <1>1 DEF Left
  <2>1. CASE i <= Len(l) - c
    <3>1. i \in 1..(Len(l) - c)
      BY <1>0, <2>1
    <3> QED
      BY <3>1 DEF Good, Left, c
  <2>2. CASE ~(i <= Len(l) - c)
    <3> DEFINE j == i - (Len(l) - c) - 1
    <3>1. j \in 0..(n - 1) /\ j \in 0..(c - 1) /\ Len(l) - c + 1 + j = i
      BY <1>0, <2>2
    <3> HIDE DEF j
    <3>2. Oldest(e, j) <= t - Window
      BY <3>1 DEF Prunes, Expired
    <3> QED
      BY <1>0, <3>1, <3>2
  <2> QED
    BY <2>1, <2>2
<1>4. d.count_used > 0 => Oldest(d, 0) > t - Window
  <2> SUFFICES ASSUME d.count_used > 0 PROVE Oldest(d, 0) > t - Window
    OBVIOUS
  <2>1. n # c /\ 0 \in 0..(c - n - 1) /\ n \in 0..Capacity
    BY <1>0, <1>1
  <2>2. Oldest(d, 0) = Oldest(e, n)
    BY <1>0, <1>1, <2>1
  <2>3. ~(Oldest(e, n) <= t - Window)
    BY <2>1 DEF Prunes, Expired, c
  <2> QED
    BY <1>0, <2>1, <2>2, <2>3
<1> QED
  BY <1>1, <1>2, <1>3, <1>4 DEF d

\* A request is admitted.
LEMMA AddGood ==
    ASSUME NEW e, NEW l, NEW p, NEW t \in Nat, NEW b \in BOOLEAN,
           Good(e, l, p, t, b), NEW n \in 0..Capacity, Prunes(e, t, n),
           Admits(Dropped(e, n))
    PROVE  Good(Added(Dropped(e, n), t), Append(l, t), 0, t, b)
<1> DEFINE d == Dropped(e, n)
           c == d.count_used
           a == Added(d, t)
           m == Append(l, t)
<1>0. /\ d \in Entry /\ Tracks(d, l) /\ (~b => Left(d, l, t))
      /\ l \in Seq(Nat) /\ (~b => Sorted(l, t) /\ Spread(l))
  BY PruneGood DEF Good
<1> HIDE DEF d
<1>1. /\ Len(l) \in Nat /\ c \in Nat /\ c <= Len(l) /\ c < Capacity
      /\ Capacity \in Nat /\ Window \in Nat
      /\ \A i \in 1..Len(l) : l[i] \in Nat
      /\ \A i \in 0..(c - 1) : Oldest(d, i) = l[Len(l) - c + 1 + i]
  BY <1>0, EntryType, WindowAssumption DEF Tracks, Admits, d
<1>2. /\ a \in Entry /\ a.count_used = c + 1
      /\ \A i \in 0..(c - 1) : Oldest(a, i) = Oldest(d, i)
      /\ Oldest(a, c) = t
  BY <1>0, AddedTracks DEF d
<1>3. /\ m \in Seq(Nat) /\ Len(m) = Len(l) + 1
      /\ \A i \in 1..Len(l) : m[i] = l[i]
      /\ m[Len(l) + 1] = t
  BY <1>0
<1> HIDE DEF c, a, m
<1>4. Tracks(a, m)
  <2> SUFFICES ASSUME NEW i \in 0..c PROVE Oldest(a, i) = m[Len(l) - c + 1 + i]
    BY <1>1, <1>2, <1>3 DEF Tracks
  <2>1. CASE i = c
    BY <1>1, <1>2, <1>3, <2>1
  <2>2. CASE i # c
    <3>1. i \in 0..(c - 1) /\ Len(l) - c + 1 + i \in 1..Len(l)
      BY <1>1, <2>2
    <3> QED
      BY <1>1, <1>2, <1>3, <3>1
  <2> QED
    BY <2>1, <2>2
<1>5. ASSUME ~b PROVE Sorted(m, t) /\ Left(a, m, t) /\ Spread(m)
  <2>1. Sorted(m, t)
    <3>1. \A i \in 1..Len(l) : l[i] <= t /\ m[i] = l[i]
      BY <1>0, <1>3, <1>5 DEF Sorted
    <3>2. ASSUME NEW i \in 1..Len(m) PROVE m[i] <= t
      <4>1. i \in 1..Len(l) \/ i = Len(l) + 1
        BY <1>1, <1>3
      <4> QED
        BY <1>3, <3>1, <4>1
    <3>3. ASSUME NEW i \in 1..Len(m), NEW j \in 1..Len(m), i <= j PROVE m[i] <= m[j]
      <4>1. CASE j = Len(l) + 1
        BY <1>3, <3>2, <4>1
      <4>2. CASE j # Len(l) + 1
        <5>1. i \in 1..Len(l) /\ j \in 1..Len(l)
          BY <1>1, <1>3, <3>3, <4>2
        <5>2. l[i] <= l[j]
          BY <1>0, <1>5, <3>3, <5>1 DEF Sorted
        <5> QED
          BY <3>1, <5>1, <5>2
      <4> QED
        BY <4>1, <4>2
    <3> QED
      BY <3>2, <3>3 DEF Sorted
  <2>2. Left(a, m, t)
    <3> SUFFICES ASSUME NEW i \in 1..(Len(l) - c) PROVE m[i] <= t - Window
      BY <1>1, <1>2, <1>3 DEF Left
    <3>1. i \in 1..Len(l) /\ l[i] <= t - Window
      BY <1>0, <1>1, <1>5 DEF Left, c
    <3> QED
      BY <1>3, <3>1
  <2>3. Spread(m)
    <3> SUFFICES ASSUME NEW i \in 1..(Len(l) + 1), i + Capacity \in 1..(Len(l) + 1)
                 PROVE  m[i + Capacity] - m[i] >= Window
      BY <1>3 DEF Spread
    <3>1. CASE i + Capacity = Len(l) + 1
      <4>1. i \in 1..(Len(l) - c) /\ i \in 1..Len(l)
        BY <1>1, <3>1
      <4>2. l[i] <= t - Window
        BY <1>0, <1>5, <4>1 DEF Left, c
      <4> QED
        BY <1>1, <1>3, <3>1, <4>1, <4>2
    <3>2. CASE i + Capacity # Len(l) + 1
      <4>1. i \in 1..Len(l) /\ i + Capacity \in 1..Len(l)
        BY <1>1, <3>2, WindowAssumption
      <4> QED
        BY <1>0, <1>3, <1>5, <4>1 DEF Spread
    <3> QED
      BY <3>1, <3>2
  <2> QED
    BY <2>1, <2>2, <2>3
<1> QED
  BY <1>2, <1>3, <1>4, <1>5 DEF Good, Refused, a, m, d

\* A request is refused.
LEMMA RefuseGood ==
    ASSUME NEW e, NEW l, NEW p, NEW t \in Nat, NEW b \in BOOLEAN,
           Good(e, l, p, t, b), NEW n \in 0..Capacity, Prunes(e, t, n),
           ~Admits(Dropped(e, n))
    PROVE  Good(Dropped(e, n), l, get_reset_time(Dropped(e, n)), t, b)
<1> DEFINE d == Dropped(e, n)
<1>0. /\ d \in Entry /\ Tracks(d, l) /\ (~b => Left(d, l, t))
      /\ l \in Seq(Nat) /\ (~b => Sorted(l, t) /\ Spread(l))
  BY PruneGood DEF Good
<1>1. d.count_used = Capacity
  BY <1>0, EntryType, WindowAssumption DEF Admits
<1> HIDE DEF d
<1>2. get_reset_time(d) \in Nat
  BY <1>0, EntryType, WindowAssumption DEF get_reset_time
<1> QED
  BY <1>0, <1>1, <1>2 DEF Good, Refused, get_reset_time, d

\* A client that was refused is admitted at the reset time and not before.
LEMMA ResetExact ==
    ASSUME NEW e, NEW l, NEW p, NEW t \in Nat, NEW b,
           Good(e, l, p, t, b), p > 0, NEW n \in 0..Capacity, Prunes(e, t, n)
    PROVE  Admits(Dropped(e, n)) <=> t >= p
<1>1. /\ e \in Entry /\ e.count_used = Capacity /\ p = Oldest(e, 0) + Window
      /\ Oldest(e, 0) \in Nat /\ Window \in Nat /\ Capacity \in Nat /\ Capacity > 0
  BY EntryType, WindowAssumption DEF Good, Refused
<1>2. Admits(Dropped(e, n)) <=> n > 0
  BY <1>1 DEF Admits, Dropped
<1>3. n > 0 <=> Oldest(e, 0) <= t - Window
  <2>1. CASE n = 0
    BY <1>1, <2>1 DEF Prunes, Expired
  <2>2. CASE n > 0
    BY <1>1, <2>2 DEF Prunes, Expired
  <2> QED
    BY <2>1, <2>2
<1> QED
  BY <1>1, <1>2, <1>3

\* After pruning the ring holds exactly the admissions in the window.
LEMMA CountInWindow ==
    ASSUME NEW e, NEW l, NEW p, NEW t \in Nat,
           Good(e, l, p, t, FALSE), NEW n \in 0..Capacity, Prunes(e, t, n)
    PROVE  Cardinality({i \in DOMAIN l : l[i] > t - Window}) = Dropped(e, n).count_used
<1> DEFINE d == Dropped(e, n)
           c == d.count_used
<1>0. /\ d \in Entry /\ Tracks(d, l) /\ Left(d, l, t)
      /\ (c > 0 => Oldest(d, 0) > t - Window)
      /\ l \in Seq(Nat) /\ Sorted(l, t)
  BY PruneGood DEF Good
<1> HIDE DEF d
<1>1. /\ Len(l) \in Nat /\ c \in Nat /\ c <= Len(l) /\ Window \in Nat
      /\ DOMAIN l = 1..Len(l)
      /\ \A i \in 1..Len(l) : l[i] \in Nat
      /\ \A i \in 0..(c - 1) : Oldest(d, i) = l[Len(l) - c + 1 + i]
  BY <1>0, EntryType, WindowAssumption DEF Tracks
<1>2. \A i \in 1..Len(l) : l[i] > t - Window <=> i > Len(l) - c
  <2> TAKE i \in 1..Len(l)
  <2>1. CASE i > Len(l) - c
    <3>1. c > 0 /\ Len(l) - c + 1 \in 1..Len(l) /\ Len(l) - c + 1 <= i
      BY <1>1, <2>1
    <3>2. l[Len(l) - c + 1] > t - Window
      <4>1. 0 \in 0..(c - 1) /\ Len(l) - c + 1 + 0 = Len(l) - c + 1
        BY <1>1, <3>1
      <4>2. Oldest(d, 0) = l[Len(l) - c + 1]
        BY <1>1, <4>1
      <4> QED
        BY <1>0, <3>1, <4>2
    <3>3. l[Len(l) - c + 1] <= l[i]
      BY <1>0, <3>1 DEF Sorted
    <3> QED
      BY <1>1, <2>1, <3>1, <3>2, <3>3
  <2>2. CASE ~(i > Len(l) - c)
    <3>1. i \in 1..(Len(l) - c)
      BY <1>1, <2>2
    <3> QED
      BY <1>0, <1>1, <2>2, <3>1 DEF Left, c
  <2> QED
    BY <2>1, <2>2
<1> HIDE DEF c
<1>3. {i \in DOMAIN l : l[i] > t - Window} = (Len(l) - c + 1)..Len(l)
  BY <1>1, <1>2
<1>4. Cardinality((Len(l) - c + 1)..Len(l)) = c
  BY <1>1, FS_Interval
<1> QED
  BY <1>3, <1>4 DEF c, d

-----------------------------------------------------------------------------
(***************************************************************************)
(* The table: its keys D in the order q of their latest checks; s gives,   *)
(* for each key, the keys checked since.                                   *)
(***************************************************************************)
Queue(q, D, s) ==
    /\ q \in Seq(D)
    /\ \A i, j \in 1..Len(q) : q[i] = q[j] => i = j
    /\ \A x \in D : \E i \in 1..Len(q) : q[i] = x
    /\ \A i, j \in 1..Len(q) : i < j => q[j] \in s[q[i]]

\* A key of the table is moved to the end.
LEMMA MoveQueue ==
    ASSUME NEW q, NEW D, NEW s, NEW z, Queue(q, D, s), NEW k \in D,
           NEW p \in 1..Len(q), q[p] = k,
           \A x \in D \ {k} : z[x] = s[x] \cup {k},
           NEW r,
           r = [i \in 1..Len(q) |-> IF i < p THEN q[i]
                                    ELSE IF i < Len(q) THEN q[i + 1] ELSE k]
    PROVE  Queue(r, D, z) /\ Len(r) = Len(q)
<1> DEFINE n == Len(q)
           from(i) == IF i < p THEN i ELSE IF i < n THEN i + 1 ELSE p
<1>0. /\ n \in Nat /\ q \in Seq(D) /\ \A i \in 1..n : q[i] \in D
  BY LenProperties DEF Queue
<1>1. \A i \in 1..n : from(i) \in 1..n /\ r[i] = q[from(i)]
  BY <1>0
<1>2. \A i, j \in 1..n : from(i) = from(j) => i = j
  BY <1>0
<1>3. \A i \in 1..n : i < n => from(i) # p
  BY <1>0
<1>4. \A i, j \in 1..n : i < j /\ j < n => from(i) < from(j)
  BY <1>0
<1>5. \A j \in 1..n : \E i \in 1..n : from(i) = j
  <2> TAKE j \in 1..n
  <2>1. CASE j < p
    <3>1. from(j) = j
      BY <1>0, <2>1
    <3> QED
      BY <3>1
  <2>2. CASE j = p
    <3>1. n \in 1..n /\ from(n) = p
      BY <1>0
    <3> QED
      BY <2>2, <3>1
  <2>3. CASE j > p
    <3>1. j - 1 \in 1..n /\ from(j - 1) = j
      BY <1>0, <2>3
    <3> QED
      BY <3>1
  <2> QED
    BY <1>0, <2>1, <2>2, <2>3
<1>6. from(n) = p
  BY <1>0
<1>7. r \in Seq(D) /\ Len(r) = n
  <2>1. \A i \in 1..n : r[i] \in D
    BY <1>0, <1>1
  <2>2. r = [i \in 1..n |-> r[i]]
    OBVIOUS
  <2> HIDE DEF n, from
  <2> QED
    BY <1>0, <2>1, <2>2
<1> HIDE DEF n, from
<1>q. /\ \A i, j \in 1..n : q[i] = q[j] => i = j
      /\ \A i, j \in 1..n : i < j => q[j] \in s[q[i]]
  BY DEF Queue, n
<1>8. ASSUME NEW i \in 1..n, NEW j \in 1..n, r[i] = r[j] PROVE i = j
  <2>1. from(i) \in 1..n /\ from(j) \in 1..n /\ q[from(i)] = q[from(j)]
    BY <1>1, <1>8
  <2>2. from(i) = from(j)
    BY <1>q, <2>1
  <2> QED
    BY <1>2, <2>2
<1>9. ASSUME NEW x \in D PROVE \E i \in 1..n : r[i] = x
  <2>1. PICK j \in 1..n : q[j] = x
    BY DEF Queue, n
  <2>2. PICK i \in 1..n : from(i) = j
    BY <1>5
  <2> QED
    BY <1>1, <2>1, <2>2
<1>10. ASSUME NEW i \in 1..n, NEW j \in 1..n, i < j PROVE r[j] \in z[r[i]]
  <2>1. i < n
    BY <1>0, <1>10
  <2>2. r[i] \in D /\ r[i] # k
    <3>1. from(i) \in 1..n /\ from(i) # p /\ r[i] = q[from(i)] /\ p \in 1..n
      BY <1>1, <1>3, <2>1 DEF n
    <3>2. q[from(i)] # q[p]
      BY <1>q, <3>1
    <3> QED
      BY <1>0, <3>1, <3>2
  <2>3. CASE j = n
    <3>1. r[j] = k
      BY <1>1, <1>6, <2>3
    <3> QED
      BY <2>2, <3>1
  <2>4. CASE j # n
    <3>1. from(i) < from(j)
      BY <1>0, <1>4, <1>10, <2>4
    <3>2. q[from(j)] \in s[q[from(i)]]
      BY <1>q, <1>1, <3>1
    <3> QED
      BY <1>1, <2>2, <3>2
  <2> QED
    BY <2>3, <2>4
<1> QED
  BY <1>7, <1>8, <1>9, <1>10 DEF Queue, n

\* A new key is added at the end.
LEMMA AppendQueue ==
    ASSUME NEW q, NEW D, NEW s, NEW z, Queue(q, D, s), NEW k, k \notin D,
           \A x \in D : z[x] = s[x] \cup {k}
    PROVE  Queue(Append(q, k), D \cup {k}, z) /\ Len(Append(q, k)) = Len(q) + 1
<1> DEFINE n == Len(q)
           r == Append(q, k)
<1>0. /\ n \in Nat /\ q \in Seq(D) /\ \A i \in 1..n : q[i] \in D
  BY LenProperties DEF Queue
<1>1. q \in Seq(D \cup {k})
  BY <1>0
<1>2. /\ r \in Seq(D \cup {k}) /\ Len(r) = n + 1
      /\ \A i \in 1..n : r[i] = q[i]
      /\ r[n + 1] = k
  BY <1>1, AppendProperties
<1> HIDE DEF r, n
<1>3. \A i \in 1..(n + 1) : i \in 1..n \/ i = n + 1
  BY <1>0
<1>q. /\ \A i, j \in 1..n : q[i] = q[j] => i = j
      /\ \A i, j \in 1..n : i < j => q[j] \in s[q[i]]
  BY DEF Queue, n
<1>4. ASSUME NEW i \in 1..(n + 1), NEW j \in 1..(n + 1), r[i] = r[j] PROVE i = j
  <2>1. \A x \in 1..n : r[x] # k
    BY <1>0, <1>2
  <2>2. CASE i \in 1..n /\ j \in 1..n
    BY <1>q, <1>2, <1>4, <2>2
  <2>3. CASE i = n + 1 \/ j = n + 1
    BY <1>2, <1>3, <1>4, <2>1, <2>3
  <2> QED
    BY <1>3, <2>2, <2>3
<1>5. ASSUME NEW x \in D \cup {k} PROVE \E i \in 1..(n + 1) : r[i] = x
  <2>1. CASE x = k
    <3>1. n + 1 \in 1..(n + 1)
      BY <1>0
    <3> QED
      BY <1>2, <2>1, <3>1
  <2>2. CASE x \in D
    <3>1. PICK i \in 1..n : q[i] = x
      BY <2>2 DEF Queue, n
    <3>2. i \in 1..(n + 1)
      BY <1>0
    <3> QED
      BY <1>2, <3>1, <3>2
  <2> QED
    BY <2>1, <2>2
<1>6. ASSUME NEW i \in 1..(n + 1), NEW j \in 1..(n + 1), i < j PROVE r[j] \in z[r[i]]
  <2>1. i \in 1..n
    BY <1>0, <1>6
  <2>2. r[i] \in D /\ r[i] = q[i] /\ z[r[i]] = s[q[i]] \cup {k}
    BY <1>0, <1>2, <2>1
  <2>3. CASE j = n + 1
    BY <1>2, <2>2, <2>3
  <2>4. CASE j \in 1..n
    BY <1>q, <1>2, <1>6, <2>1, <2>2, <2>4
  <2> QED
    BY <1>3, <2>3, <2>4
<1> QED
  BY <1>2, <1>4, <1>5, <1>6 DEF Queue, n, r

\* The first key is taken out.
LEMMA TailQueue ==
    ASSUME NEW q, NEW D, NEW s, Queue(q, D, s), q # <<>>
    PROVE  /\ Head(q) \in D
           /\ Queue(Tail(q), D \ {Head(q)}, s)
           /\ Len(Tail(q)) = Len(q) - 1
           /\ D \ {Head(q)} \subseteq s[Head(q)]
<1> DEFINE n == Len(q)
           r == Tail(q)
           h == Head(q)
<1>0. /\ n \in Nat \ {0} /\ q \in Seq(D) /\ \A i \in 1..n : q[i] \in D
      /\ h = q[1] /\ 1 \in 1..n
  BY LenProperties, EmptySeq DEF Queue
<1>1. /\ h \in D /\ r \in Seq(D) /\ Len(r) = n - 1
      /\ \A i \in 1..(n - 1) : r[i] = q[i + 1]
  BY <1>0, HeadTailProperties
<1> HIDE DEF r, n, h
<1>q. /\ \A i, j \in 1..n : q[i] = q[j] => i = j
      /\ \A i, j \in 1..n : i < j => q[j] \in s[q[i]]
  BY DEF Queue, n
<1>2. \A i \in 1..(n - 1) : i + 1 \in 1..n /\ r[i] = q[i + 1] /\ r[i] # h
  <2> TAKE i \in 1..(n - 1)
  <2>1. i + 1 \in 1..n /\ i + 1 # 1
    BY <1>0
  <2> QED
    BY <1>0, <1>1, <2>1 DEF Queue, n
<1>3. r \in Seq(D \ {h})
  <2>1. \A i \in 1..Len(r) : r[i] \in D \ {h}
    BY <1>0, <1>1, <1>2
  <2> QED
    BY <1>1, <2>1
<1>4. ASSUME NEW x \in D \ {h} PROVE \E i \in 1..(n - 1) : r[i] = x
  <2>1. PICK j \in 1..n : q[j] = x
    BY DEF Queue, n
  <2>2. j - 1 \in 1..(n - 1) /\ j - 1 + 1 = j
    BY <1>0, <2>1
  <2> QED
    BY <1>2, <2>1, <2>2
<1>5. ASSUME NEW i \in 1..(n - 1), NEW j \in 1..(n - 1), r[i] = r[j] PROVE i = j
  <2>1. i + 1 = j + 1
    BY <1>q, <1>2, <1>5
  <2> QED
    BY <1>0, <2>1
<1>6. \A i, j \in 1..(n - 1) : i < j => r[j] \in s[r[i]]
  <2> SUFFICES ASSUME NEW i \in 1..(n - 1), NEW j \in 1..(n - 1), i < j
               PROVE  r[j] \in s[r[i]]
    OBVIOUS
  <2>1. i + 1 < j + 1
    BY <1>0
  <2>2. q[j + 1] \in s[q[i + 1]]
    BY <1>q, <1>2, <2>1
  <2> QED
    BY <1>2, <2>2
<1>7. D \ {h} \subseteq s[h]
  <2> SUFFICES ASSUME NEW x \in D \ {h} PROVE x \in s[h]
    OBVIOUS
  <2>1. PICK j \in 1..n : q[j] = x
    BY DEF Queue, n
  <2>2. 1 < j
    BY <1>0, <2>1
  <2> QED
    BY <1>0, <2>1, <2>2 DEF Queue, n
<1> QED
  BY <1>1, <1>3, <1>4, <1>5, <1>6, <1>7 DEF Queue, n, r, h

-----------------------------------------------------------------------------
(***************************************************************************)
(* The inductive invariant.                                                *)
(***************************************************************************)
TypeInv ==
    /\ now \in Nat /\ setBack \in BOOLEAN
    /\ allowed \in [Key -> BOOLEAN] /\ log \in [Key -> Seq(Nat)]
    /\ promised \in [Key -> Nat] /\ since \in [Key -> SUBSET Key]
    /\ \A k \in Key : IsFiniteSet(since[k])

TableInv ==
    /\ DOMAIN windows \subseteq Key /\ IsFiniteSet(DOMAIN windows)
    /\ Cardinality(DOMAIN windows) <= MaxKeys
    /\ Queue(order, DOMAIN windows, since)
    /\ Len(order) = Cardinality(DOMAIN windows)

ClientInv(k) ==
    /\ Good(get_sliding_entry(k), log[k], promised[k], now, setBack)
    /\ k \notin DOMAIN windows => log[k] = <<>> /\ promised[k] = 0

IInv == TypeInv /\ TableInv /\ \A k \in Key : ClientInv(k)

\* What is evicted: nothing, or the first key of a full table.
LEMMA EvictedShape ==
    ASSUME TableInv, NEW k \in Key
    PROVE  \/ Evicted(k) = {} /\ (k \in DOMAIN windows \/ Cardinality(DOMAIN windows) < MaxKeys)
           \/ /\ k \notin DOMAIN windows /\ order # <<>>
              /\ Cardinality(DOMAIN windows) = MaxKeys
              /\ Evicted(k) = {Head(order)} /\ Head(order) \in DOMAIN windows
<1>0. MaxKeys \in Nat \ {0} /\ Cardinality(DOMAIN windows) \in Nat
  BY FS_CardinalityType, RateLimiterAssumption DEF TableInv
<1>1. CASE k \notin DOMAIN windows /\ Cardinality(DOMAIN windows) >= MaxKeys
  <2>1. Cardinality(DOMAIN windows) = MaxKeys /\ Len(order) # 0
    BY <1>0, <1>1 DEF TableInv
  <2>2. order # <<>>
    BY <2>1, EmptySeq
  <2>3. Head(order) \in DOMAIN windows
    BY <2>2, TailQueue DEF TableInv
  <2> QED
    BY <1>1, <2>1, <2>2, <2>3 DEF Evicted
<1>2. CASE ~(k \notin DOMAIN windows /\ Cardinality(DOMAIN windows) >= MaxKeys)
  BY <1>0, <1>2 DEF Evicted
<1> QED
  BY <1>1, <1>2

\* The table after a check of k.
LEMMA TouchedQueue ==
    ASSUME TypeInv, TableInv, NEW k \in Key, NEW z,
           \A j \in Key \ {k} : z[j] = since[j] \cup {k},
           NEW D, D = (DOMAIN windows \ Evicted(k)) \cup {k}
    PROVE  /\ Queue(Touched(k), D, z) /\ Len(Touched(k)) = Cardinality(D)
           /\ IsFiniteSet(D) /\ Cardinality(D) <= MaxKeys
           /\ \A h \in Evicted(k) : D \subseteq z[h] /\ Cardinality(D) >= MaxKeys
<1> DEFINE W == DOMAIN windows
<1>0. /\ W \subseteq Key /\ IsFiniteSet(W) /\ Cardinality(W) \in Nat
      /\ MaxKeys \in Nat \ {0} /\ Cardinality(W) <= MaxKeys
      /\ Queue(order, W, since) /\ Len(order) = Cardinality(W)
  BY FS_CardinalityType, RateLimiterAssumption DEF TableInv
<1>1. CASE k \in W
  <2>1. Evicted(k) = {} /\ D = W
    BY <1>1 DEF Evicted
  <2>2. PICK p \in 1..Len(order) : order[p] = k
    BY <1>0, <1>1 DEF Queue
  <2>3. DOMAIN order = 1..Len(order) /\ Place(k) \in 1..Len(order) /\ order[Place(k)] = k
    <3>1. DOMAIN order = 1..Len(order)
      BY <1>0, LenProperties DEF Queue
    <3> QED
      BY <2>2, <3>1 DEF Place
  <2>4. Touched(k) = [i \in 1..Len(order) |->
                        IF i < Place(k) THEN order[i]
                        ELSE IF i < Len(order) THEN order[i + 1] ELSE k]
    BY <1>1, <2>3 DEF Touched, MovedToEnd
  <2>5. \A x \in W \ {k} : z[x] = since[x] \cup {k}
    BY <1>0
  <2> HIDE DEF W
  <2>6. Queue(Touched(k), W, z) /\ Len(Touched(k)) = Len(order)
    BY <1>0, <1>1, <2>3, <2>4, <2>5, MoveQueue
  <2> QED
    BY <1>0, <2>1, <2>6
<1>2. CASE k \notin W /\ Evicted(k) = {}
  <2>1. D = W \cup {k} /\ Cardinality(W) < MaxKeys /\ Touched(k) = Append(order, k)
    BY <1>0, <1>2, EvictedShape DEF Touched, Inserted
  <2>2. IsFiniteSet(D) /\ Cardinality(D) = Cardinality(W) + 1
    BY <1>0, <1>2, <2>1, FS_AddElement
  <2>3. \A x \in W : z[x] = since[x] \cup {k}
    BY <1>0, <1>2
  <2> HIDE DEF W
  <2>4. Queue(Append(order, k), W \cup {k}, z) /\ Len(Append(order, k)) = Len(order) + 1
    BY <1>0, <1>2, <2>3, AppendQueue
  <2>5. Queue(Touched(k), D, z) /\ Len(Touched(k)) = Cardinality(D)
    BY <1>0, <2>1, <2>2, <2>4
  <2>6. Cardinality(D) <= MaxKeys
    BY <1>0, <2>1, <2>2
  <2> QED
    BY <1>2, <2>2, <2>5, <2>6
<1>3. CASE k \notin W /\ Evicted(k) # {}
  <2> DEFINE h == Head(order)
             V == W \ {h}
  <2>1. /\ order # <<>> /\ Evicted(k) = {h} /\ h \in W /\ Cardinality(W) = MaxKeys
        /\ D = V \cup {k} /\ k \notin V /\ h # k
        /\ Touched(k) = Append(Tail(order), k)
    BY <1>3, EvictedShape DEF Touched, Inserted
  <2>2. Queue(Tail(order), V, since) /\ Len(Tail(order)) = Len(order) - 1 /\ V \subseteq since[h]
    BY <1>0, <2>1, TailQueue
  <2> HIDE DEF h, V
  <2>3. IsFiniteSet(V) /\ Cardinality(V) = Cardinality(W) - 1 /\ V \subseteq Key
    BY <1>0, <2>1, FS_RemoveElement DEF V
  <2>4. IsFiniteSet(D) /\ Cardinality(D) = MaxKeys
    BY <1>0, <2>1, <2>3, FS_AddElement
  <2>5. \A x \in V : z[x] = since[x] \cup {k}
    BY <2>1, <2>3
  <2>6. Queue(Touched(k), D, z) /\ Len(Touched(k)) = Len(Tail(order)) + 1
    BY <2>1, <2>2, <2>5, AppendQueue
  <2>7. D \subseteq z[h]
    BY <1>0, <2>1, <2>2
  <2> QED
    BY <1>0, <2>1, <2>2, <2>4, <2>6, <2>7
<1> QED
  BY <1>1, <1>2, <1>3

\* The effect of an answer on the clients.
LEMMA AnswerInv ==
    ASSUME IInv, NEW k \in Key, NEW e, NEW a \in BOOLEAN, Answer(k, e, a),
           Good(e, IF a THEN Append(log[k], now) ELSE log[k],
                IF a THEN 0 ELSE get_reset_time(e), now, setBack)
    PROVE  IInv'
<1> DEFINE W == DOMAIN windows
           D == (W \ Evicted(k)) \cup {k}
<1>0. TypeInv /\ TableInv /\ W \subseteq Key
  BY DEF IInv, TableInv
<1>1. /\ DOMAIN windows' = D
      /\ windows'[k] = e
      /\ \A j \in D \ {k} : j \in W /\ windows'[j] = windows[j]
  BY DEF Answer
<1>2. k \notin Evicted(k) /\ Evicted(k) \subseteq W
  BY <1>0, EvictedShape
<1>3. /\ now' = now /\ setBack' = setBack
      /\ \A j \in Key : since'[j] = IF j = k THEN {} ELSE since[j] \cup {k}
      /\ order' = Touched(k)
  BY DEF Answer
<1>4. /\ log'[k] = (IF a THEN Append(log[k], now) ELSE log[k])
      /\ promised'[k] = (IF a THEN 0 ELSE get_reset_time(e))
      /\ \A j \in Evicted(k) : j \in Key => log'[j] = <<>> /\ promised'[j] = 0
      /\ \A j \in Key \ (Evicted(k) \cup {k}) : log'[j] = log[j] /\ promised'[j] = promised[j]
  BY <1>2 DEF Answer
<1>5. ASSUME NEW j \in Key PROVE ClientInv(j)'
  <2>1. CASE j = k
    <3>1. get_sliding_entry(j)' = e /\ j \in DOMAIN windows'
      BY <1>1, <2>1 DEF get_sliding_entry
    <3> QED
      BY <1>3, <1>4, <2>1, <3>1 DEF ClientInv
  <2>2. CASE j \in Evicted(k)
    <3>1. j \notin DOMAIN windows' /\ get_sliding_entry(j)' = EmptyEntry
      BY <1>1, <1>2, <2>2 DEF get_sliding_entry
    <3>2. Good(EmptyEntry, <<>>, 0, now, setBack)
      BY <1>0, EmptyGood DEF TypeInv
    <3> QED
      BY <1>3, <1>4, <2>2, <3>1, <3>2 DEF ClientInv
  <2>3. CASE j \notin Evicted(k) \cup {k}
    <3>1. (j \in DOMAIN windows' <=> j \in W) /\ get_sliding_entry(j)' = get_sliding_entry(j)
      BY <1>1, <2>3 DEF get_sliding_entry
    <3>2. ClientInv(j)
      BY DEF IInv
    <3> QED
      BY <1>3, <1>4, <2>3, <3>1, <3>2 DEF ClientInv
  <2> QED
    BY <2>1, <2>2, <2>3
<1>6. TypeInv'
  <2>1. \A j \in Key : log'[j] \in Seq(Nat) /\ promised'[j] \in Nat
    BY <1>5 DEF ClientInv, Good
  <2>2. log' \in [Key -> Seq(Nat)] /\ promised' \in [Key -> Nat]
    <3>1. log' = [j \in Key |-> log'[j]]
      BY DEF Answer
    <3>2. promised' = [j \in Key |-> promised'[j]]
      BY DEF Answer
    <3>3. log' \in [Key -> Seq(Nat)]
      BY ONLY <2>1, <3>1, ByValue
    <3>4. promised' \in [Key -> Nat]
      BY <2>1, <3>2, ByValue
    <3> QED
      BY <3>3, <3>4
  <2>3. \A j \in Key : since'[j] \in SUBSET Key /\ IsFiniteSet(since'[j])
    <3> TAKE j \in Key
    <3>1. since[j] \in SUBSET Key /\ IsFiniteSet(since[j])
      BY <1>0 DEF TypeInv
    <3>2. IsFiniteSet({}) /\ IsFiniteSet(since[j] \cup {k})
      BY <3>1, FS_EmptySet, FS_AddElement
    <3>3. since'[j] = IF j = k THEN {} ELSE since[j] \cup {k}
      BY <1>3
    <3> QED
      BY <3>1, <3>2, <3>3
  <2>4. since' \in [Key -> SUBSET Key]
    BY <2>3 DEF Answer
  <2>5. allowed' \in [Key -> BOOLEAN]
    BY <1>0 DEF Answer, TypeInv
  <2> QED
    BY <1>0, <1>3, <2>2, <2>3, <2>4, <2>5 DEF TypeInv
<1>7. TableInv'
  <2>1. \A j \in Key \ {k} : since'[j] = since[j] \cup {k}
    BY <1>3
  <2>2. /\ Queue(Touched(k), D, since') /\ Len(Touched(k)) = Cardinality(D)
        /\ IsFiniteSet(D) /\ Cardinality(D) <= MaxKeys
    BY <1>0, <2>1, TouchedQueue
  <2> QED
    BY <1>0, <1>1, <1>3, <2>2 DEF TableInv
<1> QED
  BY <1>5, <1>6, <1>7 DEF IInv

LEMMA InitInv == Init => IInv
<1> SUFFICES ASSUME Init PROVE IInv
  OBVIOUS
<1>1. DOMAIN windows = {} /\ Len(order) = 0 /\ now \in Nat /\ setBack \in BOOLEAN
  BY DEF Init
<1>2. TypeInv
  <2>1. <<>> \in Seq(Nat) /\ {} \in SUBSET Key /\ IsFiniteSet({})
    BY FS_EmptySet
  <2> QED
    BY <1>1, <2>1 DEF Init, TypeInv
<1>3. TableInv
  BY <1>1, FS_EmptySet, RateLimiterAssumption DEF Init, TableInv, Queue
<1>4. ASSUME NEW k \in Key PROVE ClientInv(k)
  BY <1>1, EmptyGood DEF Init, ClientInv, get_sliding_entry
<1> QED
  BY <1>2, <1>3, <1>4 DEF IInv

LEMMA TickInv == ASSUME IInv, Tick PROVE IInv'
<1>0. now \in Nat /\ now' \in Nat /\ setBack \in BOOLEAN /\ setBack' = (setBack \/ now' < now)
  BY RateLimiterAssumption DEF Tick, IInv, TypeInv
<1>1. TypeInv'
  BY <1>0 DEF Tick, IInv, TypeInv
<1>2. TableInv'
  BY DEF Tick, IInv, TableInv
<1>3. ASSUME NEW k \in Key PROVE ClientInv(k)'
  <2>1. Good(get_sliding_entry(k), log[k], promised[k], now, setBack)
    BY DEF IInv, ClientInv
  <2>2. Good(get_sliding_entry(k), log[k], promised[k], now', setBack \/ now' < now)
    BY <1>0, <2>1, TickGood
  <2> QED
    BY <1>0, <2>2 DEF Tick, IInv, ClientInv, get_sliding_entry
<1> QED
  BY <1>1, <1>2, <1>3 DEF IInv

\* The two outcomes of a check.
LEMMA CheckCases ==
    ASSUME NEW k \in Key, check(k)
    PROVE  \E n \in 0..Capacity :
             LET e == get_sliding_entry(k) IN
             /\ Prunes(e, now, n)
             /\ \/ /\ Admits(Dropped(e, n))
                   /\ Answer(k, Added(Dropped(e, n), now), TRUE)
                \/ /\ ~Admits(Dropped(e, n))
                   /\ Answer(k, Dropped(e, n), FALSE)
BY DEF check

LEMMA CheckInv == ASSUME IInv, NEW k \in Key, check(k) PROVE IInv'
<1> DEFINE e == get_sliding_entry(k)
<1>0. now \in Nat /\ setBack \in BOOLEAN /\ Good(e, log[k], promised[k], now, setBack)
  BY DEF IInv, TypeInv, ClientInv
<1>1. PICK n \in 0..Capacity :
        /\ Prunes(e, now, n)
        /\ \/ Admits(Dropped(e, n)) /\ Answer(k, Added(Dropped(e, n), now), TRUE)
           \/ ~Admits(Dropped(e, n)) /\ Answer(k, Dropped(e, n), FALSE)
  BY CheckCases
<1> HIDE DEF e
<1>2. CASE Admits(Dropped(e, n)) /\ Answer(k, Added(Dropped(e, n), now), TRUE)
  <2>1. Good(Added(Dropped(e, n), now), Append(log[k], now), 0, now, setBack)
    BY <1>0, <1>1, <1>2, AddGood
  <2> QED
    BY <1>2, <2>1, AnswerInv
<1>3. CASE ~Admits(Dropped(e, n)) /\ Answer(k, Dropped(e, n), FALSE)
  <2>1. Good(Dropped(e, n), log[k], get_reset_time(Dropped(e, n)), now, setBack)
    BY <1>0, <1>1, <1>3, RefuseGood
  <2> QED
    BY <1>3, <2>1, AnswerInv
<1> QED
  BY <1>1, <1>2, <1>3

LEMMA NextInv == IInv /\ [Next]_vars => IInv'
<1> SUFFICES ASSUME IInv, [Next]_vars PROVE IInv'
  OBVIOUS
<1>1. CASE UNCHANGED vars
  BY <1>1 DEF vars, history, IInv, TypeInv, TableInv, ClientInv, get_sliding_entry
<1> QED
  BY <1>1, TickInv, CheckInv DEF Next

-----------------------------------------------------------------------------
\* The table never exceeds max_keys, its order lists each key once, and every
\* entry is a ring of the rule's capacity.
THEOREM LimiterTypeCorrect == Spec => []TypeOK
<1>1. IInv => TypeOK
  <2> SUFFICES ASSUME IInv PROVE TypeOK
    OBVIOUS
  <2>1. ASSUME NEW k \in DOMAIN windows PROVE windows[k] \in Entry
    <3>1. k \in Key /\ get_sliding_entry(k) = windows[k]
      BY DEF IInv, TableInv, get_sliding_entry
    <3> QED
      BY <3>1 DEF IInv, ClientInv, Good
  <2>2. \A i, j \in DOMAIN order : order[i] = order[j] => i = j
    BY LenProperties DEF IInv, TableInv, Queue
  <2> QED
    BY <2>1, <2>2 DEF IInv, TypeInv, TableInv, Queue, TypeOK
<1> QED
  BY InitInv, NextInv, <1>1, PTL DEF Spec

\* No window of Window ticks ever holds more than Capacity admissions of a
\* client whose window was not evicted, if the clock was never set back.
THEOREM LimitHolds == Spec => []WindowBound
<1>1. IInv => WindowBound
  <2> SUFFICES ASSUME IInv, ~setBack, NEW k \in Key, NEW i \in DOMAIN log[k],
                      i + Capacity \in DOMAIN log[k]
               PROVE  log[k][i + Capacity] - log[k][i] >= Window
    BY DEF WindowBound
  <2>1. log[k] \in Seq(Nat) /\ Spread(log[k]) /\ DOMAIN log[k] = 1..Len(log[k])
    BY LenProperties DEF IInv, ClientInv, Good
  <2> QED
    BY <2>1 DEF Spread
<1> QED
  BY InitInv, NextInv, <1>1, PTL DEF Spec

\* A refused client is admitted at the reset time it was given and not before.
THEOREM ResetTimeExact == Spec => ResetTimeHonoured
<1>1. IInv => \A k \in Key : check(k) /\ promised[k] > 0 =>
                (allowed'[k] <=> now >= promised[k])
  <2> SUFFICES ASSUME IInv, NEW k \in Key, check(k), promised[k] > 0
               PROVE  allowed'[k] <=> now >= promised[k]
    OBVIOUS
  <2> DEFINE e == get_sliding_entry(k)
  <2>1. PICK n \in 0..Capacity :
          /\ Prunes(e, now, n)
          /\ \/ Admits(Dropped(e, n)) /\ Answer(k, Added(Dropped(e, n), now), TRUE)
             \/ ~Admits(Dropped(e, n)) /\ Answer(k, Dropped(e, n), FALSE)
    BY CheckCases
  <2> HIDE DEF e
  <2>2. allowed'[k] <=> Admits(Dropped(e, n))
    BY <2>1 DEF Answer, IInv, TypeInv
  <2>3. now \in Nat /\ Good(e, log[k], promised[k], now, setBack)
    BY DEF IInv, TypeInv, ClientInv, e
  <2>4. Admits(Dropped(e, n)) <=> now >= promised[k]
    BY <2>1, <2>3, ResetExact
  <2> QED
    BY <2>2, <2>4
<1>2. IInv /\ [Next]_vars =>
        [\A k \in Key : check(k) /\ promised[k] > 0 => (allowed'[k] <=> now >= promised[k])]_vars
  BY <1>1
<1> QED
  BY InitInv, NextInv, <1>2, PTL DEF Spec, ResetTimeHonoured

\* Only a client after which max_keys others were checked loses its window.
THEOREM EvictionIsLeastRecent == Spec => EvictsLeastRecent
<1> DEFINE A == \A k \in DOMAIN windows \ DOMAIN windows' : Cardinality(since'[k]) >= MaxKeys
<1>1. IInv /\ [Next]_vars => [A]_vars
  <2> SUFFICES ASSUME IInv, [Next]_vars, NEW h \in DOMAIN windows \ DOMAIN windows'
               PROVE  Cardinality(since'[h]) >= MaxKeys
    OBVIOUS
  <2>1. PICK k \in Key : check(k)
    BY DEF Next, Tick, vars
  <2>2. PICK e, a : Answer(k, e, a)
    BY <2>1 DEF check
  <2> DEFINE D == (DOMAIN windows \ Evicted(k)) \cup {k}
  <2>3. DOMAIN windows' = D /\ \A j \in Key \ {k} : since'[j] = since[j] \cup {k}
    BY <2>2 DEF Answer
  <2>4. h \in Evicted(k) /\ h \in Key
    BY <2>3 DEF IInv, TableInv
  <2>5. D \subseteq since'[h] /\ Cardinality(D) >= MaxKeys /\ IsFiniteSet(D)
    BY <2>3, <2>4, TouchedQueue DEF IInv
  <2>6. IsFiniteSet(since'[h])
    BY <2>4, NextInv DEF IInv, TypeInv
  <2>7. /\ Cardinality(D) <= Cardinality(since'[h])
        /\ Cardinality(D) \in Nat /\ Cardinality(since'[h]) \in Nat /\ MaxKeys \in Nat
    BY <2>5, <2>6, FS_Subset, FS_CardinalityType, RateLimiterAssumption
  <2> QED
    BY <2>5, <2>7
<1> QED
  BY InitInv, NextInv, <1>1, PTL DEF Spec, EvictsLeastRecent

\* To any client the limiter behaves like a complete log of its admissions.
THEOREM Refinement == Spec => KeepsPromise
<1>1. Init => Promise!Init
  BY RateLimiterAssumption DEF Init, Promise!Init
<1>2. IInv /\ [Next]_vars => [Promise!Next]_(Promise!vars)
  <2> SUFFICES ASSUME IInv, [Next]_vars PROVE [Promise!Next]_(Promise!vars)
    OBVIOUS
  <2>1. CASE UNCHANGED vars
    BY <2>1 DEF vars, history, Promise!vars
  <2>2. CASE Tick
    BY <2>2, RateLimiterAssumption DEF Tick, Promise!Next, Promise!Tick
  <2>3. ASSUME NEW k \in Key, check(k) PROVE [Promise!Next]_(Promise!vars)
    <3> DEFINE e == get_sliding_entry(k)
    <3>1. PICK n \in 0..Capacity :
            /\ Prunes(e, now, n)
            /\ \/ Admits(Dropped(e, n)) /\ Answer(k, Added(Dropped(e, n), now), TRUE)
               \/ ~Admits(Dropped(e, n)) /\ Answer(k, Dropped(e, n), FALSE)
      BY <2>3, CheckCases
    <3> HIDE DEF e
    <3>2. \E a \in BOOLEAN, f \in {Added(Dropped(e, n), now), Dropped(e, n)} :
            Answer(k, f, a) /\ (a <=> Admits(Dropped(e, n)))
      BY <3>1
    <3>a. PICK a \in BOOLEAN, f \in {Added(Dropped(e, n), now), Dropped(e, n)} :
            Answer(k, f, a) /\ (a <=> Admits(Dropped(e, n)))
      BY <3>2
    <3>3. /\ Client \in Key /\ k \notin Evicted(k)
          /\ now' = now /\ setBack' = setBack
          /\ allowed' = [allowed EXCEPT ![k] = a] /\ allowed \in [Key -> BOOLEAN]
          /\ log' = [j \in Key |-> IF j \in Evicted(k) THEN <<>>
                                 ELSE IF j = k /\ a THEN Append(log[k], now)
                                 ELSE log[j]]
      BY <3>a, EvictedShape, RateLimiterAssumption DEF Answer, IInv, TypeInv
    <3>4. CASE Client = k
      <4>1. /\ allowed'[Client] = a
            /\ log'[Client] = IF a THEN Append(log[Client], now) ELSE log[Client]
        BY <3>3, <3>4
      <4>2. ~setBack => (a <=> Cardinality(Promise!InWindow) < Capacity)
        <5> SUFFICES ASSUME ~setBack PROVE a <=> Cardinality(Promise!InWindow) < Capacity
          OBVIOUS
        <5>1. now \in Nat /\ Good(e, log[k], promised[k], now, FALSE)
          BY DEF IInv, TypeInv, ClientInv, e
        <5>2. Cardinality({i \in DOMAIN log[k] : log[k][i] > now - Window}) = Dropped(e, n).count_used
          BY <3>1, <5>1, CountInWindow
        <5>3. Cardinality(Promise!InWindow) = Dropped(e, n).count_used
          BY <3>4, <5>2 DEF Promise!InWindow
        <5> QED
          BY <3>a, <5>3 DEF Admits
      <4>3. Promise!Request
        <5>1. Promise!Cardinality(Promise!InWindow) = Cardinality(Promise!InWindow)
          BY DEF Promise!Cardinality, Cardinality
        <5> QED
          BY <3>3, <4>1, <4>2, <5>1 DEF Promise!Request
      <4> QED
        BY <4>3 DEF Promise!Next
    <3>5. CASE Client # k /\ Client \in Evicted(k)
      <4>1. Promise!Forget
        BY <3>3, <3>5 DEF Promise!Forget
      <4> QED
        BY <4>1 DEF Promise!Next
    <3>6. CASE Client # k /\ Client \notin Evicted(k)
      BY <3>3, <3>6 DEF Promise!vars
    <3> QED
      BY <3>4, <3>5, <3>6
  <2> QED
    BY <2>1, <2>2, <2>3 DEF Next
<1> QED
  BY InitInv, NextInv, <1>1, <1>2, PTL DEF Spec, KeepsPromise, Promise!Spec

=============================================================================
