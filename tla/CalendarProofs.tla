---------------------------- MODULE CalendarProofs ----------------------------
(***************************************************************************)
(* What the operators of the calendar return, and that its two loops, of   *)
(* next_free_slot and of advance, compute it: for every calendar, every    *)
(* set of bookings and every request.  Nothing is assumed but that a day   *)
(* has working ticks and a week a working day (CalendarAssumption), and of *)
(* the calls that they are of the types the code declares.                 *)
(***************************************************************************)
EXTENDS FreeSlotSearch, AdvanceSearch, FiniteSetTheorems, WellFoundedInduction, TLAPS

\* A non-empty set of natural numbers has a least element.
LEMMA LeastExists ==
    ASSUME NEW S \in SUBSET Nat, S # {}
    PROVE  \E m \in S : \A n \in S : m <= n
<1>1. \E m \in S : \A n \in S : ~(<<n, m>> \in OpToRel(<, Nat))
    BY WFMin, NatLessThanWellFounded
<1>2. PICK m \in S : \A n \in S : ~(<<n, m>> \in OpToRel(<, Nat))
    BY <1>1
<1>3. ASSUME NEW n \in S PROVE m <= n
    <2>1. m \in Nat /\ n \in Nat
        OBVIOUS
    <2>2. n < m => <<n, m>> \in OpToRel(<, Nat)
        BY <2>1 DEF OpToRel
    <2>3. ~(n < m)
        BY <1>2, <2>2, Zenon
    <2>4. QED BY <2>1, <2>3
<1>4. QED BY <1>3

\* A non-empty finite set of natural numbers has a greatest element.
LEMMA GreatestExists ==
    ASSUME NEW S \in SUBSET Nat, S # {}, IsFiniteSet(S)
    PROVE  \E m \in S : \A n \in S : m >= n
<1> DEFINE NoMax(T) == T # {} /\ ~\E m \in T : \A n \in T : m >= n
           Bad == {k \in Nat : \E T \in SUBSET S : Cardinality(T) = k /\ NoMax(T)}
<1>1. SUFFICES ASSUME Bad # {} PROVE FALSE
    <2>1. Cardinality(S) \in Nat BY FS_CardinalityType
    <2>2. QED BY <2>1
<1>2. PICK k \in Bad : \A j \in Bad : k <= j
    BY <1>1, LeastExists
<1>3. PICK T \in SUBSET S : Cardinality(T) = k /\ NoMax(T)
    BY <1>2
<1>4. PICK x \in T : TRUE
    BY <1>3
<1> DEFINE U == T \ {x}
<1>5. IsFiniteSet(T) /\ Cardinality(T) \in Nat
    BY FS_Subset, FS_CardinalityType
<1>6. Cardinality(U) = k - 1 /\ Cardinality(U) \in Nat /\ U \in SUBSET S
    BY <1>3, <1>4, <1>5, FS_RemoveElement, FS_CardinalityType
<1>7. ~NoMax(U)
    BY <1>2, <1>6
<1>8. CASE U = {}
    BY <1>3, <1>4, <1>8
<1>9. CASE U # {}
    <2>1. PICK m \in U : \A n \in U : m >= n
        BY <1>7, <1>9
    <2>2. CASE m >= x
        <3>1. \A n \in T : m >= n BY <2>1, <2>2
        <3>2. QED BY <3>1, <2>1, <1>3
    <2>3. CASE x > m
        <3>1. \A n \in T : x >= n BY <2>1, <2>3
        <3>2. QED BY <3>1, <1>4, <1>3
    <2>4. QED BY <2>2, <2>3
<1>10. QED BY <1>8, <1>9

-----------------------------------------------------------------------------
(* Days.                                                                   *)

LEMMA DayMultiples ==
    ASSUME NEW c \in Nat, NEW d \in Nat, c < d
    PROVE  /\ c * DayLen \in Nat /\ d * DayLen \in Nat
           /\ c * DayLen + DayLen <= d * DayLen
<1>1. DayLen \in Nat
    BY CalendarAssumption
<1>2. c * DayLen \in Nat /\ d * DayLen \in Nat /\ (d - c - 1) * DayLen \in Nat
    BY <1>1
<1>3. d * DayLen = c * DayLen + DayLen + (d - c - 1) * DayLen
    BY <1>1
<1>4. QED BY <1>1, <1>2, <1>3

\* Instant t lies between the midnights of its day and of the next one.
LEMMA DayBounds ==
    ASSUME NEW t \in Nat
    PROVE  /\ Day(t) \in Nat
           /\ Day(t) * DayLen \in Nat
           /\ Day(t) * DayLen <= t
           /\ t < Day(t) * DayLen + DayLen
BY CalendarAssumption DEF Day

\* ... and the day of an instant is the only day of which that is true.
LEMMA DayUnique ==
    ASSUME NEW t \in Nat, NEW d \in Nat,
           d * DayLen <= t, t < d * DayLen + DayLen
    PROVE  Day(t) = d
<1>1. DayLen \in Nat /\ d * DayLen \in Nat
    BY CalendarAssumption
<1> DEFINE e == Day(t)
<1>2. e \in Nat /\ e * DayLen \in Nat /\ e * DayLen <= t /\ t < e * DayLen + DayLen
    BY DayBounds
<1> HIDE DEF e
<1>3. ASSUME e < d PROVE FALSE
    <2>1. e * DayLen + DayLen <= d * DayLen
        BY <1>2, <1>3, DayMultiples
    <2>2. QED BY <2>1, <1>1, <1>2
<1>4. ASSUME d < e PROVE FALSE
    <2>1. d * DayLen + DayLen <= e * DayLen
        BY <1>2, <1>4, DayMultiples
    <2>2. QED BY <2>1, <1>1, <1>2
<1>5. e = d BY <1>2, <1>3, <1>4
<1>6. QED BY <1>5 DEF e

\* Day is monotone.
LEMMA DayMonotone ==
    ASSUME NEW s \in Nat, NEW t \in Nat, s <= t
    PROVE  Day(s) <= Day(t)
<1>1. SUFFICES ASSUME Day(t) < Day(s) PROVE FALSE
    BY DayBounds
<1>2. Day(t) * DayLen + DayLen <= Day(s) * DayLen
    BY <1>1, DayBounds, DayMultiples
<1>3. QED BY <1>2, DayBounds, CalendarAssumption

\* The working window of day d lies within day d.
LEMMA WindowBounds ==
    ASSUME NEW d \in Nat
    PROVE  /\ WindowStart(d) \in Nat /\ WindowEnd(d) \in Nat
           /\ WindowStart(d) < WindowEnd(d)
           /\ d * DayLen <= WindowStart(d)
           /\ WindowEnd(d) < d * DayLen + DayLen
           /\ WindowEnd(d) = WindowStart(d) + DayLength
           /\ Day(WindowStart(d)) = d /\ Day(WindowEnd(d)) = d
<1>1. DayLen \in Nat /\ d * DayLen \in Nat
    BY CalendarAssumption
<1>2. /\ WindowStart(d) \in Nat /\ WindowEnd(d) \in Nat
      /\ WindowStart(d) < WindowEnd(d)
      /\ d * DayLen <= WindowStart(d)
      /\ WindowEnd(d) < d * DayLen + DayLen
      /\ WindowEnd(d) = WindowStart(d) + DayLength
    BY <1>1, CalendarAssumption DEF WindowStart, WindowEnd, DayLength
<1>3. QED BY <1>1, <1>2, DayUnique

\* There is a working day among any seven days in a row, and NextWorkingDay
\* is the first one after d.
LEMMA NextWorkingDayIsNext ==
    ASSUME NEW d \in Nat
    PROVE  /\ NextWorkingDay(d) \in Nat
           /\ d < NextWorkingDay(d) /\ NextWorkingDay(d) <= d + 7
           /\ IsWorkingDay(NextWorkingDay(d))
           /\ \A c \in (d+1)..(NextWorkingDay(d) - 1) : ~IsWorkingDay(c)
<1> DEFINE S == {k \in 1..7 : IsWorkingDay(d + k)}
           First(k) == /\ IsWorkingDay(d + k)
                       /\ \A j \in 1..(k-1) : ~IsWorkingDay(d + j)
<1>1. S # {}
    <2>1. PICK w \in WorkDays : w \in 0..6
        BY CalendarAssumption
    <2>2. \E k \in 1..7 : (d + k) % 7 = w
        <3>1. CASE w > d % 7
            <4>1. (d + (w - (d % 7))) % 7 = w /\ w - (d % 7) \in 1..7
                BY <2>1, <3>1
            <4>2. QED BY <4>1
        <3>2. CASE w <= d % 7
            <4>1. (d + (7 + w - (d % 7))) % 7 = w /\ 7 + w - (d % 7) \in 1..7
                BY <2>1, <3>2
            <4>2. QED BY <4>1
        <3>3. QED BY <3>1, <3>2, <2>1
    <2>3. QED BY <2>1, <2>2 DEF IsWorkingDay
<1>2. PICK k \in S : \A j \in S : k <= j
    BY <1>1, LeastExists
<1>3. k \in 1..7 /\ First(k)
    BY <1>2
<1> DEFINE K == CHOOSE i \in 1..7 : First(i)
<1>4. K \in 1..7 /\ First(K)
    BY <1>3
<1>5. NextWorkingDay(d) = d + K
    BY DEF NextWorkingDay
<1>6. ASSUME NEW c \in (d+1)..(d + K - 1) PROVE ~IsWorkingDay(c)
    <2>1. c - d \in 1..(K-1) /\ d + (c - d) = c
        BY <1>4
    <2>2. QED BY <1>4, <2>1
<1> HIDE DEF K, First
<1>7. QED BY <1>4, <1>5, <1>6 DEF First

-----------------------------------------------------------------------------
(* Working instants.                                                       *)

\* Within a day, the working instants are those of its window.
LEMMA WorkingInDay ==
    ASSUME NEW d \in Nat, NEW t \in Nat, d * DayLen <= t, t < d * DayLen + DayLen
    PROVE  IsWorking(t) <=> IsWorkingDay(d) /\ WindowStart(d) <= t /\ t < WindowEnd(d)
BY DayUnique DEF IsWorking

\* NextWorkingStart(t) is the earliest working instant at or after t, it is
\* less than eight days away, and it is t itself when t is working.
LEMMA NextWorkingStartIsNext ==
    ASSUME NEW t \in Nat
    PROVE  /\ NextWorkingStart(t) \in Nat
           /\ t <= NextWorkingStart(t)
           /\ NextWorkingStart(t) < t + 8 * DayLen
           /\ IsWorking(NextWorkingStart(t))
           /\ \A u \in t..(NextWorkingStart(t) - 1) : ~IsWorking(u)
<1> DEFINE d == Day(t)
           r == NextWorkingStart(t)
<1>1. /\ d \in Nat /\ d * DayLen \in Nat /\ d * DayLen <= t
      /\ t < d * DayLen + DayLen /\ DayLen \in Nat
    BY DayBounds, CalendarAssumption
<1>2. r = IF IsWorkingDay(d) /\ t < WindowEnd(d)
          THEN IF t < WindowStart(d) THEN WindowStart(d) ELSE t
          ELSE WindowStart(NextWorkingDay(d))
    BY DEF NextWorkingStart
<1> HIDE DEF d, r
<1>3. /\ WindowStart(d) \in Nat /\ WindowEnd(d) \in Nat
      /\ WindowStart(d) < WindowEnd(d)
      /\ d * DayLen <= WindowStart(d) /\ WindowEnd(d) < d * DayLen + DayLen
    BY <1>1, WindowBounds
<1>4. CASE IsWorkingDay(d) /\ t < WindowEnd(d)
    <2>1. r \in Nat /\ t <= r /\ r < WindowEnd(d) /\ WindowStart(d) <= r
        BY <1>1, <1>2, <1>3, <1>4
    <2>2. d * DayLen <= r /\ r < d * DayLen + DayLen /\ r < t + 8 * DayLen
        BY <1>1, <1>3, <2>1
    <2>3. IsWorking(r)
        BY <1>1, <1>4, <2>1, <2>2, WorkingInDay
    <2>4. ASSUME NEW u \in t..(r-1) PROVE ~IsWorking(u)
        <3>1. /\ u \in Nat /\ d * DayLen <= u /\ u < d * DayLen + DayLen
              /\ u < WindowStart(d)
            BY <1>1, <1>2, <1>4, <2>1, <2>2
        <3>2. QED BY <1>1, <1>3, <3>1, WorkingInDay
    <2>5. QED BY <2>1, <2>2, <2>3, <2>4 DEF r
<1>5. CASE ~(IsWorkingDay(d) /\ t < WindowEnd(d))
    <2> DEFINE e == NextWorkingDay(d)
    <2>1. /\ e \in Nat /\ d < e /\ e <= d + 7 /\ IsWorkingDay(e)
          /\ \A c \in (d+1)..(e - 1) : ~IsWorkingDay(c)
        BY <1>1, NextWorkingDayIsNext
    <2>2. r = WindowStart(e)
        BY <1>2, <1>5
    <2> HIDE DEF e
    <2>3. /\ r \in Nat /\ r < WindowEnd(e) /\ e * DayLen <= r
          /\ r < e * DayLen + DayLen /\ e * DayLen \in Nat
        BY <1>1, <2>1, <2>2, WindowBounds
    <2>4. d * DayLen + DayLen <= e * DayLen
        BY <1>1, <2>1, DayMultiples
    <2>5. e * DayLen <= d * DayLen + 7 * DayLen
        <3>1. CASE e = d + 7
            BY <1>1, <3>1
        <3>2. CASE e < d + 7
            <4>1. e * DayLen + DayLen <= (d + 7) * DayLen
                BY <1>1, <2>1, <3>2, DayMultiples
            <4>2. QED BY <1>1, <2>1, <2>3, <4>1
        <3>3. QED BY <1>1, <2>1, <3>1, <3>2
    <2>6. t <= r /\ r < t + 8 * DayLen
        BY <1>1, <2>3, <2>4, <2>5
    <2>7. IsWorking(r)
        BY <1>1, <2>1, <2>2, <2>3, WorkingInDay
    <2>8. ASSUME NEW u \in t..(r-1), IsWorking(u) PROVE FALSE
        <3> DEFINE c == Day(u)
        <3>1. u \in Nat /\ t <= u /\ u < r
            BY <2>3, <1>1
        <3>2. /\ c \in Nat /\ c * DayLen \in Nat /\ c * DayLen <= u
              /\ u < c * DayLen + DayLen
              /\ IsWorkingDay(c) /\ WindowStart(c) <= u /\ u < WindowEnd(c)
            BY <2>8, <3>1, DayBounds DEF IsWorking
        <3>3. d <= c
            BY <3>1, DayMonotone DEF d
        <3> HIDE DEF c
        <3>4. c # d
            BY <1>1, <1>3, <1>5, <3>1, <3>2
        <3>5. c <= e
            <4>1. ASSUME e < c PROVE FALSE
                <5>1. e * DayLen + DayLen <= c * DayLen
                    BY <2>1, <3>2, <4>1, DayMultiples
                <5>2. QED BY <5>1, <3>1, <3>2, <2>3, <1>1
            <4>2. QED BY <4>1, <3>2, <2>1
        <3>6. c # e
            BY <2>2, <2>3, <3>1, <3>2
        <3>7. c \in (d+1)..(e-1)
            BY <1>1, <2>1, <3>2, <3>3, <3>4, <3>5, <3>6
        <3>8. QED BY <2>1, <3>2, <3>7
    <2>9. QED BY <2>3, <2>6, <2>7, <2>8 DEF r
<1>6. QED BY <1>4, <1>5

-----------------------------------------------------------------------------
(* Free slots.                                                             *)

\* A slot no longer than a working day finds a place, whatever is booked:
\* NextFreeSlot is defined, and it is the earliest free start.
LEMMA NextFreeSlotIsEarliest ==
    ASSUME NEW earliest \in Nat, NEW d \in Nat, Placeable(d),
           NEW busy, IsFiniteSet(busy), \A b \in busy : b.end \in Nat
    PROVE  LET s == NextFreeSlot(earliest, d, busy) IN
           /\ s \in Nat /\ earliest <= s
           /\ FreeAt(s, d, busy)
           /\ \A u \in earliest..(s-1) : ~FreeAt(u, d, busy)
<1> DEFINE Ends == {earliest} \cup {b.end : b \in busy}
           M == Max(Ends)
<1>1. IsFiniteSet(Ends) /\ Ends \in SUBSET Nat /\ Ends # {}
    <2> DEFINE f == [b \in busy |-> b.end]
    <2>1. f \in Surjection(busy, {b.end : b \in busy})
        BY DEF Surjection
    <2>2. IsFiniteSet({b.end : b \in busy})
        BY <2>1, FS_Surjection
    <2> HIDE DEF f
    <2>3. QED BY <2>2, FS_Singleton, FS_Union
<1>2. M \in Nat /\ earliest <= M /\ \A b \in busy : b.end <= M
    <2>1. \E m \in Ends : \A n \in Ends : m >= n
        BY <1>1, GreatestExists
    <2>2. M \in Ends /\ \A n \in Ends : M >= n
        BY <2>1 DEF Max
    <2>3. QED BY <1>1, <2>2
<1>3. FreeBy(earliest, busy) = M + 8 * DayLen
    BY DEF FreeBy
<1> HIDE DEF M
<1> DEFINE D == NextWorkingDay(Day(M))
           s0 == WindowStart(D)
<1>4. Day(M) \in Nat /\ D \in Nat /\ Day(M) < D /\ D <= Day(M) + 7 /\ IsWorkingDay(D)
    BY <1>2, DayBounds, NextWorkingDayIsNext
<1>5. /\ s0 \in Nat /\ s0 < WindowEnd(D) /\ WindowEnd(D) = s0 + DayLength
      /\ Day(s0) = D /\ D * DayLen <= s0 /\ s0 < D * DayLen + DayLen
    <2>1. DayLen \in Nat /\ D * DayLen \in Nat
        BY <1>4, CalendarAssumption
    <2> HIDE DEF D
    <2>2. QED BY <2>1, <1>4, WindowBounds
<1>6. M < s0 /\ s0 <= M + 8 * DayLen
    <2>1. DayLen \in Nat /\ D * DayLen \in Nat /\ Day(M) * DayLen \in Nat
        BY <1>4, CalendarAssumption
    <2>2. Day(M) * DayLen + DayLen <= D * DayLen
        BY <1>4, DayMultiples
    <2>3. D * DayLen + DayLen <= (Day(M) + 8) * DayLen
        BY <1>4, DayMultiples
    <2>4. (Day(M) + 8) * DayLen = Day(M) * DayLen + 8 * DayLen
        BY <1>4, <2>1
    <2>5. Day(M) * DayLen <= M /\ M < Day(M) * DayLen + DayLen
        BY <1>2, DayBounds
    <2> HIDE DEF D, s0
    <2>6. QED BY <1>2, <1>5, <2>1, <2>2, <2>3, <2>4, <2>5
<1>7. FreeAt(s0, d, busy)
    <2>1. IsWorking(s0)
        BY <1>4, <1>5 DEF IsWorking
    <2>2. s0 + d <= WindowEnd(Day(s0))
        BY <1>5, CalendarAssumption DEF Placeable, DayLength
    <2>3. ASSUME NEW b \in busy PROVE ~Overlaps(s0, s0 + d, b)
        BY <1>2, <1>5, <1>6 DEF Overlaps
    <2>4. QED BY <2>1, <2>2, <2>3 DEF FreeAt
<1> DEFINE First(s) == /\ FreeAt(s, d, busy)
                       /\ \A u \in earliest..(s-1) : ~FreeAt(u, d, busy)
           F == {s \in Nat : earliest <= s /\ FreeAt(s, d, busy)}
<1>8. PICK s \in F : \A u \in F : s <= u
    <2>1. s0 \in F
        BY <1>2, <1>5, <1>6, <1>7
    <2>2. F \in SUBSET Nat /\ F # {}
        BY <2>1
    <2>3. QED BY <2>2, LeastExists
<1>9. s \in earliest..FreeBy(earliest, busy) /\ First(s)
    <2>1. s <= s0
        BY <1>2, <1>5, <1>6, <1>7, <1>8
    <2>2. DayLen \in Nat
        BY CalendarAssumption
    <2>3. s \in earliest..FreeBy(earliest, busy)
        BY <1>2, <1>3, <1>5, <1>6, <1>8, <2>1, <2>2
    <2>4. ASSUME NEW u \in earliest..(s-1), FreeAt(u, d, busy) PROVE FALSE
        <3>1. u \in F /\ u < s
            BY <1>8, <2>4
        <3>2. QED BY <1>8, <3>1
    <2>5. QED BY <1>8, <2>3, <2>4
<1> DEFINE S == CHOOSE r \in earliest..FreeBy(earliest, busy) : First(r)
<1>10. S \in earliest..FreeBy(earliest, busy) /\ First(S)
    BY <1>9
<1>11. NextFreeSlot(earliest, d, busy) = S
    BY DEF NextFreeSlot
<1>12. FreeBy(earliest, busy) \in Nat
    BY <1>2, <1>3, CalendarAssumption
<1> HIDE DEF S
<1>13. S \in Nat /\ earliest <= S
    BY <1>10, <1>12
<1>14. QED BY <1>10, <1>11, <1>13

-----------------------------------------------------------------------------
(* Working time.                                                           *)

LEMMA WorkBetweenType ==
    ASSUME NEW a \in Nat, NEW b \in Nat
    PROVE  /\ IsFiniteSet({u \in a..(b-1) : IsWorking(u)})
           /\ WorkBetween(a, b) \in Nat
<1>1. IsFiniteSet(a..(b-1))
    BY FS_Interval
<1>2. {u \in a..(b-1) : IsWorking(u)} \in SUBSET (a..(b-1))
    OBVIOUS
<1>3. IsFiniteSet({u \in a..(b-1) : IsWorking(u)})
    BY <1>1, <1>2, FS_Subset
<1>4. QED BY <1>3, FS_CardinalityType DEF WorkBetween

\* Working time adds up over adjacent intervals.
LEMMA WorkAdds ==
    ASSUME NEW a \in Nat, NEW b \in Nat, NEW c \in Nat, a <= b, b <= c
    PROVE  WorkBetween(a, c) = WorkBetween(a, b) + WorkBetween(b, c)
<1> DEFINE W(x, y) == {u \in x..(y-1) : IsWorking(u)}
<1>1. IsFiniteSet(W(a, b)) /\ IsFiniteSet(W(b, c))
    BY WorkBetweenType
<1>2. W(a, c) = W(a, b) \cup W(b, c) /\ W(a, b) \cap W(b, c) = {}
    OBVIOUS
<1> HIDE DEF W
<1>3. Cardinality(W(a, b) \cup W(b, c)) =
         Cardinality(W(a, b)) + Cardinality(W(b, c)) - Cardinality({})
    BY <1>1, <1>2, FS_Union
<1>4. Cardinality(W(a, b)) \in Nat /\ Cardinality(W(b, c)) \in Nat
    BY <1>1, FS_CardinalityType
<1>5. Cardinality(W(a, c)) = Cardinality(W(a, b)) + Cardinality(W(b, c))
    BY <1>2, <1>3, <1>4, FS_EmptySet
<1>6. QED BY <1>5 DEF W, WorkBetween

\* There is none where no instant works ...
LEMMA WorkNone ==
    ASSUME NEW a \in Nat, NEW b \in Nat, \A u \in a..(b-1) : ~IsWorking(u)
    PROVE  WorkBetween(a, b) = 0
<1>1. {u \in a..(b-1) : IsWorking(u)} = {}
    OBVIOUS
<1>2. QED BY <1>1, FS_EmptySet DEF WorkBetween

\* ... and as much as there is time where all do.
LEMMA WorkAll ==
    ASSUME NEW a \in Nat, NEW b \in Nat, a <= b, \A u \in a..(b-1) : IsWorking(u)
    PROVE  WorkBetween(a, b) = b - a
<1>1. {u \in a..(b-1) : IsWorking(u)} = a..(b-1)
    OBVIOUS
<1>2. Cardinality(a..(b-1)) = b - a
    <2> DEFINE c == b - 1
    <2>1. c \in Int /\ b = c + 1
        OBVIOUS
    <2> HIDE DEF c
    <2>2. Cardinality(a..c) = IF a > c THEN 0 ELSE c - a + 1
        BY <2>1, FS_Interval
    <2>3. Cardinality(a..c) = b - a
        BY <2>1, <2>2
    <2>4. QED BY <2>3 DEF c
<1>3. QED BY <1>1, <1>2 DEF WorkBetween

\* Advance is defined: the h-th working tick from t on exists.
LEMMA AdvanceExists ==
    ASSUME NEW t \in Nat, NEW h \in Nat \ {0}
    PROVE  \E r \in (t+1)..(t + 8 * DayLen * h) : IsWorking(r - 1) /\ WorkBetween(t, r) = h
<1> DEFINE Ends(n, r) == IsWorking(r - 1) /\ WorkBetween(t, r) = n
           B(n) == t + 8 * DayLen * n
           Bad == {n \in Nat \ {0} : ~\E r \in (t+1)..B(n) : Ends(n, r)}
<1>1. SUFFICES ASSUME Bad # {} PROVE FALSE
    OBVIOUS
<1>2. PICK n \in Bad : \A m \in Bad : n <= m
    <2>1. Bad \in SUBSET Nat OBVIOUS
    <2>2. QED BY <1>1, <2>1, LeastExists
<1>3. n \in Nat /\ n # 0 /\ ~\E r \in (t+1)..B(n) : Ends(n, r)
    BY <1>2
<1>4. \E p \in t..B(n - 1) : WorkBetween(t, p) = n - 1
    <2>1. CASE n = 1
        <3>1. B(0) = t
            BY CalendarAssumption
        <3>2. \A u \in t..(t-1) : ~IsWorking(u)
            OBVIOUS
        <3>3. WorkBetween(t, t) = 0
            BY <3>2, WorkNone
        <3>4. QED BY <2>1, <3>1, <3>3
    <2>2. CASE n # 1
        <3>1. n - 1 \in Nat \ {0} /\ n - 1 \notin Bad
            BY <1>2, <1>3, <2>2
        <3>2. PICK r \in (t+1)..B(n-1) : Ends(n-1, r)
            BY <3>1
        <3>3. r \in t..B(n-1)
            BY <3>2
        <3>4. QED BY <3>2, <3>3
    <2>3. QED BY <2>1, <2>2
<1>5. PICK p \in t..B(n - 1) : WorkBetween(t, p) = n - 1
    BY <1>4
<1> DEFINE q == NextWorkingStart(p)
<1>6. DayLen \in Nat /\ 8 * DayLen * n \in Nat /\ 8 * DayLen * (n-1) \in Nat /\ n - 1 \in Nat
    BY <1>3, CalendarAssumption
<1>7. p \in Nat /\ t <= p /\ p <= B(n-1)
    BY <1>5, <1>6
<1>8. /\ q \in Nat /\ p <= q /\ q < p + 8 * DayLen /\ IsWorking(q)
      /\ \A u \in p..(q-1) : ~IsWorking(u)
    BY <1>7, NextWorkingStartIsNext
<1>9. B(n) = B(n-1) + 8 * DayLen
    BY <1>3, <1>6
<1>10. WorkBetween(t, q) = n - 1
    <2>1. WorkBetween(p, q) = 0
        BY <1>7, <1>8, WorkNone
    <2>2. WorkBetween(t, q) = WorkBetween(t, p) + WorkBetween(p, q)
        BY <1>7, <1>8, WorkAdds
    <2>3. QED BY <2>1, <2>2, <1>5, <1>6
<1> HIDE DEF q, B
<1>11. WorkBetween(t, q + 1) = n
    <2>1. \A u \in q..((q+1)-1) : IsWorking(u)
        BY <1>8
    <2>2. WorkBetween(q, q + 1) = (q + 1) - q
        <3>1. q + 1 \in Nat /\ q <= q + 1
            BY <1>8
        <3>2. QED BY <3>1, <2>1, <1>8, WorkAll
    <2>3. WorkBetween(t, q + 1) = WorkBetween(t, q) + WorkBetween(q, q + 1)
        BY <1>7, <1>8, WorkAdds
    <2>4. QED BY <1>3, <1>8, <1>10, <2>2, <2>3
<1>12. (q + 1) \in (t+1)..B(n)
    BY <1>6, <1>7, <1>8, <1>9 DEF B
<1>13. IsWorking((q + 1) - 1)
    BY <1>8
<1>14. QED BY <1>3, <1>11, <1>12, <1>13

\* Advance(t, h) lies at or after t; when there is work to do, its last tick
\* is the one before Advance(t, h) and the work in between is h.
LEMMA AdvanceIsEnd ==
    ASSUME NEW t \in Nat, NEW h \in Nat
    PROVE  /\ Advance(t, h) \in Nat /\ t <= Advance(t, h)
           /\ WorkBetween(t, Advance(t, h)) = h
           /\ h > 0 => t < Advance(t, h) /\ IsWorking(Advance(t, h) - 1)
<1>1. CASE h = 0
    <2>1. WorkBetween(t, t) = 0
        BY WorkNone
    <2>2. QED BY <1>1, <2>1 DEF Advance
<1>2. CASE h # 0
    <2> DEFINE B == t + 8 * DayLen * h
               r == CHOOSE x \in (t+1)..B : IsWorking(x - 1) /\ WorkBetween(t, x) = h
    <2>1. r \in (t+1)..B /\ IsWorking(r - 1) /\ WorkBetween(t, r) = h
        BY <1>2, AdvanceExists
    <2>2. Advance(t, h) = r
        BY <1>2 DEF Advance
    <2>3. B \in Nat
        BY CalendarAssumption
    <2> HIDE DEF r, B
    <2>4. QED BY <2>1, <2>2, <2>3
<1>3. QED BY <1>1, <1>2

\* ... and that determines it.
LEMMA AdvanceUnique ==
    ASSUME NEW t \in Nat, NEW h \in Nat \ {0}, NEW r \in Nat,
           t < r, IsWorking(r - 1), WorkBetween(t, r) = h
    PROVE  r = Advance(t, h)
<1> DEFINE s == Advance(t, h)
<1>1. s \in Nat /\ t < s /\ WorkBetween(t, s) = h /\ IsWorking(s - 1)
    BY AdvanceIsEnd
<1> HIDE DEF s
<1>2. ASSUME NEW x \in Nat, NEW y \in Nat, t < x, x < y, IsWorking(y - 1),
             WorkBetween(t, x) = h, WorkBetween(t, y) = h
      PROVE  FALSE
    <2>1. /\ WorkBetween(t, y - 1) = WorkBetween(t, x) + WorkBetween(x, y - 1)
          /\ WorkBetween(x, y - 1) \in Nat
        <3> DEFINE z == y - 1
        <3>1. z \in Nat /\ t <= x /\ x <= z
            BY <1>2
        <3> HIDE DEF z
        <3>2. WorkBetween(t, z) = WorkBetween(t, x) + WorkBetween(x, z)
            BY <3>1, WorkAdds
        <3>3. WorkBetween(x, z) \in Nat
            BY <3>1, WorkBetweenType
        <3>4. QED BY <3>2, <3>3 DEF z
    <2>2. WorkBetween(t, y) = WorkBetween(t, y - 1) + WorkBetween(y - 1, y)
        BY <1>2, WorkAdds
    <2>3. \A u \in (y-1)..(y-1) : IsWorking(u)
        BY <1>2
    <2>4. WorkBetween(y - 1, y) = y - (y - 1)
        BY <1>2, <2>3, WorkAll
    <2>5. QED BY <1>2, <2>1, <2>2, <2>4
<1>3. ~(r < s) /\ ~(s < r)
    BY <1>1, <1>2
<1>4. r = s BY <1>1, <1>3
<1>5. QED BY <1>4 DEF s

-----------------------------------------------------------------------------
(* next_free_slot returns the earliest free slot.                          *)

\* The inductive invariant: what has been passed over is not free, and the
\* call that returns has found a free slot.
SearchInv ==
    /\ SlotTypeOK
    /\ NothingSkipped
    /\ slotPc # "rejected" => Placeable(slotLen)
    /\ slotPc = "found" => FreeAt(slotPos, slotLen, slotBusy)

LEMMA CallTypes ==
    ASSUME SlotTypeOK
    PROVE  /\ slotFrom \in Nat /\ slotLen \in Nat /\ slotPos \in Nat
           /\ IsFiniteSet(slotBusy)
           /\ \A b \in slotBusy : b.start \in Nat /\ b.end \in Nat
BY CallAssumption DEF SlotTypeOK, Interval

\* From a working instant, jumping to the next working start at or after q
\* skips no free start when no start from pos up to q is free.
LEMMA JumpSkipsNothing ==
    ASSUME SearchInv, slotPc = "search", NEW q \in Nat, slotPos < q,
           \A u \in slotPos..(q-1) : ~FreeAt(u, slotLen, slotBusy)
    PROVE  LET r == NextWorkingStart(q) IN
           /\ r \in Nat /\ slotPos < r /\ IsWorking(r)
           /\ \A u \in slotFrom..(r-1) : ~FreeAt(u, slotLen, slotBusy)
<1> DEFINE r == NextWorkingStart(q)
<1>1. /\ r \in Nat /\ q <= r /\ IsWorking(r)
      /\ \A u \in q..(r-1) : ~IsWorking(u)
    BY NextWorkingStartIsNext
<1> HIDE DEF r
<1>2. /\ slotFrom \in Nat /\ slotPos \in Nat
      /\ \A u \in slotFrom..(slotPos-1) : ~FreeAt(u, slotLen, slotBusy)
    BY CallTypes DEF SearchInv, NothingSkipped
<1>3. ASSUME NEW u \in slotFrom..(r-1) PROVE ~FreeAt(u, slotLen, slotBusy)
    <2>1. CASE u < slotPos
        BY <1>1, <1>2, <2>1
    <2>2. CASE slotPos <= u /\ u < q
        BY <1>1, <1>2, <2>2
    <2>3. CASE q <= u
        <3>1. ~IsWorking(u)
            BY <1>1, <1>2, <2>3
        <3>2. QED BY <3>1 DEF FreeAt
    <2>4. QED BY <1>1, <1>2, <2>1, <2>2, <2>3
<1>4. QED BY <1>1, <1>2, <1>3 DEF r

LEMMA SkipDaySkipsNothing ==
    ASSUME SearchInv, slotPc = "search", ~Fits
    PROVE  LET q == WindowEnd(Day(slotPos)) IN
           /\ q \in Nat /\ slotPos < q
           /\ \A u \in slotPos..(q-1) : ~FreeAt(u, slotLen, slotBusy)
<1> DEFINE d == Day(slotPos)
           q == WindowEnd(d)
<1>1. /\ slotPos \in Nat /\ slotLen \in Nat /\ IsWorking(slotPos) /\ d \in Nat
      /\ d * DayLen \in Nat /\ d * DayLen <= slotPos
    BY CallTypes, DayBounds DEF SearchInv, NothingSkipped
<1>2. q \in Nat /\ q < d * DayLen + DayLen /\ DayLen \in Nat
    BY <1>1, WindowBounds, CalendarAssumption
<1>3. slotPos < q /\ q < slotPos + slotLen
    BY <1>1, <1>2 DEF IsWorking, Fits
<1> HIDE DEF d, q
<1>4. ASSUME NEW u \in slotPos..(q-1) PROVE ~FreeAt(u, slotLen, slotBusy)
    <2>1. u \in Nat /\ d * DayLen <= u /\ u < d * DayLen + DayLen
        BY <1>1, <1>2
    <2>2. Day(u) = d
        BY <1>1, <2>1, DayUnique
    <2>3. q < u + slotLen
        BY <1>1, <1>2, <1>3, <2>1
    <2>4. QED BY <1>1, <1>2, <2>1, <2>2, <2>3 DEF FreeAt, q
<1>5. QED BY <1>2, <1>3, <1>4 DEF d, q

LEMMA SkipConflictSkipsNothing ==
    ASSUME SearchInv, slotPc = "search", Blocking # {}
    PROVE  LET q == FirstOverlap.end IN
           /\ q \in Nat /\ slotPos < q
           /\ \A u \in slotPos..(q-1) : ~FreeAt(u, slotLen, slotBusy)
<1> DEFINE f == FirstOverlap
<1>1. f \in Blocking
    <2> DEFINE Starts == {b.start : b \in Blocking}
    <2>1. \A b \in Blocking : b.start \in Nat /\ b.end \in Nat
        BY CallTypes DEF SearchInv, Blocking
    <2>2. PICK m \in Starts : \A n \in Starts : m <= n
        <3>1. Starts \in SUBSET Nat /\ Starts # {}
            BY <2>1
        <3>2. QED BY <3>1, LeastExists
    <2> DEFINE Ends == {b.end : b \in {c \in Blocking : c.start = m}}
    <2>3. PICK e \in Ends : \A n \in Ends : e <= n
        <3>1. Ends \in SUBSET Nat /\ Ends # {}
            BY <2>1, <2>2
        <3>2. QED BY <3>1, LeastExists
    <2>4. PICK b \in Blocking : b.start = m /\ b.end = e
        BY <2>3
    <2>5. ASSUME NEW c \in Blocking
          PROVE  b.start < c.start \/ (b.start = c.start /\ b.end <= c.end)
        <3>1. m <= c.start
            BY <2>2
        <3>2. c.start = m => e <= c.end
            BY <2>3
        <3>3. QED BY <2>1, <2>4, <3>1, <3>2
    <2>6. QED BY <2>5 DEF FirstOverlap
<1>2. /\ f.start \in Nat /\ f.end \in Nat /\ slotPos \in Nat /\ slotLen \in Nat
      /\ f \in slotBusy /\ f.start < slotPos + slotLen /\ slotPos < f.end
    BY <1>1, CallTypes DEF SearchInv, Blocking, Overlaps
<1> HIDE DEF f
<1>3. ASSUME NEW u \in slotPos..(f.end - 1) PROVE ~FreeAt(u, slotLen, slotBusy)
    <2>1. f.start < u + slotLen /\ u < f.end
        BY <1>2
    <2>2. QED BY <1>2, <2>1 DEF FreeAt, Overlaps
<1>4. QED BY <1>2, <1>3 DEF f

\* A pass of the loop that jumps keeps the invariant.
LEMMA JumpKeepsInv ==
    ASSUME SearchInv, slotPc = "search", UNCHANGED <<slotArgs, slotPc>>,
           NEW q \in Nat, slotPos < q, slotPos' = NextWorkingStart(q),
           \A u \in slotPos..(q-1) : ~FreeAt(u, slotLen, slotBusy)
    PROVE  SearchInv' /\ slotPos < slotPos'
<1>1. /\ slotPos' \in Nat /\ slotPos < slotPos' /\ IsWorking(slotPos')
      /\ \A u \in slotFrom..(slotPos'-1) : ~FreeAt(u, slotLen, slotBusy)
    BY JumpSkipsNothing
<1>2. slotFrom \in Nat /\ slotPos \in Nat /\ slotFrom <= slotPos
    BY CallTypes DEF SearchInv, NothingSkipped
<1>3. slotFrom <= slotPos'
    BY <1>1, <1>2
<1>4. QED BY <1>1, <1>3 DEF SearchInv, SlotTypeOK, NothingSkipped, slotArgs

LEMMA SearchInvInit == SlotInit => SearchInv
<1> SUFFICES ASSUME SlotInit PROVE SearchInv
    OBVIOUS
<1>1. slotFrom \in Nat
    BY CallAssumption DEF SlotInit
<1>2. /\ slotPos \in Nat /\ slotFrom <= slotPos /\ IsWorking(slotPos)
      /\ \A u \in slotFrom..(slotPos-1) : ~IsWorking(u)
    BY <1>1, NextWorkingStartIsNext DEF SlotInit
<1>3. \A u \in slotFrom..(slotPos-1) : ~FreeAt(u, slotLen, slotBusy)
    BY <1>2 DEF FreeAt
<1>4. QED BY <1>2, <1>3 DEF SlotInit, SearchInv, SlotTypeOK, NothingSkipped

LEMMA SearchInvStep == SearchInv /\ [SlotNext]_slotVars => SearchInv'
<1> SUFFICES ASSUME SearchInv, [SlotNext]_slotVars PROVE SearchInv'
    OBVIOUS
<1>1. CASE SkipDay
    BY <1>1, SkipDaySkipsNothing, JumpKeepsInv DEF SkipDay
<1>2. CASE SkipConflict
    BY <1>2, SkipConflictSkipsNothing, JumpKeepsInv DEF SkipConflict
<1>3. CASE Return
    <2>1. FreeAt(slotPos, slotLen, slotBusy)
        BY <1>3 DEF Return, SearchInv, NothingSkipped, FreeAt, Fits, Blocking
    <2>2. QED BY <1>3, <2>1 DEF Return, SearchInv, SlotTypeOK, NothingSkipped, slotArgs
<1>4. CASE UNCHANGED slotVars
    BY <1>4 DEF slotVars, SearchInv, SlotTypeOK, NothingSkipped
<1>5. QED BY <1>1, <1>2, <1>3, <1>4 DEF SlotNext

\* Whatever the calendar, the bookings and the request, the search passes over
\* no start that is free.
THEOREM SearchSkipsNothing == SlotSpec => [](SlotTypeOK /\ NothingSkipped)
<1>1. SearchInv => SlotTypeOK /\ NothingSkipped
    BY DEF SearchInv
<1>2. QED BY SearchInvInit, SearchInvStep, <1>1, PTL DEF SlotSpec

\* ... and the start next_free_slot returns is the earliest free one.
THEOREM SearchFindsEarliest == SlotSpec => []FoundIsEarliest
<1>1. SearchInv => FoundIsEarliest
    <2> SUFFICES ASSUME SearchInv, slotPc = "found" PROVE slotPos = NextFreeSlot(slotFrom, slotLen, slotBusy)
        BY DEF FoundIsEarliest
    <2> DEFINE s == NextFreeSlot(slotFrom, slotLen, slotBusy)
    <2>1. /\ s \in Nat /\ slotFrom <= s /\ FreeAt(s, slotLen, slotBusy)
          /\ \A u \in slotFrom..(s-1) : ~FreeAt(u, slotLen, slotBusy)
        BY CallTypes, NextFreeSlotIsEarliest DEF SearchInv
    <2>2. /\ slotPos \in Nat /\ slotFrom \in Nat /\ slotFrom <= slotPos
          /\ FreeAt(slotPos, slotLen, slotBusy)
          /\ \A u \in slotFrom..(slotPos-1) : ~FreeAt(u, slotLen, slotBusy)
        BY CallTypes DEF SearchInv, NothingSkipped
    <2> HIDE DEF s
    <2>3. ~(s < slotPos) /\ ~(slotPos < s)
        BY <2>1, <2>2
    <2>4. slotPos = s
        BY <2>1, <2>2, <2>3
    <2>5. QED BY <2>4 DEF s
<1>2. QED BY SearchInvInit, SearchInvStep, <1>1, PTL DEF SlotSpec

\* Together: the loop of next_free_slot is sound on every calendar.
THEOREM SearchIsSound == SlotSpec => []SearchSound
<1>1. SlotTypeOK /\ NothingSkipped /\ FoundIsEarliest => SearchSound
    BY DEF SearchSound
<1>2. QED BY SearchSkipsNothing, SearchFindsEarliest, <1>1, PTL

\* Every pass of the loop moves the candidate forward: the search cannot
\* revisit a start, nor go round in place.
THEOREM SearchProgresses == SlotSpec => SlotProgress
<1>1. SearchInv /\ [SlotNext]_slotVars => [slotPc = "search" /\ slotPc' = "search" => slotPos' > slotPos]_slotVars
    <2> SUFFICES ASSUME SearchInv, SlotNext, slotPc = "search", slotPc' = "search" PROVE slotPos' > slotPos
        OBVIOUS
    <2>1. slotPos < slotPos' /\ slotPos \in Nat /\ slotPos' \in Nat
        <3>1. SearchInv'
            BY SearchInvStep
        <3>2. CASE SkipDay
            BY <3>1, <3>2, SkipDaySkipsNothing, JumpKeepsInv DEF SkipDay, SearchInv, SlotTypeOK
        <3>3. CASE SkipConflict
            BY <3>1, <3>3, SkipConflictSkipsNothing, JumpKeepsInv DEF SkipConflict, SearchInv, SlotTypeOK
        <3>4. CASE Return
            BY <3>4 DEF Return
        <3>5. QED BY <3>2, <3>3, <3>4 DEF SlotNext
    <2>2. QED BY <2>1
<1>2. QED BY SearchInvInit, SearchInvStep, <1>1, PTL DEF SlotSpec, SlotProgress

-----------------------------------------------------------------------------
(* advance counts working time exactly.                                    *)

\* The inductive invariant: between passes the count stands at a working
\* instant with work left, and a call that returns stands just past a
\* working tick.
CountInv ==
    /\ WorkTypeOK
    /\ WorkConserved
    /\ workFrom <= workPos
    /\ workPc = "loop" => workHours > 0 /\ workLeft > 0 /\ IsWorking(workPos)
    /\ workPc = "done" => /\ workLeft = 0
                          /\ workHours = 0 => workPos = workFrom
                          /\ workHours > 0 => workFrom < workPos /\ IsWorking(workPos - 1)

\* The rest of the window of a working instant is working time throughout.
LEMMA WindowWorks ==
    ASSUME NEW p \in Nat, IsWorking(p)
    PROVE  LET e == WindowEnd(Day(p)) IN
           /\ e \in Nat /\ p < e
           /\ \A u \in p..(e-1) : IsWorking(u)
<1> DEFINE d == Day(p)
           e == WindowEnd(d)
<1>1. /\ d \in Nat /\ d * DayLen \in Nat /\ d * DayLen <= p
      /\ IsWorkingDay(d) /\ WindowStart(d) <= p /\ p < e
    BY DayBounds DEF IsWorking
<1>2. e \in Nat /\ WindowStart(d) \in Nat /\ e < d * DayLen + DayLen /\ DayLen \in Nat
    BY <1>1, WindowBounds, CalendarAssumption
<1> HIDE DEF d
<1>3. ASSUME NEW u \in p..(e-1) PROVE IsWorking(u)
    <2>1. /\ u \in Nat /\ d * DayLen <= u /\ u < d * DayLen + DayLen
          /\ WindowStart(d) <= u /\ u < WindowEnd(d)
        BY <1>1, <1>2
    <2>2. QED BY <1>1, <2>1, WorkingInDay
<1>4. QED BY <1>1, <1>2, <1>3 DEF d

LEMMA CountInvInit == WorkInit => CountInv
<1> SUFFICES ASSUME WorkInit PROVE CountInv
    OBVIOUS
<1>1. workFrom \in Nat /\ workHours \in Nat
    BY AdvanceAssumption DEF WorkInit
<1>2. CASE workHours = 0
    <2>1. WorkBetween(workFrom, workFrom) = 0
        BY <1>1, WorkNone
    <2>2. QED BY <1>1, <1>2, <2>1 DEF WorkInit, CountInv, WorkTypeOK, WorkConserved
<1>3. CASE workHours > 0
    <2>1. workPos = NextWorkingStart(workFrom) /\ workPc = "loop" /\ workLeft = workHours
        BY <1>3 DEF WorkInit
    <2>2. /\ workPos \in Nat /\ workFrom <= workPos /\ IsWorking(workPos)
          /\ \A u \in workFrom..(workPos-1) : ~IsWorking(u)
        BY <1>1, <2>1, NextWorkingStartIsNext
    <2>3. WorkBetween(workFrom, workPos) = 0
        BY <1>1, <2>2, WorkNone
    <2>4. QED BY <1>1, <1>3, <2>1, <2>2, <2>3 DEF WorkInit, CountInv, WorkTypeOK, WorkConserved
<1>4. QED BY <1>1, <1>2, <1>3

\* What both passes use.
LEMMA LoopFacts ==
    ASSUME CountInv, workPc = "loop"
    PROVE  /\ workFrom \in Nat /\ workHours \in Nat /\ workPos \in Nat /\ workLeft \in Nat
           /\ workFrom <= workPos /\ workHours > 0 /\ workLeft > 0 /\ IsWorking(workPos)
           /\ WorkBetween(workFrom, workPos) \in Nat
           /\ WorkBetween(workFrom, workPos) + workLeft = workHours
BY AdvanceAssumption, WorkBetweenType DEF CountInv, WorkTypeOK, WorkConserved

LEMMA EndInWindowKeepsInv == CountInv /\ EndInWindow => CountInv'
<1> SUFFICES ASSUME CountInv, EndInWindow PROVE CountInv'
    OBVIOUS
<1> DEFINE e == WindowEnd(Day(workPos))
           q == workPos + workLeft
<1>1. /\ workFrom \in Nat /\ workHours \in Nat /\ workPos \in Nat /\ workLeft \in Nat
      /\ workFrom <= workPos /\ workHours > 0 /\ workLeft > 0 /\ IsWorking(workPos)
      /\ WorkBetween(workFrom, workPos) \in Nat /\ WorkBetween(workFrom, workPos) + workLeft = workHours
    BY LoopFacts DEF EndInWindow
<1>2. e \in Nat /\ workPos < e /\ \A u \in workPos..(e-1) : IsWorking(u)
    BY <1>1, WindowWorks
<1>3. q \in Nat /\ workPos < q /\ q <= e
    BY <1>1, <1>2 DEF EndInWindow, Available
<1> HIDE DEF e
<1>4. \A u \in workPos..(q-1) : IsWorking(u)
    BY <1>1, <1>2, <1>3
<1>5. WorkBetween(workPos, q) = workLeft
    <2>1. WorkBetween(workPos, q) = q - workPos
        BY <1>1, <1>3, <1>4, WorkAll
    <2>2. QED BY <1>1, <2>1
<1>6. IsWorking(q - 1)
    <2>1. q - 1 \in workPos..(q-1)
        BY <1>1, <1>3
    <2>2. QED BY <1>4, <2>1
<1> HIDE DEF q
<1>7. WorkBetween(workFrom, q) = WorkBetween(workFrom, workPos) + WorkBetween(workPos, q)
    BY <1>1, <1>3, WorkAdds
<1>8. WorkBetween(workFrom, q) = workHours
    BY <1>1, <1>5, <1>7
<1>9. workPos' = q /\ workLeft' = 0 /\ workPc' = "done" /\ workFrom' = workFrom /\ workHours' = workHours
    BY DEF EndInWindow, q
<1>10. WorkTypeOK'
    BY <1>3, <1>9 DEF CountInv, WorkTypeOK
<1>11. WorkConserved'
    BY <1>1, <1>8, <1>9 DEF WorkConserved
<1>12. workFrom' <= workPos' /\ workFrom' < workPos'
    BY <1>1, <1>3, <1>9
<1>13. QED BY <1>1, <1>6, <1>9, <1>10, <1>11, <1>12 DEF CountInv

LEMMA UseUpWindowKeepsInv == CountInv /\ UseUpWindow => CountInv'
<1> SUFFICES ASSUME CountInv, UseUpWindow PROVE CountInv'
    OBVIOUS
<1> DEFINE e == WindowEnd(Day(workPos))
           q == NextWorkingStart(e)
<1>1. /\ workFrom \in Nat /\ workHours \in Nat /\ workPos \in Nat /\ workLeft \in Nat
      /\ workFrom <= workPos /\ workHours > 0 /\ workLeft > 0 /\ IsWorking(workPos)
      /\ WorkBetween(workFrom, workPos) \in Nat /\ WorkBetween(workFrom, workPos) + workLeft = workHours
    BY LoopFacts DEF UseUpWindow
<1>2. e \in Nat /\ workPos < e /\ \A u \in workPos..(e-1) : IsWorking(u)
    BY <1>1, WindowWorks
<1>3. /\ workPos' = q /\ workPc' = "loop" /\ workFrom' = workFrom /\ workHours' = workHours
      /\ e - workPos < workLeft /\ workLeft' = workLeft - (e - workPos)
    BY DEF UseUpWindow, Available
<1> HIDE DEF e
<1>4. /\ q \in Nat /\ e <= q /\ IsWorking(q)
      /\ \A u \in e..(q-1) : ~IsWorking(u)
    BY <1>2, NextWorkingStartIsNext
<1> HIDE DEF q
<1>5. WorkBetween(workPos, e) = e - workPos
    BY <1>1, <1>2, WorkAll
<1>6. WorkBetween(e, q) = 0
    BY <1>2, <1>4, WorkNone
<1>7. WorkBetween(workFrom, e) = WorkBetween(workFrom, workPos) + WorkBetween(workPos, e)
    BY <1>1, <1>2, WorkAdds
<1>8. WorkBetween(workFrom, q) = WorkBetween(workFrom, e) + WorkBetween(e, q)
    BY <1>1, <1>2, <1>4, WorkAdds
<1>9. WorkBetween(workFrom, q) + workLeft' = workHours
    BY <1>1, <1>2, <1>3, <1>5, <1>6, <1>7, <1>8
<1>10. workLeft' \in Nat /\ workLeft' > 0
    BY <1>1, <1>2, <1>3
<1>11. WorkTypeOK'
    BY <1>3, <1>4, <1>10 DEF CountInv, WorkTypeOK
<1>12. WorkConserved'
    BY <1>3, <1>9 DEF WorkConserved
<1>13. workFrom' <= workPos'
    BY <1>1, <1>2, <1>3, <1>4
<1>14. QED BY <1>1, <1>3, <1>4, <1>10, <1>11, <1>12, <1>13 DEF CountInv

LEMMA CountInvStep == CountInv /\ [WorkNext]_workVars => CountInv'
<1> SUFFICES ASSUME CountInv, [WorkNext]_workVars PROVE CountInv'
    OBVIOUS
<1>1. CASE UNCHANGED workVars
    BY <1>1 DEF workVars, CountInv, WorkTypeOK, WorkConserved
<1>2. QED BY <1>1, EndInWindowKeepsInv, UseUpWindowKeepsInv DEF WorkNext

\* At every pass, the work counted and the work that remains are what the
\* caller asked for.
THEOREM AdvanceConservesWork == WorkSpec => []WorkConserved
<1>1. CountInv => WorkConserved
    BY DEF CountInv
<1>2. QED BY CountInvInit, CountInvStep, <1>1, PTL DEF WorkSpec

\* The instant advance returns is the one the rest of the project computes with.
THEOREM AdvanceLoopReturnsAdvance == WorkSpec => [](WorkTypeOK /\ ResultIsAdvance)
<1>1. CountInv => WorkTypeOK /\ ResultIsAdvance
    <2> SUFFICES ASSUME CountInv, workPc = "done" PROVE workPos = Advance(workFrom, workHours)
        BY DEF CountInv, ResultIsAdvance
    <2>1. workFrom \in Nat /\ workHours \in Nat /\ workPos \in Nat
        BY AdvanceAssumption DEF CountInv, WorkTypeOK
    <2>2. CASE workHours = 0
        BY <2>2 DEF CountInv, Advance
    <2>3. CASE workHours > 0
        <3>1. workFrom < workPos /\ IsWorking(workPos - 1) /\ WorkBetween(workFrom, workPos) + 0 = workHours
            BY <2>3 DEF CountInv, WorkConserved
        <3>2. WorkBetween(workFrom, workPos) = workHours
            <4>1. WorkBetween(workFrom, workPos) \in Nat
                BY <2>1, WorkBetweenType
            <4>2. QED BY <3>1, <4>1
        <3>3. QED BY <2>1, <2>3, <3>1, <3>2, AdvanceUnique
    <2>4. QED BY <2>1, <2>2, <2>3
<1>2. QED BY CountInvInit, CountInvStep, <1>1, PTL DEF WorkSpec

\* Together: the loop of advance is sound on every calendar.
THEOREM AdvanceIsSound == WorkSpec => []WorkSound
<1>1. WorkConserved /\ WorkTypeOK /\ ResultIsAdvance => WorkSound
    BY DEF WorkSound
<1>2. QED BY AdvanceConservesWork, AdvanceLoopReturnsAdvance, <1>1, PTL
=============================================================================
