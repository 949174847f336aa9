--------------------------- MODULE ScheduleProofs ---------------------------
(***************************************************************************)
(* What module Schedule says of the cron search, for every calendar, spec  *)
(* and zone: it passes no minute at which the spec fires, the device is    *)
(* restarted only in such a minute and once for it, and the search gives   *)
(* up only on a spec that never fires.                                     *)
(*                                                                         *)
(* The argument goes from integers over the calendar (a day lies in one    *)
(* month, MonthOf finds it), the wall-clock times a jump passes            *)
(* (TargetSkips), and zones (what a jump passes in time it passes on the   *)
(* wall clock, or it is shown again), to the invariants of the search.     *)
(* That it gives up on nothing that comes needs a count: iterations are    *)
(* paid for by the days they pass, and since nothing is skipped, there are *)
(* but two days on which the search may walk by the minute and leave       *)
(* without a find (OpenDayLeft).  What fires once fires again, as dates    *)
(* and weekdays repeat (MatchesRepeat).                                    *)
(***************************************************************************)
EXTENDS Schedule, FiniteSetTheorems, TLAPS

-----------------------------------------------------------------------------
(* Integers.  Induction in this module is the least-number principle for a *)
(* set of naturals.                                                        *)

(* A set of naturals that is not empty has a least element: initial        *)
(* segments are finite, and strict inclusion of finite sets is well        *)
(* founded.                                                                *)
LEMMA LeastNatural ==
  ASSUME NEW T \in SUBSET Nat, T # {}
  PROVE  \E m \in T : \A k \in T : m <= k
  <1> DEFINE R == StrictSubsetOrdering(Nat)
             U == {0..n : n \in T}
  <1>1. IsWellFoundedOn(R, FiniteSubsetsOf(Nat))
    BY FS_StrictSubsetOrderingWellFounded
  <1>2. U \subseteq FiniteSubsetsOf(Nat) /\ U # {}
    <2>1. \A n \in T : 0..n \in SUBSET Nat /\ IsFiniteSet(0..n)
      BY FS_Interval
    <2>2. \A n \in T : 0..n \in FiniteSubsetsOf(Nat)
      BY <2>1 DEF FiniteSubsetsOf
    <2> QED BY <2>2
  <1>3. PICK u \in U : \A v \in U : ~(<<v, u>> \in R)
    <2> HIDE DEF U, R
    <2> QED BY <1>1, <1>2, WFMin
  <1>4. PICK m \in T : u = 0..m
    OBVIOUS
  <1>5. ASSUME NEW k \in T, k < m PROVE FALSE
    <2>1. 0..k \subseteq 0..m /\ 0..k # 0..m
      <3>1. m \in 0..m /\ m \notin 0..k
        BY <1>5
      <3> QED BY <3>1, <1>5
    <2>2. <<0..k, u>> \in R
      BY <2>1, <1>4 DEF StrictSubsetOrdering
    <2> QED BY <2>2, <1>3
  <1> QED BY <1>5

(* So has a set of integers with a lower bound, and Min is it. *)
LEMMA MinIsLeast ==
  ASSUME NEW S \in SUBSET Int, S # {}, NEW b \in Int, \A x \in S : b <= x
  PROVE  Min(S) \in S /\ \A x \in S : Min(S) <= x
  <1> DEFINE T == {n \in Nat : n + b \in S}
  <1>1. T # {}
    <2>1. PICK x \in S : TRUE
      OBVIOUS
    <2>2. x - b \in Nat /\ (x - b) + b = x
      OBVIOUS
    <2> QED BY <2>1, <2>2
  <1>2. PICK m \in T : \A k \in T : m <= k
    BY <1>1, LeastNatural
  <1>3. \A x \in S : m + b <= x
    <2> TAKE x \in S
    <2>1. x - b \in T
      <3>1. x - b \in Nat /\ (x - b) + b = x
        OBVIOUS
      <3> QED BY <3>1
    <2> QED BY <2>1, <1>2
  <1>4. \E x \in S : \A y \in S : x =< y
    BY <1>2, <1>3
  <1> QED BY <1>4 DEF Min

(* A set of integers with an upper bound has a greatest element, and Max   *)
(* is it.                                                                  *)
LEMMA MaxIsGreatest ==
  ASSUME NEW S \in SUBSET Int, S # {}, NEW b \in Int, \A x \in S : x <= b
  PROVE  Max(S) \in S /\ \A x \in S : x <= Max(S)
  <1> DEFINE T == {n \in Nat : b - n \in S}
  <1>1. T # {}
    <2>1. PICK x \in S : TRUE
      OBVIOUS
    <2>2. b - x \in Nat /\ b - (b - x) = x
      OBVIOUS
    <2> QED BY <2>1, <2>2
  <1>2. PICK m \in T : \A k \in T : m <= k
    BY <1>1, LeastNatural
  <1>3. \A x \in S : x <= b - m
    <2> TAKE x \in S
    <2>1. b - x \in T
      <3>1. b - x \in Nat /\ b - (b - x) = x
        OBVIOUS
      <3> QED BY <3>1
    <2>2. m \in Int
      OBVIOUS
    <2>3. m <= b - x
      <3> HIDE DEF T
      <3> QED BY <2>1, <1>2
    <2> QED BY <2>2, <2>3
  <1>4. \E x \in S : \A y \in S : x >= y
    BY <1>2, <1>3
  <1> QED BY <1>4 DEF Max

(* Division with remainder. *)
LEMMA Division ==
  ASSUME NEW n \in Nat \ {0}, NEW x \in Int
  PROVE  /\ x \div n \in Int /\ x % n \in 0..(n - 1)
         /\ x = (x \div n) * n + (x % n)
         /\ (x \div n) * n <= x /\ x < (x \div n + 1) * n
  <1>1. /\ x \div n \in Int /\ x % n \in 0..(n - 1)
        /\ x = (x \div n) * n + (x % n)
    OBVIOUS
  <1> QED BY <1>1

(* Multiples are ordered as their factors are. *)
LEMMA Multiples ==
  ASSUME NEW n \in Nat \ {0}, NEW p \in Int, NEW q \in Int
  PROVE  /\ p < q => (p + 1) * n <= q * n
         /\ p <= q => p * n <= q * n
         /\ p * n < q * n => p < q
  OBVIOUS

(* What lies between two multiples has the lower one's factor for its      *)
(* quotient.                                                               *)
LEMMA Quotient ==
  ASSUME NEW n \in Nat \ {0}, NEW x \in Int, NEW q \in Int,
         q * n <= x, x < (q + 1) * n
  PROVE  x \div n = q /\ x % n = x - q * n
  <1>1. /\ x \div n \in Int /\ (x \div n) * n <= x /\ x < (x \div n + 1) * n
        /\ x = (x \div n) * n + (x % n)
    BY Division
  <1>2. CASE q < x \div n
    <2>1. (q + 1) * n <= (x \div n) * n
      BY <1>1, <1>2, Multiples
    <2> QED BY <2>1, <1>1
  <1>3. CASE x \div n < q
    <2>1. (x \div n + 1) * n <= q * n
      BY <1>1, <1>3, Multiples
    <2> QED BY <2>1, <1>1
  <1>4. CASE x \div n = q
    <2>1. x % n \in Int
      BY Division
    <2> QED BY <2>1, <1>1, <1>4
  <1> QED BY <1>1, <1>2, <1>3, <1>4

(* Division is monotone. *)
LEMMA DivisionMonotone ==
  ASSUME NEW n \in Nat \ {0}, NEW x \in Int, NEW y \in Int, x <= y
  PROVE  x \div n <= y \div n
  <1>1. /\ x \div n \in Int /\ (x \div n) * n <= x
        /\ y \div n \in Int /\ y < (y \div n + 1) * n
    BY Division
  <1>2. CASE y \div n < x \div n
    <2>1. (y \div n + 1) * n <= (x \div n) * n
      BY <1>1, <1>2, Multiples
    <2> QED BY <2>1, <1>1
  <1> QED BY <1>1, <1>2

-----------------------------------------------------------------------------
(* The calendar. *)

N == Len(MonthDays)

(* The constants. *)
LEMMA Constants ==
  /\ HourMinutes \in Nat \ {0} /\ DayHours \in Nat \ {0} /\ WeekDays \in Nat \ {0}
  /\ MonthsPerYear \in Nat \ {0} /\ N \in Nat \ {0} /\ N % MonthsPerYear = 0
  /\ \A m \in 1..N : MonthDays[m] \in Nat \ {0}
  BY ScheduleAssumption DEF N

(* A day is a positive number of minutes, and no shorter than an hour. *)
LEMMA DayMinutesType == DayMinutes \in Nat \ {0} /\ HourMinutes <= DayMinutes
  <1>1. \A a, b \in Nat \ {0} : a * b \in Nat \ {0} /\ b <= a * b
    OBVIOUS
  <1> QED BY <1>1, Constants DEF DayMinutes

(* The recursion of DaysBefore, up to k. *)
Sums(f, k) ==
  /\ f \in [0..k -> Int]
  /\ \A m \in 0..k : f[m] = IF m = 0 THEN 0 ELSE f[m - 1] + MonthDays[m]

(* It has a solution for every k. *)
LEMMA SumsExist ==
  \A k \in 0..N : \E f : Sums(f, k)
  <1> DEFINE T == {k \in 0..N : ~\E f : Sums(f, k)}
  <1> SUFFICES ASSUME T # {} PROVE FALSE
    OBVIOUS
  <1>1. T \in SUBSET Nat
    BY Constants
  <1>2. PICK k \in T : \A j \in T : k <= j
    BY <1>1, LeastNatural
  <1>3. CASE k = 0
    <2>1. Sums([m \in 0..0 |-> 0], 0)
      BY DEF Sums
    <2> QED BY <2>1, <1>2, <1>3
  <1>4. CASE k # 0
    <2>1. k \in 1..N /\ k - 1 \in 0..N
      BY <1>2, <1>4, Constants
    <2>2. k - 1 \notin T
      <3>1. ~(k <= k - 1)
        BY <2>1
      <3> HIDE DEF T
      <3> QED BY <3>1, <1>2
    <2>3. PICK f : Sums(f, k - 1)
      BY <2>1, <2>2
    <2> DEFINE g == [m \in 0..k |-> IF m = k THEN f[k - 1] + MonthDays[k] ELSE f[m]]
    <2>4. MonthDays[k] \in Int
      BY <2>1, Constants
    <2>5. \A m \in 0..(k - 1) : f[m] \in Int
      BY <2>3 DEF Sums
    <2>6. f[k - 1] \in Int
      BY <2>1, <2>5
    <2>7. g \in [0..k -> Int]
      BY <2>1, <2>4, <2>5, <2>6
    <2>8. ASSUME NEW m \in 0..k
          PROVE  g[m] = IF m = 0 THEN 0 ELSE g[m - 1] + MonthDays[m]
      <3>1. CASE m = k
        BY <3>1, <2>1
      <3>2. CASE m # k
        <4>1. m \in 0..(k - 1) /\ (m # 0 => m - 1 \in 0..k /\ m - 1 # k)
          BY <3>2, <2>1
        <4>2. f[m] = IF m = 0 THEN 0 ELSE f[m - 1] + MonthDays[m]
          BY <4>1, <2>3 DEF Sums
        <4> QED BY <4>1, <4>2, <3>2
      <3> QED BY <3>1, <3>2
    <2>9. Sums(g, k)
      <3> HIDE DEF g
      <3> QED BY <2>7, <2>8 DEF Sums
    <2> QED BY <2>9, <1>2
  <1> QED BY <1>3, <1>4

(* DaysBefore is the solution. *)
LEMMA DaysBeforeSums == Sums(DaysBefore, N)
  <1> DEFINE Rec(f) == [m \in 0..N |-> IF m = 0 THEN 0 ELSE f[m - 1] + MonthDays[m]]
  <1>1. PICK f : Sums(f, N)
    BY SumsExist, Constants
  <1>2. f = Rec(f)
    BY <1>1 DEF Sums
  <1>3. DaysBefore = Rec(DaysBefore)
    BY <1>2 DEF DaysBefore, N
  <1>4. \A m \in 0..N : DaysBefore[m] = IF m = 0 THEN 0 ELSE DaysBefore[m - 1] + MonthDays[m]
    BY <1>3
  <1>5. \A k \in 0..N : DaysBefore[k] = f[k]
    <2> DEFINE T == {k \in 0..N : DaysBefore[k] # f[k]}
    <2> SUFFICES ASSUME T # {} PROVE FALSE
      OBVIOUS
    <2>1. T \in SUBSET Nat
      BY Constants
    <2>2. PICK k \in T : \A j \in T : k <= j
      BY <2>1, LeastNatural
    <2>3. k \in 0..N /\ DaysBefore[k] # f[k]
      BY <2>2
    <2>4. k # 0
      BY <2>3, <1>1, <1>4 DEF Sums
    <2>5. k - 1 \in 0..N /\ ~(k <= k - 1)
      BY <2>3, <2>4, Constants
    <2>6. k - 1 \notin T
      <3> HIDE DEF T
      <3> QED BY <2>5, <2>2
    <2>7. DaysBefore[k - 1] = f[k - 1]
      BY <2>5, <2>6
    <2> QED BY <2>3, <2>4, <2>7, <1>1, <1>4 DEF Sums
  <1>6. DaysBefore \in [0..N -> Int]
    <2>1. \A k \in 0..N : f[k] \in Int
      BY <1>1 DEF Sums
    <2>2. DaysBefore = [m \in 0..N |-> DaysBefore[m]]
      BY <1>3
    <2> QED BY <1>5, <2>1, <2>2
  <1> QED BY <1>4, <1>6 DEF Sums

(* Months follow one another. *)
LEMMA DaysBeforeStep ==
  /\ DaysBefore[0] = 0
  /\ \A m \in 0..N : DaysBefore[m] \in Int
  /\ \A m \in 0..(N - 1) : /\ DaysBefore[m + 1] = DaysBefore[m] + MonthDays[m + 1]
                           /\ DaysBefore[m] < DaysBefore[m + 1]
  <1>1. DaysBefore[0] = 0 /\ \A m \in 0..N : DaysBefore[m] \in Int
    BY DaysBeforeSums, Constants DEF Sums
  <1>2. ASSUME NEW m \in 0..(N - 1)
        PROVE  /\ DaysBefore[m + 1] = DaysBefore[m] + MonthDays[m + 1]
               /\ DaysBefore[m] < DaysBefore[m + 1]
    <2>1. m + 1 \in 0..N /\ m + 1 \in 1..N /\ m \in 0..N /\ m + 1 # 0 /\ (m + 1) - 1 = m
      BY Constants
    <2>2. DaysBefore[m + 1] = DaysBefore[m] + MonthDays[m + 1]
      BY <2>1, DaysBeforeSums DEF Sums
    <2>3. MonthDays[m + 1] \in Nat \ {0}
      BY <2>1, Constants
    <2> QED BY <2>1, <2>2, <2>3, <1>1
  <1> QED BY <1>1, <1>2

(* A later month of the cycle starts on a later day. *)
LEMMA DaysBeforeMonotone ==
  ASSUME NEW m \in 0..N, NEW n \in 0..N, m < n
  PROVE  DaysBefore[m] < DaysBefore[n]
  <1> DEFINE T == {k \in 0..N : m < k /\ ~(DaysBefore[m] < DaysBefore[k])}
  <1> SUFFICES ASSUME T # {} PROVE FALSE
    OBVIOUS
  <1>1. T \in SUBSET Nat
    BY Constants
  <1>2. PICK k \in T : \A j \in T : k <= j
    BY <1>1, LeastNatural
  <1>3. k \in 0..N /\ m < k /\ ~(DaysBefore[m] < DaysBefore[k])
    BY <1>2
  <1>4. k - 1 \in 0..(N - 1) /\ k - 1 \in 0..N /\ (k - 1) + 1 = k /\ ~(k <= k - 1) /\ m <= k - 1
    BY <1>3, Constants
  <1>5. k - 1 \notin T
    <2> HIDE DEF T
    <2> QED BY <1>4, <1>2
  <1>6. DaysBefore[k - 1] < DaysBefore[k]
    BY <1>4, DaysBeforeStep
  <1>7. m = k - 1 \/ DaysBefore[m] < DaysBefore[k - 1]
    BY <1>4, <1>5
  <1>8. DaysBefore[m] \in Int /\ DaysBefore[k] \in Int /\ DaysBefore[k - 1] \in Int
    BY <1>3, <1>4, DaysBeforeStep
  <1> QED BY <1>3, <1>6, <1>7, <1>8

(* The cycle has a positive number of days, and its months start inside it. *)
LEMMA CycleDaysType ==
  /\ CycleDays = DaysBefore[N] /\ CycleDays \in Nat \ {0}
  /\ \A m \in 0..(N - 1) : DaysBefore[m] \in 0..(CycleDays - 1)
  <1>1. CycleDays = DaysBefore[N]
    BY DEF CycleDays, N
  <1>2. DaysBefore[N] \in Int /\ DaysBefore[0] = 0 /\ DaysBefore[0] < DaysBefore[N]
    BY DaysBeforeStep, DaysBeforeMonotone, Constants
  <1>3. ASSUME NEW m \in 0..(N - 1) PROVE DaysBefore[m] \in 0..(CycleDays - 1)
    <2>1. m \in 0..N /\ m < N /\ N \in 0..N /\ 0 \in 0..N
      BY Constants
    <2>2. DaysBefore[m] \in Int /\ DaysBefore[m] < DaysBefore[N]
      BY <2>1, DaysBeforeStep, DaysBeforeMonotone
    <2>3. 0 <= DaysBefore[m]
      <3>1. CASE m = 0
        BY <3>1, DaysBeforeStep
      <3>2. CASE m # 0
        <4>1. DaysBefore[0] < DaysBefore[m]
          BY <3>2, <2>1, DaysBeforeMonotone
        <4> QED BY <4>1, <2>2, DaysBeforeStep
      <3> QED BY <3>1, <3>2
    <2> QED BY <2>2, <2>3, <1>1, <1>2
  <1> QED BY <1>1, <1>2, <1>3

(* The start of a month, and of the next. *)
LEMMA MonthStartStep ==
  ASSUME NEW m \in Int
  PROVE  /\ MonthStart(m) \in Int /\ MonthStart(m + 1) \in Int
         /\ MonthStart(m + 1) = MonthStart(m) + MonthDays[(m % N) + 1]
         /\ MonthStart(m) < MonthStart(m + 1)
  <1> DEFINE q == m \div N
             r == m % N
             C == CycleDays
  <1>1. /\ q \in Int /\ r \in 0..(N - 1) /\ m = q * N + r
        /\ MonthStart(m) = q * C + DaysBefore[r]
    BY Division, Constants DEF MonthStart, N
  <1>2. MonthStart(m + 1) = ((m + 1) \div N) * C + DaysBefore[((m + 1) % N)]
    BY DEF MonthStart, N
  <1>3. /\ DaysBefore[r] \in Int /\ DaysBefore[r + 1] \in Int /\ C \in Int
        /\ DaysBefore[r + 1] = DaysBefore[r] + MonthDays[r + 1]
        /\ DaysBefore[r] < DaysBefore[r + 1]
    <2>1. r \in 0..N /\ r + 1 \in 0..N
      BY <1>1, Constants
    <2> QED BY <2>1, <1>1, DaysBeforeStep, CycleDaysType
  <1>4. MonthStart(m + 1) = q * C + DaysBefore[r + 1]
    <2>1. CASE r + 1 < N
      <3>1. q * N <= m + 1 /\ m + 1 < (q + 1) * N /\ (m + 1) - q * N = r + 1
        BY <1>1, <2>1, Constants
      <3>2. (m + 1) \div N = q /\ (m + 1) % N = r + 1
        <4>1. q \in Int /\ m + 1 \in Int /\ N \in Nat \ {0}
          BY <1>1, Constants
        <4> HIDE DEF q, r
        <4>2. (m + 1) \div N = q /\ (m + 1) % N = (m + 1) - q * N
          BY <3>1, <4>1, Quotient
        <4> QED BY <3>1, <4>2
      <3> QED BY <1>2, <3>2
    <2>2. CASE r + 1 = N
      <3>1. (q + 1) * N <= m + 1 /\ m + 1 < ((q + 1) + 1) * N /\ (m + 1) - (q + 1) * N = 0
        BY <1>1, <2>2, Constants
      <3>2. (m + 1) \div N = q + 1 /\ (m + 1) % N = 0
        <4> DEFINE p == q + 1
        <4>1. p \in Int /\ m + 1 \in Int /\ N \in Nat \ {0}
          BY <1>1, Constants
        <4>2. p * N <= m + 1 /\ m + 1 < (p + 1) * N /\ (m + 1) - p * N = 0
          BY <3>1
        <4> HIDE DEF p
        <4>3. (m + 1) \div N = p /\ (m + 1) % N = (m + 1) - p * N
          BY <4>1, <4>2, Quotient
        <4> QED BY <4>2, <4>3 DEF p
      <3>3. (q + 1) * C = q * C + C
        BY <1>1, <1>3
      <3>4. DaysBefore[r + 1] = C /\ DaysBefore[0] = 0
        BY <2>2, CycleDaysType, DaysBeforeStep
      <3>5. q * C \in Int
        BY <1>1, <1>3
      <3> QED BY <1>2, <1>3, <3>2, <3>3, <3>4, <3>5
    <2>3. r + 1 < N \/ r + 1 = N
      BY <1>1, Constants
    <2> QED BY <2>1, <2>2, <2>3
  <1>5. q * C \in Int
    BY <1>1, <1>3
  <1> HIDE DEF q, C
  <1>6. MonthDays[r + 1] \in Int
    BY <1>1, Constants
  <1> QED BY <1>1, <1>3, <1>4, <1>5, <1>6

(* A later month starts on a later day, across cycles too. *)
LEMMA MonthStartMonotone ==
  ASSUME NEW m \in Int, NEW n \in Int, m < n
  PROVE  MonthStart(m) < MonthStart(n)
  <1> DEFINE T == {k \in Nat : k >= 1 /\ ~(MonthStart(m) < MonthStart(m + k))}
  <1>1. T = {}
    <2> SUFFICES ASSUME T # {} PROVE FALSE
      OBVIOUS
    <2>1. PICK k \in T : \A j \in T : k <= j
      <3>1. T \in SUBSET Nat
        OBVIOUS
      <3> HIDE DEF T
      <3> QED BY <3>1, LeastNatural
    <2>2. k \in Nat /\ k >= 1 /\ ~(MonthStart(m) < MonthStart(m + k))
      BY <2>1
    <2>3. k - 1 \in Nat /\ ~(k <= k - 1) /\ m + (k - 1) \in Int /\ (m + (k - 1)) + 1 = m + k
      BY <2>2
    <2>4. k - 1 \notin T
      <3> HIDE DEF T
      <3> QED BY <2>1, <2>3
    <2>5. /\ MonthStart(m + (k - 1)) \in Int /\ MonthStart(m + k) \in Int
          /\ MonthStart(m + (k - 1)) < MonthStart(m + k)
      BY <2>3, MonthStartStep
    <2>6. m + (k - 1) = m \/ MonthStart(m) < MonthStart(m + (k - 1))
      BY <2>3, <2>4, <2>2
    <2>7. MonthStart(m) \in Int
      BY MonthStartStep
    <2> QED BY <2>2, <2>5, <2>6, <2>7
  <1>2. n - m \in Nat /\ n - m >= 1 /\ m + (n - m) = n
    OBVIOUS
  <1> QED BY <1>1, <1>2

(* A day lies in its month. *)
LEMMA MonthOfDay ==
  ASSUME NEW local \in Int
  PROVE  /\ DayOf(local) \in Int /\ MonthOf(local) \in Int
         /\ MonthStart(MonthOf(local)) <= DayOf(local)
         /\ DayOf(local) < MonthStart(MonthOf(local) + 1)
  <1> DEFINE q == DayOf(local) \div CycleDays
             d == DayOf(local) % CycleDays
             At(m) == DaysBefore[m] <= d /\ d < DaysBefore[m + 1]
             M == CHOOSE m \in 0..(N - 1) : At(m)
  <1>1. DayOf(local) \in Int
    BY Division, DayMinutesType DEF DayOf
  <1>2. q \in Int /\ d \in 0..(CycleDays - 1) /\ DayOf(local) = q * CycleDays + d
    BY <1>1, Division, CycleDaysType
  <1>3. M \in 0..(N - 1) /\ At(M)
    <2> DEFINE T == {k \in 0..N : d < DaysBefore[k]}
    <2>1. T \in SUBSET Nat /\ N \in T
      BY <1>2, CycleDaysType, Constants
    <2>2. PICK k \in T : \A j \in T : k <= j
      <3> HIDE DEF T
      <3> QED BY <2>1, LeastNatural
    <2>3. k \in 0..N /\ d < DaysBefore[k]
      BY <2>2
    <2>4. k # 0
      BY <2>3, <1>2, DaysBeforeStep, CycleDaysType
    <2>5. k - 1 \in 0..(N - 1) /\ k - 1 \in 0..N /\ ~(k <= k - 1) /\ (k - 1) + 1 = k
      BY <2>3, <2>4, Constants
    <2>6. k - 1 \notin T
      <3> HIDE DEF T
      <3> QED BY <2>5, <2>2
    <2>7. DaysBefore[k - 1] \in Int
      BY <2>5, DaysBeforeStep
    <2>8. At(k - 1)
      BY <2>3, <2>5, <2>6, <2>7, <1>2, CycleDaysType
    <2> HIDE DEF At
    <2> QED BY <2>5, <2>8
  <1>4. MonthOf(local) = q * N + M
    BY DEF MonthOf, N
  <1> HIDE DEF M
  <1>5. MonthOf(local) \in Int /\ q * N <= MonthOf(local) /\ MonthOf(local) < (q + 1) * N
    BY <1>2, <1>3, <1>4, Constants
  <1>6. MonthOf(local) \div N = q /\ MonthOf(local) % N = M
    <2>1. MonthOf(local) - q * N = M
      BY <1>2, <1>3, <1>4, Constants
    <2> HIDE DEF q
    <2> QED BY <1>2, <1>5, <2>1, Quotient, Constants
  <1>7. MonthStart(MonthOf(local)) = q * CycleDays + DaysBefore[M]
    BY <1>6 DEF MonthStart, N
  <1>8. MonthStart(MonthOf(local) + 1) = (q * CycleDays + DaysBefore[M]) + MonthDays[M + 1]
    BY <1>5, <1>6, <1>7, MonthStartStep
  <1>9. DaysBefore[M + 1] = DaysBefore[M] + MonthDays[M + 1] /\ DaysBefore[M] \in Int
    BY <1>3, DaysBeforeStep, Constants
  <1>10. q * CycleDays \in Int /\ CycleDays \in Int
    BY <1>2, CycleDaysType
  <1>11. MonthDays[M + 1] \in Int
    BY <1>3, Constants
  <1> HIDE DEF q, d
  <1> QED BY <1>1, <1>2, <1>3, <1>5, <1>7, <1>8, <1>9, <1>10, <1>11

(* Day, month and hour of a wall-clock time, as bounds on it. *)
LEMMA QuotientBounds ==
  ASSUME NEW n \in Nat \ {0}, NEW x \in Int, NEW q \in Int
  PROVE  q * n <= x <=> q <= x \div n
  <1>1. x \div n \in Int /\ (x \div n) * n <= x /\ x < (x \div n + 1) * n
    BY Division
  <1>2. ASSUME q * n <= x PROVE q <= x \div n
    <2>1. q * n < (x \div n + 1) * n
      BY <1>1, <1>2
    <2>2. q < x \div n + 1
      <3> DEFINE p == x \div n + 1
      <3>1. p \in Int /\ q * n < p * n
        BY <1>1, <2>1
      <3> HIDE DEF p
      <3>2. q < p
        BY <3>1, Multiples
      <3> QED BY <3>2 DEF p
    <2> QED BY <2>2, <1>1
  <1>3. ASSUME q <= x \div n PROVE q * n <= x
    <2>1. q * n <= (x \div n) * n
      BY <1>1, <1>3, Multiples
    <2> QED BY <2>1, <1>1
  <1> QED BY <1>2, <1>3

(* The day of a minute is the last that starts no later. *)
LEMMA DayBounds ==
  ASSUME NEW local \in Int, NEW d \in Int
  PROVE  DayOf(local) \in Int /\ (d * DayMinutes <= local <=> d <= DayOf(local))
  BY QuotientBounds, Division, DayMinutesType DEF DayOf

(* The month of a minute is the last that starts no later. *)
LEMMA MonthBounds ==
  ASSUME NEW local \in Int, NEW m \in Int
  PROVE  MonthStart(m) <= DayOf(local) <=> m <= MonthOf(local)
  <1> DEFINE M == MonthOf(local)
  <1>1. /\ DayOf(local) \in Int /\ M \in Int /\ MonthStart(m) \in Int
        /\ MonthStart(M) \in Int /\ MonthStart(M + 1) \in Int
        /\ MonthStart(M) <= DayOf(local) /\ DayOf(local) < MonthStart(M + 1)
    BY MonthOfDay, MonthStartStep
  <1> HIDE DEF M
  <1>2. CASE m <= M
    <2>1. m = M \/ MonthStart(m) < MonthStart(M)
      BY <1>1, <1>2, MonthStartMonotone
    <2> QED BY <2>1, <1>1, <1>2 DEF M
  <1>3. CASE M < m
    <2>1. M + 1 = m \/ MonthStart(M + 1) < MonthStart(m)
      <3>1. M + 1 \in Int /\ (M + 1 = m \/ M + 1 < m)
        BY <1>1, <1>3
      <3> QED BY <3>1, MonthStartMonotone
    <2> QED BY <2>1, <1>1, <1>3 DEF M
  <1> QED BY <1>1, <1>2, <1>3

(* The day of an hour. *)
LEMMA DayOfHour ==
  ASSUME NEW local \in Int
  PROVE  DayOf(local) = (local \div HourMinutes) \div DayHours
  <1> DEFINE h == local \div HourMinutes
             d == h \div DayHours
  <1>1. h \in Int /\ h * HourMinutes <= local /\ local < (h + 1) * HourMinutes
    BY Division, Constants
  <1>2. d \in Int /\ d * DayHours <= h /\ h < (d + 1) * DayHours
    BY <1>1, Division, Constants
  <1> HIDE DEF h, d
  <1>3. \A n \in Nat \ {0} : \A p, q \in Int : p <= q => p * n <= q * n
    BY Multiples
  <1>4. d * DayHours \in Int /\ (d + 1) * DayHours \in Int /\ h + 1 <= (d + 1) * DayHours
    BY <1>1, <1>2, Constants
  <1>5. /\ (d * DayHours) * HourMinutes <= h * HourMinutes
        /\ (h + 1) * HourMinutes <= ((d + 1) * DayHours) * HourMinutes
    BY <1>1, <1>2, <1>3, <1>4, Constants
  <1>6. \A a, b, c \in Int : (a * b) * c = a * (b * c)
    OBVIOUS
  <1>7. /\ (d * DayHours) * HourMinutes = d * DayMinutes
        /\ ((d + 1) * DayHours) * HourMinutes = (d + 1) * DayMinutes
    BY <1>2, <1>6, Constants DEF DayMinutes
  <1>8. d * DayMinutes <= local /\ local < (d + 1) * DayMinutes
    <2>1. /\ d * DayMinutes \in Int /\ (d + 1) * DayMinutes \in Int
          /\ h * HourMinutes \in Int /\ (h + 1) * HourMinutes \in Int
      BY <1>1, <1>2, Constants, DayMinutesType
    <2> QED BY <2>1, <1>1, <1>5, <1>7
  <1>9. local \div DayMinutes = d
    BY <1>2, <1>8, Quotient, DayMinutesType
  <1> QED BY <1>9 DEF DayOf, d, h

-----------------------------------------------------------------------------
(* Matching wall-clock times. *)

MonthMatches(sc, local) == MonthOfYear(MonthOf(local)) \in sc.month

DayMatches(sc, local) ==
  LET domOK == sc.wildcardDOM \/ DayOfMonth(local) \in sc.dom
      dowOK == sc.wildcardDOW \/ WeekdayOf(local) \in sc.dow
  IN  IF sc.wildcardDOM \/ sc.wildcardDOW THEN domOK /\ dowOK ELSE domOK \/ dowOK

HourMatches(sc, local) == HourOf(local) \in sc.hour

(* The search stays in the hour of `local`. *)
Open(sc, local) == MonthMatches(sc, local) /\ DayMatches(sc, local) /\ HourMatches(sc, local)

Matches(sc, local) == Open(sc, local) /\ MinuteOf(local) \in sc.minute

MonthsAhead(sc, m) == {n \in (m + 1)..(m + MonthsPerYear + 1) : MonthOfYear(n) \in sc.month}

(* Where it goes otherwise. *)
TargetOf(sc, local) ==
  IF ~MonthMatches(sc, local)
    THEN MonthStart(Min(MonthsAhead(sc, MonthOf(local)))) * DayMinutes
    ELSE IF ~DayMatches(sc, local) THEN (DayOf(local) + 1) * DayMinutes
                                   ELSE (local \div HourMinutes + 1) * HourMinutes

SomeMonth(sc) == sc.month # {} /\ sc.month \subseteq 1..MonthsPerYear

(* Every month comes within a year. *)
LEMMA MonthAheadExists ==
  ASSUME NEW sc, SomeMonth(sc), NEW m \in Int
  PROVE  /\ MonthsAhead(sc, m) # {}
         /\ Min(MonthsAhead(sc, m)) \in MonthsAhead(sc, m)
         /\ \A n \in MonthsAhead(sc, m) : Min(MonthsAhead(sc, m)) <= n
  <1>1. PICK y \in sc.month : y \in 1..MonthsPerYear
    BY DEF SomeMonth
  <1> DEFINE p == m + 1
             q == p \div MonthsPerYear
             r == p % MonthsPerYear
             n == IF r <= y - 1 THEN q * MonthsPerYear + (y - 1)
                                ELSE (q + 1) * MonthsPerYear + (y - 1)
  <1>2. p \in Int /\ q \in Int /\ r \in 0..(MonthsPerYear - 1) /\ p = q * MonthsPerYear + r
    <2>1. p \in Int
      OBVIOUS
    <2> HIDE DEF p
    <2> QED BY <2>1, Division, Constants
  <1>3. n % MonthsPerYear = y - 1
    <2>1. ASSUME NEW k \in Int
          PROVE  (k * MonthsPerYear + (y - 1)) % MonthsPerYear = y - 1
      <3> DEFINE x == k * MonthsPerYear + (y - 1)
      <3>1. /\ x \in Int /\ k * MonthsPerYear <= x /\ x < (k + 1) * MonthsPerYear
            /\ x - k * MonthsPerYear = y - 1
        <4>1. k * MonthsPerYear \in Int /\ (k + 1) * MonthsPerYear = k * MonthsPerYear + MonthsPerYear
          BY Constants
        <4>2. y \in Int /\ 1 <= y /\ y <= MonthsPerYear /\ MonthsPerYear \in Int
          BY <1>1, Constants
        <4> QED BY <4>1, <4>2
      <3> HIDE DEF x
      <3>2. x % MonthsPerYear = x - k * MonthsPerYear
        BY <3>1, Quotient, Constants
      <3> QED BY <3>1, <3>2 DEF x
    <2>2. q + 1 \in Int
      BY <1>2
    <2> HIDE DEF q, r
    <2> QED BY <1>2, <2>1, <2>2
  <1>4. n \in (m + 1)..(m + MonthsPerYear + 1)
    <2> HIDE DEF q, r
    <2>1. (q + 1) * MonthsPerYear = q * MonthsPerYear + MonthsPerYear /\ q * MonthsPerYear \in Int
      BY <1>2, Constants
    <2>2. y \in Int /\ 1 <= y /\ y <= MonthsPerYear /\ MonthsPerYear \in Int
      BY <1>1, Constants
    <2>3. r \in Int /\ 0 <= r /\ r <= MonthsPerYear - 1
      BY <1>2, <2>2
    <2>4. CASE r <= y - 1
      BY <1>2, <2>1, <2>2, <2>3, <2>4
    <2>5. CASE ~(r <= y - 1)
      BY <1>2, <2>1, <2>2, <2>3, <2>5
    <2> QED BY <2>4, <2>5
  <1>5. n \in MonthsAhead(sc, m)
    <2>1. MonthOfYear(n) = y
      <3>1. (y - 1) + 1 = y
        BY <1>1
      <3> HIDE DEF n
      <3> QED BY <1>3, <3>1 DEF MonthOfYear
    <2> HIDE DEF n
    <2> QED BY <1>4, <2>1 DEF MonthsAhead
  <1>6. MonthsAhead(sc, m) \in SUBSET Int /\ \A x \in MonthsAhead(sc, m) : m <= x
    BY DEF MonthsAhead
  <1> QED BY <1>5, <1>6, MinIsLeast

(* What a day and an hour determine. *)
LEMMA SameDay ==
  ASSUME NEW sc, NEW x \in Int, NEW y \in Int, DayOf(x) = DayOf(y)
  PROVE  /\ MonthOf(x) = MonthOf(y)
         /\ MonthMatches(sc, x) <=> MonthMatches(sc, y)
         /\ DayMatches(sc, x) <=> DayMatches(sc, y)
  <1>1. MonthOf(x) = MonthOf(y)
    BY DEF MonthOf
  <1>2. WeekdayOf(x) = WeekdayOf(y) /\ DayOfMonth(x) = DayOfMonth(y)
    BY <1>1 DEF WeekdayOf, DayOfMonth
  <1> QED BY <1>1, <1>2 DEF MonthMatches, DayMatches

(* Minutes of one hour are on the same day, and alike open or closed. *)
LEMMA SameHour ==
  ASSUME NEW sc, NEW x \in Int, NEW y \in Int, x \div HourMinutes = y \div HourMinutes
  PROVE  /\ DayOf(x) = DayOf(y)
         /\ Open(sc, x) <=> Open(sc, y)
         /\ HourMatches(sc, x) <=> HourMatches(sc, y)
  <1>1. DayOf(x) = DayOf(y)
    BY DayOfHour
  <1>2. HourOf(x) = HourOf(y)
    BY DEF HourOf
  <1> QED BY <1>1, <1>2, SameDay DEF Open, HourMatches

(* From the start of the present hour on days do not fall back. *)
LEMMA FromHourOn ==
  ASSUME NEW x \in Int, NEW y \in Int, (x \div HourMinutes) * HourMinutes <= y
  PROVE  /\ x \div HourMinutes \in Int /\ y \div HourMinutes \in Int
         /\ x \div HourMinutes <= y \div HourMinutes
         /\ DayOf(x) \in Int /\ DayOf(y) \in Int /\ DayOf(x) <= DayOf(y)
  <1>1. x \div HourMinutes \in Int /\ y \div HourMinutes \in Int
    BY Division, Constants
  <1>2. x \div HourMinutes <= y \div HourMinutes
    BY <1>1, QuotientBounds, Constants
  <1>3. DayOf(x) <= DayOf(y)
    BY <1>1, <1>2, DayOfHour, DivisionMonotone, Constants
  <1>4. DayOf(x) \in Int /\ DayOf(y) \in Int
    BY MonthOfDay
  <1> QED BY <1>1, <1>2, <1>3, <1>4

(* A jump goes forward, to the start of an hour, and over nothing that     *)
(* matches.                                                                *)
LEMMA TargetSkips ==
  ASSUME NEW sc, SomeMonth(sc), NEW local \in Int, ~Open(sc, local)
  PROVE  /\ TargetOf(sc, local) \in Int /\ local < TargetOf(sc, local)
         /\ \E h \in Int : TargetOf(sc, local) = h * HourMinutes
         /\ \A x \in Int :
              (local \div HourMinutes) * HourMinutes <= x /\ x < TargetOf(sc, local)
                => ~Matches(sc, x)
  <1>1. ASSUME NEW d \in Int
        PROVE  d * DayMinutes \in Int /\ d * DayHours \in Int
               /\ d * DayMinutes = (d * DayHours) * HourMinutes
    <2>1. \A a, b, c \in Int : a * (b * c) = (a * b) * c /\ a * (b * c) \in Int /\ a * b \in Int
      OBVIOUS
    <2> QED BY <2>1, Constants DEF DayMinutes
  <1>2. CASE ~MonthMatches(sc, local)
    <2> DEFINE M == MonthOf(local)
               n == Min(MonthsAhead(sc, M))
    <2>1. M \in Int /\ DayOf(local) \in Int /\ MonthStart(M) <= DayOf(local)
      BY MonthOfDay
    <2>2. /\ n \in Int /\ M + 1 <= n /\ n <= M + MonthsPerYear + 1
          /\ \A k \in MonthsAhead(sc, M) : n <= k
      <3>1. n \in MonthsAhead(sc, M) /\ \A k \in MonthsAhead(sc, M) : n <= k
        <4> HIDE DEF M
        <4> QED BY <2>1, MonthAheadExists
      <3>2. MonthsAhead(sc, M) \subseteq (M + 1)..(M + MonthsPerYear + 1)
        BY DEF MonthsAhead
      <3> HIDE DEF M, n
      <3> QED BY <2>1, <3>1, <3>2, Constants
    <2>3. TargetOf(sc, local) = MonthStart(n) * DayMinutes
      BY <1>2 DEF TargetOf
    <2> HIDE DEF n
    <2>4. MonthStart(n) \in Int
      BY <2>2, MonthStartStep
    <2>5. ASSUME NEW x \in Int PROVE x < MonthStart(n) * DayMinutes <=> MonthOf(x) < n
      <3>1. MonthStart(n) * DayMinutes <= x <=> n <= MonthOf(x)
        BY <2>2, <2>4, DayBounds, MonthBounds
      <3> QED BY <3>1, <2>2, <2>4, <1>1, MonthOfDay
    <2>6. local < MonthStart(n) * DayMinutes
      <3>1. M < n
        BY <2>1, <2>2
      <3> QED BY <3>1, <2>5 DEF M
    <2>7. ASSUME NEW x \in Int, (local \div HourMinutes) * HourMinutes <= x,
                 x < MonthStart(n) * DayMinutes
          PROVE  ~MonthMatches(sc, x)
      <3>1. MonthOf(x) \in Int /\ MonthOf(x) < n /\ M <= MonthOf(x)
        <4>1. MonthStart(M) <= DayOf(x)
          BY <2>1, <2>7, FromHourOn, MonthStartStep
        <4> HIDE DEF M
        <4> QED BY <4>1, <2>1, <2>5, <2>7, MonthOfDay, MonthBounds
      <3>2. CASE MonthOf(x) = M
        BY <3>2, <1>2 DEF MonthMatches
      <3>3. CASE MonthOf(x) # M
        <4>1. MonthOf(x) \notin MonthsAhead(sc, M)
          BY <3>1, <2>2
        <4>2. MonthOf(x) \in (M + 1)..(M + MonthsPerYear + 1)
          <5> HIDE DEF M
          <5> QED BY <3>1, <3>3, <2>1, <2>2, Constants
        <4> QED BY <4>1, <4>2 DEF MonthsAhead, MonthMatches
      <3> QED BY <3>2, <3>3
    <2>8. MonthStart(n) * DayMinutes = (MonthStart(n) * DayHours) * HourMinutes
          /\ MonthStart(n) * DayHours \in Int /\ MonthStart(n) * DayMinutes \in Int
      BY <1>1, <2>4
    <2> QED BY <2>3, <2>6, <2>7, <2>8 DEF Matches, Open
  <1>3. CASE MonthMatches(sc, local) /\ ~DayMatches(sc, local)
    <2> DEFINE d == DayOf(local) + 1
    <2>1. DayOf(local) \in Int /\ d \in Int
      BY MonthOfDay
    <2>2. TargetOf(sc, local) = d * DayMinutes
      BY <1>3 DEF TargetOf
    <2>3. ASSUME NEW x \in Int PROVE x < d * DayMinutes <=> DayOf(x) < d
      <3>1. d * DayMinutes <= x <=> d <= DayOf(x)
        <4> HIDE DEF d
        <4> QED BY <2>1, DayBounds
      <3>2. d * DayMinutes \in Int /\ DayOf(x) \in Int
        <4> HIDE DEF d
        <4> QED BY <2>1, <1>1, MonthOfDay
      <3> HIDE DEF d
      <3> QED BY <3>1, <3>2, <2>1
    <2>4. local < d * DayMinutes
      <3>1. DayOf(local) < d
        BY <2>1
      <3> HIDE DEF d
      <3> QED BY <3>1, <2>3
    <2>5. ASSUME NEW x \in Int, (local \div HourMinutes) * HourMinutes <= x, x < d * DayMinutes
          PROVE  ~DayMatches(sc, x)
      <3>1. DayOf(x) < d
        <4> HIDE DEF d
        <4> QED BY <2>3, <2>5
      <3>2. DayOf(x) = DayOf(local)
        BY <3>1, <2>1, <2>5, FromHourOn
      <3> QED BY <3>2, <1>3, SameDay
    <2>6. d * DayMinutes = (d * DayHours) * HourMinutes /\ d * DayHours \in Int
          /\ d * DayMinutes \in Int
      <3> HIDE DEF d
      <3> QED BY <1>1, <2>1
    <2> QED BY <2>2, <2>4, <2>5, <2>6 DEF Matches, Open
  <1>4. CASE MonthMatches(sc, local) /\ DayMatches(sc, local)
    <2> DEFINE h == local \div HourMinutes
    <2>1. h \in Int /\ local < (h + 1) * HourMinutes
      BY Division, Constants
    <2>2. TargetOf(sc, local) = (h + 1) * HourMinutes
      BY <1>4 DEF TargetOf
    <2>3. ~HourMatches(sc, local)
      BY <1>4 DEF Open
    <2>4. ASSUME NEW x \in Int, h * HourMinutes <= x, x < (h + 1) * HourMinutes
          PROVE  ~HourMatches(sc, x)
      <3>1. x \div HourMinutes = h
        <4> HIDE DEF h
        <4> QED BY <2>1, <2>4, Quotient, Constants
      <3> QED BY <3>1, <2>3, SameHour
    <2>5. h + 1 \in Int /\ (h + 1) * HourMinutes \in Int
      BY <2>1, Constants
    <2> QED BY <2>1, <2>2, <2>4, <2>5 DEF Matches, Open
  <1> QED BY <1>2, <1>3, <1>4

(* From the hour before its aim on, the search keeps that aim. *)
LEMMA TargetStable ==
  ASSUME NEW sc, SomeMonth(sc), NEW local \in Int, ~Open(sc, local), NEW x \in Int,
         TargetOf(sc, local) - HourMinutes <= x, x < TargetOf(sc, local)
  PROVE  ~Open(sc, x) /\ TargetOf(sc, x) = TargetOf(sc, local)
  <1> DEFINE T == TargetOf(sc, local)
  <1>1. ASSUME NEW d \in Int, T = d * DayMinutes
        PROVE  DayOf(x) = d - 1
    <2>1. (d - 1) * DayMinutes = d * DayMinutes - DayMinutes /\ d * DayMinutes \in Int
      BY DayMinutesType
    <2>2. (d - 1) * DayMinutes <= x /\ ~(d * DayMinutes <= x)
      <3> HIDE DEF T
      <3>1. T - HourMinutes <= x /\ x < T
        BY DEF T
      <3> QED BY <3>1, <2>1, <1>1, DayMinutesType, Constants
    <2>3. d - 1 <= DayOf(x) /\ ~(d <= DayOf(x)) /\ DayOf(x) \in Int
      <3>1. d - 1 \in Int
        OBVIOUS
      <3> QED BY <3>1, <2>2, DayBounds
    <2> QED BY <2>3
  <1>2. CASE ~MonthMatches(sc, local)
    <2> DEFINE M == MonthOf(local)
               A(m) == MonthsAhead(sc, m)
               n == Min(A(M))
               k == MonthOf(x)
    <2>1. M \in Int /\ k \in Int
      BY MonthOfDay
    <2>2. n \in A(M) /\ \A j \in A(M) : n <= j
      <3> HIDE DEF M
      <3> QED BY <2>1, MonthAheadExists
    <2>3. A(M) \subseteq (M + 1)..(M + MonthsPerYear + 1)
      BY DEF MonthsAhead
    <2>4. n \in Int /\ M + 1 <= n /\ n <= M + MonthsPerYear + 1 /\ MonthOfYear(n) \in sc.month
      <3>1. n \in (M + 1)..(M + MonthsPerYear + 1)
        BY <2>2, <2>3
      <3>2. MonthOfYear(n) \in sc.month
        <4> HIDE DEF n, M
        <4> QED BY <2>2 DEF MonthsAhead
      <3> HIDE DEF n, M
      <3> QED BY <3>1, <3>2, <2>1, Constants
    <2>5. T = MonthStart(n) * DayMinutes
      BY <1>2 DEF TargetOf
    <2> HIDE DEF n
    <2>6. k = n - 1
      <3>1. MonthStart(n) \in Int /\ MonthStart(n - 1) \in Int /\ MonthStart(n - 1) < MonthStart(n)
        <4>1. n - 1 \in Int /\ (n - 1) + 1 = n
          BY <2>4
        <4> QED BY <4>1, MonthStartStep
      <3>2. DayOf(x) = MonthStart(n) - 1
        <4> HIDE DEF T
        <4> QED BY <3>1, <2>5, <1>1
      <3>3. n - 1 <= k /\ ~(n <= k)
        <4>1. n - 1 \in Int /\ MonthStart(n - 1) <= DayOf(x) /\ ~(MonthStart(n) <= DayOf(x))
          BY <3>1, <3>2, <2>4
        <4> QED BY <4>1, <2>4, MonthBounds
      <3> HIDE DEF k
      <3> QED BY <3>3, <2>1, <2>4
    <2>7. ~MonthMatches(sc, x)
      <3>1. CASE k = M
        BY <3>1, <1>2 DEF MonthMatches
      <3>2. CASE k # M
        <4>1. k \in (M + 1)..(M + MonthsPerYear + 1) /\ ~(n <= k)
          <5> HIDE DEF k, M
          <5> QED BY <3>2, <2>1, <2>4, <2>6, Constants
        <4>2. k \notin A(M)
          <5> HIDE DEF A
          <5> QED BY <4>1, <2>2
        <4> QED BY <4>1, <4>2 DEF MonthsAhead, MonthMatches
      <3> QED BY <3>1, <3>2
    <2>8. Min(A(k)) = n
      <3>1. Min(A(k)) \in A(k) /\ \A j \in A(k) : Min(A(k)) <= j
        <4> HIDE DEF k
        <4> QED BY <2>1, MonthAheadExists
      <3>2. A(k) \subseteq (k + 1)..(k + MonthsPerYear + 1)
        BY DEF MonthsAhead
      <3>3. n \in A(k)
        <4>1. n \in (k + 1)..(k + MonthsPerYear + 1)
          <5> HIDE DEF k, M
          <5> QED BY <2>1, <2>4, <2>6, Constants
        <4> QED BY <4>1, <2>4 DEF MonthsAhead
      <3>4. Min(A(k)) \in (k + 1)..(k + MonthsPerYear + 1) /\ Min(A(k)) <= n
        BY <3>1, <3>2, <3>3
      <3> HIDE DEF A, k
      <3> QED BY <3>4, <2>1, <2>4, <2>6
    <2>9. TargetOf(sc, x) = MonthStart(n) * DayMinutes
      BY <2>7, <2>8 DEF TargetOf
    <2> QED BY <2>5, <2>7, <2>9 DEF Open
  <1>3. CASE MonthMatches(sc, local) /\ ~DayMatches(sc, local)
    <2>1. T = (DayOf(local) + 1) * DayMinutes /\ DayOf(local) \in Int
      BY <1>3, MonthOfDay DEF TargetOf
    <2>2. DayOf(x) = DayOf(local)
      <3> DEFINE d == DayOf(local) + 1
      <3>1. d \in Int /\ T = d * DayMinutes /\ d - 1 = DayOf(local)
        BY <2>1
      <3> HIDE DEF T, d
      <3> QED BY <3>1, <1>1
    <2>3. MonthMatches(sc, x) /\ ~DayMatches(sc, x)
      BY <2>2, <1>3, SameDay
    <2> QED BY <2>1, <2>2, <2>3 DEF TargetOf, Open
  <1>4. CASE MonthMatches(sc, local) /\ DayMatches(sc, local)
    <2> DEFINE h == local \div HourMinutes
    <2>1. T = (h + 1) * HourMinutes /\ h \in Int
      BY <1>4, Division, Constants DEF TargetOf
    <2>2. x \div HourMinutes = h
      <3>1. (h + 1) * HourMinutes = h * HourMinutes + HourMinutes /\ h * HourMinutes \in Int
        BY <2>1, Constants
      <3>2. T - HourMinutes <= x /\ x < T
        OBVIOUS
      <3> HIDE DEF T, h
      <3>3. h * HourMinutes <= x /\ x < (h + 1) * HourMinutes
        BY <3>1, <3>2, <2>1, Constants
      <3> QED BY <3>3, <2>1, Quotient, Constants
    <2>3. DayOf(x) = DayOf(local) /\ ~Open(sc, x)
      BY <2>2, SameHour
    <2>4. MonthMatches(sc, x) /\ DayMatches(sc, x)
      BY <2>3, <1>4, SameDay
    <2> QED BY <2>1, <2>2, <2>3, <2>4 DEF TargetOf
  <1> QED BY <1>2, <1>3, <1>4

-----------------------------------------------------------------------------
(* Zones. *)

Lower(z)  == IF z.before < z.after THEN z.before ELSE z.after
Higher(z) == IF z.before < z.after THEN z.after ELSE z.before

(* What a change of offset leaves out or shows twice lies within one hour  *)
(* of the wall clock.                                                      *)
CleanChange(z) ==
  Lower(z) = Higher(z)
  \/ (z.at + Lower(z)) \div HourMinutes = (z.at + Higher(z) - 1) \div HourMinutes

(* A zone's change and its two offsets are integers. *)
LEMMA ZoneType ==
  ASSUME NEW z \in Zone
  PROVE  z.at \in Int /\ z.before \in Int /\ z.after \in Int
         /\ Lower(z) \in Int /\ Higher(z) \in Int
  BY DEF Zone, Lower, Higher

(* Local times, and the minutes time.Date makes of them, are integers. *)
LEMMA LocalType ==
  ASSUME NEW z \in Zone, NEW x \in Int
  PROVE  Local(z, x) \in Int /\ Date(z, x) \in Int
  BY ZoneType DEF Local, Date, Offset

(* No hour starts strictly inside the change. *)
LEMMA NoHourInside ==
  ASSUME NEW z \in Zone, CleanChange(z), NEW h \in Int, NEW L \in Int, L = h * HourMinutes
  PROVE  /\ ~(z.at + Lower(z) < L /\ L < z.at + Higher(z))
         /\ L = z.at + Lower(z) => Higher(z) - Lower(z) <= HourMinutes
  <1> DEFINE lo == z.at + Lower(z)
             hi == z.at + Higher(z) - 1
  <1>1. lo \in Int /\ hi \in Int /\ Lower(z) \in Int /\ Higher(z) \in Int /\ z.at \in Int
    BY ZoneType
  <1>2. CASE Lower(z) = Higher(z)
    BY <1>1, <1>2, Constants
  <1>3. CASE lo \div HourMinutes = hi \div HourMinutes
    <2>1. ASSUME lo < L, L <= hi PROVE FALSE
      <3> HIDE DEF lo, hi
      <3>1. h <= hi \div HourMinutes
        BY <1>1, <2>1, QuotientBounds, Constants
      <3>2. h <= lo \div HourMinutes
        BY <3>1, <1>3
      <3>3. h * HourMinutes <= lo
        BY <3>2, <1>1, QuotientBounds, Constants
      <3> QED BY <3>3, <2>1, <1>1
    <2>2. ASSUME L = lo PROVE hi < L + HourMinutes
      <3>0. lo \in Int /\ hi \in Int
        BY <1>1
      <3> HIDE DEF lo, hi
      <3>1. lo \div HourMinutes = h
        <4>1. h * HourMinutes <= lo /\ lo < (h + 1) * HourMinutes
          <5>1. (h + 1) * HourMinutes = h * HourMinutes + HourMinutes /\ h * HourMinutes \in Int
            BY Constants
          <5> QED BY <5>1, <2>2, Constants
        <4> QED BY <4>1, <3>0, Quotient, Constants
      <3>2. hi < (h + 1) * HourMinutes
        BY <3>0, <3>1, <1>3, Division, Constants
      <3>3. (h + 1) * HourMinutes = h * HourMinutes + HourMinutes
        BY Constants
      <3> QED BY <3>2, <3>3
    <2>3. HourMinutes \in Int
      BY Constants
    <2> QED BY <1>1, <2>1, <2>2, <2>3
  <1> QED BY <1>2, <1>3 DEF CleanChange

(* The wall clock does not go back before the present hour. *)
LEMMA LocalStaysInHour ==
  ASSUME NEW z \in Zone, CleanChange(z), NEW s \in Int, NEW x \in Int, s <= x
  PROVE  (Local(z, s) \div HourMinutes) * HourMinutes <= Local(z, x)
  <1> DEFINE H == HourMinutes
  <1>1. Local(z, s) \in Int /\ Local(z, x) \in Int
    BY LocalType
  <1>2. CASE Local(z, s) <= Local(z, x)
    <2>1. Local(z, s) \div H \in Int /\ (Local(z, s) \div H) * H <= Local(z, s)
      BY <1>1, Division, Constants
    <2>2. (Local(z, s) \div H) * H \in Int
      BY <2>1, Constants
    <2> HIDE DEF H
    <2> QED BY <1>1, <1>2, <2>1, <2>2 DEF H
  <1>3. CASE Local(z, x) < Local(z, s)
    <2> DEFINE p == z.at + z.before - 1
               q == z.at + z.after
    <2>1. /\ z.after < z.before /\ p \in Int /\ q \in Int
          /\ Local(z, s) <= p /\ q <= Local(z, x)
      BY <1>3, ZoneType DEF Local, Offset
    <2>2. p \div H = q \div H
      BY <2>1, ZoneType DEF CleanChange, Lower, Higher
    <2> HIDE DEF p, q
    <2>3. Local(z, s) \div H <= p \div H /\ q \div H <= Local(z, x) \div H
      BY <1>1, <2>1, DivisionMonotone, Constants
    <2>4. Local(z, s) \div H \in Int /\ Local(z, x) \div H \in Int /\ p \div H \in Int
      BY <1>1, <2>1, Division, Constants
    <2>5. Local(z, s) \div H <= Local(z, x) \div H
      BY <2>2, <2>3, <2>4
    <2> QED BY <1>1, <2>4, <2>5, QuotientBounds, Constants
  <1> QED BY <1>1, <1>2, <1>3

(* What a jump to the wall-clock time L passes is earlier on the wall      *)
(* clock, or is shown again after the change.                              *)
LEMMA PassedOrAgain ==
  ASSUME NEW z \in Zone, CleanChange(z), NEW h \in Int, NEW L \in Int, L = h * HourMinutes,
         NEW x \in Int, x < Date(z, L), L <= Local(z, x)
  PROVE  /\ x < z.at /\ z.after < z.before
         /\ Date(z, L) <= x + (z.before - z.after)
         /\ Local(z, x + (z.before - z.after)) = Local(z, x)
  <1>1. ~(z.at + Lower(z) < L /\ L < z.at + Higher(z))
    BY NoHourInside
  <1> QED BY <1>1, ZoneType DEF Local, Date, Offset, Lower, Higher

(* A jump goes forward in time, or, west of UTC in spring, back to the     *)
(* hour before L and from there to the same instant again.                 *)
LEMMA ForwardOrStuck ==
  ASSUME NEW z \in Zone, CleanChange(z), NEW h \in Int, NEW L \in Int, L = h * HourMinutes,
         NEW s \in Int, Local(z, s) < L
  PROVE  \/ s < Date(z, L)
         \/ /\ L - HourMinutes <= Local(z, Date(z, L)) /\ Local(z, Date(z, L)) < L
            /\ z.before < z.after /\ z.before < 0
  <1>1. ~(z.at + Lower(z) < L /\ L < z.at + Higher(z))
        /\ (L = z.at + Lower(z) => Higher(z) - Lower(z) <= HourMinutes)
    BY NoHourInside
  <1> QED BY <1>1, ZoneType, Constants DEF Local, Date, Offset, Lower, Higher

-----------------------------------------------------------------------------
(* Parse. *)

(* A field that parses holds values of its range, and those its text means. *)
LEMMA FieldMeans ==
  ASSUME NEW parts \in SUBSET Part, NEW lo \in Int, NEW hi \in Int,
         parseField64(parts, lo, hi) # {}
  PROVE  /\ parseField64(parts, lo, hi) \subseteq lo..hi
         /\ \A v \in lo..hi : v \in parseField64(parts, lo, hi) <=> Means(parts, v, lo)
  <1>1. parseField64(parts, lo, hi) = UNION {parsePart64(p, lo, hi) : p \in parts}
    BY DEF parseField64
  <1>2. ASSUME NEW p \in parts
        PROVE  /\ parsePart64(p, lo, hi) # {} /\ parsePart64(p, lo, hi) \subseteq lo..hi
               /\ \A v \in lo..hi :
                    v \in parsePart64(p, lo, hi)
                      <=> /\ p.kind = "star" \/ v \in p.from..p.to
                          /\ p.step # NoStep
                               => (v - (IF p.kind = "star" THEN lo ELSE p.from)) % p.step = 0
    <2> DEFINE start == IF p.kind = "star" THEN lo ELSE p.from
               end == IF p.kind = "star" THEN hi ELSE p.to
               step == IF p.step = NoStep THEN 1 ELSE p.step
    <2>1. parsePart64(p, lo, hi) # {}
      BY <1>1 DEF parseField64
    <2>2. /\ step > 0 /\ lo <= start /\ end <= hi /\ start <= end
          /\ parsePart64(p, lo, hi) = {v \in start..end : (v - start) % step = 0}
          /\ start \in Int /\ end \in Int /\ step \in Int
      <3>1. p.from \in Int /\ p.to \in Int /\ p.step \in Int
        BY DEF Part
      <3>2. start \in Int /\ end \in Int /\ step \in Int
        BY <3>1
      <3> HIDE DEF start, end, step
      <3>3. ~(step <= 0 \/ start < lo \/ end > hi \/ start > end)
        BY <2>1 DEF parsePart64, start, end, step
      <3>4. parsePart64(p, lo, hi) = {v \in start..end : (v - start) % step = 0}
        BY <3>3 DEF parsePart64, start, end, step
      <3> QED BY <3>2, <3>3, <3>4
    <2>3. parsePart64(p, lo, hi) \subseteq lo..hi
      <3> HIDE DEF start, end, step
      <3> QED BY <2>2
    <2>4. ASSUME NEW v \in lo..hi
          PROVE  v \in parsePart64(p, lo, hi)
                   <=> /\ p.kind = "star" \/ v \in p.from..p.to
                       /\ p.step # NoStep => (v - start) % p.step = 0
      <3>1. v \in start..end <=> p.kind = "star" \/ v \in p.from..p.to
        OBVIOUS
      <3>2. (v - start) % step = 0 <=> (p.step # NoStep => (v - start) % p.step = 0)
        <4>1. CASE p.step = NoStep
          <5>1. v - start \in Int /\ step = 1
            BY <4>1, <2>2
          <5>2. \A k \in Int : (k % 1) = 0
            OBVIOUS
          <5> HIDE DEF start, step
          <5> QED BY <4>1, <5>1, <5>2
        <4>2. CASE p.step # NoStep
          BY <4>2
        <4> QED BY <4>1, <4>2
      <3> HIDE DEF start, end, step
      <3> QED BY <2>2, <3>1, <3>2
    <2> QED BY <2>1, <2>3, <2>4
  <1>3. parseField64(parts, lo, hi) \subseteq lo..hi
    BY <1>1, <1>2
  <1>4. ASSUME NEW v \in lo..hi
        PROVE  v \in parseField64(parts, lo, hi) <=> Means(parts, v, lo)
    BY <1>1, <1>2 DEF Means
  <1> QED BY <1>3, <1>4

(* The fields of a valid spec. *)
LEMMA ValidFields ==
  ASSUME NEW s \in Specs, Valid(s)
  PROVE  /\ s.minute \in SUBSET Part /\ s.hour \in SUBSET Part /\ s.dom \in SUBSET Part
         /\ s.month \in SUBSET Part /\ s.dow \in SUBSET Part
         /\ parseField64(s.minute, 0, HourMinutes - 1) # {}
         /\ parseField64(s.hour, 0, DayHours - 1) # {}
         /\ parseField64(s.dom, 1, LongestMonth) # {}
         /\ parseField64(s.month, 1, MonthsPerYear) # {}
         /\ parseField64({normaliseDOW(p) : p \in s.dow}, 0, WeekDays - 1) # {}
  <1>1. s \in Spec5
    BY ScheduleAssumption
  <1>2. /\ s.minute \in SUBSET Part /\ s.hour \in SUBSET Part /\ s.dom \in SUBSET Part
        /\ s.month \in SUBSET Part /\ s.dow \in SUBSET Part
    BY <1>1 DEF Spec5
  <1>3. /\ Parse(s)["minute"] # {} /\ Parse(s)["hour"] # {} /\ Parse(s)["dom"] # {}
        /\ Parse(s)["month"] # {} /\ Parse(s)["dow"] # {}
    BY DEF Valid
  <1> QED BY <1>2, <1>3 DEF Parse

(* A spec that ParseSchedule accepts has a month that can come. *)
LEMMA ValidSomeMonth ==
  ASSUME NEW s \in Specs, Valid(s)
  PROVE  SomeMonth(Parse(s))
  <1>1. Parse(s).month = parseField64(s.month, 1, MonthsPerYear)
    BY DEF Parse
  <1>2. parseField64(s.month, 1, MonthsPerYear) \subseteq 1..MonthsPerYear
    <2>1. s.month \in SUBSET Part /\ parseField64(s.month, 1, MonthsPerYear) # {}
      BY ValidFields
    <2>2. MonthsPerYear \in Int /\ 1 \in Int
      BY Constants
    <2> QED BY <2>1, <2>2, FieldMeans
  <1> QED BY <1>1, <1>2, ValidFields DEF SomeMonth

(* Wall-clock fields are in the range they are parsed for. *)
LEMMA ClockRanges ==
  ASSUME NEW local \in Int
  PROVE  /\ MinuteOf(local) \in 0..(HourMinutes - 1) /\ HourOf(local) \in 0..(DayHours - 1)
         /\ WeekdayOf(local) \in 0..(WeekDays - 1)
         /\ MonthOfYear(MonthOf(local)) \in 1..MonthsPerYear
         /\ LongestMonth \in Int /\ DayOfMonth(local) \in 1..LongestMonth
  <1>1. MinuteOf(local) \in 0..(HourMinutes - 1)
    BY Division, Constants DEF MinuteOf
  <1>2. HourOf(local) \in 0..(DayHours - 1)
    <2>1. local \div HourMinutes \in Int
      BY Division, Constants
    <2> QED BY <2>1, Division, Constants DEF HourOf
  <1>3. WeekdayOf(local) \in 0..(WeekDays - 1)
    BY MonthOfDay, Division, Constants DEF WeekdayOf
  <1>4. MonthOfYear(MonthOf(local)) \in 1..MonthsPerYear
    <2>1. (MonthOf(local) % MonthsPerYear) \in 0..(MonthsPerYear - 1)
      BY MonthOfDay, Division, Constants
    <2> QED BY <2>1, Constants DEF MonthOfYear
  <1> DEFINE S == {MonthDays[m] : m \in DOMAIN MonthDays}
  <1>5. /\ Max(S) \in S /\ S \in SUBSET Int /\ \A x \in S : x <= Max(S)
        /\ \A m \in 1..N : MonthDays[m] \in S
    <2>1. DOMAIN MonthDays = 1..N /\ 1 \in 1..N
      BY ScheduleAssumption DEF N
    <2>2. S \in SUBSET Int /\ S # {}
      BY <2>1, Constants
    <2>3. \A x \in S : x <= CycleDays
      <3>1. ASSUME NEW m \in 1..N PROVE MonthDays[m] <= CycleDays
        <4>1. m - 1 \in 0..(N - 1) /\ (m - 1) + 1 = m
          BY Constants
        <4>2. DaysBefore[m] = DaysBefore[m - 1] + MonthDays[m] /\ DaysBefore[m] \in Int
              /\ DaysBefore[m - 1] \in 0..(CycleDays - 1)
          BY <4>1, DaysBeforeStep, CycleDaysType, Constants
        <4>3. DaysBefore[m] <= CycleDays
          <5>1. CASE m = N
            BY <5>1, CycleDaysType
          <5>2. CASE m # N
            <6>1. m \in 0..(N - 1)
              BY <5>2, Constants
            <6> QED BY <6>1, CycleDaysType
          <5> QED BY <5>1, <5>2
        <4> QED BY <4>2, <4>3, Constants, CycleDaysType
      <3> QED BY <3>1, <2>1
    <2>4. CycleDays \in Int /\ \A m \in 1..N : MonthDays[m] \in S
      BY <2>1, CycleDaysType
    <2> HIDE DEF S
    <2> QED BY <2>2, <2>3, <2>4, MaxIsGreatest
  <1>6. LongestMonth = Max(S)
    BY DEF LongestMonth
  <1> HIDE DEF S
  <1>7. LongestMonth \in Int /\ \A m \in 1..N : MonthDays[m] \in Int /\ MonthDays[m] <= LongestMonth
    BY <1>5, <1>6
  <1>8. DayOfMonth(local) \in 1..LongestMonth
    <2> DEFINE M == MonthOf(local)
    <2>1. /\ DayOf(local) \in Int /\ M \in Int /\ MonthStart(M) \in Int
          /\ MonthStart(M) <= DayOf(local) /\ DayOf(local) < MonthStart(M + 1)
          /\ MonthStart(M + 1) = MonthStart(M) + MonthDays[(M % N) + 1]
      BY MonthOfDay, MonthStartStep
    <2>2. (M % N) + 1 \in 1..N
      <3>1. (M % N) \in 0..(N - 1)
        BY <2>1, Division, Constants
      <3> QED BY <3>1, Constants
    <2>3. MonthDays[(M % N) + 1] \in Int /\ MonthDays[(M % N) + 1] <= LongestMonth
      BY <1>7, <2>2
    <2>4. DayOfMonth(local) = DayOf(local) - MonthStart(M) + 1
      BY DEF DayOfMonth
    <2> HIDE DEF M
    <2> QED BY <1>7, <2>1, <2>3, <2>4
  <1> QED BY <1>1, <1>2, <1>3, <1>4, <1>7, <1>8

(* The days of a week whose range ends in "7" begin with Sunday. *)
SundayFirst(s) == \A p \in s.dow : p.kind = "range" /\ p.to = WeekDays => p.from = 0

(* What the text of the weekday field means, in Fires. *)
MeansWeekday(s, w) ==
  \/ Means(s.dow, w, 0)
  \/ w = 0 /\ Means(s.dow, WeekDays, 0) /\ s.dow # Every

(* normaliseDOW, field by field. *)
LEMMA NormalisedPart ==
  ASSUME NEW p \in Part
  PROVE  /\ normaliseDOW(p) \in Part
         /\ normaliseDOW(p).kind = p.kind /\ normaliseDOW(p).step = p.step
         /\ p.kind = "value" /\ p.from = WeekDays
              => normaliseDOW(p).from = 0 /\ normaliseDOW(p).to = 0
         /\ p.kind = "range" /\ p.to = WeekDays
              => normaliseDOW(p).from = p.from /\ normaliseDOW(p).to = WeekDays - 1
         /\ ~(p.kind = "value" /\ p.from = WeekDays) /\ ~(p.kind = "range" /\ p.to = WeekDays)
              => normaliseDOW(p) = p
  <1>1. /\ p.kind \in {"star", "value", "range"} /\ p.from \in Int /\ p.to \in Int
        /\ p.step \in Int /\ WeekDays - 1 \in Int
        /\ p = [kind |-> p.kind, from |-> p.from, to |-> p.to, step |-> p.step]
    BY Constants DEF Part
  <1>2. CASE p.kind = "value" /\ p.from = WeekDays
    <2>1. normaliseDOW(p) = [kind |-> p.kind, from |-> 0, to |-> 0, step |-> p.step]
      BY <1>1, <1>2 DEF normaliseDOW, Part
    <2> QED BY <1>1, <1>2, <2>1 DEF Part
  <1>3. CASE p.kind = "range" /\ p.to = WeekDays
    <2>1. normaliseDOW(p)
            = [kind |-> p.kind, from |-> p.from, to |-> WeekDays - 1, step |-> p.step]
      BY <1>1, <1>3 DEF normaliseDOW, Part
    <2> QED BY <1>1, <1>3, <2>1 DEF Part
  <1>4. CASE ~(p.kind = "value" /\ p.from = WeekDays) /\ ~(p.kind = "range" /\ p.to = WeekDays)
    <2>1. normaliseDOW(p) = p
      BY <1>4 DEF normaliseDOW
    <2> QED BY <1>4, <2>1
  <1> QED BY <1>2, <1>3, <1>4

(* A weekday that matches is meant; one that is meant matches, if the      *)
(* ranges that end in "7" begin with Sunday.                               *)
LEMMA WeekdayMeans ==
  ASSUME NEW s \in Specs, Valid(s), NEW w \in 0..(WeekDays - 1)
  PROVE  /\ w \in Parse(s).dow => MeansWeekday(s, w)
         /\ SundayFirst(s) /\ MeansWeekday(s, w) => w \in Parse(s).dow
  <1> DEFINE parts == {normaliseDOW(p) : p \in s.dow}
             In(p, v) == /\ p.kind = "star" \/ v \in p.from..p.to
                         /\ p.step # NoStep
                              => (v - (IF p.kind = "star" THEN 0 ELSE p.from)) % p.step = 0
  <1>1. /\ s.dow \in SUBSET Part /\ Parse(s).dow = parseField64(parts, 0, WeekDays - 1)
        /\ parts \in SUBSET Part /\ parseField64(parts, 0, WeekDays - 1) # {}
        /\ 0 \in Int /\ WeekDays - 1 \in Int
    <2>1. s.dow \in SUBSET Part /\ parseField64(parts, 0, WeekDays - 1) # {}
      BY ValidFields
    <2>2. parts \in SUBSET Part
      BY <2>1, NormalisedPart
    <2>3. Parse(s).dow = parseField64(parts, 0, WeekDays - 1)
      BY DEF Parse
    <2> HIDE DEF parts
    <2> QED BY <2>1, <2>2, <2>3, Constants
  <1>2. w \in Parse(s).dow <=> \E p \in s.dow : In(normaliseDOW(p), w)
    <2>1. w \in Parse(s).dow <=> Means(parts, w, 0)
      <3> HIDE DEF parts
      <3> QED BY <1>1, FieldMeans
    <2>2. Means(parts, w, 0) <=> \E q \in parts : In(q, w)
      BY DEF Means
    <2> QED BY <2>1, <2>2
  <1>3. \A v : Means(s.dow, v, 0) <=> \E p \in s.dow : In(p, v)
    BY DEF Means
  <1>4. ASSUME NEW p \in s.dow
        PROVE  /\ p \in Part /\ p.step \in Int /\ (p.step # NoStep => p.step > 0)
               /\ (p.kind = "value" => p.from = p.to)
               /\ (p.kind = "star" \/ p.from >= 0)
               /\ (p.kind = "range" => p.from \in Int /\ p.to \in Int)
    <2>1. p \in Part /\ (p.kind = "value" => p.from = p.to)
      <3>1. "dow" \in DOMAIN s /\ s.dow = s["dow"]
        BY ScheduleAssumption DEF Spec5
      <3> QED BY <1>1, <3>1, ScheduleAssumption
    <2>2. parsePart64(normaliseDOW(p), 0, WeekDays - 1) # {}
      <3>1. normaliseDOW(p) \in parts
        OBVIOUS
      <3> HIDE DEF parts
      <3> QED BY <1>1, <3>1 DEF parseField64
    <2>3. /\ normaliseDOW(p).step = p.step /\ normaliseDOW(p).kind = p.kind
          /\ (p.kind = "range" => normaliseDOW(p).from = p.from)
          /\ (p.kind = "value" => normaliseDOW(p).from = p.from \/ p.from = WeekDays)
      BY <2>1, NormalisedPart
    <2>4. p.step \in Int /\ (p.step # NoStep => p.step > 0)
      BY <2>1, <2>2, <2>3 DEF parsePart64, Part, NoStep
    <2>5. p.kind = "star" \/ p.from >= 0
      <3>1. normaliseDOW(p).kind = "star" \/ ~(normaliseDOW(p).from < 0)
        BY <2>2 DEF parsePart64
      <3> QED BY <2>1, <2>3, <3>1, Constants DEF Part
    <2> QED BY <2>1, <2>4, <2>5 DEF Part
  <1>5. \A k \in Int : k > 0 => (0 % k) = 0
    OBVIOUS
  <1> HIDE DEF In, parts
  <1>6. ASSUME NEW p \in s.dow, In(normaliseDOW(p), w) PROVE MeansWeekday(s, w)
    <2>1. CASE p.kind = "value" /\ p.from = WeekDays
      <3>1. normaliseDOW(p).kind # "star" /\ normaliseDOW(p).from = 0 /\ normaliseDOW(p).to = 0
        BY <1>4, <2>1, NormalisedPart
      <3>2. w = 0
        <4>1. w \in 0..0
          BY <1>6, <3>1 DEF In
        <4> QED BY <4>1
      <3>3. In(p, WeekDays)
        <4>1. p.to = WeekDays /\ p.kind # "star" /\ WeekDays - p.from = 0 /\ WeekDays \in p.from..p.to
          BY <1>4, <2>1, Constants
        <4> QED BY <4>1, <1>4, <1>5 DEF In
      <3>4. s.dow # Every
        BY <2>1 DEF Every
      <3> QED BY <1>3, <3>2, <3>3, <3>4 DEF MeansWeekday
    <2>2. CASE p.kind = "range" /\ p.to = WeekDays
      <3>1. /\ normaliseDOW(p).kind = "range" /\ normaliseDOW(p).from = p.from
            /\ normaliseDOW(p).to = WeekDays - 1 /\ normaliseDOW(p).step = p.step
        BY <1>4, <2>2, NormalisedPart
      <3>2. w \in p.from..(WeekDays - 1) /\ (p.step # NoStep => (w - p.from) % p.step = 0)
        BY <1>6, <3>1 DEF In
      <3>3. w \in p.from..p.to
        BY <1>4, <2>2, <3>2, Constants
      <3>4. In(p, w)
        BY <2>2, <3>2, <3>3 DEF In
      <3>5. Means(s.dow, w, 0)
        BY <1>3, <3>4
      <3> QED BY <3>5 DEF MeansWeekday
    <2>3. CASE normaliseDOW(p) = p
      <3>1. In(p, w)
        BY <1>6, <2>3
      <3>2. Means(s.dow, w, 0)
        BY <1>3, <3>1
      <3> QED BY <3>2 DEF MeansWeekday
    <2> QED BY <2>1, <2>2, <2>3 DEF normaliseDOW
  <1>7. ASSUME NEW p \in s.dow, In(p, w) PROVE In(normaliseDOW(p), w)
    <2>1. CASE p.kind = "value" /\ p.from = WeekDays
      BY <1>4, <1>7, <2>1, Constants DEF In
    <2>2. CASE p.kind = "range" /\ p.to = WeekDays
      <3>1. /\ normaliseDOW(p).kind = "range" /\ normaliseDOW(p).from = p.from
            /\ normaliseDOW(p).to = WeekDays - 1 /\ normaliseDOW(p).step = p.step
        BY <1>4, <2>2, NormalisedPart
      <3>2. w \in p.from..p.to /\ (p.step # NoStep => (w - p.from) % p.step = 0)
        BY <1>7, <2>2 DEF In
      <3>3. w \in p.from..(WeekDays - 1)
        BY <1>4, <2>2, <3>2, Constants
      <3> QED BY <3>1, <3>2, <3>3 DEF In
    <2>3. CASE normaliseDOW(p) = p
      BY <1>7, <2>3
    <2> QED BY <2>1, <2>2, <2>3 DEF normaliseDOW
  <1>8. ASSUME SundayFirst(s), w = 0, NEW p \in s.dow, In(p, WeekDays)
        PROVE  \E q \in s.dow : In(normaliseDOW(q), w)
    <2>1. CASE p.kind = "star"
      <3>1. normaliseDOW(p) = p
        BY <2>1 DEF normaliseDOW
      <3>2. w - 0 = 0
        BY <1>8
      <3> QED BY <1>4, <1>5, <1>8, <2>1, <3>1, <3>2 DEF In
    <2>2. CASE p.kind = "value"
      <3>1. p.from = WeekDays
        BY <1>4, <1>8, <2>2, Constants DEF In, Part
      <3>2. /\ normaliseDOW(p).kind = "value" /\ normaliseDOW(p).step = p.step
            /\ normaliseDOW(p).from = 0 /\ normaliseDOW(p).to = 0
        BY <1>4, <2>2, <3>1, NormalisedPart
      <3>3. In(normaliseDOW(p), w)
        <4>1. w - 0 = 0 /\ w \in 0..0
          BY <1>8
        <4> QED BY <1>4, <1>5, <3>2, <4>1 DEF In
      <3> QED BY <3>3
    <2>3. CASE p.kind = "range"
      <3>1. parsePart64(normaliseDOW(p), 0, WeekDays - 1) # {}
        BY <1>1 DEF parseField64, parts
      <3>2. p.to = WeekDays
        <4>1. WeekDays <= p.to /\ p.to \in Int
          BY <1>4, <1>8, <2>3, Constants DEF In, Part
        <4>2. p.to # WeekDays => normaliseDOW(p) = p
          BY <2>3 DEF normaliseDOW
        <4>3. p.to # WeekDays => ~(p.to > WeekDays - 1)
          BY <2>3, <3>1, <4>2 DEF parsePart64
        <4> QED BY <4>1, <4>3, Constants
      <3>3. p.from = 0
        BY <1>8, <2>3, <3>2 DEF SundayFirst
      <3>4. /\ normaliseDOW(p).kind = "range" /\ normaliseDOW(p).from = 0
            /\ normaliseDOW(p).to = WeekDays - 1 /\ normaliseDOW(p).step = p.step
        BY <1>4, <2>3, <3>2, <3>3, NormalisedPart
      <3>5. In(normaliseDOW(p), w)
        <4>1. w - 0 = 0 /\ w \in 0..(WeekDays - 1)
          BY <1>8
        <4> QED BY <1>4, <1>5, <3>4, <4>1 DEF In
      <3> QED BY <3>5
    <2> QED BY <1>4, <2>1, <2>2, <2>3 DEF Part
  <1> QED BY <1>2, <1>3, <1>6, <1>7, <1>8 DEF MeansWeekday

-----------------------------------------------------------------------------
(* The search in terms of Matches. *)

Sane == spec \in Specs /\ Valid(spec) /\ sched = Parse(spec) /\ zone \in Zones /\ t \in Int

(* What Sane says of the zone, the schedule and the minute. *)
LEMMA ZoneOfSane ==
  ASSUME Sane
  PROVE  zone \in Zone /\ SomeMonth(sched) /\ Here \in Int
  <1>1. zone \in Zone
    BY ScheduleAssumption DEF Sane
  <1> QED BY <1>1, ValidSomeMonth, LocalType DEF Sane, Here

(* The sets Parse builds are what the spec means. *)
LEMMA FiresIsMatches ==
  ASSUME Sane, NEW x \in Int
  PROVE  /\ Matches(sched, Local(zone, x)) => Fires(x)
         /\ SundayFirst(spec) /\ Fires(x) => Matches(sched, Local(zone, x))
  <1> DEFINE L == Local(zone, x)
  <1>1. L \in Int
    BY ZoneOfSane, LocalType
  <1> HIDE DEF L
  <1>2. spec \in Specs /\ Valid(spec) /\ sched = Parse(spec)
    BY DEF Sane
  <1>3. MinuteOf(L) \in sched.minute <=> Means(spec.minute, MinuteOf(L), 0)
    <2>1. sched.minute = parseField64(spec.minute, 0, HourMinutes - 1) /\ HourMinutes - 1 \in Int
      BY <1>2, Constants DEF Parse
    <2>2. MinuteOf(L) \in 0..(HourMinutes - 1)
      BY <1>1, ClockRanges
    <2> QED BY <1>2, <2>1, <2>2, ValidFields, FieldMeans
  <1>4. HourMatches(sched, L) <=> Means(spec.hour, HourOf(L), 0)
    <2>1. sched.hour = parseField64(spec.hour, 0, DayHours - 1) /\ DayHours - 1 \in Int
      BY <1>2, Constants DEF Parse
    <2>2. HourOf(L) \in 0..(DayHours - 1)
      BY <1>1, ClockRanges
    <2> QED BY <1>2, <2>1, <2>2, ValidFields, FieldMeans DEF HourMatches
  <1>5. MonthMatches(sched, L) <=> Means(spec.month, MonthOfYear(MonthOf(L)), 1)
    <2>1. sched.month = parseField64(spec.month, 1, MonthsPerYear) /\ MonthsPerYear \in Int
      BY <1>2, Constants DEF Parse
    <2>2. MonthOfYear(MonthOf(L)) \in 1..MonthsPerYear
      BY <1>1, ClockRanges
    <2> QED BY <1>2, <2>1, <2>2, ValidFields, FieldMeans DEF MonthMatches
  <1>6. DayOfMonth(L) \in sched.dom <=> Means(spec.dom, DayOfMonth(L), 1)
    <2>1. sched.dom = parseField64(spec.dom, 1, LongestMonth)
      BY <1>2 DEF Parse
    <2>2. DayOfMonth(L) \in 1..LongestMonth /\ LongestMonth \in Int
      BY <1>1, ClockRanges
    <2> QED BY <1>2, <2>1, <2>2, ValidFields, FieldMeans
  <1>7. /\ WeekdayOf(L) \in sched.dow => MeansWeekday(spec, WeekdayOf(L))
        /\ SundayFirst(spec) /\ MeansWeekday(spec, WeekdayOf(L)) => WeekdayOf(L) \in sched.dow
    BY <1>1, <1>2, ClockRanges, WeekdayMeans
  <1>8. /\ sched.wildcardDOM <=> spec.dom = Every
        /\ sched.wildcardDOW <=> spec.dow = Every
    BY <1>2 DEF Parse
  <1>9. \A v, lo : Means(Every, v, lo)
    BY DEF Means, Every
  <1> DEFINE dom == Means(spec.dom, DayOfMonth(L), 1)
             dow == \/ Means(spec.dow, WeekdayOf(L), 0)
                    \/ WeekdayOf(L) = 0 /\ Means(spec.dow, WeekDays, 0) /\ spec.dow # Every
             day == IF spec.dom = Every \/ spec.dow = Every THEN dom /\ dow ELSE dom \/ dow
  <1>10. /\ DayMatches(sched, L) => day
         /\ SundayFirst(spec) /\ day => DayMatches(sched, L)
    <2>1. dow <=> MeansWeekday(spec, WeekdayOf(L))
      BY DEF MeansWeekday
    <2>2. /\ spec.dom = Every => dom
          /\ spec.dow = Every => dow
      BY <1>9
    <2> HIDE DEF dom, dow
    <2>3. /\ DayOfMonth(L) \in sched.dom <=> dom
          /\ WeekdayOf(L) \in sched.dow => dow
          /\ SundayFirst(spec) /\ dow => WeekdayOf(L) \in sched.dow
      BY <1>6, <1>7, <2>1 DEF dom
    <2> QED BY <1>8, <2>2, <2>3 DEF DayMatches
  <1>11. Fires(x) <=> /\ Means(spec.minute, MinuteOf(L), 0) /\ Means(spec.hour, HourOf(L), 0)
                      /\ Means(spec.month, MonthOfYear(MonthOf(L)), 1) /\ day
    BY DEF Fires, L
  <1> HIDE DEF day
  <1>12. /\ Matches(sched, L) => Fires(x)
         /\ SundayFirst(spec) /\ Fires(x) => Matches(sched, L)
    BY <1>3, <1>4, <1>5, <1>10, <1>11 DEF Matches, Open
  <1> QED BY <1>12 DEF L

(* The three tests of the loop, in the terms of these proofs. *)
LEMMA OpenIsOK ==
  /\ MonthOK <=> MonthMatches(sched, Here)
  /\ DayOK <=> DayMatches(sched, Here)
  /\ HourOK <=> HourMatches(sched, Here)
  /\ ValidMonths = MonthsAhead(sched, MonthOf(Here))
  BY DEF MonthOK, DayOK, HourOK, ValidMonths, MonthMatches, DayMatches, HourMatches, MonthsAhead

(* A minute forward, or a jump to the aim of the search. *)
Jump ==
  /\ state = "search" /\ i < MaxIterations /\ i' = i + 1
  /\ UNCHANGED <<searchVars, state>>
  /\ ~Open(sched, Here) /\ t' = Date(zone, TargetOf(sched, Here))

(* Each of the loop's three skips jumps to the aim of the search. *)
LEMMA SkipIsJump ==
  ASSUME SkipMonth \/ SkipDay \/ SkipHour
  PROVE  Jump
  <1>1. CASE SkipMonth
    <2>1. t' = Date(zone, MonthStart(Min(ValidMonths)) * DayMinutes)
      BY <1>1 DEF SkipMonth, nextValidMonth
    <2> QED BY <1>1, <2>1, OpenIsOK DEF SkipMonth, Iterating, Jump, Open, TargetOf
  <1>2. CASE SkipDay
    BY <1>2, OpenIsOK DEF SkipDay, nextDay, Iterating, Jump, Open, TargetOf
  <1>3. CASE SkipHour
    BY <1>3, OpenIsOK DEF SkipHour, nextHour, Iterating, Jump, Open, TargetOf
  <1> QED BY <1>1, <1>2, <1>3

-----------------------------------------------------------------------------
(* What a jump passes. *)

(* Ahead, of a candidate u. *)
AheadOf(z, u, x) ==
  \E again \in u..(x + Max({z.before - z.after, 0})) : Local(z, again) = Local(z, x)

(* AheadOf, without the maximum. *)
LEMMA AheadWithin ==
  ASSUME NEW z \in Zone, NEW u \in Int, NEW x \in Int
  PROVE  AheadOf(z, u, x)
           <=> \E y \in Int : /\ u <= y /\ (y <= x \/ y <= x + (z.before - z.after))
                              /\ Local(z, y) = Local(z, x)
  <1> DEFINE d == z.before - z.after
             M == Max({d, 0})
  <1>1. d \in Int
    BY ZoneType
  <1>2. M \in {d, 0} /\ d <= M /\ 0 <= M
    <2>1. \E b \in Int : d <= b /\ 0 <= b
      <3>1. d <= 0 \/ 0 <= d
        BY <1>1
      <3> QED BY <1>1, <3>1
    <2> HIDE DEF d
    <2> QED BY <1>1, <2>1, MaxIsGreatest
  <1>3. AheadOf(z, u, x) <=> \E y \in u..(x + M) : Local(z, y) = Local(z, x)
    BY DEF AheadOf
  <1> HIDE DEF d, M
  <1>4. ASSUME NEW y \in Int
        PROVE  y \in u..(x + M) <=> u <= y /\ (y <= x \/ y <= x + d)
    BY <1>1, <1>2
  <1>5. u..(x + M) \subseteq Int
    OBVIOUS
  <1> QED BY <1>3, <1>4, <1>5 DEF d

(* A match that a jump passes is shown again. *)
LEMMA JumpSkipsNothing ==
  ASSUME NEW sc, SomeMonth(sc), NEW z \in Zone, CleanChange(z), NEW u \in Int,
         ~Open(sc, Local(z, u)),
         NEW x \in Int, Matches(sc, Local(z, x)), u <= x \/ AheadOf(z, u, x),
         x < Date(z, TargetOf(sc, Local(z, u)))
  PROVE  AheadOf(z, Date(z, TargetOf(sc, Local(z, u))), x)
  <1> DEFINE L == TargetOf(sc, Local(z, u))
             v == Date(z, L)
             d == z.before - z.after
  <1>1. PICK h \in Int : L = h * HourMinutes
    BY LocalType, TargetSkips
  <1>2. L \in Int /\ v \in Int /\ d \in Int
    BY LocalType, TargetSkips, ZoneType
  <1>3. ASSUME NEW y \in Int, u <= y, y < v, Matches(sc, Local(z, y))
        PROVE  y < z.at /\ 0 < d /\ v <= y + d /\ Local(z, y + d) = Local(z, y)
    <2>1. (Local(z, u) \div HourMinutes) * HourMinutes <= Local(z, y)
      BY <1>3, LocalStaysInHour
    <2>2. ~(Local(z, y) < L)
      BY <1>3, <2>1, LocalType, TargetSkips
    <2>3. L <= Local(z, y)
      BY <1>2, <2>2, LocalType
    <2> HIDE DEF L
    <2>4. y < z.at /\ z.after < z.before /\ v <= y + d /\ Local(z, y + d) = Local(z, y)
      BY <1>1, <1>2, <1>3, <2>3, PassedOrAgain
    <2> QED BY <2>4, ZoneType
  <1> HIDE DEF v, L
  <1> SUFFICES \E y \in Int : v <= y /\ (y <= x \/ y <= x + d) /\ Local(z, y) = Local(z, x)
    BY <1>2, AheadWithin DEF v, L
  <1>4. x < v
    BY DEF v, L
  <1>5. CASE u <= x
    <2>1. v <= x + d /\ Local(z, x + d) = Local(z, x) /\ x + d \in Int
      BY <1>2, <1>3, <1>4, <1>5
    <2> QED BY <2>1
  <1>6. CASE x < u
    <2>1. PICK y \in Int : /\ u <= y /\ (y <= x \/ y <= x + d)
                           /\ Local(z, y) = Local(z, x)
      BY <1>6, AheadWithin
    <2>2. y < v => FALSE
      <3> SUFFICES ASSUME y < v PROVE FALSE
        OBVIOUS
      <3>1. y < z.at
        BY <1>3, <2>1
      <3>2. x < y /\ x < z.at
        BY <1>6, <2>1, <3>1, ZoneType
      <3> QED BY <2>1, <3>1, <3>2, ZoneType DEF Local, Offset
    <2>3. v <= y
      BY <1>2, <2>2
    <2> QED BY <2>1, <2>3
  <1> QED BY <1>5, <1>6

-----------------------------------------------------------------------------
(* The type invariant.                                                     *)

(* A spec that parses has a valid month, so that only the cap stops the    *)
(* search.                                                                 *)
TypeInv ==
  /\ TypeOK /\ Valid(spec)
  /\ state = "stopped" => i = MaxIterations

(* The invariant has the search in a sane state. *)
LEMMA TypeInvSane ==
  ASSUME TypeInv
  PROVE  Sane
  BY DEF TypeInv, TypeOK, Sane

(* The constants, as ScheduleAssumption types them. *)
LEMMA ConstantBounds ==
  /\ MaxIterations \in Nat \ {0} /\ MaxNow \in Nat /\ MaxLate \in Nat
  /\ Specs \subseteq Spec5 /\ Zones \subseteq Zone
  BY ScheduleAssumption

(* The type invariant, at the start. *)
LEMMA TypeInvInit == Init => TypeInv
  BY ConstantBounds DEF Init, TypeInv, TypeOK

(* Time passes up to the bounds. *)
LEMMA TickBound ==
  ASSUME t \in Int, now < Min({MaxNow, t + MaxLate}), now \in Int
  PROVE  now < MaxNow
  <1> DEFINE m == Min({MaxNow, t + MaxLate})
  <1>1. MaxNow \in Int /\ t + MaxLate \in Int
    BY ConstantBounds
  <1>2. m \in {MaxNow, t + MaxLate} /\ m <= MaxNow
    <2>1. \E b \in Int : b <= MaxNow /\ b <= t + MaxLate
      <3>1. MaxNow <= t + MaxLate \/ t + MaxLate <= MaxNow
        BY <1>1
      <3> QED BY <1>1, <3>1
    <2> QED BY <1>1, <2>1, MinIsLeast
  <1> HIDE DEF m
  <1>3. now < m
    BY DEF m
  <1> QED BY <1>1, <1>2, <1>3

(* The type invariant, over a step. *)
LEMMA TypeInvStep ==
  ASSUME TypeInv, [Next]_vars
  PROVE  TypeInv'
  <1> USE ConstantBounds
  <1>1. Sane /\ zone \in Zone /\ Here \in Int /\ SomeMonth(sched)
    BY TypeInvSane, ZoneOfSane
  <1>2. ASSUME Jump PROVE TypeInv'
    <2>1. t' \in Int
      <3>1. TargetOf(sched, Here) \in Int
        BY <1>1, <1>2, TargetSkips DEF Jump
      <3> QED BY <1>1, <1>2, <3>1, LocalType DEF Jump
    <2> QED BY <1>2, <2>1 DEF Jump, searchVars, schedVars, TypeInv, TypeOK
  <1>3. CASE SkipMonth \/ SkipDay \/ SkipHour
    BY <1>2, <1>3, SkipIsJump
  <1>4. CASE SkipMinute
    BY <1>4 DEF SkipMinute, Iterating, searchVars, schedVars, TypeInv, TypeOK
  <1>5. CASE Found
    BY <1>5 DEF Found, Iterating, searchVars, schedVars, TypeInv, TypeOK
  <1>6. CASE NotFound
    <2>1. ValidMonths # {}
      <3>1. MonthOf(Here) \in Int
        BY <1>1, MonthOfDay
      <3> QED BY <1>1, <3>1, MonthAheadExists, OpenIsOK
    <2> QED BY <1>6, <2>1 DEF NotFound, searchVars, schedVars, TypeInv, TypeOK
  <1>7. CASE Tick
    <2>1. now < MaxNow
      BY <1>7, TickBound DEF Tick, TypeInv, TypeOK
    <2> QED BY <1>7, <2>1 DEF Tick, schedVars, TypeInv, TypeOK
  <1>8. CASE Fire
    BY <1>8 DEF Fire, Search, schedVars, TypeInv, TypeOK
  <1>9. CASE Cancel
    BY <1>9 DEF Cancel, schedVars, TypeInv, TypeOK
  <1>10. CASE UNCHANGED vars
    BY <1>10 DEF vars, schedVars, TypeInv, TypeOK
  <1> QED BY <1>3, <1>4, <1>5, <1>6, <1>7, <1>8, <1>9, <1>10 DEF Next

(* TypeOK: the search stays within its cap, whatever the spec, the zone    *)
(* and the calendar.                                                       *)
THEOREM ScheduleTypeCorrect == Spec => []TypeOK
  <1>1. Spec => []TypeInv
    BY TypeInvInit, TypeInvStep, PTL DEF Spec
  <1>2. TypeInv => TypeOK
    BY DEF TypeInv
  <1> QED BY <1>1, <1>2, PTL

-----------------------------------------------------------------------------
(* The minute it waits for.                                                *)

(* What the theorems assume of the zones and the specs: a change of offset *)
(* leaves out, or repeats, nothing that spans two hours; weekday ranges    *)
(* that end in "7" begin with Sunday.                                      *)
CleanZones == \A z \in Zones : CleanChange(z)
SundaysFirst == \A s \in Specs : SundayFirst(s)

(* The search stands still in front of an hour that does not exist. *)
Stuck == ~Open(sched, Here) /\ Date(zone, TargetOf(sched, Here)) = t

(* Its candidate is later than its argument, or stands still. *)
SearchInv ==
  /\ t > after \/ Stuck
  /\ state = "wait" => Matches(sched, Here)
  /\ fired <= after

(* The search's invariant, at the start. *)
LEMMA SearchInvInit == Init => SearchInv
  BY ConstantBounds DEF Init, SearchInv

(* The search's invariant, over a jump to the next month, day or hour. *)
LEMMA JumpKeepsSearchInv ==
  ASSUME CleanZones, TypeInv, SearchInv, Jump
  PROVE  SearchInv'
  <1> DEFINE L == TargetOf(sched, Here)
  <1>1. Sane /\ zone \in Zone /\ Here \in Int /\ SomeMonth(sched) /\ CleanChange(zone)
    BY TypeInvSane, ZoneOfSane DEF CleanZones, Sane
  <1>2. /\ L \in Int /\ Here < L /\ ~Open(sched, Here) /\ t' = Date(zone, L)
        /\ zone' = zone /\ sched' = sched /\ after' = after /\ fired' = fired
        /\ state' = "search"
    BY <1>1, TargetSkips DEF Jump, searchVars, schedVars
  <1>3. PICK h \in Int : L = h * HourMinutes
    BY <1>1, <1>2, TargetSkips
  <1>4. t \in Int /\ t' \in Int /\ after \in Int
    BY <1>1, <1>2, LocalType, ConstantBounds DEF TypeInv, TypeOK
  <1>5. ASSUME NEW x \in Int, x = Local(zone, t'), ~Open(sched, x), TargetOf(sched, x) = L
        PROVE  Stuck'
    <2>1. Here' = x
      BY <1>2, <1>5 DEF Here
    <2> QED BY <1>2, <1>5, <2>1 DEF Stuck
  <1>6. (t' > after') \/ Stuck'
    <2>1. CASE L - HourMinutes <= Local(zone, t') /\ Local(zone, t') < L
      BY <1>1, <1>2, <1>4, <1>5, <2>1, LocalType, TargetStable
    <2>2. CASE t < t' /\ t > after
      BY <1>2, <1>4, <2>2
    <2>3. CASE Stuck
      <3>1. t' = t
        BY <1>2, <2>3 DEF Stuck
      <3>2. Here' = Here
        BY <1>2, <3>1 DEF Here
      <3> QED BY <1>2, <2>3, <3>1, <3>2 DEF Stuck
    <2>4. \/ t < t'
          \/ L - HourMinutes <= Local(zone, t') /\ Local(zone, t') < L
      <3> HIDE DEF L
      <3> QED BY <1>1, <1>2, <1>3, <1>4, ForwardOrStuck DEF Here
    <2> QED BY <2>1, <2>2, <2>3, <2>4 DEF SearchInv
  <1> QED BY <1>2, <1>6 DEF SearchInv

(* Where all of Next's tests pass, the spec fires. *)
LEMMA FoundMatches ==
  ASSUME MonthOK, DayOK, HourOK
  PROVE  Open(sched, Here) /\ (MinuteOK <=> Matches(sched, Here))
  BY OpenIsOK DEF Open, Matches, MinuteOK

(* The search's invariant, over a step. *)
LEMMA SearchInvStep ==
  ASSUME CleanZones, TypeInv, SearchInv, [Next]_vars
  PROVE  SearchInv'
  <1>1. t \in Int /\ after \in Int /\ now \in Int /\ fired \in Int
    BY ConstantBounds DEF TypeInv, TypeOK
  <1>2. ASSUME UNCHANGED <<schedVars, after, t, fired>> PROVE
          /\ Here' = Here /\ sched' = sched /\ (Stuck' <=> Stuck)
    <2>1. Here' = Here /\ sched' = sched /\ zone' = zone /\ t' = t
      BY <1>2 DEF Here, schedVars
    <2> QED BY <2>1 DEF Stuck
  <1>3. CASE SkipMonth \/ SkipDay \/ SkipHour
    BY <1>3, SkipIsJump, JumpKeepsSearchInv
  <1>4. CASE SkipMinute
    <2>1. ~Stuck
      BY <1>4, FoundMatches DEF SkipMinute, Stuck
    <2> QED BY <1>1, <1>4, <2>1 DEF SkipMinute, Iterating, searchVars, SearchInv
  <1>5. CASE Found
    <2>1. Matches(sched, Here)
      BY <1>5, FoundMatches DEF Found
    <2>2. UNCHANGED <<schedVars, after, t, fired>>
      BY <1>5 DEF Found, searchVars
    <2> QED BY <1>2, <2>1, <2>2 DEF SearchInv
  <1>6. CASE NotFound
    <2>1. UNCHANGED <<schedVars, after, t, fired>> /\ state' # "wait"
      BY <1>6 DEF NotFound, searchVars
    <2> QED BY <1>2, <2>1 DEF SearchInv
  <1>7. CASE Tick
    <2>1. UNCHANGED <<schedVars, after, t, fired>> /\ state' = state
      BY <1>7 DEF Tick
    <2> QED BY <1>2, <2>1 DEF SearchInv
  <1>8. CASE Fire
    BY <1>1, <1>8 DEF Fire, Search, SearchInv
  <1>9. CASE Cancel
    <2>1. UNCHANGED <<schedVars, after, t, fired>> /\ state' # "wait"
      BY <1>9 DEF Cancel
    <2> QED BY <1>2, <2>1 DEF SearchInv
  <1>10. CASE UNCHANGED vars
    <2>1. UNCHANGED <<schedVars, after, t, fired>> /\ state' = state
      BY <1>10 DEF vars
    <2> QED BY <1>2, <2>1 DEF SearchInv
  <1> QED BY <1>3, <1>4, <1>5, <1>6, <1>7, <1>8, <1>9, <1>10 DEF Next

(* RestartsOnSchedule: no restart in a minute at which the spec does not   *)
(* fire, none early, and none twice for one minute, also around a change   *)
(* of offset: the instant moves on although the wall clock goes back.      *)
THEOREM RestartsAreScheduled ==
  ASSUME CleanZones
  PROVE  Spec => RestartsOnSchedule
  <1> DEFINE OnSchedule ==
        state = "wait" /\ state' = "search" => Fires(t) /\ now >= t /\ t > fired
  <1>1. ASSUME TypeInv, SearchInv, [Next]_vars PROVE [OnSchedule]_vars
    <2> SUFFICES ASSUME state = "wait", state' = "search", Next PROVE OnSchedule
      BY <1>1
    <2>1. Fire
      BY DEF Next, SkipMonth, SkipDay, SkipHour, SkipMinute, Found, NotFound, Tick, Cancel,
             Iterating
    <2>2. Matches(sched, Here) /\ t > after /\ fired <= after
      BY <1>1 DEF SearchInv, Stuck, Matches
    <2>3. Fires(t)
      <3>1. Sane
        BY <1>1, TypeInvSane
      <3> QED BY <2>2, <3>1, FiresIsMatches DEF Here, Sane
    <2>4. t > fired
      BY <1>1, <2>2, ConstantBounds DEF TypeInv, TypeOK
    <2> QED BY <2>1, <2>3, <2>4 DEF Fire
  <1>2. Spec => []TypeInv
    BY TypeInvInit, TypeInvStep, PTL DEF Spec
  <1>3. Spec => []SearchInv
    BY <1>2, SearchInvInit, SearchInvStep, PTL DEF Spec
  <1> QED BY <1>1, <1>2, <1>3, PTL DEF Spec, RestartsOnSchedule

-----------------------------------------------------------------------------
(* What the search passes. *)

(* NothingSkipped is inductive together with TypeInv: what a jump passes   *)
(* does not match or is Ahead, and what was Ahead stays so.                *)
LEMMA NothingSkippedStep ==
  ASSUME CleanZones, SundaysFirst, TypeInv, NothingSkipped, [Next]_vars
  PROVE  NothingSkipped'
  <1>1. /\ Sane /\ zone \in Zone /\ Here \in Int /\ SomeMonth(sched) /\ CleanChange(zone)
        /\ SundayFirst(spec)
    BY TypeInvSane, ZoneOfSane DEF CleanZones, SundaysFirst, Sane
  <1>2. t \in Int /\ after \in Int /\ now \in Int
    BY ConstantBounds DEF TypeInv, TypeOK
  <1>3. \A x \in Int : Ahead(x) <=> AheadOf(zone, t, x)
    BY DEF Ahead, AheadOf
  <1>4. ASSUME UNCHANGED schedVars
        PROVE  \A x \in Int : (Fires(x)' <=> Fires(x)) /\ (Ahead(x)' <=> AheadOf(zone, t', x))
    BY <1>4 DEF schedVars, Fires, Ahead, AheadOf
  <1>5. ASSUME NEW x \in Int, x \in (after + 1)..(t - 1), Fires(x)
        PROVE  Matches(sched, Local(zone, x)) /\ AheadOf(zone, t, x)
    BY <1>1, <1>3, <1>5, FiresIsMatches DEF NothingSkipped
  <1>6. ASSUME UNCHANGED <<schedVars, after>>, t' \in Int,
               \A x \in Int :
                 Matches(sched, Local(zone, x)) /\ x < t' /\ (t <= x \/ AheadOf(zone, t, x))
                   => AheadOf(zone, t', x)
        PROVE  NothingSkipped'
    <2>0. /\ \A x \in Int : (Fires(x)' <=> Fires(x)) /\ (Ahead(x)' <=> AheadOf(zone, t', x))
          /\ after' = after
      <3>1. UNCHANGED schedVars /\ after' = after
        BY <1>6
      <3> QED BY <3>1, <1>4
    <2>1. ASSUME NEW x \in Int, after + 1 <= x, x < t', Fires(x)
          PROVE  AheadOf(zone, t', x)
      <3>1. Matches(sched, Local(zone, x))
        BY <1>1, <2>1, FiresIsMatches
      <3>2. t <= x \/ AheadOf(zone, t, x)
        BY <1>2, <1>5, <2>1
      <3> QED BY <1>6, <2>1, <3>1, <3>2
    <2>2. ASSUME NEW x, x \in (after' + 1)..(t' - 1), Fires(x)' PROVE Ahead(x)'
      <3>0. t' \in Int /\ after \in Int /\ after' = after
        BY <1>2, <1>6
      <3>1. x \in Int /\ after + 1 <= x /\ x < t'
        <4>1. x \in (after + 1)..(t' - 1)
          BY <2>2, <3>0
        <4> DEFINE u == t'
        <4>2. x \in (after + 1)..(u - 1) /\ u \in Int
          BY <3>0, <4>1
        <4> HIDE DEF u
        <4>3. x \in Int /\ after + 1 <= x /\ x < u
          BY <3>0, <4>2
        <4> QED BY <4>3 DEF u
      <3>2. Fires(x)
        BY <2>0, <2>2, <3>1
      <3>3. AheadOf(zone, t', x)
        BY <2>1, <3>1, <3>2
      <3> QED BY <2>0, <3>1, <3>3
    <2> QED BY <2>2 DEF NothingSkipped
  <1>7. CASE SkipMonth \/ SkipDay \/ SkipHour
    <2>1. Jump
      BY <1>7, SkipIsJump
    <2>2. TargetOf(sched, Here) \in Int /\ ~Open(sched, Here)
      BY <1>1, <2>1, TargetSkips DEF Jump
    <2>3. t' = Date(zone, TargetOf(sched, Local(zone, t))) /\ t' \in Int
      BY <1>1, <2>1, <2>2, LocalType DEF Jump, Here
    <2>4. UNCHANGED <<schedVars, after>>
      BY <2>1 DEF Jump, searchVars
    <2>5. ASSUME NEW x \in Int, Matches(sched, Local(zone, x)), t <= x \/ AheadOf(zone, t, x),
                 x < t'
          PROVE  AheadOf(zone, t', x)
      <3>1. x < Date(zone, TargetOf(sched, Local(zone, t))) /\ ~Open(sched, Local(zone, t))
        BY <2>2, <2>3, <2>5 DEF Here
      <3>2. AheadOf(zone, Date(zone, TargetOf(sched, Local(zone, t))), x)
        BY <1>1, <1>2, <2>5, <3>1, JumpSkipsNothing
      <3> QED BY <2>3, <3>2
    <2> QED BY <1>6, <2>3, <2>4, <2>5
  <1>8. CASE SkipMinute
    <2>1. t' = t + 1 /\ UNCHANGED <<schedVars, after>> /\ ~Matches(sched, Here)
      BY <1>8, FoundMatches DEF SkipMinute, searchVars
    <2>2. ASSUME NEW x \in Int, Matches(sched, Local(zone, x)), t <= x \/ AheadOf(zone, t, x),
                 x < t + 1
          PROVE  AheadOf(zone, t + 1, x)
      <3>1. x # t
        BY <2>1, <2>2 DEF Here
      <3>2. PICK y \in Int : /\ t <= y /\ (y <= x \/ y <= x + (zone.before - zone.after))
                             /\ Local(zone, y) = Local(zone, x)
        BY <1>1, <1>2, <2>2, <3>1, AheadWithin
      <3>3. y # t
        BY <2>1, <2>2, <3>2 DEF Here
      <3>4. t + 1 <= y /\ t + 1 \in Int
        BY <1>2, <3>2, <3>3
      <3> QED BY <1>1, <3>2, <3>4, AheadWithin
    <2> QED BY <1>2, <1>6, <2>1, <2>2
  <1>9. ASSUME UNCHANGED <<schedVars, after, t>> PROVE NothingSkipped'
    <2>1. \A x \in Int : (t <= x \/ AheadOf(zone, t, x)) => (x < t => AheadOf(zone, t, x))
      BY <1>2
    <2> QED BY <1>2, <1>6, <1>9, <2>1
  <1>10. CASE Found \/ NotFound \/ Tick \/ Cancel
    BY <1>9, <1>10 DEF Found, NotFound, Tick, Cancel, searchVars
  <1>11. CASE Fire
    <2>1. after' = now /\ t' = now + 1
      BY <1>11 DEF Fire, Search
    <2>2. (after' + 1)..(t' - 1) = {}
      BY <1>2, <2>1
    <2> QED BY <2>2 DEF NothingSkipped
  <1>12. CASE UNCHANGED vars
    BY <1>9, <1>12 DEF vars
  <1> QED BY <1>7, <1>8, <1>10, <1>11, <1>12 DEF Next

(* At the start the search has passed no minute. *)
LEMMA NothingSkippedInit == Init => NothingSkipped
  <1> SUFFICES ASSUME Init PROVE (after + 1)..(t - 1) = {}
    BY DEF NothingSkipped
  <1> QED BY ConstantBounds DEF Init

(* NothingSkipped: whatever the calendar, the specs and the zones, the     *)
(* search passes no minute at which the spec fires.                        *)
THEOREM SearchSkipsNothing ==
  ASSUME CleanZones, SundaysFirst
  PROVE  Spec => []NothingSkipped
  <1>1. Spec => []TypeInv
    BY TypeInvInit, TypeInvStep, PTL DEF Spec
  <1> QED BY <1>1, NothingSkippedInit, NothingSkippedStep, PTL DEF Spec

-----------------------------------------------------------------------------
(* Giving up. *)

(* No zone that puts its clock forward is west of UTC before the change:   *)
(* there the search stands still (Stuck).                                  *)
NoneStandsStill == \A z \in Zones : z.before < z.after => z.before >= 0

(* Each iteration gains a minute. *)
Progress == state \in {"search", "stopped"} => t >= after + 1 + i

(* Every iteration takes the search at least a minute further. *)
LEMMA ProgressStep ==
  ASSUME CleanZones, NoneStandsStill, TypeInv, Progress, [Next]_vars
  PROVE  Progress'
  <1>1. t \in Int /\ after \in Int /\ now \in Int /\ i \in Int
    BY ConstantBounds DEF TypeInv, TypeOK
  <1>2. CASE SkipMonth \/ SkipDay \/ SkipHour
    <2> DEFINE L == TargetOf(sched, Here)
    <2>1. Sane /\ zone \in Zone /\ Here \in Int /\ SomeMonth(sched) /\ CleanChange(zone)
          /\ (zone.before < zone.after => zone.before >= 0)
      BY TypeInvSane, ZoneOfSane DEF CleanZones, NoneStandsStill, Sane
    <2>2. Jump
      BY <1>2, SkipIsJump
    <2>3. L \in Int /\ Here < L /\ t' = Date(zone, L)
      BY <2>1, <2>2, TargetSkips DEF Jump
    <2>4. PICK h \in Int : L = h * HourMinutes
      BY <2>1, <2>2, TargetSkips DEF Jump
    <2>5. t < t' /\ t' \in Int
      <3>1. zone.before \in Int
        BY <2>1, ZoneType
      <3> HIDE DEF L
      <3> QED BY <1>1, <2>1, <2>3, <2>4, <3>1, ForwardOrStuck, LocalType DEF Here
    <2> QED BY <1>1, <2>2, <2>5 DEF Jump, searchVars, Progress
  <1>3. CASE SkipMinute
    BY <1>1, <1>3 DEF SkipMinute, Iterating, searchVars, Progress
  <1>4. CASE Found
    BY <1>4 DEF Found, Progress
  <1>5. CASE NotFound \/ Tick \/ Cancel \/ UNCHANGED vars
    BY <1>5 DEF NotFound, Tick, Cancel, searchVars, vars, Progress
  <1>6. CASE Fire
    BY <1>1, <1>6 DEF Fire, Search, Progress
  <1> QED BY <1>2, <1>3, <1>4, <1>5, <1>6 DEF Next

(* The search gives up only after it has looked, minute by minute or in    *)
(* jumps, at MaxIterations minutes (less what a change of offset shows     *)
(* twice), and found that the spec fires at none of them.                  *)
NoneInReach ==
  state = "stopped" =>
    \A instant \in (after + 1)..(after + MaxIterations - Max({zone.before - zone.after, 0})) :
      ~Fires(instant)

(* schedule.go:106: "a zero time if no valid instant can be found within   *)
(* ~4 years": true of every zone that does not stand still.                *)
THEOREM GivesUpBeyondItsCap ==
  ASSUME CleanZones, SundaysFirst, NoneStandsStill
  PROVE  Spec => []NoneInReach
  <1>1. ASSUME TypeInv, NothingSkipped, Progress PROVE NoneInReach
    <2> DEFINE M == Max({zone.before - zone.after, 0})
    <2>1. t \in Int /\ after \in Int /\ i \in Int /\ zone \in Zone
      BY <1>1, ConstantBounds DEF TypeInv, TypeOK
    <2>2. M \in Int /\ 0 <= M
      <3>1. zone.before - zone.after \in Int
        BY <2>1, ZoneType
      <3>2. \E b \in Int : zone.before - zone.after <= b /\ 0 <= b
        <4> DEFINE d == zone.before - zone.after
        <4>1. d <= 0 \/ 0 <= d
          BY <3>1
        <4> QED BY <3>1, <4>1
      <3> QED BY <3>1, <3>2, MaxIsGreatest
    <2>3. SUFFICES ASSUME state = "stopped", NEW x, x \in (after + 1)..(after + MaxIterations - M)
                   PROVE  ~Fires(x)
      BY DEF NoneInReach
    <2> HIDE DEF M
    <2>4. t >= after + 1 + MaxIterations
      BY <1>1, <2>3 DEF TypeInv, Progress
    <2>5. x \in Int /\ x \in (after + 1)..(t - 1) /\ x + M < t
      BY <2>1, <2>2, <2>3, <2>4, ConstantBounds
    <2>6. t..(x + M) = {}
      BY <2>1, <2>2, <2>5
    <2>7. ~Ahead(x)
      BY <2>6 DEF Ahead, M
    <2> QED BY <1>1, <2>5, <2>7 DEF NothingSkipped
  <1>2. Init => Progress
    BY ConstantBounds DEF Init, Progress
  <1>3. Spec => []TypeInv
    BY TypeInvInit, TypeInvStep, PTL DEF Spec
  <1>4. Spec => []NothingSkipped
    BY SearchSkipsNothing
  <1>5. Spec => []Progress
    BY <1>2, <1>3, ProgressStep, PTL DEF Spec
  <1> QED BY <1>1, <1>3, <1>4, <1>5, PTL

-----------------------------------------------------------------------------
(* How many iterations a search takes.                                     *)

(* A change of offset is no longer than an hour. *)
LEMMA ChangeLength ==
  ASSUME NEW z \in Zone, CleanChange(z)
  PROVE  Higher(z) - Lower(z) \in 0..HourMinutes
  <1> DEFINE lo == z.at + Lower(z)
             hi == z.at + Higher(z) - 1
  <1>1. /\ lo \in Int /\ hi \in Int /\ HourMinutes \in Nat \ {0}
        /\ Lower(z) \in Int /\ Higher(z) \in Int /\ Lower(z) <= Higher(z)
        /\ hi - lo = Higher(z) - Lower(z) - 1
    BY ZoneType, Constants DEF Lower, Higher
  <1>2. CASE Lower(z) = Higher(z)
    BY <1>1, <1>2
  <1>3. CASE lo \div HourMinutes = hi \div HourMinutes
    <2> HIDE DEF lo, hi
    <2> DEFINE h == lo \div HourMinutes
    <2>1. h \in Int /\ h * HourMinutes <= lo /\ hi < (h + 1) * HourMinutes
      BY <1>1, <1>3, Division
    <2>2. h * HourMinutes \in Int /\ (h + 1) * HourMinutes = h * HourMinutes + HourMinutes
      BY <1>1, <2>1
    <2> HIDE DEF h
    <2> QED BY <1>1, <2>1, <2>2
  <1> QED BY <1>2, <1>3 DEF CleanChange

(* A jump does not fall short of its aim, where the search does not stand  *)
(* still.                                                                  *)
LEMMA JumpReaches ==
  ASSUME NEW z \in Zone, CleanChange(z), z.before < z.after => z.before >= 0,
         NEW h \in Int, NEW L \in Int, L = h * HourMinutes
  PROVE  L <= Local(z, Date(z, L))
  <1>1. ~(z.at + Lower(z) < L /\ L < z.at + Higher(z))
    BY NoHourInside
  <1> QED BY <1>1, ZoneType DEF Local, Date, Offset, Lower, Higher

(* The local day never goes back. *)
LEMMA DaysAdvance ==
  ASSUME NEW z \in Zone, CleanChange(z), NEW x \in Int, NEW y \in Int, x <= y
  PROVE  DayOf(Local(z, x)) \in Int /\ DayOf(Local(z, y)) \in Int
         /\ DayOf(Local(z, x)) <= DayOf(Local(z, y))
  BY LocalStaysInHour, LocalType, FromHourOn

(* Every wall-clock time is shown, but for some of the day of the change. *)
ChangeDay(z) == DayOf(z.at + z.before)

(* A wall-clock time is shown at some instant, unless the change of offset *)
(* leaves out a part of its day.                                           *)
LEMMA TimeIsShown ==
  ASSUME NEW z \in Zone, CleanChange(z), NEW L \in Int, DayOf(L) # ChangeDay(z)
  PROVE  \E x \in Int : Local(z, x) = L
  <1> DEFINE early == L - z.before
             late  == L - z.after
             lo    == z.at + z.before
             hi    == z.at + z.after - 1
  <1>1. early \in Int /\ late \in Int /\ lo \in Int /\ hi \in Int
    BY ZoneType
  <1>2. CASE early < z.at
    BY <1>1, <1>2, ZoneType DEF Local, Offset
  <1>3. CASE ~(late < z.at)
    BY <1>1, <1>3, ZoneType DEF Local, Offset
  <1>4. ASSUME ~(early < z.at), late < z.at PROVE FALSE
    <2>1. lo <= L /\ L <= hi /\ z.before < z.after
      BY <1>4, ZoneType
    <2>2. lo \div HourMinutes = hi \div HourMinutes
      BY <2>1, ZoneType DEF CleanChange, Lower, Higher
    <2> HIDE DEF lo, hi
    <2>3. L \div HourMinutes = lo \div HourMinutes
      <3>1. lo \div HourMinutes <= L \div HourMinutes /\ L \div HourMinutes <= hi \div HourMinutes
        BY <1>1, <2>1, DivisionMonotone, Constants
      <3>2. lo \div HourMinutes \in Int /\ L \div HourMinutes \in Int
        BY <1>1, Division, Constants
      <3> QED BY <2>2, <3>1, <3>2
    <2>4. DayOf(L) = DayOf(lo)
      BY <1>1, <2>3, DayOfHour
    <2> QED BY <2>4 DEF ChangeDay, lo
  <1> QED BY <1>2, <1>3, <1>4

(* A minute fires on every day that Parse's sets leave open.               *)
LEMMA OpenDayFires ==
  ASSUME Sane, NEW x \in Int, MonthMatches(sched, x), DayMatches(sched, x)
  PROVE  \E L \in Int : DayOf(L) = DayOf(x) /\ Matches(sched, L)
  <1>1. \A q \in Int, n \in Nat \ {0}, r \in Int :
          r \in 0..(n - 1) => (q * n + r) \div n = q /\ (q * n + r) % n = r
    <2> SUFFICES ASSUME NEW q \in Int, NEW n \in Nat \ {0}, NEW r \in Int, r \in 0..(n - 1)
                 PROVE  (q * n + r) \div n = q /\ (q * n + r) % n = r
      OBVIOUS
    <2> DEFINE y == q * n + r
    <2>1. /\ q * n \in Int /\ (q + 1) * n = q * n + n /\ 0 <= r /\ r < n
          /\ y \in Int /\ y - q * n = r
      OBVIOUS
    <2>2. q * n <= y /\ y < (q + 1) * n
      BY <2>1
    <2> HIDE DEF y
    <2>3. y \div n = q /\ y % n = y - q * n
      BY <2>1, <2>2, Quotient
    <2> QED BY <2>1, <2>3 DEF y
  <1>2. PICK h \in sched.hour, m \in sched.minute :
          h \in 0..(DayHours - 1) /\ m \in 0..(HourMinutes - 1)
    <2>1. /\ spec \in Specs /\ Valid(spec)
          /\ sched.minute = parseField64(spec.minute, 0, HourMinutes - 1)
          /\ sched.hour = parseField64(spec.hour, 0, DayHours - 1)
      BY DEF Sane, Parse
    <2>2. /\ spec.minute \in SUBSET Part /\ sched.minute # {}
          /\ spec.hour \in SUBSET Part /\ sched.hour # {}
      BY <2>1, ValidFields
    <2>3. HourMinutes - 1 \in Int /\ DayHours - 1 \in Int /\ 0 \in Int
      BY Constants
    <2>4. sched.minute \subseteq 0..(HourMinutes - 1)
      BY <2>1, <2>2, <2>3, FieldMeans
    <2>5. sched.hour \subseteq 0..(DayHours - 1)
      BY <2>1, <2>2, <2>3, FieldMeans
    <2> QED BY <2>2, <2>4, <2>5
  <1> DEFINE d == DayOf(x)
             k == d * DayHours + h
             L == k * HourMinutes + m
  <1>3. d \in Int /\ k \in Int /\ L \in Int /\ h \in Int /\ m \in Int
    <2>1. d \in Int
      BY MonthOfDay
    <2> HIDE DEF d
    <2>2. k \in Int
      BY <1>2, <2>1, Constants
    <2> HIDE DEF k
    <2> QED BY <1>2, <2>1, <2>2, Constants
  <1>4. k \div DayHours = d /\ k % DayHours = h
    <2> HIDE DEF d
    <2> QED BY <1>1, <1>2, <1>3, Constants
  <1>5. L \div HourMinutes = k /\ L % HourMinutes = m
    <2> HIDE DEF k
    <2> QED BY <1>1, <1>2, <1>3, Constants
  <1> HIDE DEF k, L
  <1>6. DayOf(L) = DayOf(x) /\ HourOf(L) = h /\ MinuteOf(L) = m
    BY <1>3, <1>4, <1>5, DayOfHour DEF HourOf, MinuteOf, d
  <1>7. MonthMatches(sched, L) /\ DayMatches(sched, L)
    BY <1>3, <1>6, SameDay
  <1> QED BY <1>2, <1>3, <1>6, <1>7 DEF Matches, Open, HourMatches

(* The minutes of its local day that are over at instant x, those that a   *)
(* change of offset repeats counted twice.                                 *)
Walk(z, x) ==
  Local(z, x) - DayOf(Local(z, x)) * DayMinutes
  + (IF x >= z.at THEN Higher(z) - z.after ELSE 0)

(* The most there are. *)
Slack == DayMinutes + HourMinutes

(* The bounds of Walk. *)
LEMMA WalkBounds ==
  ASSUME NEW z \in Zone, CleanChange(z), NEW x \in Int
  PROVE  Walk(z, x) \in Int /\ 0 <= Walk(z, x) /\ Walk(z, x) < Slack /\ Slack \in Nat \ {0}
  <1> DEFINE l == Local(z, x)
             p == DayOf(l) * DayMinutes
  <1>1. l \in Int /\ DayMinutes \in Nat \ {0} /\ HourMinutes \in Nat \ {0}
    BY LocalType, DayMinutesType, Constants
  <1>2. p \in Int /\ p <= l /\ l < p + DayMinutes
    <2> HIDE DEF l
    <2>1. DayOf(l) \in Int /\ p <= l /\ l < (DayOf(l) + 1) * DayMinutes
      BY <1>1, Division DEF DayOf
    <2>2. p \in Int /\ (DayOf(l) + 1) * DayMinutes = p + DayMinutes
      BY <1>1, <2>1
    <2> QED BY <2>1, <2>2
  <1>3. Walk(z, x) = l - p + (IF x >= z.at THEN Higher(z) - z.after ELSE 0)
    BY DEF Walk
  <1>4. Higher(z) - z.after \in Int /\ 0 <= Higher(z) - z.after /\ Higher(z) - z.after <= HourMinutes
    BY ChangeLength, ZoneType, <1>1 DEF Higher, Lower
  <1> HIDE DEF l, p
  <1> QED BY <1>1, <1>2, <1>3, <1>4 DEF Slack

(* Walk grows with every minute of a day. *)
LEMMA WalkAdvances ==
  ASSUME NEW z \in Zone, CleanChange(z), NEW x \in Int, NEW y \in Int, x < y,
         DayOf(Local(z, x)) = DayOf(Local(z, y))
  PROVE  Walk(z, x) + 1 <= Walk(z, y)
  <1> DEFINE p == DayOf(Local(z, x)) * DayMinutes
             W(u) == Local(z, u) + (IF u >= z.at THEN Higher(z) - z.after ELSE 0)
  <1>1. p \in Int
    BY LocalType, MonthOfDay, DayMinutesType
  <1>2. W(x) \in Int /\ W(y) \in Int /\ W(x) + 1 <= W(y)
    BY ZoneType DEF Local, Offset, Higher
  <1>3. Local(z, x) \in Int /\ Local(z, y) \in Int /\ z.at \in Int
        /\ Higher(z) \in Int /\ z.after \in Int
    BY LocalType, ZoneType
  <1>4. Walk(z, x) = W(x) - p
    BY <1>1, <1>3 DEF Walk
  <1>5. Walk(z, y) = W(y) - p
    BY <1>1, <1>3 DEF Walk
  <1> HIDE DEF W, p
  <1> QED BY <1>1, <1>2, <1>4, <1>5

(* The local day from which the search starts. *)
FirstDay == DayOf(Local(zone, after + 1))

DayOpen == MonthMatches(sched, Here) /\ DayMatches(sched, Here)

(* The search finds a minute on an open day, except on the day on which it *)
(* starts and the day from which a change of offset takes an hour away.    *)
LEMMA OpenDayLeft ==
  ASSUME Sane, CleanChange(zone), after \in Int, after < t, DayOpen,
         NEW u \in Int, t < u, DayOf(Here) < DayOf(Local(zone, u)),
         \A x \in Int :
           after < x /\ x < u /\ Matches(sched, Local(zone, x)) => AheadOf(zone, u, x)
  PROVE  DayOf(Here) = FirstDay \/ DayOf(Here) = ChangeDay(zone)
  <1>1. zone \in Zone /\ Here \in Int /\ t \in Int
    BY ZoneOfSane DEF Sane
  <1>2. PICK L \in Int : DayOf(L) = DayOf(Here) /\ Matches(sched, L)
    BY <1>1, OpenDayFires DEF DayOpen
  <1> SUFFICES ASSUME DayOf(Here) # ChangeDay(zone) PROVE DayOf(Here) = FirstDay
    OBVIOUS
  <1>3. PICK x \in Int : Local(zone, x) = L
    BY <1>1, <1>2, TimeIsShown
  <1>4. \A y \in Int : u <= y => Local(zone, y) # L
    <2> SUFFICES ASSUME NEW y \in Int, u <= y PROVE Local(zone, y) # L
      OBVIOUS
    <2>1. /\ DayOf(Local(zone, u)) \in Int /\ DayOf(Local(zone, y)) \in Int
          /\ DayOf(Local(zone, u)) <= DayOf(Local(zone, y))
      BY <1>1, DaysAdvance
    <2>2. DayOf(Here) \in Int
      BY <1>1, MonthOfDay
    <2> QED BY <1>2, <2>1, <2>2
  <1>5. x < u
    BY <1>3, <1>4
  <1>6. CASE x <= after
    <2>1. x <= after + 1 /\ after + 1 \in Int /\ after + 1 <= t
      BY <1>1, <1>6
    <2>2. DayOf(Local(zone, x)) \in Int /\ FirstDay \in Int /\ DayOf(Local(zone, x)) <= FirstDay
      BY <1>1, <2>1, DaysAdvance DEF FirstDay
    <2>3. DayOf(Here) \in Int /\ FirstDay <= DayOf(Here)
      BY <1>1, <2>1, DaysAdvance DEF FirstDay, Here
    <2> QED BY <1>2, <1>3, <2>2, <2>3
  <1>7. CASE after < x
    <2>1. AheadOf(zone, u, x)
      BY <1>2, <1>3, <1>5, <1>7
    <2>2. PICK y \in Int : u <= y /\ Local(zone, y) = Local(zone, x)
      BY <1>1, <2>1, AheadWithin
    <2> QED BY <1>3, <1>4, <2>2
  <1> QED BY <1>6, <1>7

(* The iterations that a day may have taken once the search has left it. *)
Spent(d) == IF d < DayOf(Here) THEN Slack ELSE 0

(* The search has taken an iteration for each day it has left behind, and  *)
(* more on two of them and on the present one at most.                     *)
Counted ==
  state \in {"search", "stopped"} =>
    i <= DayOf(Here) - FirstDay + Spent(FirstDay) + Spent(ChangeDay(zone))
         + (IF DayOpen THEN Walk(zone, t) ELSE 0)

(* Nothing that matches is passed, of a step of the search. *)
LEMMA MatchesAhead ==
  ASSUME Sane, after \in Int, NothingSkipped', UNCHANGED <<schedVars, after>>, t' \in Int,
         NEW x \in Int, after < x, x < t', Matches(sched, Local(zone, x))
  PROVE  AheadOf(zone, t', x)
  <1>1. Fires(x)
    BY FiresIsMatches
  <1>2. Fires(x)' /\ (Ahead(x)' <=> AheadOf(zone, t', x)) /\ after' = after
    <2>1. (Fires(x)' <=> Fires(x)) /\ (Ahead(x)' <=> AheadOf(zone, t', x)) /\ after' = after
      BY DEF schedVars, Fires, Ahead, AheadOf
    <2> QED BY <1>1, <2>1
  <1>3. x \in (after' + 1)..(t' - 1)
    <2> DEFINE u == t'
    <2>1. u \in Int /\ x < u
      OBVIOUS
    <2> HIDE DEF u
    <2>2. x \in (after + 1)..(u - 1)
      BY <2>1
    <2> QED BY <1>2, <2>2 DEF u
  <1>4. Ahead(x)'
    BY <1>2, <1>3 DEF NothingSkipped
  <1> QED BY <1>2, <1>4

(* One iteration more, a later candidate: what has been spent covers it. *)
LEMMA CountedAdvance ==
  ASSUME CleanZones, TypeInv, Counted, NothingSkipped', state = "search", after < t,
         i' = i + 1, UNCHANGED <<searchVars, state>>, t' \in Int, t < t',
         DayOpen \/ DayOf(Here) < DayOf(Local(zone, t'))
  PROVE  Counted'
  <1> DEFINE u  == t'
             d  == DayOf(Here)
             e  == DayOf(Local(zone, u))
             s0 == IF FirstDay < d THEN Slack ELSE 0
             s1 == IF ChangeDay(zone) < d THEN Slack ELSE 0
             r0 == IF FirstDay < e THEN Slack ELSE 0
             r1 == IF ChangeDay(zone) < e THEN Slack ELSE 0
             w  == IF DayOpen THEN Walk(zone, t) ELSE 0
             openThen == MonthMatches(sched, Local(zone, u)) /\ DayMatches(sched, Local(zone, u))
             v  == IF openThen THEN Walk(zone, u) ELSE 0
  <1>1. /\ Sane /\ zone \in Zone /\ CleanChange(zone) /\ t \in Int /\ after \in Int /\ i \in Int
        /\ Here \in Int
    BY TypeInvSane, ZoneOfSane, ConstantBounds DEF CleanZones, Sane, TypeInv, TypeOK
  <1>2. /\ u \in Int /\ t < u /\ UNCHANGED <<schedVars, after>> /\ zone' = zone
        /\ sched' = sched /\ after' = after
    BY DEF searchVars, schedVars
  <1>3. Here' = Local(zone, u)
    BY <1>2 DEF Here
  <1>4. Counted' <=> i + 1 <= e - FirstDay + r0 + r1 + v
    <2>1. FirstDay' = FirstDay
      BY <1>2 DEF FirstDay
    <2>2. DayOf(Here)' = e
      BY <1>3
    <2>3. Spent(FirstDay)' = r0
      BY <2>1, <2>2 DEF Spent
    <2>4. ChangeDay(zone)' = ChangeDay(zone)
      BY <1>2 DEF ChangeDay
    <2>5. Spent(ChangeDay(zone))' = r1
      BY <2>2, <2>4 DEF Spent
    <2>6. DayOpen' <=> openThen
      BY <1>2, <1>3 DEF DayOpen
    <2>7. Walk(zone, t)' = Walk(zone, u)
      BY <1>2 DEF Walk
    <2> HIDE DEF u, e, r0, r1, openThen
    <2> QED BY <2>1, <2>2, <2>3, <2>5, <2>6, <2>7 DEF Counted
  <1>5. i <= d - FirstDay + s0 + s1 + w
    BY DEF Counted, Spent
  <1>6. /\ d \in Int /\ e \in Int /\ d <= e /\ FirstDay \in Int /\ ChangeDay(zone) \in Int
        /\ FirstDay <= d
    <2>1. d \in Int /\ e \in Int /\ d <= e
      BY <1>1, <1>2, DaysAdvance DEF Here
    <2>2. FirstDay \in Int /\ FirstDay <= d
      <3>1. after + 1 \in Int /\ after + 1 <= t
        BY <1>1
      <3> QED BY <1>1, <3>1, DaysAdvance DEF Here, FirstDay
    <2>3. ChangeDay(zone) \in Int
      <3>1. zone.at + zone.before \in Int
        BY <1>1, ZoneType
      <3> QED BY <3>1, MonthOfDay DEF ChangeDay
    <2> QED BY <2>1, <2>2, <2>3
  <1>7. /\ Walk(zone, t) \in Int /\ 0 <= Walk(zone, t) /\ Walk(zone, t) < Slack
        /\ Walk(zone, u) \in Int /\ 0 <= Walk(zone, u) /\ Slack \in Nat
    BY <1>1, <1>2, WalkBounds
  <1>8. DayOpen \/ d < e
    OBVIOUS
  <1>9. DayOpen /\ d < e => d = FirstDay \/ d = ChangeDay(zone)
    <2> SUFFICES ASSUME DayOpen, d < e PROVE d = FirstDay \/ d = ChangeDay(zone)
      OBVIOUS
    <2>1. \A x \in Int :
            after < x /\ x < u /\ Matches(sched, Local(zone, x)) => AheadOf(zone, u, x)
      BY <1>1, <1>2, MatchesAhead
    <2> HIDE DEF u
    <2> QED BY <1>1, <1>2, <2>1, OpenDayLeft
  <1>10. DayOpen /\ d = e => openThen /\ Walk(zone, t) + 1 <= Walk(zone, u)
    <2> SUFFICES ASSUME DayOpen, d = e PROVE openThen /\ Walk(zone, t) + 1 <= Walk(zone, u)
      OBVIOUS
    <2>1. Walk(zone, t) + 1 <= Walk(zone, u)
      BY <1>1, <1>2, WalkAdvances DEF Here
    <2>2. openThen
      BY <1>1, <1>2, SameDay, LocalType DEF DayOpen
    <2> QED BY <2>1, <2>2
  <1> SUFFICES i + 1 <= e - FirstDay + r0 + r1 + v
    BY <1>4
  <1>11. CASE d = e
    <2> HIDE DEF u, d, e, openThen
    <2> QED BY <1>1, <1>5, <1>6, <1>7, <1>8, <1>10, <1>11
  <1>12. CASE d < e
    <2> HIDE DEF u, d, e, openThen
    <2>1. 0 <= v /\ v \in Int
      BY <1>7
    <2>2. s0 + s1 + w <= r0 + r1
      BY <1>6, <1>7, <1>9, <1>12
    <2>3. s0 \in Int /\ s1 \in Int /\ w \in Int /\ r0 \in Int /\ r1 \in Int
      BY <1>7
    <2> HIDE DEF s0, s1, w, r0, r1, v
    <2> QED BY <1>1, <1>5, <1>6, <1>12, <2>1, <2>2, <2>3
  <1> QED BY <1>6, <1>11, <1>12

(* A jump over a closed month or day ends on a later day. *)
LEMMA ClosedDayLeft ==
  ASSUME Sane, CleanChange(zone), zone.before < zone.after => zone.before >= 0, Jump, ~DayOpen
  PROVE  DayOf(Here) < DayOf(Local(zone, t'))
  <1> DEFINE L == TargetOf(sched, Here)
             n == Min(MonthsAhead(sched, MonthOf(Here)))
             k == IF ~MonthMatches(sched, Here) THEN MonthStart(n) ELSE DayOf(Here) + 1
  <1>1. zone \in Zone /\ SomeMonth(sched) /\ Here \in Int
    BY ZoneOfSane
  <1>2. L \in Int /\ Here < L /\ t' = Date(zone, L)
    BY <1>1, TargetSkips DEF Jump
  <1>3. PICK h \in Int : L = h * HourMinutes
    BY <1>1, TargetSkips DEF Jump
  <1>4. k \in Int /\ L = k * DayMinutes
    <2>1. DayOf(Here) \in Int /\ MonthOf(Here) \in Int
      BY <1>1, MonthOfDay
    <2>2. n \in Int
      <3>1. n \in MonthsAhead(sched, MonthOf(Here))
        BY <1>1, <2>1, MonthAheadExists
      <3> DEFINE A == MonthsAhead(sched, MonthOf(Here))
      <3>2. A \subseteq (MonthOf(Here) + 1)..(MonthOf(Here) + MonthsPerYear + 1)
        BY DEF MonthsAhead
      <3> QED BY <2>1, <3>1, <3>2
    <2>3. MonthStart(n) \in Int
      BY <2>2, MonthStartStep
    <2> HIDE DEF n
    <2> QED BY <2>1, <2>3 DEF TargetOf, DayOpen, n
  <1>5. L <= Local(zone, t') /\ Local(zone, t') \in Int
    <2>1. L <= Local(zone, Date(zone, L))
      <3> HIDE DEF L
      <3> QED BY <1>1, <1>2, <1>3, JumpReaches
    <2>2. Local(zone, Date(zone, L)) \in Int
      BY <1>1, <1>2, LocalType
    <2> QED BY <1>2, <2>1, <2>2
  <1> DEFINE v == Local(zone, t')
  <1>6. /\ DayOf(Here) \in Int /\ DayOf(Here) * DayMinutes <= Here
        /\ DayOf(Here) * DayMinutes \in Int
    <2>1. DayOf(Here) \in Int
      BY <1>1, MonthOfDay
    <2> QED BY <1>1, <2>1, DayBounds, DayMinutesType
  <1> HIDE DEF L, k, v
  <1>7. DayOf(Here) < k
    <2>1. DayOf(Here) * DayMinutes < k * DayMinutes
      BY <1>1, <1>2, <1>4, <1>6
    <2> QED BY <1>4, <1>6, <2>1, Multiples, DayMinutesType
  <1>8. k <= DayOf(v) /\ DayOf(v) \in Int
    <2>1. v \in Int /\ k * DayMinutes <= v
      BY <1>4, <1>5 DEF v
    <2> QED BY <1>4, <2>1, DayBounds
  <1>9. DayOf(Here) < DayOf(v)
    BY <1>4, <1>6, <1>7, <1>8
  <1> QED BY <1>9 DEF v

(* Counted, at the start of a search. *)
LEMMA CountedStart ==
  ASSUME NEW z \in Zone, CleanChange(z), NEW a \in Int
  PROVE  LET d  == DayOf(Local(z, a + 1))
             c  == ChangeDay(z)
             w  == Walk(z, a + 1)
         IN  /\ 0 <= d - d + (IF d < d THEN Slack ELSE 0) + (IF c < d THEN Slack ELSE 0) + w
             /\ 0 <= d - d + (IF d < d THEN Slack ELSE 0) + (IF c < d THEN Slack ELSE 0) + 0
  <1>1. a + 1 \in Int
    OBVIOUS
  <1>2. DayOf(Local(z, a + 1)) \in Int
    BY <1>1, LocalType, MonthOfDay
  <1>3. /\ Walk(z, a + 1) \in Int /\ 0 <= Walk(z, a + 1) /\ Slack \in Nat
    BY <1>1, WalkBounds
  <1> QED BY <1>2, <1>3

(* Counted, over a step. *)
LEMMA CountedStep ==
  ASSUME CleanZones, NoneStandsStill, TypeInv, Progress, NothingSkipped', Counted, [Next]_vars
  PROVE  Counted'
  <1>1. /\ Sane /\ zone \in Zone /\ CleanChange(zone) /\ t \in Int /\ after \in Int /\ i \in Int
        /\ now \in Int /\ Here \in Int /\ SomeMonth(sched)
        /\ (zone.before < zone.after => zone.before >= 0)
    BY TypeInvSane, ZoneOfSane, ConstantBounds
    DEF CleanZones, NoneStandsStill, Sane, TypeInv, TypeOK
  <1>2. state = "search" => after < t
    <2>1. 0 <= i
      BY DEF TypeInv, TypeOK
    <2> QED BY <1>1, <2>1 DEF Progress
  <1>3. CASE SkipMonth \/ SkipDay \/ SkipHour
    <2> DEFINE L == TargetOf(sched, Here)
    <2>1. Jump
      BY <1>3, SkipIsJump
    <2>2. L \in Int /\ Here < L /\ t' = Date(zone, L)
      BY <1>1, <2>1, TargetSkips DEF Jump
    <2>3. PICK h \in Int : L = h * HourMinutes
      BY <1>1, <2>1, TargetSkips DEF Jump
    <2>4. t < t' /\ t' \in Int
      <3>1. zone.before \in Int
        BY <1>1, ZoneType
      <3> HIDE DEF L
      <3> QED BY <1>1, <2>2, <2>3, <3>1, ForwardOrStuck, LocalType DEF Here
    <2>5. DayOpen \/ DayOf(Here) < DayOf(Local(zone, t'))
      BY <1>1, <2>1, ClosedDayLeft
    <2> QED BY <1>2, <2>1, <2>4, <2>5, CountedAdvance DEF Jump
  <1>4. CASE SkipMinute
    <2>1. DayOpen
      BY <1>4, OpenIsOK DEF SkipMinute, DayOpen
    <2>2. t' \in Int /\ t < t'
      BY <1>1, <1>4 DEF SkipMinute
    <2> QED BY <1>2, <1>4, <2>1, <2>2, CountedAdvance DEF SkipMinute, Iterating
  <1>5. ASSUME UNCHANGED <<schedVars, after, t, i>>,
               state' \in {"search", "stopped"} => state \in {"search", "stopped"}
        PROVE  Counted'
    <2>1. zone' = zone /\ sched' = sched /\ after' = after /\ t' = t /\ i' = i /\ Here' = Here
      BY <1>5 DEF schedVars, Here
    <2>2. /\ FirstDay' = FirstDay /\ Spent(FirstDay)' = Spent(FirstDay)
          /\ Spent(ChangeDay(zone))' = Spent(ChangeDay(zone)) /\ (DayOpen' <=> DayOpen)
          /\ Walk(zone, t)' = Walk(zone, t)
      BY <2>1 DEF FirstDay, Spent, ChangeDay, DayOpen, Walk
    <2>3. DayOf(Here)' = DayOf(Here)
      BY <2>1
    <2> QED BY <1>5, <2>1, <2>2, <2>3 DEF Counted
  <1>6. CASE NotFound \/ Tick
    BY <1>5, <1>6 DEF NotFound, Tick, searchVars
  <1>7. CASE Found \/ Cancel
    BY <1>7 DEF Found, Cancel, Counted
  <1>8. CASE Fire
    <2>1. /\ zone' = zone /\ sched' = sched /\ after' = now /\ t' = now + 1 /\ i' = 0
      BY <1>8 DEF Fire, Search, schedVars
    <2>2. FirstDay' = DayOf(Local(zone, now + 1)) /\ Here' = Local(zone, now + 1)
          /\ ChangeDay(zone)' = ChangeDay(zone) /\ Walk(zone, t)' = Walk(zone, now + 1)
      BY <2>1 DEF FirstDay, Here, ChangeDay, Walk
    <2> QED BY <1>1, <2>1, <2>2, CountedStart DEF Counted, Spent
  <1>9. CASE UNCHANGED vars
    BY <1>5, <1>9 DEF vars
  <1> QED BY <1>3, <1>4, <1>6, <1>7, <1>8, <1>9 DEF Next

(* Counted, at the start. *)
LEMMA CountedInit == ASSUME CleanZones, Init PROVE Counted
  <1>1. now \in Int /\ after = now /\ t = after + 1 /\ i = 0 /\ zone \in Zone /\ CleanChange(zone)
    BY ConstantBounds DEF Init, CleanZones
  <1>2. FirstDay = DayOf(Local(zone, now + 1)) /\ Here = Local(zone, now + 1)
        /\ Walk(zone, t) = Walk(zone, now + 1)
    BY <1>1 DEF FirstDay, Here
  <1> QED BY <1>1, <1>2, CountedStart DEF Counted, Spent

(* A cap that lets the search cover `days` days. *)
CapCovers(days) == days + 3 * Slack + 3 <= MaxIterations

(* A search that has used up such a cap has passed those days. *)
LEMMA FarAhead ==
  ASSUME CleanZones, TypeInv, Progress, Counted, state = "stopped",
         NEW n \in Nat, CapCovers(n)
  PROVE  after + n * DayMinutes + HourMinutes < t
  <1> DEFINE d  == DayOf(Here)
             d0 == FirstDay
             l0 == Local(zone, after + 1)
  <1>1. /\ zone \in Zone /\ CleanChange(zone) /\ t \in Int /\ after \in Int /\ i \in Int
        /\ Here \in Int /\ l0 \in Int /\ i = MaxIterations /\ MaxIterations \in Nat
    BY TypeInvSane, ZoneOfSane, ConstantBounds, LocalType
    DEF CleanZones, Sane, TypeInv, TypeOK
  <1>2. d \in Int /\ d0 \in Int
    BY <1>1, MonthOfDay DEF FirstDay
  <1>3. /\ Walk(zone, t) \in Int /\ 0 <= Walk(zone, t) /\ Walk(zone, t) < Slack
        /\ Slack \in Nat
    BY <1>1, WalkBounds
  <1>4. n + 3 <= d - d0
    <2>1. i <= d - d0 + Slack + Slack + Slack
      BY <1>1, <1>2, <1>3 DEF Counted, Spent
    <2> HIDE DEF d, d0
    <2> QED BY <1>1, <1>2, <1>3, <2>1 DEF CapCovers
  <1>5. d * DayMinutes <= Here /\ l0 < (d0 + 1) * DayMinutes
    <2>1. d * DayMinutes <= Here
      BY <1>1, <1>2, DayBounds
    <2>2. l0 < (d0 + 1) * DayMinutes
      <3>1. l0 < (l0 \div DayMinutes + 1) * DayMinutes
        BY <1>1, Division, DayMinutesType
      <3> QED BY <3>1 DEF FirstDay, DayOf
    <2> QED BY <2>1, <2>2
  <1>6. Here - l0 <= t - (after + 1) + HourMinutes
    <2>1. Higher(zone) - Lower(zone) <= HourMinutes
      BY <1>1, ChangeLength, Constants, ZoneType
    <2> QED BY <1>1, <2>1, ZoneType, Constants DEF Here, Local, Offset, Lower, Higher
  <1> HIDE DEF d, d0, l0
  <1>7. (n + d0 + 3) * DayMinutes <= d * DayMinutes
    BY <1>2, <1>4, Multiples, DayMinutesType
  <1>8. (n + d0 + 3) * DayMinutes = n * DayMinutes + d0 * DayMinutes + 3 * DayMinutes
        /\ (d0 + 1) * DayMinutes = d0 * DayMinutes + DayMinutes
        /\ n * DayMinutes \in Int /\ d0 * DayMinutes \in Int /\ d * DayMinutes \in Int
    BY <1>2, DayMinutesType
  <1> QED BY <1>1, <1>5, <1>6, <1>7, <1>8, DayMinutesType, Constants

(* The spec fires at no minute of those days. *)
NoneWithin(days) ==
  state = "stopped" =>
    \A instant \in (after + 1)..(after + days * DayMinutes) : ~Fires(instant)

(* A search that gives up has covered what the cap covers. *)
LEMMA NoneCovered ==
  ASSUME CleanZones, TypeInv, Progress, NothingSkipped, Counted, NEW n \in Nat, CapCovers(n)
  PROVE  NoneWithin(n)
  <1> DEFINE M == Max({zone.before - zone.after, 0})
             e == after + n * DayMinutes
  <1>1. zone \in Zone /\ CleanChange(zone) /\ t \in Int /\ after \in Int /\ e \in Int
    BY TypeInvSane, ZoneOfSane, ConstantBounds, DayMinutesType
    DEF CleanZones, Sane, TypeInv, TypeOK
  <1>2. M \in Int /\ 0 <= M /\ M <= HourMinutes
    <2> DEFINE c == zone.before - zone.after
    <2>1. c \in Int /\ c <= HourMinutes
      BY <1>1, ZoneType, ChangeLength, Constants DEF Lower, Higher
    <2> HIDE DEF c
    <2>2. \E b \in Int : c <= b /\ 0 <= b
      BY <2>1, Constants
    <2>3. Max({c, 0}) \in {c, 0} /\ 0 <= Max({c, 0})
      BY <2>1, <2>2, MaxIsGreatest
    <2> QED BY <2>1, <2>3, Constants DEF c
  <1> SUFFICES ASSUME state = "stopped", NEW x \in (after + 1)..e PROVE ~Fires(x)
    BY DEF NoneWithin
  <1>3. e + HourMinutes < t
    BY FarAhead
  <1> HIDE DEF M, e
  <1>4. x \in Int /\ x \in (after + 1)..(t - 1) /\ t..(x + M) = {}
    BY <1>1, <1>2, <1>3, Constants
  <1>5. ~Ahead(x)
    BY <1>4 DEF Ahead, M
  <1> QED BY <1>4, <1>5 DEF NothingSkipped

(* What the theorems on giving up rest on. *)
LEMMA SearchInvariant ==
  ASSUME CleanZones, SundaysFirst, NoneStandsStill
  PROVE  Spec => [](TypeInv /\ Progress /\ NothingSkipped /\ Counted)
  <1>1. Init => Progress
    BY ConstantBounds DEF Init, Progress
  <1>2. TypeInv /\ Progress /\ NothingSkipped /\ Counted /\ [Next]_vars
          => (TypeInv /\ Progress /\ NothingSkipped /\ Counted)'
    BY TypeInvStep, ProgressStep, NothingSkippedStep, CountedStep
  <1> QED BY <1>1, <1>2, TypeInvInit, NothingSkippedInit, CountedInit, PTL DEF Spec

(* StopsOnlyIfNever: the search gives up only on a spec that fires in no   *)
(* minute of all the weeks and leap cycles it takes for dates and weekdays *)
(* to repeat, for any cap that covers as many days.                        *)
THEOREM GivesUpOnNone ==
  ASSUME CleanZones, SundaysFirst, NoneStandsStill, CapCovers(CycleDays * WeekDays)
  PROVE  Spec => []StopsOnlyIfNever
  <1>1. CycleDays * WeekDays \in Nat
    BY CycleDaysType, Constants
  <1>2. TypeInv /\ Progress /\ NothingSkipped /\ Counted => StopsOnlyIfNever
    BY <1>1, NoneCovered DEF NoneWithin, StopsOnlyIfNever
  <1> QED BY <1>2, SearchInvariant, PTL

-----------------------------------------------------------------------------
(* The calendar repeats.                                                   *)

(* Division with a multiple of the divisor added. *)
LEMMA DivisionShift ==
  ASSUME NEW n \in Nat \ {0}, NEW x \in Int, NEW q \in Int
  PROVE  (x + q * n) \div n = x \div n + q /\ (x + q * n) % n = x % n
  <1> DEFINE y == x + q * n
             p == x \div n
             g == p + q
  <1>1. p \in Int /\ x % n \in Int /\ p * n <= x /\ x < (p + 1) * n /\ x = p * n + (x % n)
    BY Division
  <1> HIDE DEF p
  <1>2. /\ y = x + q * n /\ y \in Int /\ g \in Int /\ p * n \in Int /\ q * n \in Int
        /\ (p + 1) * n \in Int /\ g * n = p * n + q * n /\ (g + 1) * n = (p + 1) * n + q * n
    BY <1>1
  <1> HIDE DEF y, g
  <1>3. g * n <= y /\ y < (g + 1) * n
    BY <1>1, <1>2
  <1>4. y - g * n = x % n
    BY <1>1, <1>2
  <1>5. y \div n = g /\ y % n = y - g * n
    BY <1>2, <1>3, Quotient
  <1> QED BY <1>4, <1>5 DEF y, g, p

(* After so many days date and weekday are the same again. *)
Repeat == CycleDays * WeekDays

(* Repeat is a positive number of days. *)
LEMMA RepeatType == Repeat \in Nat \ {0} /\ Repeat * DayMinutes \in Nat \ {0}
  <1>1. \A a, b \in Nat \ {0} : a * b \in Nat \ {0}
    OBVIOUS
  <1>2. Repeat \in Nat \ {0}
    BY <1>1, CycleDaysType, Constants DEF Repeat
  <1> QED BY <1>1, <1>2, DayMinutesType

(* Clock, weekday and day recur with Repeat. *)
LEMMA ClockRepeats ==
  ASSUME NEW local \in Int, NEW k \in Int
  PROVE  LET later == local + k * (Repeat * DayMinutes)
         IN  /\ later \in Int /\ MinuteOf(later) = MinuteOf(local)
             /\ HourOf(later) = HourOf(local) /\ DayOf(later) = DayOf(local) + k * Repeat
             /\ WeekdayOf(later) = WeekdayOf(local)
  <1> DEFINE later == local + k * (Repeat * DayMinutes)
             hours == (k * Repeat) * DayHours
  <1>1. \A a, b, c \in Int : a * (b * c) = (a * b) * c /\ a * b = b * a /\ a * b \in Int
    OBVIOUS
  <1>2. /\ Repeat \in Int /\ DayHours \in Int /\ HourMinutes \in Int /\ CycleDays \in Int
        /\ WeekDays \in Int /\ k * Repeat \in Int /\ DayMinutes \in Int
    BY <1>1, RepeatType, Constants, CycleDaysType, DayMinutesType
  <1>3. k * (Repeat * DayMinutes) = (k * Repeat) * DayMinutes
    BY <1>1, <1>2
  <1>4. hours \in Int /\ later = local + hours * HourMinutes
    <2>1. (k * Repeat) * (DayHours * HourMinutes) = hours * HourMinutes /\ hours \in Int
      BY <1>1, <1>2
    <2> QED BY <1>3, <2>1 DEF DayMinutes
  <1>5. later \in Int
    <2>1. (k * Repeat) * DayMinutes \in Int
      BY <1>1, <1>2
    <2> QED BY <1>3, <2>1
  <1>6. later \div HourMinutes = local \div HourMinutes + hours
        /\ later % HourMinutes = local % HourMinutes
    BY <1>4, DivisionShift, Constants
  <1>7. (local \div HourMinutes + hours) % DayHours = (local \div HourMinutes) % DayHours
    <2>1. local \div HourMinutes \in Int
      BY Division, Constants
    <2> QED BY <1>2, <2>1, DivisionShift, Constants
  <1>8. DayOf(later) = DayOf(local) + k * Repeat
    BY <1>2, <1>3, DivisionShift, DayMinutesType DEF DayOf
  <1>9. WeekdayOf(later) = WeekdayOf(local)
    <2>1. k * Repeat = (k * CycleDays) * WeekDays /\ k * CycleDays \in Int
      BY <1>1, <1>2 DEF Repeat
    <2>2. DayOf(local) \in Int
      BY MonthOfDay
    <2> DEFINE w == k * CycleDays
    <2> HIDE DEF w
    <2>3. (DayOf(local) + w * WeekDays) % WeekDays = DayOf(local) % WeekDays
      BY <2>1, <2>2, DivisionShift, Constants DEF w
    <2>4. DayOf(later) = DayOf(local) + w * WeekDays
      BY <1>8, <2>1 DEF w
    <2> QED BY <2>3, <2>4 DEF WeekdayOf
  <1> QED BY <1>5, <1>6, <1>7, <1>8, <1>9 DEF MinuteOf, HourOf

(* The months of one leap cycle start as those of another. *)
LEMMA MonthStartRepeats ==
  ASSUME NEW m \in Int, NEW j \in Int
  PROVE  /\ m + j * N \in Int /\ j * CycleDays \in Int
         /\ MonthStart(m + j * N) = MonthStart(m) + j * CycleDays
         /\ MonthOfYear(m + j * N) = MonthOfYear(m)
  <1> DEFINE q == m \div N
             c == N \div MonthsPerYear
  <1>1. /\ q \in Int /\ m % N \in 0..(N - 1) /\ m + j * N \in Int /\ j * CycleDays \in Int
        /\ CycleDays \in Int
    BY Division, Constants, CycleDaysType
  <1>2. (m + j * N) \div N = q + j /\ (m + j * N) % N = m % N
    BY DivisionShift, Constants
  <1>3. DaysBefore[m % N] \in Int
    BY <1>1, DaysBeforeStep, Constants
  <1>4. MonthStart(m + j * N) = (q + j) * CycleDays + DaysBefore[m % N]
    BY <1>2 DEF MonthStart, N
  <1>5. MonthStart(m) = q * CycleDays + DaysBefore[m % N]
    BY DEF MonthStart, N
  <1>6. N = c * MonthsPerYear /\ c \in Int
    <2>1. N = c * MonthsPerYear + (N % MonthsPerYear) /\ c \in Int
      BY Division, Constants
    <2> HIDE DEF c
    <2> QED BY <2>1, Constants
  <1> HIDE DEF q, c
  <1>7. (q + j) * CycleDays = q * CycleDays + j * CycleDays /\ q * CycleDays \in Int
    BY <1>1
  <1>8. j * N = (j * c) * MonthsPerYear /\ j * c \in Int
    <2>1. \A u, v, w \in Int : u * (v * w) = (u * v) * w /\ u * v \in Int
      OBVIOUS
    <2> QED BY <1>6, <2>1, Constants
  <1>9. MonthOfYear(m + j * N) = MonthOfYear(m)
    <2> DEFINE v == j * c
    <2> HIDE DEF v
    <2>1. (m + v * MonthsPerYear) % MonthsPerYear = m % MonthsPerYear
      BY <1>8, DivisionShift, Constants DEF v
    <2>2. m + j * N = m + v * MonthsPerYear
      BY <1>8 DEF v
    <2> QED BY <2>1, <2>2 DEF MonthOfYear
  <1> QED BY <1>1, <1>3, <1>4, <1>5, <1>7, <1>9

(* Month and day of the month recur with the leap cycle. *)
LEMMA DatesRepeat ==
  ASSUME NEW x \in Int, NEW y \in Int, NEW j \in Int, DayOf(y) = DayOf(x) + j * CycleDays
  PROVE  MonthOfYear(MonthOf(y)) = MonthOfYear(MonthOf(x)) /\ DayOfMonth(y) = DayOfMonth(x)
  <1> DEFINE m == MonthOf(x)
             n == m + j * N
  <1>1. /\ DayOf(x) \in Int /\ m \in Int /\ DayOf(y) \in Int /\ MonthOf(y) \in Int
        /\ MonthStart(m) <= DayOf(x) /\ DayOf(x) < MonthStart(m + 1)
    BY MonthOfDay
  <1> HIDE DEF m
  <1>2. /\ n \in Int /\ j * CycleDays \in Int /\ j * N \in Int
        /\ MonthStart(n) = MonthStart(m) + j * CycleDays
        /\ MonthOfYear(n) = MonthOfYear(m)
    BY <1>1, MonthStartRepeats, Constants
  <1>3. MonthStart(n + 1) = MonthStart(m + 1) + j * CycleDays
    <2>1. m + 1 \in Int /\ n + 1 = (m + 1) + j * N
      BY <1>1, <1>2
    <2> HIDE DEF n
    <2> QED BY <2>1, MonthStartRepeats
  <1> HIDE DEF n
  <1>4. /\ MonthStart(m) \in Int /\ MonthStart(m + 1) \in Int
    BY <1>1, MonthStartStep
  <1>5. MonthStart(n) <= DayOf(y) /\ ~(MonthStart(n + 1) <= DayOf(y))
    BY <1>1, <1>2, <1>3, <1>4
  <1>6. n <= MonthOf(y) /\ ~(n + 1 <= MonthOf(y))
    BY <1>2, <1>5, MonthBounds
  <1>7. MonthOf(y) = n
    <2>1. MonthOf(y) \in Int /\ n \in Int
      BY <1>1, <1>2
    <2> QED BY <1>6, <2>1
  <1>8. MonthOf(x) = m
    BY DEF m
  <1> QED BY <1>1, <1>2, <1>4, <1>7, <1>8 DEF DayOfMonth

(* So what matches recurs. *)
LEMMA MatchesRepeat ==
  ASSUME NEW sc, NEW local \in Int, NEW k \in Int
  PROVE  Matches(sc, local + k * (Repeat * DayMinutes)) <=> Matches(sc, local)
  <1> DEFINE later == local + k * (Repeat * DayMinutes)
  <1>1. /\ later \in Int /\ MinuteOf(later) = MinuteOf(local)
        /\ HourOf(later) = HourOf(local) /\ DayOf(later) = DayOf(local) + k * Repeat
        /\ WeekdayOf(later) = WeekdayOf(local)
    BY ClockRepeats
  <1>2. k * Repeat = (k * WeekDays) * CycleDays /\ k * WeekDays \in Int
    <2>1. \A a, b, c \in Int : a * (b * c) = (a * c) * b /\ a * c \in Int
      OBVIOUS
    <2> QED BY <2>1, CycleDaysType, Constants DEF Repeat
  <1> HIDE DEF later
  <1>3. /\ MonthOfYear(MonthOf(later)) = MonthOfYear(MonthOf(local))
        /\ DayOfMonth(later) = DayOfMonth(local)
    BY <1>1, <1>2, DatesRepeat
  <1>4. Matches(sc, later) <=> Matches(sc, local)
    BY <1>1, <1>3 DEF Matches, Open, MonthMatches, DayMatches, HourMatches
  <1> QED BY <1>4 DEF later

(* A minute at which the spec fires recurs in any two repeats: one of them *)
(* has but one offset.                                                     *)
LEMMA FiresWithin ==
  ASSUME Sane, SundayFirst(spec), NEW x \in Int, Fires(x), NEW a \in Int
  PROVE  \E y \in (a + 1)..(a + (2 * Repeat) * DayMinutes) : Fires(y)
  <1> DEFINE R == Repeat * DayMinutes
             L == Local(zone, x)
  <1>1. zone \in Zone /\ L \in Int /\ Matches(sched, L)
    BY ZoneOfSane, LocalType, FiresIsMatches
  <1>2. R \in Nat \ {0} /\ (2 * Repeat) * DayMinutes = R + R
    <2>1. \A u, v \in Nat : (2 * u) * v = u * v + u * v
      OBVIOUS
    <2> QED BY <2>1, RepeatType, DayMinutesType
  <1> HIDE DEF R
  <1>3. ASSUME NEW lo \in Int, NEW off \in Int,
               \A y \in Int : lo < y /\ y <= lo + R => Local(zone, y) = y + off
        PROVE  \E y \in Int : lo < y /\ y <= lo + R /\ Fires(y)
    <2> DEFINE p == L - off - lo - 1
               k == p \div R
               r == p % R
               y == lo + 1 + r
    <2>1. p \in Int
      BY <1>1
    <2> HIDE DEF p
    <2>2. k \in Int /\ r \in 0..(R - 1) /\ p = k * R + r /\ k * R \in Int
      <3>1. k \in Int /\ r \in 0..(R - 1) /\ p = k * R + r
        BY <1>2, <2>1, Division
      <3> HIDE DEF k
      <3> QED BY <1>2, <3>1
    <2> HIDE DEF k, r
    <2>3. y \in Int /\ lo < y /\ y <= lo + R
      BY <1>2, <2>2
    <2>4. L = (y + off) + k * R /\ y + off \in Int
      <3>1. r \in Int /\ L \in Int /\ k * R \in Int
        BY <1>1, <1>2, <2>2
      <3>2. L - off - lo - 1 = k * R + r
        BY <2>2 DEF p
      <3> DEFINE g == k * R
      <3> HIDE DEF L, g
      <3>3. L = (lo + 1 + r + off) + g /\ lo + 1 + r + off \in Int
        <4>1. g \in Int /\ r \in Int /\ L \in Int /\ L - off - lo - 1 = g + r
          BY <3>1, <3>2 DEF g
        <4> QED BY <4>1
      <3> QED BY <3>3 DEF g
    <2> HIDE DEF y
    <2>5. Matches(sched, y + off)
      BY <1>1, <2>2, <2>4, MatchesRepeat DEF R
    <2>6. Fires(y)
      BY <1>3, <2>3, <2>5, FiresIsMatches
    <2> QED BY <2>3, <2>6
  <1>4. CASE a + R < zone.at
    <2>1. \A y \in Int : a < y /\ y <= a + R => Local(zone, y) = y + zone.before
      BY <1>1, <1>2, <1>4, ZoneType DEF Local, Offset
    <2>2. PICK y \in Int : a < y /\ y <= a + R /\ Fires(y)
      BY <1>1, <1>3, <2>1, ZoneType
    <2>3. y \in (a + 1)..(a + (R + R))
      BY <1>2, <2>2
    <2> QED BY <1>2, <2>2, <2>3
  <1>5. CASE ~(a + R < zone.at)
    <2> DEFINE b == a + R
    <2>1. b \in Int /\ b + R = a + (R + R) /\ a < b
      BY <1>2
    <2>2. \A y \in Int : b < y /\ y <= b + R => Local(zone, y) = y + zone.after
      BY <1>1, <1>2, <1>5, ZoneType DEF Local, Offset
    <2> HIDE DEF b
    <2>3. PICK y \in Int : b < y /\ y <= b + R /\ Fires(y)
      BY <1>1, <1>3, <2>1, <2>2, ZoneType
    <2>4. y \in (a + 1)..(a + (R + R))
      BY <1>2, <2>1, <2>3
    <2> QED BY <1>2, <2>3, <2>4
  <1> QED BY <1>4, <1>5

(* Nothing was given up that would ever have come.                         *)
NeverFires == state = "stopped" => \A instant \in Int : instant > after => ~Fires(instant)

(* The search gives up only on a spec that never fires again, however late *)
(* it would: for any cap that covers the repeat of dates and weekdays once *)
(* before a change of offset and once after it.                            *)
THEOREM GivesUpOnNever ==
  ASSUME CleanZones, SundaysFirst, NoneStandsStill, CapCovers(2 * CycleDays * WeekDays)
  PROVE  Spec => []NeverFires
  <1>1. /\ Repeat \in Nat /\ 2 * Repeat \in Nat
        /\ 2 * CycleDays * WeekDays = 2 * Repeat
    <2>1. \A u, v \in Nat : 2 * u * v = 2 * (u * v)
      OBVIOUS
    <2> QED BY <2>1, RepeatType, CycleDaysType, Constants DEF Repeat
  <1>2. ASSUME TypeInv, Progress, NothingSkipped, Counted PROVE NeverFires
    <2>1. NoneWithin(2 * Repeat)
      BY <1>1, <1>2, NoneCovered
    <2>2. Sane /\ SundayFirst(spec) /\ after \in Int
      BY <1>2, TypeInvSane, ConstantBounds DEF SundaysFirst, Sane, TypeInv, TypeOK
    <2> SUFFICES ASSUME state = "stopped", NEW x \in Int, Fires(x) PROVE FALSE
      BY DEF NeverFires
    <2>3. PICK y \in (after + 1)..(after + (2 * Repeat) * DayMinutes) : Fires(y)
      BY <2>2, FiresWithin
    <2> QED BY <2>1, <2>3 DEF NoneWithin
  <1> QED BY <1>2, SearchInvariant, PTL

=============================================================================
