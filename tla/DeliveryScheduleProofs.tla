------------------------- MODULE DeliveryScheduleProofs -------------------------
(***************************************************************************)
(* The schedule of notification mail is right for days and hours of every  *)
(* length, every preference and every moment, not only for the small day   *)
(* that MCDeliverySchedule enumerates.                                     *)
(*                                                                         *)
(* Every moment is b + k, where b starts a day and k is below Day; on the  *)
(* day itself TimeOfDay is k, on the next day it is k - Day.  All that is  *)
(* claimed follows by comparing such k with the times of a preference.     *)
(***************************************************************************)
EXTENDS MCDeliverySchedule, Integers, TLAPS

-----------------------------------------------------------------------------
(* Days. *)

\* A moment's day starts a time of day before it.
LEMMA DayOfMoment ==
    ASSUME NEW t \in Nat
    PROVE  /\ TimeOfDay(t) \in 0..(Day - 1)
           /\ StartOfDay(t) \in Nat
           /\ t = StartOfDay(t) + TimeOfDay(t)
           /\ StartOfDay(t) = (t \div Day) * Day
           /\ (t \div Day) \in Nat
<1>1. Day \in Nat \ {0}
  BY DayAssumption
<1>2. (t % Day) \in 0..(Day - 1) /\ t = (t \div Day) * Day + (t % Day) /\ (t \div Day) \in Nat
  BY <1>1, SMT
<1>3. (t \div Day) * Day \in Nat
  BY <1>1, <1>2, SMT
<1>4. t - (t % Day) = (t \div Day) * Day
  BY <1>1, <1>2, <1>3, SMT
<1> QED
  BY <1>2, <1>3, <1>4 DEF TimeOfDay, StartOfDay

LEMMA TimeAfterStart ==
    ASSUME NEW q \in Nat, NEW k \in 0..(Day - 1)
    PROVE  TimeOfDay(q * Day + k) = k
<1>1. Day \in Nat \ {0}
  BY DayAssumption
<1> QED
  BY <1>1, SMT DEF TimeOfDay

\* The time of day of a moment on the same day as t, and on the day after.
LEMMA TimeOnTheDay ==
    ASSUME NEW t \in Nat, NEW k \in 0..(Day - 1)
    PROVE  /\ TimeOfDay(StartOfDay(t) + k) = k
           /\ TimeOfDay(StartOfDay(t) + Day + k) = k
<1> DEFINE q == t \div Day
<1>1. Day \in Nat \ {0}
  BY DayAssumption
<1>2. q \in Nat /\ StartOfDay(t) = q * Day
  BY DayOfMoment
<1>3. TimeOfDay(q * Day + k) = k /\ TimeOfDay((q + 1) * Day + k) = k
  BY <1>2, TimeAfterStart
<1>4. (q + 1) * Day = q * Day + Day
  BY <1>1, <1>2, SMT
<1> QED
  BY <1>2, <1>3, <1>4

\* A number of a set below all others of it is its minimum.
LEMMA MinIs ==
    ASSUME NEW S \in SUBSET Int, NEW x \in S, \A y \in S : x <= y
    PROVE  Min(S) = x
<1>1. \E z \in S : \A y \in S : z =< y
  OBVIOUS
<1>2. Min(S) \in S /\ \A y \in S : Min(S) =< y
  BY <1>1 DEF Min
<1>3. Min(S) <= x /\ x <= Min(S) /\ Min(S) \in Int /\ x \in Int
  BY <1>2
<1> QED
  BY <1>3

-----------------------------------------------------------------------------
(* Quiet hours. *)

LEMMA PreferenceIs ==
    ASSUME NEW p \in Preference
    PROVE  /\ p.start \in 0..(Day - 1) /\ p.end \in 0..(Day - 1)
           /\ p.digest \in 0..(Day - 1)
           /\ p.quiet \in BOOLEAN /\ (p.quiet <=> p.start # p.end)
           /\ p.mode \in {"immediate", "hourly", "daily"}
BY DEF Preference

\* What the schedule makes of a moment is the first moment from then on that is
\* outside the quiet hours, and no further than two days away.
LEMMA FirstOutside ==
    ASSUME NEW p \in Preference, NEW t \in Nat
    PROVE  /\ OutsideQuietHours(p, t) \in t..(t + 2 * Day)
           /\ ~InsideQuietHours(p, OutsideQuietHours(p, t))
           /\ \A s \in t..(OutsideQuietHours(p, t) - 1) : InsideQuietHours(p, s)
<1> DEFINE b == StartOfDay(t)
           r == TimeOfDay(t)
           o == OutsideQuietHours(p, t)
<1>1. /\ Day \in Nat \ {0} /\ b \in Nat /\ r \in 0..(Day - 1) /\ t = b + r
      /\ p.start \in 0..(Day - 1) /\ p.end \in 0..(Day - 1)
      /\ p.quiet <=> p.start # p.end
  BY DayAssumption, DayOfMoment, PreferenceIs
<1>2. \A k \in 0..(Day - 1) : TimeOfDay(b + k) = k /\ TimeOfDay(b + Day + k) = k
  BY TimeOnTheDay
<1> HIDE DEF b, r, o
<1>3. CASE ~InsideQuietHours(p, t)
  <2>1. o = t
    BY <1>3 DEF o, OutsideQuietHours
  <2>2. o \in t..(t + 2 * Day) /\ ~InsideQuietHours(p, o) /\ t..(o - 1) = {}
    BY <1>1, <1>3, <2>1
  <2> QED
    BY <2>2 DEF o
<1>4. CASE InsideQuietHours(p, t) /\ p.start < p.end
  <2>1. p.quiet /\ p.start <= r /\ r < p.end
    BY <1>4 DEF InsideQuietHours, r
  <2>2. o = b + p.end
    BY <1>1, <1>4 DEF o, b, OutsideQuietHours
  <2>3. o \in t..(t + 2 * Day)
    BY <1>1, <2>1, <2>2
  <2>4. ~InsideQuietHours(p, o)
    BY <1>1, <1>2, <1>4, <2>2 DEF InsideQuietHours
  <2>5. ASSUME NEW s \in t..(o - 1)
        PROVE  InsideQuietHours(p, s)
    <3>1. s - b \in 0..(Day - 1) /\ s = b + (s - b) /\ r <= s - b /\ s - b < p.end
      BY <1>1, <2>1, <2>2
    <3>2. TimeOfDay(s) = s - b
      BY <1>2, <3>1
    <3> QED
      BY <1>1, <1>4, <2>1, <3>1, <3>2 DEF InsideQuietHours
  <2> QED
    BY <2>3, <2>4, <2>5 DEF o
<1>5. CASE InsideQuietHours(p, t) /\ ~(p.start < p.end)
  <2>1. p.quiet /\ p.end < p.start /\ (p.start <= r \/ r < p.end)
    BY <1>1, <1>5 DEF InsideQuietHours, r
  <2>2. \A k \in 0..(Day - 1), s \in Nat :
            TimeOfDay(s) = k => (InsideQuietHours(p, s) <=> p.start <= k \/ k < p.end)
    BY <1>5, <2>1 DEF InsideQuietHours
  <2>3. CASE r >= p.start
    <3>1. o = b + Day + p.end
      BY <1>5, <2>1, <2>3 DEF o, b, r, OutsideQuietHours
    <3>2. o \in t..(t + 2 * Day) /\ o \in Nat
      BY <1>1, <2>3, <3>1
    <3>3. ~InsideQuietHours(p, o)
      BY <1>1, <1>2, <2>1, <2>2, <3>1, <3>2
    <3>4. ASSUME NEW s \in t..(o - 1)
          PROVE  InsideQuietHours(p, s)
      <4>1. CASE s < b + Day
        <5>1. s - b \in 0..(Day - 1) /\ s = b + (s - b) /\ p.start <= s - b /\ s \in Nat
          BY <1>1, <2>3, <4>1
        <5>2. TimeOfDay(s) = s - b
          BY <1>2, <5>1
        <5> QED
          BY <2>2, <5>1, <5>2
      <4>2. CASE s >= b + Day
        <5> DEFINE k == s - (b + Day)
        <5>1. k \in 0..(Day - 1) /\ s = b + Day + k /\ k < p.end /\ s \in Nat
          BY <1>1, <3>1, <4>2
        <5>2. TimeOfDay(s) = k
          BY <1>2, <5>1
        <5> QED
          BY <2>2, <5>1, <5>2
      <4> QED
        BY <1>1, <4>1, <4>2
    <3> QED
      BY <3>2, <3>3, <3>4 DEF o
  <2>4. CASE ~(r >= p.start)
    <3>1. o = b + p.end /\ r < p.end
      BY <1>1, <1>5, <2>1, <2>4 DEF o, b, r, OutsideQuietHours
    <3>2. o \in t..(t + 2 * Day) /\ o \in Nat
      BY <1>1, <3>1
    <3>3. ~InsideQuietHours(p, o)
      BY <1>1, <1>2, <2>1, <2>2, <3>1, <3>2
    <3>4. ASSUME NEW s \in t..(o - 1)
          PROVE  InsideQuietHours(p, s)
      <4>1. s - b \in 0..(Day - 1) /\ s = b + (s - b) /\ s - b < p.end /\ s \in Nat
        BY <1>1, <3>1
      <4>2. TimeOfDay(s) = s - b
        BY <1>2, <4>1
      <4> QED
        BY <2>2, <4>1, <4>2
    <3> QED
      BY <3>2, <3>3, <3>4 DEF o
  <2> QED
    BY <2>3, <2>4
<1> QED
  BY <1>3, <1>4, <1>5

-----------------------------------------------------------------------------
(* The digest. *)

LEMMA DigestIs ==
    ASSUME NEW p \in Preference, NEW c \in Nat
    PROVE  /\ NextDigest(p, c) \in (c + 1)..(c + Day)
           /\ TimeOfDay(NextDigest(p, c)) = p.digest
           /\ \A t \in (c + 1)..(c + Day) :
                  TimeOfDay(t) = p.digest => NextDigest(p, c) <= t
<1> DEFINE b == StartOfDay(c)
           r == TimeOfDay(c)
           d == NextDigest(p, c)
<1>1. /\ Day \in Nat \ {0} /\ b \in Nat /\ r \in 0..(Day - 1) /\ c = b + r
      /\ p.digest \in 0..(Day - 1)
  BY DayAssumption, DayOfMoment, PreferenceIs
<1>2. \A k \in 0..(Day - 1) : TimeOfDay(b + k) = k /\ TimeOfDay(b + Day + k) = k
  BY TimeOnTheDay
<1>3. d = IF b + p.digest <= c THEN b + p.digest + Day ELSE b + p.digest
  BY DEF NextDigest
<1> HIDE DEF b, r, d
<1>4. d \in (c + 1)..(c + Day)
  BY <1>1, <1>3
<1>5. TimeOfDay(d) = p.digest
  <2>1. d = b + p.digest \/ d = b + Day + p.digest
    BY <1>1, <1>3
  <2> QED
    BY <1>1, <1>2, <2>1
<1>6. ASSUME NEW t \in (c + 1)..(c + Day), TimeOfDay(t) = p.digest
      PROVE  d <= t
  <2>1. CASE t < b + Day
    <3>1. t - b \in 0..(Day - 1) /\ t = b + (t - b)
      BY <1>1, <2>1
    <3>2. t - b = p.digest
      BY <1>2, <1>6, <3>1
    <3> QED
      BY <1>1, <1>3, <3>2
  <2>2. CASE t >= b + Day
    <3>1. t - (b + Day) \in 0..(Day - 1) /\ t = b + Day + (t - (b + Day))
      BY <1>1, <2>2
    <3>2. t - (b + Day) = p.digest
      BY <1>2, <1>6, <3>1
    <3> QED
      BY <1>1, <1>3, <3>2
  <2> QED
    BY <1>1, <2>1, <2>2
<1> QED
  BY <1>4, <1>5, <1>6 DEF d

LEMMA CandidateIs ==
    ASSUME NEW p \in Preference, NEW c \in Nat, NEW n \in Nat
    PROVE  Candidate(p, c, n) \in Nat
<1>1. CASE p.mode = "immediate"
  BY <1>1 DEF Candidate
<1>2. CASE p.mode = "hourly"
  <2>1. HourSlots \in Nat \ {0}
    BY DayAssumption
  <2>2. (c % HourSlots) \in 0..(HourSlots - 1)
    BY <2>1
  <2>3. NextHour(c) \in Nat
    <3>1. c = (c \div HourSlots) * HourSlots + (c % HourSlots) /\ (c \div HourSlots) \in Nat
      BY <2>1, SMT
    <3>2. (c \div HourSlots) * HourSlots \in Nat
      BY <2>1, <3>1, SMT
    <3> QED
      BY <2>1, <2>2, <3>1, <3>2 DEF NextHour
  <2> QED
    BY <1>2, <2>3 DEF Candidate
<1>3. CASE p.mode = "daily"
  <2>1. NextDigest(p, c) \in Nat
    BY DigestIs, DayAssumption
  <2> QED
    BY <1>3, <2>1 DEF Candidate
<1> QED
  BY <1>1, <1>2, <1>3, PreferenceIs

-----------------------------------------------------------------------------
(* The states the theorems are about. *)

TypeOK ==
    /\ preference \in Preference
    /\ created \in Nat
    /\ now \in Nat

\* The preference and the moments stay in their sets: what the theorems below
\* assume of them.
LEMMA TypeCorrect == Spec => []TypeOK
<1>1. Init => TypeOK
  BY DayAssumption DEF Init, TypeOK
<1>2. TypeOK /\ [Next]_vars => TypeOK'
  BY DEF TypeOK, Next, Later, vars
<1> QED
  BY <1>1, <1>2, PTL DEF Spec

\* Whatever the moment, _outside_quiet_hours moves it to the first moment from
\* then on that is outside the recipient's quiet hours.
THEOREM QuietHoursEnd == Spec => []MovedToTheEndOfQuietHours
<1>1. TypeOK => MovedToTheEndOfQuietHours
  <2> SUFFICES ASSUME TypeOK PROVE MovedToTheEndOfQuietHours
    OBVIOUS
  <2> DEFINE o == OutsideQuietHours(preference, now)
             S == {t \in now..(now + 2 * Day) : ~InsideQuietHours(preference, t)}
  <2>1. /\ o \in now..(now + 2 * Day) /\ ~InsideQuietHours(preference, o)
        /\ \A s \in now..(o - 1) : InsideQuietHours(preference, s)
    BY FirstOutside DEF TypeOK
  <2>2. now \in Nat /\ Day \in Nat
    BY DayAssumption DEF TypeOK
  <2> HIDE DEF o
  <2>3. S \in SUBSET Int /\ o \in S
    BY <2>1, <2>2
  <2>4. \A y \in S : o <= y
    BY <2>1, <2>2
  <2>5. Min(S) = o
    BY <2>3, <2>4, MinIs
  <2> QED
    BY <2>5 DEF MovedToTheEndOfQuietHours, o
<1> QED
  BY <1>1, TypeCorrect, PTL

\* A daily digest is due at the first digest hour after its item was created.
THEOREM DigestIsNext == Spec => []DigestIsTheNextOne
<1>1. TypeOK => DigestIsTheNextOne
  <2> SUFFICES ASSUME TypeOK PROVE DigestIsTheNextOne
    OBVIOUS
  <2> DEFINE d == NextDigest(preference, created)
             S == {t \in (created + 1)..(created + Day) :
                       TimeOfDay(t) = preference.digest}
  <2>1. /\ d \in (created + 1)..(created + Day) /\ TimeOfDay(d) = preference.digest
        /\ \A t \in (created + 1)..(created + Day) :
               TimeOfDay(t) = preference.digest => d <= t
    BY DigestIs DEF TypeOK
  <2>2. created \in Nat /\ Day \in Nat
    BY DayAssumption DEF TypeOK
  <2> HIDE DEF d
  <2>3. S \in SUBSET Int /\ d \in S /\ \A y \in S : d <= y
    BY <2>1, <2>2
  <2>4. Min(S) = d
    BY <2>3, MinIs
  <2> QED
    BY <2>4 DEF DigestIsTheNextOne, d
<1> QED
  BY <1>1, TypeCorrect, PTL

\* A delivery that the schedule put off is let pass when its moment comes.
THEOREM NeverPutOffTwice == Spec => []PutOffOnce
<1>1. TypeOK => PutOffOnce
  <2> SUFFICES ASSUME TypeOK PROVE PutOffOnce
    OBVIOUS
  <2> DEFINE c == Candidate(preference, created, now)
             due == OutsideQuietHours(preference, c)
  <2>1. preference \in Preference /\ created \in Nat /\ now \in Nat /\ Day \in Nat
    BY DayAssumption DEF TypeOK
  <2>2. c \in Nat
    BY <2>1, CandidateIs
  <2>3. due \in c..(c + 2 * Day) /\ ~InsideQuietHours(preference, due)
    BY <2>1, <2>2, FirstOutside
  <2>4. OutsideQuietHours(preference, due) = due
    BY <2>3 DEF OutsideQuietHours
  <2>5. Candidate(preference, created, due) \in {due, c}
    BY <2>1, PreferenceIs DEF Candidate
  <2>6. NextDeliveryAt(preference, created, due) = due
    BY <2>4, <2>5 DEF NextDeliveryAt
  <2>7. NextDeliveryAt(preference, created, now) = due
    BY DEF NextDeliveryAt
  <2> QED
    BY <2>1, <2>2, <2>3, <2>6, <2>7 DEF PutOffOnce
<1> QED
  BY <1>1, TypeCorrect, PTL

=============================================================================
