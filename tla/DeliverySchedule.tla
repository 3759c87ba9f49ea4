--------------------------- MODULE DeliverySchedule ---------------------------
(***************************************************************************)
(* When a notification may be mailed: next_delivery_at and                 *)
(* _outside_quiet_hours of backend/apps/core/notification_email.py.        *)
(*                                                                         *)
(* Time is the recipient's local time in slots; a day has Day slots and an *)
(* hour HourSlots of them.  Changes of the zone's offset are left out.     *)
(***************************************************************************)
EXTENDS Naturals

CONSTANTS Day, HourSlots

ASSUME DayAssumption ==
    /\ HourSlots \in Nat \ {0} /\ Day \in Nat \ {0}
    /\ Day % HourSlots = 0

\* What NotificationPreference retains of a recipient's wishes; the check
\* constraint excludes a quiet window that ends where it starts.
Preference ==
    {p \in [enabled : BOOLEAN, mode : {"immediate", "hourly", "daily"},
            digest : {h \in 0..(Day - 1) : h % HourSlots = 0},
            quiet : BOOLEAN, start : 0..(Day - 1), end : 0..(Day - 1)] :
        p.quiet <=> p.start # p.end}

TimeOfDay(t) == t % Day
StartOfDay(t) == t - TimeOfDay(t)

\* The quiet window may cross midnight.
InsideQuietHours(p, t) ==
    /\ p.quiet
    /\ IF p.start < p.end
       THEN p.start <= TimeOfDay(t) /\ TimeOfDay(t) < p.end
       ELSE p.start <= TimeOfDay(t) \/ TimeOfDay(t) < p.end

\* Mutant: the window's end is always looked for on the day it began.
SameDayEnd(p, t) ==
    IF ~InsideQuietHours(p, t) THEN t ELSE StartOfDay(t) + p.end

OutsideQuietHours(p, t) ==
    IF ~InsideQuietHours(p, t) THEN t
    ELSE IF p.start > p.end /\ TimeOfDay(t) >= p.start
         THEN StartOfDay(t) + Day + p.end
         ELSE StartOfDay(t) + p.end

NextHour(t) == t - (t % HourSlots) + HourSlots

\* Mutant: a digest due at the moment of creation counts as still to come.
DigestOfThatDay(p, created) ==
    LET today == StartOfDay(created) + p.digest
    IN  IF today < created THEN today + Day ELSE today

NextDigest(p, created) ==
    LET today == StartOfDay(created) + p.digest
    IN  IF today <= created THEN today + Day ELSE today

\* Mutant: the coming hour is counted from the look at the item.
CandidateOfNow(p, created, now) ==
    CASE p.mode = "immediate" -> now
      [] p.mode = "hourly"    -> NextHour(now)
      [] p.mode = "daily"     -> NextDigest(p, created)

Candidate(p, created, now) ==
    CASE p.mode = "immediate" -> now
      [] p.mode = "hourly"    -> NextHour(created)
      [] p.mode = "daily"     -> NextDigest(p, created)

NextDeliveryAt(p, created, now) == OutsideQuietHours(p, Candidate(p, created, now))

=============================================================================
