-------------------------- MODULE MCDeliverySchedule --------------------------
(* Bounded inputs for DeliverySchedule, compared with what they should give. *)
EXTENDS DeliverySchedule, FiniteSetsExt

CONSTANT Days     \* bound: items are created and looked at within these days

VARIABLES preference, created, now
vars == <<preference, created, now>>

Init ==
    /\ preference \in Preference
    /\ created \in 0..(Day - 1)
    /\ now = created

\* Time passes and the dispatcher looks at the item again.
Later ==
    /\ now < Days * Day
    /\ now' = now + 1
    /\ UNCHANGED <<preference, created>>

Next == Later

Spec == Init /\ [][Next]_vars

\* A moment inside the quiet hours is moved to their end: the first later moment
\* outside them, also when they cross midnight.
MovedToTheEndOfQuietHours ==
    OutsideQuietHours(preference, now) =
        Min({t \in now..(now + 2 * Day) : ~InsideQuietHours(preference, t)})

\* A digest is due at the first digest hour after the item was created, so no
\* item waits for longer than a day and none is due before it exists.
DigestIsTheNextOne ==
    NextDigest(preference, created) =
        Min({t \in (created + 1)..(created + Day) :
                TimeOfDay(t) = preference.digest})

\* Waiting until the moment the schedule names is enough: it is not put off a
\* second time when that moment comes.
PutOffOnce ==
    LET due == NextDeliveryAt(preference, created, now)
    IN  NextDeliveryAt(preference, created, due) <= due

\* What the schedule lets pass now is not in the recipient's quiet hours.
QuietHoursAreKept ==
    NextDeliveryAt(preference, created, now) <= now
        => ~InsideQuietHours(preference, now)
=============================================================================
