-------------------------- MODULE MCNotificationEmail --------------------------
(* TLC instances of NotificationEmail: see the .cfg files. *)
EXTENDS NotificationEmail, TLC

CONSTANTS r1, r2, o1, o2

\* One notification for each of two recipients, about a client each.
Two      == {1, 2}
ForEach  == (1 :> r1) @@ (2 :> r2)
AboutTwo == (1 :> o1) @@ (2 :> o2)

\* Three for one recipient, more than a digest holds, and one for another.
Four      == {1, 2, 3, 4}
ForFour   == (1 :> r1) @@ (2 :> r1) @@ (3 :> r2) @@ (4 :> r1)
AboutFour == (1 :> o1) @@ (2 :> o2) @@ (3 :> o2) @@ (4 :> o2)

Plain   == [enabled |-> TRUE, mode |-> "immediate", digest |-> 0,
            quiet |-> FALSE, start |-> 0, end |-> 0]
Off     == [Plain EXCEPT !.enabled = FALSE]
\* A digest in the second slot of the day, which the quiet hours put off.
Evening == [enabled |-> TRUE, mode |-> "daily", digest |-> 1,
            quiet |-> TRUE, start |-> 1, end |-> 0]

OnOrOff   == {Plain, Off}
Digested  == {Evening}
Symmetric == Permutations(Worker)
=============================================================================
