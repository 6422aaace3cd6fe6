--------------------------- MODULE InOrderTracker ---------------------------
(***************************************************************************)
(* What the OITF promises to dispatch and to the long-pipe write-back: a   *)
(* bounded queue of the long-pipe instructions in flight.  An instruction  *)
(* is tracked when it is dispatched, only while there is room, and is      *)
(* forgotten when it retires, oldest first.  Dispatch does not look at the *)
(* retirement of the same cycle, so a full tracker refuses a new           *)
(* instruction even when one leaves.                                       *)
(***************************************************************************)
EXTENDS Naturals, Sequences

CONSTANTS Depth,   \* number of entries
          Entry    \* what is remembered of an instruction

VARIABLE flight    \* the instructions in flight, oldest first

Init == flight = << >>

\* A long-pipe instruction is dispatched and nothing retires.
Track(e) == /\ Len(flight) < Depth
            /\ flight' = Append(flight, e)

\* The oldest instruction retires and nothing is dispatched.
Retire == /\ flight # << >>
          /\ flight' = Tail(flight)

\* Both in the same clock cycle.
TrackAndRetire(e) == /\ flight # << >>
                     /\ Len(flight) < Depth
                     /\ flight' = Append(Tail(flight), e)

Next == \/ \E e \in Entry : Track(e) \/ TrackAndRetire(e)
        \/ Retire

Spec == Init /\ [][Next]_flight
=============================================================================
