------------------------------- MODULE PubSub -------------------------------
(***************************************************************************)
(* What the WebSocket hub promises to the dashboards connected to it.      *)
(* Messages are numbered in publication order.  A subscriber that joins    *)
(* after message k is handed k+1, k+2, ... in that order, with no gap and  *)
(* no repetition.  The hub may let go of a subscriber at any time; what    *)
(* it had already accepted for the subscriber may still reach it, nothing  *)
(* published later does.                                                   *)
(***************************************************************************)
EXTENDS Naturals, Sequences

CONSTANTS Subscribers

VARIABLES published,  \* number of messages published so far
          status,     \* "out" | "in" | "left", for each subscriber
          from,       \* what had been published when the subscriber joined
          upto,       \* the last message a subscriber that left may still see
          got         \* the messages handed to the subscriber, in order

psVars == <<published, status, from, upto, got>>

Init == /\ published = 0
        /\ status = [s \in Subscribers |-> "out"]
        /\ from = [s \in Subscribers |-> 0]
        /\ upto = [s \in Subscribers |-> 0]
        /\ got = [s \in Subscribers |-> << >>]

Publish == /\ published' = published + 1
           /\ UNCHANGED <<status, from, upto, got>>

Join(s) == /\ status[s] = "out"
           /\ status' = [status EXCEPT ![s] = "in"]
           /\ from' = [from EXCEPT ![s] = published]
           /\ UNCHANGED <<published, upto, got>>

Position(s) == from[s] + Len(got[s])

Leave(s) == /\ status[s] = "in"
            /\ status' = [status EXCEPT ![s] = "left"]
            /\ \E last \in Position(s) .. published : upto' = [upto EXCEPT ![s] = last]
            /\ UNCHANGED <<published, from, got>>

Handover(s) == /\ \/ status[s] = "in" /\ Position(s) < published
                  \/ status[s] = "left" /\ Position(s) < upto[s]
               /\ got' = [got EXCEPT ![s] = Append(@, Position(s) + 1)]
               /\ UNCHANGED <<published, status, from, upto>>

Next == \/ Publish
        \/ \E s \in Subscribers : Join(s) \/ Leave(s) \/ Handover(s)

Spec == Init /\ [][Next]_psVars
=============================================================================
