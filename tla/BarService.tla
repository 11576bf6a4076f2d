------------------------------ MODULE BarService ------------------------------
(***************************************************************************)
(* What the daily bars of a symbol promise a reader: a stretch of one        *)
(* edition of its history, as it was published at some moment.  An edition   *)
(* is adjusted throughout for the same dividends and splits, and only the    *)
(* bar of a day still being traded is not final.                            *)
(***************************************************************************)
EXTENDS Integers

CONSTANT NoBars

VARIABLES
    editions,   \* all that were published: [day, closed, adj]
    given       \* the last answer to a reader, [days -> [adj, final]]

Stretch(e, first) == [d \in first..e.day |-> [adj |-> e.adj, final |-> d < e.day \/ e.closed]]

ServiceInit == editions = {[day |-> 0, closed |-> FALSE, adj |-> 0]} /\ given = NoBars

Publish == /\ \E e \in editions' : editions' = editions \cup {e}
           /\ UNCHANGED given

Answer == /\ \/ given' = NoBars
             \/ \E e \in editions : \E first \in 0..e.day : given' = Stretch(e, first)
          /\ UNCHANGED editions

ServiceNext == Publish \/ Answer
ServiceSpec == ServiceInit /\ [][ServiceNext]_<<editions, given>>
=============================================================================
