------------------------------ MODULE FeedOrder ------------------------------
(***************************************************************************)
(* What the market feed of one replica promises to the rest of the system. *)
(* A quote is known by its place in the order in which the vendor produced *)
(* it.  Per symbol the place of the accepted quote only grows, and so does *)
(* the place of the quote that was handed to publication last, which is    *)
(* never ahead of the accepted one.  A quote may be skipped; none comes    *)
(* back.                                                                   *)
(***************************************************************************)
EXTENDS Integers

CONSTANTS Symbols, Before   \* Before: no quote yet

VARIABLES accepted,         \* place of the newest accepted quote
          published         \* place of the quote handed over last

Places == Int \cup {Before}
Earlier(a, b) == b # Before /\ (a = Before \/ a < b)

Init ==
  /\ accepted = [s \in Symbols |-> Before]
  /\ published = [s \in Symbols |-> Before]

\* One delivery may carry a quote of several symbols.
Accept ==
  /\ accepted' \in [Symbols -> Places]
  /\ \A s \in Symbols :
       accepted'[s] = accepted[s] \/ Earlier(accepted[s], accepted'[s])
  /\ UNCHANGED published

Publish(s) ==
  /\ published' \in [Symbols -> Places]
  /\ Earlier(published[s], published'[s])
  /\ ~Earlier(accepted[s], published'[s])
  /\ \A t \in Symbols \ {s} : published'[t] = published[t]
  /\ UNCHANGED accepted

Next == Accept \/ \E s \in Symbols : Publish(s)

Spec == Init /\ [][Next]_<<accepted, published>>
=============================================================================
