---------------------------- MODULE ListPromise ----------------------------
(***************************************************************************)
(* What a paged list promises to the one who reads it: it shows the pages  *)
(* of the server from the first on, each once, it grows by the next one,   *)
(* and it says that it has ended when the last one is shown or when it     *)
(* could not be had.  The promise is off from the moment a page is asked   *)
(* for while another request is on its way (tangled).                      *)
(***************************************************************************)
EXTENDS Naturals

CONSTANT Null      \* the list before its first page

VARIABLES last,    \* pages the server has
          shown,   \* Null, or the pages on display
          ended,   \* no more pages are offered
          tangled

pvars == <<last, shown, ended, tangled>>

UpTo(n) == [i \in 1..n |-> i]

Init == last \in Nat /\ shown = Null /\ ended = FALSE /\ tangled = FALSE

Reload == shown' = UpTo(IF last = 0 THEN 0 ELSE 1) /\ ended' = (last <= 1)

More ==
    /\ ~ended
    /\ \E n \in 1..last :
         n < last /\ shown = UpTo(n) /\ shown' = UpTo(n + 1) /\ ended' = (n + 1 = last)

GiveUp == ended' = TRUE /\ UNCHANGED shown

Next ==
    /\ UNCHANGED last
    /\ tangled' \/ (~tangled /\ ~tangled' /\ (Reload \/ More \/ GiveUp))

Spec == Init /\ [][Next]_pvars
=============================================================================
