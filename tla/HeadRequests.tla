---------------------------- MODULE HeadRequests ----------------------------
(***************************************************************************)
(* What the two scripts that send HEAD requests to the tile server,       *)
(* allTiles.py and loadtest.py, promise, whatever their threads do: a     *)
(* request for every item of a fixed set comes back, one item at a time, *)
(* and the script ends (prints its time and exits) only when every one    *)
(* has; after that nothing more comes back.  No fairness: a request the   *)
(* server never answers is allowed to keep the script from ending.       *)
(***************************************************************************)
CONSTANT Items          \* the requests the script must make

VARIABLES answered,     \* the items whose request has come back
          ended         \* whether the script has ended

hvars == <<answered, ended>>

Init == answered = {} /\ ended = FALSE

\* The request for one more item comes back.
Answer(t) ==
    /\ ~ended /\ t \in Items \ answered
    /\ answered' = answered \cup {t}
    /\ UNCHANGED ended

\* Every item is back: the script prints its time and ends.
End ==
    /\ ~ended /\ answered = Items
    /\ ended' = TRUE
    /\ UNCHANGED answered

Next == (\E t \in Items : Answer(t)) \/ End

Spec == Init /\ [][Next]_hvars
=============================================================================
