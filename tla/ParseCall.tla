----------------------------- MODULE ParseCall -----------------------------
(***************************************************************************)
(* What a call of one of the log scanners promises: from its arguments    *)
(* <<data, start, end>> it computes, in one step, the value Fn returns    *)
(* (a list, or the exception that ends the call).  The loop-level models  *)
(* of parse_points and parse_lines are shown to implement this.           *)
(***************************************************************************)
CONSTANT Fn(_, _, _)

VARIABLES data, start, end, result

Pending == [exc |-> "pending", ps |-> <<>>]

Init == result = Pending

Compute ==
    /\ result = Pending
    /\ result' # Pending
    /\ result' = Fn(data, start, end)
    /\ UNCHANGED <<data, start, end>>

\* Compute is enabled until it has happened, so weak fairness of Compute
\* amounts to the call eventually returning.
Returns == <>(result # Pending)

Spec == Init /\ [][Compute]_<<data, start, end, result>> /\ Returns
=============================================================================
