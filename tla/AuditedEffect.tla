---------------------------- MODULE AuditedEffect ----------------------------
(***************************************************************************)
(* What the SQL shell and the one-shot commands promise of a statement,    *)
(* whatever fails on its way: it takes effect only once it has been        *)
(* cleared (permitted, and confirmed where it has to be), and not after it *)
(* was accounted for by an audit row; and a statement that took effect is  *)
(* never left behind without one, unless the process was killed.  The      *)
(* shell sends a statement again when its connection was lost, so that it  *)
(* may take effect more than once, and goes on to the next.                *)
(***************************************************************************)
EXTENDS Naturals

VARIABLES cleared,    \* the statement under way may take effect
          effects,    \* how often it did
          accounted,  \* an audit row says what became of it
          over        \* how the process ended

Init == /\ cleared \in BOOLEAN
        /\ effects = 0
        /\ accounted = FALSE
        /\ over = "no"

Settled == effects > 0 => accounted

\* The next statement; or the one under way is judged, as long as nothing became of it.
Begin == /\ over = "no" /\ Settled
         /\ cleared' \in BOOLEAN
         /\ effects' = 0
         /\ accounted' = FALSE
         /\ over' \in {"no", "returned"}

Effect == /\ over = "no" /\ cleared /\ ~accounted
          /\ effects' = effects + 1
          /\ UNCHANGED <<cleared, accounted, over>>

Account == /\ over = "no"
           /\ accounted' = TRUE
           /\ over' \in {"no", "returned"}
           /\ UNCHANGED <<cleared, effects>>

Finish == /\ over = "no" /\ Settled
          /\ over' = "returned"
          /\ UNCHANGED <<cleared, effects, accounted>>

Kill == /\ over = "no"
        /\ over' = "killed"
        /\ UNCHANGED <<cleared, effects, accounted>>

Next == Begin \/ Effect \/ Account \/ Finish \/ Kill

Spec == Init /\ [][Next]_<<cleared, effects, accounted, over>>
=============================================================================
