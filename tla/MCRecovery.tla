----------------------------- MODULE MCRecovery -----------------------------
(***************************************************************************)
(* Plans for the model checker: one that reads, one that forks, one whose  *)
(* envelope calls a write harmless, one that nobody can run unattended.    *)
(***************************************************************************)
EXTENDS Recovery

Command(shape, risk) == [shape |-> shape, risk |-> risk, manual |-> FALSE]
Look == Command("readonly", "readonly")
Refresh == Command("local-write", "readonly")
Delete == Command("db-write", "readonly")
ByHand == [Look EXCEPT !.manual = TRUE]
Foreign == Command("unknown", "readonly")

MCPlans == {
    [steps |-> <<Look, Refresh>>, fork |-> 0, branch |-> <<>>, verify |-> <<Look>>],
    [steps |-> <<Look, ByHand, Command("dry-run", "write")>>, fork |-> 1,
     branch |-> <<Look, Refresh>>, verify |-> <<>>],
    [steps |-> <<Foreign, Delete, Look>>, fork |-> 0, branch |-> <<>>, verify |-> <<Refresh>>]}
=============================================================================
