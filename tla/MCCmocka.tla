------------------------------ MODULE MCCmocka ------------------------------
(***************************************************************************)
(* The two halves of cmocka.c on one run.  The runner knows of the         *)
(* expectations only whether some are left when a function returns, which  *)
(* CmockaRunner leaves open, so a behaviour is about one of the two and    *)
(* the state of the other stays at its initial value.                      *)
(***************************************************************************)
EXTENDS CmockaMock, CmockaRunner

VARIABLE half  \* the half this behaviour is about

CountValues == {0, 1, 2, WILL_RETURN_ALWAYS, WILL_RETURN_ONCE}
CheckValues == {[kind |-> "in_range", minimum |-> 1, maximum |-> 2],
                [kind |-> "not_in_set", set |-> {0, 1}],
                [kind |-> "custom", set |-> {1}]}

(* A test with both fixtures, one with none and one with a setup only.     *)
TestValues == <<[setup |-> TRUE, teardown |-> TRUE],
                [setup |-> FALSE, teardown |-> FALSE],
                [setup |-> TRUE, teardown |-> FALSE]>>
GroupValue == [setup |-> TRUE, teardown |-> TRUE]

CmockaInit == half \in {"mocks", "runner"} /\ MockInit /\ RunnerInit

CmockaNext ==
  \/ half = "mocks" /\ MockNext /\ UNCHANGED <<half, runnerVars>>
  \/ half = "runner" /\ RunnerNext /\ UNCHANGED <<half, mockVars>>

CmockaSpec == CmockaInit /\ [][CmockaNext]_<<half, mockVars, runnerVars>>
=============================================================================
