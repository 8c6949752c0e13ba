------------------------------- MODULE MCRunner -------------------------------
(*****************************************************************************)
(* The context runner with fairness, for TLC: the programs of one task whose *)
(* operations complete, or may never do. A behaviour is of one of them, and  *)
(* the specification is the union of theirs.                                 *)
(*****************************************************************************)
EXTENDS Integers, Sequences

CONSTANT Unused   \* the value of the variables of the parts that do not run

VARIABLES
    part,   \* the part that runs in this behaviour
    loop, running, blocked, canceled, closed, stack, st, rpc, cont, point, owner, lost, op,
    nops, res, cq, events, sig

vars == <<part, loop, running, blocked, canceled, closed, stack, st, rpc, cont, point, owner, lost,
          op, nops, res, cq, events, sig>>

\* One task whose operations complete.
Ends == INSTANCE Runner WITH
    NumWorkers <- 1, MaxOps <- 2, MaxEvents <- 2, StopOnCancel <- FALSE

\* One task whose operations may wait for ever.
Signal == INSTANCE Runner WITH
    NumWorkers <- 1, MaxOps <- 2, MaxEvents <- 1, StopOnCancel <- TRUE

-----------------------------------------------------------------------------


Init ==
    \/ /\ part = "ends" /\ Ends!Init
    \/ /\ part = "signal" /\ Signal!Init

EndsStep == part = "ends" /\ Ends!Next /\ UNCHANGED part
SignalStep == part = "signal" /\ Signal!Next /\ UNCHANGED part

Next == \/ EndsStep \/ SignalStep

Spec ==
    /\ Init /\ [][Next]_vars
    /\ WF_vars(UNCHANGED part /\ IF part = "ends" THEN Ends!Run ELSE Signal!Run)
    /\ WF_vars(UNCHANGED part /\ IF part = "ends" THEN Ends!KernelSignal ELSE Signal!KernelSignal)
    /\ \A t \in Ends!Tasks : WF_vars(
           UNCHANGED part /\ IF part = "ends" THEN Ends!KernelFlush(t) ELSE Signal!KernelFlush(t))
    /\ \A t \in Ends!Users : WF_vars(part = "ends" /\ Ends!KernelComplete(t) /\ UNCHANGED part)

-----------------------------------------------------------------------------
\* A program whose operations all complete ends, the lost tasks included.
Terminates == part = "ends" => Ends!Terminates

\* A signal that is sent leads to the refusal of new operations, whatever the
\* tasks wait for.
SignalBlocks == part = "signal" => Signal!SignalBlocks
=============================================================================
