--------------------------- MODULE MCRestartChecksum ---------------------------
(***************************************************************************)
(* Instances of RestartChecksum: two pods and three variables, one of each *)
(* sort (an admin variable that is plain, a mysql monitor credential, a    *)
(* mysql variable read at startup only).                                   *)
(***************************************************************************)
EXTENDS RestartChecksum

CONSTANTS p1, p2

MCPods == {p1, p2}
MCVars == {"plain", "monitor", "threads"}
MCValues == {0, 1}
MCDomain == [plain |-> 1, monitor |-> 2, threads |-> 2]
MCMonitor == {"monitor"}
MCStubborn == {"threads"}

MCVal(a, b, c) == [plain |-> a, monitor |-> b, threads |-> c]

\* Three structures in a row, and a value that changes with one of them.
StructCnfs ==
    {[s |-> 0, v |-> MCVal(0, 0, 0)], [s |-> 1, v |-> MCVal(0, 0, 0)],
     [s |-> 1, v |-> MCVal(1, 0, 0)], [s |-> 2, v |-> MCVal(1, 0, 0)]}
StructEdits ==
    {e \in StructCnfs \X StructCnfs : e[1] # e[2] /\ e[1].s <= e[2].s}

\* Every sort of variable changes alone or together with the structure, and
\* every edit may be taken back.
VarCnfs ==
    {[s |-> 0, v |-> MCVal(a, b, c)] : a, b, c \in {0, 1}}
        \cup {[s |-> 1, v |-> MCVal(1, 0, 0)]}
VarEdits == {e \in VarCnfs \X VarCnfs : e[1] # e[2]}

\* A plain value changes, then a monitor credential does.
PlainCnf(a, b) == [s |-> 0, v |-> MCVal(a, b, 0)]
TwoStepCnfs == {PlainCnf(0, 0), PlainCnf(1, 0), PlainCnf(1, 1)}
TwoStepEdits == {<<PlainCnf(0, 0), PlainCnf(1, 0)>>,
                 <<PlainCnf(1, 0), PlainCnf(1, 1)>>}

AllFaults == {"interrupt", "push", "pod", "flap"}
OperatorFaults == {"interrupt", "push"}
PodFaults == {"pod"}

=============================================================================
