----------------------------- MODULE MCTLSRotation -----------------------------
(***************************************************************************)
(* Instances of TLSRotation: two pods and one Secret.  Leaves 1 and 2 are  *)
(* signed by CA 1, leaf 3 by CA 2.                                         *)
(***************************************************************************)
EXTENDS TLSRotation

CONSTANTS p1, p2, s1

MCPods == {p1, p2}
OneName == {s1}
MCLeaves == 1..3
MCCAs == 1..2
MCIssuer == [l \in 1..3 |-> IF l = 3 THEN 2 ELSE 1]

MCBundle(l, c) == [leaf |-> l, ca |-> c]

\* A renewal under the same CA, or of leaf and CA together, never back.
RenewBundles == {MCBundle(1, 1), MCBundle(2, 1), MCBundle(3, 2)}
RenewRotations == {r \in RenewBundles \X RenewBundles : r[1].leaf < r[2].leaf}

\* A renewal that may be taken back.
BackBundles == {MCBundle(1, 1), MCBundle(2, 1)}
BackRotations == {r \in BackBundles \X BackBundles : r[1] # r[2]}

\* The leaf stays and the CA bundle is replaced.
CABundles == {MCBundle(1, 1), MCBundle(1, 2)}
CARotations == {<<MCBundle(1, 1), MCBundle(1, 2)>>}

AllEdits == {"rotate", "break", "repair", "switch"}
RotateOnly == {"rotate"}
AllFaults == {"interrupt", "dial", "pod", "container", "clock"}
DialFaults == {"dial"}

=============================================================================
