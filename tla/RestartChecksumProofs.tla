------------------------- MODULE RestartChecksumProofs -------------------------
(***************************************************************************)
(* For every set of pods, variables and contents and every bound:          *)
(*   - the state of RestartChecksum is well typed;                         *)
(*   - the structural marker is honest as long as edits never return to an *)
(*     earlier structure and the StatefulSet does not predate the marker;  *)
(*   - the controller rests only when it has written what is asked for;    *)
(*   - where edits wait for the previous one to have converged and pods    *)
(*     do not fail by themselves, the variables marker is honest, the      *)
(*     structural one is so without the restrictions above, and the        *)
(*     cluster is restarted only with a reason.                            *)
(***************************************************************************)
EXTENDS RestartChecksum, TLAPS

\* Most steps are first-order, so Zenon is the prover unless a step names another.
USE Zenon

\* What the types need to be inductive: locals of the pass are set before
\* they are used, and a running pod has a configuration.
Shape ==
    /\ job.pc \in {"read", "resolve", "push", "save"} => job.new # None
    /\ job.pc = "push" => sts # None
    /\ job.pc = "save" => job.checksum # None
    /\ \A p \in Pods : pods[p].phase # "down" => pods[p].cnf # None

TypeInv == TypeOK /\ Shape

\* The verdict of classifyCnfChange for any old and new content and any
\* annotations: it never keeps the template or pushes at runtime without a
\* StatefulSet, nor when the structural marker is another structure's and
\* the template is not already the new content's.
LEMMA ClassifyVerdict ==
    ASSUME NEW old \in Cnf \cup {None}, NEW new \in Cnf,
           NEW cur \in StsRecord \cup {None}
    PROVE  /\ classifyCnfChange(old, new, cur).changed \in SUBSET Vars
           /\ classifyCnfChange(old, new, cur).verdict
                \in {"bootHash", "structural", "keepPrev", "runtimeTry"}
           /\ classifyCnfChange(old, new, cur).verdict
                \in {"keepPrev", "runtimeTry"}
              => /\ cur # None
                 /\ \/ cur.checksum = CnfChecksum(new)
                    \/ cur.struct \in {None, new.s}
  BY DEF classifyCnfChange, classifyAgainstSecret, Try, Verdict, structuralHash

\* The checksum of a cnf is a checksum (CnfChecksum).
LEMMA ChecksumType == \A c \in Cnf : CnfChecksum(c) \in Checksum
  BY DEF CnfChecksum, Checksum, Cnf, structuralHash, varsHash

\* A push leaves a pod with a value for every variable (syncVariables).
LEMMA PushedType ==
    ASSUME TypeInv, NEW p \in Pods, NEW k, pods[p].phase # "down",
           job.pc = "push"
    PROVE  Pushed(p, k) \in [Vars -> Values]
<1>1. job.new \in Cnf /\ pods[p].cnf \in Cnf
  BY DEF TypeInv, TypeOK, Shape, JobType, PodType
<1>2. \A x \in Vars : job.new.v[x] \in Values /\ pods[p].cnf.v[x] \in Values
  BY <1>1 DEF Cnf
<1> QED
  BY <1>2 DEF Pushed

\* Setting the live variables of a running pod keeps the pods well typed.
LEMMA PodVarsType ==
    ASSUME NEW f \in [Pods -> PodType], NEW p \in Pods, f[p].cnf # None,
           NEW v \in [Vars -> Values]
    PROVE  /\ [f EXCEPT ![p].cnf.v = v] \in [Pods -> PodType]
           /\ [f EXCEPT ![p].cnf.v = v][p].cnf \in Cnf
           /\ [f EXCEPT ![p].cnf.v = v][p].cnf.s = f[p].cnf.s
           /\ [f EXCEPT ![p].cnf.v = v][p].phase = f[p].phase
           /\ [f EXCEPT ![p].cnf.v = v][p].rev = f[p].rev
           /\ \A q \in Pods : q # p => [f EXCEPT ![p].cnf.v = v][q] = f[q]
<1>1. f[p] \in PodType /\ f[p].cnf \in Cnf
  BY DEF PodType
<1>2. [f[p].cnf EXCEPT !.v = v] \in Cnf
      /\ [f[p].cnf EXCEPT !.v = v].s = f[p].cnf.s
  BY <1>1 DEF Cnf
<1>3. [f EXCEPT ![p].cnf.v = v]
        = [f EXCEPT ![p] = [f[p] EXCEPT !.cnf = [f[p].cnf EXCEPT !.v = v]]]
  OBVIOUS
<1>4. [f[p] EXCEPT !.cnf = [f[p].cnf EXCEPT !.v = v]] \in PodType
  BY <1>1, <1>2 DEF PodType
<1> QED
  BY <1>1, <1>2, <1>3, <1>4 DEF PodType

\* What a push does to the pods, whether it completes or stops after k
\* domains: one running pod gets other values of the right type, and nothing
\* else about any pod changes.
LEMMA PodsPushed ==
    ASSUME TypeInv, NEW p \in Pods, NEW k, pods[p].phase # "down",
           job.pc = "push",
           pods' = [pods EXCEPT ![p].cnf.v = Pushed(p, k)]
    PROVE  /\ pods' \in [Pods -> PodType]
           /\ \A q \in Pods :
                /\ pods'[q].phase = pods[q].phase
                /\ pods'[q].rev = pods[q].rev
                /\ pods[q].phase # "down" => /\ pods'[q].cnf # None
                                             /\ pods'[q].cnf.s = pods[q].cnf.s
<1> DEFINE v == Pushed(p, k)
<1>1. v \in [Vars -> Values]
  BY PushedType
<1> HIDE DEF v
<1>2. pods \in [Pods -> PodType] /\ pods[p].cnf # None
      /\ \A q \in Pods : pods[q].phase # "down" => pods[q].cnf # None
  BY DEF TypeInv, TypeOK, Shape
<1> DEFINE g == [pods EXCEPT ![p].cnf.v = v]
<1>3. /\ g \in [Pods -> PodType]
      /\ g[p].cnf \in Cnf
      /\ g[p].cnf.s = pods[p].cnf.s
      /\ g[p].phase = pods[p].phase
      /\ g[p].rev = pods[p].rev
      /\ \A q \in Pods : q # p => g[q] = pods[q]
  BY <1>1, <1>2, PodVarsType
<1>4. pods' = g
  BY DEF v
<1> HIDE DEF g
<1> QED
  BY <1>2, <1>3, <1>4, NoneAssumption

-----------------------------------------------------------------------------
(* Types.                                                                  *)

\* The first state is well typed.
LEMMA TypeInit == Init => TypeInv
<1> SUFFICES ASSUME Init PROVE TypeInv
  OBVIOUS
<1>1. spec \in Cnf
  BY CnfAssumption DEF Init
<1>2. CnfChecksum(spec) \in Checksum
  BY <1>1, ChecksumType
<1>3. job \in JobType /\ job.pc = "idle"
  BY DEF Init, IdleJob, JobType
<1>4. CASE FreshInit
  BY <1>1, <1>3, <1>4 DEF Init, FreshInit, NewPod, PodType, TypeInv, TypeOK, Shape
<1>5. CASE LegacyInit
  <2>1. [phase |-> "ready", rev |-> CnfChecksum(spec), cnf |-> spec] \in PodType
    BY <1>1, <1>2 DEF PodType
  <2>2. sts \in StsRecord
    BY <1>2, <1>5 DEF LegacyInit, StsRecord
  <2>3. \A p \in Pods : pods[p].cnf = spec
    BY <1>5 DEF LegacyInit
  <2>4. spec # None
    BY <1>1, NoneAssumption
  <2> QED
    BY <1>1, <1>3, <1>5, <2>1, <2>2, <2>3, <2>4
    DEF Init, LegacyInit, TypeInv, TypeOK, Shape
<1> QED
  BY <1>4, <1>5 DEF Init

\* Every step of controller, pods and users keeps the types.
LEMMA TypeNext == TypeInv /\ [Next]_vars => TypeInv'
<1> SUFFICES ASSUME TypeInv, [Next]_vars PROVE TypeInv'
  OBVIOUS
<1> USE DEF TypeInv
<1>1. ASSUME NEW c \in Cnfs, EditSpec(c) PROVE TypeInv'
  BY <1>1, CnfAssumption, SMT DEF EditSpec, TypeOK, Shape
<1>2. CASE StartReconcile
  <2>1. job' \in JobType /\ job'.pc = "read" /\ job'.new = spec
    BY <1>2 DEF StartReconcile, IdleJob, JobType, TypeOK
  <2>2. spec # None
    BY NoneAssumption DEF TypeOK
  <2> QED
    BY <1>2, <2>1, <2>2 DEF StartReconcile, TypeOK, Shape
<1>3. CASE ensureCnfSecret
  <2>1. job' \in JobType /\ job'.pc = "resolve" /\ job'.new = job.new
    BY <1>3 DEF ensureCnfSecret, JobType, TypeOK
  <2>2. job.new \in Cnf /\ job.new # None
    BY <1>3 DEF ensureCnfSecret, JobType, TypeOK, Shape
  <2> QED
    BY <1>3, <2>1, <2>2 DEF ensureCnfSecret, TypeOK, Shape
<1>4. CASE resolveRestartChecksum
  <2> DEFINE c == classifyCnfChange(job.old, job.new, sts)
  <2>1. job.new \in Cnf /\ job.new # None /\ job.old \in Cnf \cup {None}
        /\ sts \in StsRecord \cup {None}
    BY <1>4 DEF resolveRestartChecksum, JobType, TypeOK, Shape
  <2>2. /\ c.changed \in SUBSET Vars
        /\ c.verdict \in {"keepPrev", "runtimeTry"} => sts # None
    BY <2>1, ClassifyVerdict
  <2>3. CnfChecksum(job.new) \in Checksum
    BY <2>1, ChecksumType
  <2>4. sts # None => sts.checksum \in Checksum
    BY <2>1 DEF StsRecord
  <2>5. None \notin Checksum
    BY NoneAssumption
  <2>6. ASSUME NEW k \in Checksum, Save(k) PROVE TypeInv'
    <3>1. job' \in JobType /\ job'.pc = "save" /\ job'.new = job.new
          /\ job'.checksum = k
      BY <2>6 DEF Save, JobType, TypeOK
    <3> QED
      BY <1>4, <2>1, <2>5, <3>1 DEF resolveRestartChecksum, TypeOK, Shape
  <2>7. ASSUME job' = [job EXCEPT !.pc = "push", !.changed = c.changed,
                                  !.todo = ReadyPods],
               sts # None
        PROVE  TypeInv'
    <3>1. ReadyPods \in SUBSET Pods
      BY DEF ReadyPods
    <3> HIDE DEF c
    <3>2. job' \in JobType /\ job'.pc = "push" /\ job'.new = job.new
      BY <2>2, <2>7, <3>1 DEF JobType, TypeOK
    <3> QED
      BY <1>4, <2>1, <2>7, <3>2 DEF resolveRestartChecksum, TypeOK, Shape
  <2> QED
    BY <1>4, <2>2, <2>3, <2>4, <2>6, <2>7 DEF resolveRestartChecksum
<1>5. ASSUME NEW p \in Pods, PushOk(p) PROVE TypeInv'
  <2>3. /\ pods' \in [Pods -> PodType]
        /\ \A q \in Pods : pods'[q].phase = pods[q].phase
                           /\ (pods[q].phase # "down" => pods'[q].cnf # None)
    BY <1>5, PodsPushed DEF PushOk
  <2>4. job.new \in Cnf /\ job.new # None /\ sts \in StsRecord /\ sts # None
    BY <1>5 DEF PushOk, JobType, TypeOK, Shape
  <2>5. CnfChecksum(job.new) \in Checksum /\ sts.checksum \in Checksum
        /\ None \notin Checksum
    BY <2>4, ChecksumType, NoneAssumption DEF StsRecord
  <2>6. /\ job' \in JobType /\ job'.new = job.new
        /\ job'.pc \in {"push", "save"}
        /\ job'.pc = "save" => job'.checksum # None
    <3> DEFINE bad == job.mismatched
                      \/ \E x \in job.changed : Pushed(p, 3)[x] # job.new.v[x]
               rest == job.todo \ {p}
    <3>1. bad \in BOOLEAN /\ rest \in SUBSET Pods
      BY DEF JobType, TypeOK
    <3>2. job' = IF rest # {}
                 THEN [job EXCEPT !.todo = rest, !.mismatched = bad]
                 ELSE [job EXCEPT
                         !.pc = "save", !.todo = {}, !.mismatched = bad,
                         !.checksum = IF bad THEN CnfChecksum(job.new)
                                             ELSE sts.checksum]
      BY <1>5 DEF PushOk
    <3> HIDE DEF bad, rest
    <3>3. CASE rest # {}
      <4>1. job' = [job EXCEPT !.todo = rest, !.mismatched = bad]
        BY <3>2, <3>3
      <4>2. job.pc = "push" /\ job \in JobType
        BY <1>5 DEF PushOk, TypeOK
      <4> QED
        BY <3>1, <4>1, <4>2 DEF JobType
    <3>4. CASE rest = {}
      <4> DEFINE k == IF bad THEN CnfChecksum(job.new) ELSE sts.checksum
      <4>1. k \in Checksum
        BY <2>5
      <4>2. job' = [job EXCEPT !.pc = "save", !.todo = {},
                               !.mismatched = bad, !.checksum = k]
        BY <3>2, <3>4
      <4> HIDE DEF k
      <4> QED
        BY <2>5, <3>1, <4>1, <4>2 DEF JobType, TypeOK
    <3> QED
      BY <3>3, <3>4
  <2> QED
    BY <1>5, <2>3, <2>4, <2>6 DEF PushOk, TypeOK, Shape
<1>6. ASSUME NEW p \in Pods, NEW k \in 0..3, PushFails(p, k) PROVE TypeInv'
  <2>1. job' \in JobType /\ job'.pc = "idle"
    BY <1>6 DEF PushFails, IdleJob, JobType
  <2>2a. degraded' \in BOOLEAN /\ queued' \in BOOLEAN
    BY <1>6 DEF PushFails, TypeOK
  <2>2b. faults' \in Nat
    BY <1>6, SMT DEF PushFails, Fault, TypeOK
  <2>3. CASE pods[p].phase = "down"
    BY <1>6, <2>1, <2>2a, <2>2b, <2>3 DEF PushFails, TypeOK, Shape
  <2>4. CASE pods[p].phase # "down"
    <3>1. /\ pods' \in [Pods -> PodType]
          /\ \A q \in Pods : pods'[q].phase # "down" => pods'[q].cnf # None
      BY <1>6, <2>4, PodsPushed DEF PushFails
    <3> QED
      BY <1>6, <2>1, <2>2a, <2>2b, <3>1 DEF PushFails, TypeOK, Shape
  <2> QED
    BY <2>3, <2>4
<1>7. CASE ensureStatefulSet
  <2>1. job.new \in Cnf /\ job.checksum \in Checksum
    BY <1>7 DEF ensureStatefulSet, JobType, TypeOK, Shape
  <2>2. sts' \in StsRecord
    BY <1>7, <2>1 DEF ensureStatefulSet, StsRecord, Cnf, varsHash, structuralHash
  <2>3. job' \in JobType /\ job'.pc = "status"
    BY <1>7 DEF ensureStatefulSet, IdleJob, JobType
  <2> QED
    BY <1>7, <2>2, <2>3 DEF ensureStatefulSet, TypeOK, Shape
<1>8. IdleJob \in JobType /\ IdleJob.pc = "idle"
  BY DEF IdleJob, JobType
<1>8a. CASE updateStatus
  BY <1>8, <1>8a DEF updateStatus, TypeOK, Shape
<1>8b. CASE Interrupt
  BY <1>8, <1>8b, SMT DEF Interrupt, Fault, TypeOK, Shape
<1>9. ASSUME NEW p \in Pods,
             Kubernetes(p) \/ LoseReady(p) \/ PodFails(p)
      PROVE  TypeInv'
  <2>1. CASE RollPod(p)
    <3>1. sts.checksum \in Checksum
      BY <2>1 DEF RollPod, TypeOK, StsRecord
    <3> QED
      BY <2>1, <3>1, ZenonT(30) DEF RollPod, TypeOK, Shape, PodType
  <2>2. CASE Boot(p)
    BY <2>2, ZenonT(30) DEF Boot, TypeOK, Shape, PodType
  <2>3. CASE BecomeReady(p)
    BY <2>3 DEF BecomeReady, TypeOK, Shape, PodType
  <2>4. CASE LoseReady(p)
    BY <2>4, SMT DEF LoseReady, Fault, TypeOK, Shape, PodType
  <2>5. CASE PodFails(p)
    BY <2>5, SMT DEF PodFails, Fault, TypeOK, Shape, PodType
  <2> QED
    BY <1>9, <2>1, <2>2, <2>3, <2>4, <2>5 DEF Kubernetes
<1>10. CASE UNCHANGED vars
  BY <1>10 DEF vars, TypeOK, Shape
<1> QED
  BY <1>1, <1>2, <1>3, <1>4, <1>5, <1>6, <1>7, <1>8a, <1>8b, <1>9, <1>10
  DEF Next, Reconcile, Push

\* Every reachable state of the cluster controller is well typed: no pass
\* uses a content, a checksum or a StatefulSet it has not got.
THEOREM TypeCorrect == Spec => []TypeOK
<1>1. TypeInv => TypeOK
  BY DEF TypeInv
<1> QED
  BY <1>1, TypeInit, TypeNext, PTL DEF Spec

-----------------------------------------------------------------------------
(* The structural marker.  Each hop of a structure from the custom resource *)
(* to a pod only moves it forward: what a template promises is at most the  *)
(* structure of every pod that booted from it, which is at most the         *)
(* Secret's, so when marker and Secret agree the pod is squeezed between.   *)

\* Edits never return to an earlier structure.
MonotoneEdits == \A e \in Edits : e[1].s <= e[2].s

PodOrder(p) ==
    /\ pods[p].rev # None => sts # None /\ pods[p].rev[1] <= sts.struct
    /\ pods[p].phase # "down" =>
         /\ pods[p].rev # None /\ pods[p].rev[1] <= pods[p].cnf.s
         /\ secret # None /\ pods[p].cnf.s <= secret.s

Order ==
    /\ secret # None => secret.s <= spec.s
    /\ sts # None => /\ secret # None
                     /\ sts.struct \in Nat
                     /\ sts.struct = sts.checksum[1]
                     /\ sts.struct <= secret.s
    /\ \A p \in Pods : PodOrder(p)

JobOrder ==
    /\ job.pc \in {"read", "resolve", "push", "save"} => job.new.s <= spec.s
    /\ job.pc = "read" /\ secret # None => secret.s <= job.new.s
    /\ job.pc \in {"resolve", "push", "save"} => secret = job.new
    /\ job.pc = "push" => sts.struct = job.new.s
    /\ job.pc = "save" => job.checksum[1] = job.new.s

StructInv == TypeInv /\ Order /\ JobOrder

\* The structural order holds at the start, unless markers are missing.
LEMMA StructInit == ~Legacy /\ Init => StructInv
<1> SUFFICES ASSUME ~Legacy, Init PROVE StructInv
  OBVIOUS
<1>1. TypeInv
  BY TypeInit
<1>2. FreshInit /\ job.pc = "idle"
  BY DEF Init, LegacyInit, IdleJob
<1> QED
  BY <1>1, <1>2 DEF FreshInit, NewPod, StructInv, Order, PodOrder, JobOrder

\* Every step keeps the structural order, if edits never go back.
LEMMA StructNext == MonotoneEdits /\ StructInv /\ [Next]_vars => StructInv'
<1> SUFFICES ASSUME MonotoneEdits, StructInv, [Next]_vars PROVE StructInv'
  OBVIOUS
<1>0. TypeInv /\ TypeInv'
  BY TypeNext DEF StructInv
<1> SUFFICES Order' /\ JobOrder'
  BY <1>0 DEF StructInv
<1>T. /\ spec \in Cnf /\ spec.s \in Nat
      /\ secret # None => secret \in Cnf /\ secret.s \in Nat
      /\ \A p \in Pods :
           /\ pods[p].rev # None => pods[p].rev[1] \in Nat
           /\ pods[p].phase # "down" => pods[p].cnf \in Cnf /\ pods[p].cnf.s \in Nat
      /\ job.pc \in {"read", "resolve", "push", "save"}
           => job.new \in Cnf /\ job.new # None /\ job.new.s \in Nat
  BY <1>0 DEF TypeInv, TypeOK, Shape, Cnf, PodType, JobType, Checksum
<1>1. ASSUME NEW c \in Cnfs, EditSpec(c) PROVE Order' /\ JobOrder'
  <2>1. spec.s <= c.s /\ c.s \in Nat
    BY <1>1, CnfAssumption DEF EditSpec, MonotoneEdits, Cnf
  <2>2. Order'
    BY <1>1, <1>T, <2>1, SMT DEF EditSpec, StructInv, Order, PodOrder
  <2>3. JobOrder'
    BY <1>1, <1>T, <2>1, SMT DEF EditSpec, StructInv, JobOrder
  <2> QED
    BY <2>2, <2>3
<1>2. CASE StartReconcile
  <2>1. job'.pc = "read" /\ job'.new = spec
    BY <1>2 DEF StartReconcile, IdleJob
  <2>2. Order'
    BY <1>2 DEF StartReconcile, StructInv, Order, PodOrder
  <2>3. JobOrder'
    BY <1>2, <1>T, <2>1, SMT DEF StartReconcile, StructInv, Order, PodOrder, JobOrder
  <2> QED
    BY <2>2, <2>3
<1>3. CASE ensureCnfSecret
  <2>1. job'.pc = "resolve" /\ job'.new = job.new
    BY <1>0, <1>3 DEF ensureCnfSecret, TypeInv, TypeOK, JobType
  <2>2. /\ job.new.s <= spec.s /\ secret' = job.new /\ job.new # None
        /\ job.new.s \in Nat
        /\ secret # None => secret.s <= job.new.s
        /\ UNCHANGED <<spec, sts, pods>>
    BY <1>3, <1>T DEF ensureCnfSecret, StructInv, JobOrder
  <2>3. Order'
    BY <1>T, <2>2, SMT DEF StructInv, Order, PodOrder
  <2>4. JobOrder'
    BY <2>1, <2>2 DEF JobOrder
  <2> QED
    BY <2>3, <2>4
<1>4. CASE resolveRestartChecksum
  <2> DEFINE c == classifyCnfChange(job.old, job.new, sts)
  <2>1. /\ job.pc = "resolve" /\ job.new \in Cnf
        /\ job.old \in Cnf \cup {None} /\ sts \in StsRecord \cup {None}
        /\ secret = job.new /\ job.new.s <= spec.s
    BY <1>0, <1>4, <1>T
    DEF resolveRestartChecksum, TypeInv, TypeOK, JobType, StructInv, JobOrder
  <2>2. UNCHANGED <<spec, secret, sts, pods>>
    BY <1>4 DEF resolveRestartChecksum
  <2>3. Order'
    BY <2>2 DEF StructInv, Order, PodOrder
  <2>4. c.verdict \in {"keepPrev", "runtimeTry"}
          => sts # None /\ sts.struct = job.new.s /\ sts.checksum[1] = job.new.s
    <3>1. c.verdict \in {"keepPrev", "runtimeTry"}
            => sts # None /\ (sts.checksum = CnfChecksum(job.new)
                                \/ sts.struct \in {None, job.new.s})
      BY <2>1, ClassifyVerdict
    <3>2. sts # None => sts.struct # None /\ sts.struct = sts.checksum[1]
      BY NoneAssumption DEF StructInv, Order, PodOrder
    <3>3. CnfChecksum(job.new)[1] = job.new.s
      BY DEF CnfChecksum, structuralHash
    <3> HIDE DEF c
    <3> QED
      BY <3>1, <3>2, <3>3
  <2>5. ASSUME NEW k, Save(k), k[1] = job.new.s PROVE JobOrder'
    <3>1. job'.pc = "save" /\ job'.new = job.new /\ job'.checksum = k
      BY <1>0, <2>5 DEF Save, TypeInv, TypeOK, JobType
    <3> QED
      BY <2>1, <2>2, <2>5, <3>1 DEF JobOrder
  <2>6. ASSUME job' = [job EXCEPT !.pc = "push", !.changed = c.changed,
                                  !.todo = ReadyPods],
               sts.struct = job.new.s
        PROVE  JobOrder'
    <3> HIDE DEF c
    <3>1. job'.pc = "push" /\ job'.new = job.new
      BY <1>0, <2>6 DEF TypeInv, TypeOK, JobType
    <3> QED
      BY <2>1, <2>2, <2>6, <3>1 DEF JobOrder
  <2>7. CnfChecksum(job.new)[1] = job.new.s
    BY DEF CnfChecksum, structuralHash
  <2>8. JobOrder'
    BY <1>4, <2>4, <2>5, <2>6, <2>7 DEF resolveRestartChecksum
  <2> QED
    BY <2>3, <2>8
<1>5. ASSUME NEW p \in Pods, PushOk(p) PROVE Order' /\ JobOrder'
  <2>1. UNCHANGED <<spec, secret, sts>>
    BY <1>5 DEF PushOk
  <2>2. \A q \in Pods :
          /\ pods'[q].phase = pods[q].phase
          /\ pods'[q].rev = pods[q].rev
          /\ pods[q].phase # "down" => pods'[q].cnf.s = pods[q].cnf.s
    BY <1>0, <1>5, PodsPushed DEF PushOk
  <2>3. Order'
    BY <2>1, <2>2 DEF StructInv, Order, PodOrder
  <2>4. /\ job.pc = "push" /\ sts # None /\ secret = job.new
        /\ job.new.s <= spec.s /\ sts.struct = job.new.s
        /\ sts.checksum[1] = job.new.s
    BY <1>0, <1>5 DEF PushOk, StructInv, TypeInv, Shape, Order, PodOrder, JobOrder
  <2>5. \/ job'.pc = "push" /\ job'.new = job.new
        \/ /\ job'.pc = "save" /\ job'.new = job.new
           /\ job'.checksum \in {CnfChecksum(job.new), sts.checksum}
    BY <1>0, <1>5 DEF PushOk, TypeInv, TypeOK, JobType
  <2>6. CnfChecksum(job.new)[1] = job.new.s
    BY DEF CnfChecksum, structuralHash
  <2>7. JobOrder'
    BY <2>1, <2>4, <2>5, <2>6 DEF JobOrder
  <2> QED
    BY <2>3, <2>7
<1>6. ASSUME NEW p \in Pods, NEW k \in 0..3, PushFails(p, k)
      PROVE  Order' /\ JobOrder'
  <2>1. UNCHANGED <<spec, secret, sts>> /\ job'.pc = "idle"
    BY <1>6 DEF PushFails, IdleJob
  <2>2. \A q \in Pods :
          /\ pods'[q].phase = pods[q].phase
          /\ pods'[q].rev = pods[q].rev
          /\ pods[q].phase # "down" => pods'[q].cnf.s = pods[q].cnf.s
    <3>1. CASE pods[p].phase = "down"
      BY <1>6, <3>1 DEF PushFails
    <3>2. CASE pods[p].phase # "down"
      BY <1>0, <1>6, <3>2, PodsPushed DEF PushFails
    <3> QED
      BY <3>1, <3>2
  <2>3. Order'
    BY <2>1, <2>2 DEF StructInv, Order, PodOrder
  <2> QED
    BY <2>1, <2>3 DEF JobOrder
<1>7. CASE ensureStatefulSet
  <2>1. /\ job.pc = "save" /\ secret = job.new /\ job.new # None
        /\ job.checksum[1] = job.new.s /\ job.new.s \in Nat
    BY <1>7, <1>T DEF ensureStatefulSet, StructInv, JobOrder
  <2>2. /\ UNCHANGED <<spec, secret, pods>> /\ job'.pc = "status"
        /\ sts'.checksum = job.checksum /\ sts'.struct = job.new.s
    BY <1>7 DEF ensureStatefulSet, IdleJob, structuralHash
  <2>3. sts' # None
    BY <1>0, <1>7, NoneAssumption, SMT
    DEF ensureStatefulSet, TypeInv, TypeOK, StsRecord, Shape, JobType, varsHash,
        structuralHash, Cnf
  <2>4. Order'
    BY <1>T, <2>1, <2>2, <2>3, SMT DEF StructInv, Order, PodOrder
  <2> QED
    BY <2>2, <2>4 DEF JobOrder
<1>8. CASE updateStatus
  BY <1>8 DEF updateStatus, IdleJob, StructInv, Order, PodOrder, JobOrder
<1>9. CASE Interrupt
  BY <1>9 DEF Interrupt, IdleJob, StructInv, Order, PodOrder, JobOrder
<1>10. ASSUME NEW p \in Pods,
              Kubernetes(p) \/ LoseReady(p) \/ PodFails(p)
       PROVE  Order' /\ JobOrder'
  <2>1. UNCHANGED <<spec, secret, sts, job>>
    BY <1>10 DEF Kubernetes, RollPod, Boot, BecomeReady, LoseReady, PodFails
  <2>2. JobOrder'
    BY <2>1 DEF StructInv, JobOrder
  <2>3. pods \in [Pods -> PodType]
    BY <1>0 DEF TypeInv, TypeOK
  <2>4. CASE RollPod(p)
    BY <1>T, <2>1, <2>3, <2>4, SMT DEF RollPod, PodType, StructInv, Order, PodOrder
  <2>5. CASE Boot(p)
    <3>1. /\ pods'[p].rev = pods[p].rev /\ pods'[p].cnf = secret
          /\ pods[p].rev # None /\ secret # None
          /\ \A q \in Pods : q # p => pods'[q] = pods[q]
      BY <2>3, <2>5 DEF Boot, PodType
    <3>2. PodOrder(p)'
      BY <1>T, <2>1, <3>1, SMT DEF StructInv, Order, PodOrder
    <3>3. \A q \in Pods : q # p => PodOrder(q)'
      BY <2>1, <3>1 DEF StructInv, Order, PodOrder
    <3> QED
      BY <2>1, <2>2, <3>2, <3>3 DEF StructInv, Order
  <2>6. CASE BecomeReady(p)
    <3>1. /\ pods'[p].rev = pods[p].rev /\ pods'[p].cnf = pods[p].cnf
          /\ pods[p].phase # "down"
          /\ \A q \in Pods : q # p => pods'[q] = pods[q]
      BY <2>3, <2>6 DEF BecomeReady, PodType
    <3>2. PodOrder(p)'
      BY <1>T, <2>1, <3>1 DEF StructInv, Order, PodOrder
    <3>3. \A q \in Pods : q # p => PodOrder(q)'
      BY <2>1, <3>1 DEF StructInv, Order, PodOrder
    <3> QED
      BY <2>1, <2>2, <3>2, <3>3 DEF StructInv, Order
  <2>7. CASE LoseReady(p)
    <3>1. /\ pods'[p].rev = pods[p].rev /\ pods'[p].cnf = pods[p].cnf
          /\ pods[p].phase # "down"
          /\ \A q \in Pods : q # p => pods'[q] = pods[q]
      BY <2>3, <2>7 DEF LoseReady, PodType
    <3>2. PodOrder(p)'
      BY <1>T, <2>1, <3>1 DEF StructInv, Order, PodOrder
    <3>3. \A q \in Pods : q # p => PodOrder(q)'
      BY <2>1, <3>1 DEF StructInv, Order, PodOrder
    <3> QED
      BY <2>1, <2>2, <3>2, <3>3 DEF StructInv, Order
  <2>8. CASE PodFails(p)
    <3>1. /\ pods'[p].rev = pods[p].rev /\ pods'[p].cnf = pods[p].cnf
          /\ pods'[p].phase = "down"
          /\ \A q \in Pods : q # p => pods'[q] = pods[q]
      BY <2>3, <2>8 DEF PodFails, PodType
    <3>2. PodOrder(p)'
      BY <1>T, <2>1, <3>1 DEF StructInv, Order, PodOrder
    <3>3. \A q \in Pods : q # p => PodOrder(q)'
      BY <2>1, <3>1 DEF StructInv, Order, PodOrder
    <3> QED
      BY <2>1, <2>2, <3>2, <3>3 DEF StructInv, Order
  <2> QED
    BY <1>10, <2>2, <2>4, <2>5, <2>6, <2>7, <2>8 DEF Kubernetes
<1>11. CASE UNCHANGED vars
  BY <1>11 DEF vars, StructInv, Order, PodOrder, JobOrder
<1> QED
  BY <1>1, <1>2, <1>3, <1>4, <1>5, <1>6, <1>7, <1>8, <1>9, <1>10, <1>11
  DEF Next, Reconcile, Push

\* Whatever the interleaving, the crashes, the failing pushes and the failing
\* pods: an interruption between the write of the cnf Secret and the write of
\* the StatefulSet never loses the rolling restart a structural change needs.
THEOREM StructuralRestartNotLost ==
    ASSUME ~Legacy, MonotoneEdits
    PROVE  Spec => []StructMarkerHonest
<1>1. Init => StructInv
  BY StructInit
<1>2. StructInv /\ [Next]_vars => StructInv'
  BY StructNext
<1>3. StructInv => StructMarkerHonest
  <2> SUFFICES ASSUME StructInv, sts # None, secret # None,
                      sts.struct = structuralHash(secret),
                      NEW p \in Pods, pods[p].phase # "down",
                      pods[p].rev = sts.checksum
               PROVE  pods[p].cnf.s = secret.s
    BY DEF StructMarkerHonest
  <2>1. pods[p].cnf.s \in Nat /\ secret.s \in Nat
    BY DEF StructInv, TypeInv, TypeOK, Shape, Cnf, PodType
  <2>2. secret.s <= pods[p].cnf.s /\ pods[p].cnf.s <= secret.s
    BY DEF StructInv, Order, PodOrder, structuralHash
  <2> QED
    BY <2>1, <2>2, SMT
<1> QED
  BY <1>1, <1>2, <1>3, PTL DEF Spec

-----------------------------------------------------------------------------
(* No lost wake-up.  A pass that has not been told to run again works on   *)
(* the content the custom resource still asks for, and whatever it wrote   *)
(* has put the cluster back on the queue.                                  *)

\* The Secret and both markers of the StatefulSet are the custom resource's.
Current ==
    /\ secret = spec
    /\ sts # None
    /\ sts.vars = varsHash(spec)
    /\ sts.struct = structuralHash(spec)

WakeOrder ==
    /\ job.pc \in {"read", "resolve", "push", "save"} /\ ~queued
         => job.new = spec
    /\ job.pc \in {"resolve", "push", "save"} => secret = job.new
    /\ job.pc = "status" /\ ~queued => Current
    /\ job.pc = "idle" /\ ~queued => Current /\ ~degraded

WakeInv == TypeInv /\ WakeOrder

\* What the write of the StatefulSet leaves (ensureStatefulSet): an object
\* with the new content's markers and the decided checksum.
LEMMA StatefulSetWritten ==
    ASSUME TypeInv, ensureStatefulSet
    PROVE  /\ sts' # None
           /\ sts'.checksum = job.checksum
           /\ sts'.vars = job.new.v
           /\ sts'.struct = job.new.s
           /\ job'.pc = "status"
<1>1. job.new \in Cnf /\ job.checksum \in Checksum
  BY DEF ensureStatefulSet, TypeInv, TypeOK, Shape, JobType
<1>2. sts' \in StsRecord
  BY <1>1 DEF ensureStatefulSet, StsRecord, Cnf, varsHash, structuralHash
<1>3. sts' # None
  BY <1>2, NoneAssumption DEF StsRecord
<1> QED
  BY <1>3 DEF ensureStatefulSet, IdleJob, varsHash, structuralHash

\* The first state has the cluster on the queue.
LEMMA WakeInit == Init => WakeInv
  BY TypeInit, SMT DEF Init, IdleJob, WakeInv, WakeOrder

\* Every step keeps the pass, or the queue, aware of what is not current.
LEMMA WakeNext == WakeInv /\ [Next]_vars => WakeInv'
<1> SUFFICES ASSUME WakeInv, [Next]_vars PROVE WakeInv'
  OBVIOUS
<1>0. TypeInv /\ TypeInv' /\ WakeOrder
  BY TypeNext DEF WakeInv
<1> SUFFICES WakeOrder'
  BY <1>0 DEF WakeInv
<1>J. job \in JobType
  BY <1>0 DEF TypeInv, TypeOK
<1>1. ASSUME NEW c \in Cnfs, EditSpec(c) PROVE WakeOrder'
  BY <1>0, <1>1 DEF EditSpec, WakeOrder
<1>2. CASE StartReconcile
  <2>1. job'.pc = "read" /\ job'.new = spec /\ UNCHANGED spec
    BY <1>2 DEF StartReconcile, IdleJob
  <2> QED
    BY <2>1 DEF WakeOrder
<1>3. CASE ensureCnfSecret
  <2>1. job'.pc = "resolve" /\ job'.new = job.new /\ job.pc = "read"
    BY <1>3, <1>J DEF ensureCnfSecret, JobType
  <2>2. secret' = job.new /\ UNCHANGED spec /\ (~queued' => ~queued)
    BY <1>3 DEF ensureCnfSecret
  <2> QED
    BY <1>0, <2>1, <2>2 DEF WakeOrder
<1>4. CASE resolveRestartChecksum
  <2>1. /\ job'.pc \in {"push", "save"} /\ job'.new = job.new
        /\ job.pc = "resolve" /\ UNCHANGED <<spec, secret, queued>>
    BY <1>4, <1>J DEF resolveRestartChecksum, Save, JobType
  <2> QED
    BY <1>0, <2>1 DEF WakeOrder
<1>5. ASSUME NEW p \in Pods, PushOk(p) PROVE WakeOrder'
  <2>1. /\ job'.pc \in {"push", "save"} /\ job'.new = job.new
        /\ job.pc = "push" /\ UNCHANGED <<spec, secret, queued>>
    BY <1>5, <1>J DEF PushOk, JobType
  <2> QED
    BY <1>0, <2>1 DEF WakeOrder
<1>6. ASSUME NEW p \in Pods, NEW k \in 0..3, PushFails(p, k) PROVE WakeOrder'
  BY <1>6 DEF PushFails, IdleJob, WakeOrder
<1>7. CASE ensureStatefulSet
  <2>1. /\ sts' # None /\ sts'.vars = job.new.v /\ sts'.struct = job.new.s
        /\ job'.pc = "status"
    BY <1>0, <1>7, StatefulSetWritten
  <2>2. job.pc = "save" /\ UNCHANGED <<spec, secret>> /\ (~queued' => ~queued)
    BY <1>7 DEF ensureStatefulSet
  <2>3. ~queued' => Current'
    BY <1>0, <2>1, <2>2 DEF WakeOrder, Current, varsHash, structuralHash
  <2> QED
    BY <2>1, <2>3 DEF WakeOrder
<1>8. CASE updateStatus
  <2>1. /\ job.pc = "status" /\ job'.pc = "idle" /\ ~degraded'
        /\ UNCHANGED <<spec, secret, sts, queued>>
    BY <1>8 DEF updateStatus, IdleJob
  <2>2. ~queued' => Current'
    BY <1>0, <2>1 DEF WakeOrder, Current
  <2> QED
    BY <2>1, <2>2 DEF WakeOrder
<1>9. CASE Interrupt
  BY <1>9 DEF Interrupt, IdleJob, WakeOrder
<1>10. ASSUME NEW p \in Pods,
              Kubernetes(p) \/ LoseReady(p) \/ PodFails(p)
       PROVE  WakeOrder'
  <2>1. UNCHANGED <<spec, secret, sts, job, degraded>> /\ (~queued' => ~queued)
    BY <1>10, SMT DEF Kubernetes, RollPod, Boot, BecomeReady, LoseReady, PodFails
  <2> QED
    BY <1>0, <2>1 DEF WakeOrder, Current
<1>11. CASE UNCHANGED vars
  BY <1>0, <1>11 DEF vars, WakeOrder, Current
<1> QED
  BY <1>1, <1>2, <1>3, <1>4, <1>5, <1>6, <1>7, <1>8, <1>9, <1>10, <1>11
  DEF Next, Reconcile, Push

\* No wake-up is ever lost, whatever the edits, the faults, the previous
\* operator and their interleaving with a pass: when the controller rests,
\* what it wrote is what the custom resource asks for.
THEOREM NoLostWakeup == Spec => []RestsOnlyWhenCurrent
<1>1. WakeInv => RestsOnlyWhenCurrent
  BY DEF WakeInv, WakeOrder, Current, RestsOnlyWhenCurrent
<1> QED
  BY <1>1, WakeInit, WakeNext, PTL DEF Spec

-----------------------------------------------------------------------------
(* The variables marker and the reasons for a restart, where edits wait    *)
(* for the previous one to have converged and the pods do not fail by      *)
(* themselves; crashes, API errors and failing pushes are arbitrary.       *)

Calm ==
    /\ EditWhen = "converged"
    /\ FaultKinds \subseteq {"interrupt", "push"}

\* The cluster is in one of four modes.  No StatefulSet yet:
Unborn ==
    /\ sts = None
    /\ secret \in {None, spec}
    /\ \A p \in Pods : pods[p].phase = "down" /\ pods[p].rev = None

\* a StatefulSet left by an operator that predates the markers:
Unmarked ==
    /\ sts # None
    /\ sts.vars = None /\ sts.struct = None
    /\ sts.checksum = CnfChecksum(spec)
    /\ secret \in {None, spec}
    /\ AllReady
    /\ \A p \in Pods : pods[p].cnf = spec

\* the content asked for is recorded, and what runs is it or is outdated:
Applied ==
    /\ sts # None
    /\ sts.vars = spec.v /\ sts.struct = spec.s
    /\ secret = spec
    /\ \A p \in Pods : pods[p].phase # "down" /\ pods[p].rev = sts.checksum
                         => pods[p].cnf = spec

\* an edit is under way: every pod is still up, and runs a mixture of the
\* content recorded and the content asked for.
Between(p) ==
    /\ pods[p].cnf.s = sts.struct
    /\ \A x \in Vars : pods[p].cnf.v[x] \in {sts.vars[x], spec.v[x]}
    /\ \A x \in Stubborn : pods[p].cnf.v[x] = sts.vars[x]

Pending ==
    /\ sts # None
    /\ sts.vars # None /\ sts.struct # None
    /\ sts.struct # spec.s \/ sts.vars # spec.v
    /\ AllReady
    /\ \A p \in Pods : Between(p)
    /\ secret # spec => /\ secret # None
                        /\ secret.s = sts.struct /\ secret.v = sts.vars
                        /\ \A p \in Pods : pods[p].cnf = secret

Modes == Unborn \/ Unmarked \/ Applied \/ Pending

\* A template's checksum agrees with a content on the structure and on the
\* variables only a restart can change.
Fits(k, s, v) ==
    /\ k[1] = s
    /\ \A p \in Pods, x \in Stubborn : k[2][x] = v[x]

Marked ==
    sts # None /\ sts.vars # None => Fits(sts.checksum, sts.struct, sts.vars)

\* What the pass in progress knows at each of its stages.
PassFits ==
    /\ job.pc \in {"read", "resolve", "push", "save"} => job.new = spec
    /\ job.pc \in {"resolve", "push", "save"} => secret = spec
    /\ job.pc = "read" => job.old = secret
    /\ job.pc \in {"read", "resolve"} => ~job.mismatched

OldFits ==
    /\ job.old = None => sts = None \/ sts.vars = None
    /\ job.old \notin {None, spec} =>
         sts # None /\ job.old.s = sts.struct /\ job.old.v = sts.vars

PushFits ==
    /\ Pending
    /\ sts.struct = spec.s
    /\ \A x \in Vars \ job.changed : sts.vars[x] = spec.v[x]
    /\ \A p \in Pods \ job.todo, x \in job.changed \ Stubborn :
         pods[p].cnf.v[x] = spec.v[x]
    /\ job.mismatched => \E x \in Stubborn : sts.vars[x] # spec.v[x]
    /\ ~job.mismatched =>
         \A p \in Pods \ job.todo, x \in job.changed \cap Stubborn :
           sts.vars[x] = spec.v[x]

SaveFits ==
    /\ Fits(job.checksum, spec.s, spec.v)
    /\ \A p \in Pods : pods[p].phase # "down" /\ pods[p].rev = job.checksum
                         => pods[p].cnf = spec
    /\ sts # None /\ job.checksum # sts.checksum =>
         /\ Pending
         /\ sts.struct # spec.s \/ \E x \in Stubborn : sts.vars[x] # spec.v[x]

StageFits ==
    /\ PassFits
    /\ job.pc = "resolve" => OldFits
    /\ job.pc = "push" => PushFits
    /\ job.pc = "save" => SaveFits

VarsInv == WakeInv /\ Modes /\ Marked /\ StageFits

\* Two contents are equal when their structure and variables are.
LEMMA CnfEqual ==
    /\ \A c, d \in Cnf : c.s = d.s /\ c.v = d.v => c = d
    /\ \A c, d \in Cnf : (\A x \in Vars : c.v[x] = d.v[x]) => c.v = d.v
  BY SMT DEF Cnf

\* The types the steps below use.
LEMMA VarsTypes ==
    ASSUME TypeInv
    PROVE  /\ spec \in Cnf /\ spec # None /\ spec.v # None /\ spec.s # None
           /\ secret # None => secret \in Cnf
           /\ sts # None => sts \in StsRecord /\ sts.checksum \in Checksum
           /\ \A p \in Pods : pods[p].phase # "down" => pods[p].cnf \in Cnf
           /\ job \in JobType /\ pods \in [Pods -> PodType]
           /\ job.pc \in {"read", "resolve", "push", "save"} => job.new \in Cnf
           /\ job.pc = "save" => job.checksum \in Checksum
<1>1. spec \in Cnf /\ (secret # None => secret \in Cnf)
      /\ (sts # None => sts \in StsRecord)
      /\ job \in JobType /\ pods \in [Pods -> PodType]
  BY DEF TypeInv, TypeOK
<1>2. spec # None /\ spec.v # None /\ spec.s # None
  BY <1>1, NoneAssumption DEF Cnf
<1>3. \A p \in Pods : pods[p].phase # "down" => pods[p].cnf \in Cnf
  BY <1>1 DEF TypeInv, Shape, PodType
<1>4. /\ job.pc \in {"read", "resolve", "push", "save"} => job.new \in Cnf
      /\ job.pc = "save" => job.checksum \in Checksum
  BY <1>1 DEF TypeInv, Shape, JobType
<1> QED
  BY <1>1, <1>2, <1>3, <1>4 DEF StsRecord

\* Where nothing but the pass moves, the modes and the markers stay.
LEMMA ModesFrame ==
    ASSUME Modes, Marked, UNCHANGED <<spec, secret, sts, pods>>
    PROVE  Modes' /\ Marked'
  BY DEF Modes, Marked, Unborn, Unmarked, Applied, Pending, Between, AllReady, Fits

\* The initial states: a new cluster, or one of an older operator.
LEMMA VarsInit == Init => VarsInv
<1> SUFFICES ASSUME Init PROVE VarsInv
  OBVIOUS
<1>1. WakeInv /\ TypeInv
  BY WakeInit, TypeInit
<1>2. StageFits
  BY DEF Init, IdleJob, StageFits, PassFits
<1>3. CASE FreshInit
  BY <1>1, <1>2, <1>3 DEF FreshInit, NewPod, VarsInv, Modes, Unborn, Marked
<1>4. CASE LegacyInit
  <2>1. sts # None
    BY <1>1, <1>4, NoneAssumption, SMT
    DEF LegacyInit, TypeInv, TypeOK, StsRecord, CnfChecksum, Cnf, Checksum,
        structuralHash, varsHash
  <2>2. /\ sts.vars = None /\ sts.struct = None
        /\ sts.checksum = CnfChecksum(spec)
    BY <1>4 DEF LegacyInit
  <2>3. \A p \in Pods : /\ pods[p].phase = "ready"
                        /\ pods[p].rev = CnfChecksum(spec)
                        /\ pods[p].cnf = spec
    BY <1>4 DEF LegacyInit
  <2>4. secret \in {None, spec}
    BY <1>4 DEF LegacyInit
  <2> QED
    BY <1>1, <1>2, <2>1, <2>2, <2>3, <2>4
    DEF VarsInv, Modes, Unmarked, AllReady, Marked
<1> QED
  BY <1>3, <1>4 DEF Init

\* An edit of the custom resource (EditSpec) finds everything applied, and
\* opens the next transition.
LEMMA VarsEdit ==
    ASSUME Calm, VarsInv, NEW c \in Cnfs, EditSpec(c)
    PROVE  Modes' /\ Marked' /\ StageFits'
<1>1. TypeInv /\ WakeOrder
  BY DEF VarsInv, WakeInv
<1>2. /\ job.pc = "idle" /\ ~queued /\ AllReady
      /\ \A p \in Pods : pods[p].cnf = spec
      /\ spec' = c /\ UNCHANGED <<secret, sts, pods, job>>
  BY DEF Calm, EditSpec, Converged
<1>3. Current
  BY <1>1, <1>2 DEF WakeOrder
<1>4. spec \in Cnf /\ c \in Cnf /\ spec # None /\ spec.v # None /\ spec.s # None
  BY <1>1, VarsTypes, CnfAssumption
<1>5. sts # None /\ sts.vars = spec.v /\ sts.struct = spec.s /\ secret = spec
  BY <1>3 DEF Current, varsHash, structuralHash
<1>6. Marked'
  BY <1>2 DEF VarsInv, Marked, Fits
<1>7. StageFits'
  BY <1>2 DEF StageFits, PassFits
<1>8. CASE c = spec
  BY <1>2, <1>5, <1>6, <1>7, <1>8 DEF Modes, Applied
<1>9. CASE c # spec
  <2>1. c.s # spec.s \/ c.v # spec.v
    BY <1>4, <1>9, CnfEqual
  <2>2. AllReady'
    BY <1>2 DEF AllReady
  <2>3. \A p \in Pods : Between(p)'
    BY <1>2, <1>5, VarAssumption DEF Between
  <2>4. Pending'
    BY <1>2, <1>4, <1>5, <2>1, <2>2, <2>3 DEF Pending
  <2> QED
    BY <1>6, <1>7, <2>4 DEF Modes
<1> QED
  BY <1>8, <1>9

\* A pass starts by reading the custom resource and the Secret.
LEMMA VarsStart ==
    ASSUME VarsInv, StartReconcile
    PROVE  Modes' /\ Marked' /\ StageFits'
<1>1. Modes' /\ Marked'
  BY ModesFrame DEF VarsInv, StartReconcile
<1>2. /\ job'.pc = "read" /\ job'.new = spec /\ job'.old = secret
      /\ ~job'.mismatched /\ UNCHANGED <<spec, secret>>
  BY DEF StartReconcile, IdleJob
<1> QED
  BY <1>1, <1>2 DEF StageFits, PassFits

\* The write of the Secret (ensureCnfSecret): what it held before is None
\* only where no marker exists, and otherwise what the markers record.
LEMMA VarsSecret ==
    ASSUME VarsInv, ensureCnfSecret
    PROVE  Modes' /\ Marked' /\ StageFits'
<1>1. /\ TypeInv /\ job.pc = "read" /\ job.new = spec /\ job.old = secret
      /\ ~job.mismatched /\ Modes /\ Marked
  BY DEF VarsInv, WakeInv, ensureCnfSecret, StageFits, PassFits
<1>2. /\ secret' = spec /\ UNCHANGED <<spec, sts, pods>>
      /\ job'.pc = "resolve" /\ job'.new = spec /\ job'.old = secret
      /\ job'.mismatched = job.mismatched
  BY <1>1, VarsTypes DEF ensureCnfSecret, JobType
<1>3. spec # None /\ spec.v # None
  BY <1>1, VarsTypes
<1>4. Modes'
  <2>1. CASE Unborn
    BY <1>2, <2>1 DEF Unborn, Modes
  <2>2. CASE Unmarked
    BY <1>2, <2>2 DEF Unmarked, AllReady, Modes
  <2>3. CASE Applied
    BY <1>2, <2>3 DEF Applied, Modes
  <2>4. CASE Pending
    BY <1>2, <2>4 DEF Pending, AllReady, Between, Modes
  <2> QED
    BY <1>1, <2>1, <2>2, <2>3, <2>4 DEF Modes
<1>5. Marked'
  BY <1>1, <1>2 DEF Marked, Fits
<1>6. OldFits'
  <2>1. secret = None => sts = None \/ sts.vars = None
    BY <1>1, <1>3 DEF Modes, Unborn, Unmarked, Applied, Pending
  <2>2. secret \notin {None, spec} =>
          sts # None /\ secret.s = sts.struct /\ secret.v = sts.vars
    BY <1>1 DEF Modes, Unborn, Unmarked, Applied, Pending
  <2> QED
    BY <1>2, <2>1, <2>2 DEF OldFits
<1> QED
  BY <1>1, <1>2, <1>4, <1>5, <1>6 DEF StageFits, PassFits

\* The decision of classifyCnfChange in each mode: nothing moves while the
\* content asked for is the recorded one, and an edit under way is either
\* structural or pushed with every variable that still differs.
LEMMA Decision ==
    ASSUME VarsInv, job.pc = "resolve",
           NEW c, c = classifyCnfChange(job.old, job.new, sts)
    PROVE  /\ Unborn \/ Unmarked => c.verdict = "bootHash"
           /\ Applied => \/ c.verdict = "bootHash"
                            /\ sts.checksum = CnfChecksum(spec)
                         \/ c.verdict = "keepPrev"
           /\ Pending => \/ c.verdict = "structural" /\ sts.struct # spec.s
                         \/ /\ c.verdict = "runtimeTry" /\ sts.struct = spec.s
                            /\ \A x \in Vars \ c.changed :
                                 sts.vars[x] = spec.v[x]
<1>1. /\ TypeInv /\ job.new = spec /\ secret = spec /\ OldFits /\ Marked
  BY DEF VarsInv, WakeInv, StageFits, PassFits
<1>2. /\ spec \in Cnf /\ spec # None /\ spec.v # None /\ spec.s # None
      /\ sts # None => sts \in StsRecord
      /\ job.old # None => job.old \in Cnf
  BY <1>1, VarsTypes DEF JobType
<1>3. Unborn \/ Unmarked => c.verdict = "bootHash"
  BY <1>1 DEF Unborn, Unmarked, classifyCnfChange, Verdict
<1>4. ASSUME Applied
      PROVE  \/ c.verdict = "bootHash" /\ sts.checksum = CnfChecksum(spec)
             \/ c.verdict = "keepPrev"
  <2>1. sts # None /\ sts.vars = spec.v /\ sts.struct = spec.s
    BY <1>4 DEF Applied
  <2>2. job.old = spec
    <3>1. job.old # None
      BY <1>1, <1>2, <2>1 DEF OldFits
    <3>2. job.old \notin {None, spec} => job.old.s = spec.s /\ job.old.v = spec.v
      BY <1>1, <2>1 DEF OldFits
    <3> QED
      BY <1>2, <3>1, <3>2, CnfEqual
  <2>3. CASE sts.checksum = CnfChecksum(spec)
    BY <1>1, <2>1, <2>3 DEF classifyCnfChange, Verdict, varsHash
  <2>4. CASE sts.checksum # CnfChecksum(spec)
    <3>1. c = classifyAgainstSecret(spec, spec, sts)
      BY <1>1, <2>1, <2>2, <2>4 DEF classifyCnfChange
    <3> QED
      BY <1>2, <2>1, <3>1, SMT
      DEF classifyAgainstSecret, Verdict, varsHash, structuralHash
  <2> QED
    BY <2>3, <2>4
<1>5. ASSUME Pending
      PROVE  \/ c.verdict = "structural" /\ sts.struct # spec.s
             \/ /\ c.verdict = "runtimeTry" /\ sts.struct = spec.s
                /\ \A x \in Vars \ c.changed : sts.vars[x] = spec.v[x]
  <2>1. /\ sts # None /\ sts.vars # None /\ sts.struct # None
        /\ sts.struct # spec.s \/ sts.vars # spec.v
        /\ sts.checksum[1] = sts.struct
    BY <1>1, <1>5 DEF Pending, Marked, Fits
  <2>2. /\ job.old # None
        /\ job.old # spec => job.old.s = sts.struct /\ job.old.v = sts.vars
    BY <1>1, <2>1 DEF OldFits
  <2>3. CASE sts.checksum = CnfChecksum(spec)
    <3>1. sts.struct = spec.s /\ sts.vars # spec.v
      BY <2>1, <2>3, SMT DEF CnfChecksum, structuralHash
    <3>2. c = Try(Vars)
      BY <1>1, <2>1, <2>2, <2>3, <3>1 DEF classifyCnfChange, varsHash
    <3> QED
      BY <3>1, <3>2, SMT DEF Try
  <2>4. CASE sts.checksum # CnfChecksum(spec)
    <3>1. c = classifyAgainstSecret(job.old, spec, sts)
      BY <1>1, <2>1, <2>4 DEF classifyCnfChange
    <3>2. CASE sts.struct # spec.s
      <4>1. c = Verdict("structural")
        BY <2>1, <2>2, <3>1, <3>2 DEF classifyAgainstSecret, structuralHash
      <4> QED
        BY <3>2, <4>1, SMT DEF Verdict
    <3>3. CASE sts.struct = spec.s /\ job.old.v # spec.v
      <4>1. job.old.s = spec.s /\ job.old.v = sts.vars
        BY <2>2, <3>3
      <4>2. c = Try({x \in Vars : job.old.v[x] # spec.v[x]})
        BY <2>1, <2>2, <3>1, <3>3, <4>1 DEF classifyAgainstSecret, structuralHash
      <4> QED
        BY <3>3, <4>1, <4>2, SMT DEF Try
    <3>4. CASE sts.struct = spec.s /\ job.old.v = spec.v
      <4>1. sts.vars # spec.v /\ job.old.s = spec.s
        BY <2>1, <2>2, <3>4
      <4>2. c = Try(Vars)
        BY <2>1, <2>2, <3>1, <3>4, <4>1
        DEF classifyAgainstSecret, structuralHash, varsHash
      <4> QED
        BY <3>4, <4>2, SMT DEF Try
    <3> QED
      BY <3>2, <3>3, <3>4
  <2> QED
    BY <2>3, <2>4
<1> QED
  BY <1>3, <1>4, <1>5

\* The decision is acted on (resolveRestartChecksum up to the first dial).
LEMMA VarsResolve ==
    ASSUME VarsInv, resolveRestartChecksum
    PROVE  Modes' /\ Marked' /\ StageFits'
<1> DEFINE c == classifyCnfChange(job.old, job.new, sts)
<1>1. /\ TypeInv /\ job.pc = "resolve" /\ job.new = spec /\ secret = spec
      /\ ~job.mismatched /\ Modes /\ Marked
      /\ UNCHANGED <<spec, secret, sts, pods>>
  BY DEF VarsInv, WakeInv, resolveRestartChecksum, StageFits, PassFits
<1>2. Modes' /\ Marked'
  BY <1>1, ModesFrame
<1>3. /\ spec \in Cnf /\ CnfChecksum(spec) \in Checksum /\ job \in JobType
      /\ spec.v # None /\ spec.s # None
  BY <1>1, VarsTypes, ChecksumType
<1>4. ASSUME NEW k, Save(k), Fits(k, spec.s, spec.v),
             \A p \in Pods : pods[p].phase # "down" /\ pods[p].rev = k
                               => pods[p].cnf = spec,
             sts # None /\ k # sts.checksum => Pending /\ sts.struct # spec.s
      PROVE  StageFits'
  <2>1. job'.pc = "save" /\ job'.new = spec /\ job'.checksum = k
    BY <1>1, <1>3, <1>4 DEF Save, JobType
  <2>2. Pending => Pending'
    BY <1>1 DEF Pending, AllReady, Between
  <2>3. SaveFits'
    BY <1>1, <1>4, <2>1, <2>2 DEF SaveFits, Fits
  <2> QED
    BY <1>1, <2>1, <2>3 DEF StageFits, PassFits
<1>5. Fits(CnfChecksum(spec), spec.s, spec.v)
  BY DEF Fits, CnfChecksum, structuralHash, varsHash
<1>6. /\ Unborn \/ Unmarked => c.verdict = "bootHash"
      /\ Applied => \/ c.verdict = "bootHash"
                       /\ sts.checksum = CnfChecksum(spec)
                    \/ c.verdict = "keepPrev"
      /\ Pending => \/ c.verdict = "structural" /\ sts.struct # spec.s
                    \/ /\ c.verdict = "runtimeTry" /\ sts.struct = spec.s
                       /\ \A x \in Vars \ c.changed : sts.vars[x] = spec.v[x]
  BY <1>1, Decision
<1>7. \/ c.verdict \in {"bootHash", "structural"} /\ Save(CnfChecksum(spec))
      \/ c.verdict = "keepPrev" /\ Save(sts.checksum)
      \/ /\ c.verdict = "runtimeTry" /\ ReadyPods # Pods
      \/ /\ c.verdict = "runtimeTry" /\ ReadyPods = {} /\ Save(sts.checksum)
      \/ /\ c.verdict = "runtimeTry"
         /\ job' = [job EXCEPT !.pc = "push", !.changed = c.changed,
                               !.todo = ReadyPods]
  BY <1>1 DEF resolveRestartChecksum
<1> HIDE DEF c
<1>8. CASE Unborn \/ Unmarked
  <2>1. Save(CnfChecksum(spec))
    BY <1>6, <1>7, <1>8
  <2>2. \A p \in Pods : pods[p].phase # "down" => pods[p].cnf = spec
    BY <1>8 DEF Unborn, Unmarked
  <2>3. sts # None => sts.checksum = CnfChecksum(spec)
    BY <1>8 DEF Unborn, Unmarked
  <2> QED
    BY <1>2, <1>4, <1>5, <2>1, <2>2, <2>3
<1>9. CASE Applied
  <2>1. Save(sts.checksum)
    BY <1>6, <1>7, <1>9
  <2>2. Fits(sts.checksum, spec.s, spec.v)
    BY <1>1, <1>3, <1>9 DEF Applied, Marked
  <2>3. \A p \in Pods : pods[p].phase # "down" /\ pods[p].rev = sts.checksum
                          => pods[p].cnf = spec
    BY <1>9 DEF Applied
  <2> QED
    BY <1>2, <1>4, <2>1, <2>2, <2>3
<1>10. CASE Pending /\ c.verdict = "structural" /\ sts.struct # spec.s
  <2>1. Save(CnfChecksum(spec))
    BY <1>7, <1>10
  <2>2. Fits(sts.checksum, sts.struct, sts.vars) /\ AllReady
    BY <1>1, <1>10 DEF Pending, Marked
  <2>3. sts.checksum # CnfChecksum(spec)
    BY <1>10, <2>2, SMT DEF Fits, CnfChecksum, structuralHash
  <2>4. \A p \in Pods : pods[p].rev # CnfChecksum(spec)
    BY <2>2, <2>3 DEF AllReady
  <2> QED
    BY <1>2, <1>4, <1>5, <1>10, <2>1, <2>4
<1>11. CASE /\ Pending /\ c.verdict = "runtimeTry" /\ sts.struct = spec.s
            /\ \A x \in Vars \ c.changed : sts.vars[x] = spec.v[x]
  <2>1. ReadyPods = Pods
    BY <1>11 DEF Pending, AllReady, ReadyPods
  <2>2. CASE Pods = {} /\ Save(sts.checksum)
    <3>1. Fits(sts.checksum, spec.s, spec.v)
      BY <1>1, <1>11, <2>2 DEF Pending, Marked, Fits
    <3> QED
      BY <1>2, <1>4, <2>2, <3>1
  <2>3. CASE job' = [job EXCEPT !.pc = "push", !.changed = c.changed,
                                !.todo = ReadyPods]
    <3>1. /\ job'.pc = "push" /\ job'.new = spec /\ job'.changed = c.changed
          /\ job'.todo = Pods /\ job'.mismatched = job.mismatched
      BY <1>1, <1>3, <2>1, <2>3 DEF JobType
    <3>2. Pending'
      BY <1>1, <1>11 DEF Pending, AllReady, Between
    <3>3. PushFits'
      BY <1>1, <1>11, <3>1, <3>2 DEF PushFits
    <3> QED
      BY <1>1, <1>2, <3>1, <3>3 DEF StageFits, PassFits
  <2> QED
    BY <1>7, <1>11, <2>1, <2>2, <2>3
<1> QED
  BY <1>1, <1>6, <1>8, <1>9, <1>10, <1>11 DEF Modes

\* A push, complete or not, leaves each pod between the recorded content and
\* the one asked for (PushOk, PushFails).
LEMMA PushKeepsPending ==
    ASSUME VarsInv, NEW p \in Pods, NEW k, job.pc = "push",
           pods' = [pods EXCEPT ![p].cnf.v = Pushed(p, k)],
           UNCHANGED <<spec, secret, sts>>
    PROVE  /\ Pending' /\ Marked'
           /\ pods'[p].cnf.v = Pushed(p, k)
           /\ \A q \in Pods : q # p => pods'[q] = pods[q]
           /\ \A q \in Pods : pods'[q].cnf \in Cnf /\ pods'[q].cnf.s = spec.s
<1>1. TypeInv /\ Pending /\ Marked /\ PushFits /\ job.new = spec /\ secret = spec
  BY DEF VarsInv, WakeInv, StageFits, PassFits, PushFits
<1>2. AllReady /\ \A q \in Pods : Between(q) /\ pods[q].phase # "down"
  BY <1>1 DEF Pending, AllReady
<1>3. /\ pods \in [Pods -> PodType] /\ spec \in Cnf
      /\ \A q \in Pods : pods[q].cnf \in Cnf
  BY <1>1, <1>2, VarsTypes
<1> DEFINE v == Pushed(p, k)
<1>4. v \in [Vars -> Values]
  BY <1>1, <1>2, PushedType
<1>5. /\ \A x \in Vars : v[x] \in {pods[p].cnf.v[x], spec.v[x]}
      /\ \A x \in Stubborn : v[x] = pods[p].cnf.v[x]
  BY <1>1, VarAssumption DEF Pushed
<1> HIDE DEF v
<1>6. pods[p].cnf # None
  BY <1>3, NoneAssumption
<1> DEFINE g == [pods EXCEPT ![p].cnf.v = v]
<1>7. /\ g \in [Pods -> PodType]
      /\ g[p].cnf \in Cnf
      /\ g[p].cnf.s = pods[p].cnf.s
      /\ g[p].phase = pods[p].phase
      /\ g[p].rev = pods[p].rev
      /\ \A q \in Pods : q # p => g[q] = pods[q]
  BY <1>3, <1>4, <1>6, PodVarsType
<1>8. g[p].cnf.v = v
  BY <1>3 DEF PodType, Cnf
<1>9. pods' = g
  BY DEF v
<1> HIDE DEF g
<1>10. AllReady'
  BY <1>2, <1>7, <1>9 DEF AllReady
<1>11. \A q \in Pods : Between(q)'
  <2>1. Between(p)'
    BY <1>2, <1>5, <1>7, <1>8, <1>9, VarAssumption, ZenonT(30) DEF Between
  <2>2. ASSUME NEW q \in Pods, q # p PROVE Between(q)'
    BY <1>2, <1>7, <1>9, <2>2, SMT DEF Between
  <2> QED
    BY <2>1, <2>2
<1>12. Pending'
  BY <1>1, <1>10, <1>11 DEF Pending
<1>13. Marked'
  BY <1>1 DEF Marked, Fits
<1>14. \A q \in Pods : pods'[q].cnf \in Cnf /\ pods'[q].cnf.s = spec.s
  <2>1. \A q \in Pods : pods[q].cnf.s = spec.s
    BY <1>1, <1>2 DEF PushFits, Between
  <2> QED
    BY <1>3, <1>7, <1>9, <2>1
<1> QED
  BY <1>7, <1>8, <1>9, <1>12, <1>13, <1>14 DEF v

\* One endpoint answers.  Once the last has, either every pod runs the
\* content asked for, or a variable only a restart changes differs.
LEMMA VarsPushOk ==
    ASSUME VarsInv, NEW p \in Pods, PushOk(p)
    PROVE  Modes' /\ Marked' /\ StageFits'
<1> DEFINE live == Pushed(p, 3)
           bad == job.mismatched \/ \E x \in job.changed : live[x] # job.new.v[x]
           rest == job.todo \ {p}
<1>1. /\ TypeInv /\ PushFits /\ job.pc = "push" /\ job.new = spec /\ secret = spec
      /\ Marked /\ p \in job.todo
      /\ UNCHANGED <<spec, secret, sts>>
  BY DEF VarsInv, WakeInv, PushOk, StageFits, PassFits
<1>2. /\ Pending' /\ Marked' /\ pods'[p].cnf.v = live
      /\ \A q \in Pods : q # p => pods'[q] = pods[q]
      /\ \A q \in Pods : pods'[q].cnf \in Cnf /\ pods'[q].cnf.s = spec.s
  BY <1>1, PushKeepsPending DEF PushOk
<1>3. /\ spec \in Cnf /\ job \in JobType /\ job.changed \in SUBSET Vars
  BY <1>1, VarsTypes DEF JobType
<1>4. /\ \A x \in job.changed \ Stubborn : live[x] = spec.v[x]
      /\ \A x \in job.changed \cap Stubborn : live[x] = sts.vars[x]
  <2>1. \A x \in Vars : Domain[x] <= 3
    BY VarAssumption, SMT
  <2>2. \A x \in Stubborn : pods[p].cnf.v[x] = sts.vars[x]
    BY <1>1 DEF PushFits, Pending, Between
  <2> QED
    BY <1>1, <1>3, <2>1, <2>2 DEF Pushed
<1>5. \A q \in Pods \ rest, x \in job.changed \ Stubborn :
        pods'[q].cnf.v[x] = spec.v[x]
  BY <1>1, <1>2, <1>4, SMT DEF PushFits
<1>6. bad => \E x \in Stubborn : sts.vars[x] # spec.v[x]
  <2>1. CASE job.mismatched
    BY <1>1, <2>1 DEF PushFits
  <2>2. CASE \E x \in job.changed : live[x] # job.new.v[x]
    BY <1>1, <1>4, <2>2
  <2> QED
    BY <2>1, <2>2
<1>7. ~bad => /\ ~job.mismatched
              /\ \A x \in job.changed \cap Stubborn : sts.vars[x] = spec.v[x]
  BY <1>1, <1>4
<1>8. job' = IF rest # {}
             THEN [job EXCEPT !.todo = rest, !.mismatched = bad]
             ELSE [job EXCEPT
                     !.pc = "save", !.todo = {}, !.mismatched = bad,
                     !.checksum = IF bad THEN CnfChecksum(job.new)
                                         ELSE sts.checksum]
  BY DEF PushOk
<1>9. bad \in BOOLEAN
  BY <1>3 DEF JobType
<1> HIDE DEF bad, live, rest
<1>10. CASE rest # {}
  <2>1. /\ job'.pc = "push" /\ job'.new = spec /\ job'.changed = job.changed
        /\ job'.todo = rest /\ job'.mismatched = bad
    BY <1>1, <1>3, <1>8, <1>9, <1>10 DEF JobType
  <2>2. PushFits'
    BY <1>1, <1>2, <1>5, <1>6, <1>7, <2>1, ZenonT(30) DEF PushFits
  <2> QED
    BY <1>1, <1>2, <2>1, <2>2 DEF StageFits, PassFits, Modes
<1>11. CASE rest = {} /\ bad
  <2>1. /\ job'.pc = "save" /\ job'.new = spec
        /\ job'.checksum = CnfChecksum(spec)
    BY <1>1, <1>3, <1>8, <1>9, <1>11 DEF JobType
  <2>2. PICK x \in Stubborn : sts.vars[x] # spec.v[x]
    BY <1>6, <1>11
  <2>3. Fits(sts.checksum, sts.struct, sts.vars)
    BY <1>1 DEF Marked, PushFits, Pending
  <2>4. sts.checksum # CnfChecksum(spec)
    BY <2>2, <2>3, SMT DEF Fits, CnfChecksum, varsHash
  <2>5. \A q \in Pods : pods'[q].rev # CnfChecksum(spec)
    BY <1>1, <1>2, <2>4 DEF Pending, AllReady
  <2>6. Fits(CnfChecksum(spec), spec.s, spec.v)
    BY DEF Fits, CnfChecksum, structuralHash, varsHash
  <2>7. SaveFits'
    BY <1>1, <1>2, <2>1, <2>2, <2>5, <2>6 DEF SaveFits, Fits
  <2> QED
    BY <1>1, <1>2, <2>1, <2>7 DEF StageFits, PassFits, Modes
<1>12. CASE rest = {} /\ ~bad
  <2>1. /\ job'.pc = "save" /\ job'.new = spec
        /\ job'.checksum = sts.checksum
    BY <1>1, <1>3, <1>8, <1>9, <1>12 DEF JobType
  <2>2. \A x \in Stubborn : sts.vars[x] = spec.v[x]
    BY <1>1, <1>7, <1>12, VarAssumption DEF PushFits
  <2>3. ASSUME NEW q \in Pods PROVE pods'[q].cnf = spec
    <3>1. ASSUME NEW x \in Vars PROVE pods'[q].cnf.v[x] = spec.v[x]
      <4>1. CASE x \in Stubborn
        BY <1>1, <1>2, <2>2, <4>1 DEF Pending, Between
      <4>2. CASE x \in job.changed \ Stubborn
        BY <1>5, <1>12, <4>2
      <4>3. CASE x \notin job.changed
        <5>1. pods'[q].cnf.v[x] \in {sts.vars[x], spec.v[x]}
          BY <1>1, <1>2 DEF Pending, Between
        <5> QED
          BY <1>1, <4>3, <5>1 DEF PushFits
      <4> QED
        BY <4>1, <4>2, <4>3
    <3> QED
      BY <1>2, <1>3, <3>1, CnfEqual
  <2>4. Fits(sts.checksum, spec.s, spec.v)
    BY <1>1, <2>2 DEF Marked, Fits, PushFits, Pending
  <2>5. SaveFits'
    BY <1>1, <2>1, <2>3, <2>4 DEF SaveFits, Fits
  <2> QED
    BY <1>1, <1>2, <2>1, <2>5 DEF StageFits, PassFits, Modes
<1> QED
  BY <1>10, <1>11, <1>12

\* An endpoint fails part-way: nothing is recorded, so the edit stays open.
LEMMA VarsPushFails ==
    ASSUME VarsInv, NEW p \in Pods, NEW k \in 0..3, PushFails(p, k)
    PROVE  Modes' /\ Marked' /\ StageFits'
<1>1. job'.pc = "idle" /\ job.pc = "push" /\ UNCHANGED <<spec, secret, sts>>
  BY DEF PushFails, IdleJob
<1>2. StageFits'
  BY <1>1 DEF StageFits, PassFits
<1>3. pods[p].phase # "down"
  BY <1>1 DEF VarsInv, StageFits, PushFits, Pending, AllReady
<1>4. Pending' /\ Marked'
  BY <1>1, <1>3, PushKeepsPending DEF PushFails
<1> QED
  BY <1>2, <1>4 DEF Modes

\* The write of the StatefulSet records a content that runs, or outdates
\* every pod that does not run it.
LEMMA VarsSave ==
    ASSUME VarsInv, ensureStatefulSet
    PROVE  Modes' /\ Marked' /\ StageFits'
<1>1. /\ TypeInv /\ SaveFits /\ job.new = spec /\ secret = spec
      /\ UNCHANGED <<spec, secret, pods>>
  BY DEF VarsInv, WakeInv, ensureStatefulSet, StageFits, PassFits
<1>2. /\ sts' # None /\ sts'.checksum = job.checksum
      /\ sts'.vars = spec.v /\ sts'.struct = spec.s
      /\ job'.pc = "status"
  BY <1>1, StatefulSetWritten
<1>3. Applied'
  BY <1>1, <1>2 DEF Applied, SaveFits
<1>4. Marked'
  BY <1>1, <1>2 DEF Marked, SaveFits, Fits
<1> QED
  BY <1>2, <1>3, <1>4 DEF StageFits, PassFits, Modes

\* The StatefulSet controller and the kubelet: a pod is replaced only once
\* the content asked for is recorded, and then boots with it.
LEMMA VarsKubernetes ==
    ASSUME VarsInv, NEW p \in Pods, Kubernetes(p)
    PROVE  Modes' /\ Marked' /\ StageFits'
<1>1. /\ TypeInv /\ Modes /\ Marked /\ StageFits
      /\ UNCHANGED <<spec, secret, sts, job>>
  BY DEF VarsInv, WakeInv, Kubernetes, RollPod, Boot, BecomeReady
<1>2. Marked'
  BY <1>1 DEF Marked, Fits
<1>3. /\ pods \in [Pods -> PodType] /\ spec # None
      /\ sts # None => sts.checksum \in Checksum /\ sts.checksum # None
  BY <1>1, VarsTypes, NoneAssumption
<1>4. /\ \A q \in Pods : q # p => pods'[q] = pods[q]
      /\ \/ pods'[p].phase = "down" /\ pods'[p].rev = sts.checksum
            /\ sts # None /\ pods[p].rev # sts.checksum
         \/ pods'[p].cnf = secret /\ pods[p].phase = "down" /\ pods[p].rev # None
            /\ pods'[p].rev = pods[p].rev
         \/ /\ pods[p].phase = "starting" /\ pods'[p].rev = pods[p].rev
            /\ pods'[p].cnf = pods[p].cnf
  BY <1>3, SMT DEF Kubernetes, RollPod, Boot, BecomeReady, PodType
<1>5. Applied
  BY <1>1, <1>4 DEF Modes, Unborn, Unmarked, Pending, AllReady
<1>6. ~Pending
  BY <1>5 DEF Applied, Pending
<1>7. Applied'
  BY <1>1, <1>4, <1>5 DEF Applied
<1>8. job.pc # "push"
  BY <1>1, <1>6 DEF StageFits, PushFits
<1>9. ASSUME job.pc = "save" PROVE SaveFits'
  <2>1. SaveFits /\ job.checksum = sts.checksum
    BY <1>1, <1>5, <1>6, <1>9 DEF StageFits, SaveFits, Applied
  <2> QED
    BY <1>1, <1>7, <2>1 DEF SaveFits, Fits, Applied
<1> QED
  BY <1>1, <1>2, <1>7, <1>8, <1>9 DEF Modes, StageFits, PassFits, OldFits

\* Every step keeps the invariant.
LEMMA VarsNext == Calm /\ VarsInv /\ [Next]_vars => VarsInv'
<1> SUFFICES ASSUME Calm, VarsInv, [Next]_vars PROVE VarsInv'
  OBVIOUS
<1>0. WakeInv'
  BY WakeNext DEF VarsInv
<1> SUFFICES Modes' /\ Marked' /\ StageFits'
  BY <1>0 DEF VarsInv
<1>1. CASE updateStatus \/ Interrupt
  <2>1. Modes' /\ Marked'
    BY <1>1, ModesFrame DEF VarsInv, updateStatus, Interrupt
  <2>2. job'.pc = "idle"
    BY <1>1, SMT DEF updateStatus, Interrupt, IdleJob
  <2> QED
    BY <2>1, <2>2 DEF StageFits, PassFits
<1>2. ASSUME NEW p \in Pods PROVE ~LoseReady(p) /\ ~PodFails(p)
  BY DEF Calm, LoseReady, PodFails, Fault
<1>3. CASE UNCHANGED vars
  <2>1. Modes' /\ Marked'
    BY <1>3, ModesFrame DEF VarsInv, vars
  <2> QED
    BY <1>3, <2>1, ZenonT(30)
    DEF vars, VarsInv, StageFits, PassFits, OldFits, PushFits, SaveFits, Pending,
        AllReady, Between, Fits
<1> QED
  BY <1>1, <1>2, <1>3, VarsEdit, VarsStart, VarsSecret, VarsResolve, VarsPushOk,
     VarsPushFails, VarsSave, VarsKubernetes
  DEF Next, Reconcile, Push

\* The vars-applied-hash marker never claims more than what runs: no crash,
\* no API error and no push that fails after some domains or some pods makes
\* the controller record variables a pod of the current template lacks.
THEOREM VariablesNotLost ==
    ASSUME Calm
    PROVE  Spec => []VarsMarkerHonest
<1>1. VarsInv => VarsMarkerHonest
  <2> SUFFICES ASSUME VarsInv, sts # None, secret # None,
                      sts.vars = varsHash(secret),
                      NEW p \in Pods, pods[p].phase # "down",
                      pods[p].rev = sts.checksum
               PROVE  pods[p].cnf.v = secret.v
    BY DEF VarsMarkerHonest
  <2>1. TypeInv /\ Modes /\ sts.vars = secret.v
    BY DEF VarsInv, WakeInv, varsHash
  <2>2. spec \in Cnf /\ pods[p].cnf \in Cnf /\ spec.v # None
    BY <2>1, VarsTypes
  <2>3. CASE Applied \/ Unmarked
    BY <2>1, <2>3 DEF Applied, Unmarked
  <2>4. CASE Pending /\ secret # spec
    BY <2>4 DEF Pending
  <2>5. CASE Pending /\ secret = spec
    <3>1. \A x \in Vars : pods[p].cnf.v[x] \in {sts.vars[x], spec.v[x]}
      BY <2>5 DEF Pending, Between
    <3> QED
      BY <2>1, <2>2, <2>5, <3>1, CnfEqual, SMT
  <2> QED
    BY <2>1, <2>3, <2>4, <2>5 DEF Modes, Unborn
<1>2. Init => VarsInv
  BY VarsInit
<1>3. VarsInv /\ [Next]_vars => VarsInv'
  BY VarsNext
<1> QED
  BY <1>1, <1>2, <1>3, PTL DEF Spec

\* The structural marker too, where edits wait for convergence: the user may
\* then return to earlier structures, and the StatefulSet may predate the
\* markers, which StructuralRestartNotLost excludes.
THEOREM StructuralRestartNotLostOnReturn ==
    ASSUME Calm
    PROVE  Spec => []StructMarkerHonest
<1>1. VarsInv => StructMarkerHonest
  <2> SUFFICES ASSUME VarsInv, sts # None, secret # None,
                      sts.struct = structuralHash(secret),
                      NEW p \in Pods, pods[p].phase # "down",
                      pods[p].rev = sts.checksum
               PROVE  pods[p].cnf.s = secret.s
    BY DEF StructMarkerHonest
  <2>1. Modes /\ sts.struct = secret.s
    BY DEF VarsInv, structuralHash
  <2> QED
    BY <2>1 DEF Modes, Unborn, Unmarked, Applied, Pending, Between
<1>2. Init => VarsInv
  BY VarsInit
<1>3. VarsInv /\ [Next]_vars => VarsInv'
  BY VarsNext
<1> QED
  BY <1>1, <1>2, <1>3, PTL DEF Spec

\* A step that moves the pod template has a reason.
LEMMA MovesForReason ==
    ASSUME VarsInv, [Next]_vars, sts # None, sts'.checksum # sts.checksum
    PROVE  \/ sts.struct # structuralHash(secret)
           \/ sts.vars = None
           \/ \E x \in Stubborn \cup Monitor : sts.vars[x] # secret.v[x]
<1>1. ensureStatefulSet
  BY DEF Next, Reconcile, Push, EditSpec, StartReconcile, ensureCnfSecret,
         resolveRestartChecksum, PushOk, PushFails, updateStatus, Interrupt,
         Kubernetes, RollPod, Boot, BecomeReady, LoseReady, PodFails, vars
<1>2. TypeInv /\ SaveFits /\ secret = spec
  BY <1>1 DEF VarsInv, WakeInv, ensureStatefulSet, StageFits, PassFits
<1>3. sts'.checksum = job.checksum
  BY <1>1, <1>2, StatefulSetWritten
<1> QED
  BY <1>2, <1>3 DEF SaveFits, structuralHash

\* The rolling restarts of the cluster all have a reason: a change of
\* ordinary variables is pushed, retried and recorded without ever moving the
\* pod template, whatever fails in between.
THEOREM OrdinaryChangesDoNotRestart ==
    ASSUME Calm
    PROVE  Spec => RestartOnlyWithReason
<1>1. Init => VarsInv
  BY VarsInit
<1>2. VarsInv /\ [Next]_vars => VarsInv'
  BY VarsNext
<1>3. VarsInv /\ [Next]_vars =>
        [sts # None /\ sts'.checksum # sts.checksum =>
           \/ sts.struct # structuralHash(secret)
           \/ sts.vars = None
           \/ \E x \in Stubborn \cup Monitor : sts.vars[x] # secret.v[x]]_vars
  BY MovesForReason
<1> QED
  BY <1>1, <1>2, <1>3, PTL DEF Spec, RestartOnlyWithReason

=============================================================================
