--------------------------- MODULE TLSRotationProofs ---------------------------
(***************************************************************************)
(* What TLSRotation guarantees for every set of pods, Secrets and          *)
(* certificates, and any number of edits and faults: the types, that no    *)
(* pod boots on dangling links, that no failure drops TLS, and that        *)
(* the marker of the applied certificate is true as long as renewals go    *)
(* forward and each brings a leaf of its own, and that the window of a     *)
(* rotation, once over, stays over.                                        *)
(***************************************************************************)
EXTENDS TLSRotation, TLAPS

\* Most steps are first-order, so Zenon is the prover unless a step names another.
USE Zenon

\* What a step reads is there: a validated Secret has a name, a rotation in
\* progress has a bundle, a pod with a mount has a template with TLS.
PodMount(p) ==
    pods[p].mounted # None => pods[p].rev # None /\ pods[p].rev.mount # Off

Shape ==
    /\ job.ready => job.mount # Off
    /\ job.pc = "reload" => job.bundle \in Bundle
    /\ \A p \in Pods : PodMount(p)

TypeInv == TypeOK /\ Shape

----------------------------------------------------------------------------
(* The outcomes of the rotation engine keep the locals of the pass typed.  *)

\* The markers as read from the StatefulSet are typed, also if it is absent.
LEMMA MarkerType ==
    ASSUME TypeOK
    PROVE  Applied \in Content /\ Window \in WindowType /\ RestartValue \in RestartType
  <1>1. None \in Content /\ None \in WindowType /\ None \in RestartType
    BY DEF Content, WindowType, RestartType
  <1>2. sts # None => sts \in StsType
    BY DEF TypeOK
  <1>3. QED
    BY <1>1, <1>2 DEF Applied, Window, RestartValue, StsType

\* What the passing of time, or an operator with another clock, changes of the
\* StatefulSet: the age of a recorded window.
LEMMA AgedType ==
    ASSUME TypeOK, WindowExpires \/ ClockBack
    PROVE  /\ sts' = None <=> sts = None
           /\ sts # None =>
                /\ sts' \in StsType
                /\ sts'.mount = sts.mount /\ sts'.cleanup = sts.cleanup
                /\ sts'.applied = sts.applied /\ sts'.restart = sts.restart
           /\ Window = None => sts' = sts
           /\ Window # None =>
                /\ sts'.window.bundle = Window.bundle
                /\ sts'.window \in [bundle : Bundle, age : Age]
                /\ WindowExpires => sts'.window.age = Older(Window.age)
  <1>1. CASE Window = None
    BY <1>1 DEF WindowExpires, ClockBack, TypeOK
  <1>2. CASE Window # None
    <2>1. /\ sts # None /\ sts \in StsType
          /\ sts.window \in [bundle : Bundle, age : Age] /\ Window = sts.window
      BY <1>2 DEF Window, TypeOK, StsType, WindowType
    <2>2. PICK w \in [bundle : Bundle, age : Age] :
             /\ sts' = [sts EXCEPT !.window = w]
             /\ w.bundle = Window.bundle
             /\ WindowExpires => w.age = Older(Window.age)
      <3>1. CASE WindowExpires
        <4>1. /\ Aged(sts.window) \in [bundle : Bundle, age : Age]
              /\ Aged(sts.window).bundle = sts.window.bundle
              /\ Aged(sts.window).age = Older(sts.window.age)
          BY <1>2, <2>1 DEF Aged, Older, Age
        <4>2. sts' = [sts EXCEPT !.window = Aged(sts.window)]
          BY <1>2, <2>1, <3>1 DEF WindowExpires
        <4>3. QED
          BY <2>1, <4>1, <4>2
      <3>2. CASE ClockBack /\ ~WindowExpires
        <4>1. PICK age \in {"ahead", "open"} : sts' = [sts EXCEPT !.window.age = age]
          BY <3>2 DEF ClockBack
        <4>2. /\ [sts.window EXCEPT !.age = age] \in [bundle : Bundle, age : Age]
              /\ [sts.window EXCEPT !.age = age].bundle = sts.window.bundle
          BY <2>1 DEF Age
        <4>3. QED
          BY <2>1, <3>2, <4>1, <4>2
      <3>3. QED
        BY <3>1, <3>2
    <2>3. sts' \in StsType
      BY <2>1, <2>2 DEF StsType, WindowType
    <2>4. sts' # None
      BY <2>3, StsAssumption
    <2>5. /\ sts'.mount = sts.mount /\ sts'.cleanup = sts.cleanup
          /\ sts'.applied = sts.applied /\ sts'.restart = sts.restart
          /\ sts'.window = w
      BY <2>1, <2>2 DEF StsType
    <2>6. QED
      BY <1>2, <2>1, <2>2, <2>3, <2>4, <2>5
  <1>3. QED
    BY <1>1, <1>2

\* What they change of the pass: the ages it has read, or all of it.
LEMMA AgedJob ==
    ASSUME TypeOK, WindowExpires
    PROVE  /\ job' \in JobType
           /\ job'.pc = job.pc /\ job'.want = job.want /\ job'.mount = job.mount
           /\ job'.cleanup = job.cleanup /\ job'.ready = job.ready
           /\ job'.bundle = job.bundle /\ job'.failed = job.failed
           /\ job'.todo = job.todo /\ job'.applied = job.applied
           /\ job'.restart = job.restart
           /\ job'.age = IF job.pc = "reload" THEN Older(job.age) ELSE job.age
           /\ job.window = None => job'.window = None
           /\ job.window # None =>
                /\ job'.window.bundle = job.window.bundle
                /\ job'.window.age = Older(job.window.age)
  <1> DEFINE age == IF job.pc = "reload" THEN Older(job.age) ELSE job.age
             window == Aged(job.window)
  <1>1. job \in JobType
    BY DEF TypeOK
  <1>2. job' = [job EXCEPT !.age = age, !.window = window]
    BY DEF WindowExpires
  <1>3. \A a : Older(a) \in Age
    BY DEF Older, Age
  <1>4. age \in Age
    BY <1>1, <1>3 DEF JobType
  <1>5. /\ window \in WindowType
        /\ job.window = None => window = None
        /\ job.window # None =>
             window.bundle = job.window.bundle /\ window.age = Older(job.window.age)
    BY <1>1, <1>3 DEF JobType, WindowType, Aged
  <1> HIDE DEF age, window
  <1>6. /\ job' \in JobType
        /\ job'.pc = job.pc /\ job'.want = job.want /\ job'.mount = job.mount
        /\ job'.cleanup = job.cleanup /\ job'.ready = job.ready
        /\ job'.bundle = job.bundle /\ job'.failed = job.failed
        /\ job'.todo = job.todo /\ job'.applied = job.applied
        /\ job'.restart = job.restart /\ job'.age = age /\ job'.window = window
    BY <1>1, <1>2, <1>4, <1>5, ZenonT(30) DEF JobType
  <1>7. QED
    BY <1>5, <1>6 DEF age

\* Committing an outcome moves the pass to its StatefulSet write and changes
\* neither what it read of spec.tls nor what it mounts.
LEMMA OutcomeType ==
    ASSUME job \in JobType, NEW a \in Content, NEW w \in WindowType,
           NEW r \in RestartType, NEW e \in BOOLEAN, Outcome(a, w, r, e)
    PROVE  /\ job' \in JobType
           /\ job'.pc = "save"
           /\ job'.ready = job.ready /\ job'.mount = job.mount
           /\ job'.want = job.want /\ job'.cleanup = job.cleanup
  <1>1. job.err \/ e \in BOOLEAN
    OBVIOUS
  <1>2. {} \in SUBSET Pods
    OBVIOUS
  <1>3. QED
    BY <1>1, <1>2, ZenonT(30) DEF Outcome, JobType

\* An endpoint of the push loop leaves the pass in the loop with the same
\* bundle, or commits an outcome.
LEMMA EndpointType ==
    ASSUME TypeOK, job.pc = "reload", job.bundle \in Bundle,
           NEW p \in Pods, NEW ok \in BOOLEAN, NextEndpoint(p, ok)
    PROVE  /\ job' \in JobType
           /\ job'.pc \in {"reload", "save"}
           /\ job'.bundle = job.bundle \/ job'.pc = "save"
           /\ job'.ready = job.ready /\ job'.mount = job.mount
           /\ job'.want = job.want /\ job'.cleanup = job.cleanup
  <1> USE DEF TypeOK
  <1>1. CASE job.todo # {p}
    <2>1. job' = [job EXCEPT !.todo = @ \ {p}, !.failed = @ \/ ~ok]
      BY <1>1 DEF NextEndpoint
    <2>2. job.todo \ {p} \in SUBSET Pods /\ (job.failed \/ ~ok) \in BOOLEAN
      BY DEF JobType
    <2>3. QED
      BY <2>1, <2>2 DEF JobType
  <1>2. CASE job.todo = {p}
    <2>1. RotationOutcome(job.failed \/ ~ok)
      BY <1>2 DEF NextEndpoint
    <2>2. /\ job.bundle \in Content /\ job.bundle \in RestartType
          /\ None \in WindowType
          /\ [bundle |-> job.bundle, age |-> job.age] \in WindowType
      BY DEF Content, RestartType, WindowType, JobType
    <2>3. Applied \in Content /\ RestartValue \in RestartType
      BY MarkerType
    <2>4. \/ Outcome(job.bundle, None, RestartValue, FALSE)
          \/ Outcome(job.bundle, None, job.bundle, FALSE)
          \/ Outcome(Applied, [bundle |-> job.bundle, age |-> job.age],
                     RestartValue, TRUE)
      BY <2>1 DEF RotationOutcome
    <2>5. CASE Outcome(job.bundle, None, RestartValue, FALSE)
      BY <2>2, <2>3, <2>5, OutcomeType
    <2>6. CASE Outcome(job.bundle, None, job.bundle, FALSE)
      BY <2>2, <2>6, OutcomeType
    <2>7. CASE Outcome(Applied, [bundle |-> job.bundle, age |-> job.age],
                       RestartValue, TRUE)
      BY <2>2, <2>3, <2>7, OutcomeType
    <2>8. QED
      BY <2>4, <2>5, <2>6, <2>7
  <1>3. QED
    BY <1>1, <1>2

\* Every case of the rotation engine before its first dial.
LEMMA ResolveType ==
    ASSUME TypeInv, resolveTLSRotation \/ RotationUnread
    PROVE  /\ job' \in JobType
           /\ job'.pc \in {"reload", "save"}
           /\ job'.pc = "reload" => job'.bundle \in Bundle
           /\ job'.ready = job.ready /\ job'.mount = job.mount
           /\ job'.want = job.want /\ job'.cleanup = job.cleanup
  <1> USE DEF TypeInv
  <1>1. Applied \in Content /\ Window \in WindowType /\ RestartValue \in RestartType
    BY MarkerType
  <1>2. job \in JobType
    BY DEF TypeOK
  <1>3. None \in Content /\ None \in WindowType /\ None \in RestartType
    BY DEF Content, WindowType, RestartType
  <1>4. CASE RotationUnread
    BY <1>1, <1>2, <1>4, OutcomeType DEF RotationUnread
  <1>5. CASE resolveTLSRotation
    <2> DEFINE readable == job.ready /\ secrets[job.mount].state # "absent"
               b == IF ~readable THEN None
                    ELSE IF Valid(job.mount) THEN secrets[job.mount].bundle
                    ELSE Broken
               moved == readable /\ Applied \notin {None, b}
    <2>1. /\ b \in Content
          /\ moved /\ LeafFingerprint(b) => b \in Bundle
      <3>1. CASE ~readable
        BY <3>1, <1>3
      <3>2. CASE readable
        <4>1. job.mount \in Names
          BY <3>2 DEF TypeOK, JobType, Shape
        <4>2. secrets[job.mount].bundle \in Bundle
          BY <4>1 DEF TypeOK
        <4>3. QED
          BY <3>2, <4>2 DEF Content, LeafFingerprint
      <3>3. QED
        BY <3>1, <3>2
    <2>2. \/ Outcome(None, None, None, FALSE)
          \/ Outcome(Applied, Window, RestartValue, FALSE)
          \/ Outcome(b, None, RestartValue, FALSE)
          \/ Outcome(Applied, Window, RestartValue, TRUE)
          \/ /\ moved /\ LeafFingerprint(b)
             /\ job' = [job EXCEPT !.pc = "reload", !.bundle = b,
                                   !.todo = ReadyPods,
                                   !.age = parseTLSRotationState(b)]
      BY <1>5 DEF resolveTLSRotation
    <2> HIDE DEF readable, b, moved
    <2>3. CASE Outcome(None, None, None, FALSE)
      BY <1>2, <1>3, <2>3, OutcomeType
    <2>4. CASE Outcome(Applied, Window, RestartValue, FALSE)
      BY <1>1, <1>2, <2>4, OutcomeType
    <2>5. CASE Outcome(b, None, RestartValue, FALSE)
      BY <1>1, <1>2, <1>3, <2>1, <2>5, OutcomeType
    <2>6. CASE Outcome(Applied, Window, RestartValue, TRUE)
      BY <1>1, <1>2, <2>6, OutcomeType
    <2>7. CASE /\ moved /\ LeafFingerprint(b)
               /\ job' = [job EXCEPT !.pc = "reload", !.bundle = b,
                                     !.todo = ReadyPods,
                                     !.age = parseTLSRotationState(b)]
      <3>1. parseTLSRotationState(b) \in Age
        <4>1. Window # None => Window.age \in Age
          BY <1>1 DEF WindowType
        <4>2. QED
          BY <4>1 DEF parseTLSRotationState, Age
      <3>2. ReadyPods \in SUBSET Pods
        BY DEF ReadyPods
      <3>3. b \in Bundle
        BY <2>1, <2>7
      <3>4. QED
        BY <1>2, <2>7, <3>1, <3>2, <3>3 DEF JobType
    <2>8. QED
      BY <2>2, <2>3, <2>4, <2>5, <2>6, <2>7
  <1>6. QED
    BY <1>4, <1>5

----------------------------------------------------------------------------
(* Types.                                                                  *)

\* The first state is well typed.
LEMMA TypeInit == Init => TypeInv
  <1> SUFFICES ASSUME Init PROVE TypeInv
    OBVIOUS
  <1> USE DEF Init
  <1>1. job \in JobType
    BY DEF IdleJob, JobType, Content, WindowType, RestartType, Age
  <1>2. pods \in [Pods -> PodType]
    BY DEF PodType
  <1>3. secrets \in [Names -> [bundle : Bundle, state : {"ok", "broken", "absent"}]]
    BY BundleAssumption
  <1>4. TypeOK
    BY <1>1, <1>2, <1>3 DEF TypeOK
  <1>5. Shape
    BY DEF Shape, PodMount, IdleJob
  <1>6. QED
    BY <1>4, <1>5 DEF TypeInv

\* Every step of controller, pods and users keeps the types.
LEMMA TypeNext == TypeInv /\ [Next]_vars => TypeInv'
  <1> SUFFICES ASSUME TypeInv, [Next]_vars PROVE TypeInv'
    OBVIOUS
  <1> USE DEF TypeInv
  <1>1. TypeOK /\ Shape
    OBVIOUS
  <1>2. ASSUME NEW n \in Names \cup {Off}, SwitchTLS(n)
        PROVE  TypeInv'
    BY <1>2, SMT DEF SwitchTLS, Edit, TypeOK, Shape, PodMount
  <1>3. ASSUME NEW n \in Names, NEW b \in Bundles, RotateSecret(n, b)
        PROVE  TypeInv'
    <2>1. b \in Bundle
      BY BundleAssumption
    <2>2. QED
      BY <1>3, <2>1, SMT DEF RotateSecret, Edit, TypeOK, Shape, PodMount
  <1>4. ASSUME NEW n \in Names, NEW st \in {"broken", "absent"}, BreakSecret(n, st)
        PROVE  TypeInv'
    BY <1>4, SMT DEF BreakSecret, Edit, TypeOK, Shape, PodMount
  <1>5. ASSUME NEW n \in Names, RepairSecret(n)
        PROVE  TypeInv'
    BY <1>5, SMT DEF RepairSecret, Edit, TypeOK, Shape, PodMount
  <1>6. IdleJob \in JobType /\ ~IdleJob.ready /\ IdleJob.pc = "idle"
    BY DEF IdleJob, JobType, Content, WindowType, RestartType, Age
  <1>7. CASE ensureTLSSecrets
    <2> DEFINE ready == want # Off /\ Valid(want)
               mount == IF want = Off \/ ready THEN want ELSE holdTLSLastGood
    <2>1. holdTLSLastGood \in Names \cup {Off}
      BY DEF holdTLSLastGood, TypeOK, StsType
    <2>2. mount \in Names \cup {Off} /\ (ready => mount # Off)
      BY <2>1 DEF TypeOK
    <2>3. resolveTLSCleanup(mount) \in BOOLEAN
      <3>1. sts # None => sts.cleanup \in BOOLEAN
        BY DEF TypeOK, StsType
      <3>2. QED
        BY <3>1 DEF resolveTLSCleanup
    <2>4. ready \in BOOLEAN /\ (want # Off /\ ~ready) \in BOOLEAN
      BY DEF Valid
    <2>5. job' = [IdleJob EXCEPT
                    !.pc = "rotate", !.want = want, !.mount = mount,
                    !.cleanup = resolveTLSCleanup(mount),
                    !.ready = ready, !.err = want # Off /\ ~ready]
      BY <1>7 DEF ensureTLSSecrets
    <2>6. want \in Names \cup {Off}
      BY DEF TypeOK
    <2> HIDE DEF ready, mount
    <2>7. /\ job' \in JobType /\ job'.pc = "rotate"
          /\ job'.ready = ready /\ job'.mount = mount
      BY <1>6, <2>2, <2>3, <2>4, <2>5, <2>6, ZenonT(30) DEF JobType
    <2>8. QED
      BY <1>7, <2>2, <2>7 DEF ensureTLSSecrets, TypeOK, Shape, PodMount
  <1>8. CASE resolveTLSRotation
    <2>1. /\ UNCHANGED <<want, secrets, sts, pods, queued, edits, faults>>
          /\ missed' \subseteq Pods
      BY <1>8 DEF resolveTLSRotation, Late, TypeOK
    <2>2. QED
      BY <1>8, <2>1, ResolveType DEF TypeOK, Shape, PodMount
  <1>9. CASE RotationUnread
    <2>1. /\ UNCHANGED <<want, secrets, sts, pods, queued, missed, edits>>
          /\ faults' = faults + 1
      BY <1>9 DEF RotationUnread, Fault
    <2>2. QED
      BY <1>9, <2>1, ResolveType, SMT DEF TypeOK, Shape, PodMount
  <1>10. ASSUME NEW p \in Pods, reloadAndVerifyTLS(p)
         PROVE  TypeInv'
    <2>1. /\ UNCHANGED <<want, secrets, sts, queued, missed, edits>>
          /\ job.pc = "reload" /\ job.bundle \in Bundle
          /\ faults' \in Nat
      <3>1. UNCHANGED <<want, secrets, sts, queued, missed, edits>> /\ job.pc = "reload"
        BY <1>10 DEF reloadAndVerifyTLS
      <3>2. faults' = faults \/ faults' = faults + 1
        BY <1>10 DEF reloadAndVerifyTLS, Fault
      <3>3. QED
        BY <3>1, <3>2, SMT DEF TypeOK, Shape
    <2>2. \E ok \in BOOLEAN : NextEndpoint(p, ok)
      <3>1. FALSE \in BOOLEAN /\ (pods[p].mounted.leaf = job.bundle.leaf) \in BOOLEAN
        OBVIOUS
      <3>2. QED
        BY <1>10, <3>1 DEF reloadAndVerifyTLS
    <2>3. pods' = pods \/ pods' = [pods EXCEPT ![p].served = pods[p].mounted]
      BY <1>10 DEF reloadAndVerifyTLS
    <2>4. pods' \in [Pods -> PodType] /\ \A q \in Pods : PodMount(q)'
      <3>1. CASE pods' = pods
        BY <3>1 DEF TypeOK, Shape, PodMount
      <3>2. CASE pods' = [pods EXCEPT ![p].served = pods[p].mounted]
        BY <3>2, ZenonT(30) DEF TypeOK, Shape, PodMount, PodType
      <3>3. QED
        BY <2>3, <3>1, <3>2
    <2>5. /\ job' \in JobType /\ job'.pc \in {"reload", "save"}
          /\ job'.bundle = job.bundle \/ job'.pc = "save"
          /\ job'.ready = job.ready /\ job'.mount = job.mount
      BY <2>1, <2>2, EndpointType
    <2>6. QED
      BY <2>1, <2>4, <2>5 DEF TypeOK, Shape
  <1>11. CASE ensureStatefulSet
    <2>1. sts' \in StsType
      BY <1>11 DEF ensureStatefulSet, TypeOK, JobType, StsType
    <2>2. queued' \in BOOLEAN
      BY <1>11 DEF ensureStatefulSet
    <2>3. QED
      BY <1>6, <1>11, <2>1, <2>2 DEF ensureStatefulSet, TypeOK, Shape, PodMount
  <1>12. CASE Interrupt
    BY <1>6, <1>12, SMT DEF Interrupt, Fault, TypeOK, Shape, PodMount
  <1>13. CASE WindowExpires
    <2>1. sts' \in StsType \cup {None}
      BY <1>13, AgedType
    <2>2. /\ job' \in JobType /\ job'.pc = job.pc /\ job'.bundle = job.bundle
          /\ job'.ready = job.ready /\ job'.mount = job.mount
      BY <1>13, AgedJob
    <2>3. QED
      BY <1>13, <2>1, <2>2 DEF WindowExpires, TypeOK, Shape, PodMount
  <1>20. CASE ClockBack
    <2>1. sts' \in StsType \cup {None}
      BY <1>20, AgedType
    <2>2. QED
      BY <1>6, <1>20, <2>1, SMT DEF ClockBack, Fault, TypeOK, Shape, PodMount
  <1>14. ASSUME NEW p \in Pods, RollPod(p)
         PROVE  TypeInv'
    <2>1. Template(sts) \in TemplateType
      BY <1>14 DEF RollPod, Template, TemplateType, TypeOK, StsType
    <2>2. pods' \in [Pods -> PodType] /\ \A q \in Pods : PodMount(q)'
      BY <1>14, <2>1, SMT DEF RollPod, TypeOK, Shape, PodMount, PodType
    <2>3. QED
      BY <1>14, <2>2 DEF RollPod, TypeOK, Shape
  <1>15. ASSUME NEW p \in Pods, Boot(p)
         PROVE  TypeInv'
    <2>1. CASE /\ pods[p].mounted # None
               /\ pods' = [pods EXCEPT ![p].phase = "starting",
                                       ![p].served = pods[p].mounted]
      BY <1>15, <2>1, SMT DEF Boot, TypeOK, Shape, PodMount, PodType
    <2>2. CASE /\ pods[p].rev.mount # Off
               /\ pods' = [pods EXCEPT
                             ![p].phase = "starting", ![p].links = TRUE,
                             ![p].mounted = secrets[pods[p].rev.mount].bundle,
                             ![p].served = secrets[pods[p].rev.mount].bundle]
      <3>1. pods[p].rev # None /\ pods[p].rev \in TemplateType
        BY <1>15 DEF Boot, TypeOK, PodType
      <3>2. secrets[pods[p].rev.mount].bundle \in Bundle
        BY <2>2, <3>1 DEF TypeOK, TemplateType
      <3>3. pods' \in [Pods -> PodType] /\ \A q \in Pods : PodMount(q)'
        <4> DEFINE b == secrets[pods[p].rev.mount].bundle
        <4>1. b \in Bundle
          BY <3>2
        <4>2. pods' = [pods EXCEPT ![p].phase = "starting", ![p].links = TRUE,
                                   ![p].mounted = b, ![p].served = b]
          BY <2>2
        <4> HIDE DEF b
        <4>3. pods' \in [Pods -> PodType]
          <5>1. pods[p] \in PodType
            BY DEF TypeOK
          <5>2. [pods[p] EXCEPT !.phase = "starting", !.links = TRUE,
                                !.mounted = b, !.served = b] \in PodType
            BY <4>1, <5>1 DEF PodType
          <5>3. pods' = [pods EXCEPT ![p] =
                           [pods[p] EXCEPT !.phase = "starting", !.links = TRUE,
                                           !.mounted = b, !.served = b]]
            BY <4>2 DEF TypeOK
          <5>4. QED
            BY <5>2, <5>3 DEF TypeOK
        <4>4. \A q \in Pods : pods'[q].rev = pods[q].rev
                              /\ (q # p => pods'[q].mounted = pods[q].mounted)
          BY <4>2, SMT DEF TypeOK, PodType
        <4>5. QED
          BY <2>2, <3>1, <4>3, <4>4 DEF Shape, PodMount
      <3>4. QED
        BY <1>15, <3>3 DEF Boot, TypeOK, Shape
    <2>3. CASE pods' = [pods EXCEPT ![p].phase = "starting", ![p].links = FALSE]
      BY <1>15, <2>3, SMT DEF Boot, TypeOK, Shape, PodMount, PodType
    <2>4. QED
      BY <1>15, <2>1, <2>2, <2>3 DEF Boot
  <1>16. ASSUME NEW p \in Pods, BecomeReady(p)
         PROVE  TypeInv'
    BY <1>16 DEF BecomeReady, TypeOK, Shape, PodMount, PodType
  <1>17. ASSUME NEW p \in Pods, SyncMount(p)
         PROVE  TypeInv'
    <2>1. pods[p].rev # None /\ pods[p].rev.mount # Off
      BY <1>17 DEF SyncMount, Shape, PodMount
    <2>2. pods[p].rev.mount \in Names
      BY <2>1 DEF TypeOK, PodType, TemplateType
    <2>3. secrets[pods[p].rev.mount].bundle \in Bundle
      BY <2>2 DEF TypeOK
    <2>4. pods' \in [Pods -> PodType] /\ \A q \in Pods : PodMount(q)'
      BY <1>17, <2>1, <2>3, ZenonT(30) DEF SyncMount, TypeOK, Shape, PodMount, PodType
    <2>5. QED
      BY <1>17, <2>4 DEF SyncMount, TypeOK, Shape
  <1>18. ASSUME NEW p \in Pods, PodFails(p)
         PROVE  TypeInv'
    <2>1. pods' \in [Pods -> PodType] /\ \A q \in Pods : PodMount(q)'
      BY <1>18, SMT DEF PodFails, TypeOK, Shape, PodMount, PodType
    <2>2. QED
      BY <1>18, <2>1, SMT DEF PodFails, Fault, TypeOK, Shape
  <1>19. CASE UNCHANGED vars
    BY <1>19 DEF vars, TypeOK, Shape, PodMount
  <1>21. QED
    BY <1>2, <1>3, <1>4, <1>5, <1>7, <1>8, <1>9, <1>10, <1>11, <1>12, <1>13,
       <1>14, <1>15, <1>16, <1>17, <1>18, <1>19, <1>20
       DEF Next, Reconcile, Kubernetes

\* Every object, annotation and local of a pass keeps its shape: no rotation
\* uses a certificate it could not parse, no pod reads a Secret its template
\* does not name.
THEOREM TLSTypeCorrect == Spec => []TypeOK
  <1>1. TypeInv => TypeOK
    BY DEF TypeInv
  <1>2. QED
    BY TypeInit, TypeNext, <1>1, PTL DEF Spec

----------------------------------------------------------------------------
(* TLS wiring.                                                             *)

\* A template a datadir with links to the TLS mount can boot on.
Wired(t) == t.mount # Off \/ t.cleanup

\* The pass never renders an unwired template over a wired one, and takes
\* the mount away only if it read spec.tls as off.
JobWired ==
    job.pc # "idle" /\ sts # None =>
        /\ Wired(sts) => Wired(job)
        /\ sts.mount # Off /\ job.mount = Off => job.want = Off

\* A pod that has links, or the template to make or remove them, implies a
\* StatefulSet that is still wired.
PodWired(p) ==
    /\ pods[p].links \/ (pods[p].rev # None /\ Wired(pods[p].rev))
           => sts # None /\ Wired(sts)
    /\ pods[p].links /\ pods[p].rev # None => Wired(pods[p].rev)

WiredInv == JobWired /\ \A p \in Pods : PodWired(p)

\* At the start nothing is wired, and no datadir has links.
LEMMA WiredInit == Init => WiredInv
  BY SMT DEF Init, IdleJob, WiredInv, JobWired, PodWired

\* What a step of the pass keeps, if it keeps what the pass read and mounts.
LEMMA WiredKept ==
    ASSUME WiredInv, job.pc # "idle",
           sts' = sts, job'.want = job.want, job'.mount = job.mount,
           job'.cleanup = job.cleanup,
           \A p \in Pods : pods'[p].links = pods[p].links
                           /\ pods'[p].rev = pods[p].rev
    PROVE  WiredInv'
  BY DEF WiredInv, JobWired, PodWired, Wired

\* A pod whose datadir and template change in a way the StatefulSet accounts
\* for, with everything else of the wiring unchanged.
LEMMA WiredPod ==
    ASSUME WiredInv, NEW p \in Pods, PodWired(p)',
           UNCHANGED <<sts, job>>,
           \A q \in Pods \ {p} : pods'[q] = pods[q]
    PROVE  WiredInv'
  <1>1. JobWired'
    BY DEF WiredInv, JobWired, Wired
  <1>2. ASSUME NEW q \in Pods PROVE PodWired(q)'
    BY DEF WiredInv, PodWired, Wired
  <1>3. QED
    BY <1>1, <1>2 DEF WiredInv

\* Every step keeps template, cleanup and datadirs in agreement.
LEMMA WiredNext == TypeInv /\ WiredInv /\ [Next]_vars => WiredInv'
  <1> SUFFICES ASSUME TypeInv, WiredInv, [Next]_vars PROVE WiredInv'
    OBVIOUS
  <1>1. /\ job \in JobType
        /\ sts # None => sts \in StsType
        /\ pods \in [Pods -> PodType]
    BY DEF TypeInv, TypeOK
  <1>2. ASSUME NEW n \in Names \cup {Off}, SwitchTLS(n)
        PROVE  WiredInv'
    BY <1>2 DEF SwitchTLS, WiredInv, JobWired, PodWired, Wired
  <1>3. ASSUME NEW n \in Names, NEW b \in Bundles, RotateSecret(n, b)
        PROVE  WiredInv'
    BY <1>3 DEF RotateSecret, WiredInv, JobWired, PodWired, Wired
  <1>4. ASSUME NEW n \in Names, NEW st \in {"broken", "absent"}, BreakSecret(n, st)
        PROVE  WiredInv'
    BY <1>4 DEF BreakSecret, WiredInv, JobWired, PodWired, Wired
  <1>5. ASSUME NEW n \in Names, RepairSecret(n)
        PROVE  WiredInv'
    BY <1>5 DEF RepairSecret, WiredInv, JobWired, PodWired, Wired
  <1>6. CASE ensureTLSSecrets
    <2> DEFINE ready == want # Off /\ Valid(want)
               mount == IF want = Off \/ ready THEN want ELSE holdTLSLastGood
    <2>1. /\ job'.want = want /\ job'.mount = mount
          /\ job'.cleanup = resolveTLSCleanup(mount)
          /\ UNCHANGED <<sts, pods>>
      BY <1>6 DEF ensureTLSSecrets, IdleJob
    <2>2. sts # None /\ Wired(sts) => mount # Off \/ resolveTLSCleanup(mount)
      BY DEF resolveTLSCleanup, Wired
    <2>3. sts # None /\ sts.mount # Off /\ mount = Off => want = Off
      BY DEF holdTLSLastGood
    <2> HIDE DEF mount
    <2>4. JobWired'
      BY <2>1, <2>2, <2>3 DEF JobWired, Wired
    <2>5. \A p \in Pods : PodWired(p)'
      BY <2>1 DEF WiredInv, PodWired, Wired
    <2>6. QED
      BY <2>4, <2>5 DEF WiredInv
  <1>7. CASE resolveTLSRotation \/ RotationUnread
    <2>1. UNCHANGED <<sts, pods>> /\ job.pc # "idle"
      BY <1>7 DEF resolveTLSRotation, RotationUnread
    <2>2. QED
      BY <1>7, <2>1, ResolveType, WiredKept
  <1>8. ASSUME NEW p \in Pods, reloadAndVerifyTLS(p)
        PROVE  WiredInv'
    <2>1. sts' = sts /\ job.pc = "reload" /\ job.bundle \in Bundle
      BY <1>8 DEF reloadAndVerifyTLS, TypeInv, Shape
    <2>2. \E ok \in BOOLEAN : NextEndpoint(p, ok)
      <3>1. FALSE \in BOOLEAN /\ (pods[p].mounted.leaf = job.bundle.leaf) \in BOOLEAN
        OBVIOUS
      <3>2. QED
        BY <1>8, <3>1 DEF reloadAndVerifyTLS
    <2>3. job'.want = job.want /\ job'.mount = job.mount /\ job'.cleanup = job.cleanup
      BY <2>1, <2>2, EndpointType DEF TypeInv
    <2>4. pods' = pods \/ pods' = [pods EXCEPT ![p].served = pods[p].mounted]
      BY <1>8 DEF reloadAndVerifyTLS
    <2>5. \A q \in Pods : pods'[q].links = pods[q].links /\ pods'[q].rev = pods[q].rev
      BY <1>1, <2>4, SMT DEF PodType
    <2>6. QED
      BY <2>1, <2>3, <2>5, WiredKept
  <1>9. CASE ensureStatefulSet
    <2>1. /\ sts'.mount = job.mount /\ sts'.cleanup = job.cleanup
          /\ job'.pc = "idle" /\ pods' = pods /\ job.pc # "idle"
      BY <1>9 DEF ensureStatefulSet, IdleJob
    <2>2. sts' # None
      <3>1. sts' \in StsType
        BY <1>1, <1>9 DEF ensureStatefulSet, JobType, StsType
      <3>2. QED
        BY <3>1, StsAssumption
    <2>3. JobWired'
      BY <2>1 DEF JobWired
    <2>4. \A p \in Pods : PodWired(p)'
      BY <2>1, <2>2 DEF WiredInv, JobWired, PodWired, Wired
    <2>5. QED
      BY <2>3, <2>4 DEF WiredInv
  <1>10. CASE Interrupt
    BY <1>10 DEF Interrupt, IdleJob, WiredInv, JobWired, PodWired, Wired
  <1>18. CASE ClockBack
    <2>1. /\ sts' = None <=> sts = None
          /\ sts # None => sts'.mount = sts.mount /\ sts'.cleanup = sts.cleanup
          /\ job'.pc = "idle" /\ pods' = pods
      BY <1>18, AgedType DEF ClockBack, IdleJob, TypeInv
    <2>2. QED
      BY <2>1 DEF WiredInv, JobWired, PodWired, Wired
  <1>11. CASE WindowExpires
    <2>1. /\ job'.pc = job.pc /\ job'.want = job.want /\ job'.mount = job.mount
          /\ job'.cleanup = job.cleanup /\ pods' = pods
      BY <1>11, AgedJob DEF WindowExpires, TypeInv
    <2>2. /\ sts' = None <=> sts = None
          /\ sts # None => sts'.mount = sts.mount /\ sts'.cleanup = sts.cleanup
      BY <1>11, AgedType DEF TypeInv
    <2>3. QED
      BY <2>1, <2>2 DEF WiredInv, JobWired, PodWired, Wired
  <1>12. ASSUME NEW p \in Pods, RollPod(p)
         PROVE  WiredInv'
    <2>1. /\ pods'[p].links = pods[p].links
          /\ pods'[p].rev = Template(sts)
          /\ UNCHANGED <<sts, job>> /\ sts # None
          /\ \A q \in Pods \ {p} : pods'[q] = pods[q]
      BY <1>1, <1>12 DEF RollPod, PodType
    <2>2. Wired(Template(sts)) = Wired(sts)
      BY DEF Wired, Template
    <2>3. PodWired(p)'
      BY <2>1, <2>2 DEF WiredInv, PodWired, Wired
    <2>4. QED
      BY <2>1, <2>3, WiredPod
  <1>13. ASSUME NEW p \in Pods, Boot(p)
         PROVE  WiredInv'
    <2>1. /\ pods'[p].rev = pods[p].rev /\ pods[p].rev # None
          /\ UNCHANGED <<sts, job>>
          /\ \A q \in Pods \ {p} : pods'[q] = pods[q]
      BY <1>1, <1>13, SMT DEF Boot, PodType
    <2>2. \/ pods'[p].links = pods[p].links
          \/ pods'[p].links = FALSE
          \/ pods[p].rev.mount # Off
      BY <1>1, <1>13, SMT DEF Boot, PodType
    <2>3. PodWired(p)'
      BY <2>1, <2>2 DEF WiredInv, PodWired, Wired
    <2>4. QED
      BY <2>1, <2>3, WiredPod
  <1>14. ASSUME NEW p \in Pods, BecomeReady(p) \/ SyncMount(p)
         PROVE  WiredInv'
    <2>1. /\ pods'[p].rev = pods[p].rev /\ pods'[p].links = pods[p].links
          /\ UNCHANGED <<sts, job>>
          /\ \A q \in Pods \ {p} : pods'[q] = pods[q]
      BY <1>1, <1>14, ZenonT(30) DEF BecomeReady, SyncMount, PodType
    <2>2. PodWired(p)'
      BY <2>1 DEF WiredInv, PodWired, Wired
    <2>3. QED
      BY <2>1, <2>2, WiredPod
  <1>15. ASSUME NEW p \in Pods, PodFails(p)
         PROVE  WiredInv'
    <2>1. /\ pods'[p].rev = pods[p].rev \/ pods'[p].rev = None
          /\ pods'[p].links = pods[p].links
          /\ UNCHANGED <<sts, job>>
          /\ \A q \in Pods \ {p} : pods'[q] = pods[q]
      BY <1>1, <1>15, SMT DEF PodFails, PodType
    <2>2. PodWired(p)'
      BY <2>1 DEF WiredInv, PodWired, Wired
    <2>3. QED
      BY <2>1, <2>2, WiredPod
  <1>16. CASE UNCHANGED vars
    BY <1>16 DEF vars, WiredInv, JobWired, PodWired, Wired
  <1>19. QED
    BY <1>2, <1>3, <1>4, <1>5, <1>6, <1>7, <1>8, <1>9, <1>10, <1>11, <1>12,
       <1>13, <1>14, <1>15, <1>16, <1>18
       DEF Next, Reconcile, Kubernetes

\* However edits, crashes and pod failures interleave with disabling and
\* re-enabling TLS, no pod gets a template on which the links an earlier
\* template left in its datadir would stop ProxySQL.
THEOREM CleanupNeverMissed == Spec => []NoDanglingBoot
  <1>1. WiredInv => NoDanglingBoot
    BY DEF WiredInv, PodWired, Wired, NoDanglingBoot
  <1>2. QED
    BY TypeInit, TypeNext, WiredInit, WiredNext, <1>1, PTL DEF Spec

\* Only a pass that read spec.tls as off takes TLS off a wired StatefulSet:
\* a missing or broken Secret never does.
THEOREM TLSHeld == Spec => NeverDroppedByFailure
  <1>1. ASSUME TypeInv, WiredInv, [Next]_vars
        PROVE  [sts # None /\ sts.mount # Off /\ sts'.mount = Off
                  => job.want = Off]_vars
    <2>1. CASE ensureStatefulSet
      BY <1>1, <2>1 DEF ensureStatefulSet, WiredInv, JobWired
    <2>2. CASE WindowExpires \/ ClockBack
      <3>1. sts # None => sts'.mount = sts.mount
        BY <1>1, <2>2, AgedType DEF TypeInv
      <3>2. QED
        BY <3>1
    <2>3. CASE sts' = sts
      BY <2>3
    <2>4. ensureStatefulSet \/ WindowExpires \/ ClockBack \/ sts' = sts
      <3>1. \A n : SwitchTLS(n) \/ RepairSecret(n) => sts' = sts
        BY DEF SwitchTLS, RepairSecret
      <3>2. \A n, x : RotateSecret(n, x) \/ BreakSecret(n, x) => sts' = sts
        BY DEF RotateSecret, BreakSecret
      <3>3. ensureTLSSecrets \/ resolveTLSRotation \/ RotationUnread \/ Interrupt
              => sts' = sts
        BY DEF ensureTLSSecrets, resolveTLSRotation, RotationUnread, Interrupt
      <3>4. \A p : reloadAndVerifyTLS(p) => sts' = sts
        BY DEF reloadAndVerifyTLS
      <3>5. \A p : Kubernetes(p) \/ PodFails(p) => sts' = sts
        BY DEF Kubernetes, RollPod, Boot, BecomeReady, SyncMount, PodFails
      <3>6. UNCHANGED vars => sts' = sts
        BY DEF vars
      <3>7. QED
        BY <1>1, <3>1, <3>2, <3>3, <3>4, <3>5, <3>6 DEF Next, Reconcile
    <2>5. QED
      BY <2>1, <2>2, <2>3, <2>4
  <1>2. QED
    BY TypeInit, TypeNext, WiredInit, WiredNext, <1>1, PTL
       DEF Spec, NeverDroppedByFailure

----------------------------------------------------------------------------
(* The marker of the applied certificate.                                  *)

\* The edits under which the marker is honest: renewals at any time, and a
\* Secret that breaks or goes missing and is repaired.
Renewing == EditKinds \subseteq {"rotate", "break", "repair"}

\* A leaf certificate is only ever issued into one content.
OwnLeaf == \A b, c \in Bundles : b.leaf = c.leaf => b = c

\* No renewal goes back: each replaces a content by a later one in some
\* strict order.
Forward(Before) ==
    /\ \A b \in Bundles : <<b, b>> \notin Before
    /\ \A a, b, c \in Bundles :
         <<a, b>> \in Before /\ <<b, c>> \in Before => <<a, c>> \in Before
    /\ Rotations \subseteq Before

\* x is no later than y; what is not a content is earlier than all of them.
Upto(Before, x, y) ==
    \/ x \notin Bundles
    \/ y \in Bundles /\ (x = y \/ <<x, y>> \in Before)

\* The content of the Secret that spec.tls names.
Wanted == IF want = Off THEN None ELSE secrets[want].bundle

\* The StatefulSet mounts the wanted Secret or none; its markers are no later
\* than the Secret, and no pod is restarted for more than was applied.
StsCurrent(Before) ==
    sts # None =>
        /\ sts.mount \in {Off, want}
        /\ sts.mount = Off => sts.applied = None /\ sts.restart = None
        /\ sts.mount # Off => ~sts.cleanup /\ Upto(Before, sts.applied, Wanted)
        /\ Upto(Before, sts.restart, sts.applied)

\* A pod that has come up with TLS serves what it once mounted, and mounts
\* what the Secret once held.
PodCurrent(Before, p) ==
    /\ pods[p].rev # None => /\ pods[p].rev.mount \in {Off, want}
                             /\ Upto(Before, pods[p].rev.restart, Applied)
    /\ pods[p].served # None <=> pods[p].mounted # None /\ pods[p].phase # "down"
    /\ pods[p].phase # "down" /\ pods[p].mounted = None => pods[p].rev.mount = Off
    /\ pods[p].mounted # None =>
        pods[p].mounted \in Bundles /\ Upto(Before, pods[p].mounted, Wanted)
    /\ pods[p].served # None =>
        pods[p].served \in Bundles /\ Upto(Before, pods[p].served, pods[p].mounted)

\* The pod serves what the Secret holds, or will: it has nothing mounted yet,
\* or it is one of the pods the engine missed.
Fresh(p) == p \in missed \/ pods[p].mounted = None \/ Serves(p) = Wanted

\* Every pod of template t is fresh.
ServedBy(t) == \A p \in Pods : pods[p].rev = t => Fresh(p)

\* What a rotation in progress has verified so far.
ReloadCurrent(Before) ==
    job.pc = "reload" =>
        /\ job.mount # Off
        /\ job.bundle \in Bundles
        /\ Applied \notin {None, job.bundle}
        /\ Upto(Before, Applied, job.bundle)
        /\ Upto(Before, job.bundle, Wanted)
        /\ job.bundle = Wanted /\ ~job.failed =>
             \A p \in Pods \ job.todo : Fresh(p)

\* What the pass is about to write.
SaveCurrent(Before) ==
    job.pc = "save" =>
        /\ job.mount = Off => job.applied = None /\ job.restart = None
        /\ Upto(Before, Applied, job.applied)
        /\ job.mount # Off => Upto(Before, job.applied, Wanted)
        /\ Upto(Before, job.restart, job.applied)
        /\ job.mount # Off /\ job.applied = Wanted => ServedBy(Template(job))

JobCurrent(Before) ==
    /\ job.pc # "idle" =>
        /\ job.mount \in {Off, want}
        /\ job.mount # Off => ~job.cleanup
        /\ sts # None /\ sts.mount # Off => job.mount # Off
    /\ ReloadCurrent(Before)
    /\ SaveCurrent(Before)

StsServed ==
    sts # None /\ sts.mount # Off /\ sts.applied = Wanted => ServedBy(Template(sts))

HonestInv(Before) ==
    /\ \A n \in Names : secrets[n].bundle \in Bundles
    /\ StsCurrent(Before)
    /\ \A p \in Pods : PodCurrent(Before, p)
    /\ StsServed
    /\ JobCurrent(Before)

\* The order on contents, extended to what is not one.
LEMMA UptoOrder ==
    ASSUME NEW Before, Forward(Before)
    PROVE  /\ \A x : Upto(Before, x, x)
           /\ \A y : Upto(Before, None, y)
           /\ \A x, y, z : Upto(Before, x, y) /\ Upto(Before, y, z)
                             => Upto(Before, x, z)
           /\ \A x, y : Upto(Before, x, y) /\ Upto(Before, y, x) /\ x \in Bundles
                          => x = y
           /\ \A x, b, c : <<b, c>> \in Rotations /\ Upto(Before, x, b)
                             => Upto(Before, x, c) /\ x # c
  <1>1. None \notin Bundles
    BY BundleAssumption, NameAssumption
  <1>2. \A b, c : <<b, c>> \in Rotations => b \in Bundles /\ c \in Bundles
    BY BundleAssumption
  <1>3. QED
    BY <1>1, <1>2 DEF Upto, Forward

\* At the start there is no StatefulSet, and no pod mounts anything.
LEMMA HonestInit ==
    ASSUME NEW Before, Forward(Before)
    PROVE  Init => HonestInv(Before)
  <1> SUFFICES ASSUME Init PROVE HonestInv(Before)
    OBVIOUS
  <1> USE DEF Init
  <1>1. StsCurrent(Before) /\ StsServed
    BY DEF StsCurrent, StsServed
  <1>2. \A p \in Pods : PodCurrent(Before, p)
    BY DEF PodCurrent
  <1>3. JobCurrent(Before)
    BY DEF JobCurrent, ReloadCurrent, SaveCurrent, IdleJob
  <1>4. QED
    BY <1>1, <1>2, <1>3 DEF HonestInv

\* Nothing the invariant speaks of changes.
LEMMA HonestSame ==
    ASSUME NEW Before, HonestInv(Before), UNCHANGED <<want, sts, pods, job, missed>>,
           \A m \in Names : secrets'[m].bundle = secrets[m].bundle,
           want \in Names \cup {Off}
    PROVE  HonestInv(Before)'
  <1>1. Wanted' = Wanted /\ Applied' = Applied
    BY DEF Wanted, Applied
  <1>2. \A p : Fresh(p)' <=> Fresh(p)
    BY <1>1 DEF Fresh, Serves
  <1>3. \A t : ServedBy(t)' <=> ServedBy(t)
    BY <1>2 DEF ServedBy
  <1>4. ServedBy(Template(job))' <=> ServedBy(Template(job))
    BY <1>2 DEF ServedBy, Template
  <1>5. ServedBy(Template(sts))' <=> ServedBy(Template(sts))
    BY <1>2 DEF ServedBy, Template
  <1>6. StsCurrent(Before)' /\ StsServed'
    BY <1>1, <1>5 DEF HonestInv, StsCurrent, StsServed
  <1>7. \A p \in Pods : PodCurrent(Before, p)'
    BY <1>1 DEF HonestInv, PodCurrent
  <1>8. JobCurrent(Before)'
    BY <1>1, <1>2, <1>4 DEF HonestInv, JobCurrent, ReloadCurrent, SaveCurrent
  <1>9. QED
    BY <1>6, <1>7, <1>8 DEF HonestInv

\* A Secret that breaks or is repaired keeps the content it will have again.
LEMMA HonestBreak ==
    ASSUME NEW Before, TypeInv, HonestInv(Before),
           NEW n \in Names, NEW st \in {"broken", "absent"},
           BreakSecret(n, st) \/ RepairSecret(n)
    PROVE  HonestInv(Before)'
  <1>1. UNCHANGED <<want, sts, pods, job, missed>> /\ want \in Names \cup {Off}
    BY DEF BreakSecret, RepairSecret, TypeInv, TypeOK
  <1>2. \A m \in Names : secrets'[m].bundle = secrets[m].bundle
    BY SMT DEF BreakSecret, RepairSecret, TypeInv, TypeOK
  <1>3. QED
    BY <1>1, <1>2, HonestSame

\* A renewal is a content nothing has been applied, mounted or verified for.
LEMMA HonestRotate ==
    ASSUME NEW Before, Forward(Before), TypeInv, HonestInv(Before),
           NEW n \in Names, NEW b \in Bundles, RotateSecret(n, b)
    PROVE  HonestInv(Before)'
  <1>1. UNCHANGED <<want, sts, pods, job, missed>>
    BY DEF RotateSecret
  <1>2. <<secrets[n].bundle, b>> \in Rotations
    BY DEF RotateSecret
  <1>3. \A m \in Names : secrets'[m].bundle = IF m = n THEN b ELSE secrets[m].bundle
    BY DEF RotateSecret, TypeInv, TypeOK
  <1>4. \A m \in Names : secrets'[m].bundle \in Bundles
    BY <1>3 DEF HonestInv
  <1>5. Applied' = Applied
    BY <1>1 DEF Applied
  <1>6. CASE want # n
    <2>1. Wanted' = Wanted
      BY <1>1, <1>3, <1>6 DEF Wanted, TypeInv, TypeOK
    <2>2. \A p : Fresh(p)' <=> Fresh(p)
      BY <1>1, <2>1 DEF Fresh, Serves
    <2>3. /\ ServedBy(Template(job))' <=> ServedBy(Template(job))
          /\ ServedBy(Template(sts))' <=> ServedBy(Template(sts))
      BY <1>1, <2>2 DEF ServedBy, Template
    <2>4. StsCurrent(Before)' /\ StsServed'
      BY <1>1, <2>1, <2>3 DEF HonestInv, StsCurrent, StsServed
    <2>5. \A p \in Pods : PodCurrent(Before, p)'
      BY <1>1, <1>5, <2>1 DEF HonestInv, PodCurrent
    <2>6. JobCurrent(Before)'
      BY <1>1, <1>5, <2>1, <2>2, <2>3
         DEF HonestInv, JobCurrent, ReloadCurrent, SaveCurrent
    <2>7. QED
      BY <1>4, <2>4, <2>5, <2>6 DEF HonestInv
  <1>7. CASE want = n
    <2>1. Wanted = secrets[n].bundle /\ Wanted' = b
      BY <1>1, <1>3, <1>7, NameAssumption DEF Wanted
    <2>2. \A x : Upto(Before, x, Wanted) => Upto(Before, x, Wanted') /\ x # Wanted'
      BY <1>2, <2>1, UptoOrder, SMT
    <2>3. StsCurrent(Before)'
      BY <1>1, <2>2 DEF HonestInv, StsCurrent
    <2>4. \A p \in Pods : PodCurrent(Before, p)'
      BY <1>1, <1>5, <2>2 DEF HonestInv, PodCurrent
    <2>5. ReloadCurrent(Before)'
      BY <1>1, <1>5, <2>2 DEF HonestInv, JobCurrent, ReloadCurrent
    <2>6. SaveCurrent(Before)'
      BY <1>1, <1>5, <2>2 DEF HonestInv, JobCurrent, SaveCurrent
    <2>7. JobCurrent(Before)'
      BY <1>1, <2>5, <2>6 DEF HonestInv, JobCurrent
    <2>8. StsServed'
      BY <1>1, <2>2 DEF HonestInv, StsCurrent, StsServed
    <2>9. QED
      BY <1>4, <2>3, <2>4, <2>7, <2>8 DEF HonestInv
  <1>8. QED
    BY <1>6, <1>7

\* A pass starts by deciding what it mounts: the wanted Secret, or what it
\* finds mounted.
LEMMA HonestStart ==
    ASSUME NEW Before, TypeInv, HonestInv(Before), ensureTLSSecrets
    PROVE  HonestInv(Before)'
  <1> DEFINE ready == want # Off /\ Valid(want)
             mount == IF want = Off \/ ready THEN want ELSE holdTLSLastGood
  <1>1. /\ UNCHANGED <<want, secrets, sts, pods, missed>>
        /\ job'.pc = "rotate" /\ job'.mount = mount
        /\ job'.cleanup = resolveTLSCleanup(mount)
    BY DEF ensureTLSSecrets, IdleJob
  <1>2. mount \in {Off, want} /\ (sts # None /\ sts.mount # Off => mount # Off)
    BY DEF holdTLSLastGood, HonestInv, StsCurrent
  <1>3. mount # Off => ~resolveTLSCleanup(mount)
    BY DEF resolveTLSCleanup
  <1> HIDE DEF mount
  <1>4. Wanted' = Wanted /\ Applied' = Applied
    BY <1>1 DEF Wanted, Applied
  <1>5. JobCurrent(Before)'
    BY <1>1, <1>2, <1>3 DEF JobCurrent, ReloadCurrent, SaveCurrent
  <1>6. \A p : Fresh(p)' <=> Fresh(p)
    BY <1>1, <1>4 DEF Fresh, Serves
  <1>7. StsServed'
    BY <1>1, <1>4, <1>6 DEF HonestInv, StsServed, ServedBy, Template
  <1>8. QED
    BY <1>1, <1>4, <1>5, <1>7 DEF HonestInv, StsCurrent, PodCurrent

\* An outcome is committed: what the pass will write is no earlier than what
\* is there, and honest if it is what the Secret holds.  A pod may have been
\* reloaded in the same step, and pods may be found to have been missed.
LEMMA HonestCommit ==
    ASSUME NEW Before, TypeInv, HonestInv(Before), job.pc # "idle",
           UNCHANGED <<want, secrets, sts>>,
           \A p \in Pods : PodCurrent(Before, p)',
           StsServed',
           NEW a \in Content, NEW w \in WindowType, NEW r \in RestartType,
           NEW e \in BOOLEAN, Outcome(a, w, r, e),
           job.mount = Off => a = None /\ r = None,
           Upto(Before, Applied, a),
           job.mount # Off => Upto(Before, a, Wanted),
           Upto(Before, r, a),
           job.mount # Off /\ a = Wanted =>
             \A p \in Pods :
               pods'[p].rev = [mount |-> job.mount, cleanup |-> job.cleanup,
                               restart |-> r]
                 => Fresh(p)'
    PROVE  HonestInv(Before)'
  <1>1. job \in JobType
    BY DEF TypeInv, TypeOK
  <1>2. job'.pc = "save" /\ job'.mount = job.mount /\ job'.cleanup = job.cleanup
    BY <1>1, OutcomeType
  <1>3. job'.applied = a /\ job'.restart = r
    BY <1>1 DEF Outcome, JobType
  <1>4. Wanted' = Wanted /\ Applied' = Applied
    BY DEF Wanted, Applied
  <1>5. job.mount # Off /\ a = Wanted => ServedBy(Template(job))'
    <2>1. Template(job') = [mount |-> job.mount, cleanup |-> job.cleanup, restart |-> r]
      BY <1>2, <1>3 DEF Template
    <2>2. QED
      BY <2>1 DEF ServedBy
  <1>6. SaveCurrent(Before)'
    BY <1>2, <1>3, <1>4, <1>5 DEF SaveCurrent
  <1>7. JobCurrent(Before)'
    BY <1>2, <1>6 DEF HonestInv, JobCurrent, ReloadCurrent
  <1>8. StsCurrent(Before)'
    BY <1>4 DEF HonestInv, StsCurrent
  <1>9. \A n \in Names : (secrets[n].bundle \in Bundles)'
    BY DEF HonestInv
  <1>10. QED
    BY <1>7, <1>8, <1>9 DEF HonestInv

\* The same if no pod changes and none is newly missed.
LEMMA HonestOutcome ==
    ASSUME NEW Before, TypeInv, HonestInv(Before), job.pc # "idle",
           UNCHANGED <<want, secrets, sts, pods, missed>>,
           NEW a \in Content, NEW w \in WindowType, NEW r \in RestartType,
           NEW e \in BOOLEAN, Outcome(a, w, r, e),
           job.mount = Off => a = None /\ r = None,
           Upto(Before, Applied, a),
           job.mount # Off => Upto(Before, a, Wanted),
           Upto(Before, r, a),
           job.mount # Off /\ a = Wanted =>
             ServedBy([mount |-> job.mount, cleanup |-> job.cleanup, restart |-> r])
    PROVE  HonestInv(Before)'
  <1>1. Wanted' = Wanted /\ Applied' = Applied
    BY DEF Wanted, Applied
  <1>2. \A p \in Pods : PodCurrent(Before, p)'
    BY <1>1 DEF HonestInv, PodCurrent
  <1>3. \A p : Fresh(p)' <=> Fresh(p)
    BY <1>1 DEF Fresh, Serves
  <1>4. StsServed'
    BY <1>1, <1>3 DEF HonestInv, StsServed, ServedBy, Template
  <1>5. QED
    BY <1>2, <1>3, <1>4, HonestCommit DEF ServedBy

\* The template of the pass is the live one as long as it bumps nothing.
LEMMA HonestKeeps ==
    ASSUME NEW Before, Forward(Before), TypeInv, HonestInv(Before), job.pc # "idle",
           job.mount # Off
    PROVE  /\ Applied = Wanted =>
                ServedBy([mount |-> job.mount, cleanup |-> job.cleanup,
                          restart |-> RestartValue])
           /\ Upto(Before, Applied, Wanted)
           /\ Upto(Before, RestartValue, Applied)
           /\ Wanted \in Bundles
           /\ want \in Names /\ job.mount = want
  <1>1. want \in Names /\ job.mount = want
    BY DEF HonestInv, JobCurrent, TypeInv, TypeOK
  <1>2. Wanted \in Bundles
    BY <1>1, NameAssumption DEF HonestInv, Wanted
  <1>3. Wanted # None
    BY <1>2, BundleAssumption, NameAssumption
  <1>4. Upto(Before, Applied, Wanted) /\ Upto(Before, RestartValue, Applied)
    BY UptoOrder, ZenonT(30) DEF HonestInv, StsCurrent, Applied, RestartValue
  <1>5. ASSUME Applied = Wanted
        PROVE  ServedBy([mount |-> job.mount, cleanup |-> job.cleanup,
                         restart |-> RestartValue])
    <2>1. sts # None /\ sts.mount # Off /\ sts.applied = Wanted
      BY <1>3, <1>5 DEF Applied, HonestInv, StsCurrent
    <2>2. sts.mount = job.mount /\ sts.cleanup = job.cleanup
      <3>1. sts.mount = job.mount
        BY <1>1, <2>1 DEF HonestInv, StsCurrent
      <3>2. sts.cleanup = FALSE
        BY <2>1 DEF HonestInv, StsCurrent, TypeInv, TypeOK, StsType
      <3>3. job.cleanup = FALSE
        BY DEF HonestInv, JobCurrent, TypeInv, TypeOK, JobType
      <3>4. QED
        BY <3>1, <3>2, <3>3
    <2>3. Template(sts) = [mount |-> job.mount, cleanup |-> job.cleanup,
                           restart |-> RestartValue]
      BY <2>1, <2>2 DEF Template, RestartValue
    <2>4. QED
      BY <2>1, <2>3 DEF HonestInv, StsServed
  <1>6. QED
    BY <1>1, <1>2, <1>4, <1>5

\* The rotation engine up to its first dial.
LEMMA HonestResolve ==
    ASSUME NEW Before, Forward(Before), TypeInv, HonestInv(Before),
           resolveTLSRotation \/ RotationUnread
    PROVE  HonestInv(Before)'
  <1> DEFINE readable == job.ready /\ secrets[job.mount].state # "absent"
             b == IF ~readable THEN None
                  ELSE IF Valid(job.mount) THEN secrets[job.mount].bundle
                  ELSE Broken
             moved == readable /\ Applied \notin {None, b}
             adopted == IF Applied = None THEN Late(b) ELSE missed
  <1>1. UNCHANGED <<want, secrets, sts, pods>> /\ job.pc = "rotate"
    BY DEF resolveTLSRotation, RotationUnread
  <1>2. /\ Applied \in Content /\ Window \in WindowType /\ RestartValue \in RestartType
        /\ None \in Content /\ None \in WindowType /\ None \in RestartType
    BY MarkerType DEF TypeInv, Content, WindowType, RestartType
  <1>3. job.ready => job.mount # Off
    BY DEF TypeInv, Shape
  <1>4. ASSUME job.mount = Off PROVE Applied = None
    BY <1>1, <1>4 DEF Applied, HonestInv, StsCurrent, JobCurrent
  <1>5. readable => b \in {Wanted, Broken} /\ b \in Content
    <2>1. CASE readable
      <3>1. job.mount = want /\ want # Off /\ want \in Names
        BY <1>1, <1>3, <2>1, HonestKeeps, NameAssumption
      <3>2. Wanted = secrets[job.mount].bundle /\ Wanted \in Bundle
        BY <3>1 DEF Wanted, TypeInv, TypeOK
      <3>3. QED
        BY <2>1, <3>2 DEF Content
    <2>2. QED
      BY <2>1
  <1>6. \/ job.mount = Off /\ Outcome(None, None, None, FALSE) /\ missed' = missed
        \/ /\ job.mount # Off /\ \E e \in BOOLEAN : Outcome(Applied, Window, RestartValue, e)
           /\ missed' = missed
        \/ readable /\ ~moved /\ Outcome(b, None, RestartValue, FALSE) /\ missed' = adopted
        \/ /\ moved /\ LeafFingerprint(b)
           /\ job' = [job EXCEPT !.pc = "reload", !.bundle = b,
                                 !.todo = ReadyPods,
                                 !.age = parseTLSRotationState(b)]
           /\ missed' = Late(b) \ ReadyPods
    <2>1. CASE RotationUnread
      BY <1>3, <2>1 DEF RotationUnread
    <2>2. CASE resolveTLSRotation
      BY <1>3, <2>2 DEF resolveTLSRotation
    <2>3. QED
      BY <2>1, <2>2
  <1>7. moved <=> readable /\ Applied # None /\ Applied # b
    OBVIOUS
  <1>8. Wanted' = Wanted /\ Applied' = Applied
    BY <1>1 DEF Wanted, Applied
  <1>9. \A p \in Pods : PodCurrent(Before, p)'
    BY <1>1, <1>8 DEF HonestInv, PodCurrent
  <1>10. \A p \in Pods \ missed' : Serves(p) = Wanted \/ pods[p].mounted = None
                                     => Fresh(p)'
    BY <1>1, <1>8 DEF Fresh, Serves
  <1>11. adopted = IF Applied = None THEN Late(b) ELSE missed
    OBVIOUS
  <1> HIDE DEF readable, b, moved, adopted
  <1>12. CASE job.mount = Off /\ Outcome(None, None, None, FALSE) /\ missed' = missed
    <2>1. Applied = None /\ Upto(Before, None, None) /\ job.pc # "idle"
      BY <1>1, <1>4, <1>12, UptoOrder
    <2>2. QED
      BY <1>1, <1>2, <1>12, <2>1, HonestOutcome
  <1>13. CASE /\ job.mount # Off /\ \E e \in BOOLEAN : Outcome(Applied, Window, RestartValue, e)
              /\ missed' = missed
    <2>1. PICK e \in BOOLEAN : Outcome(Applied, Window, RestartValue, e)
      BY <1>13
    <2>2. job.mount # Off /\ job.pc # "idle"
      BY <1>1, <1>13
    <2>3. /\ Applied = Wanted =>
               ServedBy([mount |-> job.mount, cleanup |-> job.cleanup,
                         restart |-> RestartValue])
          /\ Upto(Before, Applied, Wanted)
          /\ Upto(Before, RestartValue, Applied)
          /\ Upto(Before, Applied, Applied)
      BY <2>2, HonestKeeps, UptoOrder
    <2>4. QED
      BY <1>1, <1>2, <1>13, <2>1, <2>2, <2>3, HonestOutcome
  <1>14. CASE readable /\ ~moved /\ Outcome(b, None, RestartValue, FALSE) /\ missed' = adopted
    <2>1. job.mount # Off /\ job.pc # "idle"
      BY <1>1, <1>3, <1>14 DEF readable
    <2>2. /\ Applied = Wanted =>
               ServedBy([mount |-> job.mount, cleanup |-> job.cleanup,
                         restart |-> RestartValue])
          /\ Upto(Before, Applied, Wanted)
          /\ Upto(Before, RestartValue, Applied)
          /\ Wanted \in Bundles
          /\ want \in Names /\ job.mount = want
      BY <2>1, HonestKeeps
    <2>3. Wanted # None /\ Broken # None
      BY <2>2, BundleAssumption, NameAssumption
    <2>4. Applied \in {None, b} /\ b \in {Wanted, Broken} /\ b \in Content /\ b # None
      BY <1>5, <1>7, <1>14, <2>3
    <2>5. Upto(Before, Applied, b) /\ Upto(Before, RestartValue, b)
      <3>1. Upto(Before, Applied, b)
        BY <2>4, UptoOrder, SMT
      <3>2. QED
        BY <2>2, <3>1, UptoOrder
    <2>6. Upto(Before, b, Wanted)
      <3>1. Broken \notin Bundles
        BY BundleAssumption, NameAssumption
      <3>2. Upto(Before, Broken, Wanted)
        BY <3>1 DEF Upto
      <3>3. QED
        BY <2>4, <3>2, UptoOrder
    <2>7. CASE Applied = b
      <3>1. missed' = missed
        BY <1>11, <1>14, <2>4, <2>7
      <3>2. QED
        BY <1>1, <1>2, <1>14, <2>1, <2>2, <2>4, <2>5, <2>6, <2>7, <3>1, HonestOutcome
    <2>8. CASE Applied = None
      <3>1. missed' = Late(b)
        BY <1>11, <1>14, <2>8
      <3>2. StsServed'
        BY <1>1, <1>8, <2>3, <2>8 DEF StsServed, Applied
      <3>3. ASSUME b = Wanted, NEW p \in Pods PROVE Fresh(p)'
        BY <1>1, <1>8, <3>1, <3>3 DEF Fresh, Serves, Late
      <3>4. QED
        BY <1>1, <1>2, <1>9, <1>14, <2>1, <2>4, <2>5, <2>6, <3>2, <3>3, HonestCommit
    <2>9. QED
      BY <2>4, <2>7, <2>8
  <1>15. CASE /\ moved /\ LeafFingerprint(b)
              /\ job' = [job EXCEPT !.pc = "reload", !.bundle = b,
                                    !.todo = ReadyPods,
                                    !.age = parseTLSRotationState(b)]
              /\ missed' = Late(b) \ ReadyPods
    <2>1. job.mount # Off /\ job.pc # "idle"
      BY <1>1, <1>3, <1>7, <1>15 DEF readable
    <2>2. Upto(Before, Applied, Wanted) /\ Wanted \in Bundles
      BY <2>1, HonestKeeps
    <2>3. b = Wanted /\ Applied \notin {None, b}
      BY <1>5, <1>7, <1>15 DEF LeafFingerprint
    <2>4. /\ job'.pc = "reload" /\ job'.bundle = b /\ job'.todo = ReadyPods
          /\ job'.mount = job.mount /\ job'.cleanup = job.cleanup
      BY <1>15 DEF TypeInv, TypeOK, JobType
    <2>5. ASSUME NEW p \in Pods \ ReadyPods PROVE Fresh(p)'
      BY <1>1, <1>8, <1>15, <2>3 DEF Fresh, Serves, Late
    <2>6. ReloadCurrent(Before)'
      BY <1>1, <1>8, <2>1, <2>2, <2>3, <2>4, <2>5, UptoOrder DEF ReloadCurrent
    <2>7. JobCurrent(Before)'
      BY <1>1, <2>4, <2>6 DEF HonestInv, JobCurrent, SaveCurrent
    <2>8. StsServed'
      BY <1>1, <1>8, <2>3 DEF StsServed, Applied
    <2>9. StsCurrent(Before)'
      BY <1>1, <1>8 DEF HonestInv, StsCurrent
    <2>10. QED
      BY <1>1, <1>9, <2>7, <2>8, <2>9 DEF HonestInv
  <1>16. QED
    BY <1>6, <1>12, <1>13, <1>14, <1>15

\* What a reload changes: a pod serves what it mounts, which is no older, and
\* a pod that was up to date stays so.
LEMMA HonestServed ==
    ASSUME NEW Before, Forward(Before), TypeInv, HonestInv(Before), NEW p \in Pods,
           UNCHANGED <<want, secrets, sts, missed>>,
           \/ pods' = pods
           \/ /\ pods[p].served # None
              /\ pods' = [pods EXCEPT ![p].served = pods[p].mounted]
    PROVE  /\ \A q \in Pods : PodCurrent(Before, q)'
           /\ StsServed'
           /\ \A q \in Pods : Fresh(q) => Fresh(q)'
           /\ \A q \in Pods : /\ pods'[q].rev = pods[q].rev
                              /\ pods'[q].mounted = pods[q].mounted
                              /\ pods'[q].phase = pods[q].phase
  <1>1. Wanted' = Wanted /\ Applied' = Applied
    BY DEF Wanted, Applied
  <1>2. \A q \in Pods : /\ pods'[q].rev = pods[q].rev
                        /\ pods'[q].mounted = pods[q].mounted
                        /\ pods'[q].phase = pods[q].phase
                        /\ \/ pods'[q].served = pods[q].served
                           \/ /\ pods[q].served # None
                              /\ pods'[q].served = pods[q].mounted
    <2>1. CASE pods' = pods
      BY <2>1
    <2>2. CASE /\ pods[p].served # None
               /\ pods' = [pods EXCEPT ![p].served = pods[p].mounted]
      BY <2>2 DEF TypeInv, TypeOK, PodType
    <2>3. QED
      BY <2>1, <2>2
  <1>3. ASSUME NEW q \in Pods PROVE PodCurrent(Before, q)' /\ (Fresh(q) => Fresh(q)')
    <2>1. PodCurrent(Before, q)
      BY DEF HonestInv
    <2>2. CASE pods'[q].served = pods[q].served
      BY <1>1, <1>2, <2>1, <2>2 DEF PodCurrent, Fresh, Serves
    <2>3. CASE pods[q].served # None /\ pods'[q].served = pods[q].mounted
      <3>1. /\ pods[q].mounted # None /\ pods[q].phase # "down"
            /\ pods[q].mounted \in Bundles /\ pods[q].served \in Bundles
            /\ Upto(Before, pods[q].served, pods[q].mounted)
            /\ Upto(Before, pods[q].mounted, Wanted)
        BY <2>1, <2>3 DEF PodCurrent
      <3>2. Upto(Before, pods[q].mounted, pods[q].mounted)
        BY UptoOrder
      <3>3. PodCurrent(Before, q)'
        BY <1>1, <1>2, <2>1, <2>3, <3>1, <3>2 DEF PodCurrent
      <3>4. pods[q].served = Wanted => pods[q].mounted = Wanted
        BY <3>1, UptoOrder, SMT
      <3>5. Fresh(q) => Fresh(q)'
        BY <1>1, <1>2, <2>3, <3>1, <3>4 DEF Fresh, Serves
      <3>6. QED
        BY <3>3, <3>5
    <2>4. QED
      BY <1>2, <2>2, <2>3
  <1>4. StsServed'
    BY <1>1, <1>2, <1>3 DEF HonestInv, StsServed, ServedBy, Template
  <1>5. QED
    BY <1>2, <1>3, <1>4

\* One endpoint of a rotation: it counts as verified only if the pod serves
\* the bundle, for no other content has its leaf.
LEMMA HonestReload ==
    ASSUME NEW Before, Forward(Before), OwnLeaf, TypeInv, HonestInv(Before),
           NEW p \in Pods, reloadAndVerifyTLS(p)
    PROVE  HonestInv(Before)'
  <1>1. /\ UNCHANGED <<want, secrets, sts, missed>>
        /\ job.pc = "reload" /\ p \in job.todo
    BY DEF reloadAndVerifyTLS
  <1>2. /\ job.mount # Off /\ job.bundle \in Bundles
        /\ Applied \notin {None, job.bundle}
        /\ Upto(Before, Applied, job.bundle)
        /\ Upto(Before, job.bundle, Wanted)
        /\ job.bundle = Wanted /\ ~job.failed =>
             \A q \in Pods \ job.todo : Fresh(q)
    BY <1>1 DEF HonestInv, JobCurrent, ReloadCurrent
  <1>3. \/ pods' = pods
        \/ /\ pods[p].served # None
           /\ pods' = [pods EXCEPT ![p].served = pods[p].mounted]
    BY DEF reloadAndVerifyTLS, pinnedTLSConfig
  <1>4. PodCurrent(Before, p)
    BY DEF HonestInv
  <1>5. /\ pods[p].served # None /\ pods[p].served.leaf = job.bundle.leaf
             => pods[p].served = job.bundle
        /\ pods[p].served # None /\ pods[p].mounted.leaf = job.bundle.leaf
             => pods[p].mounted = job.bundle
    BY <1>2, <1>4 DEF PodCurrent, OwnLeaf
  <1>6. Wanted' = Wanted /\ Applied' = Applied
    BY <1>1 DEF Wanted, Applied
  <1>7. \E ok \in BOOLEAN : /\ NextEndpoint(p, ok)
                            /\ ok => /\ pods'[p].served = job.bundle
                                     /\ pods[p].phase # "down"
    <2> DEFINE fresh == /\ pods[p].phase # "down" /\ pods[p].served # None
                        /\ pods[p].served.leaf = job.bundle.leaf
               ok == pods[p].mounted.leaf = job.bundle.leaf
    <2>1. \/ NextEndpoint(p, fresh) /\ pods' = pods
          \/ /\ pods[p].served # None /\ pods[p].phase # "down"
             /\ pods' = [pods EXCEPT ![p].served = pods[p].mounted]
             /\ NextEndpoint(p, ok)
          \/ NextEndpoint(p, FALSE)
      BY DEF reloadAndVerifyTLS, pinnedTLSConfig
    <2>2. fresh \in BOOLEAN /\ ok \in BOOLEAN /\ FALSE \in BOOLEAN
      OBVIOUS
    <2>3. pods' = pods /\ fresh => pods'[p].served = job.bundle
      BY <1>5
    <2>4. ASSUME pods[p].served # None, ok,
                 pods' = [pods EXCEPT ![p].served = pods[p].mounted]
          PROVE  pods'[p].served = job.bundle
      <3>1. pods[p].mounted = job.bundle
        BY <1>5, <2>4
      <3>2. pods'[p].served = pods[p].mounted
        BY <2>4 DEF TypeInv, TypeOK, PodType
      <3>3. QED
        BY <3>1, <3>2
    <2>5. fresh => pods[p].phase # "down"
      OBVIOUS
    <2> HIDE DEF fresh, ok
    <2>6. QED
      BY <2>1, <2>2, <2>3, <2>4, <2>5
  <1>8. PICK ok \in BOOLEAN : /\ NextEndpoint(p, ok)
                              /\ ok => /\ pods'[p].served = job.bundle
                                       /\ pods[p].phase # "down"
    BY <1>7
  <1>9. /\ \A q \in Pods : PodCurrent(Before, q)'
        /\ StsServed'
        /\ \A q \in Pods : Fresh(q) => Fresh(q)'
        /\ \A q \in Pods : /\ pods'[q].rev = pods[q].rev
                           /\ pods'[q].mounted = pods[q].mounted
                           /\ pods'[q].phase = pods[q].phase
    BY <1>1, <1>3, HonestServed
  <1>10. ok /\ job.bundle = Wanted => Fresh(p)'
    BY <1>6, <1>8, <1>9 DEF Fresh, Serves
  <1>11. CASE job.todo # {p}
    <2>1. job' = [job EXCEPT !.todo = @ \ {p}, !.failed = @ \/ ~ok]
      BY <1>8, <1>11 DEF NextEndpoint
    <2>2. /\ job'.pc = "reload" /\ job'.mount = job.mount /\ job'.bundle = job.bundle
          /\ job'.todo = job.todo \ {p} /\ job'.failed = (job.failed \/ ~ok)
          /\ job'.cleanup = job.cleanup
      BY <1>1, <2>1 DEF TypeInv, TypeOK, JobType
    <2>3. ASSUME job.bundle = Wanted, ~job'.failed, NEW q \in Pods \ job'.todo
          PROVE  Fresh(q)'
      <3>1. ~job.failed /\ ok
        BY <2>2, <2>3
      <3>2. CASE q = p
        BY <1>10, <2>3, <3>1, <3>2
      <3>3. CASE q # p
        <4>1. q \in Pods \ job.todo
          BY <2>2, <2>3, <3>3
        <4>2. QED
          BY <1>2, <1>9, <2>3, <3>1, <4>1
      <3>4. QED
        BY <3>2, <3>3
    <2>4. ReloadCurrent(Before)'
      BY <1>2, <1>6, <2>2, <2>3 DEF ReloadCurrent
    <2>5. JobCurrent(Before)'
      BY <1>1, <2>2, <2>4 DEF HonestInv, JobCurrent, SaveCurrent
    <2>6. StsCurrent(Before)' /\ \A n \in Names : (secrets[n].bundle \in Bundles)'
      BY <1>1, <1>6 DEF HonestInv, StsCurrent
    <2>7. QED
      BY <1>9, <2>5, <2>6 DEF HonestInv
  <1>12. CASE job.todo = {p}
    <2>1. RotationOutcome(job.failed \/ ~ok)
      BY <1>8, <1>12 DEF NextEndpoint
    <2>2. /\ job.bundle \in Content /\ job.bundle \in RestartType
          /\ None \in WindowType
          /\ [bundle |-> job.bundle, age |-> job.age] \in WindowType
      BY <1>2, BundleAssumption
         DEF Content, RestartType, WindowType, TypeInv, TypeOK, JobType
    <2>3. Applied \in Content /\ RestartValue \in RestartType
      BY MarkerType DEF TypeInv
    <2>4. /\ Upto(Before, RestartValue, Applied) /\ Upto(Before, Applied, Wanted)
          /\ job.mount = want /\ Wanted \in Bundles
      BY <1>1, <1>2, HonestKeeps
    <2>5. Upto(Before, RestartValue, job.bundle)
      BY <1>2, <2>4, UptoOrder
    <2>6. Upto(Before, job.bundle, job.bundle) /\ Upto(Before, Applied, Applied)
      BY UptoOrder
    <2>7. job.pc # "idle"
      BY <1>1
    <2>8. CASE ~(job.failed \/ ~ok)
      <3>1. Outcome(job.bundle, None, RestartValue, FALSE)
        BY <2>1, <2>8 DEF RotationOutcome
      <3>2. ASSUME job.bundle = Wanted, NEW q \in Pods PROVE Fresh(q)'
        <4>1. CASE q = p
          BY <1>10, <2>8, <3>2, <4>1
        <4>2. CASE q # p
          <5>1. q \in Pods \ job.todo
            BY <1>12, <4>2
          <5>2. QED
            BY <1>2, <1>9, <2>8, <3>2, <5>1
        <4>3. QED
          BY <4>1, <4>2
      <3>3. QED
        BY <1>1, <1>2, <1>9, <2>2, <2>3, <2>5, <2>7, <3>1, <3>2, HonestCommit
    <2>9. CASE (job.failed \/ ~ok) /\ job.age = "expired"
      <3>1. Outcome(job.bundle, None, job.bundle, FALSE)
        BY <2>1, <2>9 DEF RotationOutcome
      <3>2. ASSUME job.bundle = Wanted, NEW q \in Pods,
                   pods'[q].rev = [mount |-> job.mount, cleanup |-> job.cleanup,
                                   restart |-> job.bundle]
            PROVE  Fresh(q)'
        <4>1. CASE pods'[q].mounted = None
          BY <4>1 DEF Fresh
        <4>2. CASE pods'[q].mounted # None
          <5>1. pods'[q].rev # None
            BY <1>9, <4>2 DEF TypeInv, Shape, PodMount
          <5>2. PodCurrent(Before, q)'
            BY <1>9
          <5>3. Upto(Before, job.bundle, Applied)
            BY <1>6, <3>2, <5>1, <5>2, SMT DEF PodCurrent
          <5>4. QED
            BY <1>2, <5>3, UptoOrder
        <4>3. QED
          BY <4>1, <4>2
      <3>3. QED
        BY <1>1, <1>2, <1>9, <2>2, <2>6, <2>7, <3>1, <3>2, HonestCommit
    <2>10. CASE (job.failed \/ ~ok) /\ job.age # "expired"
      <3>1. Outcome(Applied, [bundle |-> job.bundle, age |-> job.age],
                    RestartValue, TRUE)
        BY <2>1, <2>10 DEF RotationOutcome
      <3>2. Applied # Wanted
        BY <1>2, <2>4, UptoOrder, SMT
      <3>3. QED
        BY <1>1, <1>2, <1>9, <2>2, <2>3, <2>4, <2>6, <2>7, <3>1, <3>2, HonestCommit
    <2>11. QED
      BY <2>8, <2>9, <2>10
  <1>13. QED
    BY <1>11, <1>12

\* Template and markers are written in one step, so they stay in agreement.
LEMMA HonestSave ==
    ASSUME NEW Before, Forward(Before), TypeInv, HonestInv(Before), ensureStatefulSet
    PROVE  HonestInv(Before)'
  <1>1. /\ UNCHANGED <<want, secrets, pods, missed>> /\ job.pc = "save"
        /\ job'.pc = "idle"
        /\ sts' = [mount |-> job.mount, cleanup |-> job.cleanup,
                   restart |-> job.restart, applied |-> job.applied,
                   window |-> job.window]
    BY DEF ensureStatefulSet, IdleJob
  <1>2. sts' # None
    <2>1. sts' \in StsType
      BY <1>1 DEF TypeInv, TypeOK, JobType, StsType
    <2>2. QED
      BY <2>1, StsAssumption
  <1>3. Wanted' = Wanted /\ Applied' = job.applied
    BY <1>1, <1>2 DEF Wanted, Applied
  <1>4. JobCurrent(Before) /\ SaveCurrent(Before)
    BY DEF HonestInv, JobCurrent
  <1>5. StsCurrent(Before)'
    BY <1>1, <1>3, <1>4 DEF StsCurrent, JobCurrent, SaveCurrent
  <1>6. ASSUME NEW p \in Pods PROVE PodCurrent(Before, p)'
    <2>1. PodCurrent(Before, p)
      BY DEF HonestInv
    <2>2. Upto(Before, Applied, job.applied)
      BY <1>1, <1>4 DEF SaveCurrent
    <2>3. \A x : Upto(Before, x, Applied) => Upto(Before, x, job.applied)
      BY <2>2, UptoOrder
    <2>4. QED
      BY <1>1, <1>3, <2>1, <2>3 DEF PodCurrent
  <1>7. Template(sts') = Template(job)
    BY <1>1 DEF Template
  <1>8. \A p : Fresh(p)' <=> Fresh(p)
    BY <1>1, <1>3 DEF Fresh, Serves
  <1>9. StsServed'
    BY <1>1, <1>3, <1>4, <1>7, <1>8 DEF SaveCurrent, StsServed, ServedBy
  <1>10. JobCurrent(Before)'
    BY <1>1 DEF JobCurrent, ReloadCurrent, SaveCurrent
  <1>11. QED
    BY <1>1, <1>5, <1>6, <1>9, <1>10 DEF HonestInv

\* A crash forgets the pass, and time touches only windows.
LEMMA HonestTime ==
    ASSUME NEW Before, TypeInv, HonestInv(Before),
           Interrupt \/ WindowExpires \/ ClockBack
    PROVE  HonestInv(Before)'
  <1>1. UNCHANGED <<want, secrets, pods, missed>>
    BY DEF Interrupt, WindowExpires, ClockBack
  <1>2. /\ sts' = None <=> sts = None
        /\ sts # None => /\ sts'.mount = sts.mount /\ sts'.cleanup = sts.cleanup
                         /\ sts'.applied = sts.applied /\ sts'.restart = sts.restart
    <2>1. CASE Interrupt
      BY <2>1 DEF Interrupt
    <2>2. CASE WindowExpires \/ ClockBack
      BY <2>2, AgedType DEF TypeInv
    <2>3. QED
      BY <2>1, <2>2
  <1>3. Wanted' = Wanted /\ Applied' = Applied
    BY <1>1, <1>2 DEF Wanted, Applied
  <1>4. \A p : Fresh(p)' <=> Fresh(p)
    BY <1>1, <1>3 DEF Fresh, Serves
  <1>5. sts # None => Template(sts') = Template(sts)
    BY <1>2 DEF Template
  <1>6. StsServed'
    BY <1>1, <1>2, <1>3, <1>4, <1>5 DEF HonestInv, StsServed, ServedBy
  <1>7. StsCurrent(Before)'
    BY <1>1, <1>2, <1>3 DEF HonestInv, StsCurrent
  <1>8. \A p \in Pods : PodCurrent(Before, p)'
    BY <1>1, <1>3 DEF HonestInv, PodCurrent
  <1>9. JobCurrent(Before)'
    <2>1. CASE Interrupt \/ ClockBack
      <3>1. job'.pc = "idle"
        BY <2>1, SMT DEF Interrupt, ClockBack, IdleJob
      <3>2. QED
        BY <3>1 DEF JobCurrent, ReloadCurrent, SaveCurrent
    <2>2. CASE WindowExpires
      <3>1. /\ job'.pc = job.pc /\ job'.mount = job.mount /\ job'.cleanup = job.cleanup
            /\ job'.bundle = job.bundle /\ job'.failed = job.failed
            /\ job'.todo = job.todo /\ job'.applied = job.applied
            /\ job'.restart = job.restart
        BY <2>2, AgedJob DEF TypeInv
      <3>2. Template(job') = Template(job)
        BY <3>1 DEF Template
      <3>3. ServedBy(Template(job)) => ServedBy(Template(job))'
        BY <1>1, <1>4, <3>2 DEF ServedBy
      <3>4. ReloadCurrent(Before)'
        BY <1>3, <1>4, <3>1 DEF HonestInv, JobCurrent, ReloadCurrent
      <3>5. SaveCurrent(Before)'
        BY <1>3, <3>1, <3>3 DEF HonestInv, JobCurrent, SaveCurrent
      <3>6. QED
        BY <1>1, <1>2, <3>1, <3>4, <3>5 DEF HonestInv, JobCurrent
    <2>3. QED
      BY <2>1, <2>2
  <1>10. QED
    BY <1>1, <1>6, <1>7, <1>8, <1>9 DEF HonestInv

\* A pod that changes alone: it stays fresh if it was, and is fresh under a
\* new template.
LEMMA HonestPod ==
    ASSUME NEW Before, HonestInv(Before), NEW p \in Pods,
           UNCHANGED <<want, secrets, sts, job>>,
           missed' \ {p} = missed \ {p},
           \A q \in Pods \ {p} : pods'[q] = pods[q],
           PodCurrent(Before, p)',
           Fresh(p) => Fresh(p)',
           pods'[p].rev = pods[p].rev \/ Fresh(p)'
    PROVE  HonestInv(Before)'
  <1>1. Wanted' = Wanted /\ Applied' = Applied
    BY DEF Wanted, Applied
  <1>2. \A q \in Pods : Fresh(q) => Fresh(q)'
    <2>1. ASSUME NEW q \in Pods \ {p} PROVE Fresh(q) => Fresh(q)'
      <3>1. q \in missed' <=> q \in missed
        OBVIOUS
      <3>2. QED
        BY <1>1, <3>1 DEF Fresh, Serves
    <2>2. QED
      BY <2>1
  <1>3. ASSUME NEW q \in Pods PROVE pods'[q].rev = pods[q].rev \/ Fresh(q)'
    OBVIOUS
  <1>4. ServedBy(Template(job)) => ServedBy(Template(job))'
    BY <1>2, <1>3 DEF ServedBy, Template
  <1>5. ServedBy(Template(sts)) => ServedBy(Template(sts))'
    BY <1>2, <1>3 DEF ServedBy, Template
  <1>6. \A q \in Pods : PodCurrent(Before, q)'
    BY <1>1, ZenonT(30) DEF HonestInv, PodCurrent
  <1>7. StsCurrent(Before)' /\ StsServed'
    BY <1>1, <1>5 DEF HonestInv, StsCurrent, StsServed
  <1>8. ReloadCurrent(Before)'
    BY <1>1, <1>2 DEF HonestInv, JobCurrent, ReloadCurrent
  <1>9. SaveCurrent(Before)'
    BY <1>1, <1>4 DEF HonestInv, JobCurrent, SaveCurrent
  <1>10. JobCurrent(Before)'
    BY <1>8, <1>9 DEF HonestInv, JobCurrent
  <1>11. QED
    BY <1>1, <1>6, <1>7, <1>10 DEF HonestInv

\* The StatefulSet controller and the kubelet, and a failing pod.
LEMMA HonestKubernetes ==
    ASSUME NEW Before, Forward(Before), TypeInv, HonestInv(Before),
           NEW p \in Pods, Kubernetes(p) \/ PodFails(p)
    PROVE  HonestInv(Before)'
  <1>1. /\ UNCHANGED <<want, secrets, sts, job>>
        /\ \A q \in Pods \ {p} : pods'[q] = pods[q]
        /\ missed' \ {p} = missed \ {p}
    <2>1. \A q \in Pods \ {p} : pods'[q] = pods[q]
      BY DEF Kubernetes, RollPod, Boot, BecomeReady, SyncMount, PodFails, TypeInv, TypeOK
    <2>2. UNCHANGED <<want, secrets, sts, job>>
      BY DEF Kubernetes, RollPod, Boot, BecomeReady, SyncMount, PodFails
    <2>3. missed' \in {missed, missed \ {p}}
      BY DEF Kubernetes, RollPod, Boot, BecomeReady, SyncMount, PodFails
    <2>4. QED
      BY <2>1, <2>2, <2>3
  <1>2. PodCurrent(Before, p) /\ pods[p] \in PodType /\ p \in DOMAIN pods
    BY DEF HonestInv, TypeInv, TypeOK
  <1>3. Wanted' = Wanted /\ Applied' = Applied
    BY <1>1 DEF Wanted, Applied
  <1>4. ASSUME pods[p].rev # None, pods[p].rev.mount # Off
        PROVE  /\ secrets[pods[p].rev.mount].bundle = Wanted
               /\ Wanted \in Bundles /\ Wanted # None
    <2>1. pods[p].rev.mount = want /\ want \in Names
      BY <1>2, <1>4 DEF PodCurrent, TypeInv, TypeOK
    <2>2. secrets[want].bundle \in Bundles
      BY <2>1 DEF HonestInv
    <2>3. QED
      BY <1>4, <2>1, <2>2, BundleAssumption, NameAssumption DEF Wanted
  <1>5. CASE RollPod(p)
    <2>1. /\ pods'[p].phase = "down" /\ pods'[p].rev = Template(sts)
          /\ pods'[p].mounted = None /\ pods'[p].served = None /\ sts # None
      BY <1>2, <1>5 DEF RollPod, PodType
    <2>2. Template(sts).mount \in {Off, want} /\ Upto(Before, Template(sts).restart, Applied)
      BY <2>1 DEF Template, Applied, HonestInv, StsCurrent
    <2>3. PodCurrent(Before, p)'
      BY <1>1, <1>3, <2>1, <2>2 DEF PodCurrent
    <2>4. Fresh(p)'
      BY <2>1 DEF Fresh
    <2>5. QED
      BY <1>1, <2>3, <2>4, HonestPod
  <1>6. CASE Boot(p)
    <2>1. pods[p].phase = "down" /\ pods[p].rev # None /\ missed' = missed
      BY <1>6 DEF Boot
    <2>2. \/ /\ pods[p].mounted # None
             /\ pods'[p].mounted = pods[p].mounted
             /\ pods'[p].served = pods[p].mounted
             /\ pods'[p].phase = "starting" /\ pods'[p].rev = pods[p].rev
          \/ /\ pods[p].mounted = None /\ pods[p].rev.mount # Off
             /\ pods'[p].mounted = secrets[pods[p].rev.mount].bundle
             /\ pods'[p].served = secrets[pods[p].rev.mount].bundle
             /\ pods'[p].phase = "starting" /\ pods'[p].rev = pods[p].rev
          \/ /\ pods[p].rev.mount = Off
             /\ pods'[p].mounted = pods[p].mounted
             /\ pods'[p].served = pods[p].served
             /\ pods'[p].phase = "starting" /\ pods'[p].rev = pods[p].rev
      <3>1. CASE /\ pods[p].mounted = None /\ pods[p].rev.mount # Off
                 /\ pods' = [pods EXCEPT
                               ![p].phase = "starting", ![p].links = TRUE,
                               ![p].mounted = secrets[pods[p].rev.mount].bundle,
                               ![p].served = secrets[pods[p].rev.mount].bundle]
        <4> DEFINE b == secrets[pods[p].rev.mount].bundle
        <4>1. pods' = [pods EXCEPT ![p].phase = "starting", ![p].links = TRUE,
                                   ![p].mounted = b, ![p].served = b]
          BY <3>1
        <4> HIDE DEF b
        <4>2. /\ pods'[p].mounted = b /\ pods'[p].served = b
              /\ pods'[p].phase = "starting" /\ pods'[p].rev = pods[p].rev
          BY <1>2, <4>1 DEF PodType
        <4>3. QED
          BY <3>1, <4>2 DEF b
      <3>2. CASE /\ pods[p].rev.mount = Off
                 /\ pods' = [pods EXCEPT ![p].phase = "starting",
                                         ![p].links = FALSE]
        BY <1>2, <3>2 DEF PodType
      <3>3. CASE /\ pods[p].mounted # None
                 /\ pods' = [pods EXCEPT ![p].phase = "starting",
                                         ![p].served = pods[p].mounted]
        BY <1>2, <3>3 DEF PodType
      <3>4. QED
        BY <1>6, <3>1, <3>2, <3>3 DEF Boot
    <2>3. CASE /\ pods[p].mounted # None
               /\ pods'[p].mounted = pods[p].mounted
               /\ pods'[p].served = pods[p].mounted
               /\ pods'[p].phase = "starting" /\ pods'[p].rev = pods[p].rev
      <3>1. Upto(Before, pods[p].mounted, pods[p].mounted)
        BY UptoOrder
      <3>2. PodCurrent(Before, p)'
        BY <1>1, <1>2, <1>3, <2>3, <3>1 DEF PodCurrent
      <3>3. Fresh(p) => Fresh(p)'
        BY <1>3, <2>1, <2>3 DEF Fresh, Serves
      <3>4. QED
        BY <1>1, <2>3, <3>2, <3>3, HonestPod
    <2>4. CASE /\ pods[p].mounted = None /\ pods[p].rev.mount # Off
               /\ pods'[p].mounted = secrets[pods[p].rev.mount].bundle
               /\ pods'[p].served = secrets[pods[p].rev.mount].bundle
               /\ pods'[p].phase = "starting" /\ pods'[p].rev = pods[p].rev
      <3>1. /\ pods'[p].mounted = Wanted /\ pods'[p].served = Wanted
            /\ Wanted \in Bundles /\ Wanted # None
        BY <1>4, <2>1, <2>4
      <3>2. Upto(Before, Wanted, Wanted)
        BY UptoOrder
      <3>3. PodCurrent(Before, p)'
        BY <1>1, <1>2, <1>3, <2>1, <2>4, <3>1, <3>2 DEF PodCurrent
      <3>4. Fresh(p)'
        BY <1>3, <2>4, <3>1 DEF Fresh, Serves
      <3>5. QED
        BY <1>1, <3>3, <3>4, HonestPod
    <2>5. CASE /\ pods[p].rev.mount = Off
               /\ pods'[p].mounted = pods[p].mounted
               /\ pods'[p].served = pods[p].served
               /\ pods'[p].phase = "starting" /\ pods'[p].rev = pods[p].rev
      <3>1. pods[p].mounted = None
        BY <2>5 DEF TypeInv, Shape, PodMount
      <3>2. PodCurrent(Before, p)'
        BY <1>1, <1>2, <1>3, <2>5, <3>1 DEF PodCurrent
      <3>3. Fresh(p)'
        BY <2>5, <3>1 DEF Fresh
      <3>4. QED
        BY <1>1, <3>2, <3>3, HonestPod
    <2>6. QED
      BY <2>2, <2>3, <2>4, <2>5
  <1>7. CASE BecomeReady(p)
    <2>1. /\ pods[p].phase = "starting" /\ pods'[p].phase = "ready"
          /\ pods'[p].mounted = pods[p].mounted /\ pods'[p].served = pods[p].served
          /\ pods'[p].rev = pods[p].rev /\ missed' = missed
      BY <1>2, <1>7 DEF BecomeReady, PodType
    <2>2. PodCurrent(Before, p)'
      BY <1>1, <1>2, <1>3, <2>1 DEF PodCurrent
    <2>3. Fresh(p) => Fresh(p)'
      BY <1>3, <2>1 DEF Fresh, Serves
    <2>4. QED
      BY <1>1, <2>1, <2>2, <2>3, HonestPod
  <1>8. CASE SyncMount(p)
    <2>1. pods[p].mounted # None /\ pods[p].rev # None /\ pods[p].rev.mount # Off
      BY <1>8 DEF SyncMount, TypeInv, Shape, PodMount
    <2>2. /\ pods'[p].mounted = Wanted /\ pods'[p].served = pods[p].served
          /\ pods'[p].rev = pods[p].rev /\ pods'[p].phase = pods[p].phase
          /\ missed' = missed /\ Wanted \in Bundles /\ Wanted # None
      <3>1. secrets[pods[p].rev.mount].bundle = Wanted /\ Wanted \in Bundles /\ Wanted # None
        BY <1>4, <2>1
      <3>2. pods' = [pods EXCEPT ![p].mounted = Wanted] /\ missed' = missed
        BY <1>8, <3>1 DEF SyncMount
      <3>3. QED
        BY <1>2, <3>1, <3>2 DEF PodType
    <2>3. pods[p].served # None => Upto(Before, pods[p].served, Wanted)
      <3>1. /\ pods[p].served # None => Upto(Before, pods[p].served, pods[p].mounted)
            /\ Upto(Before, pods[p].mounted, Wanted)
        BY <1>2, <2>1 DEF PodCurrent
      <3>2. QED
        BY <3>1, UptoOrder, SMT
    <2>4. Upto(Before, Wanted, Wanted)
      BY UptoOrder
    <2>5. PodCurrent(Before, p)'
      BY <1>1, <1>2, <1>3, <2>1, <2>2, <2>3, <2>4 DEF PodCurrent
    <2>6. Fresh(p) => Fresh(p)'
      BY <1>3, <2>1, <2>2 DEF Fresh, Serves
    <2>7. QED
      BY <1>1, <2>2, <2>5, <2>6, HonestPod
  <1>9. CASE PodFails(p)
    <2>1. \/ /\ pods'[p].phase = "down" /\ pods'[p].served = None
             /\ pods'[p].mounted = None /\ pods'[p].rev = None
          \/ /\ pods'[p].phase = "down" /\ pods'[p].served = None
             /\ pods'[p].mounted = pods[p].mounted /\ pods'[p].rev = pods[p].rev
             /\ missed' = missed /\ pods[p].phase # "down"
      <3>1. \/ pods' = [pods EXCEPT ![p].phase = "down", ![p].served = None,
                                    ![p].mounted = None, ![p].rev = None]
            \/ /\ pods' = [pods EXCEPT ![p].phase = "down", ![p].served = None]
               /\ missed' = missed /\ pods[p].phase # "down"
        BY <1>9 DEF PodFails
      <3>2. CASE pods' = [pods EXCEPT ![p].phase = "down", ![p].served = None,
                                      ![p].mounted = None, ![p].rev = None]
        BY <1>2, <3>2 DEF PodType
      <3>3. CASE /\ pods' = [pods EXCEPT ![p].phase = "down", ![p].served = None]
                 /\ missed' = missed /\ pods[p].phase # "down"
        BY <1>2, <3>3 DEF PodType
      <3>4. QED
        BY <3>1, <3>2, <3>3
    <2>2. CASE /\ pods'[p].phase = "down" /\ pods'[p].served = None
               /\ pods'[p].mounted = None /\ pods'[p].rev = None
      <3>1. PodCurrent(Before, p)'
        BY <1>3, <2>2 DEF PodCurrent
      <3>2. Fresh(p)'
        BY <2>2 DEF Fresh
      <3>3. QED
        BY <1>1, <3>1, <3>2, HonestPod
    <2>3. CASE /\ pods'[p].phase = "down" /\ pods'[p].served = None
               /\ pods'[p].mounted = pods[p].mounted /\ pods'[p].rev = pods[p].rev
               /\ missed' = missed /\ pods[p].phase # "down"
      <3>1. PodCurrent(Before, p)'
        BY <1>1, <1>2, <1>3, <2>3 DEF PodCurrent
      <3>2. ASSUME pods[p].mounted # None, pods[p].served = Wanted
            PROVE  pods[p].mounted = Wanted
        <4>1. /\ pods[p].served \in Bundles
              /\ Upto(Before, pods[p].served, pods[p].mounted)
              /\ Upto(Before, pods[p].mounted, Wanted)
          BY <1>2, <2>3, <3>2 DEF PodCurrent
        <4>2. QED
          BY <3>2, <4>1, UptoOrder, SMT
      <3>3. Fresh(p) => Fresh(p)'
        BY <1>3, <2>3, <3>2 DEF Fresh, Serves
      <3>4. QED
        BY <1>1, <2>3, <3>1, <3>3, HonestPod
    <2>4. QED
      BY <2>1, <2>2, <2>3
  <1>10. QED
    BY <1>5, <1>6, <1>7, <1>8, <1>9 DEF Kubernetes

\* Every step keeps the order of what is served, mounted and recorded.
LEMMA HonestNext ==
    ASSUME NEW Before, Forward(Before), OwnLeaf, Renewing
    PROVE  TypeInv /\ HonestInv(Before) /\ [Next]_vars => HonestInv(Before)'
  <1> SUFFICES ASSUME TypeInv, HonestInv(Before), [Next]_vars
               PROVE  HonestInv(Before)'
    OBVIOUS
  <1>1. ASSUME NEW n \in Names \cup {Off}, SwitchTLS(n)
        PROVE  FALSE
    BY <1>1 DEF SwitchTLS, Edit, Renewing
  <1>2. ASSUME NEW n \in Names, RepairSecret(n)
        PROVE  HonestInv(Before)'
    BY <1>2, HonestBreak
  <1>3. CASE UNCHANGED vars
    BY <1>3, HonestSame DEF vars, TypeInv, TypeOK
  <1>4. QED
    BY <1>1, <1>2, <1>3, HonestBreak, HonestRotate, HonestStart, HonestResolve,
       HonestReload, HonestSave, HonestTime, HonestKubernetes
       DEF Next, Reconcile

\* As long as TLS stays on one Secret, renewals only go forward and each
\* brings a leaf of its own, a marker that names what the Secret holds is true
\* of every ready pod of the current template that was not missed.  Renewals
\* may come at any time: while pods start, before the marker is recorded or
\* during a pass; and whatever containers and pods fail, dials fail, clocks
\* jump and crashes happen, and also if the Secret breaks and is repaired.
THEOREM MarkerMeansServed ==
    ASSUME NEW Before, Forward(Before), OwnLeaf, Renewing
    PROVE  Spec => []TLSMarkerHonest
  <1>1. Init => HonestInv(Before)
    BY HonestInit
  <1>2. TypeInv /\ HonestInv(Before) /\ [Next]_vars => HonestInv(Before)'
    BY HonestNext
  <1>3. TypeInv /\ HonestInv(Before) => TLSMarkerHonest
    <2> SUFFICES ASSUME TypeInv, HonestInv(Before), sts # None, sts.mount # Off,
                        sts.applied = secrets[sts.mount].bundle,
                        NEW p \in Pods \ missed, pods[p].phase = "ready",
                        pods[p].rev = Template(sts)
                 PROVE  pods[p].served = sts.applied
      BY DEF TLSMarkerHonest
    <2>1. sts.applied = Wanted
      BY DEF HonestInv, StsCurrent, Wanted
    <2>2. Fresh(p)
      BY <2>1 DEF HonestInv, StsServed, ServedBy
    <2>3. pods[p].mounted # None
      <3>1. Template(sts).mount = sts.mount
        BY DEF Template
      <3>2. QED
        BY <3>1, SMT DEF HonestInv, PodCurrent
    <2>4. QED
      BY <2>1, <2>2, <2>3 DEF Fresh, Serves
  <1>4. QED
    BY TypeInit, TypeNext, <1>1, <1>2, <1>3, PTL DEF Spec

----------------------------------------------------------------------------
(* The window of a rotation.                                               *)

\* What a window may be followed by: one for the same bundle that is no
\* younger, or one for another bundle that does not start in the future.
Follows(w, v) ==
    v # None => IF w # None /\ w.bundle = v.bundle THEN NoYounger(w.age, v.age)
                ELSE v.age # "ahead"

\* What a pass has taken over of a window it keeps: as long as it pushes the
\* bundle of a window that has run out it knows so, and what it is about to
\* record may follow what is recorded.
WindowInv ==
    /\ job.pc = "reload" =>
        /\ job.age # "ahead"
        /\ Window # None /\ Window.bundle = job.bundle /\ Window.age = "expired"
             => job.age = "expired"
    /\ job.pc = "save" => Follows(Window, job.window)

\* What WindowNotReopened says of one step.
WindowKept == ~ClockBack => Follows(Window, Window')

\* A window may be followed by itself, and ageing keeps the order.
LEMMA FollowsAge ==
    /\ \A w : Follows(w, w)
    /\ \A w : Follows(w, None)
    /\ \A a, b : NoYounger(a, b) => NoYounger(Older(a), Older(b))
    /\ \A a : NoYounger(a, Older(a)) \/ a \notin Age
  BY SMT DEF Follows, NoYounger, Older, Age

\* While the StatefulSet stays as it is, the invariant is about the pass.
LEMMA WindowSame ==
    ASSUME sts' = sts,
           job'.pc = "reload" =>
             /\ job'.age # "ahead"
             /\ Window # None /\ Window.bundle = job'.bundle
                  /\ Window.age = "expired" => job'.age = "expired",
           job'.pc = "save" => Follows(Window, job'.window)
    PROVE  WindowInv' /\ WindowKept
  <1>1. Window' = Window
    BY DEF Window
  <1>2. QED
    BY <1>1, FollowsAge DEF WindowInv, WindowKept, Follows

\* An outcome that keeps the window as recorded, closes it, or records the
\* one of the rotation in progress.
LEMMA WindowOutcome ==
    ASSUME TypeInv, sts' = sts,
           NEW a, NEW w, NEW r, NEW e, Outcome(a, w, r, e), Follows(Window, w)
    PROVE  WindowInv' /\ WindowKept
  <1>1. job'.pc = "save" /\ job'.window = w
    BY DEF Outcome, TypeInv, TypeOK, JobType
  <1>2. QED
    BY <1>1, WindowSame

\* One endpoint of the rotation (reloadAndVerifyTLS).
LEMMA WindowEndpoint ==
    ASSUME TypeInv, WindowInv, sts' = sts, job.pc = "reload",
           NEW p, NEW ok, NextEndpoint(p, ok)
    PROVE  WindowInv' /\ WindowKept
  <1>1. CASE job.todo # {p}
    <2>1. job' = [job EXCEPT !.todo = @ \ {p}, !.failed = @ \/ ~ok]
      BY <1>1 DEF NextEndpoint
    <2>2. job'.pc = job.pc /\ job'.bundle = job.bundle /\ job'.age = job.age
      BY <2>1 DEF TypeInv, TypeOK, JobType
    <2>3. QED
      BY <2>2, WindowSame DEF WindowInv
  <1>2. CASE job.todo = {p}
    <2> DEFINE w == [bundle |-> job.bundle, age |-> job.age]
    <2>1. \/ Outcome(job.bundle, None, RestartValue, FALSE)
          \/ Outcome(job.bundle, None, job.bundle, FALSE)
          \/ job.age # "expired" /\ Outcome(Applied, w, RestartValue, TRUE)
      BY <1>2 DEF NextEndpoint, RotationOutcome
    <2>2. w.bundle = job.bundle /\ w.age = job.age
      OBVIOUS
    <2> HIDE DEF w
    <2>3. ASSUME job.age # "expired" PROVE Follows(Window, w)
      <3>1. job.age = "open"
        BY <2>3 DEF WindowInv, TypeInv, TypeOK, JobType, Age
      <3>2. Window # None => Window.age \in Age
        BY MarkerType DEF TypeInv, WindowType
      <3>3. Window # None /\ Window.bundle = w.bundle => Window.age \in {"ahead", "open"}
        BY <2>2, <2>3, <3>2 DEF WindowInv, Age
      <3>4. QED
        BY <2>2, <3>1, <3>3, SMT DEF Follows, NoYounger
    <2>4. QED
      BY <2>1, <2>3, WindowOutcome, FollowsAge
  <1>3. QED
    BY <1>1, <1>2

\* Time passes for the recorded window and for those of the pass alike.
LEMMA WindowAges ==
    ASSUME TypeInv, WindowInv, WindowExpires
    PROVE  WindowInv' /\ WindowKept
  <1>1. /\ Window = None => sts' = sts
        /\ Window # None =>
             sts'.window.bundle = Window.bundle /\ sts'.window.age = Older(Window.age)
        /\ sts' = None <=> sts = None
    BY AgedType DEF TypeInv
  <1>2. \/ Window = None /\ Window' = None
        \/ /\ Window # None /\ Window'.bundle = Window.bundle
           /\ Window'.age = Older(Window.age)
    BY <1>1 DEF Window
  <1>3. /\ job'.pc = job.pc /\ job'.bundle = job.bundle
        /\ job'.age = IF job.pc = "reload" THEN Older(job.age) ELSE job.age
        /\ job.window = None => job'.window = None
        /\ job.window # None => /\ job'.window.bundle = job.window.bundle
                                /\ job'.window.age = Older(job.window.age)
    BY AgedJob DEF TypeInv
  <1>4. /\ Window # None => Window.age \in Age
        /\ job.age \in Age
    BY MarkerType DEF TypeInv, TypeOK, WindowType, JobType
  <1>5. WindowKept
    BY <1>2, <1>4, FollowsAge DEF WindowKept, Follows
  <1>6. \A a \in Age : /\ Older(a) # "ahead"
                       /\ a # "ahead" => Older(a) = "expired"
    BY SMT DEF Older, Age
  <1>7. job.pc = "save" => Follows(Window', job'.window)
    <2>1. CASE job.window = None
      BY <1>3, <2>1, FollowsAge
    <2>2. CASE job.window # None
      <3>1. job.window.age \in Age
        BY <2>2 DEF TypeInv, TypeOK, JobType, WindowType
      <3>2. job'.window.age # "ahead"
        BY <1>3, <1>6, <2>2, <3>1
      <3>3. ASSUME job.pc = "save", Window # None, Window.bundle = job.window.bundle
            PROVE  NoYounger(Window'.age, job'.window.age)
        <4>1. NoYounger(Window.age, job.window.age)
          BY <2>2, <3>3 DEF WindowInv, Follows
        <4>2. QED
          BY <1>2, <1>3, <2>2, <3>3, <4>1, FollowsAge
      <3>4. QED
        BY <1>2, <1>3, <2>2, <3>2, <3>3 DEF Follows
    <2>3. QED
      BY <2>1, <2>2
  <1>8. job.pc = "reload" => job'.age = "expired"
    BY <1>3, <1>4, <1>6 DEF WindowInv
  <1>9. QED
    BY <1>3, <1>5, <1>7, <1>8, SMT DEF WindowInv

\* Every step keeps the invariant, and reopens no window.
LEMMA WindowNext ==
    TypeInv /\ WindowInv /\ [Next]_vars => WindowInv' /\ WindowKept
  <1> SUFFICES ASSUME TypeInv, WindowInv, [Next]_vars
               PROVE  WindowInv' /\ WindowKept
    OBVIOUS
  <1>1. CASE sts' = sts /\ job' = job
    BY <1>1, WindowSame DEF WindowInv
  <1>2. CASE ensureTLSSecrets \/ Interrupt
    <2>1. sts' = sts
      BY <1>2 DEF ensureTLSSecrets, Interrupt
    <2>2. job'.pc = "rotate" \/ job'.pc = "idle"
      <3>1. ensureTLSSecrets => job'.pc = "rotate"
        BY DEF ensureTLSSecrets, IdleJob
      <3>2. Interrupt => job'.pc = "idle"
        BY SMT DEF Interrupt, IdleJob
      <3>3. QED
        BY <1>2, <3>1, <3>2
    <2>3. QED
      BY <2>1, <2>2, WindowSame
  <1>3. CASE resolveTLSRotation \/ RotationUnread
    <2>1. sts' = sts
      BY <1>3 DEF resolveTLSRotation, RotationUnread
    <2>2. \/ \E a, r, e : Outcome(a, None, r, e) \/ Outcome(a, Window, r, e)
          \/ \E b : job' = [job EXCEPT !.pc = "reload", !.bundle = b,
                                       !.todo = ReadyPods,
                                       !.age = parseTLSRotationState(b)]
      BY <1>3 DEF resolveTLSRotation, RotationUnread
    <2>3. ASSUME NEW b,
                 job' = [job EXCEPT !.pc = "reload", !.bundle = b,
                                    !.todo = ReadyPods,
                                    !.age = parseTLSRotationState(b)]
          PROVE  WindowInv' /\ WindowKept
      <3>1. /\ job'.pc = "reload" /\ job'.bundle = b
            /\ job'.age = parseTLSRotationState(b)
        BY <2>3 DEF TypeInv, TypeOK, JobType
      <3>2. /\ parseTLSRotationState(b) # "ahead"
            /\ Window # None /\ Window.bundle = b /\ Window.age = "expired"
                 => parseTLSRotationState(b) = "expired"
        BY SMT DEF parseTLSRotationState
      <3>3. QED
        BY <2>1, <3>1, <3>2, WindowSame
    <2>4. QED
      BY <2>1, <2>2, <2>3, WindowOutcome, FollowsAge
  <1>4. CASE \E p \in Pods : reloadAndVerifyTLS(p)
    <2>1. PICK p \in Pods : reloadAndVerifyTLS(p)
      BY <1>4
    <2>2. sts' = sts /\ job.pc = "reload" /\ \E ok : NextEndpoint(p, ok)
      BY <2>1 DEF reloadAndVerifyTLS
    <2>3. QED
      BY <2>2, WindowEndpoint
  <1>5. CASE ensureStatefulSet
    <2>1. job.pc = "save" /\ job'.pc = "idle" /\ sts'.window = job.window
      BY <1>5 DEF ensureStatefulSet, IdleJob
    <2>2. Window' \in {None, job.window}
      BY <2>1 DEF Window
    <2>3. QED
      BY <2>1, <2>2, FollowsAge DEF WindowInv, WindowKept
  <1>6. CASE ClockBack
    <2>1. job'.pc = "idle"
      BY <1>6 DEF ClockBack, IdleJob
    <2>2. QED
      BY <1>6, <2>1 DEF WindowInv, WindowKept
  <1>7. QED
    <2>1. \A n : SwitchTLS(n) \/ RepairSecret(n) => sts' = sts /\ job' = job
      BY DEF SwitchTLS, RepairSecret
    <2>2. \A n, x : RotateSecret(n, x) \/ BreakSecret(n, x) => sts' = sts /\ job' = job
      BY DEF RotateSecret, BreakSecret
    <2>3. \A p : Kubernetes(p) \/ PodFails(p) => sts' = sts /\ job' = job
      BY DEF Kubernetes, RollPod, Boot, BecomeReady, SyncMount, PodFails
    <2>4. UNCHANGED vars => sts' = sts /\ job' = job
      BY DEF vars
    <2>5. QED
      BY <1>1, <1>2, <1>3, <1>4, <1>5, <1>6, <2>1, <2>2, <2>3, <2>4, WindowAges
         DEF Next, Reconcile

\* Whatever bundles, edits, faults and pods: the window of a rotation only
\* grows older until the content is applied, by a verified reload or by the
\* restart the window stands for, or another content takes its place, unless
\* the clock of the operator is set back.
THEOREM WindowRunsOut == Spec => WindowNotReopened
  <1>1. Init => WindowInv
    BY SMT DEF Init, IdleJob, WindowInv
  <1>2. WindowKept => [Window' # None /\ ~ClockBack =>
         IF Window # None /\ Window.bundle = Window'.bundle
         THEN NoYounger(Window.age, Window'.age)
         ELSE Window'.age # "ahead"]_vars
    BY DEF WindowKept, Follows
  <1>3. QED
    BY TypeInit, TypeNext, <1>1, <1>2, WindowNext, PTL
       DEF Spec, WindowNotReopened

=============================================================================
