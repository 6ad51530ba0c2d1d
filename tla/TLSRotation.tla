------------------------------ MODULE TLSRotation ------------------------------
(***************************************************************************)
(* How a serving certificate reaches the pods of a ProxySQLCluster.  A     *)
(* pass resolves the TLS Secret and mounts it only once it is valid,       *)
(* holding the last good mount otherwise (tls_secrets.go).  When the       *)
(* content of the mounted Secret moves, every ready pod is told to reload  *)
(* it and is verified by a handshake, inside a window after which the pods *)
(* are restarted instead (tls_rotation.go).                                *)
(*                                                                         *)
(* A certificate bundle is a leaf and a CA bundle; its digest is the       *)
(* bundle itself.  The kubelet copies a changed Secret into a running pod  *)
(* with a delay.                                                           *)
(***************************************************************************)
EXTENDS Naturals, FiniteSets

CONSTANTS
    Pods,           \* the replicas of the StatefulSet
    Names,          \* names of Secrets that may hold the serving certificate
    Leaves,         \* leaf certificates
    CAs,            \* certificate authorities
    Issuer,         \* Issuer[l]: the authority that signed leaf l
    Bundles,        \* the contents a Secret may have
    Broken,         \* what is read from a Secret without tls.crt or ca.crt
    Off,            \* no TLS
    None,           \* an absent object, annotation or content
    Rotations,      \* the changes of content its owner may make, as pairs
    EditKinds,      \* edits the environment may make
    MaxEdits,       \* bound on the edits, all kinds together
    FaultKinds,     \* the kinds of fault the environment may show
    MaxFaults       \* bound on the faults, all kinds together

Bundle == [leaf : Leaves, ca : CAs]

ASSUME BundleAssumption ==
    /\ Bundles \subseteq Bundle
    /\ Issuer \in [Leaves -> CAs]
    /\ Rotations \subseteq Bundles \X Bundles
ASSUME NameAssumption ==
    /\ Off \notin Names
    /\ None \notin Bundle /\ Broken \notin Bundle /\ None # Broken
    /\ None \notin Names \cup {Off}
    /\ Pods # {}
ASSUME BudgetAssumption ==
    /\ EditKinds \subseteq {"rotate", "break", "repair", "switch"}
    /\ FaultKinds \subseteq {"interrupt", "dial", "pod", "container", "clock"}
    /\ MaxEdits \in Nat
    /\ MaxFaults \in Nat

VARIABLES
    want,      \* the Secret spec.tls resolves to, or Off
    secrets,   \* per name: the bundle, and whether it is ok, broken or absent
    sts,       \* StatefulSet: the TLS part of its template and the TLS markers
    pods,      \* per pod: phase, template, mounted and served bundle, datadir
    job,       \* the pass in progress
    queued,    \* whether the workqueue holds the cluster
    missed,    \* history: the pods whose content was out of date when the
               \* rotation engine decided to record one without dialling them
    edits,     \* number of edits so far
    faults     \* number of faults so far

vars == <<want, secrets, sts, pods, job, queued, missed, edits, faults>>

----------------------------------------------------------------------------
Valid(n) == secrets[n].state = "ok"

\* What a pod is created from: the mounted Secret, whether the cleanup
\* container runs, and the restart annotation.
Template(s) == [mount |-> s.mount, cleanup |-> s.cleanup, restart |-> s.restart]

IdleJob == [pc |-> "idle", want |-> Off, mount |-> Off, cleanup |-> FALSE,
            ready |-> FALSE, bundle |-> None, todo |-> {}, failed |-> FALSE,
            age |-> "open", applied |-> None, window |-> None,
            restart |-> None, err |-> FALSE]

Init ==
    /\ want \in Names \cup {Off}
    /\ secrets \in [Names -> [bundle : Bundles, state : {"ok", "absent"}]]
    /\ sts = None
    /\ pods = [p \in Pods |-> [phase |-> "down", rev |-> None, mounted |-> None,
                               served |-> None, links |-> FALSE]]
    /\ job = IdleJob
    /\ queued = TRUE
    /\ missed = {}
    /\ edits = 0
    /\ faults = 0

Fault(k) ==
    /\ k \in FaultKinds
    /\ faults < MaxFaults
    /\ faults' = faults + 1

Edit(k) ==
    /\ k \in EditKinds
    /\ edits < MaxEdits
    /\ edits' = edits + 1
    /\ queued' = TRUE

----------------------------------------------------------------------------
(* The custom resource and the Secrets, both watched.                      *)

SwitchTLS(n) ==
    /\ n # want
    /\ Edit("switch")
    /\ want' = n
    /\ UNCHANGED <<secrets, sts, pods, job, missed, faults>>

\* The user, cert-manager or the operator's own renewal replaces the bundle.
RotateSecret(n, b) ==
    /\ Valid(n)
    /\ <<secrets[n].bundle, b>> \in Rotations
    /\ Edit("rotate")
    /\ secrets' = [secrets EXCEPT ![n].bundle = b]
    /\ UNCHANGED <<want, sts, pods, job, missed, faults>>

\* tls.crt or ca.crt goes missing, or the Secret does.
BreakSecret(n, s) ==
    /\ Valid(n)
    /\ Edit("break")
    /\ secrets' = [secrets EXCEPT ![n].state = s]
    /\ UNCHANGED <<want, sts, pods, job, missed, faults>>

RepairSecret(n) ==
    /\ ~Valid(n)
    /\ Edit("repair")
    /\ secrets' = [secrets EXCEPT ![n].state = "ok"]
    /\ UNCHANGED <<want, sts, pods, job, missed, faults>>

----------------------------------------------------------------------------
(* One pass of the cluster controller, its TLS part.                       *)

\* Faulty: a failed resolution drops the wiring.
holdNothing == Off

\* The mount the live template may keep while the Secret does not validate:
\* the last good one if TLS is wired, none otherwise.
holdTLSLastGood == IF sts = None THEN Off ELSE sts.mount

\* Faulty: the cleanup container is rendered for one template only.
cleanupOnce(mount) == mount = Off /\ sts # None /\ sts.mount # Off

\* Whether a template without TLS removes the symlinks of an earlier one.
resolveTLSCleanup(mount) ==
    /\ mount = Off
    /\ sts # None
    /\ sts.mount # Off \/ sts.cleanup

\* Resolve and validate the Secret, else hold; an invalid one is an error
\* that is returned once everything else has been applied.
ensureTLSSecrets ==
    /\ queued
    /\ job.pc = "idle"
    /\ LET ready == want # Off /\ Valid(want)
           mount == IF want = Off \/ ready THEN want ELSE holdTLSLastGood
       IN  job' = [IdleJob EXCEPT
                     !.pc = "rotate", !.want = want, !.mount = mount,
                     !.cleanup = resolveTLSCleanup(mount),
                     !.ready = ready, !.err = want # Off /\ ~ready]
    /\ queued' = FALSE
    /\ UNCHANGED <<want, secrets, sts, pods, missed, edits, faults>>

Applied == IF sts = None THEN None ELSE sts.applied
Window == IF sts = None THEN None ELSE sts.window
RestartValue == IF sts = None THEN None ELSE sts.restart
ReadyPods == {p \in Pods : pods[p].phase = "ready"}

Outcome(applied, window, restart, err) ==
    job' = [job EXCEPT !.pc = "save", !.applied = applied, !.window = window,
                       !.restart = restart, !.err = job.err \/ err,
                       !.todo = {}]

\* Faulty: every attempt opens a window of its own.
windowFresh(b) == "open"

\* How old the window recorded for this bundle is.  One that is recorded for
\* another bundle, or that starts in the future of the operator's clock, is
\* replaced by one that opens now.
parseTLSRotationState(b) ==
    IF Window = None \/ Window.bundle # b \/ Window.age = "ahead" THEN "open"
    ELSE Window.age

\* Faulty: a certificate that cannot be parsed is not an error.
parseIgnored(b) == TRUE

\* tls.crt and ca.crt can both be parsed.
LeafFingerprint(b) == b # Broken

\* What a pod serves, or will serve once its container is back.
Serves(p) == IF pods[p].phase = "down" THEN pods[p].mounted ELSE pods[p].served

\* The pods with a mount that do not serve bundle b.
Late(b) == {p \in Pods : pods[p].mounted # None /\ Serves(p) # b}

\* The rotation engine up to its first dial.  A bundle is adopted, without
\* any dial, where none is recorded; otherwise only ready pods are dialled.
resolveTLSRotation ==
    /\ job.pc = "rotate"
    /\ LET readable == job.ready /\ secrets[job.mount].state # "absent"
           b == IF ~readable THEN None
                ELSE IF Valid(job.mount) THEN secrets[job.mount].bundle
                ELSE Broken
           moved == readable /\ Applied \notin {None, b}
       IN  \/ /\ job.mount = Off
              /\ Outcome(None, None, None, FALSE)
              /\ UNCHANGED missed
           \/ /\ job.mount # Off /\ ~readable
              /\ Outcome(Applied, Window, RestartValue, FALSE)
              /\ UNCHANGED missed
           \/ /\ readable /\ ~moved
              /\ Outcome(b, None, RestartValue, FALSE)
              /\ missed' = IF Applied = None THEN Late(b) ELSE missed
           \/ /\ moved /\ ReadyPods = {}
              /\ Outcome(Applied, Window, RestartValue, FALSE)
              /\ UNCHANGED missed
           \/ /\ moved /\ ReadyPods # {} /\ ~LeafFingerprint(b)
              /\ Outcome(Applied, Window, RestartValue, TRUE)
              /\ UNCHANGED missed
           \/ /\ moved /\ ReadyPods # {} /\ LeafFingerprint(b)
              /\ job' = [job EXCEPT !.pc = "reload", !.bundle = b,
                                    !.todo = ReadyPods,
                                    !.age = parseTLSRotationState(b)]
              /\ missed' = Late(b) \ ReadyPods
    /\ UNCHANGED <<want, secrets, sts, pods, queued, edits, faults>>

\* The Secret or the list of endpoints cannot be read: the markers stay and
\* the error waits for the end of the pass.
RotationUnread ==
    /\ job.pc = "rotate"
    /\ job.ready
    /\ Fault("interrupt")
    /\ Outcome(Applied, Window, RestartValue, TRUE)
    /\ UNCHANGED <<want, secrets, sts, pods, queued, missed, edits>>

\* A handshake is accepted from the expected leaf, or from one that chains
\* to the CA of the new bundle.
pinnedTLSConfig(served, b) ==
    served # None /\ (served.leaf = b.leaf \/ Issuer[served.leaf] = b.ca)

\* After the last endpoint: everything verified; or the window has run out
\* and the template is bumped to the bundle; or the window stays open.
RotationOutcome(failed) ==
    \/ /\ ~failed
       /\ Outcome(job.bundle, None, RestartValue, FALSE)
    \/ /\ failed /\ job.age = "expired"
       /\ Outcome(job.bundle, None, job.bundle, FALSE)
    \/ /\ failed /\ job.age # "expired"
       /\ Outcome(Applied, [bundle |-> job.bundle, age |-> job.age],
                  RestartValue, TRUE)

\* Faulty: only the outcome of the last endpoint counts.
NextEndpointForgets(p, ok) ==
    IF job.todo # {p}
    THEN job' = [job EXCEPT !.todo = @ \ {p}]
    ELSE RotationOutcome(~ok)

NextEndpoint(p, ok) ==
    IF job.todo # {p}
    THEN job' = [job EXCEPT !.todo = @ \ {p}, !.failed = @ \/ ~ok]
    ELSE RotationOutcome(job.failed \/ ~ok)

\* One endpoint: skip the reload if the leaf is the expected one already,
\* else reload what the kubelet has mounted and probe again.
reloadAndVerifyTLS(p) ==
    /\ job.pc = "reload"
    /\ p \in job.todo
    /\ LET up == pods[p].phase # "down"
           fresh == up /\ pods[p].served # None
                      /\ pods[p].served.leaf = job.bundle.leaf
           reload == up /\ ~fresh /\ pinnedTLSConfig(pods[p].served, job.bundle)
       IN  \/ /\ ~reload
              /\ NextEndpoint(p, fresh)
              /\ UNCHANGED <<pods, faults>>
           \/ /\ reload
              /\ pods' = [pods EXCEPT ![p].served = pods[p].mounted]
              /\ NextEndpoint(p, pods[p].mounted.leaf = job.bundle.leaf)
              /\ UNCHANGED faults
           \/ /\ up
              /\ Fault("dial")
              /\ NextEndpoint(p, FALSE)
              /\ \/ UNCHANGED pods
                 \/ /\ reload
                    /\ pods' = [pods EXCEPT ![p].served = pods[p].mounted]
    /\ UNCHANGED <<want, secrets, sts, queued, missed, edits>>

\* Template and markers in one write; its watch, and every error the pass
\* carried along, enqueue the cluster again.
ensureStatefulSet ==
    /\ job.pc = "save"
    /\ sts' = [mount |-> job.mount, cleanup |-> job.cleanup,
               restart |-> job.restart, applied |-> job.applied,
               window |-> job.window]
    /\ queued' = (queued \/ job.err \/ sts' # sts)
    /\ job' = IdleJob
    /\ UNCHANGED <<want, secrets, pods, missed, edits, faults>>

\* The operator crashes, or an API call returns an error.
Interrupt ==
    /\ job.pc # "idle"
    /\ Fault("interrupt")
    /\ job' = IdleJob
    /\ queued' = TRUE
    /\ UNCHANGED <<want, secrets, sts, pods, missed, edits>>

\* A window ages by the operator's clock.
Older(age) == IF age = "ahead" THEN "open" ELSE "expired"
Aged(w) == IF w = None THEN None ELSE [bundle |-> w.bundle, age |-> Older(w.age)]

\* The time of the window passes, for the recorded one and for one that the
\* pass has only just opened.
WindowExpires ==
    /\ \/ Window # None /\ Window.age # "expired"
       \/ job.pc = "reload" /\ job.age # "expired"
    /\ sts' = IF Window = None THEN sts
              ELSE [sts EXCEPT !.window = Aged(@)]
    /\ job' = [job EXCEPT !.age = IF job.pc = "reload" THEN Older(@) ELSE @,
                          !.window = Aged(@)]
    /\ UNCHANGED <<want, secrets, pods, queued, missed, edits, faults>>

\* The operator crashes and comes back on a node whose clock is behind: the
\* recorded window looks younger, or even seems to start in the future.
ClockBack ==
    /\ Window # None
    /\ Fault("clock")
    /\ \E age \in {"ahead", "open"} : sts' = [sts EXCEPT !.window.age = age]
    /\ job' = IdleJob
    /\ queued' = TRUE
    /\ UNCHANGED <<want, secrets, pods, missed, edits>>

----------------------------------------------------------------------------
(* The StatefulSet controller and the kubelet (Kubernetes itself).         *)

RollPod(p) ==
    /\ sts # None
    /\ pods[p].rev # Template(sts)
    /\ pods[p].rev = None
       \/ \A q \in Pods : pods[q].rev = Template(sts) => pods[q].phase = "ready"
    /\ pods' = [pods EXCEPT ![p].phase = "down", ![p].rev = Template(sts),
                            ![p].mounted = None, ![p].served = None]
    /\ queued' = TRUE
    /\ missed' = missed \ {p}
    /\ UNCHANGED <<want, secrets, sts, job, edits, faults>>

\* With TLS a new pod needs a mountable Secret, tls-init links the datadir to
\* it and ProxySQL serves it; a container restarted in place serves what the
\* kubelet has mounted by then.  Without TLS, links left in the datadir make
\* ProxySQL exit unless tls-cleanup removes them first.
Boot(p) ==
    /\ pods[p].phase = "down"
    /\ pods[p].rev # None
    /\ LET t == pods[p].rev
       IN  \/ /\ pods[p].mounted # None
              /\ pods' = [pods EXCEPT ![p].phase = "starting",
                                      ![p].served = pods[p].mounted]
           \/ /\ pods[p].mounted = None
              /\ t.mount # Off /\ Valid(t.mount)
              /\ pods' = [pods EXCEPT
                            ![p].phase = "starting", ![p].links = TRUE,
                            ![p].mounted = secrets[t.mount].bundle,
                            ![p].served = secrets[t.mount].bundle]
           \/ /\ t.mount = Off /\ (t.cleanup \/ ~pods[p].links)
              /\ pods' = [pods EXCEPT ![p].phase = "starting",
                                      ![p].links = FALSE]
    /\ UNCHANGED <<want, secrets, sts, job, queued, missed, edits, faults>>

BecomeReady(p) ==
    /\ pods[p].phase = "starting"
    /\ pods' = [pods EXCEPT ![p].phase = "ready"]
    /\ queued' = TRUE
    /\ UNCHANGED <<want, secrets, sts, job, missed, edits, faults>>

\* The kubelet's copy of a changed Secret arrives in the pod.
SyncMount(p) ==
    /\ pods[p].mounted # None
    /\ Valid(pods[p].rev.mount)
    /\ pods[p].mounted # secrets[pods[p].rev.mount].bundle
    /\ pods' = [pods EXCEPT ![p].mounted = secrets[pods[p].rev.mount].bundle]
    /\ UNCHANGED <<want, secrets, sts, job, queued, missed, edits, faults>>

\* The container dies and is started again in the same pod; or the pod is
\* evicted and a new one takes its place, on the same datadir.
PodFails(p) ==
    /\ pods[p].phase # "down"
    /\ \/ /\ Fault("container")
          /\ pods' = [pods EXCEPT ![p].phase = "down", ![p].served = None]
          /\ UNCHANGED missed
       \/ /\ Fault("pod")
          /\ pods' = [pods EXCEPT ![p].phase = "down", ![p].served = None,
                                  ![p].mounted = None, ![p].rev = None]
          /\ missed' = missed \ {p}
    /\ queued' = TRUE
    /\ UNCHANGED <<want, secrets, sts, job, edits>>

----------------------------------------------------------------------------
Reconcile ==
    \/ ensureTLSSecrets
    \/ resolveTLSRotation
    \/ \E p \in Pods : reloadAndVerifyTLS(p)
    \/ ensureStatefulSet

Kubernetes(p) == RollPod(p) \/ Boot(p) \/ BecomeReady(p) \/ SyncMount(p)

Next ==
    \/ \E n \in Names \cup {Off} : SwitchTLS(n)
    \/ \E n \in Names : \/ \E b \in Bundles : RotateSecret(n, b)
                        \/ \E s \in {"broken", "absent"} : BreakSecret(n, s)
                        \/ RepairSecret(n)
    \/ Reconcile
    \/ Interrupt
    \/ RotationUnread
    \/ WindowExpires
    \/ ClockBack
    \/ \E p \in Pods : Kubernetes(p) \/ PodFails(p)

Spec == Init /\ [][Next]_vars

\* The worker keeps draining the queue, time passes, and the StatefulSet
\* controller and the kubelet keep working on every pod.
FairSpec ==
    /\ Spec
    /\ WF_vars(Reconcile)
    /\ WF_vars(WindowExpires)
    /\ \A p \in Pods : WF_vars(RollPod(p) \/ Boot(p) \/ BecomeReady(p))
                       /\ WF_vars(SyncMount(p))

----------------------------------------------------------------------------
(* Properties.                                                             *)

Content == Bundle \cup {Broken, None}
Age == {"ahead", "open", "expired"}
WindowType == [bundle : Bundle, age : Age] \cup {None}
RestartType == Bundle \cup {None}
TemplateType == [mount : Names \cup {Off}, cleanup : BOOLEAN, restart : RestartType]
StsType == [mount : Names \cup {Off}, cleanup : BOOLEAN, restart : RestartType,
            applied : Content, window : WindowType]
ASSUME StsAssumption == None \notin StsType

PodType == [phase : {"down", "starting", "ready"}, rev : TemplateType \cup {None},
            mounted : Bundle \cup {None}, served : Bundle \cup {None},
            links : BOOLEAN]
JobType == [pc : {"idle", "rotate", "reload", "save"}, want : Names \cup {Off},
            mount : Names \cup {Off}, cleanup : BOOLEAN, ready : BOOLEAN,
            bundle : Bundle \cup {None}, todo : SUBSET Pods, failed : BOOLEAN,
            age : Age, applied : Content, window : WindowType,
            restart : RestartType, err : BOOLEAN]

\* Every object, annotation and local of the pass has the shape the code
\* gives it; the restart annotation never holds anything but a readable
\* bundle, and a window is only ever open for one.
TypeOK ==
    /\ want \in Names \cup {Off}
    /\ secrets \in [Names -> [bundle : Bundle, state : {"ok", "broken", "absent"}]]
    /\ sts \in StsType \cup {None}
    /\ pods \in [Pods -> PodType]
    /\ job \in JobType
    /\ queued \in BOOLEAN
    /\ missed \subseteq Pods
    /\ edits \in Nat
    /\ faults \in Nat

\* The tls-applied-hash annotation is honest: once it is the content of the
\* mounted Secret, every ready pod of the current template serves exactly
\* that content, except a pod the engine has never been told of: one that was
\* not ready when the others were dialled, or that was up when a content was
\* adopted, and was out of date at that moment (resolveTLSRotation).
TLSMarkerHonest ==
    sts # None /\ sts.mount # Off =>
        (Valid(sts.mount) /\ sts.applied = secrets[sts.mount].bundle =>
            \A p \in Pods \ missed :
                pods[p].phase = "ready" /\ pods[p].rev = Template(sts)
                  => pods[p].served = sts.applied)

\* Validate-and-hold: a Secret that is missing or broken never takes TLS off
\* a wired template; only a pass that read spec.tls as off does.
NeverDroppedByFailure ==
    [][sts # None /\ sts.mount # Off /\ sts'.mount = Off => job.want = Off]_vars

\* A pod whose datadir still links to the TLS mount never gets a template
\* without TLS that does not clean up, on which ProxySQL would exit at boot.
NoDanglingBoot ==
    \A p \in Pods : pods[p].links /\ pods[p].rev # None =>
        pods[p].rev.mount # Off \/ pods[p].rev.cleanup

\* Age b is no less than age a.
NoYounger(a, b) == a = b \/ a = "ahead" \/ b = "expired"

\* The window of a rotation is not pushed back: whatever passes, crashes and
\* failed attempts come after it was recorded for a content, it is not
\* recorded as younger for that content, so that the restart that is due is
\* not put off, and none is ever recorded with a start in the future.  Only
\* a clock that is set back makes a window look younger
\* (parseTLSRotationState, resolveTLSRotation).
WindowNotReopened ==
    [][Window' # None /\ ~ClockBack =>
         IF Window # None /\ Window.bundle = Window'.bundle
         THEN NoYounger(Window.age, Window'.age)
         ELSE Window'.age # "ahead"]_vars

\* If TLS stays on with a valid Secret, every pod ends up ready and serving
\* its content, except one that was missed: a rotation that cannot be
\* verified falls back to a restart, and the window is not pushed back for
\* ever.
ServedConverges ==
    <>[](want # Off /\ Valid(want) =>
            \A p \in Pods : /\ pods[p].phase = "ready"
                            /\ p \in missed \/ pods[p].served = secrets[want].bundle)

=============================================================================
