---------------------------- MODULE RestartChecksum ----------------------------
(***************************************************************************)
(* How a change of a ProxySQLCluster's bootstrap configuration (the cnf)   *)
(* reaches its pods.  One Reconcile pass of the cluster controller writes  *)
(* the cnf Secret, decides between a restart-free push over the admin port *)
(* and a rolling restart (restart_checksum.go), and records the decision   *)
(* in three annotations of the StatefulSet.  The pass is interleaved with  *)
(* edits of the custom resource, the StatefulSet controller, the kubelet,  *)
(* operator crashes and API errors, failing pushes and failing pods.       *)
(*                                                                         *)
(* A cnf is abstracted to its structural content s (everything that        *)
(* NormalizeCnf keeps, plus the other keys of the Secret, numbered in the  *)
(* order of first use) and the values v of its runtime-appliable           *)
(* variables.  SHA-256 is taken to be injective: a digest is represented   *)
(* by what it digests.                                                     *)
(***************************************************************************)
EXTENDS Naturals, FiniteSets

CONSTANTS
    Pods,           \* the replicas of the StatefulSet
    Vars,           \* runtime-appliable variables of the cnf
    Values,         \* their values
    Domain,         \* Domain[x]: 1 admin, 2 mysql, 3 pgsql, the push order
    Monitor,        \* the monitor credential variables
    Stubborn,       \* variables ProxySQL only takes at startup
    Cnfs,           \* the contents the custom resource may ask for
    None,           \* an absent object, annotation or content
    Legacy,         \* whether the StatefulSet may predate the two markers
    Edits,          \* the edits its user may make, as pairs of contents
    EditWhen,       \* when they may make one: "any", "ready", "converged"
    MaxEdits,       \* bound on the edits of the custom resource
    FaultKinds,     \* the kinds of fault the environment may show
    MaxFaults       \* bound on the faults, all kinds together

Cnf == [s : Nat, v : [Vars -> Values]]
Checksum == Nat \X [Vars -> Values]

ASSUME CnfAssumption == Cnfs \subseteq Cnf
ASSUME VarAssumption ==
    /\ Monitor \subseteq Vars
    /\ Stubborn \subseteq Vars
    /\ Domain \in [Vars -> 1..3]
ASSUME NoneAssumption ==
    /\ None \notin Cnf \cup Checksum
    /\ None \notin Nat
    /\ None \notin [Vars -> Values]
    /\ None \notin [checksum : Checksum,
                    vars : [Vars -> Values] \cup {None},
                    struct : Nat \cup {None}]
ASSUME EditAssumption ==
    /\ Legacy \in BOOLEAN
    /\ Edits \subseteq Cnfs \X Cnfs
    /\ EditWhen \in {"any", "ready", "converged"}
ASSUME FaultAssumption ==
    /\ FaultKinds \subseteq {"interrupt", "push", "pod", "flap"}
    /\ MaxFaults \in Nat
    /\ MaxEdits \in Nat

VARIABLES
    spec,      \* the cnf rendered from the custom resource
    secret,    \* content of the <cluster>-cnf Secret
    sts,       \* the three annotations of the StatefulSet
    pods,      \* per pod: its phase, the template it came from, its live cnf
    job,       \* the Reconcile pass in progress
    queued,    \* whether the workqueue holds the cluster
    degraded,  \* the Degraded=RuntimeApplyError condition
    edits,     \* number of edits so far
    faults     \* number of faults so far

vars == <<spec, secret, sts, pods, job, queued, degraded, edits, faults>>

----------------------------------------------------------------------------
(* The digests of restart_checksum.go and builders.CnfChecksum.            *)

structuralHash(c) == c.s
varsHash(c) == c.v
CnfChecksum(c) == <<structuralHash(c), varsHash(c)>>

StsRecord == [checksum : Checksum,
              vars : [Vars -> Values] \cup {None},
              struct : Nat \cup {None}]

IdleJob == [pc |-> "idle", old |-> None, new |-> None, changed |-> {},
            todo |-> {}, mismatched |-> FALSE, checksum |-> None]

NewPod == [phase |-> "down", rev |-> None, cnf |-> None]

FreshInit ==
    /\ secret = None
    /\ sts = None
    /\ pods = [p \in Pods |-> NewPod]

\* Left by an operator that predates the markers: its cnf lived in a
\* ConfigMap (no Secret), or in the Secret but without the two annotations,
\* which classifyCnfChange reads as empty.
LegacyInit ==
    /\ Legacy
    /\ secret \in {None, spec}
    /\ sts = [checksum |-> CnfChecksum(spec), vars |-> None, struct |-> None]
    /\ pods = [p \in Pods |->
                 [phase |-> "ready", rev |-> CnfChecksum(spec), cnf |-> spec]]

Init ==
    /\ spec \in Cnfs
    /\ FreshInit \/ LegacyInit
    /\ job = IdleJob
    /\ queued = TRUE
    /\ degraded = FALSE
    /\ edits = 0
    /\ faults = 0

Fault(k) ==
    /\ k \in FaultKinds
    /\ faults < MaxFaults
    /\ faults' = faults + 1

----------------------------------------------------------------------------
(* The custom resource.                                                    *)

AllReady ==
    /\ sts # None
    /\ \A p \in Pods : pods[p].phase = "ready" /\ pods[p].rev = sts.checksum

Converged ==
    /\ job.pc = "idle" /\ ~queued
    /\ AllReady
    /\ \A p \in Pods : pods[p].cnf = spec

EditSpec(c) ==
    /\ edits < MaxEdits
    /\ <<spec, c>> \in Edits
    /\ EditWhen = "ready" => AllReady
    /\ EditWhen = "converged" => Converged
    /\ spec' = c
    /\ edits' = edits + 1
    /\ queued' = TRUE
    /\ UNCHANGED <<secret, sts, pods, job, degraded, faults>>

----------------------------------------------------------------------------
(* One Reconcile pass.                                                     *)

ReadyPods == {p \in Pods : pods[p].phase = "ready"}

Try(changed) == [verdict |-> "runtimeTry", changed |-> changed]
Verdict(v) == [verdict |-> v, changed |-> {}]

\* Faulty: a structural change in flight is forgotten.
classifyForgetsPending(old, new, cur) ==
    IF old = None THEN Verdict("bootHash")
    ELSE IF old.s # new.s THEN Verdict("structural")
    ELSE IF old.v # new.v THEN Try({x \in Vars : old.v[x] # new.v[x]})
    ELSE IF cur.vars = varsHash(new) THEN Verdict("keepPrev")
    ELSE Try(Vars)

\* Faulty: an unchanged cnf moves the template.
classifyMovesUnchanged(old, new, cur) ==
    IF old = None THEN Verdict("bootHash")
    ELSE IF old.s # new.s \/ cur.struct \notin {None, structuralHash(new)}
         THEN Verdict("structural")
    ELSE IF old.v # new.v THEN Try({x \in Vars : old.v[x] # new.v[x]})
    ELSE IF cur.vars = varsHash(new) THEN Verdict("bootHash")
    ELSE Try(Vars)

\* The decision for a cnf other than the one the template was rolled for.
classifyAgainstSecret(old, new, cur) ==
    IF old = None THEN Verdict("bootHash")
    ELSE IF old.s # new.s THEN Verdict("structural")
    ELSE IF cur.struct \notin {None, structuralHash(new)}
         THEN Verdict("structural")
    ELSE IF old.v # new.v THEN Try({x \in Vars : old.v[x] # new.v[x]})
    ELSE IF cur.vars = varsHash(new) THEN Verdict("keepPrev")
    ELSE Try(Vars)

\* Faulty: going back to the cnf of the template counts as applied.
classifyRevertApplied(old, new, cur) ==
    IF cur = None THEN Verdict("bootHash")
    ELSE IF cur.checksum = CnfChecksum(new) THEN Verdict("bootHash")
    ELSE classifyAgainstSecret(old, new, cur)

\* The pure decision, in the order of the early returns.  cur holds the
\* annotations as they stood before the pass.
classifyCnfChange(old, new, cur) ==
    IF cur = None THEN Verdict("bootHash")
    ELSE IF cur.checksum = CnfChecksum(new) THEN
        IF old # None /\ cur.vars \notin {None, varsHash(new)}
        THEN Try(Vars) ELSE Verdict("bootHash")
    ELSE classifyAgainstSecret(old, new, cur)

\* Dequeue, read the custom resource and the Secret as it stands.
StartReconcile ==
    /\ queued
    /\ job.pc = "idle"
    /\ job' = [IdleJob EXCEPT !.pc = "read", !.old = secret, !.new = spec]
    /\ queued' = FALSE
    /\ UNCHANGED <<spec, secret, sts, pods, degraded, edits, faults>>

\* The Secret is written first; its own watch enqueues the cluster again.
ensureCnfSecret ==
    /\ job.pc = "read"
    /\ secret' = job.new
    /\ queued' = (queued \/ secret # job.new)
    /\ job' = [job EXCEPT !.pc = "resolve"]
    /\ UNCHANGED <<spec, sts, pods, degraded, edits, faults>>

\* Faulty: the decision is not handed to the write of the StatefulSet.
SaveNothing(checksum) == job' = [job EXCEPT !.pc = "save"]

Save(checksum) == job' = [job EXCEPT !.pc = "save", !.checksum = checksum]

\* resolveRestartChecksum up to the first dial.
resolveRestartChecksum ==
    /\ job.pc = "resolve"
    /\ LET c == classifyCnfChange(job.old, job.new, sts)
           unreachedMonitor == c.changed \cap Monitor # {} /\ ReadyPods # Pods
       IN  \/ /\ c.verdict \in {"bootHash", "structural"}
              /\ Save(CnfChecksum(job.new))
           \/ /\ c.verdict = "keepPrev"
              /\ Save(sts.checksum)
           \/ /\ c.verdict = "runtimeTry" /\ unreachedMonitor
              /\ Save(CnfChecksum(job.new))
           \/ /\ c.verdict = "runtimeTry" /\ ~unreachedMonitor
              /\ ReadyPods = {}
              /\ Save(sts.checksum)
           \/ /\ c.verdict = "runtimeTry" /\ ~unreachedMonitor
              /\ ReadyPods # {}
              /\ job' = [job EXCEPT !.pc = "push", !.changed = c.changed,
                                    !.todo = ReadyPods]
    /\ UNCHANGED <<spec, secret, sts, pods, queued, degraded, edits, faults>>

\* What a pod runs after the changed variables of domains 1..k were pushed.
Pushed(p, k) ==
    [x \in Vars |-> IF x \in job.changed \ Stubborn /\ Domain[x] <= k
                    THEN job.new.v[x] ELSE pods[p].cnf.v[x]]

\* Faulty: the read-back is ignored.
PushUnverified(p) ==
    /\ job.pc = "push"
    /\ p \in job.todo
    /\ pods[p].phase # "down"
    /\ pods' = [pods EXCEPT ![p].cnf.v = Pushed(p, 3)]
    /\ job' = IF job.todo # {p} THEN [job EXCEPT !.todo = @ \ {p}]
              ELSE [job EXCEPT !.pc = "save", !.todo = {},
                               !.checksum = sts.checksum]
    /\ UNCHANGED <<spec, secret, sts, queued, degraded, edits, faults>>

\* One endpoint answers: every domain is applied and read back.
PushOk(p) ==
    /\ job.pc = "push"
    /\ p \in job.todo
    /\ pods[p].phase # "down"
    /\ LET live == Pushed(p, 3)
           bad == job.mismatched
                  \/ \E x \in job.changed : live[x] # job.new.v[x]
           rest == job.todo \ {p}
       IN  /\ pods' = [pods EXCEPT ![p].cnf.v = live]
           /\ job' = IF rest # {}
                     THEN [job EXCEPT !.todo = rest, !.mismatched = bad]
                     ELSE [job EXCEPT
                             !.pc = "save", !.todo = {}, !.mismatched = bad,
                             !.checksum = IF bad THEN CnfChecksum(job.new)
                                                 ELSE sts.checksum]
    /\ UNCHANGED <<spec, secret, sts, queued, degraded, edits, faults>>

\* Faulty: the error of the push is swallowed.
PushErrorSwallowed(p, k) ==
    /\ job.pc = "push"
    /\ p \in job.todo
    /\ pods[p].phase # "down"
    /\ Fault("push")
    /\ pods' = [pods EXCEPT ![p].cnf.v = Pushed(p, k)]
    /\ degraded' = TRUE
    /\ job' = IdleJob
    /\ UNCHANGED <<spec, secret, sts, queued, edits>>

\* One endpoint fails after k domains: the pass ends, the StatefulSet keeps
\* its annotations, the condition is written at best effort, and the error
\* puts the cluster back on the queue.
PushFails(p, k) ==
    /\ job.pc = "push"
    /\ p \in job.todo
    /\ IF pods[p].phase = "down"
       THEN UNCHANGED <<pods, faults>>
       ELSE /\ Fault("push")
            /\ pods' = [pods EXCEPT ![p].cnf.v = Pushed(p, k)]
    /\ degraded' \in {degraded, TRUE}
    /\ job' = IdleJob
    /\ queued' = TRUE
    /\ UNCHANGED <<spec, secret, sts, edits>>

\* Faulty: an existing pod template keeps its checksum annotation.
ensureMarkersOnly ==
    /\ job.pc = "save"
    /\ sts' = [checksum |-> IF sts = None THEN job.checksum ELSE sts.checksum,
               vars |-> varsHash(job.new), struct |-> structuralHash(job.new)]
    /\ queued' = (queued \/ sts' # sts)
    /\ job' = [IdleJob EXCEPT !.pc = "status"]
    /\ UNCHANGED <<spec, secret, pods, degraded, edits, faults>>

\* Template and markers in one write; its watch enqueues the cluster again.
ensureStatefulSet ==
    /\ job.pc = "save"
    /\ sts' = [checksum |-> job.checksum, vars |-> varsHash(job.new),
               struct |-> structuralHash(job.new)]
    /\ queued' = (queued \/ sts' # sts)
    /\ job' = [IdleJob EXCEPT !.pc = "status"]
    /\ UNCHANGED <<spec, secret, pods, degraded, edits, faults>>

updateStatus ==
    /\ job.pc = "status"
    /\ degraded' = FALSE
    /\ job' = IdleJob
    /\ UNCHANGED <<spec, secret, sts, pods, queued, edits, faults>>

\* The operator crashes, or an API call of the pass returns an error: what
\* was written stays, and the cluster is reconciled again.
Interrupt ==
    /\ job.pc # "idle"
    /\ Fault("interrupt")
    /\ job' = IdleJob
    /\ queued' = TRUE
    /\ UNCHANGED <<spec, secret, sts, pods, degraded, edits>>

----------------------------------------------------------------------------
(* The StatefulSet controller and the kubelet (Kubernetes itself).         *)

\* A missing pod is created (the pod management policy is Parallel); an
\* outdated one is replaced once the pods already replaced are ready.
RollPod(p) ==
    /\ sts # None
    /\ pods[p].rev # sts.checksum
    /\ pods[p].rev = None
       \/ \A q \in Pods : pods[q].rev = sts.checksum => pods[q].phase = "ready"
    /\ pods' = [pods EXCEPT ![p].phase = "down", ![p].rev = sts.checksum]
    /\ queued' = TRUE
    /\ UNCHANGED <<spec, secret, sts, job, degraded, edits, faults>>

\* The container starts with --reload: it runs the Secret as it is now.  Left
\* out: a container restarted in place may still find the kubelet's old copy of
\* the Secret, and keys that are gone from the cnf stay in proxysql.db (both in
\* docs/user-guide/operations.md).
Boot(p) ==
    /\ pods[p].phase = "down"
    /\ pods[p].rev # None
    /\ secret # None
    /\ pods' = [pods EXCEPT ![p].phase = "starting", ![p].cnf = secret]
    /\ UNCHANGED <<spec, secret, sts, job, queued, degraded, edits, faults>>

\* Readiness shows in the StatefulSet's status, which is watched.
BecomeReady(p) ==
    /\ pods[p].phase = "starting"
    /\ pods' = [pods EXCEPT ![p].phase = "ready"]
    /\ queued' = TRUE
    /\ UNCHANGED <<spec, secret, sts, job, degraded, edits, faults>>

\* The readiness probe fails for a while; the process keeps running.
LoseReady(p) ==
    /\ pods[p].phase = "ready"
    /\ Fault("flap")
    /\ pods' = [pods EXCEPT ![p].phase = "starting"]
    /\ queued' = TRUE
    /\ UNCHANGED <<spec, secret, sts, job, degraded, edits>>

\* The container dies and will be started again in place.
PodFails(p) ==
    /\ pods[p].phase # "down"
    /\ Fault("pod")
    /\ pods' = [pods EXCEPT ![p].phase = "down"]
    /\ queued' = TRUE
    /\ UNCHANGED <<spec, secret, sts, job, degraded, edits>>

----------------------------------------------------------------------------
Push == \E p \in Pods : PushOk(p) \/ \E k \in 0..3 : PushFails(p, k)

Reconcile ==
    \/ StartReconcile
    \/ ensureCnfSecret
    \/ resolveRestartChecksum
    \/ Push
    \/ ensureStatefulSet
    \/ updateStatus

Kubernetes(p) == RollPod(p) \/ Boot(p) \/ BecomeReady(p)

Next ==
    \/ \E c \in Cnfs : EditSpec(c)
    \/ Reconcile
    \/ Interrupt
    \/ \E p \in Pods : Kubernetes(p) \/ LoseReady(p) \/ PodFails(p)

Spec == Init /\ [][Next]_vars

\* The manager's worker keeps taking the cluster off the queue and runs the
\* pass to its end; the StatefulSet controller and the kubelet keep working.
\* Edits and faults are never fair.
FairSpec == Spec /\ WF_vars(Reconcile) /\ \A p \in Pods : WF_vars(Kubernetes(p))

----------------------------------------------------------------------------
(* Properties.                                                             *)

JobType ==
    [pc : {"idle", "read", "resolve", "push", "save", "status"},
     old : Cnf \cup {None}, new : Cnf \cup {None},
     changed : SUBSET Vars, todo : SUBSET Pods,
     mismatched : BOOLEAN, checksum : Checksum \cup {None}]

PodType ==
    [phase : {"down", "starting", "ready"}, rev : Checksum \cup {None},
     cnf : Cnf \cup {None}]

\* Every object, annotation and local of the pass has the shape the code
\* gives it; in particular no StatefulSet carries an empty checksum.
TypeOK ==
    /\ spec \in Cnf
    /\ secret \in Cnf \cup {None}
    /\ sts \in StsRecord \cup {None}
    /\ pods \in [Pods -> PodType]
    /\ job \in JobType
    /\ queued \in BOOLEAN
    /\ degraded \in BOOLEAN
    /\ edits \in Nat
    /\ faults \in Nat

\* The structural-applied-hash annotation is honest: once it equals the
\* structure of the Secret, a running pod that still has another structure
\* comes from an older template, so the rolling update will replace it.  No
\* interruption between the Secret write and the StatefulSet write drops a
\* restart.
StructMarkerHonest ==
    sts # None /\ secret # None =>
        (sts.struct = structuralHash(secret) =>
            \A p \in Pods : pods[p].phase # "down" /\ pods[p].rev = sts.checksum
                              => pods[p].cnf.s = secret.s)

\* The vars-applied-hash annotation is honest in the same way: once it
\* equals the variables of the Secret, every running pod of the current
\* template has exactly these values.
VarsMarkerHonest ==
    sts # None /\ secret # None =>
        (sts.vars = varsHash(secret) =>
            \A p \in Pods : pods[p].phase # "down" /\ pods[p].rev = sts.checksum
                              => pods[p].cnf.v = secret.v)

\* No lost wake-up: when the controller rests, the Secret and both markers
\* are those of the custom resource and the Degraded condition is cleared.
RestsOnlyWhenCurrent ==
    job.pc = "idle" /\ ~queued =>
        /\ secret = spec
        /\ sts # None
        /\ sts.vars = varsHash(spec)
        /\ sts.struct = structuralHash(spec)
        /\ ~degraded

\* The pod template moves, and so the pods restart, only for a reason: the
\* structure changed, or a variable that needs a restart did (one ProxySQL
\* only takes at startup, or a monitor credential).  A change of ordinary
\* variables never restarts the pods.
RestartOnlyWithReason ==
    [][sts # None /\ sts'.checksum # sts.checksum =>
         \/ sts.struct # structuralHash(secret)
         \/ sts.vars = None
         \/ \E x \in Stubborn \cup Monitor : sts.vars[x] # secret.v[x]]_vars

\* Whatever the faults, every pod ends up ready with the structure asked for.
StructureConverges ==
    <>[](\A p \in Pods : pods[p].phase = "ready" /\ pods[p].cnf.s = spec.s)

\* Every pod ends up ready with the whole configuration asked for.
Converges == <>[]Converged

=============================================================================
