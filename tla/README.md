# ProxySQL operator: TLA+ models and proofs

The operator keeps ProxySQL clusters running on Kubernetes. This directory
models what is hard to test about it: passes that are interrupted between two
writes, pods that start or fail while they are being configured, and edits that
arrive in the middle.

## The system

| Part | Source (`src/operator/...`) | What it does |
|---|---|---|
| ProxySQLCluster controller | `internal/controller/proxysqlcluster_controller.go` | one pass: passwords, AWS bootstrap, TLS, cnf Secret, Services, TLS rotation, restart decision, StatefulSet, PDB, ServiceMonitor, status |
| Restart decision | `internal/controller/restart_checksum.go` | restart-free push over the admin port or rolling restart; two crash-safety markers |
| TLS rotation | `internal/controller/tls_rotation.go`, `tls_dial.go` | reload and verify certificates on every pod inside a bounded window, then restart |
| TLS Secrets | `internal/controller/tls_secrets.go`, `internal/tlsutil` | three tiers of certificates; validate before mounting, hold the last good mount |
| ProxySQLConfig controller | `internal/controller/proxysqlconfig_controller.go` | union of all configs of a cluster pushed to every ready pod, drift resync, finalizer |
| Admin SQL | `internal/proxysqlclient` | table sync, runtime snapshot, union, drift |
| RDS plugin | `rds_reconcile.go`, `rds_bootstrap.go`, `internal/rdsclient`, `internal/plugin/aws` | signed calls to a local plugin, observe and apply cycle |
| Builders | `internal/controller/builders` | the cnf and the Kubernetes objects |
| API types, manager, charts | `api/v1alpha1`, `cmd/main.go`, `charts` | declarations, wiring, templates |

Each controller has one worker. It takes a key off a work queue, runs a pass,
and is woken again by watches on the objects it owns and by errors it returns.
Pods run what they read at boot (`--reload`: the cnf Secret wins) plus what was
pushed since.

## Modules

| Module | Models |
|---|---|
| `RestartChecksum` | the restart decision inside the cluster controller's pass, with its environment |
| `MCRestartChecksum` | instances for TLC |
| `RestartChecksumProofs` | theorems about `RestartChecksum` |
| `TLSRotation` | resolution, mounting and rotation of the serving certificate in the same pass, with the kubelet and the Secrets' owners |
| `MCTLSRotation` | instances for TLC |
| `TLSRotationProofs` | theorems about `TLSRotation` |
| `Tables`, `TablesProofs` | the admin tables of one process: union, push, drift, as operators |
| `RDSProxy`, `RDSProxyProofs` | the AWS plugin's proxy on one replica: clear, apply, drift, as operators |
| `VerifiedRecord` | what the status of a ProxySQLConfig promises, without how it is kept |
| `ConfigSync` | the ProxySQLConfig controller, composed of `Tables` and `RDSProxy`, implementing `VerifiedRecord` |
| `MCConfigSync` | instances for TLC, and two algorithms checked against what they compute |
| `ConfigCycleProofs`, `ConfigSyncProofs`, `ConfigSkipProofs` | theorems about `ConfigSync` |
| `ClusterPass` | a whole pass of the ProxySQLCluster controller |
| `MCClusterPass`, `ClusterPassProofs` | an instance for TLC, theorems |

`RestartChecksum` and `TLSRotation` look closely at two parts of the pass that
`ClusterPass` models as a whole; there the two appear by their outcome.

### RestartChecksum

State: `spec` (the cnf the custom resource asks for), `secret` (the cnf Secret),
`sts` (the template's `cnf-checksum`, and the markers `vars-applied-hash` and
`structural-applied-hash`), `pods` (phase, template revision, live content),
`job` (locals of the pass), `queued` (work queue), `degraded`
(`RuntimeApplyError`).

A cnf is a structure `s` and values `v`. `NormalizeCnf` keeps the set of
variable names, so adding or removing a variable is a change of `s`.
Digests are represented by what they digest.

| Action | Code |
|---|---|
| `StartReconcile` | dequeue, `Get` of the resource, `currentCnfData` |
| `ensureCnfSecret` | the Secret write, and the event it causes |
| `resolveRestartChecksum` | `classifyCnfChange`, endpoint discovery, monitor rule, no-endpoint rule |
| `PushOk`, `PushFails` | one endpoint of the push loop: all domains and the read-back, or a failure after k domains and `handleRuntimeApplyError` |
| `ensureStatefulSet` | template and markers in one write |
| `updateStatus` | clears `Degraded` |
| `Interrupt` | the operator dies or an API call fails, at any point of the pass |
| `RollPod`, `Boot`, `BecomeReady`, `LoseReady`, `PodFails` | StatefulSet controller and kubelet |

Left out of the pass: the parts that do not touch this state (Services, PDB,
ServiceMonitor, TLS). Template changes other than the checksum are not modelled:
they only cause more restarts. Reads see the latest write; a lagging informer
cache is not modelled. Nor are two limits of `--reload` that
`docs/user-guide/operations.md` states: a container restarted in place within the
kubelet's delay reads the old cnf again (lines 218-226), and a key removed from the
cnf stays in `proxysql.db` (lines 166-186). `Boot` reads the Secret as it is, and all
of it.

### TLSRotation

State: `want` (the Secret `spec.tls` resolves to, or off), `secrets`, `sts` (mount,
cleanup container and `tls-restart` of the template; the markers
`tls-applied-hash` and `tls-rotation-state`), `pods` (phase, template, the bundle
the kubelet mounted, the bundle ProxySQL serves, links in the datadir), `job`,
`queued`. `missed` is a history variable: the pods that were out of date, and not
dialled, when the engine decided to record a content.

A bundle is a leaf and a CA; its digest is the bundle. A window, recorded for one
bundle, is open, expired, or ahead of the operator's clock. The datadir is persistent: without persistence there are
no links to clean up.

| Action | Code |
|---|---|
| `ensureTLSSecrets` | dequeue, validate the Secret, `holdTLSLastGood`, `resolveTLSCleanup` |
| `resolveTLSRotation` | second read of the Secret, `classifyTLSRotation`, endpoint discovery, parsing, window |
| `RotationUnread` | that read, or discovery, fails: the markers are kept and the pass goes on |
| `reloadAndVerifyTLS` | one endpoint: probe, reload, probe; after the last one advance, fall back or keep the window |
| `ensureStatefulSet` | template and markers in one write; deferred errors requeue |
| `WindowExpires` | time passes |
| `ClockBack` | the operator comes back with a clock that is behind the recorded window |
| `SyncMount` | the kubelet refreshes a running pod's copy of the Secret |
| `SwitchTLS`, `RotateSecret`, `BreakSecret`, `RepairSecret` | users, cert-manager, the operator's own renewal |
| `Interrupt`, `RollPod`, `Boot`, `BecomeReady`, `PodFails` | as above; a container restarted in place keeps its mount, a replaced pod gets the current Secret |

The three tiers differ in who writes the Secret; here it is written by
`RotateSecret` whoever that is. Backend Secrets are left out, and so are the
files of a Secret that loses its keys while mounted: pods keep the last complete
copy.

### Tables and RDSProxy

A table is a function from keys to rows, a process its tables in memory, at
runtime and on disk. A push (`SyncWithAWSDBProxy`) takes the set `F` of statements
that fail when executed, so a DELETE without its INSERT, a LOAD that makes a half-written
neighbour live, or a lost SAVE are all values of one operator. `Union` merges by
key, the last name wins. `Drift` compares servers by membership of their
replication class and administrative status, other tables by key only, as
`runtime.go` does. `Running` is an assumption about ProxySQL: after a LOAD all rows
show at runtime except OFFLINE_HARD servers. The source says so of those servers
only; that inactive users and rules show is taken for granted there and here.
`RDSProxy` does the same for the four describing and four
modifying calls of `rdsclient`, which stop at the first failure.

### ConfigSync

State: `cfgs` (phase, finalizer, skip annotation, generation, spec and status of
each ProxySQLConfig), `due` (resync interval over), `password` (the Secret users'
passwords come from), `access` (what keeps a pass from the cluster), `pods` (address,
readiness, tables, proxy), `work` (the pass under way), `events`. `loose` and
`work.told` record history for one property.

| Action | Code |
|---|---|
| `Begin`, `BeginBlocked` | `Reconcile` up to the replicas: finalizer, union, RDS state, endpoints, fingerprint, short-circuit; the early returns |
| `Observe` | `observeReplica`, in the informed resync and after a push |
| `applyReplica` | one replica's cycle: clear, push, apply, each with its faults |
| `Finish`, `FinishClean` | the status after a push, and after a resync that found nothing |
| `FinalizeSkip` | finalizer released without cleanup |
| `BeginFinalize`, `FinalizeClear`, `FinalizeUnion`, `FinalizePush`, `FinalizeRelease` | cleanup of each replica with what the remaining configs ask for |
| `CreateConfig`, `EditConfig`, `DeleteConfig`, `AnnotateSkip`, `ChangeSecret`, `ChangeAccess` | users |
| `MonitorMove`, `Wipe`, `RestartPod`, `ReplacePod`, `LoseReady`, `BecomeReady` | ProxySQL's monitor, admin sessions, pods |
| `Clock`, `Crash` | time, the operator process |

A push is one step per replica; what may interleave with it is the next
replica's. A pass may dial an address that meanwhile belongs to another pod, or
to none (`Answering`). Configurations that drive the plugin do not share a cluster
with others in the instance (`Groups`).

### ClusterPass

State: `cluster` (phase, spec, status), `auth`, `cached`, `rds`, `bootstrap`
(credentials and whether the cache knows of them), `secrets` (TLS material by who
wrote it, CA, names, life and end), `owned` (the objects the controller writes), `live`
(status of the StatefulSet), `now`, `minted` (source of fresh random values),
`work`, `events`. `proven` is a history variable: the TLS Secrets that have been complete.

| Action | Code |
|---|---|
| `Reconcile` | dequeue; a cluster being deleted is left alone |
| `resolvePasswords`, `resolveAWSBootstrap` | `resolvePasswords`, `ensureRDSCredentials` and their errors |
| `ensureTLSSecrets`, `ensureSelfSignedServing`, `cleanupTLSCertificate` | the three tiers, validate and hold |
| `ensureBackend` | backend Secrets and their hold |
| `ensureCnfSecret`, `ensureServices`, `applyTemplate`, `ensureExtras` | the writes, in order; deferred errors |
| `updateStatus` | phase, `Degraded` by priority, endpoint, pause |
| `CallFails`, `CredentialsCallFails`, `Crash` | a pass that ends early |
| `EditSpec`, `DeleteCluster`, `ChangeAuth`, `ChangeAWS`, `BreakSecret`, `BringSecret`, `Squat` | users |
| `Collect`, `Gone`, `CacheSync`, `CertManager`, `StatefulSetController`, `Provision`, `Tick` | the rest of Kubernetes, cert-manager, time |

Specs are taken as defaulted (`DefaultedSpec`). Writes that nothing between them
can tell apart share a step: the cnf Secret with the removal of the old
ConfigMap, the Services, the budget with the ServiceMonitor.

## Runs

The `Restart` runs have two pods and three variables: an ordinary one, a monitor
credential and one ProxySQL takes only at startup. Two pods are enough for one to be pushed,
down or outdated while the other is not. One shared fault budget lets every kind
of fault meet every other. Deadlock is not checked: a converged cluster
whose edits and faults are spent rests.

| Run | Result | Shows |
|---|---|---|
| `RestartStructure` | passes | structures 0, 1, 2 in order, edits at any moment, two faults of any kind: the structural marker is honest, no wake-up is lost, every pod ends on the structure asked for |
| `RestartVariables` | passes | two edits of any sort, each made on a converged cluster and possibly taken back, three operator faults, fresh or legacy StatefulSet: the variable marker is honest, restarts have a reason, the cluster converges |
| `RestartRetry` | violation | a second edit during a retry loses the first one |
| `RestartStarting` | violation | a pod not yet Ready misses the push and stays stale |
| `RestartOrdinary` | violation | a retried ordinary change restarts the cluster through the monitor rule |
| `TLSRotate` | passes | two edits of any kind (renew the leaf or leaf and CA, break, repair, switch on and off) at any moment, one fault of any kind: the marker is honest and every pod ends up serving the Secret, by reload or restart, missed pods excepted; a window is not pushed back, TLS never dropped by a failure, no boot on dangling links |
| `TLSRollback` | violation | a renewal taken back before the marker advanced leaves pods on the withdrawn certificate |
| `TLSBundle` | violation | a change of `ca.crt` alone is recorded as served although no pod reloaded |
| `ConfigSync` | passes | two events of any kind around several configurations: records are written on evidence only (`Promise`, the refinement), a push is skipped only when its tables are in place, replicas converge, deletion ends |
| `ConfigReady` | violation | a Secret that goes and comes back leaves `Ready=False` for good |
| `ClusterPass` | passes | one event of any kind and then a failing call or a crash: credentials survive, templates name Secrets that were there, certificates end before their CA unless they were asked to live longer than one, TLS failures hold back nothing else, a clean condition means that all of the spec is applied, the pass settles and rests, and a cluster at rest is left as it is, deletion completes |
| `ClusterLongLife` | violation | a certificate asked to live longer than a CA does outlives its CA |

The three `Restart` violations explain why `RestartVariables` edits only a
converged cluster and has no failing pods: otherwise its properties do not hold, and each of the three runs
isolates one cause. `RestartStructure` takes edits at any time but never returns
to an earlier structure and starts without a legacy StatefulSet: an edit taken
back inside an interrupted pass can leave a pod on the intermediate structure,
and an empty marker skips the check by design (`restart_checksum.go:144-147`).

The `TLS` runs have two pods, three leaves, two CAs and one Secret. Renewals come
at any time. In `TLSRotate` contents never come back and `ca.crt` never changes
alone; the two violation runs lift one each. The marker and the convergence are
claimed of all pods but the `missed` ones. The engine dials ready pods only, and it
adopts the first content it sees without dialling: a pod that is not ready during
a rotation, or restarts in place on the kubelet's old copy, or is up before the
first marker is recorded, may go on serving what came before. `missed` holds exactly
those that were out of date at the moment of the decision, and a pod leaves it when
it is replaced or at the next decision; everywhere else the properties bind. With a
second Secret `TLSMarkerHonest` does not hold: after a switch the marker still names
the content of the old Secret, and is taken for true if the new one is then renewed
to that same content. That is why the theorem about it asks for no switch; `NoDanglingBoot`,
`NeverDroppedByFailure` and the window are proved for any number of Secrets.

`ConfigSync` has two replicas, three addresses, two configurations that disagree
about one server, and a third that drives the plugin; it starts with one of them
applied. The spare address lets a pod move onto a recorded address and off
it. Each event is spent once, and a failing read, push or write is an event too,
so "two" means for example an edit and a crash, or a replaced pod and a failed
push. A push has one faulty form, an INSERT and a LOAD failing together. The
exceptions in `SkipOnlyWhenAsserted` (`loose`) are what the code leaves to the
resync: pods restarted or wiped at a recorded address, pushes without a record,
and replicas that were not ready for a finalizer. A finalizer's push counts as one
without a record when no remaining configuration has recorded the union it
pushes (`Told`): if the others' Secret changed meanwhile and changes back, their
records match again while the replicas hold something else. `Converges` covers
all of these.
`MCConfigSync` also evaluates two assumptions: `ClassesAreComponents`, that the
union-find of `replicationClasses` computes connected components for all lists of
up to three pairs over four hostgroups, and `UnionOverwrites`.

`ClusterPass` has six specs that between them use all tiers, backend Secrets,
both kinds of external Service, pause and the plugin. Lives of certificates are part of
the spec and edited with it. They are the smallest that keep
their order: certificate 2 or 3, window 1, CA 4, time up to 3, so a CA is kept
once, replaced once, lasts just long enough once, and reissue happens for each of its
reasons. A life with its window beyond the CA's is left to `ClusterLongLife`: there each
pass finds the CA of the last one too short and mints another, so that
identities have no bound and nothing settles (`CALasts`, a premise of `Settles` and
`ComesToRest`). Two ports are
enough to see one change. Deadlock is not checked in either: once deleted, or
converged with events spent, nothing need happen.

Fairness (`FairSpec`): weak fairness of the worker's steps, because the manager
keeps draining the queue, and of roll, boot and readiness of each pod, because
the StatefulSet controller and the kubelet retry. In `TLSRotation` also of
`SyncMount`, because the kubelet refreshes mounted Secrets periodically, and of
`WindowExpires`, because the window is two minutes of wall-clock time. Edits and
faults are not fair.

In `ConfigSync`, `FairSpec` says that passes end (every dial and call has a
timeout), that a configuration with something to do gets its pass (each outcome
is requeued, the queue is served in turn), that the resync interval passes, and
that a pod which is down comes up. In `ClusterPass` it is weak fairness of the
pass, of cert-manager and of the garbage collector, and strong fairness of the
cache, the StatefulSet controller and load balancers, since the model lets these
three be seen only between certain steps of a pass. What users have to bring (credentials,
Secrets, reachable clusters) is a premise of each property, not a fairness.

Every property has a faulty variant of a definition (commented "Faulty") under
which TLC finds it violated.

## Proofs

`RestartChecksumProofs`, checked by TLAPS for every value of the constants:

- `TypeCorrect`: `Spec => []TypeOK`. `TypeOK` is not inductive; `Shape` adds that
  locals of a pass are set before they are used and that a running pod has a
  content.
- `StructuralRestartNotLost`: `Spec => []StructMarkerHonest`, assuming
  `MonotoneEdits` and `~Legacy`. The invariant `StructInv` orders the structures
  along their way: template <= booted pod <= Secret <= resource. When marker and
  Secret agree, a pod of the current template is squeezed between them.
  `JobOrder` carries the order across the steps of a pass: after the Secret
  write the pass and the Secret agree, and a pass that pushes or keeps the
  template has the marker of its own structure.
- `NoLostWakeup`: `Spec => []RestsOnlyWhenCurrent`, without further assumptions.
  `WakeOrder` says which part of the work a pass has done at each step as long as
  nothing was queued behind it.
- `VariablesNotLost`, `StructuralRestartNotLostOnReturn` and
  `OrdinaryChangesDoNotRestart`: `VarsMarkerHonest`, `StructMarkerHonest` and
  `RestartOnlyWithReason`, assuming `Calm`: edits wait for the previous one to have
  converged, and pods do not fail by themselves. `RestartRetry` and
  `RestartStarting` show that the first cannot be dropped, `RestartOrdinary` that
  the second cannot.
  Operator crashes, failing API calls and failing pushes are unrestricted, edits may
  return to earlier contents, and the StatefulSet may predate the markers.
  `VarsInv` distinguishes four modes of the cluster (no StatefulSet yet, one without
  markers, one whose markers record the content asked for, an edit under way)
  and says for each step of a pass what it can have read (`StageFits`).

`TLSRotationProofs`, likewise for any number of pods, Secrets, edits and faults:

- `TLSTypeCorrect`: `Spec => []TypeOK`, with `Shape`: a validated Secret has a
  name, a rotation under way a readable bundle, a pod with a mount a template
  with TLS.
- `CleanupNeverMissed`: `Spec => []NoDanglingBoot`. `WiredInv` says that "mounts
  TLS or cleans up" is never lost: the pass cannot render an unwired template
  over a wired one (`JobWired`), and whatever has links, or a template that
  could make them, lives under a wired StatefulSet (`PodWired`).
- `TLSHeld`: `Spec => NeverDroppedByFailure`, from the second half of `JobWired`.
- `MarkerMeansServed`: `Spec => []TLSMarkerHonest`, assuming that renewals go forward
  in some order of contents (`Forward`), that a leaf belongs to one content
  (`OwnLeaf`), and that TLS stays on one Secret, which may break and be repaired
  (`Renewing`). Renewals may come at any time and every kind of fault is allowed.
  `TLSRollback` and `TLSBundle` show why the first two are needed, switching
  between Secrets the third. `HonestInv` orders what pods serve, what they mount,
  the marker and the Secret along the renewals, and says what a rotation under way
  has seen of each pod that is not missed.
- `WindowRunsOut`: `Spec => WindowNotReopened`, the safety half of the bounded window:
  crashes, failed reads and retries never give a rotation a second window for the
  same content, unless the clock is set back, and no window is recorded with a
  start in the future. `WindowInv` adds that a pass that works on the content of an
  expired window knows that it has run out, and records nothing else for it.

`TablesProofs` and `RDSProxyProofs`, about the operators:

- `PushConverges`: a push that reports no error leaves no drift, for every
  configuration and every earlier content, with and without the plugin, given
  `Running`.
- `CycleConverges`: clear and apply without errors leave no difference to the
  intent. The role and the default auth scheme are each sent only when set, so one
  that is to be unset must be unset on the proxy already (`Settable`): removing
  either from the spec does not converge.

`ConfigCycleProofs`, `ConfigSyncProofs` and `ConfigSkipProofs`, for any number of
configurations, replicas and addresses:

- `CycleReaches` joins the two: a replica whose cycle goes through is read back
  as converged.
- `PromiseKept`: `Spec => Promise`, that is, `ConfigSync` implements
  `VerifiedRecord`. The refinement mapping shows a pass as open while it looks or
  settles, with what it has seen so far. The invariant `RecordInv` is `Shape`
  (fields), `Guarded` (no record without finalizer, so an object with a record cannot vanish
  under a pass) and `Informed` (what the pass read agrees with the object as long as nobody
  wrote it; in a resync its fingerprint is the recorded one). `Placed` (every
  process has a known address) is what makes a read of an endpoint a look at an
  address. Each action maps to one step of `VerifiedRecord` or to a stutter. That
  the initial record is true rests on `PushConverges`, `CycleConverges` and
  `StartAssumption`.
- `TypesKept`: `Spec => []TypeOK`. `TypeInv` adds that processes keep their tables
  (`Tabled`), that an object which is there has a spec of its own (`ObjectOK`), and that
  the object of a pass is there with its finalizer (`PassOK`).
- `SkipsNothing`: `Spec => []SkipOnlyWhenAsserted`. `TableInv` says of every replica
  that is not loose: if all records are about its address, one of them tells what
  its tables hold (`Supported`); once the pass under way has pushed to it, it holds
  what that pass wants (`Sound`). A pass that has not come to it yet still will, or
  leaves a record nobody can rest on (`ToPush`, `ToSweep`), and what a finalizer
  leaves behind is what a remaining record tells of (`SweepTold`). It is "one of
  them" because configurations take turns: the one that pushed last is right, and
  when all find their records unchanged all records want the same tables. Two
  hypotheses: a fingerprint is never equal to "no record" (`NeverNone`; the code
  compares a digest with the empty string), and configurations with and
  without the RDS proxy do not share a cluster (`Alike`). Without the second a
  record that leaves the plugin's tables alone could be the only one that is
  right.

`ClusterPassProofs`, for all specs, names, durations and events:

- `CredentialsStay`: `Spec => CredentialsKept`, from `CredentialTypes`.
- `TemplateBacked`: `Spec => []NeverDangling`. `BackedInv` adds that what is
  complete now is in `proven`, and that what the pass under way is about to mount
  is too.
- `ServingLasts`: `Spec => []ServingOutlivedByCA`, for all lives and all edits of
  them. `Lasting` adds that identities of CAs are never used twice and that the CA a
  pass holds between its two writes lasts for the certificate it is about to sign,
  unless that one is longer than any CA's. All that is assumed of lives
  (`LifeAssumption`) is what admission enforces, `renewBefore < duration`. The
  exception is real: `ClusterLongLife` reaches it.
- `TypeCorrect`: `Spec => []TypeOK`, from `TypeInv`, which follows passwords, mounts
  and backends from the step that resolves them to the one that uses them.
- `ConditionTruthful`: `Spec => []HealthyMeansApplied`. A pass that is about to clear
  `Degraded` has written everything the present spec asks for. `HealthyInv` says
  what the pass knows at each step: as long as its object has not been edited it works
  for the present spec (`FreshSpec`), it mounts what that spec asks for unless it has
  recorded an error (`Found`), and each object it is past is as it wrote it
  (`Written`): nobody else writes those. An edit makes the pass outdated, and its
  status is not stored.
- `RestLasts`: `Spec => RestIsKept`. `AtRest` describes a fixed point: credentials, TLS
  material and objects are as the spec says and no certificate is due
  (`InPlace`), and so is what the pass under way has found so far (`PassInPlace`).
  Each step of a pass finds what it would write and writes it as it is; without an
  event nobody else changes what is in place. `ComesToRest` says that such a state
  is reached, under fairness; this says that it lasts, without. It is where
  renewal windows, kept node ports and completed keys have to agree exactly: a
  CA or certificate that lasts just the window is kept.

Assumed of the constants: `None`, `Off` and `Broken` are none of the names, bundles
and StatefulSets, contents come from `Bundle`, budgets are natural numbers.

The newer modules name theirs (`StartAssumption`, `NamesAssumption`,
`NoneAssumption`, ...); TLC evaluates
all of them in the runs.

Before a proof, TLC checked the invariant it needs on instances of the runs'
size: `WakeInv` (301,980 states), `VarsInv` (107,216), `HonestInv` (358,881), `WindowInv`
(444,217), `HealthyInv` (246,717), `TableInv` (three
instances, up to 11,334,431 states, with four events). The last one found that
the exceptions of `SkipOnlyWhenAsserted` were too few, see `Told` above: two events, as in the run, do not
reach the case, four do.

Every safety property a passing run checks has a theorem. Only model-checked are
the properties under fairness, which TLAPS does not reach (`StructureConverges`,
both `Converges`, `ServedConverges`, `DeletionEnds`, `NonWedging`, `Settles`,
`ComesToRest`, `DeletionCompletes`), and what the recursive `replicationClasses`
computes, which would take an induction over the list of pairs; `PushConverges` does
not depend on it.

## Not modelled

- Text: rendering of the cnf and of objects, the cnf scanner, SQL quoting, RDS
  request signing and XML. They have no state; the models take what they separate
  (structure and values of a cnf, keys and rows of a table).
- Cryptography of `tlsutil`: a certificate is its issuer, names, life and end.
- The admin client and the TLS dialler beyond the outcome of a dial.
- Conditions for display: `Available`, `Progressing`, `ClusterFound`, the summaries
  and the per-replica list.
- `DefaultedSpec`, admission rules, API types and generated code: declarations.
- The manager's flags and wiring; that each controller has one worker is what the
  modules rely on.
- Charts and kustomize manifests.
- Of the hazards listed, four have no property: a structural edit that is
  interrupted and taken back, a restart fallback for a content that was
  restarted for before, a configuration with plugin beside one without, and the Certificate left when
  `spec.tls` is removed altogether. `PROJECT.json` says why for each.
