------------------------------ MODULE ConfigSync ------------------------------
(***************************************************************************)
(* The ProxySQLConfig controller (proxysqlconfig_controller.go,            *)
(* rds_reconcile.go): the configurations that target one cluster are       *)
(* merged, pushed to every ready pod, read back, and recorded in the       *)
(* status of each configuration; a deleted configuration is taken out by   *)
(* its finalizer.  The controller has one worker, so passes do not         *)
(* overlap, but everything else moves while a pass is under way: the       *)
(* configurations and their Secrets are edited, pods restart and move,     *)
(* ProxySQL's monitor moves servers, connections fail, the operator        *)
(* crashes.                                                                *)
(*                                                                         *)
(* A pass reads everything it needs at its start, except where the code    *)
(* reads later.  The conditions ClusterFound and Progressing, counts for   *)
(* display and messages are left out.  SHA-256 is taken to be injective.   *)
(* spec.version is part of a spec, and changes only with the generation.   *)
(***************************************************************************)
EXTENDS Tables, RDSProxy, Functions

CONSTANTS
    Configs,        \* the configurations, numbered in the order of their names
    Specs,          \* Specs[c]: the specs configuration c may have
    Groups,         \* the sets of configurations that may exist together
    Pods,           \* the replicas
    Fragile,        \* the replicas to which something may happen
    Addrs,          \* pod addresses, natural numbers
    Passwords,      \* values of the Secret that holds the users' passwords
    MonitorKeys,    \* the operator-owned monitor variables
    Peers,          \* proxysql_servers as derived from the StatefulSet
    PgsqlEnabled,   \* whether the cluster listens for PostgreSQL clients
    AccessKinds,    \* the states of the objects a pass depends on, besides "ok"
    NativeFaults,   \* sets of admin statements that may fail in one push
    ProxyFaults,    \* sets of RDS API calls that may fail in one cycle
    Wiped,          \* tables someone may empty behind the operator's back
    FreshProxy,     \* the state of a proxy after the plugin's bootstrap
    Starts,         \* a configuration that is applied at the start, and its spec
    At,             \* the addresses of the pods at the start
    FirstPassword,  \* the password at the start
    None,           \* no value, nothing recorded
    Events,         \* what users may do and what may go wrong
    MaxEvents       \* bound on that

\* "noCluster", "noSecret", "badSecret": cluster or admin Secret; "noTLS": no
\* TLS configuration to dial with; "rdsAbsent": bootstrap ConfigMap or RDS
\* credentials not found; "rdsBad": any other obstacle to reading them.
Accesses == {"ok", "noCluster", "noSecret", "badSecret", "noTLS",
             "rdsAbsent", "rdsBad"}

ASSUME OrderAssumption == Configs \subseteq Nat /\ Addrs \subseteq Nat
ASSUME AccessAssumption == AccessKinds \subseteq Accesses
ASSUME NoneAssumption == None \notin Passwords /\ None \notin Addrs
ASSUME BoundAssumption == MaxEvents \in Nat
ASSUME PodsAssumption == IsFiniteSet(Pods) /\ Fragile \subseteq Pods

VARIABLES
    cfgs,       \* the ProxySQLConfig objects
    due,        \* due[c]: the resync interval has passed since LastSyncTime
    password,   \* the value in the users' Secret, or None
    access,     \* what keeps passes from reaching the cluster
    pods,       \* the ProxySQL processes
    work,       \* the pass under way
    loose,      \* pods a record may be wrong about, see SkipOnlyWhenAsserted
    events      \* number of events so far

vars == <<cfgs, due, password, access, pods, work, loose, events>>

----------------------------------------------------------------------------
(* Objects. *)

NoStatus == [hash |-> None, synced |-> 0, gen |-> 0,
             ready |-> FALSE, degraded |-> FALSE]

Absent == [phase |-> "absent", fin |-> FALSE, skip |-> FALSE, gen |-> 0,
           spec |-> None, status |-> NoStatus]

Created(s) == [Absent EXCEPT !.phase = "live", !.gen = 1, !.spec = s]

Idle == [pc |-> "idle", c |-> None, gen |-> 0, status |-> NoStatus,
         want |-> None, rds |-> None, eps |-> Empty, see |-> {}, push |-> {},
         done |-> {}, ok |-> {}, fresh |-> TRUE, told |-> TRUE]

NoTables == [s \in Sections |-> Empty]

\* A process that has never been configured, listening at an address.
Blank(a) == [addr |-> a, ready |-> FALSE, mem |-> NoTables, rt |-> NoTables,
             disk |-> NoTables, rds |-> FreshProxy]

----------------------------------------------------------------------------
(* What a pass reads. *)

UserTables == {"mysql_users", "pgsql_users"}

\* Monitor credentials belong to the operator.
OperatorOwned(spec) ==
    \A v \in Domains : DOMAIN spec.tables[v] \cap MonitorKeys = {}

resolveSecretKey(row) == [attrs |-> row, password |-> password]

\* The tables one spec asks for, or None.
configToDesired(spec) ==
    IF \/ ~OperatorOwned(spec)
       \/ /\ password = None
          /\ \E t \in UserTables : DOMAIN spec.tables[t] # {}
    THEN None
    ELSE [s \in DesiredSections |->
            IF s \in UserTables
            THEN [u \in DOMAIN spec.tables[s] |->
                    resolveSecretKey(spec.tables[s][u])]
            ELSE spec.tables[s]]

LiveConfigs == {c \in Configs : cfgs[c].phase = "live"}

\* Rows for the peers unless a configuration brings its own.
autoPopulated(d) ==
    IF DOMAIN d["proxysql_servers"] # {} THEN d
    ELSE [d EXCEPT !["proxysql_servers"] = Peers]

\* What all configurations but one ask for together, or None if the part of
\* one of them cannot be resolved.
buildUnionedDesired(without) ==
    LET ds == [c \in LiveConfigs \ {without} |-> configToDesired(cfgs[c].spec)]
    IN  IF \E c \in DOMAIN ds : ds[c] = None THEN None
        ELSE autoPopulated(Union(ds))

\* The peers stay when the operator provided them; variables always stay.
cleanupDesired(spec) ==
    LET d == [s \in DesiredSections |-> Empty]
    IN  IF DOMAIN spec.tables["proxysql_servers"] = {}
        THEN [d EXCEPT !["proxysql_servers"] = Peers] ELSE d

RDSError(why) == [error |-> why]
RDSErrors == {RDSError("rdsAbsent"), RDSError("rdsBad")}

\* The intent for the AWS plugin; None without plugin, or the obstacle.
buildRDSReconcileState(spec) ==
    IF spec.plugin = None THEN None
    ELSE IF FromSpec(spec.plugin, None) = None THEN RDSError("rdsBad")
    ELSE IF access \in {"rdsAbsent", "rdsBad"} THEN RDSError(access)
    ELSE FromSpec(spec.plugin, None)

Endpoints ==
    LET up == {p \in Pods : pods[p].ready} IN [p \in up |-> pods[p].addr]

combinedSyncFingerprint(want, rds, eps) ==
    [target |-> <<want, rds>>, at |-> {eps[p] : p \in DOMAIN eps}]

pgsqlMismatch(spec) ==
    /\ ~PgsqlEnabled
    /\ \E t \in {"pgsql_servers", "pgsql_users", "pgsql_query_rules"} :
            DOMAIN spec.tables[t] # {}

----------------------------------------------------------------------------
(* Events: edits by users, changes of the environment, and faults. *)

Event(k) == k \in Events /\ events < MaxEvents /\ events' = events + 1

\* A fault of kind k, or none.
Perhaps(bad, k) == IF bad THEN Event(k) ELSE UNCHANGED events

\* A pass reads the Secret, the time, and whether objects and pods are there
\* at these moments only; what changes in between shows at the next of them,
\* and is left until then.
Reading == work.pc \in {"idle", "clear", "union"}

\* A write by someone else: the pass under way for c will find a conflict.
Outdated(c) == [work EXCEPT !.fresh = @ /\ work.c # c]

----------------------------------------------------------------------------
(* One replica. *)

\* The pod that answers at the address of an endpoint, if any.
Answering(p) == {q \in Pods : pods[q].addr = work.eps[p]}

\* The replica that comes next: they go in the order of their addresses.
First(S) == {p \in S : \A q \in S : work.eps[p] <= work.eps[q]}

\* What observeReplica calls converged, of tables and proxy x.
Converged(x, target) ==
    /\ Drift(target[1], IF target[2] = None THEN x.rt
                        ELSE NativeRuntimeWithAWSDBProxy(x.rt)) = {}
    /\ target[2] # None => RDSDrift(target[2], x.rds) = {}

Target == <<work.want, work.rds>>
RunningAt(q) == [rt |-> pods[q].rt, rds |-> pods[q].rds]

\* An unreachable replica, or one that cannot be read, has not converged.
observeReplica(p, reachable) ==
    \E q \in Answering(p) : reachable /\ Converged(RunningAt(q), Target)

\* The tables of process x after a push of d; F may say that dialing fails.
Pushed(x, d, aws, F) ==
    IF <<"DIAL">> \in F THEN x
    ELSE LET y == SyncWithAWSDBProxy(d, aws, F,
                        [mem |-> x.mem, rt |-> x.rt, disk |-> x.disk])
         IN  [x EXCEPT !.mem = y.mem, !.rt = y.rt, !.disk = y.disk]

PushFails(d, aws, F) == <<"DIAL">> \in F \/ SyncFails(d, aws, F)

\* One apply cycle on process x: clear the proxy, push the tables, apply the
\* proxy, up to the first step that fails.  F, G, H are what fails in each.
Cycle(x, F, G, H) ==
    IF work.rds = None THEN Pushed(x, work.want, FALSE, F)
    ELSE LET cleared == [x EXCEPT !.rds = ClearMutable(@, G)]
             pushed == Pushed(cleared, work.want, TRUE, F)
         IN  IF ClearFails(x.rds, G) THEN cleared
             ELSE IF PushFails(work.want, TRUE, F) THEN pushed
             ELSE [pushed EXCEPT !.rds = Apply(@, work.rds, H)]

CycleFails(x, F, G, H) ==
    \/ PushFails(work.want, work.rds # None, F)
    \/ /\ work.rds # None
       /\ ClearFails(x.rds, G) \/ ApplyFails(work.rds, H)

----------------------------------------------------------------------------
(* The end of a pass. *)

\* What was pushed without a record to show for it may be wrong.
PassEnds(recorded) ==
    /\ work' = Idle
    /\ loose' = IF recorded THEN loose ELSE loose \cup work.done

\* The status written back, unless the object has changed since it was read
\* or the write fails; then the pass is repeated.
SetStatus(st, recorded, lost) ==
    LET written == work.fresh /\ ~lost
    IN  /\ Perhaps(lost, "status")
        /\ cfgs' = IF written THEN [cfgs EXCEPT ![work.c].status = st] ELSE cfgs
        /\ due' = [due EXCEPT ![work.c] = @ /\ ~(written /\ recorded)]
        /\ PassEnds(written /\ recorded)
        /\ UNCHANGED <<password, access, pods>>

----------------------------------------------------------------------------
(* Reconcile, for a configuration that is not being deleted. *)

\* What a pass for configuration c reads before it reaches the replicas.
Reads(c) == [union |-> buildUnionedDesired(None),
             rds |-> buildRDSReconcileState(cfgs[c].spec),
             eps |-> Endpoints]

\* What stops it.
Blocked(r) ==
    \/ access \in {"noCluster", "noSecret", "badSecret", "noTLS"}
    \/ r.union = None
    \/ r.rds \in RDSErrors
    \/ DOMAIN r.eps = {}

\* RDS errors, and tables for a protocol that is off, show as degraded; the
\* mismatch is noted once the cluster is found.
BlockedDegraded(c, r) ==
    \/ cfgs[c].status.degraded
    \/ access # "noCluster" /\ pgsqlMismatch(cfgs[c].spec)
    \/ /\ access \notin {"noCluster", "noSecret", "badSecret"}
       /\ r.union # None
       /\ r.rds \in RDSErrors

\* The finalizer is added before anything else, Ready is taken back; that
\* write is not checked and may be lost.
BeginBlocked(c) ==
    /\ work.pc = "idle"
    /\ cfgs[c].phase = "live"
    /\ LET r == Reads(c)
       IN  /\ Blocked(r)
           /\ \E lost \in BOOLEAN :
                /\ Perhaps(lost, "status")
                /\ cfgs' = [cfgs EXCEPT
                        ![c].fin = TRUE,
                        ![c].status =
                            IF lost THEN @
                            ELSE [@ EXCEPT !.ready = FALSE,
                                           !.degraded = BlockedDegraded(c, r)]]
    /\ UNCHANGED <<due, password, access, pods, work, loose>>

\* What this pass is to bring to the replicas.
Wanted(r) ==
    IF r.rds = None THEN r.union ELSE NativeDesiredWithAWSDBProxy(r.union)

\* Nothing to be seen has changed since the last record.
unchanged(c, r) ==
    /\ cfgs[c].status.hash # None
    /\ cfgs[c].status.synced = Cardinality(DOMAIN r.eps)
    /\ cfgs[c].status.gen = cfgs[c].gen
    /\ cfgs[c].status.hash = combinedSyncFingerprint(Wanted(r), r.rds, r.eps)

\* A pass that gets to the replicas looks first if nothing has changed, and
\* pushes to all of them otherwise.  Nothing is done if it is not yet due.
Begin(c) ==
    /\ work.pc = "idle"
    /\ cfgs[c].phase = "live"
    /\ LET r == Reads(c)
           same == unchanged(c, r)
       IN  /\ ~Blocked(r)
           /\ same => due[c]
           /\ work' = [Idle EXCEPT
                !.pc = IF same THEN "look" ELSE "settle",
                !.c = c, !.gen = cfgs[c].gen, !.status = cfgs[c].status,
                !.want = Wanted(r), !.rds = r.rds, !.eps = r.eps,
                !.see = IF same THEN DOMAIN r.eps ELSE {},
                !.push = IF same THEN {} ELSE DOMAIN r.eps]
    /\ cfgs' = [cfgs EXCEPT ![c].fin = TRUE]
    /\ UNCHANGED <<due, password, access, pods, loose, events>>

\* Faulty: drift is noted, and left alone.
LookOnly(push) == [work EXCEPT !.pc = "clean", !.see = {}]

\* Where a pass goes once it has seen the replicas it had to see.
AfterLook(push) ==
    IF push = {} THEN [work EXCEPT !.pc = "clean", !.see = {}]
    ELSE [work EXCEPT !.pc = "settle", !.see = DOMAIN work.eps \ push,
                      !.push = push]

\* One replica is read.  A first look collects those that need a push; the
\* others are read once more before the push, the pushed ones after theirs.
Observe ==
    /\ work.pc \in {"look", "settle"}
    /\ work.see # {}
    /\ \E p \in First(work.see), reachable \in BOOLEAN :
        LET seen == observeReplica(p, reachable)
            rest == work.see \ {p}
            push == IF seen THEN work.push ELSE work.push \cup {p}
        IN  /\ Perhaps(~reachable, "read")
            /\ work' = IF work.pc = "settle"
                       THEN [work EXCEPT !.see = rest,
                                !.ok = IF seen THEN @ \cup {p} ELSE @]
                       ELSE IF rest = {} THEN AfterLook(push)
                       ELSE [work EXCEPT !.see = rest, !.push = push]
    /\ UNCHANGED <<cfgs, due, password, access, pods, loose>>

\* Faulty: a push that succeeds is not read back.
applyUnverified ==
    /\ work.pc = "settle" /\ work.see = {} /\ work.push # {}
    /\ \E p \in First(work.push),
          F \in NativeFaults, G \in ProxyFaults, H \in ProxyFaults :
        /\ Perhaps(F # {} \/ G # {} \/ H # {}, "push")
        /\ \A q \in Answering(p) : pods' = [pods EXCEPT ![q] = Cycle(@, F, G, H)]
        /\ Answering(p) = {} => UNCHANGED pods
        /\ loose' = loose \ Answering(p)
        /\ work' = [work EXCEPT !.push = @ \ {p},
                                !.done = @ \cup Answering(p),
                                !.ok = @ \cup {p}]
    /\ UNCHANGED <<cfgs, due, password, access>>

\* The replicas to be pushed get the cycle one after the other; one that goes
\* through is read back next.
applyReplica ==
    /\ work.pc = "settle" /\ work.see = {} /\ work.push # {}
    /\ \E p \in First(work.push),
          F \in NativeFaults, G \in ProxyFaults, H \in ProxyFaults :
        LET bad == \E q \in Answering(p) : CycleFails(pods[q], F, G, H)
            good == Answering(p) # {} /\ ~bad
        IN  /\ work.rds = None => G = {} /\ H = {}
            /\ Perhaps(F # {} \/ G # {} \/ H # {}, "push")
            /\ pods' = [q \in Pods |-> IF q \in Answering(p)
                                       THEN Cycle(pods[q], F, G, H)
                                       ELSE pods[q]]
            /\ loose' = IF good THEN loose \ Answering(p)
                        ELSE loose \cup Answering(p)
            /\ work' = [work EXCEPT !.push = @ \ {p},
                                    !.done = @ \cup Answering(p),
                                    !.see = IF good THEN {p} ELSE {}]
    /\ UNCHANGED <<cfgs, due, password, access>>

\* All replicas are dealt with: the record of a complete push, or the note of
\* an incomplete one.
Finish ==
    /\ work.pc = "settle" /\ work.see = {} /\ work.push = {}
    /\ LET complete == work.ok = DOMAIN work.eps
           applied == [hash |-> combinedSyncFingerprint(work.want, work.rds,
                                                        work.eps),
                       synced |-> Cardinality(DOMAIN work.eps),
                       gen |-> work.gen, ready |-> TRUE,
                       degraded |-> pgsqlMismatch(cfgs[work.c].spec)]
           partial == [work.status EXCEPT !.gen = work.gen,
                                          !.synced = Cardinality(work.ok),
                                          !.ready = FALSE, !.degraded = TRUE]
       IN  \E lost \in BOOLEAN :
            SetStatus(IF complete THEN applied ELSE partial, complete, lost)

\* No replica needs a push: the check counts as one.
FinishClean ==
    /\ work.pc = "clean"
    /\ \E lost \in BOOLEAN :
        SetStatus([work.status EXCEPT
                    !.synced = Cardinality(DOMAIN work.eps),
                    !.degraded = @ \/ pgsqlMismatch(cfgs[work.c].spec)],
                  TRUE, lost)

----------------------------------------------------------------------------
(* The finalizer. *)

\* Faulty: the object stays behind without its finalizer.
ReleaseHalf(c) == [cfgs EXCEPT ![c].fin = FALSE]

\* The object goes with its finalizer.
ReleaseNow(c) == [cfgs EXCEPT ![c] = Absent]

\* Cleanup is impossible, so deletion must not wait for it.
NeverWedge == access \in {"noCluster", "noSecret", "badSecret"}

\* Released without cleanup.
FinalizeSkip(c) ==
    /\ work.pc = "idle"
    /\ cfgs[c].phase = "deleting"
    /\ cfgs[c].skip \/ NeverWedge
    /\ cfgs' = ReleaseNow(c)
    /\ due' = [due EXCEPT ![c] = TRUE]
    /\ loose' = Pods
    /\ UNCHANGED <<password, access, pods, work, events>>

\* Held while there is no way to dial, no ready pod, or an obstacle to
\* clearing the proxy; absent credentials only mean it is not cleared.
BeginFinalize(c) ==
    /\ work.pc = "idle"
    /\ cfgs[c].phase = "deleting"
    /\ ~cfgs[c].skip /\ ~NeverWedge
    /\ access # "noTLS"
    /\ DOMAIN Endpoints # {}
    /\ buildRDSReconcileState(cfgs[c].spec) # RDSError("rdsBad")
    /\ LET rds == buildRDSReconcileState(cfgs[c].spec)
           clear == rds # None /\ rds # RDSError("rdsAbsent")
       IN  work' = [Idle EXCEPT
                !.pc = IF clear THEN "clear" ELSE "union", !.c = c,
                !.eps = Endpoints,
                !.see = IF clear THEN DOMAIN Endpoints ELSE {}]
    /\ UNCHANGED <<cfgs, due, password, access, pods, loose, events>>

\* Proxies are cleared one after the other, up to the first failure.
FinalizeClear ==
    /\ work.pc = "clear"
    /\ \E p \in First(work.see), G \in ProxyFaults :
        LET rest == work.see \ {p}
            bad == \/ Answering(p) = {}
                   \/ \E q \in Answering(p) : ClearFails(pods[q].rds, G)
        IN  /\ Perhaps(G # {}, "push")
            /\ pods' = [q \in Pods |-> IF q \in Answering(p)
                          THEN [pods[q] EXCEPT !.rds = ClearMutable(@, G)]
                          ELSE pods[q]]
            /\ work' = IF bad THEN Idle
                       ELSE [work EXCEPT !.see = rest,
                                !.pc = IF rest = {} THEN "union" ELSE "clear"]
    /\ UNCHANGED <<cfgs, due, password, access, loose>>

\* Faulty: everything is cleaned up although other configurations remain.
RemainingNone(c) == cleanupDesired(cfgs[c].spec)

\* What the replicas are left with: the union of the other configurations,
\* or nothing if there are none or their union cannot be built.
Remaining(c) ==
    LET union == buildUnionedDesired(c)
    IN  IF LiveConfigs \ {c} = {} \/ union = None
        THEN cleanupDesired(cfgs[c].spec) ELSE union

\* Faulty: deletion waits until the union of the others can be built.
FinalizeUnionOrRetry ==
    /\ work.pc = "union"
    /\ work' = IF buildUnionedDesired(work.c) = None THEN Idle
               ELSE [work EXCEPT !.pc = "sweep", !.want = Remaining(work.c),
                                 !.push = DOMAIN work.eps]
    /\ loose' = loose \cup (Pods \ DOMAIN work.eps)
    /\ UNCHANGED <<cfgs, due, password, access, pods, events>>

\* For loose only: some other configuration has recorded this union.
Told(union) ==
    /\ union # None
    /\ \E c \in LiveConfigs :
        LET hash == cfgs[c].status.hash
        IN  /\ hash # None
            /\ hash.target[1] = Wanted([union |-> union, rds |-> hash.target[2]])

FinalizeUnion ==
    /\ work.pc = "union"
    /\ work' = [work EXCEPT !.pc = "sweep", !.want = Remaining(work.c),
                            !.push = DOMAIN work.eps,
                            !.told = Told(buildUnionedDesired(work.c))]
    /\ loose' = loose \cup (Pods \ DOMAIN work.eps)
    /\ UNCHANGED <<cfgs, due, password, access, pods, events>>

\* Every replica is attempted, with a full push.
FinalizePush ==
    /\ work.pc = "sweep" /\ work.push # {}
    /\ \E p \in First(work.push), F \in NativeFaults :
        LET good == Answering(p) # {} /\ ~PushFails(work.want, FALSE, F)
        IN  /\ Perhaps(F # {}, "push")
            /\ pods' = [q \in Pods |-> IF q \in Answering(p)
                            THEN Pushed(pods[q], work.want, FALSE, F)
                            ELSE pods[q]]
            /\ loose' = IF good THEN loose \ Answering(p)
                        ELSE loose \cup Answering(p)
            /\ work' = [work EXCEPT !.push = @ \ {p},
                                    !.done = @ \cup Answering(p),
                                    !.ok = IF good THEN @ \cup {p} ELSE @]
    /\ UNCHANGED <<cfgs, due, password, access>>

\* The finalizer goes once every replica was swept.
FinalizeRelease ==
    /\ work.pc = "sweep" /\ work.push = {}
    /\ \E lost \in BOOLEAN :
        LET released == work.ok = DOMAIN work.eps /\ work.fresh /\ ~lost
        IN  /\ Perhaps(lost, "status")
            /\ cfgs' = IF released THEN ReleaseNow(work.c) ELSE cfgs
            /\ due' = [due EXCEPT ![work.c] = @ \/ released]
            /\ PassEnds(released /\ work.told)
    /\ UNCHANGED <<password, access, pods>>

----------------------------------------------------------------------------
(* Users. *)

\* A new configuration, or one that was deleted before.
CreateConfig(c) ==
    /\ Event("create")
    /\ cfgs[c].phase = "absent"
    /\ \E G \in Groups : {d \in Configs : cfgs[d].phase # "absent"} \cup {c} \subseteq G
    /\ \E s \in Specs[c] : cfgs' = [cfgs EXCEPT ![c] = Created(s)]
    /\ UNCHANGED <<due, password, access, pods, work, loose>>

EditConfig(c) ==
    /\ Event("spec")
    /\ cfgs[c].phase = "live"
    /\ \E s \in Specs[c] \ {cfgs[c].spec} :
        cfgs' = [cfgs EXCEPT ![c].spec = s, ![c].gen = @ + 1]
    /\ work' = Outdated(c)
    /\ UNCHANGED <<due, password, access, pods, loose>>

\* Without a finalizer the object is gone at once.
DeleteConfig(c) ==
    /\ Event("delete")
    /\ cfgs[c].phase = "live"
    /\ cfgs' = IF cfgs[c].fin THEN [cfgs EXCEPT ![c].phase = "deleting"]
               ELSE ReleaseNow(c)
    /\ work' = Outdated(c)
    /\ UNCHANGED <<due, password, access, pods, loose>>

AnnotateSkip(c) ==
    /\ Event("skip")
    /\ cfgs[c].phase = "deleting" /\ ~cfgs[c].skip
    /\ cfgs' = [cfgs EXCEPT ![c].skip = TRUE]
    /\ work' = Outdated(c)
    /\ UNCHANGED <<due, password, access, pods, loose>>

\* The Secret is rotated or removed; a removed one may come back.
ChangeSecret ==
    /\ Reading
    /\ \E v \in (Passwords \cup {None}) \ {password} : password' = v
    /\ IF password = None THEN UNCHANGED events ELSE Event("secret")
    /\ UNCHANGED <<cfgs, due, access, pods, work, loose>>

\* An obstacle turns up, or goes away.
ChangeAccess ==
    /\ Reading
    /\ \/ access = "ok" /\ access' \in AccessKinds /\ Event("access")
       \/ access # "ok" /\ access' = "ok" /\ UNCHANGED events
    /\ UNCHANGED <<cfgs, due, password, pods, work, loose>>

----------------------------------------------------------------------------
(* Time, pods and the operator process. *)

\* Configuration c finds nothing to do but to wait for the resync.
Quiet(c) ==
    /\ cfgs[c].phase = "live"
    /\ LET r == Reads(c) IN ~Blocked(r) /\ unchanged(c, r)

\* The resync interval has passed since the last record.  This is looked at
\* only when nothing has changed.
Clock(c) ==
    /\ work.pc = "idle"
    /\ Quiet(c) /\ ~due[c]
    /\ due' = [due EXCEPT ![c] = TRUE]
    /\ UNCHANGED <<cfgs, password, access, pods, work, loose, events>>

\* ProxySQL's monitor moves a server to the other hostgroup of its pair.
Moved(servers, k, to) ==
    [x \in (DOMAIN servers \ {k}) \cup {to} |->
        IF x = to THEN servers[k] ELSE servers[x]]

MonitorMove(q) ==
    /\ Event("monitor")
    /\ LET servers == pods[q].rt["mysql_servers"]
           pairs == pods[q].rt["mysql_replication_hostgroups"]
       IN  \E k \in DOMAIN servers, w \in DOMAIN pairs :
            LET to == <<IF k[1] = w THEN pairs[w].reader ELSE w, k[2]>>
            IN  /\ k[1] \in {w, pairs[w].reader}
                /\ pods' = [pods EXCEPT ![q].rt["mysql_servers"] =
                                Moved(servers, k, to)]
    /\ UNCHANGED <<cfgs, due, password, access, work, loose>>

\* Someone empties a table over the admin port.
Wipe(q) ==
    /\ Event("wipe")
    /\ \E t \in Wiped :
        /\ pods[q].rt[t] # Empty
        /\ pods' = [pods EXCEPT ![q].mem[t] = Empty, ![q].rt[t] = Empty]
    /\ loose' = loose \cup {q}
    /\ UNCHANGED <<cfgs, due, password, access, work>>

\* A process starts from its disk, with the proxy as it was or as bootstrapped.
Started(x) ==
    {[x EXCEPT !.ready = FALSE, !.mem = x.disk,
               !.rt = [s \in Sections |-> Running(s, x.disk[s])], !.rds = r] :
        r \in {x.rds, FreshProxy}}

RestartPod(q) ==
    /\ Event("restart")
    /\ \E x \in Started(pods[q]) : pods' = [pods EXCEPT ![q] = x]
    /\ loose' = loose \cup {q}
    /\ UNCHANGED <<cfgs, due, password, access, work>>

\* The addresses some record is about, or will be.
Recorded ==
    UNION ({Range(work.eps)} \cup
           {cfgs[c].status.hash.at : c \in {c \in Configs :
                                                cfgs[c].status.hash # None}})

\* A pod is replaced; it keeps its volume if it has one, and its new address
\* may be one that was in use before.
ReplacePod(q) ==
    /\ Event("replace")
    /\ \E a \in Addrs \ {pods[p].addr : p \in Pods \ {q}} :
        /\ \E x \in Started(pods[q]) \cup {Blank(a)} :
                pods' = [pods EXCEPT ![q] = [x EXCEPT !.addr = a]]
        /\ loose' = IF a \in Recorded THEN loose \cup {q} ELSE loose \ {q}
    /\ UNCHANGED <<cfgs, due, password, access, work>>

LoseReady(q) ==
    /\ Reading
    /\ Event("flap")
    /\ pods[q].ready
    /\ pods' = [pods EXCEPT ![q].ready = FALSE]
    /\ UNCHANGED <<cfgs, due, password, access, work, loose>>

BecomeReady(q) ==
    /\ Reading
    /\ ~pods[q].ready
    /\ pods' = [pods EXCEPT ![q].ready = TRUE]
    /\ UNCHANGED <<cfgs, due, password, access, work, loose, events>>

\* The operator restarts; what it had pushed stays pushed.
Crash ==
    /\ Event("crash")
    /\ work.pc # "idle"
    /\ PassEnds(FALSE)
    /\ UNCHANGED <<cfgs, due, password, access, pods>>

----------------------------------------------------------------------------
(* The specification. *)

\* What is applied at the start is valid, and applied to fresh proxies.
StartsValid ==
    /\ FirstPassword \in Passwords
    /\ At \in [Pods -> Addrs]
    /\ IsTable(Peers)
    /\ IsProxy(FreshProxy)
    /\ FreshProxy.targets = {} /\ FreshProxy.tags = NoTags
    /\ \A i \in Starts :
        /\ i.c \in Configs /\ i.spec \in Specs[i.c]
        /\ IsConfig(i.spec.tables)
        /\ OperatorOwned(i.spec)
        /\ i.spec.plugin # None =>
            /\ FromSpec(i.spec.plugin, None) # None
            /\ IsTags(i.spec.plugin.tags)
            /\ Settable(i.spec.plugin, FreshProxy)
ASSUME StartAssumption == StartsValid

\* A fresh process at address a that got its first push.
FirstApplied(a, want, rds) ==
    [Pushed(Blank(a), want, rds # None, {}) EXCEPT
        !.ready = TRUE,
        !.rds = IF rds = None THEN @ ELSE Apply(@, rds, {})]

\* Configuration c has been applied, alone, and recorded.
AppliedInit(c, spec) ==
    LET all == autoPopulated(Union(<<configToDesired(spec)>>))
        rds == buildRDSReconcileState(spec)
        want == IF rds = None THEN all ELSE NativeDesiredWithAWSDBProxy(all)
        applied == [Created(spec) EXCEPT
                        !.fin = TRUE,
                        !.status = [hash |-> combinedSyncFingerprint(want, rds, At),
                                    synced |-> Cardinality(Pods), gen |-> 1,
                                    ready |-> TRUE,
                                    degraded |-> pgsqlMismatch(spec)]]
    IN  /\ pods = [p \in Pods |-> FirstApplied(At[p], want, rds)]
        /\ cfgs = [d \in Configs |-> IF d = c THEN applied ELSE Absent]

Init ==
    /\ password = FirstPassword
    /\ access = "ok"
    /\ \E i \in Starts : AppliedInit(i.c, i.spec)
    /\ due = [c \in Configs |-> FALSE]
    /\ work = Idle
    /\ loose = {}
    /\ events = 0

Next ==
    \/ \E c \in Configs :
        \/ Begin(c) \/ BeginBlocked(c) \/ FinalizeSkip(c) \/ BeginFinalize(c)
        \/ CreateConfig(c) \/ EditConfig(c) \/ DeleteConfig(c) \/ AnnotateSkip(c)
        \/ Clock(c)
    \/ Observe \/ applyReplica \/ Finish \/ FinishClean
    \/ FinalizeClear \/ FinalizeUnion \/ FinalizePush \/ FinalizeRelease
    \/ ChangeSecret \/ ChangeAccess
    \/ \E q \in Fragile :
        \/ MonitorMove(q) \/ Wipe(q) \/ RestartPod(q) \/ ReplacePod(q)
        \/ LoseReady(q)
    \/ \E q \in Pods : BecomeReady(q)
    \/ Crash

Spec == Init /\ [][Next]_vars

\* Configuration c needs a pass.
Pending(c) ==
    \/ /\ cfgs[c].phase = "live"
       /\ ~Blocked(Reads(c))
       /\ unchanged(c, Reads(c)) => due[c]
    \/ /\ cfgs[c].phase = "deleting"
       /\ \/ cfgs[c].skip \/ NeverWedge
          \/ /\ access # "noTLS" /\ DOMAIN Endpoints # {}
             /\ buildRDSReconcileState(cfgs[c].spec) # RDSError("rdsBad")

\* Passes end, as every call has a timeout.  Every outcome of a pass is
\* requeued and the queue is served in turn, so no configuration that needs a
\* pass waits forever.  Time passes, and pods become ready.
FairSpec ==
    /\ Spec
    /\ []<>(work.pc = "idle")
    /\ \A c \in Configs :
        /\ []<>(Pending(c) => work.c = c)
        /\ []<>(Quiet(c) => due[c])
    /\ \A q \in Pods : SF_vars(BecomeReady(q))

----------------------------------------------------------------------------
(* Properties. *)

IsTables(f) == DOMAIN f = Sections
IsDesired(d) == d = None \/ DOMAIN d = DesiredSections

\* Every variable has its type.
TypeOK ==
    /\ \A c \in Configs :
        /\ cfgs[c].phase \in {"absent", "live", "deleting"}
        /\ cfgs[c].spec \in Specs[c] \cup {None}
        /\ cfgs[c].status.synced \in 0..Cardinality(Pods)
        /\ cfgs[c].phase = "deleting" => cfgs[c].fin
    /\ due \in [Configs -> BOOLEAN]
    /\ password \in Passwords \cup {None}
    /\ access \in Accesses
    /\ \A q \in Pods :
        /\ pods[q].addr \in Addrs
        /\ IsTables(pods[q].mem) /\ IsTables(pods[q].rt) /\ IsTables(pods[q].disk)
    /\ work.pc \in {"idle", "look", "clean", "settle", "clear", "union", "sweep"}
    /\ work.pc # "idle" => cfgs[work.c].phase # "absent"
    /\ IsDesired(work.want)
    /\ work.see \cup work.push \cup work.ok \subseteq DOMAIN work.eps
    /\ loose \subseteq Pods
    /\ events \in 0..MaxEvents

\* The replicas a pass has seen converged, in its present round.
Seen ==
    CASE work.pc = "settle" -> work.ok
      [] work.pc = "look" -> DOMAIN work.eps \ (work.see \cup work.push)
      [] work.pc = "clean" -> DOMAIN work.eps
      [] OTHER -> {}

\* The pass under way as its readers may see it.
Passing ==
    IF work.pc \in {"look", "settle", "clean"}
    THEN [open |-> TRUE, owner |-> work.c, target |-> Target,
          at |-> {work.eps[p] : p \in DOMAIN work.eps},
          seen |-> {work.eps[p] : p \in Seen}]
    ELSE [open |-> FALSE, owner |-> None, target |-> None, at |-> {}, seen |-> {}]

\* The status keeps its promise (VerifiedRecord): an applied fingerprint is
\* written, and the resync clock reset, only in a pass that has read every
\* replica of that fingerprint back and found it converged since the pass
\* began, even when replicas move, fail, restart or drift meanwhile.
V == INSTANCE VerifiedRecord WITH
        Owners <- Configs,
        Satisfies <- Converged,
        NoRecord <- None,
        running <- [a \in Addrs |->
                      {RunningAt(q) : q \in {q \in Pods : pods[q].addr = a}}],
        record <- [c \in Configs |-> cfgs[c].status.hash],
        current <- [c \in Configs |-> ~due[c]],
        pass <- Passing

Promise == V!Spec

\* Nothing is being done, and no configuration thinks anything is to be done.
Resting ==
    /\ work.pc = "idle"
    /\ \A c \in Configs : cfgs[c].phase # "deleting"
    /\ \A c \in LiveConfigs : Quiet(c)

\* The short-circuit skips a push only when the tables are in place: when
\* every configuration finds its record unchanged, the admin tables of each
\* ready replica are the union of the configurations, all columns included.
\* The exceptions are the replicas in loose: those restarted or changed from
\* outside at an address of a record, and those that got a push, or missed
\* one for a deleted configuration, that no record tells of.
SkipOnlyWhenAsserted ==
    Resting =>
        \A c \in LiveConfigs :
            LET want == cfgs[c].status.hash.target[1]
                rds == cfgs[c].status.hash.target[2]
            IN  \A q \in DOMAIN Endpoints \ loose, t \in TableNames :
                    Pushes(t, rds # None) => pods[q].mem[t] = Stored(t, want[t])

\* Nothing outside the operator's control keeps it from doing its work.
Usable == access = "ok" /\ buildUnionedDesired(None) # None

\* All ready replicas run what the configurations ask for.
Matched ==
    \A c \in LiveConfigs :
        LET r == Reads(c)
        IN  /\ r.union # None /\ r.rds \notin RDSErrors
            /\ \A q \in DOMAIN r.eps : Converged(RunningAt(q), <<Wanted(r), r.rds>>)

\* Once the obstacles are gone for good, all replicas come to run the union
\* of the configurations and stay so, whatever pushes, status writes, pods
\* and operator did before, and whatever was changed behind its back.
Converges == <>[]Usable => <>[]Matched

\* Deletion is never wedged: a deleted configuration goes away once the
\* replicas can be reached and cleaned up, even if the union of the other
\* configurations cannot be built, or once it is clear that they cannot.
DeletionEnds ==
    <>[](access = "ok" \/ NeverWedge) =>
        <>[](\A c \in Configs : cfgs[c].phase # "deleting")

\* Ready=False means that the latest configuration has not reached every
\* replica: once it has for good, Ready is True again.
ReadyReturns ==
    <>[](Usable /\ Matched) => <>[](\A c \in LiveConfigs : cfgs[c].status.ready)

=============================================================================
