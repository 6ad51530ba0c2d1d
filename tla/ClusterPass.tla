----------------------------- MODULE ClusterPass -----------------------------
(***************************************************************************)
(* A whole pass of the ProxySQLCluster controller                          *)
(* (proxysqlcluster_controller.go, tls_secrets.go, rds_bootstrap.go and    *)
(* the builders): credentials are read or minted, TLS material is issued,  *)
(* validated or held, and the owned objects and the status are written one *)
(* after the other.  Users, cert-manager, the StatefulSet controller, the  *)
(* garbage collector and time act between any two steps; every call to the *)
(* API server may fail and the operator may crash.                         *)
(*                                                                         *)
(* What a changed cnf does to the pods is RestartChecksum, what a changed  *)
(* certificate does is TLSRotation; here both appear by their outcome.     *)
(* Labels, annotations, ports other than the node port and messages are    *)
(* left out.  A pass begins at any time: the informers resync.             *)
(***************************************************************************)
EXTENDS Naturals, Sequences

CONSTANTS
    Specs,          \* the specs a cluster may have
    FirstSpecs,     \* the ones it may be created with
    UserAuths,      \* the auth Secrets users bring
    Brought,        \* names of the TLS Secrets users bring
    BaseSANs,       \* the names every serving certificate has to cover
    CADuration,     \* life of the operator's CA
    MaxNow,         \* bound on time
    NodePorts,      \* ports the API server allocates from
    Events,         \* what users may do and what may go wrong: first, second...
    None

ASSUME LifeAssumption ==
    /\ CADuration \in Nat
    /\ \A spec \in Specs \cup FirstSpecs :
        /\ spec.duration \in Nat /\ spec.renewBefore \in Nat
        /\ spec.renewBefore < spec.duration
ASSUME EventAssumption == Events \in Seq(SUBSET STRING) /\ MaxNow \in Nat
ASSUME PortAssumption == NodePorts \subseteq Nat \ {0} /\ NodePorts # {}

VARIABLES
    cluster,    \* the ProxySQLCluster object
    auth,       \* data of the auth Secret, or None
    cached,     \* the operator's cache has the auth Secret
    rds,        \* the RDS API credentials: keys and file, or None
    bootstrap,  \* the AWS bootstrap ConfigMap is as it must be
    secrets,    \* the Secrets with TLS material
    owned,      \* the objects the controller writes
    live,       \* status of the StatefulSet: ready pods, rollout complete
    now,        \* time
    minted,     \* number of random values so far
    proven,     \* TLS Secrets that have been complete at some time
    work,       \* the pass under way
    events      \* number of events so far

world == <<cluster, auth, cached, rds, bootstrap, secrets, live, now>>
vars == <<cluster, auth, cached, rds, bootstrap, secrets, owned, live, now,
          minted, proven, work, events>>

----------------------------------------------------------------------------
(* Values. *)

PasswordKeys == {"admin", "radmin", "monitor"}
AuthKeys == PasswordKeys \cup {"password"}
SecretNames == {"tls", "ca"} \cup Brought

\* Users name Secrets of theirs; the operator's own are not among them.
ASSUME NamesAssumption ==
    /\ {"tls", "ca"} \cap Brought = {}
    /\ \A spec \in Specs \cup FirstSpecs :
        /\ spec.tier = "user" => spec.secret \in SecretNames
        /\ spec.backend # None =>
            /\ spec.backend.ca \in SecretNames
            /\ spec.backend.client # None => spec.backend.client \in SecretNames
ASSUME CredentialsAssumption ==
    /\ UserAuths \subseteq [AuthKeys -> Nat]
    /\ None \notin [AuthKeys -> Nat] /\ None \notin [keys : Nat, file : Nat]

\* A Secret with TLS material: whether it has its keys, who wrote it, the CA
\* of its certificate, the names on it, how long it was issued for and its end.
Material(by, ca, sans, notBefore, life) ==
    [full |-> TRUE, by |-> by, ca |-> ca, sans |-> sans, life |-> life,
     notAfter |-> notBefore + life]
Materials == [full : BOOLEAN, by : {"self", "issuer", "user"}, ca : Nat,
              sans : SUBSET STRING, life : Nat, notAfter : Nat]

SANsFor(spec) == BaseSANs \cup spec.sans

\* What is asked of cert-manager.
Certificate(spec) == [sans |-> SANsFor(spec), duration |-> spec.duration,
                      renewBefore |-> spec.renewBefore]

ASSUME MaterialAssumption ==
    /\ None \notin Materials
    /\ None \notin [sans : SUBSET STRING, duration : Nat, renewBefore : Nat]
    /\ BaseSANs \subseteq STRING
    /\ \A spec \in Specs \cup FirstSpecs :
        spec.sans \subseteq STRING /\ spec.replicas \in Nat

\* None is no owner, no reason and no external Service.
ASSUME NoneAssumption ==
    /\ None \notin {"ours", "ExternalServiceError", "TLSSecretError"}
    /\ \A spec \in Specs \cup FirstSpecs : spec.ext # None =>
        /\ spec.ext.port \in Nat
        /\ None \notin [ours : {TRUE}, type : {spec.ext.type}, ingress : BOOLEAN,
                        port : Nat]

NoStatus == [phase |-> "Pending", degraded |-> None, paused |-> FALSE,
             monitored |-> TRUE, external |-> None]

Nothing == [cnf |-> None, legacy |-> None, svc |-> FALSE, ext |-> None,
            sts |-> None, pdb |-> None, monitor |-> None, cert |-> None]

Idle == [pc |-> "idle", spec |-> None, fresh |-> TRUE, pw |-> None,
         status |-> NoStatus, tls |-> FALSE, mount |-> None, backend |-> None,
         ca |-> None, extErr |-> FALSE, tlsErr |-> FALSE, rotErr |-> FALSE]

----------------------------------------------------------------------------
(* Events, and how a pass goes on. *)

Event(k) ==
    /\ events < Len(Events)
    /\ k \in Events[events + 1]
    /\ events' = events + 1
Perhaps(bad, k) == IF bad THEN Event(k) ELSE UNCHANGED events

At(pc) == work.pc = pc
Goto(pc) == work' = [work EXCEPT !.pc = pc]

\* The pass ends with an error, and is repeated.
Fail == work' = Idle

\* The status as of a pass, written unless the object has changed meanwhile
\* or the write fails.
Status(st) ==
    \E lost \in BOOLEAN :
        /\ Perhaps(lost, "api")
        /\ cluster' = IF work.fresh /\ ~lost /\ cluster.phase # "gone"
                      THEN [cluster EXCEPT !.status = st] ELSE cluster

Outdated == [work EXCEPT !.fresh = At("idle")]

----------------------------------------------------------------------------
(* The start of a pass.  A cluster that is being deleted is left alone. *)

\* Faulty: a cluster that is being deleted is reconciled like any other.
ReconcileDeleted ==
    /\ At("idle")
    /\ cluster.phase # "gone"
    /\ work' = [Idle EXCEPT !.pc = "passwords", !.spec = cluster.spec,
                            !.status = cluster.status]
    /\ UNCHANGED <<world, owned, minted, proven, events>>

Reconcile ==
    /\ At("idle")
    /\ cluster.phase = "live"
    /\ work' = [Idle EXCEPT !.pc = "passwords", !.spec = cluster.spec,
                            !.status = cluster.status]
    /\ UNCHANGED <<world, owned, minted, proven, events>>

----------------------------------------------------------------------------
(* Credentials. *)

\* Faulty: whatever there is of the operator's own schema.
PasswordsPartial(data) ==
    IF data["admin"] # 0 \/ data["radmin"] # 0
    THEN [k \in PasswordKeys |-> data[k]]
    ELSE IF data["password"] # 0
    THEN [k \in PasswordKeys |->
            IF k = "monitor" /\ data[k] # 0 THEN data[k] ELSE data["password"]]
    ELSE None

\* The operator's own schema, all of it or an error, or the platform's.
PasswordsFromSecret(data) ==
    IF data["admin"] # 0 \/ data["radmin"] # 0
    THEN IF \A k \in PasswordKeys : data[k] # 0
         THEN [k \in PasswordKeys |-> data[k]] ELSE None
    ELSE IF data["password"] # 0
    THEN [k \in PasswordKeys |->
            IF k = "monitor" /\ data[k] # 0 THEN data[k] ELSE data["password"]]
    ELSE None

\* Keys that are missing get a new value.
Backfilled(data) ==
    [k \in AuthKeys |-> IF k \in PasswordKeys /\ data[k] = 0 THEN minted + 1
                        ELSE data[k]]

MintedAuth == Backfilled([k \in AuthKeys |-> 0])

\* Errors in credentials end the pass, and are shown.
CredentialsError(reason) ==
    /\ Status([work.status EXCEPT !.phase = "Degraded", !.degraded = reason])
    /\ work' = Idle

\* Faulty: new passwords replace those the cache does not know of.
mintOverExisting ==
    /\ auth' = MintedAuth
    /\ cached' = FALSE
    /\ minted' = minted + 1
    /\ work' = [work EXCEPT !.pc = "aws",
                            !.pw = [k \in PasswordKeys |-> MintedAuth[k]]]

\* New passwords are stored unless there are some that the cache does not
\* know of; the pass goes on with the new ones either way.
mintPasswords ==
    /\ auth' = IF auth = None THEN MintedAuth ELSE auth
    /\ cached' = FALSE
    /\ minted' = minted + 1
    /\ work' = [work EXCEPT !.pc = "aws",
                            !.pw = [k \in PasswordKeys |-> MintedAuth[k]]]

\* The auth Secret is the operator's: minted when absent, else completed.
resolveManaged ==
    /\ work.spec.managed
    /\ \/ /\ auth = None \/ ~cached
          /\ Perhaps(auth # None, "stale")
          /\ mintPasswords
          /\ UNCHANGED cluster
       \/ /\ auth # None
          /\ auth' = Backfilled(auth)
          /\ minted' = IF auth' = auth THEN minted ELSE minted + 1
          /\ work' = [work EXCEPT !.pc = "aws",
                                  !.pw = [k \in PasswordKeys |-> auth'[k]]]
          /\ UNCHANGED <<cluster, cached, events>>

\* The auth Secret is the user's: used as it is.
resolveExternal ==
    /\ ~work.spec.managed
    /\ IF auth = None \/ PasswordsFromSecret(auth) = None
       THEN CredentialsError("AuthSecretError")
       ELSE /\ work' = [work EXCEPT !.pc = "aws",
                                    !.pw = PasswordsFromSecret(auth)]
            /\ UNCHANGED <<cluster, events>>
    /\ UNCHANGED <<auth, cached, minted>>

resolvePasswords ==
    /\ At("passwords")
    /\ resolveManaged \/ resolveExternal
    /\ UNCHANGED <<rds, bootstrap, secrets, owned, live, now, proven>>

\* The keys of the credentials, or the file that is mounted; 0 is neither.
credentialsFromSecret(s) == IF s.keys # 0 THEN s.keys ELSE s.file

\* The RDS API credentials: minted when absent, else keys and file are made
\* to agree.
ensureRDSCredentials ==
    IF rds = None
    THEN /\ rds' = [keys |-> minted + 1, file |-> minted + 1]
         /\ minted' = minted + 1
    ELSE /\ rds' = IF rds.file = credentialsFromSecret(rds) THEN rds
                   ELSE [keys |-> credentialsFromSecret(rds),
                         file |-> credentialsFromSecret(rds)]
         /\ UNCHANGED minted

resolveAWSBootstrap ==
    /\ At("aws")
    /\ IF ~work.spec.aws
       THEN /\ Goto("tls")
            /\ UNCHANGED <<cluster, rds, minted, events>>
       ELSE IF ~bootstrap \/ (rds # None /\ credentialsFromSecret(rds) = 0)
       THEN /\ CredentialsError("AWSBootstrapError")
            /\ UNCHANGED <<rds, minted>>
       ELSE /\ ensureRDSCredentials
            /\ Goto("tls")
            /\ UNCHANGED <<cluster, events>>
    /\ UNCHANGED <<auth, cached, bootstrap, secrets, owned, live, now, proven>>

----------------------------------------------------------------------------
(* TLS for clients and the admin port: validate, or hold what was good. *)

Complete(n) == secrets[n] # None /\ secrets[n].full

\* The Secrets become s; the complete ones have been complete.
Store(s) ==
    /\ secrets' = s
    /\ proven' = proven \cup {n \in SecretNames : s[n] # None /\ s[n].full}

\* Faulty: what is held is not reported.
holdSilently(w) ==
    LET wired == owned.sts # None /\ owned.sts.tls # None
    IN  [w EXCEPT !.pc = "backend", !.tls = wired,
                  !.mount = IF wired THEN owned.sts.tls ELSE None]

\* The template keeps what it mounts; if nothing, TLS is not rendered.
holdTLSLastGood(w) ==
    LET wired == owned.sts # None /\ owned.sts.tls # None
    IN  [w EXCEPT !.pc = "backend", !.tlsErr = TRUE, !.tls = wired,
                  !.mount = IF wired THEN owned.sts.tls ELSE None]

Mounted(pc, name) == [work EXCEPT !.pc = pc, !.tls = TRUE, !.mount = name]

\* Faulty: a certificate that lasts just the window is renewed as well.
RenewalDue(s, window) == s = None \/ ~s.full \/ s.notAfter <= now + window

\* A certificate that ends within the window, or none, is to be renewed.
NeedsRenewal(s, window) == s = None \/ ~s.full \/ s.notAfter < now + window

NewCA == Material("self", minted + 1, {}, now, CADuration)
IssueServing(ca, spec) == Material("self", ca.ca, SANsFor(spec), now, spec.duration)

\* Faulty: the CA is renewed only when its own end is near.
CAUntilItsEnd == ~NeedsRenewal(secrets["ca"], work.spec.renewBefore)

\* The CA stays as long as it outlives a certificate issued now.
KeepCA == ~NeedsRenewal(secrets["ca"], work.spec.duration + work.spec.renewBefore)

servingReissueNeeded(s, ca, spec) ==
    \/ NeedsRenewal(s, spec.renewBefore)
    \/ s.ca # ca.ca
    \/ ~(SANsFor(spec) \subseteq s.sans)

\* Faulty: without the Secret the pass ends.
userSecretOrFail ==
    /\ work.spec.tier = "user"
    /\ work' = IF Complete(work.spec.secret) THEN Mounted("gc", work.spec.secret)
               ELSE Idle
    /\ UNCHANGED <<secrets, proven, owned, minted, events>>

\* Tier 1, the user's Secret: validated and mounted as it is.
ensureUserSecret ==
    /\ work.spec.tier = "user"
    /\ work' = IF Complete(work.spec.secret) THEN Mounted("gc", work.spec.secret)
               ELSE holdTLSLastGood(work)
    /\ UNCHANGED <<secrets, proven, owned, minted, events>>

\* Tier 2: a Certificate for cert-manager, whose Secret is then validated.
ensureTLSCertificate ==
    /\ work.spec.tier = "issuer"
    /\ \E lost \in BOOLEAN :
        /\ Perhaps(lost, "api")
        /\ owned' = IF lost THEN owned ELSE [owned EXCEPT !.cert = Certificate(work.spec)]
        /\ work' = IF ~lost /\ Complete("tls") THEN Mounted("backend", "tls")
                   ELSE holdTLSLastGood(work)
    /\ UNCHANGED <<secrets, proven, minted>>

\* Tier 3, first half: the CA.
ensureSelfSignedCA ==
    /\ work.spec.tier = "self"
    /\ \E lost \in BOOLEAN :
        LET ca == IF KeepCA THEN secrets["ca"] ELSE NewCA
        IN  /\ Perhaps(lost, "api")
            /\ IF lost
               THEN /\ work' = holdTLSLastGood(work)
                    /\ UNCHANGED <<secrets, proven, minted>>
               ELSE /\ Store([secrets EXCEPT !["ca"] = ca])
                    /\ minted' = IF KeepCA THEN minted ELSE minted + 1
                    /\ work' = [work EXCEPT !.pc = "serving", !.ca = ca]
    /\ UNCHANGED owned

\* No TLS; a Certificate is looked for only if the spec mentions TLS.
NoTLS ==
    /\ work.spec.tier \in {"none", "off"}
    /\ Goto(IF work.spec.tier = "off" THEN "gc" ELSE "backend")
    /\ UNCHANGED <<secrets, proven, owned, minted, events>>

ensureTLSSecrets ==
    /\ At("tls")
    /\ ensureUserSecret \/ ensureTLSCertificate \/ ensureSelfSignedCA \/ NoTLS
    /\ UNCHANGED <<cluster, auth, cached, rds, bootstrap, live, now>>

\* Tier 3, second half: the serving certificate.
ensureSelfSignedServing ==
    /\ At("serving")
    /\ \E lost \in BOOLEAN :
        LET reissue == servingReissueNeeded(secrets["tls"], work.ca, work.spec)
        IN  /\ Perhaps(lost, "api")
            /\ IF lost
               THEN /\ work' = holdTLSLastGood(work)
                    /\ UNCHANGED <<secrets, proven>>
               ELSE /\ work' = Mounted("gc", "tls")
                    /\ Store(IF reissue
                             THEN [secrets EXCEPT
                                    !["tls"] = IssueServing(work.ca, work.spec)]
                             ELSE secrets)
    /\ UNCHANGED <<cluster, auth, cached, rds, bootstrap, owned, live, now, minted>>

\* Faulty: the Certificate is left to cert-manager.
forgetTLSCertificate ==
    /\ At("gc")
    /\ Goto("backend")
    /\ UNCHANGED <<world, owned, minted, proven, events>>

\* Once another tier is ready the Certificate goes; failures are ignored.
cleanupTLSCertificate ==
    /\ At("gc")
    /\ \E lost \in BOOLEAN :
        /\ Perhaps(lost, "api")
        /\ owned' = IF lost THEN owned ELSE [owned EXCEPT !.cert = None]
    /\ Goto("backend")
    /\ UNCHANGED <<world, minted, proven>>

----------------------------------------------------------------------------
(* TLS towards the servers. *)

validateBackendTLSSecrets(be) ==
    Complete(be.ca) /\ (be.client # None => Complete(be.client))

\* Faulty: what the spec names is mounted before it is there.
holdBackendAsAsked == work.spec.backend

holdBackendTLSLastGood == IF owned.sts = None THEN None ELSE owned.sts.backend

ensureBackend ==
    /\ At("backend")
    /\ LET be == IF work.tls THEN work.spec.backend ELSE None
           good == be = None \/ validateBackendTLSSecrets(be)
       IN  work' = [work EXCEPT
                !.pc = "cnf",
                !.backend = IF good THEN be ELSE holdBackendTLSLastGood,
                !.tlsErr = @ \/ ~good]
    /\ UNCHANGED <<world, owned, minted, proven, events>>

----------------------------------------------------------------------------
(* The owned objects. *)

\* The bootstrap configuration; its predecessor, a ConfigMap, goes if it is
\* the operator's.
ensureCnfSecret ==
    /\ At("cnf")
    /\ owned' = [owned EXCEPT
                    !.cnf = [pw |-> work.pw, backend |-> work.backend],
                    !.legacy = IF @ = "ours" THEN None ELSE @]
    /\ Goto("services")
    /\ UNCHANGED <<world, minted, proven, events>>

\* Faulty: the port is allocated anew with every write.
anyNodePort(port) == IF port # 0 THEN {port} ELSE NodePorts

\* The node port: the one asked for, else the one there is, else a new one.
keptNodePort(port) ==
    IF port # 0 THEN {port}
    ELSE IF owned.ext # None THEN {owned.ext.port}
    ELSE NodePorts

\* The external Service; a rejected one is dealt with at the end of the pass.
ensureExternalService ==
    LET want == work.spec.ext
    IN  \/ /\ want = None
           /\ owned' = [owned EXCEPT !.svc = TRUE,
                            !.ext = IF @ # None /\ @.ours THEN None ELSE @]
           /\ Goto("sts")
           /\ UNCHANGED events
        \/ /\ want # None
           /\ \E port \in keptNodePort(want.port) :
                owned' = [owned EXCEPT !.svc = TRUE,
                            !.ext = [ours |-> TRUE, type |-> want.type,
                                     port |-> port,
                                     ingress |-> owned.ext # None /\ owned.ext.ingress]]
           /\ Goto("sts")
           /\ UNCHANGED events
        \/ /\ Event("ext")
           /\ owned' = [owned EXCEPT !.svc = TRUE]
           /\ work' = [work EXCEPT !.pc = "sts", !.extErr = TRUE]

ensureServices ==
    /\ At("services")
    /\ ensureExternalService
    /\ UNCHANGED <<world, minted, proven>>

Template == [replicas |-> IF work.spec.pause THEN 0 ELSE work.spec.replicas,
             tls |-> work.mount, backend |-> work.backend]

\* The StatefulSet as of this pass; a new template starts a rollout.
ensureStatefulSet ==
    /\ owned' = [owned EXCEPT !.sts = Template]
    /\ live' = IF owned.sts = None THEN [ready |-> 0, updated |-> TRUE]
               ELSE [live EXCEPT !.updated =
                        @ /\ owned.sts.tls = work.mount
                          /\ owned.sts.backend = work.backend]

\* Rotation may be unfinished, which is dealt with at the end of the pass.  A
\* push of variables may fail: the StatefulSet is written all the same, the
\* failure is shown, and the pass ends.
applyTemplate ==
    /\ At("sts")
    /\ ensureStatefulSet
    /\ \/ \E rot \in BOOLEAN :
            /\ rot => work.mount # None
            /\ Perhaps(rot, "rotation")
            /\ work' = [work EXCEPT !.pc = "extras", !.rotErr = rot]
            /\ UNCHANGED cluster
       \/ /\ owned.sts # None
          /\ Event("push")
          /\ cluster' = IF work.fresh /\ cluster.phase # "gone"
                        THEN [cluster EXCEPT !.status =
                                [work.status EXCEPT !.degraded = "RuntimeApplyError"]]
                        ELSE cluster
          /\ Fail
    /\ UNCHANGED <<auth, cached, rds, bootstrap, secrets, now, minted, proven>>

wantPDB(spec) == spec.pdb /\ spec.replicas > 1

\* An object of the operator that is not wanted goes, another one's stays.
Ensured(want, is) == IF want THEN "ours" ELSE IF is = "ours" THEN None ELSE is

\* The disruption budget, and the ServiceMonitor, whose failure only shows.
ensureExtras ==
    /\ At("extras")
    /\ \E lost \in BOOLEAN :
        /\ Perhaps(lost, "monitor")
        /\ owned' = [owned EXCEPT
                !.pdb = Ensured(wantPDB(work.spec), @),
                !.monitor = IF lost THEN @ ELSE Ensured(work.spec.monitor, @)]
        /\ work' = [work EXCEPT !.pc = "status",
                !.status.monitored = ~(lost /\ work.spec.monitor)]
    /\ UNCHANGED <<world, minted, proven>>

----------------------------------------------------------------------------
(* The status. *)

derivePhase(spec) ==
    IF spec.pause
    THEN IF owned.sts # None /\ live.ready > 0 THEN "Stopping" ELSE "Paused"
    ELSE IF owned.sts = None THEN "Pending"
    ELSE IF live.ready = 0 THEN "Creating"
    ELSE IF live.ready = spec.replicas /\ live.updated THEN "Running"
    ELSE "Updating"

\* Of several errors the first is shown; a pass without any clears the condition.
degradedReason ==
    IF work.extErr THEN "ExternalServiceError"
    ELSE IF work.tlsErr THEN "TLSSecretError"
    ELSE IF work.rotErr THEN "TLSRotationError"
    ELSE None

\* Where clients outside reach the proxies, as far as it is known.
externalEndpoint(spec) ==
    IF spec.ext = None \/ owned.ext = None THEN None
    ELSE IF owned.ext.type = "NodePort" THEN <<"node", owned.ext.port>>
    ELSE IF owned.ext.ingress THEN <<"balancer", 0>>
    ELSE None

updateStatus ==
    /\ At("status")
    /\ Status([work.status EXCEPT
                !.phase = derivePhase(work.spec),
                !.degraded = degradedReason,
                !.external = externalEndpoint(work.spec),
                !.paused = work.spec.pause /\ live.ready = 0])
    /\ work' = Idle
    /\ UNCHANGED <<auth, cached, rds, bootstrap, secrets, owned, live, now,
                   minted, proven>>

\* A call to the API server fails, and with it the pass.
CallFails ==
    /\ work.pc \in {"backend", "cnf", "services", "sts", "extras", "status"}
    /\ Event("api")
    /\ Fail
    /\ UNCHANGED <<world, owned, minted, proven>>

\* A call for credentials fails, which shows.
CredentialsCallFails ==
    /\ work.pc \in {"passwords", "aws"}
    /\ Event("api")
    /\ cluster' = IF work.fresh /\ cluster.phase # "gone"
                  THEN [cluster EXCEPT !.status =
                          [work.status EXCEPT !.phase = "Degraded",
                              !.degraded = IF At("aws") THEN "AWSBootstrapError"
                                           ELSE "AuthSecretError"]]
                  ELSE cluster
    /\ Fail
    /\ UNCHANGED <<auth, cached, rds, bootstrap, secrets, owned, live, now,
                   minted, proven>>

Crash ==
    /\ work.pc # "idle"
    /\ Event("crash")
    /\ Fail
    /\ UNCHANGED <<world, owned, minted, proven>>

----------------------------------------------------------------------------
(* Everyone else. *)

\* A user edits the spec; which auth Secret is used stays.
EditSpec ==
    /\ cluster.phase = "live"
    /\ Event("spec")
    /\ \E spec \in Specs \ {cluster.spec} :
        /\ spec.managed = cluster.spec.managed
        /\ cluster' = [cluster EXCEPT !.spec = spec]
    /\ work' = Outdated
    /\ UNCHANGED <<auth, cached, rds, bootstrap, secrets, owned, live, now,
                   minted, proven>>

\* A user deletes the cluster, dependents first.
DeleteCluster ==
    /\ cluster.phase = "live"
    /\ Event("delete")
    /\ cluster' = [cluster EXCEPT !.phase = "deleting"]
    /\ work' = Outdated
    /\ UNCHANGED <<auth, cached, rds, bootstrap, secrets, owned, live, now,
                   minted, proven>>

\* What the garbage collector leaves: what the cluster does not own.
Left(o) == [f \in DOMAIN Nothing |->
              IF \/ f \in {"legacy", "pdb", "monitor"} /\ o[f] = "theirs"
                 \/ f = "ext" /\ o[f] # None /\ ~o[f].ours
              THEN o[f] ELSE Nothing[f]]
LeftSecrets == [n \in SecretNames |->
                  IF secrets[n] # None /\ secrets[n].by = "self" THEN None
                  ELSE secrets[n]]
LeftAuth == IF cluster.spec.managed THEN None ELSE auth
Collected == owned = Left(owned) /\ secrets = LeftSecrets
                /\ auth = LeftAuth /\ rds = None

\* The garbage collector removes the dependents, then the cluster goes.
Collect ==
    /\ cluster.phase # "live"
    /\ ~Collected
    /\ owned' = Left(owned)
    /\ secrets' = LeftSecrets
    /\ auth' = LeftAuth
    /\ cached' = TRUE
    /\ rds' = None
    /\ live' = [ready |-> 0, updated |-> TRUE]
    /\ UNCHANGED <<cluster, bootstrap, now, minted, proven, work, events>>
Gone ==
    /\ cluster.phase = "deleting"
    /\ Collected
    /\ cluster' = [cluster EXCEPT !.phase = "gone"]
    /\ UNCHANGED <<auth, cached, rds, bootstrap, secrets, owned, live, now,
                   minted, proven, work, events>>

\* A user deletes the auth Secret or a key of it; their own they bring back.
ChangeAuth ==
    /\ \/ /\ auth # None
          /\ Event("auth")
          /\ auth' \in {None, [auth EXCEPT !["radmin"] = 0]} \ {auth}
       \/ /\ ~cluster.spec.managed
          /\ auth = None \/ auth \notin UserAuths
          /\ auth' \in UserAuths
          /\ UNCHANGED events
    /\ cached' = (cached \/ auth' = None)
    /\ UNCHANGED <<cluster, rds, bootstrap, secrets, owned, live, now, minted,
                   proven, work>>

\* The cache catches up; it is read at the start of a pass only.
CacheSync ==
    /\ At("idle")
    /\ ~cached
    /\ cached' = TRUE
    /\ UNCHANGED <<cluster, auth, rds, bootstrap, secrets, owned, live, now,
                   minted, proven, work, events>>

\* The AWS plugin's ConfigMap goes and returns; the keys of the credentials,
\* or all of them, are removed.
ChangeAWS ==
    /\ \/ /\ Event("aws")
          /\ \/ bootstrap /\ bootstrap' = FALSE /\ UNCHANGED rds
             \/ rds # None /\ rds' \in {None, [rds EXCEPT !.keys = 0]} \ {rds}
                /\ UNCHANGED bootstrap
       \/ ~bootstrap /\ bootstrap' = TRUE /\ UNCHANGED <<rds, events>>
    /\ UNCHANGED <<cluster, auth, cached, secrets, owned, live, now, minted,
                   proven, work>>

AsksFor(spec, n) ==
    \/ spec.secret = n
    \/ spec.backend # None /\ n \in {spec.backend.ca, spec.backend.client}

\* A TLS Secret is removed or loses a key; users bring theirs when asked for.
BreakSecret(n) ==
    /\ Complete(n)
    /\ Event("secret")
    /\ \E s \in {None, [secrets[n] EXCEPT !.full = FALSE]} :
        Store([secrets EXCEPT ![n] = s])
    /\ UNCHANGED <<cluster, auth, cached, rds, bootstrap, owned, live, now,
                   minted, work>>
BringSecret(n) ==
    /\ n \in Brought
    /\ AsksFor(cluster.spec, n)
    /\ ~Complete(n)
    /\ Store([secrets EXCEPT ![n] = Material("user", 0, {}, 0, 0)])
    /\ UNCHANGED <<cluster, auth, cached, rds, bootstrap, owned, live, now,
                   minted, work, events>>

\* cert-manager writes the Secret of a Certificate unless it is its own, is not
\* due and has the names.
CertManager ==
    /\ owned.cert # None
    /\ ~(/\ ~NeedsRenewal(secrets["tls"], owned.cert.renewBefore)
         /\ secrets["tls"].by = "issuer"
         /\ owned.cert.sans \subseteq secrets["tls"].sans)
    /\ Store([secrets EXCEPT !["tls"] =
                Material("issuer", 0, owned.cert.sans, now, owned.cert.duration)])
    /\ UNCHANGED <<cluster, auth, cached, rds, bootstrap, owned, live, now,
                   minted, work, events>>

\* Pods and load balancers matter to a pass only when it computes the status:
\* what they do commutes with its other steps.
Observable == At("idle") \/ At("status")

\* Pods start only with the Secrets they mount.
Startable ==
    /\ owned.sts.tls # None => Complete(owned.sts.tls)
    /\ owned.sts.backend # None => validateBackendTLSSecrets(owned.sts.backend)
StatefulSetController ==
    /\ Observable
    /\ owned.sts # None
    /\ \/ /\ live.ready < owned.sts.replicas /\ Startable
          /\ live' = [live EXCEPT !.ready = @ + 1]
       \/ /\ live.ready > owned.sts.replicas
          /\ live' = [live EXCEPT !.ready = @ - 1]
       \/ /\ ~live.updated
          /\ Startable \/ owned.sts.replicas = 0
          /\ live' = [live EXCEPT !.updated = TRUE]
    /\ UNCHANGED <<cluster, auth, cached, rds, bootstrap, secrets, owned, now,
                   minted, proven, work, events>>

\* The cloud gives a load balancer its address.
Provision ==
    /\ Observable
    /\ owned.ext # None
    /\ owned.ext.type = "LoadBalancer"
    /\ ~owned.ext.ingress
    /\ owned' = [owned EXCEPT !.ext.ingress = TRUE]
    /\ UNCHANGED <<world, minted, proven, work, events>>

\* Someone else makes an object under a name the operator uses.
Squat ==
    /\ Event("squat")
    /\ \E f \in {"legacy", "pdb", "monitor"} :
        /\ owned[f] = None
        /\ owned' = [owned EXCEPT ![f] = "theirs"]
    /\ UNCHANGED <<world, minted, proven, work>>

\* Time passes between passes.
Tick ==
    /\ At("idle")
    /\ Event("time")
    /\ now' \in now + 1 .. MaxNow
    /\ UNCHANGED <<cluster, auth, cached, rds, bootstrap, secrets, owned, live,
                   minted, proven, work>>

----------------------------------------------------------------------------
(* The specification. *)

\* A new cluster of an operator that was upgraded: only what users bring, and
\* the ConfigMap of a version before 0.3.
Init ==
    /\ \E spec \in FirstSpecs :
        /\ cluster = [phase |-> "live", spec |-> spec, status |-> NoStatus]
        /\ auth \in IF spec.managed THEN {None} ELSE UserAuths
    /\ cached = TRUE
    /\ rds = None
    /\ bootstrap = TRUE
    /\ secrets = [n \in SecretNames |-> None]
    /\ owned = [Nothing EXCEPT !.legacy = "ours"]
    /\ live = [ready |-> 0, updated |-> TRUE]
    /\ now = 0
    /\ minted = 0
    /\ proven = {}
    /\ work = Idle
    /\ events = 0

Pass ==
    \/ Reconcile \/ resolvePasswords \/ resolveAWSBootstrap
    \/ ensureTLSSecrets \/ ensureSelfSignedServing \/ cleanupTLSCertificate
    \/ ensureBackend \/ ensureCnfSecret \/ ensureServices \/ applyTemplate
    \/ ensureExtras \/ updateStatus

Environment ==
    \/ EditSpec \/ DeleteCluster \/ Collect \/ Gone \/ ChangeAuth
    \/ CacheSync \/ ChangeAWS \/ CertManager \/ StatefulSetController
    \/ Provision \/ Squat \/ Tick
    \/ \E n \in SecretNames : BreakSecret(n) \/ BringSecret(n)

Next ==
    \/ Pass \/ CallFails \/ CredentialsCallFails \/ Crash
    \/ Environment

Spec == Init /\ [][Next]_vars

\* The operator works on, and so do the controllers of the cluster.
FairSpec ==
    /\ Spec
    /\ WF_vars(Pass)
    /\ SF_vars(CacheSync)
    /\ WF_vars(CertManager)
    /\ SF_vars(StatefulSetController)
    /\ SF_vars(Provision)
    /\ WF_vars(Collect)
    /\ WF_vars(Gone)

----------------------------------------------------------------------------
(* Properties. *)

\* Types of the objects and of the pass; in particular no pass goes on with an
\* empty password, however incomplete the auth Secret (resolvePasswords).
TypeOK ==
    LET Mounts == SecretNames \cup {None}
        Backends == {spec.backend : spec \in Specs \cup FirstSpecs} \cup {None}
    IN  /\ cluster.phase \in {"live", "deleting", "gone"}
        /\ cluster.spec \in Specs \cup FirstSpecs
        /\ auth = None \/ DOMAIN auth = AuthKeys
        /\ \A n \in SecretNames : secrets[n] # None =>
             secrets[n].by \in {"self", "issuer", "user"}
        /\ work.pc # "idle" => work.spec \in Specs \cup FirstSpecs
        /\ work.pc \in {"cnf", "services", "sts"} =>
             DOMAIN work.pw = PasswordKeys /\ \A k \in PasswordKeys : work.pw[k] # 0
        /\ work.mount \in Mounts /\ work.backend \in Backends
        /\ owned.sts # None =>
             owned.sts.tls \in Mounts /\ owned.sts.backend \in Backends
        /\ live.ready \in Nat /\ live.updated \in BOOLEAN

\* A pass never replaces a password or an RDS credential that is present,
\* stale cache, missing keys and crashes notwithstanding: only what is missing
\* is minted (resolvePasswords, ensureRDSCredentials).
CredentialsKept ==
    [][work' # work =>
        /\ auth # None =>
             /\ auth' # None
             /\ \A k \in AuthKeys : auth[k] # 0 => auth'[k] = auth[k]
        /\ (rds # None /\ credentialsFromSecret(rds) # 0) =>
             rds' # None /\ credentialsFromSecret(rds') = credentialsFromSecret(rds)]_vars

\* The template names only TLS Secrets that have been complete: one that was
\* never there, or never had its keys, would keep pods from starting
\* (ensureTLSSecrets, validateBackendTLSSecrets and their holds).
NeverDangling ==
    owned.sts # None =>
        /\ owned.sts.tls # None => owned.sts.tls \in proven
        /\ owned.sts.backend # None =>
             /\ owned.sts.backend.ca \in proven
             /\ owned.sts.backend.client # None => owned.sts.backend.client \in proven

\* A serving certificate of the operator does not outlive the CA that signed
\* it, whatever edits of its life, removals and passes come between, as long as
\* it was not issued for longer than a CA lives (ensureSelfSignedTLS).
ServingOutlivedByCA ==
    LET ca == secrets["ca"]
        tls == secrets["tls"]
    IN  (ca # None /\ tls # None /\ tls.by = "self" /\ tls.ca = ca.ca)
            => tls.notAfter <= ca.notAfter \/ tls.life > CADuration

\* The same without the exception: "a serving cert must never outlive its CA"
\* (ensureSelfSignedTLS).
ServingNeverOutlivesCA ==
    LET ca == secrets["ca"]
        tls == secrets["tls"]
    IN  (ca # None /\ tls # None /\ tls.by = "self" /\ tls.ca = ca.ca)
            => tls.notAfter <= ca.notAfter

Credentials(spec) ==
    /\ spec.managed \/ (auth # None /\ PasswordsFromSecret(auth) # None)
    /\ spec.aws => bootstrap

\* The objects that do not depend on TLS are as the spec says.
Applied(spec) ==
    /\ owned.cnf # None /\ auth # None
    /\ owned.cnf.pw = IF spec.managed THEN [k \in PasswordKeys |-> auth[k]]
                      ELSE PasswordsFromSecret(auth)
    /\ owned.legacy # "ours"
    /\ owned.svc
    /\ spec.ext = None => owned.ext = None
    /\ spec.ext # None => /\ owned.ext # None
                          /\ owned.ext.type = spec.ext.type
                          /\ spec.ext.port # 0 => owned.ext.port = spec.ext.port
    /\ owned.sts # None
    /\ owned.sts.replicas = IF spec.pause THEN 0 ELSE spec.replicas
    /\ IF wantPDB(spec) THEN owned.pdb = "ours" ELSE owned.pdb # "ours"
    /\ IF spec.monitor THEN owned.monitor = "ours" ELSE owned.monitor # "ours"
    /\ spec.aws => rds # None /\ rds.file # 0

\* TLS Secrets that are not there, for as long as they are not there, keep
\* nothing else from being applied: with credentials to work with, the rest of
\* the cluster follows the spec (the non-wedging contract of Reconcile).
NonWedging ==
    <>[](cluster.phase = "live" /\ Credentials(cluster.spec))
        => <>[](Applied(cluster.spec))

TLSBrought(spec) ==
    /\ spec.tier = "user" => Complete(spec.secret)
    /\ spec.tier \notin {"none", "off"} /\ spec.backend # None =>
         validateBackendTLSSecrets(spec.backend)

ExpectedMount(spec) ==
    CASE spec.tier \in {"none", "off"} -> None
      [] spec.tier = "user" -> spec.secret
      [] OTHER -> "tls"

ExpectedCertificate(spec) ==
    IF spec.tier = "issuer" THEN Certificate(spec) ELSE None

\* A CA lasts for a certificate and its renewal.  Where it does not, every pass
\* finds the CA of the pass before it too short and mints another one.
CALasts(spec) ==
    spec.tier = "self" => spec.duration + spec.renewBefore <= CADuration

\* TLS and the status are as the spec says too.
Settled(spec) ==
    /\ owned.sts # None
    /\ owned.sts.tls = ExpectedMount(spec)
    /\ owned.sts.backend = IF ExpectedMount(spec) = None THEN None ELSE spec.backend
    /\ owned.cnf # None /\ owned.cnf.backend = owned.sts.backend
    /\ spec.tier # "none" => owned.cert = ExpectedCertificate(spec)
    /\ spec.tier = "issuer" => /\ Complete("tls")
                               /\ SANsFor(spec) \subseteq secrets["tls"].sans
    /\ spec.tier = "self" => /\ Complete("ca") /\ Complete("tls")
                             /\ secrets["tls"].ca = secrets["ca"].ca
                             /\ SANsFor(spec) \subseteq secrets["tls"].sans
    /\ cluster.status.phase = IF spec.pause THEN "Paused" ELSE "Running"
    /\ cluster.status.degraded = None
    /\ cluster.status.monitored
    /\ cluster.status.external = externalEndpoint(spec)
    /\ cluster.status.paused = spec.pause

\* Once credentials and the TLS Secrets users bring are there for good, and a CA
\* lasts long enough for the certificates that are asked for, the cluster comes to
\* be what the spec says and its status to say so, whatever tiers, holds, failures
\* and crashes it went through.
Settles ==
    <>[](/\ cluster.phase = "live"
         /\ Credentials(cluster.spec)
         /\ TLSBrought(cluster.spec)
         /\ CALasts(cluster.spec))
        => <>[](Settled(cluster.spec))

\* Then passes change nothing any more: no port is allocated anew, no
\* certificate reissued, no template rewritten without a reason.
ComesToRest ==
    <>[](/\ cluster.phase = "live"
         /\ Credentials(cluster.spec)
         /\ TLSBrought(cluster.spec)
         /\ CALasts(cluster.spec))
        => <>[][UNCHANGED <<auth, rds, secrets, owned>>]_vars

\* The objects with the template as the spec says, and with some passwords.
ExpectedBackend(spec) ==
    IF spec.tier \in {"none", "off"} THEN None ELSE spec.backend
ExpectedService(spec) ==
    [ours : {TRUE}, type : {spec.ext.type}, ingress : BOOLEAN,
     port : IF spec.ext.port # 0 THEN {spec.ext.port} ELSE Nat]
Rendered(spec, pw) ==
    /\ owned.sts = [replicas |-> IF spec.pause THEN 0 ELSE spec.replicas,
                    tls |-> ExpectedMount(spec), backend |-> ExpectedBackend(spec)]
    /\ owned.cnf = [pw |-> pw, backend |-> ExpectedBackend(spec)]
    /\ owned.legacy # "ours"
    /\ owned.svc
    /\ IF spec.ext = None THEN owned.ext = None
       ELSE owned.ext \in ExpectedService(spec)
    /\ IF wantPDB(spec) THEN owned.pdb = "ours" ELSE owned.pdb # "ours"

\* A pass that is about to report that nothing is degraded has applied all of
\* the spec as it is now: nothing is held back, rejected or left as an earlier
\* spec had it behind a clean condition (Reconcile, degradedReason).
HealthyMeansApplied ==
    At("status") /\ work.fresh /\ degradedReason = None =>
        /\ Rendered(cluster.spec, work.pw)
        /\ cluster.spec.monitor /\ work.status.monitored => owned.monitor = "ours"

\* The passwords a pass finds.
FoundPasswords(spec) ==
    IF spec.managed THEN [k \in PasswordKeys |-> auth[k]]
    ELSE PasswordsFromSecret(auth)

\* Everything is as the spec says, and no certificate is due.
InPlace(spec) ==
    /\ Credentials(spec) /\ TLSBrought(spec)
    /\ IF spec.managed THEN auth # None /\ \A k \in PasswordKeys : auth[k] # 0
       ELSE auth \in UserAuths
    /\ spec.aws => rds # None /\ rds.file # 0 /\ rds.keys \in {0, rds.file}
    /\ Rendered(spec, FoundPasswords(spec))
    /\ IF spec.monitor THEN owned.monitor = "ours" ELSE owned.monitor # "ours"
    /\ spec.tier # "none" => owned.cert = ExpectedCertificate(spec)
    /\ spec.tier = "issuer" => Complete("tls")
    /\ spec.tier = "self" =>
         /\ Complete("ca")
         /\ secrets["ca"].notAfter >= now + (spec.duration + spec.renewBefore)
         /\ Complete("tls") /\ secrets["tls"].notAfter >= now + spec.renewBefore
         /\ secrets["tls"].ca = secrets["ca"].ca
         /\ SANsFor(spec) \subseteq secrets["tls"].sans

\* So is what the pass under way has found out so far.
PassInPlace(spec) ==
    /\ ~At("idle") => work.spec = spec
    /\ work.pc \notin {"idle", "passwords"} => work.pw = FoundPasswords(spec)
    /\ At("serving") => spec.tier = "self" /\ work.ca = secrets["ca"]
    /\ At("gc") => spec.tier \notin {"none", "issuer"}
    /\ work.pc \in {"gc", "backend", "cnf", "services", "sts"} =>
         /\ work.mount = ExpectedMount(spec)
         /\ work.tls = (spec.tier \notin {"none", "off"})
    /\ work.pc \in {"passwords", "aws", "tls"} => work.mount = None /\ work.tls = FALSE
    /\ work.pc \in {"cnf", "services", "sts"} => work.backend = ExpectedBackend(spec)

AtRest ==
    cluster.phase = "live" /\ InPlace(cluster.spec) /\ PassInPlace(cluster.spec)

\* Once everything is as the spec says, passes change none of it and it stays so
\* until something happens from outside, at whatever step the pass under way
\* is: no port is allocated anew, no certificate issued, no password minted and
\* no template rewritten without a reason (Reconcile).
RestIsKept ==
    [][AtRest /\ events' = events =>
         /\ AtRest'
         /\ work' # work => UNCHANGED <<auth, rds, secrets, owned>>]_vars

\* A cluster that is deleted goes, and leaves nothing of the operator's behind:
\* no pass brings back what the garbage collector removes (Reconcile).
DeletionCompletes ==
    cluster.phase = "deleting" ~> [](cluster.phase = "gone" /\ Collected)

=============================================================================
