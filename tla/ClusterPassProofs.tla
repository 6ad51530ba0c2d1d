-------------------------- MODULE ClusterPassProofs --------------------------
(***************************************************************************)
(* What a pass of the ProxySQLCluster controller does with credentials and *)
(* TLS material, for any specs and any sequence of events:                 *)
(*   - what is there of the credentials is never replaced;                 *)
(*   - the template never names a Secret that was never complete;          *)
(*   - no serving certificate outlives the CA that signed it, unless it is *)
(*     issued for longer than a CA lives;                                  *)
(*   - every variable keeps its type;                                      *)
(*   - a pass clears the Degraded condition only if all of the spec is     *)
(*     applied;                                                            *)
(*   - once all of it is applied, passes change none of it.                *)
(*                                                                         *)
(* The second and third need to be strengthened by what the pass under way *)
(* holds: what it is about to mount has been complete, and the CA it is    *)
(* about to sign with lasts long enough and is not confused with another   *)
(* one.  The last two need what the pass under way has found and written.  *)
(***************************************************************************)
EXTENDS ClusterPass, TLAPS

\* Most steps are first-order, so Zenon is the prover unless a step names another.
USE Zenon

----------------------------------------------------------------------------
(* Credentials. *)

\* Values of credentials are numbers.
CredentialTypes ==
    /\ minted \in Nat
    /\ auth \in [AuthKeys -> Nat] \cup {None}
    /\ rds \in [keys : Nat, file : Nat] \cup {None}

\* Minting and completing yield whole auth Secrets (mintPasswords, backfill).
LEMMA MintedTypes ==
    ASSUME CredentialTypes
    PROVE  /\ MintedAuth \in [AuthKeys -> Nat]
           /\ auth # None => Backfilled(auth) \in [AuthKeys -> Nat]
<1> DEFINE zero == [k \in AuthKeys |-> 0]
<1>1. \A d \in [AuthKeys -> Nat] : Backfilled(d) \in [AuthKeys -> Nat]
  BY SMT DEF CredentialTypes, Backfilled
<1>2. zero \in [AuthKeys -> Nat]
  OBVIOUS
<1> QED BY <1>1, <1>2 DEF CredentialTypes, MintedAuth

\* The two steps that write credentials.
LEMMA PasswordsStep ==
    ASSUME CredentialTypes, resolvePasswords
    PROVE  /\ CredentialTypes'
           /\ rds' = rds
           /\ auth # None =>
                /\ auth' # None
                /\ \A k \in AuthKeys : auth[k] # 0 => auth'[k] = auth[k]
<1>1. rds' = rds
  BY DEF resolvePasswords
<1>2. \/ mintPasswords
      \/ /\ auth # None /\ auth' = Backfilled(auth)
         /\ minted' = minted \/ minted' = minted + 1
      \/ auth' = auth /\ minted' = minted
  BY DEF resolvePasswords, resolveManaged, resolveExternal
<1>3. CASE mintPasswords
  <2>1. auth' = (IF auth = None THEN MintedAuth ELSE auth) /\ minted' = minted + 1
    BY <1>3 DEF mintPasswords
  <2> QED BY <2>1, <1>1, MintedTypes, CredentialsAssumption, SMT DEF CredentialTypes
<1>4. CASE /\ auth # None /\ auth' = Backfilled(auth)
           /\ minted' = minted \/ minted' = minted + 1
  <2>1. auth' \in [AuthKeys -> Nat] /\ auth' # None
    BY <1>4, MintedTypes, CredentialsAssumption
  <2>2. \A k \in AuthKeys : auth[k] # 0 => auth'[k] = auth[k]
    BY <1>4 DEF Backfilled
  <2> QED BY <2>1, <2>2, <1>1, <1>4, SMT DEF CredentialTypes
<1>5. CASE auth' = auth /\ minted' = minted
  BY <1>1, <1>5 DEF CredentialTypes
<1> QED BY <1>2, <1>3, <1>4, <1>5

\* The AWS step keeps the RDS credential that is mounted (ensureRDSCredentials).
LEMMA AWSStep ==
    ASSUME CredentialTypes, resolveAWSBootstrap
    PROVE  /\ CredentialTypes'
           /\ auth' = auth
           /\ rds # None /\ credentialsFromSecret(rds) # 0 =>
                /\ rds' # None
                /\ credentialsFromSecret(rds') = credentialsFromSecret(rds)
<1>1. auth' = auth /\ (ensureRDSCredentials \/ (rds' = rds /\ minted' = minted))
  BY DEF resolveAWSBootstrap
<1>2. CASE rds' = rds /\ minted' = minted
  BY <1>1, <1>2 DEF CredentialTypes
<1>3. CASE ensureRDSCredentials /\ rds = None
  <2>1. rds' = [keys |-> minted + 1, file |-> minted + 1] /\ minted' = minted + 1
    BY <1>3 DEF ensureRDSCredentials
  <2> QED BY <2>1, <1>1, <1>3, SMT DEF CredentialTypes
<1>4. CASE ensureRDSCredentials /\ rds # None
  <2>1. /\ minted' = minted
        /\ \/ rds' = rds
           \/ rds' = [keys |-> credentialsFromSecret(rds),
                      file |-> credentialsFromSecret(rds)]
    BY <1>4 DEF ensureRDSCredentials
  <2>2. credentialsFromSecret(rds) \in Nat
    BY <1>4 DEF CredentialTypes, credentialsFromSecret
  <2>3. rds' \in [keys : Nat, file : Nat] /\ rds' # None
    BY <2>1, <2>2, <1>4, CredentialsAssumption, SMT DEF CredentialTypes
  <2>4. credentialsFromSecret(rds) # 0 =>
          credentialsFromSecret(rds') = credentialsFromSecret(rds)
    BY <2>1, <2>2, SMT DEF credentialsFromSecret
  <2> QED BY <2>1, <2>3, <2>4, <1>1 DEF CredentialTypes
<1> QED BY <1>1, <1>2, <1>3, <1>4

\* Everyone else leaves the types, and works between the steps of a pass.
LEMMA OthersStep ==
    ASSUME CredentialTypes, ChangeAuth \/ ChangeAWS \/ Collect
    PROVE  CredentialTypes' /\ work' = work
<1>1. CASE ChangeAuth
  <2>1. work' = work /\ minted' = minted /\ rds' = rds
    BY <1>1 DEF ChangeAuth
  <2>2. \/ auth # None /\ auth' \in {None, [auth EXCEPT !["radmin"] = 0]}
        \/ auth' \in UserAuths
    BY <1>1 DEF ChangeAuth
  <2>3. auth' \in [AuthKeys -> Nat] \cup {None}
    BY <2>2, CredentialsAssumption, SMT DEF CredentialTypes
  <2> QED BY <2>1, <2>3 DEF CredentialTypes
<1>2. CASE ChangeAWS
  <2>1. work' = work /\ minted' = minted /\ auth' = auth
    BY <1>2 DEF ChangeAWS
  <2>2. \/ rds # None /\ rds' \in {None, [rds EXCEPT !.keys = 0]}
        \/ rds' = rds
    BY <1>2 DEF ChangeAWS
  <2>3. rds' \in [keys : Nat, file : Nat] \cup {None}
    BY <2>2, SMT DEF CredentialTypes
  <2> QED BY <2>1, <2>3 DEF CredentialTypes
<1>3. CASE Collect
  BY <1>3 DEF Collect, LeftAuth, CredentialTypes
<1> QED BY <1>1, <1>2, <1>3

\* The other steps of a pass leave credentials alone, and mint only a CA.
LEMMA OtherPasses ==
    ASSUME CredentialTypes,
           \/ Reconcile \/ ensureTLSSecrets \/ ensureSelfSignedServing
           \/ cleanupTLSCertificate \/ ensureBackend \/ ensureCnfSecret
           \/ ensureServices \/ applyTemplate \/ ensureExtras \/ updateStatus
           \/ CallFails \/ CredentialsCallFails \/ Crash
    PROVE  CredentialTypes' /\ auth' = auth /\ rds' = rds
<1>1. auth' = auth /\ rds' = rds
  BY DEF Reconcile, ensureTLSSecrets, ensureSelfSignedServing,
     cleanupTLSCertificate, ensureBackend, ensureCnfSecret, ensureServices,
     applyTemplate, ensureExtras, updateStatus, CallFails,
     CredentialsCallFails, Crash, world
<1>2. minted' = minted \/ minted' = minted + 1
  <2>1. CASE ensureTLSSecrets
    <3>1. CASE ensureSelfSignedCA
      BY <3>1 DEF ensureSelfSignedCA
    <3> QED BY <2>1, <3>1 DEF ensureTLSSecrets, ensureUserSecret,
               ensureTLSCertificate, NoTLS
  <2> QED BY <2>1 DEF Reconcile, ensureSelfSignedServing,
             cleanupTLSCertificate, ensureBackend, ensureCnfSecret,
             ensureServices, applyTemplate, ensureExtras, updateStatus,
             CallFails, CredentialsCallFails, Crash, world
<1> QED BY <1>1, <1>2, SMT DEF CredentialTypes

\* The remaining steps of everyone else do not concern credentials.
LEMMA OtherEnvironment ==
    ASSUME \/ EditSpec \/ DeleteCluster \/ Gone \/ CacheSync \/ CertManager
           \/ StatefulSetController \/ Provision \/ Squat \/ Tick
           \/ \E n \in SecretNames : BreakSecret(n) \/ BringSecret(n)
    PROVE  auth' = auth /\ rds' = rds /\ minted' = minted
BY DEF EditSpec, DeleteCluster, Gone, CacheSync, CertManager,
   StatefulSetController, Provision, Squat, Tick, BreakSecret, BringSecret, world

\* What CredentialsKept says of one step.
Kept ==
    work' # work =>
        /\ auth # None =>
             /\ auth' # None
             /\ \A k \in AuthKeys : auth[k] # 0 => auth'[k] = auth[k]
        /\ (rds # None /\ credentialsFromSecret(rds) # 0) =>
             rds' # None /\ credentialsFromSecret(rds') = credentialsFromSecret(rds)

\* Every step keeps the types of credentials, and those that are present.
LEMMA CredentialsStep ==
    CredentialTypes /\ [Next]_vars => CredentialTypes' /\ (Kept \/ UNCHANGED vars)
<1> SUFFICES ASSUME CredentialTypes, [Next]_vars
             PROVE  CredentialTypes' /\ (Kept \/ UNCHANGED vars)
  OBVIOUS
<1>1. CASE resolvePasswords
  BY <1>1, PasswordsStep DEF Kept
<1>2. CASE resolveAWSBootstrap
  BY <1>2, AWSStep DEF Kept
<1>3. CASE ChangeAuth \/ ChangeAWS \/ Collect
  BY <1>3, OthersStep DEF Kept
<1>4. CASE \/ Reconcile \/ ensureTLSSecrets \/ ensureSelfSignedServing
           \/ cleanupTLSCertificate \/ ensureBackend \/ ensureCnfSecret
           \/ ensureServices \/ applyTemplate \/ ensureExtras \/ updateStatus
           \/ CallFails \/ CredentialsCallFails \/ Crash
  BY <1>4, OtherPasses DEF Kept
<1>5. CASE \/ EditSpec \/ DeleteCluster \/ Gone \/ CacheSync \/ CertManager
           \/ StatefulSetController \/ Provision \/ Squat \/ Tick
           \/ \E n \in SecretNames : BreakSecret(n) \/ BringSecret(n)
  BY <1>5, OtherEnvironment DEF CredentialTypes, Kept
<1>6. CASE UNCHANGED vars
  BY <1>6 DEF vars, CredentialTypes
<1> QED BY <1>1, <1>2, <1>3, <1>4, <1>5, <1>6 DEF Next, Pass, Environment

\* No pass replaces a credential that is present: however the cache, the
\* Secrets and the spec change, only what is missing is minted
\* (resolvePasswords, ensureRDSCredentials).
THEOREM CredentialsStay == Spec => CredentialsKept
<1>1. Init => CredentialTypes
  BY CredentialsAssumption, SMT DEF Init, CredentialTypes
<1>2. CredentialTypes /\ [Next]_vars => CredentialTypes' /\ [Kept]_vars
  BY CredentialsStep
<1> QED BY <1>1, <1>2, PTL DEF Spec, CredentialsKept, Kept

----------------------------------------------------------------------------
(* The template and its Secrets. *)

AllSpecs == Specs \cup FirstSpecs

\* A mount, or the Secrets of a backend, have been complete.
Backs(m) == m # None => m \in proven
BacksAll(be) ==
    be # None => be.ca \in proven /\ (be.client # None => be.client \in proven)

Fields ==
    /\ DOMAIN work = DOMAIN Idle
    /\ DOMAIN owned = DOMAIN Nothing
    /\ DOMAIN secrets = SecretNames
    /\ DOMAIN cluster = {"phase", "spec", "status"}
    /\ cluster.spec \in AllSpecs
    /\ work.pc # "idle" => work.spec \in AllSpecs

\* NeverDangling is kept because what the pass under way is about to mount has
\* been complete too, and so has every Secret that is complete now.
BackedInv ==
    /\ Fields
    /\ \A n \in SecretNames : Complete(n) => n \in proven
    /\ Backs(work.mount)
    /\ BacksAll(work.backend)
    /\ NeverDangling

\* What has been complete stays so.
LEMMA BackedStays ==
    ASSUME proven \subseteq proven'
    PROVE  /\ \A m : Backs(m) => Backs(m)'
           /\ \A be : BacksAll(be) => BacksAll(be)'
BY DEF Backs, BacksAll

\* Steps that touch neither the Secrets nor the template.
LEMMA BackedKept ==
    ASSUME BackedInv, Fields',
           secrets' = secrets, proven' = proven, owned'.sts = owned.sts,
           work'.mount \in {work.mount, None},
           work'.backend \in {work.backend, None}
    PROVE  BackedInv'
BY DEF BackedInv, Complete, Backs, BacksAll, NeverDangling

\* Steps that write Secrets.
LEMMA BackedStore ==
    ASSUME BackedInv, Fields', NEW s, Store(s), owned'.sts = owned.sts,
           Backs(work.mount)' , work'.backend = work.backend
    PROVE  BackedInv'
<1>1. proven \subseteq proven' /\ secrets' = s
  BY DEF Store
<1>2. \A n \in SecretNames : Complete(n)' => n \in proven'
  BY DEF Store, Complete
<1>3. BacksAll(work.backend)'
  BY <1>1, BackedStays DEF BackedInv, BacksAll
<1>4. NeverDangling'
  BY <1>1 DEF BackedInv, NeverDangling
<1> QED BY <1>2, <1>3, <1>4 DEF BackedInv

\* What the template mounts may be mounted again.
LEMMA HoldFacts ==
    ASSUME BackedInv
    PROVE  /\ DOMAIN holdTLSLastGood(work) = DOMAIN Idle
           /\ holdTLSLastGood(work).spec = work.spec
           /\ holdTLSLastGood(work).backend = work.backend
           /\ Backs(holdTLSLastGood(work).mount)
           /\ BacksAll(holdBackendTLSLastGood)
<1>1. DOMAIN work = DOMAIN Idle /\ NeverDangling
  BY DEF BackedInv, Fields
<1>2. {"pc", "spec", "tls", "mount", "backend", "tlsErr"} \subseteq DOMAIN work
  BY <1>1 DEF Idle
<1>3. BacksAll(holdBackendTLSLastGood)
  BY <1>1 DEF NeverDangling, BacksAll, holdBackendTLSLastGood
<1>4. Backs(holdTLSLastGood(work).mount)
  BY <1>1, <1>2 DEF NeverDangling, Backs, holdTLSLastGood
<1> QED BY <1>1, <1>2, <1>3, <1>4 DEF holdTLSLastGood

\* A pass that mounts a TLS Secret keeps its spec and its backend.
LEMMA MountedFacts ==
    ASSUME BackedInv, NEW pc, NEW name
    PROVE  /\ DOMAIN Mounted(pc, name) = DOMAIN Idle
           /\ Mounted(pc, name).spec = work.spec
           /\ Mounted(pc, name).backend = work.backend
           /\ Mounted(pc, name).mount = name
<1>1. DOMAIN work = DOMAIN Idle
  BY DEF BackedInv, Fields
<1> QED BY <1>1 DEF Mounted, Idle

\* What there is to know of a work record that another one is made from.
Carried(w) ==
    /\ DOMAIN w = DOMAIN Idle
    /\ w.mount \in {work.mount, None} /\ w.backend \in {work.backend, None}
    /\ w.pc # "idle" => w.spec = work.spec

\* A pass that has ended mounts nothing, and so does one that begins.
LEMMA IdleFacts ==
    /\ Carried(Idle)
    /\ Idle.mount = None /\ Idle.backend = None /\ Idle.pc = "idle"
    /\ \A spec, status :
         LET w == [Idle EXCEPT !.pc = "passwords", !.spec = spec, !.status = status]
         IN  /\ DOMAIN w = DOMAIN Idle
             /\ w.mount = None /\ w.backend = None /\ w.spec = spec
<1>1. /\ Idle.mount = None /\ Idle.backend = None /\ Idle.pc = "idle"
      /\ {"pc", "spec", "status", "mount", "backend"} \subseteq DOMAIN Idle
  BY DEF Idle
<1>2. \A w, spec, status :
        {"pc", "spec", "status", "mount", "backend"} \subseteq DOMAIN w =>
          LET v == [w EXCEPT !.pc = "passwords", !.spec = spec, !.status = status]
          IN  /\ DOMAIN v = DOMAIN w
              /\ v.mount = w.mount /\ v.backend = w.backend /\ v.spec = spec
  OBVIOUS
<1> QED BY <1>1, <1>2 DEF Carried

\* A pass goes on to its next step.
LEMMA CarriedFacts ==
    ASSUME DOMAIN work = DOMAIN Idle
    PROVE  \A pc : Carried([work EXCEPT !.pc = pc])
<1>1. {"pc", "spec", "mount", "backend"} \subseteq DOMAIN work
  BY DEF Idle
<1> QED BY <1>1 DEF Carried

\* A pass that ends, or begins.
LEMMA EndSteps ==
    ASSUME BackedInv,
           \/ updateStatus \/ CallFails \/ CredentialsCallFails \/ Crash \/ Reconcile
    PROVE  BackedInv'
<1>1. secrets' = secrets /\ proven' = proven /\ owned' = owned
  BY DEF updateStatus, CallFails, CredentialsCallFails, Crash, Reconcile, world
<1>2. DOMAIN cluster' = {"phase", "spec", "status"} /\ cluster'.spec = cluster.spec
  BY DEF updateStatus, CallFails, CredentialsCallFails, Crash, Reconcile, world,
     Status, BackedInv, Fields
<1>3. \/ work' = Idle
      \/ work' = [Idle EXCEPT !.pc = "passwords", !.spec = cluster.spec,
                              !.status = cluster.status]
  BY DEF updateStatus, CallFails, CredentialsCallFails, Crash, Reconcile, Fail
<1>4. /\ DOMAIN work' = DOMAIN Idle
      /\ work'.mount = None /\ work'.backend = None
      /\ work'.pc # "idle" => work'.spec = cluster.spec
  <2>1. CASE work' = Idle
    BY <2>1, IdleFacts
  <2>2. CASE work' = [Idle EXCEPT !.pc = "passwords", !.spec = cluster.spec,
                                  !.status = cluster.status]
    BY <2>2, IdleFacts
  <2> QED BY <1>3, <2>1, <2>2
<1> QED BY <1>1, <1>2, <1>4, BackedKept DEF BackedInv, Fields

\* Steps of a pass that leave what is to be mounted alone.
LEMMA CarryingSteps ==
    ASSUME BackedInv,
           \/ resolvePasswords \/ resolveAWSBootstrap \/ cleanupTLSCertificate
           \/ ensureCnfSecret \/ ensureServices \/ ensureExtras
    PROVE  BackedInv'
<1>1. secrets' = secrets /\ proven' = proven
  BY DEF resolvePasswords, resolveAWSBootstrap, cleanupTLSCertificate,
     ensureCnfSecret, ensureServices, ensureExtras, world
<1>2. DOMAIN cluster' = {"phase", "spec", "status"} /\ cluster'.spec = cluster.spec
  <2>1. CASE resolvePasswords
    BY <2>1 DEF resolvePasswords, resolveManaged, resolveExternal,
       CredentialsError, Status, BackedInv, Fields
  <2>2. CASE resolveAWSBootstrap
    BY <2>2 DEF resolveAWSBootstrap, CredentialsError, Status, BackedInv, Fields
  <2> QED BY <2>1, <2>2 DEF cleanupTLSCertificate, ensureCnfSecret,
             ensureServices, ensureExtras, world, BackedInv, Fields
<1>3. DOMAIN work = DOMAIN Idle /\ DOMAIN owned = DOMAIN Nothing
  BY DEF BackedInv, Fields
<1>4. DOMAIN owned' = DOMAIN Nothing /\ owned'.sts = owned.sts
  <2>1. CASE ensureServices
    BY <2>1, <1>3 DEF ensureServices, ensureExternalService, Nothing
  <2>2. CASE ensureExtras
    BY <2>2, <1>3 DEF ensureExtras, Nothing
  <2>3. CASE ensureCnfSecret
    BY <2>3, <1>3 DEF ensureCnfSecret, Nothing
  <2>4. CASE cleanupTLSCertificate
    BY <2>4, <1>3 DEF cleanupTLSCertificate, Nothing
  <2>5. CASE resolvePasswords \/ resolveAWSBootstrap
    BY <2>5, <1>3 DEF resolvePasswords, resolveAWSBootstrap
  <2> QED BY <2>1, <2>2, <2>3, <2>4, <2>5
<1>5. Carried(work')
  <2>0. /\ Carried(Idle)
        /\ \A pc : Carried([work EXCEPT !.pc = pc])
        /\ {"pc", "spec", "mount", "backend"} \subseteq DOMAIN work
    BY <1>3, IdleFacts, CarriedFacts DEF Idle
  <2>1. ASSUME NEW pc, NEW pw, work' = [work EXCEPT !.pc = pc, !.pw = pw]
        PROVE  Carried(work')
    BY <2>0, <2>1, <1>3 DEF Carried
  <2>2. ASSUME NEW pc, NEW ext, work' = [work EXCEPT !.pc = pc, !.extErr = ext]
        PROVE  Carried(work')
    BY <2>0, <2>2, <1>3 DEF Carried
  <2>3. ASSUME NEW pc, NEW b, work' = [work EXCEPT !.pc = pc, !.status.monitored = b]
        PROVE  Carried(work')
    BY <2>0, <2>3, <1>3 DEF Carried
  <2>4. CASE resolvePasswords
    <3>1. work' = Idle \/ \E pc, pw : work' = [work EXCEPT !.pc = pc, !.pw = pw]
      BY <2>4 DEF resolvePasswords, resolveManaged,
         resolveExternal, mintPasswords, CredentialsError
    <3> QED BY <3>1, <2>0, <2>1
  <2>5. CASE resolveAWSBootstrap
    <3>1. work' = Idle \/ \E pc : work' = [work EXCEPT !.pc = pc]
      BY <2>5 DEF resolveAWSBootstrap, CredentialsError, Goto
    <3> QED BY <3>1, <2>0
  <2>6. CASE cleanupTLSCertificate \/ ensureCnfSecret
    <3>1. \E pc : work' = [work EXCEPT !.pc = pc]
      BY <2>6 DEF cleanupTLSCertificate, ensureCnfSecret, Goto
    <3> QED BY <3>1, <2>0
  <2>7. CASE ensureServices
    <3>1. \/ \E pc : work' = [work EXCEPT !.pc = pc]
          \/ \E pc, ext : work' = [work EXCEPT !.pc = pc, !.extErr = ext]
      BY <2>7 DEF ensureServices, ensureExternalService, Goto
    <3> QED BY <3>1, <2>0, <2>2
  <2>8. CASE ensureExtras
    <3>1. \E pc, b : work' = [work EXCEPT !.pc = pc, !.status.monitored = b]
      BY <2>8 DEF ensureExtras
    <3> QED BY <3>1, <2>3
  <2> QED BY <2>4, <2>5, <2>6, <2>7, <2>8
<1>6. work.pc # "idle"
  BY DEF resolvePasswords, resolveAWSBootstrap, cleanupTLSCertificate,
     ensureCnfSecret, ensureServices, ensureExtras, At
<1>7. /\ DOMAIN work' = DOMAIN Idle
      /\ work'.mount \in {work.mount, None} /\ work'.backend \in {work.backend, None}
      /\ work'.pc # "idle" => work'.spec = work.spec
  BY <1>5 DEF Carried
<1> QED BY <1>1, <1>2, <1>4, <1>6, <1>7, BackedKept DEF BackedInv, Fields

\* Steps of everyone else that leave Secrets and template alone.
LEMMA AsideSteps ==
    ASSUME BackedInv,
           \/ EditSpec \/ DeleteCluster \/ Gone \/ ChangeAuth \/ CacheSync
           \/ ChangeAWS \/ StatefulSetController \/ Provision \/ Squat \/ Tick
    PROVE  BackedInv'
<1>1. secrets' = secrets /\ proven' = proven
  BY DEF EditSpec, DeleteCluster, Gone, ChangeAuth, CacheSync, ChangeAWS,
     StatefulSetController, Provision, Squat, Tick, world
<1>2. DOMAIN cluster' = {"phase", "spec", "status"} /\ cluster'.spec \in AllSpecs
  <2>1. CASE EditSpec
    BY <2>1 DEF EditSpec, BackedInv, Fields, AllSpecs
  <2> QED BY <2>1 DEF DeleteCluster, Gone, ChangeAuth, CacheSync, ChangeAWS,
             StatefulSetController, Provision, Squat, Tick, world, BackedInv, Fields
<1>3. DOMAIN owned' = DOMAIN Nothing /\ owned'.sts = owned.sts
  <2>1. DOMAIN owned = DOMAIN Nothing
    BY DEF BackedInv, Fields
  <2>2. CASE Squat
    BY <2>1, <2>2 DEF Squat, Nothing
  <2>3. CASE Provision
    BY <2>1, <2>3 DEF Provision, Nothing
  <2> QED BY <2>1, <2>2, <2>3 DEF EditSpec, DeleteCluster, Gone, ChangeAuth,
             CacheSync, ChangeAWS, StatefulSetController, Tick
<1>4. /\ DOMAIN work' = DOMAIN Idle
      /\ work'.mount = work.mount /\ work'.backend = work.backend
      /\ work'.pc = work.pc /\ work'.spec = work.spec
  <2>1. work' = work \/ work' = Outdated
    BY DEF EditSpec, DeleteCluster, Gone, ChangeAuth, CacheSync, ChangeAWS,
       StatefulSetController, Provision, Squat, Tick
  <2>2. DOMAIN work = DOMAIN Idle
    BY DEF BackedInv, Fields
  <2> QED BY <2>1, <2>2 DEF Outdated, Idle
<1> QED BY <1>1, <1>2, <1>3, <1>4, BackedKept DEF BackedInv, Fields

\* What the backend asks for is mounted only when it is complete.
LEMMA BackendStep ==
    ASSUME BackedInv, ensureBackend
    PROVE  BackedInv'
<1>1. PICK be :
        /\ be \in {None, work.spec.backend}
        /\ \E e : work' = [work EXCEPT
                    !.pc = "cnf",
                    !.backend = IF be = None \/ validateBackendTLSSecrets(be)
                                THEN be ELSE holdBackendTLSLastGood,
                    !.tlsErr = e]
  <2> DEFINE be == IF work.tls THEN work.spec.backend ELSE None
  <2>1. work' = [work EXCEPT
                    !.pc = "cnf",
                    !.backend = IF be = None \/ validateBackendTLSSecrets(be)
                                THEN be ELSE holdBackendTLSLastGood,
                    !.tlsErr = @ \/ ~(be = None \/ validateBackendTLSSecrets(be))]
    BY DEF ensureBackend
  <2>2. be \in {None, work.spec.backend}
    OBVIOUS
  <2> HIDE DEF be
  <2> QED BY <2>1, <2>2
<1>2. /\ secrets' = secrets /\ proven' = proven /\ owned' = owned
      /\ cluster' = cluster /\ work.pc = "backend"
  BY DEF ensureBackend, world, At
<1> DEFINE held == IF be = None \/ validateBackendTLSSecrets(be)
                   THEN be ELSE holdBackendTLSLastGood
<1>3. BacksAll(held)
  <2>1. work.spec \in AllSpecs
    BY <1>2 DEF BackedInv, Fields
  <2>2. be # None => /\ be.ca \in SecretNames
                     /\ be.client # None => be.client \in SecretNames
    BY <1>1, <2>1, NamesAssumption DEF AllSpecs
  <2>3. validateBackendTLSSecrets(be) => BacksAll(be)
    BY <2>2 DEF validateBackendTLSSecrets, BackedInv, BacksAll
  <2> QED BY <2>3, HoldFacts DEF BacksAll
<1>4. \E e : work' = [work EXCEPT !.pc = "cnf", !.backend = held, !.tlsErr = e]
  BY <1>1
<1> HIDE DEF held
<1>5. /\ DOMAIN work' = DOMAIN Idle /\ work'.mount = work.mount
      /\ work'.backend = held /\ work'.spec = work.spec
  <2>1. DOMAIN work = DOMAIN Idle /\ {"pc", "spec", "mount", "backend"} \subseteq DOMAIN work
    BY DEF BackedInv, Fields, Idle
  <2> QED BY <1>4, <2>1
<1>6. Fields'
  BY <1>2, <1>5 DEF BackedInv, Fields
<1> QED BY <1>2, <1>3, <1>5, <1>6 DEF BackedInv, Complete, Backs, BacksAll, NeverDangling

\* The template gets what the pass mounts.
LEMMA TemplateStep ==
    ASSUME BackedInv, applyTemplate
    PROVE  BackedInv'
<1>1. /\ secrets' = secrets /\ proven' = proven
      /\ owned' = [owned EXCEPT !.sts = Template] /\ work.pc = "sts"
  BY DEF applyTemplate, ensureStatefulSet, At
<1>2. DOMAIN cluster' = {"phase", "spec", "status"} /\ cluster'.spec = cluster.spec
  BY DEF applyTemplate, BackedInv, Fields
<1>3. work' = Idle \/ \E pc, rot : work' = [work EXCEPT !.pc = pc, !.rotErr = rot]
  BY DEF applyTemplate, Fail
<1>4. /\ DOMAIN work' = DOMAIN Idle
      /\ work'.mount \in {work.mount, None} /\ work'.backend \in {work.backend, None}
      /\ work'.pc # "idle" => work'.spec = work.spec
  <2>1. DOMAIN work = DOMAIN Idle /\ {"pc", "spec", "mount", "backend"} \subseteq DOMAIN work
    BY DEF BackedInv, Fields, Idle
  <2>2. CASE work' = Idle
    BY <2>2, IdleFacts DEF Carried
  <2>3. ASSUME NEW pc, NEW rot, work' = [work EXCEPT !.pc = pc, !.rotErr = rot]
        PROVE  /\ DOMAIN work' = DOMAIN Idle
               /\ work'.mount \in {work.mount, None}
               /\ work'.backend \in {work.backend, None}
               /\ work'.pc # "idle" => work'.spec = work.spec
    BY <2>1, <2>3
  <2> QED BY <1>3, <2>2, <2>3
<1>5. DOMAIN owned' = DOMAIN Nothing /\ owned'.sts = Template
  BY <1>1 DEF BackedInv, Fields, Nothing
<1>6. Template.tls = work.mount /\ Template.backend = work.backend
  BY DEF Template
<1>7. Fields'
  BY <1>1, <1>2, <1>4, <1>5 DEF BackedInv, Fields
<1>8. NeverDangling'
  BY <1>1, <1>5, <1>6, SMT DEF BackedInv, NeverDangling, Backs, BacksAll
<1> QED BY <1>1, <1>4, <1>7, <1>8 DEF BackedInv, Complete, Backs, BacksAll

\* The garbage collector takes the template with the Secrets.
LEMMA CollectStep ==
    ASSUME BackedInv, Collect
    PROVE  BackedInv'
<1>1. /\ owned' = Left(owned) /\ secrets' = LeftSecrets
      /\ cluster' = cluster /\ proven' = proven /\ work' = work
  BY DEF Collect
<1>2. DOMAIN Left(owned) = DOMAIN Nothing /\ Left(owned).sts = None
  BY DEF Left, Nothing
<1>3. /\ DOMAIN LeftSecrets = SecretNames
      /\ \A n \in SecretNames : LeftSecrets[n] \in {None, secrets[n]}
  BY DEF LeftSecrets
<1>4. Fields'
  BY <1>1, <1>2, <1>3 DEF BackedInv, Fields
<1> QED BY <1>1, <1>2, <1>3, <1>4 DEF BackedInv, Complete, Backs, BacksAll, NeverDangling

\* Users and cert-manager write Secrets.
LEMMA OtherStores ==
    ASSUME BackedInv,
           CertManager \/ \E n \in SecretNames : BreakSecret(n) \/ BringSecret(n)
    PROVE  BackedInv'
<1>1. cluster' = cluster /\ owned' = owned /\ work' = work
  BY DEF CertManager, BreakSecret, BringSecret
<1>2. PICK n \in SecretNames : \E s : Store([secrets EXCEPT ![n] = s])
  <2>1. "tls" \in SecretNames
    BY DEF SecretNames
  <2> QED BY <2>1 DEF CertManager, BreakSecret, BringSecret
<1>3. proven \subseteq proven' /\ DOMAIN secrets' = SecretNames
  BY <1>2 DEF Store, BackedInv, Fields
<1>4. Fields' /\ Backs(work.mount)'
  BY <1>1, <1>3 DEF BackedInv, Fields, Backs
<1> QED BY <1>1, <1>2, <1>4, BackedStore

----------------------------------------------------------------------------
(* Certificates. *)

MaterialTypes ==
    /\ now \in Nat /\ minted \in Nat
    /\ secrets \in [SecretNames -> Materials \cup {None}]
    /\ work.pc = "serving" => work.ca \in Materials

\* A certificate issued now for that spec ends before the CA, unless no CA could
\* last that long.
CAOutlasts(ca, spec) ==
    now + spec.duration <= ca.notAfter \/ spec.duration > CADuration

\* ServingOutlivedByCA is kept because identities of CAs are never used again,
\* and because the CA a pass holds lasts for a certificate issued now and is
\* the stored one, if that has its identity.
Lasting ==
    /\ secrets["ca"] # None => secrets["ca"].ca <= minted
    /\ secrets["tls"] # None /\ secrets["tls"].by = "self" =>
         secrets["tls"].ca <= minted
    /\ work.pc = "serving" =>
         /\ CAOutlasts(work.ca, work.spec)
         /\ work.ca.ca <= minted
         /\ secrets["ca"] # None /\ secrets["ca"].ca = work.ca.ca =>
              secrets["ca"].notAfter = work.ca.notAfter
    /\ ServingOutlivedByCA

PassCore == BackedInv /\ MaterialTypes /\ Lasting

\* What is asked of cert-manager is some spec's.
Certificates == [sans : SUBSET STRING, duration : Nat, renewBefore : Nat]
Certified == owned.cert \in Certificates \cup {None}

PassInv == PassCore /\ Certified

\* What is issued has its keys and is not None.
Issued(m, by, ca, sans, life, notAfter) ==
    /\ m \in Materials /\ m # None /\ m.full
    /\ m.by = by /\ m.ca = ca /\ m.sans = sans
    /\ m.life = life /\ m.notAfter = notAfter

\* Material makes that.
LEMMA MaterialFacts ==
    ASSUME NEW by \in {"self", "issuer", "user"}, NEW ca \in Nat,
           NEW sans \in SUBSET STRING, NEW notBefore \in Nat, NEW life \in Nat
    PROVE  Issued(Material(by, ca, sans, notBefore, life),
                  by, ca, sans, life, notBefore + life)
<1>1. notBefore + life \in Nat
  BY SMT
<1>2. PICK notAfter \in Nat : notAfter = notBefore + life
  BY <1>1
<1>3. [full |-> TRUE, by |-> by, ca |-> ca, sans |-> sans, life |-> life,
       notAfter |-> notAfter] \in Materials
  BY DEF Materials
<1>4. Material(by, ca, sans, notBefore, life) \in Materials
  BY <1>2, <1>3 DEF Material
<1>5. /\ Material(by, ca, sans, notBefore, life).full
      /\ Material(by, ca, sans, notBefore, life).by = by
      /\ Material(by, ca, sans, notBefore, life).ca = ca
      /\ Material(by, ca, sans, notBefore, life).sans = sans
      /\ Material(by, ca, sans, notBefore, life).life = life
      /\ Material(by, ca, sans, notBefore, life).notAfter = notBefore + life
  BY DEF Material
<1> QED BY <1>4, <1>5, MaterialAssumption DEF Issued

\* What a spec says of certificates.
LEMMA LifeFacts ==
    ASSUME NEW spec \in AllSpecs
    PROVE  /\ spec.duration \in Nat /\ spec.renewBefore \in Nat
           /\ CADuration \in Nat /\ SANsFor(spec) \in SUBSET STRING
           /\ Certificate(spec) \in Certificates
<1>1. spec.duration \in Nat /\ spec.renewBefore \in Nat /\ CADuration \in Nat
  BY LifeAssumption DEF AllSpecs
<1>2. SANsFor(spec) \in SUBSET STRING
  BY MaterialAssumption DEF SANsFor, AllSpecs
<1> QED BY <1>1, <1>2 DEF Certificate, Certificates

\* Steps that touch neither the Secrets nor the time, and sign nothing.
LEMMA LastingKept ==
    ASSUME MaterialTypes, Lasting,
           secrets' = secrets, now' = now, minted' \in {minted, minted + 1},
           work'.pc = "serving" =>
             work.pc = "serving" /\ work'.ca = work.ca /\ work'.spec = work.spec
    PROVE  MaterialTypes' /\ Lasting'
<1>1. \A n \in SecretNames : secrets[n] # None => secrets[n].ca \in Nat
  BY DEF MaterialTypes, Materials
<1>2. {"tls", "ca"} \subseteq SecretNames
  BY DEF SecretNames
<1>3. minted \in Nat /\ (work.pc = "serving" => work.ca.ca \in Nat)
  BY DEF MaterialTypes, Materials
<1>4. MaterialTypes'
  BY SMT DEF MaterialTypes
<1>5. ServingOutlivedByCA'
  BY DEF Lasting, ServingOutlivedByCA
<1>6. /\ secrets'["ca"] # None => secrets'["ca"].ca <= minted'
      /\ secrets'["tls"] # None /\ secrets'["tls"].by = "self" =>
           secrets'["tls"].ca <= minted'
  BY <1>1, <1>2, <1>3, SMT DEF Lasting
<1>7. work'.pc = "serving" =>
         /\ CAOutlasts(work.ca, work.spec)'
         /\ work'.ca.ca <= minted'
         /\ secrets'["ca"] # None /\ secrets'["ca"].ca = work'.ca.ca =>
              secrets'["ca"].notAfter = work'.ca.notAfter
  <2>1. work'.pc = "serving" => CAOutlasts(work.ca, work.spec)'
    BY DEF Lasting, CAOutlasts
  <2>2. work.pc = "serving" => work.ca.ca <= minted'
    BY <1>3, SMT DEF Lasting
  <2> QED BY <2>1, <2>2 DEF Lasting
<1> QED BY <1>4, <1>5, <1>6, <1>7 DEF Lasting

\* A CA minted now lasts for a certificate issued now.
LEMMA FreshCALasts ==
    ASSUME MaterialTypes, NEW spec \in AllSpecs
    PROVE  /\ NewCA \in Materials /\ NewCA # None /\ NewCA.full
           /\ NewCA.ca = minted + 1
           /\ CAOutlasts(NewCA, spec)
<1>1. now \in Nat /\ minted + 1 \in Nat /\ {} \in SUBSET STRING
  BY SMT DEF MaterialTypes
<1>2. /\ NewCA \in Materials /\ NewCA # None /\ NewCA.full
      /\ NewCA.ca = minted + 1 /\ NewCA.notAfter = now + CADuration
  <2>1. Issued(NewCA, "self", minted + 1, {}, CADuration, now + CADuration)
    BY <1>1, LifeFacts, MaterialFacts DEF NewCA
  <2> QED BY <2>1 DEF Issued
<1>3. now + spec.duration <= now + CADuration \/ spec.duration > CADuration
  BY <1>1, LifeFacts, SMT
<1> QED BY <1>2, <1>3 DEF CAOutlasts

\* A step of a pass after which it holds no CA.
LEMMA NotServing ==
    ASSUME Fields,
           \/ Reconcile \/ resolvePasswords \/ resolveAWSBootstrap
           \/ ensureSelfSignedServing \/ cleanupTLSCertificate \/ ensureBackend
           \/ ensureCnfSecret \/ ensureServices \/ applyTemplate \/ ensureExtras
           \/ updateStatus \/ CallFails \/ CredentialsCallFails \/ Crash
    PROVE  work'.pc # "serving"
<1>1. "pc" \in DOMAIN work /\ "pc" \in DOMAIN Idle /\ Idle.pc = "idle"
  BY DEF Fields, Idle
<1>2. CASE updateStatus \/ CallFails \/ CredentialsCallFails \/ Crash
  BY <1>1, <1>2 DEF updateStatus, CallFails, CredentialsCallFails, Crash, Fail
<1>3. CASE Reconcile
  BY <1>1, <1>3 DEF Reconcile
<1>4. CASE resolvePasswords
  <2>1. work' = Idle \/ \E pw : work' = [work EXCEPT !.pc = "aws", !.pw = pw]
    BY <1>4 DEF resolvePasswords, resolveManaged, resolveExternal,
       mintPasswords, CredentialsError
  <2> QED BY <1>1, <2>1
<1>5. CASE resolveAWSBootstrap
  BY <1>1, <1>5 DEF resolveAWSBootstrap, CredentialsError, Goto
<1>6. CASE ensureSelfSignedServing
  BY <1>1, <1>6 DEF ensureSelfSignedServing, Mounted, holdTLSLastGood
<1>7. CASE cleanupTLSCertificate \/ ensureCnfSecret
  BY <1>1, <1>7 DEF cleanupTLSCertificate, ensureCnfSecret, Goto
<1>8. CASE ensureBackend
  BY <1>1, <1>8 DEF ensureBackend
<1>9. CASE ensureServices
  BY <1>1, <1>9 DEF ensureServices, ensureExternalService, Goto
<1>10. CASE applyTemplate
  BY <1>1, <1>10 DEF applyTemplate, Fail
<1>11. CASE ensureExtras
  BY <1>1, <1>11 DEF ensureExtras
<1> QED BY <1>2, <1>3, <1>4, <1>5, <1>6, <1>7, <1>8, <1>9, <1>10, <1>11

\* A pass goes on to mount what has been complete.
Mounting(w) ==
    /\ DOMAIN w = DOMAIN Idle /\ w.spec = work.spec /\ w.backend = work.backend
    /\ Backs(w.mount) /\ w.pc # "serving"

\* Holding what is mounted, mounting what is complete, and leaving it at that.
LEMMA MountingFacts ==
    ASSUME BackedInv
    PROVE  /\ Mounting(holdTLSLastGood(work))
           /\ \A pc, n : pc # "serving" /\ Backs(n) => Mounting(Mounted(pc, n))
           /\ \A pc : pc # "serving" => Mounting([work EXCEPT !.pc = pc])
<1>1. /\ DOMAIN work = DOMAIN Idle
      /\ {"pc", "spec", "tls", "mount", "backend", "tlsErr"} \subseteq DOMAIN work
  BY DEF BackedInv, Fields, Idle
<1>2. holdTLSLastGood(work).pc = "backend"
  BY <1>1 DEF holdTLSLastGood
<1>3. \A pc, n : Mounted(pc, n).pc = pc
  BY <1>1 DEF Mounted
<1>4. \A pc : pc # "serving" => Mounting([work EXCEPT !.pc = pc])
  BY <1>1 DEF Mounting, BackedInv
<1>5. Mounting(holdTLSLastGood(work))
  BY <1>2, HoldFacts DEF Mounting
<1>6. \A pc, n : pc # "serving" /\ Backs(n) => Mounting(Mounted(pc, n))
  BY <1>3, MountedFacts DEF Mounting
<1> QED BY <1>4, <1>5, <1>6

\* Such a step, when it writes no Secret.
LEMMA MountingStep ==
    ASSUME PassCore, Mounting(work'),
           secrets' = secrets, proven' = proven, now' = now, minted' = minted,
           cluster' = cluster, owned'.sts = owned.sts,
           DOMAIN owned' = DOMAIN Nothing, work.pc # "idle"
    PROVE  PassCore'
<1>1. MaterialTypes' /\ Lasting'
  BY LastingKept DEF PassCore, Mounting
<1>2. Fields'
  BY DEF PassCore, BackedInv, Fields, Mounting
<1>3. Backs(work.mount)' /\ BacksAll(work.backend)'
  BY DEF PassCore, BackedInv, Mounting, Backs, BacksAll
<1>4. NeverDangling' /\ \A n \in SecretNames : Complete(n)' => n \in proven'
  BY DEF PassCore, BackedInv, NeverDangling, Complete
<1> QED BY <1>1, <1>2, <1>3, <1>4 DEF PassCore, BackedInv

\* The tiers other than the operator's own.
LEMMA TierSteps ==
    ASSUME PassCore, ensureTLSSecrets,
           ensureUserSecret \/ ensureTLSCertificate \/ NoTLS
    PROVE  PassCore'
<1>1. /\ secrets' = secrets /\ proven' = proven /\ now' = now /\ minted' = minted
      /\ cluster' = cluster /\ work.pc = "tls"
  BY DEF ensureTLSSecrets, ensureUserSecret, ensureTLSCertificate, NoTLS, At
<1>2. owned'.sts = owned.sts /\ DOMAIN owned' = DOMAIN Nothing
  BY DEF ensureUserSecret, ensureTLSCertificate, NoTLS, PassCore, BackedInv,
     Fields, Nothing
<1>3. BackedInv /\ work.spec \in AllSpecs
  BY <1>1 DEF PassCore, BackedInv, Fields
<1>4. \A n \in SecretNames : Complete(n) => Backs(n)
  BY DEF PassCore, BackedInv, Backs
<1>5. Mounting(work')
  <2>1. CASE ensureUserSecret
    <3>1. work.spec.secret \in SecretNames
      BY <2>1, <1>3, NamesAssumption DEF ensureUserSecret, AllSpecs
    <3>2. \/ work' = holdTLSLastGood(work)
          \/ Complete(work.spec.secret) /\ work' = Mounted("gc", work.spec.secret)
      BY <2>1 DEF ensureUserSecret
    <3> QED BY <3>1, <3>2, <1>3, <1>4, MountingFacts
  <2>2. CASE ensureTLSCertificate
    <3>1. \/ work' = holdTLSLastGood(work)
          \/ Complete("tls") /\ work' = Mounted("backend", "tls")
      BY <2>2 DEF ensureTLSCertificate
    <3>2. "tls" \in SecretNames
      BY DEF SecretNames
    <3> QED BY <3>1, <3>2, <1>3, <1>4, MountingFacts
  <2>3. CASE NoTLS
    <3>1. PICK pc \in {"gc", "backend"} : work' = [work EXCEPT !.pc = pc]
      BY <2>3 DEF NoTLS, Goto
    <3>2. pc # "serving"
      OBVIOUS
    <3>3. \A p : p # "serving" => Mounting([work EXCEPT !.pc = p])
      BY <1>3, MountingFacts
    <3> QED BY <3>1, <3>2, <3>3
  <2> QED BY <2>1, <2>2, <2>3
<1> QED BY <1>1, <1>2, <1>5, MountingStep

\* A CA that lasts is stored, and held for signing.
LEMMA CAStored ==
    ASSUME PassCore, NEW ca, ca \in Materials, ca # None,
           CAOutlasts(ca, work.spec),
           \/ ca = secrets["ca"] /\ minted' = minted
           \/ ca.ca = minted + 1 /\ minted' = minted + 1,
           Store([secrets EXCEPT !["ca"] = ca]),
           work' = [work EXCEPT !.pc = "serving", !.ca = ca],
           now' = now, cluster' = cluster, owned' = owned, work.pc = "tls"
    PROVE  PassCore'
<1>1. /\ DOMAIN work = DOMAIN Idle
      /\ {"pc", "spec", "mount", "backend", "ca"} \subseteq DOMAIN work
      /\ {"tls", "ca"} \subseteq SecretNames
  BY DEF PassCore, BackedInv, Fields, Idle, SecretNames
<1>2. /\ DOMAIN work' = DOMAIN Idle /\ work'.pc = "serving" /\ work'.ca = ca
      /\ work'.mount = work.mount /\ work'.backend = work.backend
      /\ work'.spec = work.spec
  BY <1>1
<1>3. secrets' = [secrets EXCEPT !["ca"] = ca] /\ proven \subseteq proven'
  BY DEF Store
<1>4. /\ secrets \in [SecretNames -> Materials \cup {None}]
      /\ now \in Nat /\ minted \in Nat
  BY DEF PassCore, MaterialTypes
<1>5. MaterialTypes'
  <2>1. secrets' \in [SecretNames -> Materials \cup {None}]
    BY <1>3, <1>4
  <2>2. minted' \in Nat
    BY <1>4, SMT
  <2> QED BY <2>1, <2>2, <1>2, <1>4 DEF MaterialTypes
<1>6. Fields'
  BY <1>2, <1>3, <1>4 DEF PassCore, BackedInv, Fields
<1>7. BackedInv'
  <2>1. Backs(work.mount)'
    BY <1>2, <1>3 DEF PassCore, BackedInv, Backs
  <2> QED BY <2>1, <1>2, <1>6, BackedStore DEF PassCore
<1>8. secrets'["ca"] = ca /\ secrets'["tls"] = secrets["tls"] /\ ca.ca \in Nat
  BY <1>1, <1>3, <1>4 DEF Materials
<1>9. /\ ca.ca <= minted'
      /\ secrets["tls"] # None /\ secrets["tls"].by = "self" =>
           secrets["tls"].ca <= minted'
  <2>1. secrets["tls"] # None => secrets["tls"].ca \in Nat
    BY <1>1, <1>4 DEF Materials
  <2> QED BY <2>1, <1>4, <1>8, SMT DEF PassCore, Lasting
<1>10. secrets["tls"] # None /\ secrets["tls"].by = "self" /\ secrets["tls"].ca = ca.ca
         => secrets["tls"].notAfter <= ca.notAfter \/ secrets["tls"].life > CADuration
  <2>1. CASE ca = secrets["ca"]
    BY <2>1 DEF PassCore, Lasting, ServingOutlivedByCA
  <2>2. CASE ca.ca = minted + 1
    BY <2>2, <1>4, SMT DEF PassCore, Lasting
  <2> QED BY <2>1, <2>2
<1>11. Lasting'
  BY <1>2, <1>8, <1>9, <1>10 DEF Lasting, ServingOutlivedByCA, CAOutlasts
<1> QED BY <1>5, <1>7, <1>11 DEF PassCore

\* The operator's CA is kept or minted.
LEMMA CAStep ==
    ASSUME PassCore, ensureTLSSecrets, ensureSelfSignedCA
    PROVE  PassCore'
<1>1. /\ now' = now /\ cluster' = cluster /\ owned' = owned /\ work.pc = "tls"
      /\ BackedInv /\ MaterialTypes /\ Lasting /\ DOMAIN owned = DOMAIN Nothing
  BY DEF ensureTLSSecrets, ensureSelfSignedCA, At, PassCore, BackedInv, Fields
<1> DEFINE ca == IF KeepCA THEN secrets["ca"] ELSE NewCA
<1>2. \/ /\ work' = holdTLSLastGood(work)
         /\ secrets' = secrets /\ proven' = proven /\ minted' = minted
      \/ /\ Store([secrets EXCEPT !["ca"] = ca])
         /\ minted' = IF KeepCA THEN minted ELSE minted + 1
         /\ work' = [work EXCEPT !.pc = "serving", !.ca = ca]
  BY DEF ensureSelfSignedCA
<1>3. CASE /\ work' = holdTLSLastGood(work)
           /\ secrets' = secrets /\ proven' = proven /\ minted' = minted
  BY <1>1, <1>3, MountingFacts, MountingStep
<1>4. ASSUME Store([secrets EXCEPT !["ca"] = ca]),
             minted' = IF KeepCA THEN minted ELSE minted + 1,
             work' = [work EXCEPT !.pc = "serving", !.ca = ca]
      PROVE  PassCore'
  <2>1. /\ now \in Nat /\ minted \in Nat
        /\ secrets \in [SecretNames -> Materials \cup {None}]
        /\ "ca" \in SecretNames /\ "tls" \in SecretNames
        /\ work.spec \in AllSpecs
    BY <1>1 DEF MaterialTypes, SecretNames, BackedInv, Fields
  <2>2. CASE KeepCA
    <3>1. ca = secrets["ca"] /\ minted' = minted
      BY <1>4, <2>2
    <3>2. /\ ca # None /\ ca \in Materials
          /\ ~(ca.notAfter < now + (work.spec.duration + work.spec.renewBefore))
      BY <2>1, <2>2, <3>1 DEF KeepCA, NeedsRenewal
    <3>3. ca.notAfter \in Nat
      BY <3>2 DEF Materials
    <3>4. now + work.spec.duration <= ca.notAfter
      BY <2>1, <3>2, <3>3, LifeFacts, SMT
    <3>5. CAOutlasts(ca, work.spec)
      BY <3>4 DEF CAOutlasts
    <3> QED BY <3>1, <3>2, <3>5, <1>1, <1>4, <2>1, CAStored
  <2>3. CASE ~KeepCA
    <3>1. ca = NewCA /\ minted' = minted + 1
      BY <1>4, <2>3
    <3> QED BY <3>1, FreshCALasts, <1>1, <1>4, <2>1, CAStored
  <2> QED BY <2>2, <2>3
<1> QED BY <1>2, <1>3, <1>4

\* The serving certificate is kept, or issued with the CA of the pass.
LEMMA ServingStep ==
    ASSUME PassCore, ensureSelfSignedServing
    PROVE  PassCore'
<1> DEFINE new == IssueServing(work.ca, work.spec)
           reissue == servingReissueNeeded(secrets["tls"], work.ca, work.spec)
           s == IF reissue THEN [secrets EXCEPT !["tls"] = new] ELSE secrets
<1>1. /\ now' = now /\ cluster' = cluster /\ owned' = owned /\ minted' = minted
      /\ work.pc = "serving"
      /\ BackedInv /\ MaterialTypes /\ Lasting /\ DOMAIN owned = DOMAIN Nothing
  BY DEF ensureSelfSignedServing, At, PassCore, BackedInv, Fields
<1>2. \/ /\ work' = holdTLSLastGood(work)
         /\ secrets' = secrets /\ proven' = proven
      \/ work' = Mounted("gc", "tls") /\ Store(s)
  BY DEF ensureSelfSignedServing
<1>3. CASE /\ work' = holdTLSLastGood(work)
           /\ secrets' = secrets /\ proven' = proven
  BY <1>1, <1>3, MountingFacts, MountingStep
<1>4. /\ secrets \in [SecretNames -> Materials \cup {None}]
      /\ now \in Nat /\ minted \in Nat /\ work.ca \in Materials
      /\ {"tls", "ca"} \subseteq SecretNames /\ work.spec \in AllSpecs
  BY <1>1 DEF MaterialTypes, SecretNames, BackedInv, Fields
<1>5. Issued(new, "self", work.ca.ca, SANsFor(work.spec), work.spec.duration,
             now + work.spec.duration)
  <2>1. work.ca.ca \in Nat
    BY <1>4 DEF Materials
  <2> QED BY <1>4, <2>1, LifeFacts, MaterialFacts DEF IssueServing
<1>6. ASSUME work' = Mounted("gc", "tls"), Store(s)
      PROVE  PassCore'
  <2>1. s \in [SecretNames -> Materials \cup {None}]
    <3> HIDE DEF new, reissue
    <3> QED BY <1>4, <1>5 DEF Issued
  <2>2. s["ca"] = secrets["ca"] /\ s["tls"] = IF reissue THEN new ELSE secrets["tls"]
    <3> HIDE DEF new, reissue
    <3> QED BY <1>4
  <2>3. s["tls"] # None /\ s["tls"].full
    <3>1. CASE reissue
      BY <3>1, <2>2, <1>5 DEF Issued
    <3>2. CASE ~reissue
      BY <3>2, <2>2 DEF servingReissueNeeded, NeedsRenewal
    <3> QED BY <3>1, <3>2
  <2>4. secrets' = s /\ "tls" \in proven' /\ proven \subseteq proven'
    BY <1>4, <1>6, <2>3 DEF Store
  <2>5. /\ DOMAIN work' = DOMAIN Idle /\ work'.spec = work.spec
        /\ work'.backend = work.backend /\ work'.mount = "tls"
    BY <1>1, <1>6, MountedFacts, ZenonT(30)
  <2>6. work'.pc # "serving"
    BY <1>1, NotServing DEF BackedInv
  <2>7. Fields' /\ Backs(work.mount)'
    BY <1>1, <2>1, <2>4, <2>5 DEF BackedInv, Fields, Backs
  <2>8. BackedInv'
    BY <1>1, <1>6, <2>5, <2>7, BackedStore
  <2>9. MaterialTypes'
    BY <1>1, <1>4, <2>1, <2>4, <2>6 DEF MaterialTypes
  <2>10. Lasting'
    <3>1. CASE reissue
      <4>1. s["tls"] = new
        BY <3>1, <2>2
      <4> HIDE DEF new, s
      <4> QED BY <4>1, <1>1, <1>5, <2>2, <2>4, <2>6
                 DEF Lasting, ServingOutlivedByCA, Issued, CAOutlasts
    <3>2. CASE ~reissue
      <4>1. s["tls"] = secrets["tls"]
        BY <3>2, <2>2
      <4> HIDE DEF new, s
      <4> QED BY <4>1, <1>1, <2>2, <2>4, <2>6 DEF Lasting, ServingOutlivedByCA
    <3> QED BY <3>1, <3>2
  <2> QED BY <2>8, <2>9, <2>10 DEF PassCore
<1> QED BY <1>2, <1>3, <1>6

\* cert-manager issues what its Certificate asks for.
IssuedByCertManager(m) ==
    Issued(m, "issuer", 0, owned.cert.sans, owned.cert.duration,
           now + owned.cert.duration)

LEMMA CertManagerFacts ==
    ASSUME Certified, owned.cert # None, now \in Nat
    PROVE  IssuedByCertManager(Material("issuer", 0, owned.cert.sans, now,
                                        owned.cert.duration))
<1>1. owned.cert.sans \in SUBSET STRING /\ owned.cert.duration \in Nat /\ 0 \in Nat
  BY SMT DEF Certified, Certificates
<1> QED BY <1>1, MaterialFacts DEF IssuedByCertManager

\* What others do to Secrets invents no certificate of the operator's.
LEMMA OtherStoresLast ==
    ASSUME PassCore, Certified,
           CertManager \/ \E n \in SecretNames : BreakSecret(n) \/ BringSecret(n)
    PROVE  MaterialTypes' /\ Lasting'
<1>1. now' = now /\ minted' = minted /\ work' = work
  BY DEF CertManager, BreakSecret, BringSecret
<1>2. /\ secrets \in [SecretNames -> Materials \cup {None}]
      /\ now \in Nat /\ minted \in Nat
      /\ {"tls", "ca"} \subseteq SecretNames
  BY DEF PassCore, MaterialTypes, SecretNames
<1>3. PICK n \in SecretNames, s \in Materials \cup {None} :
        /\ secrets' = [secrets EXCEPT ![n] = s]
        /\ \/ s = None
           \/ n # "ca" /\ s.by # "self"
           \/ /\ secrets[n] # None /\ s.by = secrets[n].by /\ s.ca = secrets[n].ca
              /\ s.life = secrets[n].life /\ s.notAfter = secrets[n].notAfter
  <2>1. CASE CertManager
    <3> DEFINE s == Material("issuer", 0, owned.cert.sans, now, owned.cert.duration)
    <3>1. secrets' = [secrets EXCEPT !["tls"] = s]
      BY <2>1 DEF CertManager, Store
    <3>2. IssuedByCertManager(s)
      BY <1>2, <2>1, CertManagerFacts DEF CertManager
    <3> HIDE DEF s
    <3>3. s \in Materials \cup {None} /\ s.by # "self" /\ "tls" \in SecretNames
      BY <3>2, <1>2 DEF IssuedByCertManager, Issued
    <3> QED BY <3>1, <3>3
  <2>2. ASSUME NEW n \in SecretNames, BringSecret(n)
        PROVE  \E m \in SecretNames, s \in Materials \cup {None} :
                 secrets' = [secrets EXCEPT ![m] = s] /\ m # "ca" /\ s.by # "self"
    <3> DEFINE s == Material("user", 0, {}, 0, 0)
    <3>1. secrets' = [secrets EXCEPT ![n] = s] /\ n # "ca"
      BY <2>2, NamesAssumption DEF BringSecret, Store
    <3>2. Issued(s, "user", 0, {}, 0, 0 + 0)
      <4>1. 0 \in Nat /\ {} \in SUBSET STRING
        BY SMT
      <4> QED BY <4>1, MaterialFacts
    <3> HIDE DEF s
    <3> QED BY <3>1, <3>2 DEF Issued
  <2>3. ASSUME NEW n \in SecretNames, BreakSecret(n)
        PROVE  \E s \in Materials \cup {None} :
                 /\ secrets' = [secrets EXCEPT ![n] = s]
                 /\ \/ s = None
                    \/ /\ secrets[n] # None /\ s.by = secrets[n].by
                       /\ s.ca = secrets[n].ca /\ s.life = secrets[n].life
                       /\ s.notAfter = secrets[n].notAfter
    <3>1. PICK full \in BOOLEAN :
            \E s \in {None, [secrets[n] EXCEPT !.full = full]} :
              secrets' = [secrets EXCEPT ![n] = s]
      <4>1. FALSE \in BOOLEAN
        OBVIOUS
      <4> QED BY <2>3, <4>1 DEF BreakSecret, Store
    <3>2. secrets[n] # None /\ secrets[n] \in Materials
      BY <1>2, <2>3 DEF BreakSecret, Complete
    <3> DEFINE t == [secrets[n] EXCEPT !.full = full]
    <3>3. /\ t \in Materials /\ t.by = secrets[n].by
          /\ t.ca = secrets[n].ca /\ t.life = secrets[n].life
          /\ t.notAfter = secrets[n].notAfter
      BY <3>2 DEF Materials
    <3>4. \E s \in {None, t} : secrets' = [secrets EXCEPT ![n] = s]
      BY <3>1
    <3> HIDE DEF t
    <3> QED BY <3>2, <3>3, <3>4
  <2> QED BY <2>1, <2>2, <2>3
<1>4. secrets' \in [SecretNames -> Materials \cup {None}]
  BY <1>2, <1>3
<1>5. MaterialTypes'
  BY <1>1, <1>4 DEF PassCore, MaterialTypes
<1>6. \/ secrets'["ca"] = None
      \/ /\ secrets["ca"] # None /\ secrets'["ca"].ca = secrets["ca"].ca
         /\ secrets'["ca"].notAfter = secrets["ca"].notAfter
  BY <1>2, <1>3
<1>7. \/ secrets'["tls"] = None
      \/ secrets'["tls"].by # "self"
      \/ /\ secrets["tls"] # None /\ secrets'["tls"].by = secrets["tls"].by
         /\ secrets'["tls"].ca = secrets["tls"].ca
         /\ secrets'["tls"].life = secrets["tls"].life
         /\ secrets'["tls"].notAfter = secrets["tls"].notAfter
  BY <1>2, <1>3
<1>8. Lasting'
  BY <1>1, <1>6, <1>7 DEF PassCore, Lasting, ServingOutlivedByCA, CAOutlasts
<1> QED BY <1>5, <1>8

\* The garbage collector takes certificates with their CA, and time passes
\* only when no pass holds a CA.
LEMMA CollectTickLast ==
    ASSUME PassCore, Collect \/ Tick
    PROVE  MaterialTypes' /\ Lasting'
<1>1. {"tls", "ca"} \subseteq SecretNames
  BY DEF SecretNames
<1>2. CASE Collect
  <2>1. now' = now /\ minted' = minted /\ work' = work /\ secrets' = LeftSecrets
    BY <1>2 DEF Collect
  <2>2. \A n \in SecretNames : LeftSecrets[n] \in {None, secrets[n]}
    BY DEF LeftSecrets
  <2>3. LeftSecrets \in [SecretNames -> Materials \cup {None}]
    BY DEF LeftSecrets, PassCore, MaterialTypes
  <2>4. MaterialTypes'
    BY <2>1, <2>3 DEF PassCore, MaterialTypes
  <2>5. secrets'["ca"] \in {None, secrets["ca"]} /\ secrets'["tls"] \in {None, secrets["tls"]}
    BY <1>1, <2>1, <2>2
  <2>6. Lasting'
    BY <2>1, <2>5 DEF PassCore, Lasting, ServingOutlivedByCA, CAOutlasts
  <2> QED BY <2>4, <2>6
<1>3. CASE Tick
  <2>1. /\ minted' = minted /\ work' = work /\ secrets' = secrets
        /\ work.pc = "idle" /\ now' \in now + 1 .. MaxNow
    BY <1>3 DEF Tick, At
  <2>2. now' \in Nat
    BY <2>1, SMT DEF PassCore, MaterialTypes
  <2> QED BY <2>1, <2>2 DEF PassCore, MaterialTypes, Lasting, ServingOutlivedByCA
<1> QED BY <1>2, <1>3

\* Steps of a pass that are not about TLS.
LEMMA PassLast ==
    ASSUME PassCore,
           \/ Reconcile \/ resolvePasswords \/ resolveAWSBootstrap
           \/ cleanupTLSCertificate \/ ensureBackend \/ ensureCnfSecret
           \/ ensureServices \/ applyTemplate \/ ensureExtras
           \/ updateStatus \/ CallFails \/ CredentialsCallFails \/ Crash
    PROVE  MaterialTypes' /\ Lasting'
<1>1. work'.pc # "serving"
  BY NotServing DEF PassCore, BackedInv
<1>2. secrets' = secrets /\ now' = now
  BY DEF Reconcile, resolvePasswords, resolveAWSBootstrap,
     cleanupTLSCertificate, ensureBackend, ensureCnfSecret, ensureServices,
     applyTemplate, ensureExtras, updateStatus, CallFails,
     CredentialsCallFails, Crash, world
<1>3. minted' \in {minted, minted + 1}
  <2>1. CASE resolvePasswords
    BY <2>1 DEF resolvePasswords, resolveManaged, resolveExternal, mintPasswords
  <2>2. CASE resolveAWSBootstrap
    BY <2>2 DEF resolveAWSBootstrap, ensureRDSCredentials
  <2> QED BY <2>1, <2>2 DEF Reconcile, cleanupTLSCertificate, ensureBackend,
             ensureCnfSecret, ensureServices, applyTemplate, ensureExtras,
             updateStatus, CallFails, CredentialsCallFails, Crash, world
<1> QED BY <1>1, <1>2, <1>3, LastingKept DEF PassCore

\* Steps of everyone else that are not about TLS.
LEMMA AsideLast ==
    ASSUME PassCore,
           \/ EditSpec \/ DeleteCluster \/ Gone \/ ChangeAuth \/ CacheSync
           \/ ChangeAWS \/ StatefulSetController \/ Provision \/ Squat
    PROVE  MaterialTypes' /\ Lasting'
<1>1. secrets' = secrets /\ now' = now /\ minted' = minted
  BY DEF EditSpec, DeleteCluster, Gone, ChangeAuth, CacheSync, ChangeAWS,
     StatefulSetController, Provision, Squat, world
<1>2. work' = work \/ work' = Outdated
  BY DEF EditSpec, DeleteCluster, Gone, ChangeAuth, CacheSync, ChangeAWS,
     StatefulSetController, Provision, Squat
<1>3. work'.pc = work.pc /\ work'.ca = work.ca /\ work'.spec = work.spec
  BY <1>2 DEF Outdated, PassCore, BackedInv, Fields, Idle
<1> QED BY <1>1, <1>3, LastingKept DEF PassCore

\* At the start nothing is mounted and nothing issued.
LEMMA PassInvInit == Init => PassInv
<1> SUFFICES ASSUME Init PROVE PassInv
  OBVIOUS
<1>1. /\ work = Idle /\ secrets = [n \in SecretNames |-> None]
      /\ now = 0 /\ minted = 0 /\ {"tls", "ca"} \subseteq SecretNames
  BY DEF Init, SecretNames
<1>2. /\ work.pc = "idle" /\ work.mount = None /\ work.backend = None
      /\ DOMAIN work = DOMAIN Idle
  BY <1>1, IdleFacts
<1>3. DOMAIN owned = DOMAIN Nothing /\ owned.sts = None /\ owned.cert = None
  <2>1. /\ {"legacy", "sts", "cert"} \subseteq DOMAIN Nothing
        /\ Nothing.sts = None /\ Nothing.cert = None
    BY DEF Nothing
  <2> QED BY <2>1 DEF Init
<1>4. DOMAIN cluster = {"phase", "spec", "status"} /\ cluster.spec \in AllSpecs
  BY SMT DEF Init, AllSpecs
<1>5. BackedInv
  BY <1>1, <1>2, <1>3, <1>4 DEF BackedInv, Fields, Complete, Backs, BacksAll, NeverDangling
<1>6. MaterialTypes /\ Lasting
  BY <1>1, <1>2 DEF MaterialTypes, Lasting, ServingOutlivedByCA
<1> QED BY <1>3, <1>5, <1>6 DEF PassInv, PassCore, Certified

\* One step.
LEMMA PassCoreStep ==
    ASSUME PassCore, Certified, [Next]_vars
    PROVE  PassCore'
<1>0. BackedInv
  BY DEF PassCore
<1>1. CASE ensureTLSSecrets
  <2>1. CASE ensureSelfSignedCA
    BY <1>1, <2>1, CAStep
  <2>2. CASE ensureUserSecret \/ ensureTLSCertificate \/ NoTLS
    BY <1>1, <2>2, TierSteps
  <2> QED BY <1>1, <2>1, <2>2 DEF ensureTLSSecrets
<1>2. CASE ensureSelfSignedServing
  BY <1>2, ServingStep
<1>3. CASE \/ updateStatus \/ CallFails \/ CredentialsCallFails \/ Crash \/ Reconcile
  BY <1>0, <1>3, EndSteps, PassLast DEF PassCore
<1>4. CASE \/ resolvePasswords \/ resolveAWSBootstrap \/ cleanupTLSCertificate
           \/ ensureCnfSecret \/ ensureServices \/ ensureExtras
  BY <1>0, <1>4, CarryingSteps, PassLast DEF PassCore
<1>5. CASE ensureBackend
  BY <1>0, <1>5, BackendStep, PassLast DEF PassCore
<1>6. CASE applyTemplate
  BY <1>0, <1>6, TemplateStep, PassLast DEF PassCore
<1>7. CASE \/ EditSpec \/ DeleteCluster \/ Gone \/ ChangeAuth \/ CacheSync
           \/ ChangeAWS \/ StatefulSetController \/ Provision \/ Squat
  BY <1>0, <1>7, AsideSteps, AsideLast DEF PassCore
<1>8. CASE Tick
  BY <1>0, <1>8, AsideSteps, CollectTickLast DEF PassCore
<1>9. CASE Collect
  BY <1>0, <1>9, CollectStep, CollectTickLast DEF PassCore
<1>10. CASE CertManager \/ \E n \in SecretNames : BreakSecret(n) \/ BringSecret(n)
  BY <1>0, <1>10, OtherStores, OtherStoresLast DEF PassCore
<1>11. CASE UNCHANGED vars
  <2>1. BackedInv'
    BY <1>0, <1>11 DEF vars, BackedInv, Fields, Complete, Backs, BacksAll, NeverDangling
  <2>2. MaterialTypes' /\ Lasting'
    BY <1>11, LastingKept DEF vars, PassCore
  <2> QED BY <2>1, <2>2 DEF PassCore
<1> QED BY <1>1, <1>2, <1>3, <1>4, <1>5, <1>6, <1>7, <1>8, <1>9, <1>10, <1>11
        DEF Next, Pass, Environment

\* The Certificate is written for the spec of a pass, and removed.
LEMMA CertifiedStep ==
    ASSUME Fields, Certified, [Next]_vars
    PROVE  Certified'
<1>1. DOMAIN owned = DOMAIN Nothing
      /\ {"sts", "cnf", "legacy", "svc", "ext", "pdb", "monitor", "cert"}
           = DOMAIN Nothing
  BY DEF Fields, Nothing
<1>2. CASE ensureTLSSecrets
  <2>1. work.spec \in AllSpecs
    BY <1>2 DEF ensureTLSSecrets, Fields, At
  <2>2. owned' = owned \/ owned' = [owned EXCEPT !.cert = Certificate(work.spec)]
    BY <1>2 DEF ensureTLSSecrets, ensureUserSecret, ensureTLSCertificate,
       ensureSelfSignedCA, NoTLS
  <2>3. owned'.cert \in {owned.cert, Certificate(work.spec)}
    BY <1>1, <2>2
  <2> QED BY <2>1, <2>3, LifeFacts DEF Certified
<1>3. CASE ensureServices
  <2>1. \/ \E e : owned' = [owned EXCEPT !.svc = TRUE, !.ext = e]
        \/ owned' = [owned EXCEPT !.svc = TRUE]
    BY <1>3 DEF ensureServices, ensureExternalService
  <2> QED BY <1>1, <2>1 DEF Certified
<1>4. CASE ensureExtras
  <2>1. \E a, b : owned' = [owned EXCEPT !.pdb = a, !.monitor = b]
    BY <1>4 DEF ensureExtras
  <2> QED BY <1>1, <2>1 DEF Certified
<1>5. CASE ensureCnfSecret
  <2>1. \E a, b : owned' = [owned EXCEPT !.cnf = a, !.legacy = b]
    BY <1>5 DEF ensureCnfSecret
  <2> QED BY <1>1, <2>1 DEF Certified
<1>6. CASE cleanupTLSCertificate
  <2>1. owned' = owned \/ owned' = [owned EXCEPT !.cert = None]
    BY <1>6 DEF cleanupTLSCertificate
  <2> QED BY <1>1, <2>1 DEF Certified
<1>7. CASE Provision \/ Squat
  <2>1. \/ \E e : owned' = [owned EXCEPT !.ext = e]
        \/ \E f \in {"legacy", "pdb", "monitor"} : owned' = [owned EXCEPT ![f] = "theirs"]
    BY <1>7 DEF Provision, Squat
  <2> QED BY <1>1, <2>1 DEF Certified
<1>8. CASE applyTemplate
  <2>1. owned' = owned \/ \E t : owned' = [owned EXCEPT !.sts = t]
    BY <1>8 DEF applyTemplate, ensureStatefulSet
  <2> QED BY <1>1, <2>1 DEF Certified
<1>9. CASE Collect
  <2>1. owned' = Left(owned)
    BY <1>9 DEF Collect
  <2>2. owned'.cert = Nothing.cert
    BY <1>1, <2>1 DEF Left
  <2> QED BY <2>2 DEF Certified, Nothing
<1>10. CASE \/ Reconcile \/ resolvePasswords \/ resolveAWSBootstrap
            \/ ensureSelfSignedServing \/ ensureBackend \/ updateStatus
            \/ CallFails \/ CredentialsCallFails \/ Crash
  BY <1>10 DEF Certified, Reconcile, resolvePasswords, resolveAWSBootstrap,
     ensureSelfSignedServing, ensureBackend, updateStatus, CallFails,
     CredentialsCallFails, Crash, world
<1>11. CASE \/ EditSpec \/ DeleteCluster \/ Gone \/ ChangeAuth \/ CacheSync
            \/ ChangeAWS \/ CertManager \/ StatefulSetController \/ Tick
            \/ (\E n \in SecretNames : BreakSecret(n) \/ BringSecret(n))
            \/ UNCHANGED vars
  BY <1>11 DEF Certified, EditSpec, DeleteCluster, Gone, ChangeAuth, CacheSync,
     ChangeAWS, CertManager, StatefulSetController, Tick, BreakSecret, BringSecret, vars
<1> QED BY <1>2, <1>3, <1>4, <1>5, <1>6, <1>7, <1>8, <1>9, <1>10, <1>11
        DEF Next, Pass, Environment

LEMMA PassInvStep == PassInv /\ [Next]_vars => PassInv'
<1>1. PassInv => PassCore /\ Certified /\ Fields
  BY DEF PassInv, PassCore, BackedInv
<1> QED BY <1>1, PassCoreStep, CertifiedStep DEF PassInv

\* The template never names a TLS Secret that was never complete, whatever
\* tiers, removals and failures a cluster goes through (ensureTLSSecrets,
\* validateBackendTLSSecrets and their holds).
THEOREM TemplateBacked == Spec => []NeverDangling
<1>1. PassInv => NeverDangling
  BY DEF PassInv, PassCore, BackedInv
<1> QED BY <1>1, PassInvInit, PassInvStep, PTL DEF Spec

\* No serving certificate of the operator outlives the CA that signed it, for any
\* specs and any edits of the life they ask for, unless it was issued for longer
\* than a CA lives (ensureSelfSignedTLS).
THEOREM ServingLasts == Spec => []ServingOutlivedByCA
<1>1. PassInv => ServingOutlivedByCA
  BY DEF PassInv, PassCore, Lasting
<1> QED BY <1>1, PassInvInit, PassInvStep, PTL DEF Spec

----------------------------------------------------------------------------
(* Types.  Beyond what the properties above need: a pass that is past its  *)
(* first step has every password, and what a pass or the template holds of *)
(* a backend is some spec's.                                               *)

Backends == {spec.backend : spec \in AllSpecs} \cup {None}
Passwords == [PasswordKeys -> Nat \ {0}]
PastPasswords(w) == w.pc \notin {"idle", "passwords"}

ObjectTypes ==
    /\ cluster.phase \in {"live", "deleting", "gone"}
    /\ proven \subseteq SecretNames
    /\ owned.sts # None => /\ owned.sts.backend \in Backends
                           /\ owned.sts.replicas \in Nat
    /\ live \in [ready : Nat, updated : BOOLEAN]

PassTypes ==
    /\ PastPasswords(work) => work.pw \in Passwords
    /\ work.backend \in Backends

TypeInv == CredentialTypes /\ PassInv /\ ObjectTypes /\ PassTypes

\* Whatever the auth Secret holds, a pass gets every password or goes no
\* further (PasswordsFromSecret, mintPasswords, backfill).
LEMMA PasswordsWhole ==
    ASSUME CredentialTypes
    PROVE  /\ [k \in PasswordKeys |-> MintedAuth[k]] \in Passwords
           /\ auth # None => [k \in PasswordKeys |-> Backfilled(auth)[k]] \in Passwords
           /\ auth # None /\ PasswordsFromSecret(auth) # None
                => PasswordsFromSecret(auth) \in Passwords
<1>1. minted \in Nat /\ (auth # None => auth \in [AuthKeys -> Nat])
      /\ PasswordKeys \subseteq AuthKeys
      /\ {"admin", "radmin", "monitor", "password"} \subseteq AuthKeys
  BY DEF CredentialTypes, AuthKeys, PasswordKeys
<1>2. ASSUME NEW d \in [AuthKeys -> Nat]
      PROVE  \A k \in PasswordKeys : Backfilled(d)[k] \in Nat \ {0}
  BY <1>1, SMT DEF Backfilled
<1>3. [k \in AuthKeys |-> 0] \in [AuthKeys -> Nat]
  OBVIOUS
<1>4. \A k \in PasswordKeys : MintedAuth[k] \in Nat \ {0}
  BY <1>2, <1>3 DEF MintedAuth
<1>5. ASSUME auth # None, PasswordsFromSecret(auth) # None
      PROVE  PasswordsFromSecret(auth) \in Passwords
  <2>1. \A k \in AuthKeys : auth[k] \in Nat
    BY <1>1, <1>5
  <2>2. CASE /\ auth["admin"] # 0 \/ auth["radmin"] # 0
             /\ \A k \in PasswordKeys : auth[k] # 0
    <3>1. PasswordsFromSecret(auth) = [k \in PasswordKeys |-> auth[k]]
      BY <2>2 DEF PasswordsFromSecret
    <3> QED BY <1>1, <2>1, <2>2, <3>1 DEF Passwords
  <2>3. CASE ~(auth["admin"] # 0 \/ auth["radmin"] # 0) /\ auth["password"] # 0
    <3> DEFINE pw == [k \in PasswordKeys |->
                        IF k = "monitor" /\ auth[k] # 0 THEN auth[k]
                        ELSE auth["password"]]
    <3>1. PasswordsFromSecret(auth) = pw
      BY <2>3 DEF PasswordsFromSecret
    <3>2. auth["password"] \in Nat \ {0}
      BY <1>1, <2>1, <2>3
    <3>3. pw \in Passwords
      BY <1>1, <2>1, <3>2 DEF Passwords
    <3> QED BY <3>1, <3>3
  <2> QED BY <1>5, <2>2, <2>3 DEF PasswordsFromSecret
<1> QED BY <1>1, <1>2, <1>4, <1>5 DEF Passwords

\* A pass that is past its passwords has ended, or goes on with them and,
\* other than in the step for it, with the backend it has.
Continues(w) ==
    \/ w = Idle
    \/ /\ PastPasswords(work) /\ w.pw = work.pw
       /\ At("backend") \/ w.backend = work.backend

\* The passwords stay with the pass until it ends, whichever way it goes.
LEMMA PassContinues ==
    ASSUME Fields,
           \/ resolveAWSBootstrap \/ ensureTLSSecrets \/ ensureSelfSignedServing
           \/ cleanupTLSCertificate \/ ensureBackend \/ ensureCnfSecret
           \/ ensureServices \/ applyTemplate \/ ensureExtras \/ updateStatus
           \/ CallFails \/ CredentialsCallFails \/ Crash
    PROVE  Continues(work')
<1>1. {"pc", "pw", "status", "mount", "tls", "backend", "ca", "tlsErr", "rotErr", "extErr"}
        \subseteq DOMAIN work
  BY DEF Fields, Idle
<1>2. CASE updateStatus \/ CallFails \/ CredentialsCallFails \/ Crash
  BY <1>2 DEF updateStatus, CallFails, CredentialsCallFails, Crash, Fail, Continues
<1>3. CASE resolveAWSBootstrap
  <2>1. At("aws") /\ (work' = Idle \/ work' = [work EXCEPT !.pc = "tls"])
    BY <1>3 DEF resolveAWSBootstrap, CredentialsError, Goto
  <2> QED BY <1>1, <2>1 DEF At, Continues, PastPasswords
<1>4. \A pc, n : Mounted(pc, n).pw = work.pw /\ Mounted(pc, n).backend = work.backend
  BY <1>1 DEF Mounted
<1>5. /\ holdTLSLastGood(work).pw = work.pw
      /\ holdTLSLastGood(work).backend = work.backend
  BY <1>1 DEF holdTLSLastGood
<1>6. CASE ensureTLSSecrets
  <2>1. At("tls")
    BY <1>6 DEF ensureTLSSecrets
  <2>2. \/ \E pc, n : work' = Mounted(pc, n)
        \/ work' = holdTLSLastGood(work)
        \/ \E ca : work' = [work EXCEPT !.pc = "serving", !.ca = ca]
        \/ \E pc : work' = [work EXCEPT !.pc = pc]
    BY <1>6 DEF ensureTLSSecrets, ensureUserSecret, ensureTLSCertificate,
       ensureSelfSignedCA, NoTLS, Goto
  <2>3. work'.pw = work.pw /\ work'.backend = work.backend
    BY <1>1, <1>4, <1>5, <2>2
  <2> QED BY <2>1, <2>3 DEF At, Continues, PastPasswords
<1>7. CASE ensureSelfSignedServing
  <2>1. /\ At("serving")
        /\ work' = Mounted("gc", "tls") \/ work' = holdTLSLastGood(work)
    BY <1>7 DEF ensureSelfSignedServing
  <2> QED BY <1>4, <1>5, <2>1 DEF At, Continues, PastPasswords
<1>8. CASE cleanupTLSCertificate \/ ensureCnfSecret
  <2>1. /\ At("gc") \/ At("cnf")
        /\ \E pc : work' = [work EXCEPT !.pc = pc]
    BY <1>8 DEF cleanupTLSCertificate, ensureCnfSecret, Goto
  <2> QED BY <1>1, <2>1 DEF At, Continues, PastPasswords
<1>9. CASE ensureBackend
  <2>1. /\ At("backend")
        /\ \E b, e : work' = [work EXCEPT !.pc = "cnf", !.backend = b, !.tlsErr = e]
    BY <1>9 DEF ensureBackend
  <2> QED BY <1>1, <2>1 DEF At, Continues, PastPasswords
<1>10. CASE ensureServices
  <2>1. /\ At("services")
        /\ \/ work' = [work EXCEPT !.pc = "sts"]
           \/ work' = [work EXCEPT !.pc = "sts", !.extErr = TRUE]
    BY <1>10 DEF ensureServices, ensureExternalService, Goto
  <2> QED BY <1>1, <2>1 DEF At, Continues, PastPasswords
<1>11. CASE applyTemplate
  <2>1. /\ At("sts")
        /\ \/ work' = Idle
           \/ \E rot : work' = [work EXCEPT !.pc = "extras", !.rotErr = rot]
    BY <1>11 DEF applyTemplate, Fail
  <2> QED BY <1>1, <2>1 DEF At, Continues, PastPasswords
<1>12. CASE ensureExtras
  <2>1. /\ At("extras")
        /\ \E b : work' = [work EXCEPT !.pc = "status", !.status.monitored = b]
    BY <1>12 DEF ensureExtras
  <2> QED BY <1>1, <2>1 DEF At, Continues, PastPasswords
<1> QED BY <1>2, <1>3, <1>6, <1>7, <1>8, <1>9, <1>10, <1>11, <1>12

\* Nothing but edits, deletion and the garbage collector touches the phase.
LEMMA PhaseType ==
    ASSUME Fields, cluster.phase \in {"live", "deleting", "gone"}, Next
    PROVE  cluster'.phase \in {"live", "deleting", "gone"}
<1>1. DOMAIN cluster = {"phase", "spec", "status"}
  BY DEF Fields
<1>2. \/ cluster' = cluster
      \/ \E st : cluster' = [cluster EXCEPT !.status = st]
      \/ \E spec : cluster' = [cluster EXCEPT !.spec = spec]
      \/ cluster' = [cluster EXCEPT !.phase = "deleting"]
      \/ cluster' = [cluster EXCEPT !.phase = "gone"]
  <2>1. CASE Pass
    <3>1. CASE resolvePasswords \/ resolveAWSBootstrap \/ updateStatus \/ applyTemplate
      BY <3>1, ZenonT(60) DEF resolvePasswords, resolveManaged, resolveExternal,
         resolveAWSBootstrap, updateStatus, applyTemplate, CredentialsError, Status
    <3>2. CASE \/ Reconcile \/ ensureTLSSecrets \/ ensureSelfSignedServing
               \/ cleanupTLSCertificate \/ ensureBackend \/ ensureCnfSecret
               \/ ensureServices \/ ensureExtras
      BY <3>2 DEF Reconcile, ensureTLSSecrets, ensureSelfSignedServing,
         cleanupTLSCertificate, ensureBackend, ensureCnfSecret, ensureServices,
         ensureExtras, world
    <3> QED BY <2>1, <3>1, <3>2 DEF Pass
  <2>2. CASE CallFails \/ CredentialsCallFails \/ Crash
    BY <2>2 DEF CallFails, CredentialsCallFails, Crash, world
  <2>3. CASE Environment
    BY <2>3, ZenonT(60) DEF Environment, EditSpec, DeleteCluster, Collect, Gone,
       ChangeAuth, CacheSync, ChangeAWS, CertManager, StatefulSetController,
       Provision, Squat, Tick, BreakSecret, BringSecret, world
  <2> QED BY <2>1, <2>2, <2>3 DEF Next
<1> QED BY <1>1, <1>2

\* Only names of Secrets are ever recorded as complete.
LEMMA ProvenType ==
    ASSUME proven \subseteq SecretNames, Next
    PROVE  proven' \subseteq SecretNames
<1>1. proven' = proven \/ \E s : Store(s)
  <2>1. CASE ensureTLSSecrets
    BY <2>1 DEF ensureTLSSecrets, ensureUserSecret, ensureTLSCertificate,
       ensureSelfSignedCA, NoTLS
  <2>2. CASE ensureSelfSignedServing
    BY <2>2 DEF ensureSelfSignedServing
  <2>3. CASE CertManager \/ \E n \in SecretNames : BreakSecret(n) \/ BringSecret(n)
    BY <2>3 DEF CertManager, BreakSecret, BringSecret
  <2>4. CASE \/ Reconcile \/ resolvePasswords \/ resolveAWSBootstrap
             \/ cleanupTLSCertificate \/ ensureBackend \/ ensureCnfSecret
             \/ ensureServices \/ applyTemplate \/ ensureExtras \/ updateStatus
             \/ CallFails \/ CredentialsCallFails \/ Crash
    BY <2>4 DEF Reconcile, resolvePasswords, resolveAWSBootstrap,
       cleanupTLSCertificate, ensureBackend, ensureCnfSecret, ensureServices,
       applyTemplate, ensureExtras, updateStatus, CallFails,
       CredentialsCallFails, Crash
  <2>5. CASE \/ EditSpec \/ DeleteCluster \/ Collect \/ Gone \/ ChangeAuth
             \/ CacheSync \/ ChangeAWS \/ StatefulSetController \/ Provision
             \/ Squat \/ Tick
    BY <2>5 DEF EditSpec, DeleteCluster, Collect, Gone, ChangeAuth,
       CacheSync, ChangeAWS, StatefulSetController, Provision, Squat, Tick
  <2> QED BY <2>1, <2>2, <2>3, <2>4, <2>5 DEF Next, Pass, Environment
<1> QED BY <1>1 DEF Store

\* The StatefulSet is written by one step of the pass and removed by the
\* garbage collector; its status follows it.
LEMMA StatefulSetFrame ==
    ASSUME Fields, Next, ~applyTemplate, ~Collect
    PROVE  owned'.sts = owned.sts /\ (StatefulSetController \/ live' = live)
<1>1. DOMAIN owned = DOMAIN Nothing
      /\ {"sts", "cnf", "legacy", "svc", "ext", "pdb", "monitor", "cert"}
           = DOMAIN Nothing
  BY DEF Fields, Nothing
<1>2. CASE ensureTLSSecrets
  <2>1. owned' = owned \/ \E c : owned' = [owned EXCEPT !.cert = c]
    BY <1>2 DEF ensureTLSSecrets, ensureUserSecret,
       ensureTLSCertificate, ensureSelfSignedCA, NoTLS
  <2> QED BY <1>1, <1>2, <2>1 DEF ensureTLSSecrets
<1>3. CASE ensureServices
  <2>1. \/ \E e : owned' = [owned EXCEPT !.svc = TRUE, !.ext = e]
        \/ owned' = [owned EXCEPT !.svc = TRUE]
    BY <1>3 DEF ensureServices, ensureExternalService
  <2> QED BY <1>1, <1>3, <2>1 DEF ensureServices, world
<1>4. CASE ensureExtras
  <2>1. \E a, b : owned' = [owned EXCEPT !.pdb = a, !.monitor = b]
    BY <1>4 DEF ensureExtras
  <2> QED BY <1>1, <1>4, <2>1 DEF ensureExtras, world
<1>5. CASE ensureCnfSecret
  <2>1. \E a, b : owned' = [owned EXCEPT !.cnf = a, !.legacy = b]
    BY <1>5 DEF ensureCnfSecret
  <2> QED BY <1>1, <1>5, <2>1 DEF ensureCnfSecret, world
<1>6. CASE cleanupTLSCertificate
  <2>1. owned' = owned \/ owned' = [owned EXCEPT !.cert = None]
    BY <1>6 DEF cleanupTLSCertificate
  <2> QED BY <1>1, <1>6, <2>1 DEF cleanupTLSCertificate, world
<1>7. CASE Provision \/ Squat
  <2>1. \/ \E e : owned' = [owned EXCEPT !.ext = e]
        \/ \E f \in {"legacy", "pdb", "monitor"} : owned' = [owned EXCEPT ![f] = "theirs"]
    BY <1>7 DEF Provision, Squat
  <2> QED BY <1>1, <1>7, <2>1 DEF Provision, Squat, world
<1>8. CASE \/ Reconcile \/ resolvePasswords \/ resolveAWSBootstrap
           \/ ensureSelfSignedServing \/ ensureBackend \/ updateStatus
           \/ CallFails \/ CredentialsCallFails \/ Crash
  BY <1>8 DEF Reconcile, resolvePasswords, resolveAWSBootstrap,
     ensureSelfSignedServing, ensureBackend, updateStatus, CallFails,
     CredentialsCallFails, Crash, world
<1>9. CASE \/ EditSpec \/ DeleteCluster \/ Gone \/ ChangeAuth \/ CacheSync
           \/ ChangeAWS \/ CertManager \/ StatefulSetController \/ Tick
           \/ \E n \in SecretNames : BreakSecret(n) \/ BringSecret(n)
  BY <1>9 DEF EditSpec, DeleteCluster, Gone, ChangeAuth, CacheSync,
     ChangeAWS, CertManager, StatefulSetController, Tick, BreakSecret, BringSecret
<1> QED BY <1>2, <1>3, <1>4, <1>5, <1>6, <1>7, <1>8, <1>9 DEF Next, Pass, Environment

\* The objects keep their types.
LEMMA ObjectStep == TypeInv /\ [Next]_vars => ObjectTypes'
<1> SUFFICES ASSUME TypeInv, [Next]_vars PROVE ObjectTypes'
  OBVIOUS
<1>1. CASE UNCHANGED vars
  BY <1>1 DEF vars, TypeInv, ObjectTypes
<1>2. CASE Next
  <2>0. /\ Fields /\ ObjectTypes /\ PassTypes
    BY DEF TypeInv, PassInv, PassCore, BackedInv
  <2>1. cluster'.phase \in {"live", "deleting", "gone"}
    BY <1>2, <2>0, PhaseType DEF ObjectTypes
  <2>2. proven' \subseteq SecretNames
    BY <1>2, <2>0, ProvenType DEF ObjectTypes
  <2>3. CASE applyTemplate
    <3>1. /\ owned' = [owned EXCEPT !.sts = Template] /\ At("sts")
          /\ live' = IF owned.sts = None THEN [ready |-> 0, updated |-> TRUE]
                     ELSE [live EXCEPT !.updated =
                              @ /\ owned.sts.tls = work.mount
                                /\ owned.sts.backend = work.backend]
      BY <2>3 DEF applyTemplate, ensureStatefulSet
    <3>2. owned'.sts = Template
      BY <2>0, <3>1 DEF Fields, Nothing
    <3>3. Template.backend \in Backends /\ Template.replicas \in Nat
      <4>1. work.spec \in AllSpecs
        BY <2>0, <3>1 DEF Fields, At
      <4>2. work.spec.replicas \in Nat
        BY <4>1, MaterialAssumption DEF AllSpecs
      <4> QED BY <2>0, <4>2 DEF Template, PassTypes
    <3>4. live' \in [ready : Nat, updated : BOOLEAN]
      <4>1. live \in [ready : Nat, updated : BOOLEAN]
        BY <2>0 DEF ObjectTypes
      <4>2. \A b \in BOOLEAN :
              [live EXCEPT !.updated = b] \in [ready : Nat, updated : BOOLEAN]
        BY <4>1
      <4>3. CASE owned.sts = None
        BY <3>1, <4>3
      <4>4. CASE owned.sts # None
        <5> DEFINE b == live.updated /\ owned.sts.tls = work.mount
                           /\ owned.sts.backend = work.backend
        <5>1. b \in BOOLEAN
          BY <4>1
        <5>2. live' = [live EXCEPT !.updated = b]
          BY <3>1, <4>4
        <5> HIDE DEF b
        <5> QED BY <4>2, <5>1, <5>2
      <4> QED BY <4>3, <4>4
    <3> QED BY <2>1, <2>2, <3>2, <3>3, <3>4 DEF ObjectTypes
  <2>4. CASE Collect
    <3>1. owned'.sts = None
      BY <2>4 DEF Collect, Left, Nothing
    <3>2. live' \in [ready : Nat, updated : BOOLEAN]
      BY <2>4 DEF Collect
    <3> QED BY <2>1, <2>2, <3>1, <3>2 DEF ObjectTypes
  <2>5. CASE ~applyTemplate /\ ~Collect
    <3>1. owned'.sts = owned.sts /\ (StatefulSetController \/ live' = live)
      BY <1>2, <2>0, <2>5, StatefulSetFrame
    <3>2. live' \in [ready : Nat, updated : BOOLEAN]
      <4>1. CASE StatefulSetController
        <5>1. owned.sts # None /\ owned.sts.replicas \in Nat
              /\ live \in [ready : Nat, updated : BOOLEAN]
          BY <2>0, <4>1 DEF StatefulSetController, ObjectTypes
        <5>2. \/ live' = [live EXCEPT !.ready = @ + 1]
              \/ live.ready > owned.sts.replicas
                 /\ live' = [live EXCEPT !.ready = @ - 1]
              \/ live' = [live EXCEPT !.updated = TRUE]
          BY <4>1 DEF StatefulSetController
        <5>3. live.ready + 1 \in Nat
              /\ (live.ready > owned.sts.replicas => live.ready - 1 \in Nat)
          BY <5>1, SMT
        <5>4. \A n \in Nat :
                [live EXCEPT !.ready = n] \in [ready : Nat, updated : BOOLEAN]
          BY <5>1
        <5>5. [live EXCEPT !.updated = TRUE] \in [ready : Nat, updated : BOOLEAN]
          BY <5>1
        <5> QED BY <5>2, <5>3, <5>4, <5>5
      <4>2. CASE live' = live
        BY <2>0, <4>2 DEF ObjectTypes
      <4> QED BY <3>1, <4>1, <4>2
    <3> QED BY <2>0, <2>1, <2>2, <3>1, <3>2 DEF ObjectTypes
  <2> QED BY <2>3, <2>4, <2>5
<1> QED BY <1>1, <1>2

\* The pass keeps its types.
LEMMA WorkStep == TypeInv /\ [Next]_vars => PassTypes'
<1> SUFFICES ASSUME TypeInv, [Next]_vars PROVE PassTypes'
  OBVIOUS
<1>0. Fields /\ CredentialTypes /\ ObjectTypes /\ PassTypes
  BY DEF TypeInv, PassInv, PassCore, BackedInv
<1>I. Idle.pc = "idle" /\ Idle.backend = None /\ None \in Backends
  BY DEF Idle, Backends
<1>1. CASE ensureBackend
  <2>1. Continues(work')
    BY <1>0, <1>1, PassContinues
  <2>2. /\ At("backend")
        /\ \E b \in {None, work.spec.backend, holdBackendTLSLastGood} : \E e :
             work' = [work EXCEPT !.pc = "cnf", !.backend = b, !.tlsErr = e]
    BY <1>1 DEF ensureBackend
  <2>3. work.spec \in AllSpecs
    BY <1>0, <2>2 DEF Fields, At
  <2>4. {None, work.spec.backend, holdBackendTLSLastGood} \subseteq Backends
    BY <1>0, <2>3 DEF Backends, holdBackendTLSLastGood, ObjectTypes
  <2>5. work'.backend \in Backends /\ work'.pc = "cnf"
    BY <1>0, <2>2, <2>4, SMT DEF Fields, Idle
  <2>6. work'.pw \in Passwords
    BY <1>0, <1>I, <2>1, <2>5 DEF Continues, PassTypes
  <2> QED BY <2>5, <2>6 DEF PassTypes
<1>2. CASE \/ resolveAWSBootstrap \/ ensureTLSSecrets \/ ensureSelfSignedServing
           \/ cleanupTLSCertificate \/ ensureCnfSecret
           \/ ensureServices \/ applyTemplate \/ ensureExtras \/ updateStatus
           \/ CallFails \/ CredentialsCallFails \/ Crash
  <2>1. Continues(work')
    BY <1>0, <1>2, PassContinues
  <2>2. At("backend") => work' = Idle
    BY <1>2 DEF At, resolveAWSBootstrap, ensureTLSSecrets,
       ensureSelfSignedServing, cleanupTLSCertificate, ensureCnfSecret,
       ensureServices, applyTemplate, ensureExtras, updateStatus, CallFails,
       CredentialsCallFails, Crash, Fail
  <2> QED BY <1>0, <1>I, <2>1, <2>2 DEF Continues, PassTypes, PastPasswords
<1>3. CASE Reconcile
  <2>1. work'.pc = "passwords" /\ work'.backend = None
    BY <1>3 DEF Reconcile, Idle
  <2> QED BY <1>I, <2>1 DEF PassTypes, PastPasswords
<1>4. CASE resolvePasswords
  <2>1. \/ work' = Idle
        \/ \E pw \in Passwords : work' = [work EXCEPT !.pc = "aws", !.pw = pw]
    <3>1. CASE resolveManaged /\ mintPasswords
      BY <1>0, <3>1, PasswordsWhole DEF mintPasswords
    <3>2. CASE /\ auth # None /\ auth' = Backfilled(auth)
               /\ work' = [work EXCEPT !.pc = "aws",
                                  !.pw = [k \in PasswordKeys |-> auth'[k]]]
      BY <1>0, <3>2, PasswordsWhole
    <3>3. CASE resolveExternal
      BY <1>0, <3>3, PasswordsWhole DEF resolveExternal, CredentialsError
    <3> QED BY <1>4, <3>1, <3>2, <3>3 DEF resolvePasswords, resolveManaged
  <2>2. {"pc", "pw", "backend"} \subseteq DOMAIN work
    BY <1>0 DEF Fields, Idle
  <2> QED BY <1>0, <1>I, <2>1, <2>2 DEF PassTypes, PastPasswords
<1>5. CASE EditSpec \/ DeleteCluster
  <2>1. work' = Outdated
    BY <1>5 DEF EditSpec, DeleteCluster
  <2>2. work'.pc = work.pc /\ work'.pw = work.pw /\ work'.backend = work.backend
    BY <1>0, <2>1 DEF Outdated, Fields, Idle
  <2> QED BY <1>0, <2>2 DEF PassTypes, PastPasswords
<1>6. CASE \/ Collect \/ Gone \/ ChangeAuth \/ CacheSync \/ ChangeAWS \/ CertManager
           \/ StatefulSetController \/ Provision \/ Squat \/ Tick
           \/ \E n \in SecretNames : BreakSecret(n) \/ BringSecret(n)
           \/ UNCHANGED vars
  <2>1. work' = work
    BY <1>6 DEF Collect, Gone, ChangeAuth, CacheSync, ChangeAWS,
       CertManager, StatefulSetController, Provision, Squat, Tick, BreakSecret,
       BringSecret, vars
  <2> QED BY <1>0, <2>1 DEF PassTypes, PastPasswords
<1> QED BY <1>1, <1>2, <1>3, <1>4, <1>5, <1>6 DEF Next, Pass, Environment

\* The first state is well typed.
LEMMA TypesInit == Init => TypeInv
<1> SUFFICES ASSUME Init PROVE TypeInv
  OBVIOUS
<1>1. PassInv /\ CredentialTypes
  BY PassInvInit, CredentialsAssumption DEF Init, CredentialTypes
<1>2. work.pc = "idle" /\ work.backend = None
  BY IdleFacts DEF Init
<1>3. PassTypes
  BY <1>2 DEF PassTypes, PastPasswords, Backends
<1>4. owned.sts = None
  BY DEF Init, Nothing
<1>5. ObjectTypes
  BY <1>4, SMT DEF Init, ObjectTypes
<1> QED BY <1>1, <1>3, <1>5 DEF TypeInv

\* One step.
LEMMA TypesStep == TypeInv /\ [Next]_vars => TypeInv'
<1> SUFFICES ASSUME TypeInv, [Next]_vars PROVE TypeInv'
  OBVIOUS
<1>1. CredentialTypes'
  BY CredentialsStep DEF TypeInv
<1>2. PassInv'
  BY PassInvStep DEF TypeInv
<1> QED BY <1>1, <1>2, ObjectStep, WorkStep DEF TypeInv

\* Every reachable state is well typed: whatever is missing from the auth
\* Secret, is broken or fails, no pass writes a configuration with an empty
\* password, and no template mounts what no spec asks for (resolvePasswords,
\* holdTLSLastGood, holdBackendTLSLastGood).
THEOREM TypeCorrect == Spec => []TypeOK
<1>1. TypeInv => TypeOK
  <2> SUFFICES ASSUME TypeInv PROVE TypeOK
    OBVIOUS
  <2>1. /\ Fields /\ BackedInv /\ MaterialTypes /\ CredentialTypes /\ ObjectTypes
        /\ PassTypes
    BY DEF TypeInv, PassInv, PassCore, BackedInv
  <2>2. /\ cluster.phase \in {"live", "deleting", "gone"}
        /\ cluster.spec \in Specs \cup FirstSpecs
        /\ work.pc # "idle" => work.spec \in Specs \cup FirstSpecs
        /\ auth = None \/ DOMAIN auth = AuthKeys
    BY <2>1 DEF ObjectTypes, Fields, AllSpecs, CredentialTypes
  <2>3. \A n \in SecretNames : secrets[n] # None =>
          secrets[n].by \in {"self", "issuer", "user"}
    BY <2>1 DEF MaterialTypes, Materials
  <2>4. work.pc \in {"cnf", "services", "sts"} =>
          DOMAIN work.pw = PasswordKeys /\ \A k \in PasswordKeys : work.pw[k] # 0
    BY <2>1 DEF PassTypes, PastPasswords, Passwords
  <2>5. work.mount \in SecretNames \cup {None} /\ work.backend \in Backends
    BY <2>1 DEF BackedInv, Backs, ObjectTypes, PassTypes
  <2>6. owned.sts # None => /\ owned.sts.tls \in SecretNames \cup {None}
                            /\ owned.sts.backend \in Backends
    BY <2>1 DEF BackedInv, NeverDangling, ObjectTypes
  <2>7. live.ready \in Nat /\ live.updated \in BOOLEAN
    BY <2>1 DEF ObjectTypes
  <2> QED BY <2>2, <2>3, <2>4, <2>5, <2>6, <2>7 DEF TypeOK, Backends, AllSpecs
<1> QED BY <1>1, TypesInit, TypesStep, PTL DEF Spec

----------------------------------------------------------------------------
(* What a clean condition says.  The pass under way knows which spec it    *)
(* works for, has found what it mounts unless it has recorded an error,    *)
(* and has written every object it is past.                                *)

ServiceTypes == {spec.ext.type : spec \in {s \in AllSpecs : s.ext # None}}
ServiceRecords == [ours : {TRUE}, type : ServiceTypes, port : Nat, ingress : BOOLEAN]

\* The objects are the records the controller writes.
Shapes ==
    /\ events \in Nat
    /\ owned = [f \in DOMAIN Nothing |-> owned[f]]
    /\ owned.svc \in BOOLEAN
    /\ owned.ext # None => owned.ext \in ServiceRecords
    /\ "monitored" \in DOMAIN cluster.status
    /\ ~At("idle") => "monitored" \in DOMAIN work.status

\* A pass whose object has not changed since works for the spec there is.
FreshSpec ==
    ~At("idle") /\ work.fresh => cluster.phase = "live" /\ work.spec = cluster.spec

PastTLS == {"gc", "backend", "cnf", "services", "sts", "extras", "status"}
PastBackend == {"cnf", "services", "sts", "extras", "status"}
PastCnf == {"services", "sts", "extras", "status"}
PastServices == {"sts", "extras", "status"}
PastTemplate == {"extras", "status"}

\* Unless it has recorded an error, a pass mounts what its spec asks for.
Found ==
    /\ work.pc \in {"passwords", "aws", "tls", "serving"} =>
         work.mount = None /\ work.tls = FALSE
    /\ At("serving") => work.spec.tier = "self"
    /\ work.pc \in PastTLS /\ ~work.tlsErr =>
         /\ work.mount = ExpectedMount(work.spec)
         /\ work.tls = (work.spec.tier \notin {"none", "off"})
    /\ work.pc \in PastBackend /\ ~work.tlsErr =>
         work.backend = ExpectedBackend(work.spec)

ExternalWritten ==
    IF work.spec.ext = None THEN owned.ext = None
    ELSE owned.ext \in ExpectedService(work.spec)

\* What a pass has written is there for as long as its object has not changed.
Written ==
    /\ work.pc \in PastCnf =>
         /\ owned.cnf = [pw |-> work.pw, backend |-> work.backend]
         /\ owned.legacy # "ours"
    /\ work.pc \in PastServices => owned.svc /\ (~work.extErr => ExternalWritten)
    /\ work.pc \in PastTemplate => owned.sts = Template
    /\ At("status") =>
         /\ IF wantPDB(work.spec) THEN owned.pdb = "ours" ELSE owned.pdb # "ours"
         /\ work.spec.monitor /\ work.status.monitored => owned.monitor = "ours"

HealthyInv == Shapes /\ FreshSpec /\ Found /\ (work.fresh => Written)

\* Events are counted, so a step with an event is not one without.
LEMMA EventFacts ==
    ASSUME events \in Nat
    PROVE  /\ \A k : Event(k) => events' \in Nat /\ events' # events
           /\ \A bad, k : Perhaps(bad, k) => events' \in Nat /\ (bad => events' # events)
<1>1. events + 1 \in Nat /\ events + 1 # events
  BY SMT
<1> QED BY <1>1 DEF Event, Perhaps

\* Every step counts at most one event.
LEMMA EventsCounted ==
    ASSUME events \in Nat, [Next]_vars
    PROVE  events' \in Nat
<1>1. CASE resolvePasswords \/ resolveAWSBootstrap
  BY <1>1, EventFacts DEF resolvePasswords, resolveManaged, resolveExternal,
     resolveAWSBootstrap, CredentialsError, Status
<1>2. CASE ensureTLSSecrets \/ ensureSelfSignedServing \/ cleanupTLSCertificate
  BY <1>2, EventFacts DEF ensureTLSSecrets, ensureUserSecret, ensureTLSCertificate,
     ensureSelfSignedCA, NoTLS, ensureSelfSignedServing, cleanupTLSCertificate
<1>3. CASE ensureServices \/ applyTemplate \/ ensureExtras \/ updateStatus
  BY <1>3, EventFacts DEF ensureServices, ensureExternalService, applyTemplate,
     ensureExtras, updateStatus, Status
<1>4. CASE \/ Reconcile \/ ensureBackend \/ ensureCnfSecret
           \/ CallFails \/ CredentialsCallFails \/ Crash
  BY <1>4, EventFacts DEF Reconcile, ensureBackend, ensureCnfSecret, CallFails,
     CredentialsCallFails, Crash
<1>5. CASE \/ EditSpec \/ DeleteCluster \/ Collect \/ Gone \/ ChangeAuth
           \/ CacheSync \/ ChangeAWS \/ CertManager \/ StatefulSetController
           \/ Provision \/ Squat \/ Tick \/ UNCHANGED vars
  BY <1>5, EventFacts DEF EditSpec, DeleteCluster, Collect, Gone, ChangeAuth,
     CacheSync, ChangeAWS, CertManager, StatefulSetController, Provision, Squat,
     Tick, vars
<1>6. CASE \E n \in SecretNames : BreakSecret(n) \/ BringSecret(n)
  BY <1>6, EventFacts DEF BreakSecret, BringSecret
<1> QED BY <1>1, <1>2, <1>3, <1>4, <1>5, <1>6 DEF Next, Pass, Environment

\* The Service of a pass is a record like any other.
LEMMA ServiceRecord ==
    ASSUME Shapes, Fields, At("services"), work.spec.ext # None,
           NEW port \in keptNodePort(work.spec.ext.port)
    PROVE  LET e == [ours |-> TRUE, type |-> work.spec.ext.type, port |-> port,
                     ingress |-> owned.ext # None /\ owned.ext.ingress]
           IN  e \in ServiceRecords /\ e \in ExpectedService(work.spec)
<1>1. work.spec \in AllSpecs
  BY DEF Fields, At
<1>2. work.spec.ext.type \in ServiceTypes
  BY <1>1 DEF ServiceTypes
<1>3. work.spec.ext.port \in Nat
  BY <1>1, NoneAssumption DEF AllSpecs
<1>4. port \in Nat /\ (work.spec.ext.port # 0 => port = work.spec.ext.port)
  <2>1. owned.ext # None => owned.ext.port \in Nat
    BY DEF Shapes, ServiceRecords
  <2>2. NodePorts \subseteq Nat
    BY PortAssumption
  <2> QED BY <1>3, <2>1, <2>2 DEF keptNodePort
<1>5. (owned.ext # None /\ owned.ext.ingress) \in BOOLEAN
  OBVIOUS
<1>6. port \in IF work.spec.ext.port # 0 THEN {work.spec.ext.port} ELSE Nat
  BY <1>4
<1> QED BY <1>2, <1>4, <1>5, <1>6 DEF ServiceRecords, ExpectedService

\* The ways in which the owned objects are written.
LEMMA OwnedWrites ==
    ASSUME Shapes, Fields, [Next]_vars
    PROVE  \/ owned' = owned
           \/ \E c : owned' = [owned EXCEPT !.cert = c]
           \/ ensureCnfSecret
           \/ /\ ensureServices
              /\ \/ owned' = [owned EXCEPT !.svc = TRUE]
                 \/ \E e \in ServiceRecords \cup {None, owned.ext} :
                      owned' = [owned EXCEPT !.svc = TRUE, !.ext = e]
           \/ applyTemplate \/ ensureExtras \/ Collect \/ Provision \/ Squat
<1>1. CASE ensureTLSSecrets
  BY <1>1 DEF ensureTLSSecrets, ensureUserSecret, ensureTLSCertificate,
     ensureSelfSignedCA, NoTLS
<1>2. CASE ensureServices
  <2>1. CASE work.spec.ext = None
    BY <1>2, <2>1 DEF ensureServices, ensureExternalService
  <2>2. CASE work.spec.ext # None
    <3>1. At("services")
      BY <1>2 DEF ensureServices
    <3>2. \/ owned' = [owned EXCEPT !.svc = TRUE]
          \/ \E port \in keptNodePort(work.spec.ext.port) :
               owned' = [owned EXCEPT !.svc = TRUE,
                           !.ext = [ours |-> TRUE, type |-> work.spec.ext.type,
                                    port |-> port,
                                    ingress |-> owned.ext # None /\ owned.ext.ingress]]
      BY <1>2, <2>2 DEF ensureServices, ensureExternalService
    <3> QED BY <1>2, <2>2, <3>1, <3>2, ServiceRecord
  <2> QED BY <2>1, <2>2
<1>3. CASE cleanupTLSCertificate
  BY <1>3 DEF cleanupTLSCertificate
<1>4. CASE \/ Reconcile \/ resolvePasswords \/ resolveAWSBootstrap
           \/ ensureSelfSignedServing \/ ensureBackend \/ updateStatus
           \/ CallFails \/ CredentialsCallFails \/ Crash
  BY <1>4 DEF Reconcile, resolvePasswords, resolveAWSBootstrap,
     ensureSelfSignedServing, ensureBackend, updateStatus, CallFails,
     CredentialsCallFails, Crash
<1>5. CASE \/ EditSpec \/ DeleteCluster \/ Gone \/ ChangeAuth \/ CacheSync
           \/ ChangeAWS \/ CertManager \/ StatefulSetController \/ Tick
           \/ (\E n \in SecretNames : BreakSecret(n) \/ BringSecret(n))
           \/ UNCHANGED vars
  BY <1>5 DEF EditSpec, DeleteCluster, Gone, ChangeAuth, CacheSync, ChangeAWS,
     CertManager, StatefulSetController, Tick, BreakSecret, BringSecret, vars
<1> QED BY <1>1, <1>2, <1>3, <1>4, <1>5 DEF Next, Pass, Environment

\* They keep the shape of the owned objects.
LEMMA OwnedShape ==
    ASSUME Shapes, Fields, [Next]_vars
    PROVE  /\ owned' = [f \in DOMAIN Nothing |-> owned'[f]]
           /\ owned'.svc \in BOOLEAN
           /\ owned'.ext # None => owned'.ext \in ServiceRecords
<1>1. /\ owned = [f \in DOMAIN Nothing |-> owned[f]]
      /\ owned.svc \in BOOLEAN
      /\ owned.ext # None => owned.ext \in ServiceRecords
      /\ DOMAIN owned = DOMAIN Nothing
      /\ {"sts", "cnf", "legacy", "svc", "ext", "pdb", "monitor", "cert"}
           = DOMAIN Nothing
  BY DEF Shapes, Fields, Nothing
<1>2. ASSUME NEW f \in {"cnf", "legacy", "sts", "pdb", "monitor", "cert"}, NEW v, NEW o,
             o = [g \in DOMAIN Nothing |-> o[g]]
      PROVE  LET n == [o EXCEPT ![f] = v]
             IN  n = [g \in DOMAIN Nothing |-> n[g]] /\ n.svc = o.svc /\ n.ext = o.ext
  BY <1>1, <1>2
<1>3. CASE \E c : owned' = [owned EXCEPT !.cert = c]
  BY <1>1, <1>2, <1>3
<1>4. CASE ensureCnfSecret
  <2>1. \E a, b : owned' = [owned EXCEPT !.cnf = a, !.legacy = b]
    BY <1>4 DEF ensureCnfSecret
  <2> QED BY <1>1, <2>1
<1>5. CASE owned' = [owned EXCEPT !.svc = TRUE]
  BY <1>1, <1>5
<1>6. CASE \E e \in ServiceRecords \cup {None, owned.ext} :
             owned' = [owned EXCEPT !.svc = TRUE, !.ext = e]
  <2>1. PICK e \in ServiceRecords \cup {None, owned.ext} :
          owned' = [owned EXCEPT !.svc = TRUE, !.ext = e]
    BY <1>6
  <2>2. owned'.svc = TRUE /\ owned'.ext = e
    BY <1>1, <2>1
  <2>3. owned' = [f \in DOMAIN Nothing |-> owned'[f]]
    BY <1>1, <2>1
  <2> QED BY <1>1, <2>2, <2>3
<1>7. CASE applyTemplate
  <2>1. owned' = [owned EXCEPT !.sts = Template]
    BY <1>7 DEF applyTemplate, ensureStatefulSet
  <2> QED BY <1>1, <1>2, <2>1
<1>8. CASE ensureExtras
  <2>1. \E a, b : owned' = [owned EXCEPT !.pdb = a, !.monitor = b]
    BY <1>8 DEF ensureExtras
  <2> QED BY <1>1, <2>1
<1>9. CASE Collect
  <2>1. owned' = Left(owned)
    BY <1>9 DEF Collect
  <2>2. owned' = [f \in DOMAIN Nothing |-> owned'[f]]
    BY <2>1 DEF Left
  <2>3. owned'.svc = FALSE /\ owned'.ext \in {owned.ext, None}
    BY <1>1, <2>1 DEF Left, Nothing
  <2> QED BY <1>1, <2>2, <2>3
<1>10. CASE Provision
  <2>1. owned.ext # None /\ owned' = [owned EXCEPT !.ext.ingress = TRUE]
    BY <1>10 DEF Provision
  <2>2. [owned.ext EXCEPT !.ingress = TRUE] \in ServiceRecords
    BY <1>1, <2>1 DEF ServiceRecords
  <2>3. /\ owned' = [f \in DOMAIN Nothing |-> owned'[f]]
        /\ owned'.svc = owned.svc /\ owned'.ext = [owned.ext EXCEPT !.ingress = TRUE]
    BY <1>1, <2>1
  <2> QED BY <1>1, <2>2, <2>3
<1>11. CASE Squat
  <2>1. \E f \in {"legacy", "pdb", "monitor"} : owned' = [owned EXCEPT ![f] = "theirs"]
    BY <1>11 DEF Squat
  <2> QED BY <1>1, <1>2, <2>1, ZenonT(30)
<1> QED BY <1>1, <1>3, <1>4, <1>5, <1>6, <1>7, <1>8, <1>9, <1>10, <1>11, OwnedWrites

\* A pass touches the status of its cluster, nothing else of it, and every
\* status tells whether the cluster is monitored.
LEMMA PassCluster ==
    ASSUME Shapes, Fields, Pass \/ CallFails \/ CredentialsCallFails \/ Crash
    PROVE  /\ cluster'.phase = cluster.phase /\ cluster'.spec = cluster.spec
           /\ "monitored" \in DOMAIN cluster'.status
<1> DEFINE Good(st) == "monitored" \in DOMAIN st
           Write(st) == cluster' = cluster \/ cluster' = [cluster EXCEPT !.status = st]
<1>1. ASSUME NEW st, Good(st), Write(st)
      PROVE  /\ cluster'.phase = cluster.phase /\ cluster'.spec = cluster.spec
             /\ "monitored" \in DOMAIN cluster'.status
  BY <1>1 DEF Fields, Shapes
<1>2. ~At("idle") => Good(work.status)
  BY DEF Shapes
<1>3. \A st : Status(st) => Write(st)
  BY DEF Status
<1>4. \A st, r : Good(st) => /\ Good([st EXCEPT !.degraded = r])
                             /\ \A p : Good([st EXCEPT !.phase = p, !.degraded = r])
                             /\ \A p, e, b : Good([st EXCEPT !.phase = p, !.degraded = r,
                                                    !.external = e, !.paused = b])
  OBVIOUS
<1>5. \A r : CredentialsError(r) /\ ~At("idle") => \E st : Good(st) /\ Write(st)
  BY <1>2, <1>3, <1>4 DEF CredentialsError
<1>6. CASE resolvePasswords
  <2>1. ~At("idle")
    BY <1>6 DEF resolvePasswords, At
  <2>2. cluster' = cluster \/ CredentialsError("AuthSecretError")
    BY <1>6 DEF resolvePasswords, resolveManaged, resolveExternal
  <2> QED BY <1>1, <1>2, <1>5, <2>1, <2>2
<1>7. CASE resolveAWSBootstrap
  <2>1. ~At("idle")
    BY <1>7 DEF resolveAWSBootstrap, At
  <2>2. cluster' = cluster \/ CredentialsError("AWSBootstrapError")
    BY <1>7 DEF resolveAWSBootstrap
  <2> QED BY <1>1, <1>2, <1>5, <2>1, <2>2
<1>8. CASE applyTemplate
  <2>1. ~At("idle")
    BY <1>8 DEF applyTemplate, At
  <2>2. \E r : Write([work.status EXCEPT !.degraded = r])
    BY <1>8 DEF applyTemplate
  <2> QED BY <1>1, <1>2, <1>4, <2>1, <2>2
<1>9. CASE updateStatus
  <2>1. ~At("idle")
    BY <1>9 DEF updateStatus, At
  <2>2. PICK p, r, e, b : Status([work.status EXCEPT !.phase = p, !.degraded = r,
                                    !.external = e, !.paused = b])
    BY <1>9 DEF updateStatus
  <2> DEFINE st == [work.status EXCEPT !.phase = p, !.degraded = r,
                                       !.external = e, !.paused = b]
  <2>3. Good(st)
    BY <1>2, <1>4, <2>1
  <2>4. Write(st)
    BY <1>3, <2>2
  <2> HIDE DEF st, Good, Write
  <2> QED BY <1>1, <2>3, <2>4
<1>10. CASE CredentialsCallFails
  <2>1. ~At("idle")
    BY <1>10 DEF CredentialsCallFails, At
  <2>2. \E p, r : Write([work.status EXCEPT !.phase = p, !.degraded = r])
    BY <1>10 DEF CredentialsCallFails
  <2> QED BY <1>1, <1>2, <1>4, <2>1, <2>2
<1>11. CASE \/ Reconcile \/ ensureTLSSecrets \/ ensureSelfSignedServing
            \/ cleanupTLSCertificate \/ ensureBackend \/ ensureCnfSecret
            \/ ensureServices \/ ensureExtras \/ CallFails \/ Crash
  <2>1. cluster' = cluster
    BY <1>11 DEF Reconcile, ensureTLSSecrets, ensureSelfSignedServing,
       cleanupTLSCertificate, ensureBackend, ensureCnfSecret, ensureServices,
       ensureExtras, CallFails, Crash, world
  <2> QED BY <2>1 DEF Shapes
<1> QED BY <1>6, <1>7, <1>8, <1>9, <1>10, <1>11 DEF Pass

\* What everyone else does to the cluster and to the pass under way: an edit
\* and a deletion make the pass outdated.
LEMMA EnvironmentCluster ==
    ASSUME Shapes, Fields, Environment
    PROVE  /\ cluster'.status = cluster.status
           /\ \/ /\ work' = work
                 /\ cluster'.spec = cluster.spec
                 /\ cluster'.phase = cluster.phase \/ cluster.phase # "live"
              \/ work' = Outdated /\ UNCHANGED owned
<1>1. CASE EditSpec \/ DeleteCluster
  BY <1>1 DEF EditSpec, DeleteCluster, Fields
<1>2. CASE Gone
  BY <1>2 DEF Gone, Fields
<1>3. CASE \/ Collect \/ ChangeAuth \/ CacheSync \/ ChangeAWS \/ CertManager
           \/ StatefulSetController \/ Provision \/ Squat \/ Tick
           \/ \E n \in SecretNames : BreakSecret(n) \/ BringSecret(n)
  BY <1>3 DEF Collect, ChangeAuth, CacheSync, ChangeAWS, CertManager,
     StatefulSetController, Provision, Squat, Tick, BreakSecret, BringSecret, world
<1> QED BY <1>1, <1>2, <1>3 DEF Environment

\* What a step of a pass leaves of the invariant.
Carries ==
    /\ Found'
    /\ work.fresh => Written'
    /\ \/ work'.pc = "idle"
       \/ /\ work'.spec = work.spec /\ work'.fresh = work.fresh
          /\ DOMAIN work'.status = DOMAIN work.status

\* Nothing is expected of a pass that has ended.
LEMMA EndedFine ==
    ASSUME work' = Idle
    PROVE  Carries
<1>1. work'.pc = "idle"
  BY DEF Idle
<1>2. Found'
  BY <1>1 DEF Found, At, PastTLS, PastBackend
<1>3. Written'
  BY <1>1 DEF Written, At, PastCnf, PastServices, PastTemplate
<1> QED BY <1>1, <1>2, <1>3 DEF Carries

\* The fields of a pass.
LEMMA WorkFields ==
    ASSUME Fields
    PROVE  {"pc", "spec", "fresh", "pw", "status", "tls", "mount", "backend", "ca",
            "extErr", "tlsErr", "rotErr"} = DOMAIN work
BY DEF Fields, Idle

\* Up to TLS, a pass mounts nothing.
LEMMA EarlySteps ==
    ASSUME Fields, Found, resolvePasswords \/ resolveAWSBootstrap
    PROVE  Carries
<1>1. CASE work' = Idle
  BY <1>1, EndedFine
<1>2. ASSUME NEW pc \in {"aws", "tls"}, NEW pw,
             work' = [work EXCEPT !.pc = pc, !.pw = pw]
      PROVE  Carries
  <2>1. /\ work'.pc = pc /\ work'.mount = work.mount /\ work'.tls = work.tls
        /\ work'.spec = work.spec /\ work'.fresh = work.fresh
        /\ work'.status = work.status
    BY <1>2, WorkFields
  <2>2. work.mount = None /\ work.tls = FALSE
    BY DEF Found, resolvePasswords, resolveAWSBootstrap, At
  <2>3. Found'
    BY <2>1, <2>2 DEF Found, At, PastTLS, PastBackend
  <2>4. Written'
    BY <2>1 DEF Written, At, PastCnf, PastServices, PastTemplate
  <2> QED BY <2>1, <2>3, <2>4 DEF Carries
<1>3. CASE resolvePasswords
  <2>1. work' = Idle \/ \E pw : work' = [work EXCEPT !.pc = "aws", !.pw = pw]
    BY <1>3 DEF resolvePasswords, resolveManaged, resolveExternal, mintPasswords,
       CredentialsError
  <2> QED BY <1>1, <1>2, <2>1
<1>4. CASE resolveAWSBootstrap /\ work' # Idle
  <2>1. work' = [work EXCEPT !.pc = "tls"]
    BY <1>4 DEF resolveAWSBootstrap, CredentialsError, Goto
  <2>2. [work EXCEPT !.pc = "tls"] = [work EXCEPT !.pc = "tls", !.pw = work.pw]
    BY WorkFields
  <2> QED BY <1>2, <2>1, <2>2
<1> QED BY <1>1, <1>3, <1>4

\* A pass leaves TLS with what its spec asks for, or with an error.
LEMMA TLSCarries ==
    ASSUME Fields,
           work'.pc \in {"gc", "backend"},
           work'.spec = work.spec, work'.fresh = work.fresh,
           work'.status = work.status,
           ~work'.tlsErr =>
             /\ work'.mount = ExpectedMount(work.spec)
             /\ work'.tls = (work.spec.tier \notin {"none", "off"})
    PROVE  Carries
<1>1. Found'
  BY DEF Found, At, PastTLS, PastBackend
<1>2. Written'
  BY DEF Written, At, PastCnf, PastServices, PastTemplate
<1> QED BY <1>1, <1>2 DEF Carries

\* It may hold what is mounted, which is an error,
LEMMA HoldCarries ==
    ASSUME Fields, work' = holdTLSLastGood(work)
    PROVE  Carries
<1>1. /\ work'.pc = "backend" /\ work'.tlsErr = TRUE
      /\ work'.spec = work.spec /\ work'.fresh = work.fresh
      /\ work'.status = work.status
  BY WorkFields DEF holdTLSLastGood
<1> QED BY <1>1, TLSCarries

\* or mount the Secret that the spec asks for.
LEMMA MountCarries ==
    ASSUME Fields, NEW pc \in {"gc", "backend"}, NEW n, work' = Mounted(pc, n),
           n = ExpectedMount(work.spec), work.spec.tier \notin {"none", "off"}
    PROVE  Carries
<1>1. /\ work'.pc = pc /\ work'.mount = n /\ work'.tls = TRUE
      /\ work'.spec = work.spec /\ work'.fresh = work.fresh
      /\ work'.status = work.status
  BY WorkFields DEF Mounted
<1> QED BY <1>1, TLSCarries

\* The steps of a pass that see to TLS.
LEMMA TLSSteps ==
    ASSUME Fields, Found,
           ensureTLSSecrets \/ ensureSelfSignedServing \/ cleanupTLSCertificate
    PROVE  Carries
<1>1. CASE ensureTLSSecrets /\ ensureUserSecret
  <2>1. /\ work.spec.tier = "user"
        /\ work' = Mounted("gc", work.spec.secret) \/ work' = holdTLSLastGood(work)
    BY <1>1 DEF ensureUserSecret
  <2>2. work.spec.secret = ExpectedMount(work.spec) /\ work.spec.tier \notin {"none", "off"}
    BY <2>1 DEF ExpectedMount
  <2> QED BY <2>1, <2>2, HoldCarries, MountCarries
<1>2. CASE ensureTLSSecrets /\ ensureTLSCertificate
  <2>1. /\ work.spec.tier = "issuer"
        /\ work' = Mounted("backend", "tls") \/ work' = holdTLSLastGood(work)
    BY <1>2 DEF ensureTLSCertificate
  <2>2. "tls" = ExpectedMount(work.spec) /\ work.spec.tier \notin {"none", "off"}
    BY <2>1 DEF ExpectedMount
  <2> QED BY <2>1, <2>2, HoldCarries, MountCarries
<1>3. CASE ensureTLSSecrets /\ ensureSelfSignedCA
  <2>1. CASE work' = holdTLSLastGood(work)
    BY <2>1, HoldCarries
  <2>2. CASE \E ca : work' = [work EXCEPT !.pc = "serving", !.ca = ca]
    <3>1. /\ work'.pc = "serving" /\ work'.mount = work.mount /\ work'.tls = work.tls
          /\ work'.spec = work.spec /\ work'.fresh = work.fresh
          /\ work'.status = work.status
      BY <2>2, WorkFields
    <3>2. work.mount = None /\ work.tls = FALSE /\ work.spec.tier = "self"
      BY <1>3 DEF Found, ensureTLSSecrets, ensureSelfSignedCA, At
    <3>3. Found'
      BY <3>1, <3>2 DEF Found, At, PastTLS, PastBackend
    <3>4. Written'
      BY <3>1 DEF Written, At, PastCnf, PastServices, PastTemplate
    <3> QED BY <3>1, <3>3, <3>4 DEF Carries
  <2> QED BY <1>3, <2>1, <2>2 DEF ensureSelfSignedCA
<1>4. CASE ensureTLSSecrets /\ NoTLS
  <2>1. /\ work.spec.tier \in {"none", "off"} /\ At("tls")
        /\ work' = [work EXCEPT !.pc = IF work.spec.tier = "off" THEN "gc" ELSE "backend"]
    BY <1>4 DEF ensureTLSSecrets, NoTLS, Goto
  <2>2. /\ work'.pc \in {"gc", "backend"}
        /\ work'.mount = work.mount /\ work'.tls = work.tls
        /\ work'.spec = work.spec /\ work'.fresh = work.fresh
        /\ work'.status = work.status
    BY <2>1, WorkFields
  <2>3. work.mount = None /\ work.tls = FALSE
    BY <2>1 DEF Found, At
  <2>4. ExpectedMount(work.spec) = None
    BY <2>1 DEF ExpectedMount
  <2> QED BY <2>1, <2>2, <2>3, <2>4, TLSCarries
<1>5. CASE ensureSelfSignedServing
  <2>1. /\ At("serving")
        /\ work' = Mounted("gc", "tls") \/ work' = holdTLSLastGood(work)
    BY <1>5 DEF ensureSelfSignedServing
  <2>2. work.spec.tier = "self"
    BY <2>1 DEF Found
  <2>3. "tls" = ExpectedMount(work.spec) /\ work.spec.tier \notin {"none", "off"}
    BY <2>2 DEF ExpectedMount
  <2> QED BY <2>1, <2>3, HoldCarries, MountCarries
<1>6. CASE cleanupTLSCertificate
  <2>1. At("gc") /\ work' = [work EXCEPT !.pc = "backend"]
    BY <1>6 DEF cleanupTLSCertificate, Goto
  <2>2. /\ work'.pc = "backend"
        /\ work'.mount = work.mount /\ work'.tls = work.tls
        /\ work'.spec = work.spec /\ work'.fresh = work.fresh
        /\ work'.status = work.status /\ work'.tlsErr = work.tlsErr
    BY <2>1, WorkFields
  <2> QED BY <2>1, <2>2, TLSCarries DEF Found, PastTLS, At
<1> QED BY <1>1, <1>2, <1>3, <1>4, <1>5, <1>6 DEF ensureTLSSecrets

\* The steps from the backend on.  Each adds to what has been written.
LEMMA BackendCarries ==
    ASSUME Fields, Found, ensureBackend
    PROVE  Carries
<1> DEFINE be == IF work.tls THEN work.spec.backend ELSE None
           good == be = None \/ validateBackendTLSSecrets(be)
<1>1. /\ At("backend")
      /\ work' = [work EXCEPT !.pc = "cnf",
                    !.backend = IF good THEN be ELSE holdBackendTLSLastGood,
                    !.tlsErr = @ \/ ~good]
  BY DEF ensureBackend
<1>2. ~work.tlsErr => /\ work.mount = ExpectedMount(work.spec)
                      /\ be = ExpectedBackend(work.spec)
                      /\ work.tls = (work.spec.tier \notin {"none", "off"})
  BY <1>1 DEF Found, At, PastTLS, ExpectedBackend
<1> HIDE DEF be, good
<1>3. /\ work'.pc = "cnf" /\ work'.mount = work.mount /\ work'.tls = work.tls
      /\ work'.spec = work.spec /\ work'.fresh = work.fresh
      /\ work'.status = work.status
  BY <1>1, WorkFields
<1>4. work'.tlsErr = (work.tlsErr \/ ~good) /\ (good => work'.backend = be)
  BY <1>1, WorkFields
<1>5. Found'
  BY <1>2, <1>3, <1>4 DEF Found, At, PastTLS, PastBackend
<1>6. Written'
  BY <1>3 DEF Written, At, PastCnf, PastServices, PastTemplate
<1> QED BY <1>3, <1>5, <1>6 DEF Carries

\* Past the backend, what has been found stays.
LEMMA FoundCarries ==
    ASSUME Found, work.pc \in PastBackend, work'.pc \in PastBackend,
           work'.spec = work.spec, work'.tlsErr = work.tlsErr, work'.tls = work.tls,
           work'.mount = work.mount, work'.backend = work.backend
    PROVE  Found'
<1>1. work.pc \in PastTLS /\ work'.pc \in PastTLS
  BY DEF PastTLS, PastBackend
<1>2. work'.pc \notin {"passwords", "aws", "tls", "serving"}
  BY DEF PastBackend
<1> QED BY <1>1, <1>2 DEF Found, At

\* The cnf Secret is as the pass found, and the old ConfigMap is gone.
LEMMA CnfCarries ==
    ASSUME Shapes, Fields, Found, ensureCnfSecret
    PROVE  Carries
<1>1. /\ At("cnf") /\ work' = [work EXCEPT !.pc = "services"]
      /\ owned' = [owned EXCEPT
                     !.cnf = [pw |-> work.pw, backend |-> work.backend],
                     !.legacy = IF @ = "ours" THEN None ELSE @]
  BY DEF ensureCnfSecret, Goto
<1>2. /\ work'.pc = "services" /\ work'.mount = work.mount /\ work'.tls = work.tls
      /\ work'.spec = work.spec /\ work'.fresh = work.fresh
      /\ work'.status = work.status /\ work'.pw = work.pw
      /\ work'.backend = work.backend /\ work'.tlsErr = work.tlsErr
  BY <1>1, WorkFields
<1>3. /\ owned'.cnf = [pw |-> work.pw, backend |-> work.backend]
      /\ owned'.legacy = IF owned.legacy = "ours" THEN None ELSE owned.legacy
  BY <1>1 DEF Fields, Nothing
<1>4. Found'
  BY <1>1, <1>2, FoundCarries DEF At, PastBackend
<1>5. owned'.legacy # "ours"
  BY <1>3, NoneAssumption
<1>6. Written'
  BY <1>2, <1>3, <1>5 DEF Written, At, PastCnf, PastServices, PastTemplate
<1> QED BY <1>2, <1>4, <1>6 DEF Carries

\* The Services are as the spec asks, or the rejection is recorded.
LEMMA ServicesCarry ==
    ASSUME Shapes, Fields, Found, work.fresh => Written, ensureServices
    PROVE  Carries
<1>1. /\ At("services")
      /\ \E e : owned' = [owned EXCEPT !.svc = TRUE, !.ext = e]
      /\ \/ work' = [work EXCEPT !.pc = "sts"]
         \/ work' = [work EXCEPT !.pc = "sts", !.extErr = TRUE]
  <2>1. [owned EXCEPT !.svc = TRUE] = [owned EXCEPT !.svc = TRUE, !.ext = owned.ext]
    BY DEF Shapes, Fields, Nothing
  <2> QED BY <2>1 DEF ensureServices, ensureExternalService, Goto
<1>2. /\ work'.pc = "sts" /\ work'.mount = work.mount /\ work'.tls = work.tls
      /\ work'.spec = work.spec /\ work'.fresh = work.fresh
      /\ work'.status = work.status /\ work'.pw = work.pw
      /\ work'.backend = work.backend /\ work'.tlsErr = work.tlsErr
  BY <1>1, WorkFields
<1>3. owned'.svc = TRUE /\ owned'.cnf = owned.cnf /\ owned'.legacy = owned.legacy
  BY <1>1 DEF Fields, Nothing
<1>4. ~work'.extErr => ExternalWritten'
  <2>1. CASE Event("ext") /\ work' = [work EXCEPT !.pc = "sts", !.extErr = TRUE]
    BY <2>1, WorkFields
  <2>2. CASE /\ work.spec.ext = None
             /\ owned' = [owned EXCEPT !.svc = TRUE,
                            !.ext = IF @ # None /\ @.ours THEN None ELSE @]
    <3>1. owned'.ext = IF owned.ext # None /\ owned.ext.ours THEN None ELSE owned.ext
      BY <2>2 DEF Fields, Nothing
    <3>2. owned.ext # None => owned.ext.ours
      BY DEF Shapes, ServiceRecords
    <3> QED BY <1>2, <2>2, <3>1, <3>2 DEF ExternalWritten
  <2>3. CASE /\ work.spec.ext # None
             /\ \E port \in keptNodePort(work.spec.ext.port) :
                  owned' = [owned EXCEPT !.svc = TRUE,
                              !.ext = [ours |-> TRUE, type |-> work.spec.ext.type,
                                       port |-> port,
                                       ingress |-> owned.ext # None /\ owned.ext.ingress]]
    <3>1. \E port \in keptNodePort(work.spec.ext.port) :
            owned'.ext = [ours |-> TRUE, type |-> work.spec.ext.type, port |-> port,
                          ingress |-> owned.ext # None /\ owned.ext.ingress]
      BY <2>3 DEF Fields, Nothing
    <3>2. owned'.ext \in ExpectedService(work.spec)
      BY <1>1, <2>3, <3>1, ServiceRecord
    <3> QED BY <1>2, <2>3, <3>2 DEF ExternalWritten, ExpectedService
  <2> QED BY <2>1, <2>2, <2>3 DEF ensureServices, ensureExternalService
<1>5. Found'
  BY <1>1, <1>2, FoundCarries DEF At, PastBackend
<1>6. work.fresh => Written'
  BY <1>1, <1>2, <1>3, <1>4 DEF Written, At, PastCnf, PastServices, PastTemplate
<1> QED BY <1>2, <1>5, <1>6 DEF Carries

\* The StatefulSet has the template of the pass.
LEMMA TemplateCarries ==
    ASSUME Fields, Found, work.fresh => Written, applyTemplate
    PROVE  Carries
<1>1. CASE work' = Idle
  BY <1>1, EndedFine
<1>2. CASE \E rot : work' = [work EXCEPT !.pc = "extras", !.rotErr = rot]
  <2>1. At("sts") /\ owned' = [owned EXCEPT !.sts = Template]
    BY DEF applyTemplate, ensureStatefulSet
  <2>2. /\ work'.pc = "extras" /\ work'.mount = work.mount /\ work'.tls = work.tls
        /\ work'.spec = work.spec /\ work'.fresh = work.fresh
        /\ work'.status = work.status /\ work'.pw = work.pw
        /\ work'.backend = work.backend /\ work'.tlsErr = work.tlsErr
        /\ work'.extErr = work.extErr
    BY <1>2, WorkFields
  <2>3. /\ owned'.sts = Template
        /\ owned'.svc = owned.svc /\ owned'.cnf = owned.cnf
        /\ owned'.legacy = owned.legacy /\ owned'.ext = owned.ext
    BY <2>1 DEF Fields, Nothing
  <2>4. Template' = Template
    BY <2>2 DEF Template
  <2>5. ExternalWritten => ExternalWritten'
    BY <2>2, <2>3 DEF ExternalWritten, ExpectedService
  <2>6. Found'
    BY <2>1, <2>2, FoundCarries DEF At, PastBackend
  <2>7. work.fresh => Written'
    BY <2>1, <2>2, <2>3, <2>4, <2>5 DEF Written, At, PastCnf, PastServices, PastTemplate
  <2> QED BY <2>2, <2>6, <2>7 DEF Carries
<1> QED BY <1>1, <1>2 DEF applyTemplate, Fail

\* The disruption budget and the ServiceMonitor are as the spec asks, or the
\* status tells that the latter is not.
LEMMA ExtrasCarry ==
    ASSUME Shapes, Fields, Found, work.fresh => Written, ensureExtras
    PROVE  Carries
<1>1. PICK lost \in BOOLEAN :
        /\ owned' = [owned EXCEPT
             !.pdb = Ensured(wantPDB(work.spec), @),
             !.monitor = IF lost THEN @ ELSE Ensured(work.spec.monitor, @)]
        /\ work' = [work EXCEPT !.pc = "status",
                      !.status.monitored = ~(lost /\ work.spec.monitor)]
  BY DEF ensureExtras
<1>2. At("extras")
  BY DEF ensureExtras
<1>3. /\ work'.pc = "status" /\ work'.mount = work.mount /\ work'.tls = work.tls
      /\ work'.spec = work.spec /\ work'.fresh = work.fresh
      /\ work'.pw = work.pw
      /\ work'.backend = work.backend /\ work'.tlsErr = work.tlsErr
      /\ work'.extErr = work.extErr
  BY <1>1, WorkFields
<1>4. /\ DOMAIN work'.status = DOMAIN work.status
      /\ work'.status.monitored = ~(lost /\ work.spec.monitor)
  <2>1. "monitored" \in DOMAIN work.status
    BY <1>2 DEF Shapes, At
  <2>2. work'.status = [work.status EXCEPT
                          !.monitored = ~(lost /\ work.spec.monitor)]
    BY <1>1, WorkFields
  <2> QED BY <2>1, <2>2
<1>5. /\ owned'.pdb = Ensured(wantPDB(work.spec), owned.pdb)
      /\ owned'.monitor = IF lost THEN owned.monitor
                          ELSE Ensured(work.spec.monitor, owned.monitor)
      /\ owned'.sts = owned.sts
      /\ owned'.svc = owned.svc /\ owned'.cnf = owned.cnf
      /\ owned'.legacy = owned.legacy /\ owned'.ext = owned.ext
  BY <1>1 DEF Fields, Nothing
<1>6. Template' = Template
  BY <1>3 DEF Template
<1>7. ExternalWritten => ExternalWritten'
  BY <1>3, <1>5 DEF ExternalWritten, ExpectedService
<1>8. IF wantPDB(work.spec) THEN owned'.pdb = "ours" ELSE owned'.pdb # "ours"
  BY <1>5, NoneAssumption DEF Ensured
<1>9. work.spec.monitor /\ work'.status.monitored => owned'.monitor = "ours"
  BY <1>4, <1>5 DEF Ensured
<1>10. Found'
  BY <1>2, <1>3, FoundCarries DEF At, PastBackend
<1>11. work.fresh => Written'
  <2>1. wantPDB(work'.spec) = wantPDB(work.spec)
    BY <1>3 DEF wantPDB
  <2> QED BY <1>2, <1>3, <1>5, <1>6, <1>7, <1>8, <1>9, <2>1
          DEF Written, At, PastCnf, PastServices, PastTemplate
<1> QED BY <1>3, <1>4, <1>10, <1>11 DEF Carries

\* A pass begins with the spec there is.
LEMMA BeginFine ==
    ASSUME Shapes, Reconcile
    PROVE  /\ Found' /\ Written'
           /\ work'.spec = cluster.spec /\ cluster.phase = "live"
           /\ work'.status = cluster.status
<1>1. /\ work' = [Idle EXCEPT !.pc = "passwords", !.spec = cluster.spec,
                              !.status = cluster.status]
      /\ cluster.phase = "live"
  BY DEF Reconcile
<1>2. /\ work'.pc = "passwords" /\ work'.mount = None /\ work'.tls = FALSE
      /\ work'.spec = cluster.spec /\ work'.status = cluster.status
  BY <1>1 DEF Idle
<1>3. Found'
  BY <1>2 DEF Found, At, PastTLS, PastBackend
<1>4. Written'
  BY <1>2 DEF Written, At, PastCnf, PastServices, PastTemplate
<1> QED BY <1>1, <1>2, <1>3, <1>4

\* Everyone else leaves what a pass has written, unless the pass is outdated
\* or its cluster is being deleted.
LEMMA WrittenStays ==
    ASSUME Shapes, Fields, Written, Environment, work' = work, ~Collect
    PROVE  Written'
<1>1. CASE owned' = owned
  BY <1>1 DEF Written, At, ExternalWritten, ExpectedService, Template
<1>2. CASE Provision
  <2>1. owned.ext # None /\ owned' = [owned EXCEPT !.ext.ingress = TRUE]
    BY <1>2 DEF Provision
  <2>2. /\ owned'.ext = [owned.ext EXCEPT !.ingress = TRUE]
        /\ owned'.sts = owned.sts
        /\ owned'.svc = owned.svc /\ owned'.cnf = owned.cnf
        /\ owned'.legacy = owned.legacy
        /\ owned'.pdb = owned.pdb /\ owned'.monitor = owned.monitor
    BY <2>1 DEF Fields, Nothing
  <2>3. owned.ext \in ExpectedService(work.spec) =>
          [owned.ext EXCEPT !.ingress = TRUE] \in ExpectedService(work.spec)
    BY DEF ExpectedService
  <2>4. ExternalWritten => ExternalWritten'
    BY <2>1, <2>2, <2>3 DEF ExternalWritten, ExpectedService
  <2> QED BY <2>2, <2>4 DEF Written, At, Template
<1>3. CASE Squat
  <2>1. PICK f \in {"legacy", "pdb", "monitor"} :
          owned[f] = None /\ owned' = [owned EXCEPT ![f] = "theirs"]
    BY <1>3 DEF Squat
  <2>2. /\ owned'.ext = owned.ext /\ owned'.sts = owned.sts
        /\ owned'.svc = owned.svc /\ owned'.cnf = owned.cnf
    BY <2>1 DEF Fields, Nothing
  <2>3. \A g \in {"legacy", "pdb", "monitor"} : (owned'[g] = "ours") = (owned[g] = "ours")
    BY <2>1, NoneAssumption DEF Fields, Nothing
  <2>4. ExternalWritten => ExternalWritten'
    BY <2>2 DEF ExternalWritten, ExpectedService
  <2> QED BY <2>2, <2>3, <2>4 DEF Written, At, Template
<1>4. CASE \/ EditSpec \/ DeleteCluster \/ Gone \/ ChangeAuth \/ CacheSync
           \/ ChangeAWS \/ CertManager \/ StatefulSetController \/ Tick
           \/ \E n \in SecretNames : BreakSecret(n) \/ BringSecret(n)
  BY <1>1, <1>4 DEF EditSpec, DeleteCluster, Gone, ChangeAuth, CacheSync, ChangeAWS,
     CertManager, StatefulSetController, Tick, BreakSecret, BringSecret
<1> QED BY <1>2, <1>3, <1>4 DEF Environment

\* Every step keeps the invariant.
LEMMA HealthyStep == Fields /\ HealthyInv /\ [Next]_vars => HealthyInv'
<1> SUFFICES ASSUME Fields, HealthyInv, [Next]_vars PROVE HealthyInv'
  OBVIOUS
<1>0. Shapes /\ FreshSpec /\ Found /\ (work.fresh => Written)
  BY DEF HealthyInv
<1>1. /\ events' \in Nat
      /\ owned' = [f \in DOMAIN Nothing |-> owned'[f]]
      /\ owned'.svc \in BOOLEAN
      /\ owned'.ext # None => owned'.ext \in ServiceRecords
  BY <1>0, EventsCounted, OwnedShape DEF Shapes
<1>2. ASSUME /\ "monitored" \in DOMAIN cluster'.status
             /\ work'.pc # "idle" => "monitored" \in DOMAIN work'.status
      PROVE  Shapes'
  BY <1>1, <1>2 DEF Shapes, At
<1>3. CASE Reconcile
  <2>1. Found' /\ Written' /\ work'.spec = cluster.spec /\ cluster.phase = "live"
        /\ work'.status = cluster.status
    BY <1>0, <1>3, BeginFine
  <2>2. cluster' = cluster
    BY <1>3 DEF Reconcile, world
  <2>3. FreshSpec'
    BY <2>1, <2>2 DEF FreshSpec
  <2>4. Shapes'
    BY <1>0, <1>2, <2>1, <2>2 DEF Shapes
  <2> QED BY <2>1, <2>3, <2>4 DEF HealthyInv
<1>4. CASE (Pass /\ ~Reconcile) \/ CallFails \/ CredentialsCallFails \/ Crash
  <2>1. Carries
    <3>1. CASE updateStatus \/ CallFails \/ CredentialsCallFails \/ Crash
      BY <3>1, EndedFine DEF updateStatus, CallFails, CredentialsCallFails, Crash, Fail
    <3> QED BY <1>0, <1>4, <3>1, EarlySteps, TLSSteps, BackendCarries, CnfCarries,
               ServicesCarry, TemplateCarries, ExtrasCarry DEF Pass
  <2>2. ~At("idle")
    BY <1>4 DEF Pass, resolvePasswords, resolveAWSBootstrap, ensureTLSSecrets,
       ensureSelfSignedServing, cleanupTLSCertificate, ensureBackend,
       ensureCnfSecret, ensureServices, applyTemplate, ensureExtras,
       updateStatus, CallFails, CredentialsCallFails, Crash, At
  <2>3. /\ cluster'.phase = cluster.phase /\ cluster'.spec = cluster.spec
        /\ "monitored" \in DOMAIN cluster'.status
    BY <1>0, <1>4, PassCluster
  <2>4. Shapes'
    BY <1>0, <1>2, <2>1, <2>2, <2>3 DEF Shapes, Carries
  <2>5. FreshSpec'
    BY <1>0, <2>1, <2>2, <2>3 DEF FreshSpec, Carries, At
  <2>6. work'.fresh => Written'
    <3>1. CASE work'.pc = "idle"
      BY <3>1 DEF Written, At, PastCnf, PastServices, PastTemplate
    <3> QED BY <2>1, <3>1 DEF Carries
  <2> QED BY <2>1, <2>4, <2>5, <2>6 DEF HealthyInv, Carries
<1>5. CASE Environment
  <2>1. /\ cluster'.status = cluster.status
        /\ \/ /\ work' = work
              /\ cluster'.spec = cluster.spec
              /\ cluster'.phase = cluster.phase \/ cluster.phase # "live"
           \/ work' = Outdated /\ UNCHANGED owned
    BY <1>0, <1>5, EnvironmentCluster
  <2>2. CASE work' = Outdated /\ UNCHANGED owned
    <3>1. /\ work'.pc = work.pc /\ work'.fresh = At("idle")
          /\ work'.spec = work.spec /\ work'.status = work.status
          /\ work'.mount = work.mount /\ work'.tls = work.tls
          /\ work'.tlsErr = work.tlsErr /\ work'.backend = work.backend
      BY <2>2, WorkFields DEF Outdated
    <3>2. Found'
      BY <1>0, <3>1 DEF Found, At
    <3>3. FreshSpec'
      BY <3>1 DEF FreshSpec, At
    <3>4. work'.fresh => Written'
      BY <3>1 DEF Written, At, PastCnf, PastServices, PastTemplate
    <3>5. Shapes'
      BY <1>0, <1>2, <2>1, <3>1 DEF Shapes, At
    <3> QED BY <3>2, <3>3, <3>4, <3>5 DEF HealthyInv
  <2>3. CASE /\ work' = work
             /\ cluster'.spec = cluster.spec
             /\ cluster'.phase = cluster.phase \/ cluster.phase # "live"
    <3>1. Found'
      BY <1>0, <2>3 DEF Found, At
    <3>2. FreshSpec'
      BY <1>0, <2>3 DEF FreshSpec, At
    <3>3. work'.fresh => Written'
      <4>1. CASE At("idle")
        BY <2>3, <4>1 DEF Written, At, PastCnf, PastServices, PastTemplate
      <4>2. CASE ~At("idle") /\ work.fresh
        <5>1. ~Collect
          BY <1>0, <4>2 DEF FreshSpec, Collect
        <5> QED BY <1>0, <1>5, <2>3, <4>2, <5>1, WrittenStays
      <4> QED BY <2>3, <4>1, <4>2
    <3>4. Shapes'
      BY <1>0, <1>2, <2>1, <2>3 DEF Shapes, At
    <3> QED BY <3>1, <3>2, <3>3, <3>4 DEF HealthyInv
  <2> QED BY <2>1, <2>2, <2>3
<1>6. CASE UNCHANGED vars
  <2>1. work' = work /\ owned' = owned /\ cluster' = cluster
    BY <1>6 DEF vars
  <2>2. Shapes'
    BY <1>0, <1>2, <2>1 DEF Shapes, At
  <2>3. FreshSpec' /\ Found'
    BY <1>0, <2>1 DEF FreshSpec, Found, At
  <2>4. Written => Written'
    BY <2>1 DEF Written, At, ExternalWritten, ExpectedService, Template
  <2> QED BY <1>0, <2>1, <2>2, <2>3, <2>4 DEF HealthyInv
<1> QED BY <1>3, <1>4, <1>5, <1>6 DEF Next, Pass

\* The first state satisfies it.
LEMMA HealthyInit == Init => HealthyInv
<1> SUFFICES ASSUME Init PROVE HealthyInv
  OBVIOUS
<1>1. work.pc = "idle"
  BY DEF Init, Idle
<1>2. Found /\ Written /\ FreshSpec
  BY <1>1 DEF Found, Written, FreshSpec, At, PastTLS, PastBackend, PastCnf,
     PastServices, PastTemplate
<1>3. /\ owned = [f \in DOMAIN Nothing |-> owned[f]]
      /\ owned.svc = FALSE /\ owned.ext = None
  BY DEF Init, Nothing
<1>4. events = 0
  BY DEF Init
<1>5. "monitored" \in DOMAIN cluster.status
  <2>1. PICK spec \in FirstSpecs :
          cluster = [phase |-> "live", spec |-> spec, status |-> NoStatus]
    BY DEF Init
  <2>2. "monitored" \in DOMAIN NoStatus
    BY SMT DEF NoStatus
  <2> QED BY <2>1, <2>2
<1>6. 0 \in Nat
  BY SMT
<1> QED BY <1>1, <1>2, <1>3, <1>4, <1>5, <1>6 DEF HealthyInv, Shapes, At

\* A pass that is about to clear the Degraded condition has applied all of the
\* spec there is, for any specs and events: whatever it held back, could not
\* write or wrote for an earlier spec would show (Reconcile, degradedReason).
THEOREM ConditionTruthful == Spec => []HealthyMeansApplied
<1>1. HealthyInv => HealthyMeansApplied
  <2> SUFFICES ASSUME HealthyInv, At("status"), work.fresh, degradedReason = None
               PROVE  /\ Rendered(cluster.spec, work.pw)
                      /\ cluster.spec.monitor /\ work.status.monitored
                           => owned.monitor = "ours"
    BY DEF HealthyMeansApplied
  <2>1. ~work.extErr /\ ~work.tlsErr
    BY NoneAssumption DEF degradedReason
  <2>2. work.spec = cluster.spec
    BY DEF HealthyInv, FreshSpec, At
  <2>3. /\ work.mount = ExpectedMount(work.spec)
        /\ work.backend = ExpectedBackend(work.spec)
    BY <2>1 DEF HealthyInv, Found, At, PastTLS, PastBackend
  <2>4. /\ owned.cnf = [pw |-> work.pw, backend |-> work.backend]
        /\ owned.legacy # "ours" /\ owned.svc /\ ExternalWritten
        /\ owned.sts = Template
        /\ IF wantPDB(work.spec) THEN owned.pdb = "ours" ELSE owned.pdb # "ours"
        /\ work.spec.monitor /\ work.status.monitored => owned.monitor = "ours"
    BY <2>1 DEF HealthyInv, Written, At, PastCnf, PastServices, PastTemplate
  <2> QED BY <2>2, <2>3, <2>4 DEF Rendered, ExternalWritten, Template
<1>2. PassInv => Fields
  BY DEF PassInv, PassCore, BackedInv
<1> QED BY <1>1, <1>2, PassInvInit, PassInvStep, HealthyInit, HealthyStep, PTL DEF Spec

----------------------------------------------------------------------------
(* Passes over a cluster that is as its spec says change nothing.  AtRest  *)
(* is kept by every step without an event: a step of the pass finds in the *)
(* world what it would write, and carries on with it.                      *)

Undisturbed == UNCHANGED <<auth, rds, secrets, owned, bootstrap, now>>

\* What is in place depends on nothing else.
LEMMA InPlaceSame ==
    ASSUME NEW s, InPlace(s), Undisturbed
    PROVE  InPlace(s)'
<1>1. /\ auth' = auth /\ rds' = rds /\ secrets' = secrets /\ owned' = owned
      /\ bootstrap' = bootstrap /\ now' = now
  BY DEF Undisturbed
<1>2. Credentials(s)' /\ TLSBrought(s)'
  BY <1>1 DEF InPlace, Credentials, TLSBrought, Complete, validateBackendTLSSecrets
<1>3. Rendered(s, FoundPasswords(s))'
  BY <1>1 DEF InPlace, Rendered, FoundPasswords
<1> QED BY <1>1, <1>2, <1>3 DEF InPlace, Complete

\* A pass that ends expects nothing;
LEMMA RestEnds ==
    ASSUME NEW s, work' = Idle
    PROVE  PassInPlace(s)'
<1>1. work'.pc = "idle"
  BY DEF Idle
<1> QED BY <1>1 DEF PassInPlace, At

\* one that begins has the spec.
LEMMA RestBegins ==
    ASSUME NEW s, s = cluster.spec, Reconcile
    PROVE  Undisturbed /\ PassInPlace(s)'
<1>1. /\ work'.pc = "passwords" /\ work'.mount = None /\ work'.tls = FALSE
      /\ work'.spec = s
  BY DEF Reconcile, Idle
<1>2. PassInPlace(s)'
  BY <1>1 DEF PassInPlace, At
<1>3. Undisturbed
  BY DEF Undisturbed, Reconcile, world
<1> QED BY <1>2, <1>3

\* The passwords there are are found, and none is minted (resolvePasswords).
LEMMA RestPasswords ==
    ASSUME NEW s, InPlace(s), PassInPlace(s), Shapes, Fields, CredentialTypes,
           events' = events, resolvePasswords
    PROVE  Undisturbed /\ PassInPlace(s)'
<1>1. work.spec = s /\ work.mount = None /\ work.tls = FALSE
  BY DEF PassInPlace, resolvePasswords, At
<1>2. UNCHANGED <<rds, secrets, owned, bootstrap, now>>
  BY DEF resolvePasswords
<1>3. auth # None /\ auth \in [AuthKeys -> Nat]
  BY CredentialsAssumption DEF InPlace, Credentials, CredentialTypes
<1>4. \A k : ~Event(k)
  BY EventFacts DEF Shapes
<1>5. /\ auth' = auth
      /\ work' = [work EXCEPT !.pc = "aws", !.pw = FoundPasswords(s)]
  <2>1. CASE s.managed
    <3>1. /\ auth' = Backfilled(auth)
          /\ work' = [work EXCEPT !.pc = "aws",
                                  !.pw = [k \in PasswordKeys |-> auth'[k]]]
      BY <1>1, <1>3, <1>4, <2>1 DEF resolvePasswords, resolveManaged,
         resolveExternal, Perhaps
    <3>2. \A k \in PasswordKeys : auth[k] # 0
      BY <2>1 DEF InPlace
    <3>3. \A k \in AuthKeys : Backfilled(auth)[k] = auth[k]
      BY <3>2 DEF Backfilled
    <3>4. DOMAIN Backfilled(auth) = AuthKeys
      BY DEF Backfilled
    <3>5. Backfilled(auth) = auth
      <4>1. Backfilled(auth) = [k \in AuthKeys |-> Backfilled(auth)[k]]
        BY DEF Backfilled
      <4>2. auth = [k \in AuthKeys |-> auth[k]]
        BY <1>3
      <4> QED BY <3>3, <4>1, <4>2
    <3> QED BY <2>1, <3>1, <3>5 DEF FoundPasswords
  <2>2. CASE ~s.managed
    <3>1. PasswordsFromSecret(auth) # None
      BY <2>2 DEF InPlace, Credentials
    <3> QED BY <1>1, <1>3, <2>2, <3>1 DEF resolvePasswords, resolveManaged,
               resolveExternal, FoundPasswords
  <2> QED BY <2>1, <2>2
<1>6. FoundPasswords(s)' = FoundPasswords(s)
  BY <1>5 DEF FoundPasswords
<1>7. /\ work'.pc = "aws" /\ work'.pw = FoundPasswords(s)
      /\ work'.spec = s /\ work'.mount = None /\ work'.tls = FALSE
  BY <1>1, <1>5, WorkFields
<1>8. PassInPlace(s)'
  BY <1>6, <1>7 DEF PassInPlace, At
<1> QED BY <1>2, <1>5, <1>8 DEF Undisturbed

\* So are the RDS credentials (ensureRDSCredentials).
LEMMA RestAWS ==
    ASSUME NEW s, InPlace(s), PassInPlace(s), Fields, resolveAWSBootstrap
    PROVE  Undisturbed /\ PassInPlace(s)'
<1>1. /\ work.spec = s /\ work.mount = None /\ work.tls = FALSE
      /\ work.pw = FoundPasswords(s)
  BY DEF PassInPlace, resolveAWSBootstrap, At
<1>2. UNCHANGED <<auth, secrets, owned, bootstrap, now>>
  BY DEF resolveAWSBootstrap
<1>3. rds' = rds /\ work' = [work EXCEPT !.pc = "tls"]
  <2>1. CASE ~s.aws
    BY <1>1, <2>1 DEF resolveAWSBootstrap, Goto
  <2>2. CASE s.aws
    <3>1. /\ bootstrap /\ rds # None
          /\ credentialsFromSecret(rds) = rds.file /\ rds.file # 0
      BY <2>2 DEF InPlace, Credentials, credentialsFromSecret
    <3> QED BY <1>1, <2>2, <3>1 DEF resolveAWSBootstrap, ensureRDSCredentials, Goto
  <2> QED BY <2>1, <2>2
<1>4. FoundPasswords(s)' = FoundPasswords(s)
  BY <1>2 DEF FoundPasswords
<1>5. /\ work'.pc = "tls" /\ work'.pw = FoundPasswords(s)
      /\ work'.spec = s /\ work'.mount = None /\ work'.tls = FALSE
  BY <1>1, <1>3, WorkFields
<1>6. PassInPlace(s)'
  BY <1>4, <1>5 DEF PassInPlace, At
<1> QED BY <1>2, <1>3, <1>6 DEF Undisturbed

\* The Secret that is asked for is there, and so is what is issued and not due:
\* nothing is issued again (ensureTLSSecrets).
LEMMA RestTLS ==
    ASSUME NEW s, InPlace(s), PassInPlace(s), Shapes, Fields, MaterialTypes,
           events' = events, ensureTLSSecrets
    PROVE  Undisturbed /\ PassInPlace(s)'
<1>1. /\ work.spec = s /\ work.mount = None /\ work.tls = FALSE
      /\ work.pw = FoundPasswords(s)
  BY DEF PassInPlace, ensureTLSSecrets, At
<1>2. UNCHANGED <<auth, rds, bootstrap, now>>
  BY DEF ensureTLSSecrets
<1>3. FoundPasswords(s)' = FoundPasswords(s)
  BY <1>2 DEF FoundPasswords
<1>4. \A k : ~Event(k)
  BY EventFacts DEF Shapes
<1>5. ASSUME NEW pc \in {"gc", "backend"}, work' = Mounted(pc, ExpectedMount(s)),
             s.tier \notin {"none", "off"}, pc = "gc" => s.tier # "issuer"
      PROVE  PassInPlace(s)'
  <2>1. /\ work'.pc = pc /\ work'.mount = ExpectedMount(s) /\ work'.tls = TRUE
        /\ work'.spec = s /\ work'.pw = FoundPasswords(s)
    BY <1>1, <1>5, WorkFields DEF Mounted
  <2> QED BY <1>3, <1>5, <2>1 DEF PassInPlace, At
<1>6. CASE ensureUserSecret
  <2>1. s.tier = "user" /\ work' = Mounted("gc", s.secret)
    BY <1>1, <1>6 DEF ensureUserSecret, InPlace, TLSBrought
  <2>2. s.secret = ExpectedMount(s)
    BY <2>1 DEF ExpectedMount
  <2> QED BY <1>2, <1>5, <1>6, <2>1, <2>2 DEF ensureUserSecret, Undisturbed
<1>7. CASE ensureTLSCertificate
  <2>1. /\ s.tier = "issuer" /\ owned' = [owned EXCEPT !.cert = Certificate(s)]
        /\ work' = Mounted("backend", "tls")
    BY <1>1, <1>4, <1>7 DEF ensureTLSCertificate, InPlace, Perhaps
  <2>2. "tls" = ExpectedMount(s)
    BY <2>1 DEF ExpectedMount
  <2>3. owned.cert = Certificate(s)
    BY <2>1 DEF InPlace, ExpectedCertificate
  <2>4. owned' = owned
    BY <2>1, <2>3 DEF Shapes
  <2> QED BY <1>2, <1>5, <1>7, <2>1, <2>2, <2>4 DEF ensureTLSCertificate, Undisturbed
<1>8. CASE ensureSelfSignedCA
  <2>1. s.tier = "self"
    BY <1>1, <1>8 DEF ensureSelfSignedCA
  <2>2. KeepCA
    <3>1. /\ Complete("ca")
          /\ secrets["ca"].notAfter >= now + (s.duration + s.renewBefore)
      BY <2>1 DEF InPlace
    <3>2. secrets["ca"] \in Materials \cup {None}
      BY DEF MaterialTypes, SecretNames
    <3>3. secrets["ca"].notAfter \in Nat
      BY <3>1, <3>2 DEF Complete, Materials
    <3>4. ~(secrets["ca"].notAfter < now + (s.duration + s.renewBefore))
      <4>1. s \in AllSpecs
        BY <1>1 DEF Fields, ensureTLSSecrets, At
      <4> QED BY <3>1, <3>3, <4>1, LifeFacts, SMT DEF MaterialTypes
    <3> QED BY <1>1, <3>1, <3>4 DEF KeepCA, NeedsRenewal, Complete
  <2>3. /\ secrets' = [secrets EXCEPT !["ca"] = secrets["ca"]]
        /\ work' = [work EXCEPT !.pc = "serving", !.ca = secrets["ca"]]
        /\ owned' = owned
    BY <1>4, <1>8, <2>2 DEF ensureSelfSignedCA, Store, Perhaps
  <2>4. secrets' = secrets
    BY <2>3 DEF MaterialTypes
  <2>5. /\ work'.pc = "serving" /\ work'.ca = secrets'["ca"]
        /\ work'.spec = s /\ work'.pw = FoundPasswords(s)
    BY <1>1, <2>3, <2>4, WorkFields
  <2>6. PassInPlace(s)'
    BY <1>3, <2>1, <2>5 DEF PassInPlace, At
  <2> QED BY <1>2, <2>3, <2>4, <2>6 DEF Undisturbed
<1>9. CASE NoTLS
  <2>1. /\ s.tier \in {"none", "off"}
        /\ work' = [work EXCEPT !.pc = IF s.tier = "off" THEN "gc" ELSE "backend"]
        /\ UNCHANGED <<secrets, owned>>
    BY <1>1, <1>9 DEF NoTLS, Goto
  <2>2. /\ work'.pc = (IF s.tier = "off" THEN "gc" ELSE "backend")
        /\ work'.mount = None /\ work'.tls = FALSE
        /\ work'.spec = s /\ work'.pw = FoundPasswords(s)
    BY <1>1, <2>1, WorkFields
  <2>3. ExpectedMount(s) = None /\ (s.tier \notin {"none", "off"}) = FALSE
    BY <2>1 DEF ExpectedMount
  <2>4. PassInPlace(s)'
    <3>1. CASE s.tier = "off"
      BY <1>3, <2>2, <2>3, <3>1 DEF PassInPlace, At
    <3>2. CASE s.tier # "off"
      BY <1>3, <2>2, <2>3, <3>2 DEF PassInPlace, At
    <3> QED BY <3>1, <3>2
  <2> QED BY <1>2, <2>1, <2>4 DEF Undisturbed
<1> QED BY <1>6, <1>7, <1>8, <1>9 DEF ensureTLSSecrets

\* The serving certificate covers its names, is of the CA and lasts.
LEMMA RestServing ==
    ASSUME NEW s, InPlace(s), PassInPlace(s), Shapes, Fields, MaterialTypes,
           events' = events, ensureSelfSignedServing
    PROVE  Undisturbed /\ PassInPlace(s)'
<1>1. /\ work.spec = s /\ s.tier = "self" /\ work.ca = secrets["ca"]
      /\ work.pw = FoundPasswords(s)
  BY DEF PassInPlace, ensureSelfSignedServing, At
<1>2. UNCHANGED <<auth, rds, bootstrap, now, owned>>
  BY DEF ensureSelfSignedServing
<1>3. FoundPasswords(s)' = FoundPasswords(s)
  BY <1>2 DEF FoundPasswords
<1>4. \A k : ~Event(k)
  BY EventFacts DEF Shapes
<1>5. ~servingReissueNeeded(secrets["tls"], work.ca, work.spec)
  <2>1. /\ Complete("tls") /\ secrets["tls"].notAfter >= now + s.renewBefore
        /\ secrets["tls"].ca = secrets["ca"].ca
        /\ SANsFor(s) \subseteq secrets["tls"].sans
    BY <1>1 DEF InPlace
  <2>2. secrets["tls"] \in Materials \cup {None}
    BY DEF MaterialTypes, SecretNames
  <2>3. secrets["tls"].notAfter \in Nat
    BY <2>1, <2>2 DEF Complete, Materials
  <2>4. ~(secrets["tls"].notAfter < now + s.renewBefore)
    <3>1. s \in AllSpecs
      BY <1>1 DEF Fields, ensureSelfSignedServing, At
    <3> QED BY <2>1, <2>3, <3>1, LifeFacts, SMT DEF MaterialTypes
  <2> QED BY <1>1, <2>1, <2>4 DEF servingReissueNeeded, NeedsRenewal, Complete
<1>6. secrets' = secrets /\ work' = Mounted("gc", "tls")
  BY <1>4, <1>5 DEF ensureSelfSignedServing, Store, Perhaps
<1>7. /\ work'.pc = "gc" /\ work'.mount = "tls" /\ work'.tls = TRUE
      /\ work'.spec = s /\ work'.pw = FoundPasswords(s)
  BY <1>1, <1>6, WorkFields DEF Mounted
<1>8. ExpectedMount(s) = "tls" /\ s.tier \notin {"none", "off", "issuer"}
  BY <1>1 DEF ExpectedMount
<1>9. PassInPlace(s)'
  BY <1>3, <1>7, <1>8 DEF PassInPlace, At
<1> QED BY <1>2, <1>6, <1>9 DEF Undisturbed

\* There is no Certificate to remove, and the Secrets for the servers are there.
LEMMA RestBackend ==
    ASSUME NEW s, InPlace(s), PassInPlace(s), Shapes, Fields,
           events' = events, cleanupTLSCertificate \/ ensureBackend
    PROVE  Undisturbed /\ PassInPlace(s)'
<1>1. /\ work.spec = s /\ work.mount = ExpectedMount(s)
      /\ work.tls = (s.tier \notin {"none", "off"})
      /\ work.pw = FoundPasswords(s)
  BY DEF PassInPlace, cleanupTLSCertificate, ensureBackend, At
<1>2. UNCHANGED <<auth, rds, secrets, bootstrap, now>>
  BY DEF cleanupTLSCertificate, ensureBackend, world
<1>3. FoundPasswords(s)' = FoundPasswords(s)
  BY <1>2 DEF FoundPasswords
<1>4. CASE cleanupTLSCertificate
  <2>1. s.tier \notin {"none", "issuer"}
    BY <1>4 DEF PassInPlace, cleanupTLSCertificate
  <2>2. owned.cert = None
    BY <2>1 DEF InPlace, ExpectedCertificate
  <2>3. owned' = owned \/ owned' = [owned EXCEPT !.cert = None]
    BY <1>4 DEF cleanupTLSCertificate
  <2>4. owned' = owned
    BY <2>2, <2>3 DEF Shapes
  <2>5. work' = [work EXCEPT !.pc = "backend"]
    BY <1>4 DEF cleanupTLSCertificate, Goto
  <2>6. /\ work'.pc = "backend" /\ work'.mount = ExpectedMount(s)
        /\ work'.tls = (s.tier \notin {"none", "off"})
        /\ work'.spec = s /\ work'.pw = FoundPasswords(s)
    BY <1>1, <2>5, WorkFields
  <2>7. PassInPlace(s)'
    BY <1>3, <2>6 DEF PassInPlace, At
  <2> QED BY <1>2, <2>4, <2>7 DEF Undisturbed
<1>5. CASE ensureBackend
  <2> DEFINE be == IF work.tls THEN work.spec.backend ELSE None
             good == be = None \/ validateBackendTLSSecrets(be)
  <2>1. work' = [work EXCEPT !.pc = "cnf",
                   !.backend = IF good THEN be ELSE holdBackendTLSLastGood,
                   !.tlsErr = @ \/ ~good]
    BY <1>5 DEF ensureBackend
  <2>2. be = ExpectedBackend(s)
    BY <1>1 DEF ExpectedBackend
  <2>3. good
    <3>1. be = None \/ (s.tier \notin {"none", "off"} /\ s.backend # None /\ be = s.backend)
      BY <1>1
    <3> QED BY <3>1 DEF InPlace, TLSBrought
  <2> HIDE DEF be, good
  <2>4. /\ work'.pc = "cnf" /\ work'.backend = ExpectedBackend(s)
        /\ work'.mount = ExpectedMount(s)
        /\ work'.tls = (s.tier \notin {"none", "off"})
        /\ work'.spec = s /\ work'.pw = FoundPasswords(s)
    BY <1>1, <2>1, <2>2, <2>3, WorkFields
  <2>5. PassInPlace(s)'
    BY <1>3, <2>4 DEF PassInPlace, At
  <2> QED BY <1>2, <1>5, <2>5 DEF Undisturbed, ensureBackend
<1> QED BY <1>4, <1>5

\* Every object is written as it is.
LEMMA RestObjects ==
    ASSUME NEW s, InPlace(s), PassInPlace(s), Shapes, Fields,
           events' = events, ensureCnfSecret \/ ensureServices \/ applyTemplate
    PROVE  Undisturbed /\ PassInPlace(s)'
<1>1. /\ work.spec = s /\ work.mount = ExpectedMount(s)
      /\ work.tls = (s.tier \notin {"none", "off"})
      /\ work.pw = FoundPasswords(s) /\ work.backend = ExpectedBackend(s)
  BY DEF PassInPlace, ensureCnfSecret, ensureServices, applyTemplate, At
<1>2. UNCHANGED <<auth, rds, secrets, bootstrap, now>>
  BY DEF ensureCnfSecret, ensureServices, applyTemplate, world
<1>3. FoundPasswords(s)' = FoundPasswords(s)
  BY <1>2 DEF FoundPasswords
<1>4. \A k : ~Event(k)
  BY EventFacts DEF Shapes
<1>5. Rendered(s, FoundPasswords(s))
  BY DEF InPlace
<1>6. ASSUME NEW pc \in {"services", "sts"}, work' = [work EXCEPT !.pc = pc]
      PROVE  PassInPlace(s)'
  <2>1. /\ work'.pc = pc /\ work'.backend = ExpectedBackend(s)
        /\ work'.mount = ExpectedMount(s)
        /\ work'.tls = (s.tier \notin {"none", "off"})
        /\ work'.spec = s /\ work'.pw = FoundPasswords(s)
    BY <1>1, <1>6, WorkFields
  <2> QED BY <1>3, <2>1 DEF PassInPlace, At
<1>7. CASE ensureCnfSecret
  <2>1. /\ owned' = [owned EXCEPT !.cnf = [pw |-> work.pw, backend |-> work.backend],
                       !.legacy = IF @ = "ours" THEN None ELSE @]
        /\ work' = [work EXCEPT !.pc = "services"]
    BY <1>7 DEF ensureCnfSecret, Goto
  <2>2. /\ owned.cnf = [pw |-> work.pw, backend |-> work.backend]
        /\ owned.legacy # "ours"
    BY <1>1, <1>5 DEF Rendered
  <2>3. owned' = owned
    BY <2>1, <2>2 DEF Shapes
  <2> QED BY <1>2, <1>6, <2>1, <2>3 DEF Undisturbed
<1>8. CASE ensureServices
  <2>1. owned.svc = TRUE
    BY <1>5 DEF Rendered, Shapes
  <2>2. CASE s.ext = None
    <3>1. owned.ext = None
      BY <1>5, <2>2 DEF Rendered
    <3>2. /\ owned' = [owned EXCEPT !.svc = TRUE,
                         !.ext = IF @ # None /\ @.ours THEN None ELSE @]
          /\ work' = [work EXCEPT !.pc = "sts"]
      BY <1>1, <1>4, <1>8, <2>2 DEF ensureServices, ensureExternalService, Goto
    <3>3. owned' = owned
      BY <2>1, <3>1, <3>2 DEF Shapes
    <3> QED BY <1>2, <1>6, <3>2, <3>3 DEF Undisturbed
  <2>3. CASE s.ext # None
    <3>1. owned.ext \in ExpectedService(s)
      BY <1>5, <2>3 DEF Rendered
    <3>2. owned.ext \in [ours : {TRUE}, type : {s.ext.type}, ingress : BOOLEAN,
                         port : Nat]
      <4>1. s.ext.port \in Nat
        BY <1>1, <1>8, <2>3, NoneAssumption DEF Fields, AllSpecs, ensureServices, At
      <4> QED BY <3>1, <4>1 DEF ExpectedService
    <3>3. owned.ext # None
      BY <1>1, <1>8, <2>3, <3>2, NoneAssumption DEF Fields, AllSpecs, ensureServices, At
    <3>4. PICK port \in keptNodePort(s.ext.port) :
            /\ owned' = [owned EXCEPT !.svc = TRUE,
                           !.ext = [ours |-> TRUE, type |-> s.ext.type, port |-> port,
                                    ingress |-> owned.ext # None /\ owned.ext.ingress]]
            /\ work' = [work EXCEPT !.pc = "sts"]
      BY <1>1, <1>4, <1>8, <2>3 DEF ensureServices, ensureExternalService, Goto
    <3>5. port = owned.ext.port
      BY <3>1, <3>3, <3>4 DEF keptNodePort, ExpectedService
    <3>6. (owned.ext # None /\ owned.ext.ingress) = owned.ext.ingress
      BY <3>2, <3>3
    <3>7. owned.ext = [ours |-> TRUE, type |-> s.ext.type, port |-> port,
                       ingress |-> owned.ext.ingress]
      BY <3>2, <3>5
    <3>8. owned' = owned
      BY <2>1, <3>4, <3>6, <3>7 DEF Shapes
    <3> QED BY <1>2, <1>6, <3>4, <3>8 DEF Undisturbed
  <2> QED BY <2>2, <2>3
<1>9. CASE applyTemplate
  <2>1. owned' = [owned EXCEPT !.sts = Template]
    BY <1>9 DEF applyTemplate, ensureStatefulSet
  <2>2. owned.sts = Template
    BY <1>1, <1>5 DEF Rendered, Template
  <2>3. owned' = owned
    BY <2>1, <2>2 DEF Shapes
  <2>4. \E rot \in BOOLEAN : work' = [work EXCEPT !.pc = "extras", !.rotErr = rot]
    BY <1>4, <1>9 DEF applyTemplate
  <2>5. work'.pc = "extras" /\ work'.spec = s /\ work'.pw = FoundPasswords(s)
    BY <1>1, <2>4, WorkFields
  <2>6. PassInPlace(s)'
    BY <1>3, <2>5 DEF PassInPlace, At
  <2> QED BY <1>2, <2>3, <2>6 DEF Undisturbed
<1> QED BY <1>7, <1>8, <1>9

\* So are the disruption budget and the ServiceMonitor.
LEMMA RestExtras ==
    ASSUME NEW s, InPlace(s), PassInPlace(s), Shapes, Fields,
           events' = events, ensureExtras
    PROVE  Undisturbed /\ PassInPlace(s)'
<1>1. work.spec = s /\ work.pw = FoundPasswords(s)
  BY DEF PassInPlace, ensureExtras, At
<1>2. UNCHANGED <<auth, rds, secrets, bootstrap, now>>
  BY DEF ensureExtras, world
<1>3. FoundPasswords(s)' = FoundPasswords(s)
  BY <1>2 DEF FoundPasswords
<1>4. \A k : ~Event(k)
  BY EventFacts DEF Shapes
<1>5. PICK b :
        /\ owned' = [owned EXCEPT !.pdb = Ensured(wantPDB(s), @),
                                  !.monitor = Ensured(s.monitor, @)]
        /\ work' = [work EXCEPT !.pc = "status", !.status.monitored = b]
  BY <1>1, <1>4 DEF ensureExtras, Perhaps
<1>6. /\ Ensured(wantPDB(s), owned.pdb) = owned.pdb
      /\ Ensured(s.monitor, owned.monitor) = owned.monitor
  BY DEF InPlace, Rendered, Ensured
<1>7. owned' = owned
  BY <1>5, <1>6 DEF Shapes
<1>8. work'.pc = "status" /\ work'.spec = s /\ work'.pw = FoundPasswords(s)
  BY <1>1, <1>5, WorkFields
<1>9. PassInPlace(s)'
  BY <1>3, <1>8 DEF PassInPlace, At
<1> QED BY <1>2, <1>7, <1>9 DEF Undisturbed

\* More complete Secrets with TLS material do no harm to what is in place.
LEMMA RestStores ==
    ASSUME NEW s, s = cluster.spec, cluster.phase = "live",
           InPlace(s), PassInPlace(s), Fields, MaterialTypes, Certified,
           CertManager \/ \E n \in SecretNames : BringSecret(n)
    PROVE  InPlace(s)' /\ PassInPlace(s)'
<1>1. UNCHANGED <<auth, rds, bootstrap, owned, now, work>>
  BY DEF CertManager, BringSecret
<1>2. FoundPasswords(s)' = FoundPasswords(s)
  BY <1>1 DEF FoundPasswords
<1>3. PICK n \in SecretNames, m \in Materials :
        /\ secrets' = [secrets EXCEPT ![n] = m] /\ m.full
        /\ \/ n \in Brought
           \/ n = "tls" /\ s.tier \notin {"self", "off", "user"}
  <2>1. CASE CertManager
    <3>1. owned.cert # None
      BY <2>1 DEF CertManager
    <3>2. IssuedByCertManager(Material("issuer", 0, owned.cert.sans, now,
                                       owned.cert.duration))
      BY <3>1, CertManagerFacts DEF MaterialTypes
    <3>3. "tls" \in SecretNames
      BY DEF SecretNames
    <3>4. s.tier \notin {"self", "off", "user"}
      BY <3>1 DEF InPlace, ExpectedCertificate
    <3> QED BY <2>1, <3>2, <3>3, <3>4 DEF CertManager, Store, IssuedByCertManager, Issued
  <2>2. CASE \E n \in SecretNames : BringSecret(n)
    <3>1. Issued(Material("user", 0, {}, 0, 0), "user", 0, {}, 0, 0 + 0)
      <4>1. 0 \in Nat /\ {} \in SUBSET STRING
        BY SMT
      <4> QED BY <4>1, MaterialFacts
    <3> QED BY <2>2, <3>1 DEF BringSecret, Store, Issued
  <2> QED BY <2>1, <2>2
<1>4. m # None
  BY MaterialAssumption
<1>5. \A k \in SecretNames : k # n => secrets'[k] = secrets[k]
  BY <1>3 DEF Fields
<1>6. secrets'[n] = m
  BY <1>3 DEF Fields
<1>7. \A k \in SecretNames : Complete(k) => Complete(k)'
  BY <1>3, <1>4, <1>5, <1>6 DEF Complete
<1>8. s.tier = "self" =>
        secrets'["ca"] = secrets["ca"] /\ secrets'["tls"] = secrets["tls"]
  BY <1>3, <1>5, NamesAssumption DEF SecretNames
<1>9. Credentials(s)' /\ TLSBrought(s)'
  <2>1. s \in Specs \cup FirstSpecs
    BY DEF Fields, AllSpecs
  <2>2. /\ s.tier = "user" => s.secret \in SecretNames
        /\ s.backend # None =>
             /\ s.backend.ca \in SecretNames
             /\ s.backend.client # None => s.backend.client \in SecretNames
    BY <2>1, NamesAssumption
  <2> QED BY <1>1, <1>7, <2>2 DEF InPlace, Credentials, TLSBrought,
             validateBackendTLSSecrets
<1>10. Rendered(s, FoundPasswords(s))'
  BY <1>1, <1>2 DEF InPlace, Rendered
<1>11. InPlace(s)'
  <2>1. CASE s.tier = "self"
    <3>1. /\ s.tier # "none" => owned'.cert = ExpectedCertificate(s)
          /\ IF s.monitor THEN owned'.monitor = "ours" ELSE owned'.monitor # "ours"
          /\ IF s.managed THEN auth' # None /\ \A k \in PasswordKeys : auth'[k] # 0
             ELSE auth' \in UserAuths
          /\ s.aws => rds' # None /\ rds'.file # 0 /\ rds'.keys \in {0, rds'.file}
      BY <1>1 DEF InPlace
    <3>2. /\ Complete("ca")'
          /\ secrets'["ca"].notAfter >= now' + (s.duration + s.renewBefore)
          /\ Complete("tls")' /\ secrets'["tls"].notAfter >= now' + s.renewBefore
          /\ secrets'["tls"].ca = secrets'["ca"].ca
          /\ SANsFor(s) \subseteq secrets'["tls"].sans
      BY <1>1, <1>8, <2>1 DEF InPlace, Complete
    <3> QED BY <1>9, <1>10, <2>1, <3>1, <3>2 DEF InPlace
  <2>2. CASE s.tier # "self"
    <3>1. "tls" \in SecretNames
      BY DEF SecretNames
    <3> QED BY <1>1, <1>7, <1>9, <1>10, <2>2, <3>1 DEF InPlace
  <2> QED BY <2>1, <2>2
<1>12. PassInPlace(s)'
  BY <1>1, <1>2, <1>8 DEF PassInPlace, At
<1> QED BY <1>11, <1>12

\* Nor does the address of a load balancer.
LEMMA RestProvision ==
    ASSUME NEW s, InPlace(s), PassInPlace(s), Shapes, Fields, Provision
    PROVE  InPlace(s)' /\ PassInPlace(s)'
<1>1. UNCHANGED <<auth, rds, bootstrap, secrets, now, work>>
  BY DEF Provision, world
<1>2. FoundPasswords(s)' = FoundPasswords(s)
  BY <1>1 DEF FoundPasswords
<1>3. /\ owned.ext # None
      /\ owned' = [owned EXCEPT !.ext = [owned.ext EXCEPT !.ingress = TRUE]]
  BY DEF Provision
<1>4. /\ owned'.sts = owned.sts /\ owned'.cnf = owned.cnf /\ owned'.legacy = owned.legacy
      /\ owned'.svc = owned.svc /\ owned'.pdb = owned.pdb
      /\ owned'.monitor = owned.monitor /\ owned'.cert = owned.cert
      /\ owned'.ext = [owned.ext EXCEPT !.ingress = TRUE]
  <2>1. {"sts", "cnf", "legacy", "svc", "ext", "pdb", "monitor", "cert"} = DOMAIN owned
    BY DEF Fields, Nothing
  <2> QED BY <1>3, <2>1
<1>5. Rendered(s, FoundPasswords(s))
  BY DEF InPlace
<1>6. s.ext # None /\ owned'.ext \in ExpectedService(s)
  <2>1. s.ext # None /\ owned.ext \in ExpectedService(s)
    BY <1>3, <1>5 DEF Rendered
  <2> QED BY <1>4, <2>1 DEF ExpectedService
<1>7. Rendered(s, FoundPasswords(s))'
  BY <1>2, <1>4, <1>5, <1>6 DEF Rendered, ExpectedService
<1>8. Credentials(s)' /\ TLSBrought(s)'
  BY <1>1 DEF InPlace, Credentials, TLSBrought, Complete, validateBackendTLSSecrets
<1>9. InPlace(s)'
  BY <1>1, <1>4, <1>7, <1>8 DEF InPlace, Complete
<1>10. PassInPlace(s)'
  BY <1>1, <1>2 DEF PassInPlace, At
<1> QED BY <1>9, <1>10

\* Everyone else leaves what is in place alone: without an event, nobody
\* touches what is as it must be.
LEMMA RestEnvironment ==
    ASSUME NEW s, s = cluster.spec, cluster.phase = "live",
           InPlace(s), PassInPlace(s), Shapes, Fields, MaterialTypes, Certified,
           events' = events, Environment
    PROVE  /\ cluster' = cluster /\ work' = work
           /\ InPlace(s)' /\ PassInPlace(s)'
<1>1. \A k : ~Event(k)
  BY EventFacts DEF Shapes
<1>2. ~(EditSpec \/ DeleteCluster \/ Squat \/ Tick \/ Collect \/ Gone)
  BY <1>1 DEF EditSpec, DeleteCluster, Squat, Tick, Collect, Gone
<1>3. \A n \in SecretNames : ~BreakSecret(n)
  BY <1>1 DEF BreakSecret
<1>4. ~ChangeAuth
  BY <1>1 DEF ChangeAuth, InPlace, Credentials
<1>5. CASE CertManager \/ \E n \in SecretNames : BringSecret(n)
  <2>1. cluster' = cluster /\ work' = work
    BY <1>5 DEF CertManager, BringSecret
  <2> QED BY <1>5, <2>1, RestStores
<1>6. CASE Provision
  <2>1. cluster' = cluster /\ work' = work
    BY <1>6 DEF Provision, world
  <2> QED BY <1>6, <2>1, RestProvision
<1>7. CASE CacheSync \/ StatefulSetController
  <2>1. cluster' = cluster /\ work' = work /\ Undisturbed
    BY <1>7 DEF CacheSync, StatefulSetController, Undisturbed
  <2>2. InPlace(s)'
    BY <2>1, InPlaceSame
  <2>3. PassInPlace(s)'
    BY <2>1 DEF PassInPlace, At, FoundPasswords, Undisturbed
  <2> QED BY <2>1, <2>2, <2>3
<1>8. CASE ChangeAWS
  <2>1. /\ cluster' = cluster /\ work' = work
        /\ UNCHANGED <<auth, rds, secrets, owned, now>> /\ bootstrap' = TRUE
    BY <1>1, <1>8 DEF ChangeAWS
  <2>2. Credentials(s)' /\ TLSBrought(s)'
    BY <2>1 DEF InPlace, Credentials, TLSBrought, Complete, validateBackendTLSSecrets
  <2>3. Rendered(s, FoundPasswords(s))'
    BY <2>1 DEF InPlace, Rendered, FoundPasswords
  <2>4. InPlace(s)'
    BY <2>1, <2>2, <2>3 DEF InPlace, Complete
  <2>5. PassInPlace(s)'
    BY <2>1 DEF PassInPlace, At, FoundPasswords
  <2> QED BY <2>1, <2>4, <2>5
<1> QED BY <1>2, <1>3, <1>4, <1>5, <1>6, <1>7, <1>8 DEF Environment

\* The steps of a pass leave the objects and what they find as they are.
LEMMA RestPass ==
    ASSUME NEW s, s = cluster.spec, InPlace(s), PassInPlace(s),
           Shapes, Fields, CredentialTypes, MaterialTypes, events' = events,
           Pass \/ CallFails \/ CredentialsCallFails \/ Crash
    PROVE  Undisturbed /\ PassInPlace(s)'
<1>1. \A k : ~Event(k)
  BY EventFacts DEF Shapes
<1>2. ~(CallFails \/ CredentialsCallFails \/ Crash)
  BY <1>1 DEF CallFails, CredentialsCallFails, Crash
<1>3. CASE updateStatus
  BY <1>3, RestEnds DEF updateStatus, Undisturbed
<1> QED BY <1>2, <1>3, RestBegins, RestPasswords, RestAWS, RestTLS, RestServing,
           RestBackend, RestObjects, RestExtras DEF Pass

\* A cluster that is as its spec says stays so, and passes change none of its
\* Secrets and objects until something happens from outside, for any
\* specs, lives of certificates and node ports.
THEOREM RestLasts == Spec => RestIsKept
<1> DEFINE Inv == CredentialTypes /\ PassInv /\ HealthyInv
           Step == AtRest /\ events' = events =>
                     /\ AtRest'
                     /\ work' # work => UNCHANGED <<auth, rds, secrets, owned>>
<1>1. Inv /\ [Next]_vars => [Step]_vars
  <2> SUFFICES ASSUME CredentialTypes, PassInv, HealthyInv, Next,
                      AtRest, events' = events
               PROVE  /\ AtRest'
                      /\ work' # work => UNCHANGED <<auth, rds, secrets, owned>>
    OBVIOUS
  <2>1. Shapes /\ Fields /\ MaterialTypes /\ Certified
    BY DEF HealthyInv, PassInv, PassCore, BackedInv
  <2>2. PICK s : s = cluster.spec
    OBVIOUS
  <2>3. InPlace(s) /\ PassInPlace(s) /\ cluster.phase = "live"
    BY <2>2 DEF AtRest
  <2>4. CASE Pass \/ CallFails \/ CredentialsCallFails \/ Crash
    <3>1. Undisturbed /\ PassInPlace(s)'
      BY <2>1, <2>2, <2>3, <2>4, RestPass
    <3>2. InPlace(s)'
      BY <2>3, <3>1, InPlaceSame
    <3>3. cluster'.phase = cluster.phase /\ cluster'.spec = s
      BY <2>1, <2>2, <2>4, PassCluster
    <3>4. AtRest'
      BY <2>3, <3>1, <3>2, <3>3 DEF AtRest
    <3> QED BY <3>1, <3>4 DEF Undisturbed
  <2>5. CASE Environment
    <3>1. /\ cluster' = cluster /\ work' = work
          /\ InPlace(s)' /\ PassInPlace(s)'
      BY <2>1, <2>2, <2>3, <2>5, RestEnvironment
    <3> QED BY <2>2, <2>3, <3>1 DEF AtRest
  <2> QED BY <2>4, <2>5 DEF Next
<1>2. CredentialTypes /\ [Next]_vars => CredentialTypes'
  BY CredentialsStep
<1>3. Init => CredentialTypes
  BY TypesInit DEF TypeInv
<1>4. PassInv => Fields
  BY DEF PassInv, PassCore, BackedInv
<1> QED BY <1>1, <1>2, <1>3, <1>4, PassInvInit, PassInvStep, HealthyInit, HealthyStep,
           PTL DEF Spec, RestIsKept

=============================================================================
