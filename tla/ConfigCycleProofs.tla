-------------------------- MODULE ConfigCycleProofs --------------------------
(***************************************************************************)
(* What a push and an apply cycle of ConfigSync leave of a process: it     *)
(* listens where it did, and if nothing failed it runs what was asked for. *)
(***************************************************************************)
EXTENDS ConfigSync, TablesProofs, RDSProxyProofs

\* Every process listens at an address.
Placed ==
    /\ DOMAIN pods = Pods
    /\ \A q \in Pods :
        /\ DOMAIN pods[q] = {"addr", "ready", "mem", "rt", "disk", "rds"}
        /\ pods[q].addr \in Addrs

----------------------------------------------------------------------------
(* Addresses. *)

ProcessFields == {"addr", "ready", "mem", "rt", "disk", "rds"}

\* Neither a push nor a cycle moves a process.
LEMMA PushedStays ==
    ASSUME NEW x, DOMAIN x = ProcessFields, NEW d, NEW aws, NEW F
    PROVE  /\ DOMAIN Pushed(x, d, aws, F) = ProcessFields
           /\ Pushed(x, d, aws, F).addr = x.addr
<1> DEFINE y == SyncWithAWSDBProxy(d, aws, F,
                    [mem |-> x.mem, rt |-> x.rt, disk |-> x.disk])
<1>1. \/ Pushed(x, d, aws, F) = x
      \/ Pushed(x, d, aws, F) = [x EXCEPT !.mem = y.mem, !.rt = y.rt, !.disk = y.disk]
  BY DEF Pushed
<1> HIDE DEF y
<1> QED BY <1>1, Zenon DEF ProcessFields

\* An apply cycle leaves a process where it listens.
LEMMA CycleStays ==
    ASSUME NEW x, DOMAIN x = ProcessFields, NEW F, NEW G, NEW H
    PROVE  /\ DOMAIN Cycle(x, F, G, H) = ProcessFields
           /\ Cycle(x, F, G, H).addr = x.addr
<1> DEFINE cleared == [x EXCEPT !.rds = ClearMutable(@, G)]
           pushed == Pushed(cleared, work.want, TRUE, F)
<1>1. \/ Cycle(x, F, G, H) = Pushed(x, work.want, FALSE, F)
      \/ Cycle(x, F, G, H) = cleared
      \/ Cycle(x, F, G, H) = pushed
      \/ Cycle(x, F, G, H) = [pushed EXCEPT !.rds = Apply(@, work.rds, H)]
  BY Zenon DEF Cycle
<1>2. DOMAIN cleared = ProcessFields /\ cleared.addr = x.addr
  BY DEF ProcessFields
<1> HIDE DEF cleared
<1>3. DOMAIN pushed = ProcessFields /\ pushed.addr = x.addr
  <2>1. \A aws : /\ DOMAIN Pushed(cleared, work.want, aws, F) = ProcessFields
                 /\ Pushed(cleared, work.want, aws, F).addr = cleared.addr
    BY <1>2, PushedStays
  <2> QED BY <2>1, <1>2, Zenon
<1> HIDE DEF pushed
<1>4. /\ DOMAIN Pushed(x, work.want, FALSE, F) = ProcessFields
      /\ Pushed(x, work.want, FALSE, F).addr = x.addr
  BY PushedStays, ZenonT(30)
<1> QED BY <1>1, <1>2, <1>3, <1>4, Zenon DEF ProcessFields

\* Every process keeps listening at an address, the same or another one.
LEMMA PlacedStep ==
    ASSUME Placed, [Next]_vars
    PROVE  Placed'
<1>1. CASE pods' = pods
  BY <1>1 DEF Placed
\* A change at one process, or at some.
<1>2. ASSUME NEW f, pods' = [q \in Pods |-> f[q]],
             \A q \in Pods : DOMAIN f[q] = ProcessFields /\ f[q].addr = pods[q].addr
      PROVE  Placed'
  BY <1>2 DEF ProcessFields, Placed
<1>3. ASSUME NEW q, NEW x, pods' = [pods EXCEPT ![q] = x],
             q \in Pods => DOMAIN x = ProcessFields /\ x.addr \in Addrs
      PROVE  Placed'
  BY <1>3 DEF ProcessFields, Placed
<1>4. CASE applyReplica
  <2>1. PICK p \in First(work.push), F \in NativeFaults, G \in ProxyFaults,
             H \in ProxyFaults :
          pods' = [q \in Pods |-> IF q \in Answering(p) THEN Cycle(pods[q], F, G, H)
                                  ELSE pods[q]]
    BY <1>4 DEF applyReplica
  <2> DEFINE f == [q \in Pods |-> IF q \in Answering(p) THEN Cycle(pods[q], F, G, H)
                                  ELSE pods[q]]
  <2>2. \A q \in Pods : /\ DOMAIN Cycle(pods[q], F, G, H) = ProcessFields
                        /\ Cycle(pods[q], F, G, H).addr = pods[q].addr
    BY CycleStays DEF ProcessFields, Placed
  <2>3. \A q \in Pods : DOMAIN f[q] = ProcessFields /\ f[q].addr = pods[q].addr
    BY <2>2 DEF ProcessFields, Placed
  <2>4. pods' = [q \in Pods |-> f[q]]
    BY <2>1
  <2> HIDE DEF f
  <2> QED BY <2>3, <2>4, <1>2
<1>5. CASE FinalizeClear
  <2>1. PICK p \in First(work.see), G \in ProxyFaults :
          pods' = [q \in Pods |-> IF q \in Answering(p)
                        THEN [pods[q] EXCEPT !.rds = ClearMutable(@, G)]
                        ELSE pods[q]]
    BY <1>5, Zenon DEF FinalizeClear
  <2> DEFINE f == [q \in Pods |-> IF q \in Answering(p)
                        THEN [pods[q] EXCEPT !.rds = ClearMutable(@, G)]
                        ELSE pods[q]]
  <2>2. \A q \in Pods : DOMAIN f[q] = ProcessFields /\ f[q].addr = pods[q].addr
    BY DEF ProcessFields, Placed
  <2>3. pods' = [q \in Pods |-> f[q]]
    BY <2>1
  <2> HIDE DEF f
  <2> QED BY <2>2, <2>3, <1>2
<1>6. CASE FinalizePush
  <2>1. PICK p \in First(work.push), F \in NativeFaults :
          pods' = [q \in Pods |-> IF q \in Answering(p)
                        THEN Pushed(pods[q], work.want, FALSE, F) ELSE pods[q]]
    BY <1>6, Zenon DEF FinalizePush
  <2> DEFINE f == [q \in Pods |-> IF q \in Answering(p)
                        THEN Pushed(pods[q], work.want, FALSE, F) ELSE pods[q]]
  <2>2. \A q \in Pods : /\ DOMAIN Pushed(pods[q], work.want, FALSE, F) = ProcessFields
                        /\ Pushed(pods[q], work.want, FALSE, F).addr = pods[q].addr
    <3>1. \A aws : \A q \in Pods :
            /\ DOMAIN Pushed(pods[q], work.want, aws, F) = ProcessFields
            /\ Pushed(pods[q], work.want, aws, F).addr = pods[q].addr
      BY PushedStays DEF ProcessFields, Placed
    <3> QED BY <3>1, Zenon
  <2>3. \A q \in Pods : DOMAIN f[q] = ProcessFields /\ f[q].addr = pods[q].addr
    BY <2>2, Zenon DEF ProcessFields, Placed
  <2>4. pods' = [q \in Pods |-> f[q]]
    BY <2>1
  <2> HIDE DEF f
  <2> QED BY <2>3, <2>4, <1>2
<1>7. ASSUME NEW q \in Fragile, MonitorMove(q) PROVE Placed'
  <2>1. \E k, to : pods' = [pods EXCEPT ![q].rt["mysql_servers"] =
                                Moved(pods[q].rt["mysql_servers"], k, to)]
    BY <1>7, Zenon DEF MonitorMove
  <2>2. PICK v : pods' = [pods EXCEPT ![q].rt["mysql_servers"] = v]
    BY <2>1, Zenon
  <2> DEFINE x == [pods[q] EXCEPT !.rt["mysql_servers"] = v]
  <2>3. pods' = [pods EXCEPT ![q] = x]
    BY <2>2
  <2>4. q \in Pods => DOMAIN x = ProcessFields /\ x.addr \in Addrs
    BY DEF ProcessFields, Placed
  <2> HIDE DEF x
  <2> QED BY <2>3, <2>4, <1>3, Zenon
<1>8. ASSUME NEW q \in Fragile, Wipe(q) PROVE Placed'
  <2>1. PICK t \in Wiped : pods' = [pods EXCEPT ![q].mem[t] = Empty, ![q].rt[t] = Empty]
    BY <1>8, Zenon DEF Wipe
  <2> DEFINE x == [pods[q] EXCEPT !.mem[t] = Empty, !.rt[t] = Empty]
  <2>2. q \in Pods => DOMAIN x = ProcessFields /\ x.addr \in Addrs
    BY DEF ProcessFields, Placed
  <2>3. pods' = [pods EXCEPT ![q] = x]
    BY <2>1, Zenon
  <2> HIDE DEF x
  <2> QED BY <2>2, <2>3, <1>3, Zenon
<1>9. \A q \in Pods : \A x \in Started(pods[q]) :
        DOMAIN x = ProcessFields /\ x.addr \in Addrs
  BY Zenon DEF Started, ProcessFields, Placed
<1>10. ASSUME NEW q \in Fragile, RestartPod(q) PROVE Placed'
  BY <1>3, <1>9, <1>10, Zenon DEF RestartPod
<1>11. ASSUME NEW q \in Fragile, ReplacePod(q) PROVE Placed'
  <2>1. PICK a \in Addrs : \E x \in Started(pods[q]) \cup {Blank(a)} :
          pods' = [pods EXCEPT ![q] = [x EXCEPT !.addr = a]]
    BY <1>11, Zenon DEF ReplacePod
  <2>2. PICK x \in Started(pods[q]) \cup {Blank(a)} :
          pods' = [pods EXCEPT ![q] = [x EXCEPT !.addr = a]]
    BY <2>1, Zenon
  <2>3. q \in Pods => DOMAIN x = ProcessFields
    BY <1>9 DEF Blank, ProcessFields
  <2>4. q \in Pods => /\ DOMAIN [x EXCEPT !.addr = a] = ProcessFields
                      /\ [x EXCEPT !.addr = a].addr \in Addrs
    BY <2>3 DEF ProcessFields, Placed
  <2> QED BY <2>2, <2>4, <1>3, Zenon
<1>12. ASSUME NEW q, LoseReady(q) \/ BecomeReady(q) PROVE Placed'
  BY <1>12 DEF LoseReady, BecomeReady, Placed
<1>13. ASSUME NEW c \in Configs,
              \/ Begin(c) \/ BeginBlocked(c) \/ FinalizeSkip(c) \/ BeginFinalize(c)
              \/ CreateConfig(c) \/ EditConfig(c) \/ DeleteConfig(c)
              \/ AnnotateSkip(c) \/ Clock(c)
       PROVE pods' = pods
  BY <1>13 DEF Begin, BeginBlocked, FinalizeSkip, BeginFinalize, CreateConfig,
     EditConfig, DeleteConfig, AnnotateSkip, Clock
<1>14. CASE Observe \/ FinalizeUnion \/ FinalizeRelease
            \/ ChangeSecret \/ ChangeAccess \/ Crash
  BY <1>14, <1>1, ZenonT(30) DEF Observe, FinalizeUnion, FinalizeRelease, ChangeSecret,
     ChangeAccess, Crash
<1>15. CASE Finish \/ FinishClean
  BY <1>15, <1>1 DEF Finish, FinishClean, SetStatus
<1>16. CASE UNCHANGED vars
  BY <1>16 DEF vars, Placed
<1> QED BY <1>1, <1>4, <1>5, <1>6, <1>7, <1>8, <1>10, <1>11, <1>12, <1>13,
           <1>14, <1>15, <1>16, Zenon DEF Next

----------------------------------------------------------------------------
(* A fresh process. *)

\* The union of one configuration, with the peers, is a configuration.
LEMMA UnionOfOne ==
    ASSUME NEW spec, IsConfig(spec.tables), OperatorOwned(spec),
           password \in Passwords
    PROVE  IsConfig(autoPopulated(Union(<<configToDesired(spec)>>)))
<1> DEFINE d == [s \in DesiredSections |->
                    IF s \in UserTables
                    THEN [u \in DOMAIN spec.tables[s] |->
                            resolveSecretKey(spec.tables[s][u])]
                    ELSE spec.tables[s]]
           u == Union(<<d>>)
<1>1. configToDesired(spec) = d
  BY NoneAssumption DEF configToDesired
<1>2. /\ "mysql_servers" \in DesiredSections /\ "proxysql_servers" \in DesiredSections
      /\ "mysql_servers" \notin UserTables
  BY DEF DesiredSections, Sections, TableNames, UnitOf, UserTables
<1>3. d["mysql_servers"] = spec.tables["mysql_servers"]
  BY <1>2
<1> HIDE DEF d
<1>4. \A k \in DOMAIN d["mysql_servers"] :
        "status" \in DOMAIN d["mysql_servers"][k]
  BY <1>3 DEF IsConfig
<1>5. DOMAIN u = DesiredSections
  BY DEF Union
<1>6. \A s \in DesiredSections : IsTable(u[s])
  BY DEF Union, IsTable
<1>7. \A k \in DOMAIN u["mysql_servers"] :
        /\ k \in DOMAIN d["mysql_servers"]
        /\ u["mysql_servers"][k] = d["mysql_servers"][k]
  BY <1>2 DEF Union
<1>8. IsConfig(u)
  BY <1>4, <1>5, <1>6, <1>7 DEF IsConfig
<1> HIDE DEF u
<1>9. autoPopulated(u) = u \/ autoPopulated(u) = [u EXCEPT !["proxysql_servers"] = Peers]
  BY DEF autoPopulated
<1>10. IsTable(Peers)
  BY StartAssumption DEF StartsValid
<1>11. IsConfig([u EXCEPT !["proxysql_servers"] = Peers])
  BY <1>2, <1>8, <1>10 DEF IsConfig
<1> QED BY <1>1, <1>8, <1>9, <1>11 DEF u

\* Nothing fails by itself.
LEMMA NoFaults ==
    ASSUME NEW d, NEW aws \in BOOLEAN, NEW rds
    PROVE  ~SyncFails(d, aws, {}) /\ ~ApplyFails(rds, {})
<1>1. ~SyncFails(d, aws, {})
  <2>1. \A x : x \notin {}
    OBVIOUS
  <2>2. \A t \in TableNames : t \notin Domains
    BY DEF TableNames, UnitOf, Domains
  <2>3. \A t \in TableNames : Pushes(t, aws) => Saves(d, aws, {}, t)
    BY <2>1, <2>2, Zenon DEF Saves, Loads
  <2>4. \A v \in Domains : DOMAIN d[v] # {} => Saves(d, aws, {}, v)
    BY <2>1, Zenon DEF Saves, Loads
  <2> QED BY <2>1, <2>3, <2>4, Zenon DEF SyncFails
<1>2. \A calls : Completed(calls, {}) = 4
  BY DEF Completed
<1>3. ~ApplyFails(rds, {})
  <2>1. ApplyDone(rds, {}) = 4
    BY <1>2, Zenon DEF ApplyDone
  <2> QED BY <2>1 DEF ApplyFails
<1> QED BY <1>1, <1>3

\* An intent the proxies can be brought to.
Reachable(rds) ==
    rds # None => /\ IsTags(rds.tags)
                  /\ Settable(rds, FreshProxy)

Native(all, rds) == IF rds = None THEN all ELSE NativeDesiredWithAWSDBProxy(all)

FreshlyRuns(x, a, want, rds) ==
    /\ Converged([rt |-> x.rt, rds |-> x.rds], <<want, rds>>)
    /\ x.addr = a /\ DOMAIN x = ProcessFields

\* What is pushed to a fresh process without an error is what it runs.
LEMMA FreshConverges ==
    ASSUME NEW a, NEW all, IsConfig(all), NEW rds, Reachable(rds)
    PROVE  FreshlyRuns(FirstApplied(a, Native(all, rds), rds),
                       a, Native(all, rds), rds)
<1> DEFINE want == Native(all, rds)
           x == FirstApplied(a, want, rds)
           aws == rds # None
           b == Blank(a)
           y == SyncWithAWSDBProxy(want, aws, {},
                    [mem |-> b.mem, rt |-> b.rt, disk |-> b.disk])
<1>1. /\ IsConfig(want)
      /\ aws => want["mysql_servers"] = Empty /\ want["mysql_users"] = Empty
  BY NativeView DEF Native
<1> HIDE DEF want
<1>2. aws \in BOOLEAN
  OBVIOUS
<1>3. ~SyncFails(want, aws, {})
  BY <1>2, NoFaults, Zenon
<1>4. Pushed(b, want, aws, {}) = [b EXCEPT !.mem = y.mem, !.rt = y.rt, !.disk = y.disk]
  BY DEF Pushed
<1>5. DOMAIN b = ProcessFields /\ b.addr = a /\ b.rds = FreshProxy
  BY DEF Blank, ProcessFields
<1> HIDE DEF b
<1>6. Drift(want, IF aws THEN NativeRuntimeWithAWSDBProxy(y.rt) ELSE y.rt) = {}
  BY <1>1, <1>2, <1>3, PushConverges, Zenon
<1> HIDE DEF y
<1>7. /\ DOMAIN x = ProcessFields /\ x.addr = a /\ x.rt = y.rt
      /\ x.rds = IF rds = None THEN FreshProxy ELSE Apply(FreshProxy, rds, {})
  BY <1>4, <1>5, Zenon DEF ProcessFields, FirstApplied, b
<1> HIDE DEF x
<1>8. ~ApplyFails(rds, {})
  BY NoFaults, Zenon
<1>9. aws => RDSDrift(rds, x.rds) = {}
  <2>1. /\ IsProxy(FreshProxy)
        /\ FreshProxy.targets = {} /\ FreshProxy.tags = NoTags
    BY StartAssumption DEF StartsValid
  <2>2. CASE aws
    <3>1. RDSDrift(rds, Apply(FreshProxy, rds, {})) = {}
      BY <2>1, <2>2, <1>8, CycleConverges DEF Reachable
    <3> QED BY <3>1, <2>2, <1>7
  <2> QED BY <2>2
<1>10. FreshlyRuns(x, a, want, rds)
  BY <1>6, <1>7, <1>9 DEF Converged, FreshlyRuns
<1> QED BY <1>10 DEF x, want

----------------------------------------------------------------------------
(* A cycle that reports no error leaves nothing to do. *)

\* A cycle that goes through without an error is read back as converged, from
\* whatever state of tables and proxy: the controller does not push the same
\* thing again and again.  An unset role or scheme is never sent, so it must
\* be unset on the proxy too (applyReplica, observeReplica, SyncWithAWSDBProxy).
THEOREM CycleReaches ==
    ASSUME NEW x, DOMAIN x = ProcessFields, IsProxy(x.rds),
           IsConfig(work.want),
           work.rds # None =>
            /\ work.want["mysql_servers"] = Empty /\ work.want["mysql_users"] = Empty
            /\ IsTags(work.rds.tags)
            /\ Settable(work.rds, x.rds),
           NEW F, NEW G, NEW H, ~CycleFails(x, F, G, H)
    PROVE  LET y == Cycle(x, F, G, H)
           IN  Converged([rt |-> y.rt, rds |-> y.rds], Target)
<1> DEFINE aws == work.rds # None
           y == Cycle(x, F, G, H)
           x1 == [x EXCEPT !.rds = ClearMutable(@, G)]
           sync(p) == SyncWithAWSDBProxy(work.want, aws, F,
                            [mem |-> p.mem, rt |-> p.rt, disk |-> p.disk]).rt
<1>1. aws \in BOOLEAN
  OBVIOUS
<1>2. /\ <<"DIAL">> \notin F /\ ~SyncFails(work.want, aws, F)
      /\ aws => ~ClearFails(x.rds, G) /\ ~ApplyFails(work.rds, H)
  BY ZenonT(30) DEF CycleFails, PushFails
<1> HIDE DEF aws
<1>3. \A p : Drift(work.want, IF aws THEN NativeRuntimeWithAWSDBProxy(sync(p))
                              ELSE sync(p)) = {}
  BY <1>1, <1>2, PushConverges, ZenonT(30) DEF aws
<1>4. CASE ~aws
  <2>1. y.rt = sync(x)
    <3>1. y = Pushed(x, work.want, aws, F)
      BY <1>4, ZenonT(30) DEF Cycle, aws
    <3> QED BY <3>1, <1>2 DEF Pushed, ProcessFields
  <2>2. Drift(work.want, sync(x)) = {}
    BY <1>3, <1>4, ZenonT(30)
  <2> QED BY <2>1, <2>2, <1>4 DEF Converged, Target, aws
<1>5. CASE aws
  <2>1. DOMAIN x1 = ProcessFields /\ x1.rds = ClearMutable(x.rds, G)
    BY DEF ProcessFields
  <2> DEFINE pushed == Pushed(x1, work.want, aws, F)
  <2>2. y = [pushed EXCEPT !.rds = Apply(@, work.rds, H)]
    BY <1>2, <1>5 DEF Cycle, PushFails, aws
  <2>3. /\ DOMAIN pushed = ProcessFields /\ pushed.rt = sync(x1)
        /\ pushed.rds = x1.rds
    BY <2>1, <1>2 DEF Pushed, ProcessFields
  <2> HIDE DEF pushed, sync, x1, y
  <2>4. y.rt = sync(x1) /\ y.rds = Apply(ClearMutable(x.rds, G), work.rds, H)
    BY <2>1, <2>2, <2>3, ZenonT(30) DEF ProcessFields
  <2>5. /\ IsProxy(ClearMutable(x.rds, G))
        /\ ClearMutable(x.rds, G).targets = {}
        /\ ClearMutable(x.rds, G).tags = NoTags
        /\ ClearMutable(x.rds, G).role = x.rds.role
        /\ ClearMutable(x.rds, G).scheme = x.rds.scheme
    <3>1. ~ClearFails(x.rds, G)
      BY <1>2, <1>5
    <3>2. PICK s : s = x.rds
      OBVIOUS
    <3>3. ~ClearFails(s, G) /\ IsProxy(s)
      BY <3>1, <3>2
    <3>4. LET d == ClearMutable(s, G)
          IN  /\ IsProxy(d)
              /\ d.targets = {} /\ d.tags = NoTags /\ d.auth = {}
              /\ d.pool = DefaultPool /\ d.role = s.role /\ d.scheme = s.scheme
              /\ d.rest = s.rest
      BY <3>3, Cleared, Zenon
    <3> QED BY <3>2, <3>4, Zenon
  <2>6. RDSDrift(work.rds, y.rds) = {}
    BY <2>4, <2>5, <1>2, <1>5, CycleConverges, Zenon DEF aws, Settable
  <2>7. Drift(work.want, NativeRuntimeWithAWSDBProxy(sync(x1))) = {}
    BY <1>3, <1>5
  <2> QED BY <2>4, <2>6, <2>7, <1>5, Zenon DEF Converged, Target, aws, y
<1> QED BY <1>4, <1>5

=============================================================================
