----------------------------- MODULE TablesProofs -----------------------------
(***************************************************************************)
(* A push that reports no error converges: for every configuration, every  *)
(* set of failing statements and every process, if SyncWithAWSDBProxy      *)
(* returns without an error then the comparison of runtime.go finds no     *)
(* difference afterwards.  The argument is table by table; servers are     *)
(* compared by replication class, and what the classes are does not        *)
(* matter for it.                                                          *)
(***************************************************************************)
EXTENDS Tables, TLAPS

----------------------------------------------------------------------------

\* LOAD of the servers that INSERT stored leaves out those that are
\* OFFLINE_HARD, and those only (mysqlServerDrift finds nothing).
LEMMA ServersConverge ==
    ASSUME NEW want, NEW classes,
           \A k \in DOMAIN want : "status" \in DOMAIN want[k]
    PROVE  mysqlServerDrift(want,
                Running("mysql_servers", Stored("mysql_servers", want)),
                classes) = {}
<1> DEFINE stored == Stored("mysql_servers", want)
           have == Running("mysql_servers", stored)
           C(k) == canonServerKey(k, classes)
           is(k) == IF want[k].status = "" THEN "ONLINE" ELSE want[k].status
<1>1. DOMAIN stored = DOMAIN want /\ \A k \in DOMAIN want : stored[k].status = is(k)
  BY DEF Stored
<1>2. /\ DOMAIN have = {k \in DOMAIN want : want[k].status # "OFFLINE_HARD"}
      /\ \A k \in DOMAIN have : have[k].status = is(k)
  BY <1>1 DEF Running
<1> HIDE DEF have, stored, is
<1>3. ASSUME NEW c \in serverKeys(want, classes) \ serverKeys(have, classes)
      PROVE  mysqlDesiredStatus(want, classes, c, "OFFLINE_HARD")
  <2>1. \A k \in DOMAIN want : C(k) = c => want[k].status = "OFFLINE_HARD"
    BY <1>2, <1>3 DEF serverKeys
  <2>2. PICK k \in DOMAIN want : C(k) = c
    BY <1>3 DEF serverKeys
  <2> QED BY <2>1, <2>2 DEF mysqlDesiredStatus, Statuses
<1>4. serverKeys(have, classes) \subseteq serverKeys(want, classes)
  BY <1>2 DEF serverKeys
<1>5. ASSUME NEW c \in serverKeys(want, classes) \cap serverKeys(have, classes)
      PROVE  /\ ~mysqlDesiredStatus(want, classes, c, "OFFLINE_HARD")
             /\ mysqlDesiredStatus(want, classes, c, "OFFLINE_SOFT") =>
                    "OFFLINE_SOFT" \in Statuses(have, classes, c)
  <2>1. PICK k \in DOMAIN have : C(k) = c
    BY <1>5 DEF serverKeys
  <2>2. k \in DOMAIN want /\ want[k].status # "OFFLINE_HARD"
    BY <2>1, <1>2
  <2>3. want[k].status \in Statuses(want, classes, c)
    BY <2>1, <2>2 DEF Statuses
  <2>4. have[k].status \in Statuses(have, classes, c)
    BY <2>1 DEF Statuses
  <2>5. want[k].status = "OFFLINE_SOFT" => have[k].status = "OFFLINE_SOFT"
    BY <2>1, <1>2 DEF is
  <2> QED BY <2>2, <2>3, <2>4, <2>5 DEF mysqlDesiredStatus
<1> QED BY <1>3, <1>4, <1>5, Zenon DEF mysqlServerDrift, have, stored

\* The AWS plugin owns the servers and the users among the tables compared.
LEMMA UnitFacts ==
    /\ UnitOf["mysql_servers"] \in PluginUnits
    /\ UnitOf["mysql_users"] \in PluginUnits
    /\ \A t \in KeyedTables \ {"mysql_users"} : UnitOf[t] \notin PluginUnits
    /\ KeyedTables \cup {"mysql_servers"} \subseteq TableNames
<1>1. /\ UnitOf["mysql_servers"] = "MYSQL SERVERS"
      /\ UnitOf["mysql_users"] = "MYSQL USERS"
      /\ UnitOf["mysql_query_rules"] = "MYSQL QUERY RULES"
      /\ UnitOf["pgsql_servers"] = "PGSQL SERVERS"
      /\ UnitOf["pgsql_users"] = "PGSQL USERS"
      /\ UnitOf["pgsql_query_rules"] = "PGSQL QUERY RULES"
  BY DEF UnitOf
<1>2. KeyedTables \cup {"mysql_servers"} \subseteq TableNames
  BY DEF KeyedTables, TableNames, UnitOf
<1> QED BY <1>1, <1>2 DEF KeyedTables, PluginUnits

\* The other tables are compared by their keys, which INSERT and LOAD keep.
LEMMA KeysConverge ==
    ASSUME NEW d, IsConfig(d), NEW aws \in BOOLEAN, NEW F, NEW proc,
           ~SyncFails(d, aws, F), NEW t \in TableNames, Pushes(t, aws)
    PROVE  SyncWithAWSDBProxy(d, aws, F, proc).rt[t] =
               Running(t, IF DOMAIN d[t] = {} THEN Empty ELSE Stored(t, d[t]))
<1> DEFINE mem == [s \in Sections |->
                    CASE s \in Domains -> Updated(d, F, s, proc.mem[s])
                      [] s \notin Domains /\ Pushes(s, aws) ->
                            Written(d, F, s, proc.mem[s])
                      [] OTHER -> proc.mem[s]]
           rt == [s \in Sections |-> IF Loads(d, aws, F, s)
                                     THEN Running(s, mem[s]) ELSE proc.rt[s]]
<1>1. /\ <<"DELETE", t>> \notin F
      /\ DOMAIN d[t] # {} => <<"INSERT", t>> \notin F
      /\ Saves(d, aws, F, t)
  BY DEF SyncFails
<1>2. Loads(d, aws, F, t)
  BY <1>1 DEF Saves
<1>3. t \in Sections /\ t \notin Domains
  BY DEF Sections, Domains, TableNames, UnitOf
<1>4. mem[t] = Written(d, F, t, proc.mem[t])
  BY <1>3
<1>5. Written(d, F, t, proc.mem[t]) = IF DOMAIN d[t] = {} THEN Empty ELSE Stored(t, d[t])
  BY <1>1 DEF Written
<1> HIDE DEF mem
<1>6. rt[t] = Running(t, mem[t])
  BY <1>2, <1>3
<1>7. SyncWithAWSDBProxy(d, aws, F, proc).rt = rt
  BY DEF SyncWithAWSDBProxy, mem
<1> QED BY <1>4, <1>5, <1>6, <1>7

\* A push that reports no error leaves no drift.  With the AWS plugin the
\* configuration and the runtime are compared without the plugin's tables.
\* What LOAD makes visible at runtime is Running, which is assumed of ProxySQL.
THEOREM PushConverges ==
    ASSUME NEW d, IsConfig(d), NEW aws \in BOOLEAN, NEW F, NEW proc,
           aws => d["mysql_servers"] = Empty /\ d["mysql_users"] = Empty,
           ~SyncFails(d, aws, F)
    PROVE  LET rt == SyncWithAWSDBProxy(d, aws, F, proc).rt
           IN  Drift(d, IF aws THEN NativeRuntimeWithAWSDBProxy(rt) ELSE rt) = {}
<1> DEFINE rt == SyncWithAWSDBProxy(d, aws, F, proc).rt
           view == IF aws THEN NativeRuntimeWithAWSDBProxy(rt) ELSE rt
           plugin == {"mysql_servers", "mysql_users"}
           compared == KeyedTables \cup {"mysql_servers"}
           loaded(t) == IF DOMAIN d[t] = {} THEN Empty ELSE Stored(t, d[t])
<1>1. DOMAIN rt = Sections
  BY DEF SyncWithAWSDBProxy
<1>2. compared \subseteq TableNames /\ compared \subseteq Sections /\ plugin \subseteq Sections
  BY UnitFacts DEF KeyedTables, Sections
<1>3. \A t \in compared : Pushes(t, aws) <=> ~(aws /\ t \in plugin)
  BY UnitFacts DEF KeyedTables, Pushes
<1>4. \A t \in compared : Pushes(t, aws) => rt[t] = Running(t, loaded(t))
  <2> SUFFICES ASSUME NEW t \in compared, Pushes(t, aws)
               PROVE  rt[t] = Running(t, loaded(t))
    OBVIOUS
  <2>1. t \in TableNames
    BY <1>2
  <2> QED BY <2>1, KeysConverge
<1> HIDE DEF rt
<1>5. \A t \in plugin : aws => d[t] = Empty /\ view[t] = Empty
  BY <1>1, <1>2 DEF NativeRuntimeWithAWSDBProxy
<1>6. \A t \in compared : Pushes(t, aws) => view[t] = rt[t]
  <2>1. CASE aws
    <3>1. view = [rt EXCEPT !["mysql_servers"] = Empty, !["mysql_users"] = Empty]
      BY <2>1 DEF NativeRuntimeWithAWSDBProxy
    <3>2. \A t \in Sections \ plugin : view[t] = rt[t]
      BY <3>1, <1>1, Zenon
    <3> QED BY <3>2, <2>1, <1>2, <1>3, Zenon
  <2>2. CASE ~aws
    BY <2>2
  <2> QED BY <2>1, <2>2
<1> HIDE DEF view
<1>7. DOMAIN Empty = {}
  BY DEF Empty
<1>8. \A t \in KeyedTables : DOMAIN view[t] = DOMAIN d[t]
  <2> SUFFICES ASSUME NEW t \in KeyedTables PROVE DOMAIN view[t] = DOMAIN d[t]
    OBVIOUS
  <2>1. t # "mysql_servers"
    BY DEF KeyedTables
  <2>2. Running(t, loaded(t)) = loaded(t) /\ DOMAIN loaded(t) = DOMAIN d[t]
    BY <2>1, <1>7, Zenon DEF Running, Stored
  <2> QED BY <2>2, <1>3, <1>4, <1>5, <1>6, <1>7
<1>9. \A t \in KeyedTables : diffKeys(d[t], view[t]) = {}
  BY <1>8 DEF diffKeys
<1>10. mysqlServerDrift(d["mysql_servers"], view["mysql_servers"], classesOf(d)) = {}
  <2>1. \A k \in DOMAIN d["mysql_servers"] : "status" \in DOMAIN d["mysql_servers"][k]
    BY DEF IsConfig
  <2>2. view["mysql_servers"] =
          Running("mysql_servers", Stored("mysql_servers", d["mysql_servers"]))
    <3>1. Stored("mysql_servers", Empty) = Empty /\ Running("mysql_servers", Empty) = Empty
      BY DEF Stored, Running, Empty
    <3>2. d["mysql_servers"] = [k \in DOMAIN d["mysql_servers"] |-> d["mysql_servers"][k]]
      BY Zenon DEF IsConfig, IsTable, DesiredSections, Sections, TableNames, UnitOf
    <3>3. DOMAIN d["mysql_servers"] = {} => d["mysql_servers"] = Empty
      BY <3>2 DEF Empty
    <3> QED BY <1>3, <1>4, <1>5, <1>6, <3>1, <3>3
  <2> QED BY <2>1, <2>2, ServersConverge
<1> QED BY <1>9, <1>10, Zenon DEF Drift, view, rt

\* The view without the plugin's tables is a configuration PushConverges is
\* about, and so is the union of configurations.
LEMMA NativeView ==
    ASSUME NEW d, IsConfig(d)
    PROVE  /\ IsConfig(NativeDesiredWithAWSDBProxy(d))
           /\ NativeDesiredWithAWSDBProxy(d)["mysql_servers"] = Empty
           /\ NativeDesiredWithAWSDBProxy(d)["mysql_users"] = Empty
<1> DEFINE n == NativeDesiredWithAWSDBProxy(d)
<1>1. {"mysql_servers", "mysql_users"} \subseteq TableNames \cap DesiredSections
  BY DEF DesiredSections, Sections, TableNames, UnitOf
<1>2. ~Pushes("mysql_servers", TRUE) /\ ~Pushes("mysql_users", TRUE)
  BY UnitFacts DEF Pushes
<1>3. n["mysql_servers"] = Empty /\ n["mysql_users"] = Empty
  BY <1>1, <1>2 DEF NativeDesiredWithAWSDBProxy
<1>4. IsTable(Empty) /\ DOMAIN Empty = {}
  BY DEF IsTable, Empty
<1>5. DOMAIN n = DesiredSections /\ \A s \in DesiredSections : n[s] \in {Empty, d[s]}
  BY DEF NativeDesiredWithAWSDBProxy
<1> QED BY <1>3, <1>4, <1>5 DEF IsConfig

=============================================================================
