----------------------------- MODULE MCConfigSync -----------------------------
(***************************************************************************)
(* Instances of ConfigSync.  Configurations 1 and 2 compose a runtime and  *)
(* disagree about one server; configuration 3 drives the AWS plugin and is *)
(* alone.                                                                  *)
(***************************************************************************)
EXTENDS ConfigSync

\* A set of tables from the ones that are not empty.
Tabs(f) == [s \in DesiredSections |-> IF s \in DOMAIN f THEN f[s] ELSE Empty]

Row(k, v) == [x \in {k} |-> v]
Server(w) == Row(<<1, "db">>, [status |-> "", weight |-> w])

Proxy(targets) ==
    [engine |-> "MYSQL", groups |-> {"default"}, auth |-> {"secret"},
     role |-> "role", scheme |-> "", rest |-> "tls", pool |-> "", targets |-> targets,
     tags |-> Row("env", 1)]

Plain(w, rules) ==
    [tables |-> Tabs([mysql_servers |-> Server(w),
                      mysql_replication_hostgroups |-> Row(1, [reader |-> 2]),
                      mysql_users |-> Row("app", 1),
                      mysql_query_rules |-> rules]),
     plugin |-> None]

Override(variables) ==
    [tables |-> [Tabs([mysql_servers |-> Server(9),
                       pgsql_query_rules |-> Row(7, "cache")]) EXCEPT
                    !["MYSQL VARIABLES"] = variables],
     plugin |-> None]

Plugin(targets) ==
    [tables |-> Tabs([mysql_query_rules |-> Row(5, "split")]),
     plugin |-> Proxy(targets)]

MCConfigs == {1, 2, 3}
MCSpecs == <<{Plain(1, Empty), Plain(2, Empty)},
             {Override(Empty), Override(Row("monitor", "me"))},
             {Plugin({"db1"}), Plugin({"db2"})}>>
MCGroups == {{1, 2}, {3}}
MCGroupsAlone == {{1}}
MCPods == {1, 2}
MCAddrs == {1, 2, 3}
MCPasswords == {"old", "new"}
MCPeers == Row("p1", 0)
MCAccess == {"noCluster", "noSecret", "badSecret", "noTLS", "rdsAbsent", "rdsBad"}
MCNativeFaults == {{}, {<<"INSERT", "mysql_servers">>, <<"LOAD", "MYSQL USERS">>}}
MCProxyFaults == {{}, {"ModifyDBProxy"}}
MCFreshProxy == [auth |-> {}, role |-> "role", scheme |-> "", rest |-> "tls",
                 pool |-> "default", targets |-> {}, tags |-> NoTags]
MCWiped == {"mysql_users"}
MCStarts == {[c |-> 1, spec |-> Plain(1, Empty)],
             [c |-> 3, spec |-> Plugin({"db1"})]}
MCStartsAlone == {[c |-> 1, spec |-> Plain(1, Empty)]}
MCAt == [p \in MCPods |-> p]
MCEvents == {"create", "spec", "delete", "skip", "secret", "access", "monitor", "wipe",
             "restart", "replace", "flap", "push", "read", "status", "crash"}

----------------------------------------------------------------------------
(* Two algorithms of runtime.go and union.go against what they compute, on *)
(* all small inputs.                                                       *)

\* The hostgroups connected to x: those in every set that holds x and both or
\* neither of the ends of each pair.
Connected(pairs, hgs, x) ==
    {y \in hgs : \A S \in SUBSET hgs :
        (x \in S /\ \A i \in DOMAIN pairs :
                        pairs[i].writer \in S <=> pairs[i].reader \in S)
            => y \in S}

\* replicationClasses names the connected components by their least member,
\* in whichever order the pairs come and however they overlap.
ASSUME ClassesAreComponents ==
    \A n \in 0..3 : \A pairs \in [1..n -> [writer : 1..4, reader : 1..4]] :
        LET classes == replicationClasses(pairs)
        IN  \A x \in DOMAIN classes :
                LET C == Connected(pairs, DOMAIN classes, x)
                IN  classes[x] \in C /\ \A y \in C : classes[x] <= y

\* Union is what overwriting row by row in the order of the names leads to.
ASSUME UnionOverwrites ==
    LET Maps == UNION {[S -> {1, 2}] : S \in SUBSET {"a", "b"}}
        Over(f, g) == [k \in DOMAIN f \cup DOMAIN g |->
                        IF k \in DOMAIN g THEN g[k] ELSE f[k]]
    IN  \A f, g, h \in Maps :
            Union(<<[s \in DesiredSections |-> f],
                    [s \in DesiredSections |-> g],
                    [s \in DesiredSections |-> h]>>)["mysql_users"]
                = Over(Over(f, g), h)

=============================================================================
