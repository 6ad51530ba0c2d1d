-------------------------------- MODULE Tables --------------------------------
(***************************************************************************)
(* The admin tables of one ProxySQL process and what the operator does     *)
(* with them: merge the configurations of a cluster (union.go), push the   *)
(* result with DELETE, INSERT, LOAD and SAVE (sync.go), and compare it     *)
(* with what the process runs (runtime.go).  Everything here is a pure     *)
(* operator; module ConfigSync puts them into motion.                      *)
(*                                                                         *)
(* A table is a function from the keys of its rows to the rest of the row. *)
(* The key of a server is <<hostgroup, host>>, where host stands for       *)
(* hostname and port, its row has a status.  A set of tables is a function *)
(* from section names to tables.                                           *)
(***************************************************************************)
EXTENDS Naturals, Sequences, FiniteSets

\* The tables loaded by one LOAD ... TO RUNTIME, with its name.
UnitOf ==
    [mysql_servers                |-> "MYSQL SERVERS",
     mysql_replication_hostgroups |-> "MYSQL SERVERS",
     mysql_hostgroup_attributes   |-> "MYSQL SERVERS",
     mysql_users                  |-> "MYSQL USERS",
     mysql_query_rules            |-> "MYSQL QUERY RULES",
     pgsql_servers                |-> "PGSQL SERVERS",
     pgsql_users                  |-> "PGSQL USERS",
     pgsql_query_rules            |-> "PGSQL QUERY RULES",
     proxysql_servers             |-> "PROXYSQL SERVERS"]

TableNames == DOMAIN UnitOf
Units == {UnitOf[t] : t \in TableNames}

\* Rows of global_variables, by the domain they are loaded with.
Domains == {"MYSQL VARIABLES", "PGSQL VARIABLES", "ADMIN VARIABLES"}

Sections == TableNames \cup Domains

\* What a ProxySQLConfig may ask for; sql_statements are opaque to ProxySQL's
\* tables as modelled here.
DesiredSections == Sections \cup {"sql_statements"}

Empty == [k \in {} |-> 0]

\* The shape of a table, and of the tables of a configuration.
IsTable(f) == f = [k \in DOMAIN f |-> f[k]]
IsConfig(d) ==
    /\ DOMAIN d = DesiredSections
    /\ \A s \in DesiredSections : IsTable(d[s])
    /\ \A k \in DOMAIN d["mysql_servers"] :
        "status" \in DOMAIN d["mysql_servers"][k]

----------------------------------------------------------------------------
(* union.go *)

\* What the configurations, numbered in the order of their names, ask for
\* together; the last one that has a key provides its row.
Union(ds) ==
    [s \in DesiredSections |->
        [k \in UNION {DOMAIN ds[i][s] : i \in DOMAIN ds} |->
            LET has == {i \in DOMAIN ds : k \in DOMAIN ds[i][s]}
                i == CHOOSE i \in has : \A j \in has : j <= i
            IN  ds[i][s][k]]]

----------------------------------------------------------------------------
(* sync.go.  F is the set of statements that fail when they are executed,  *)
(* a process is its tables in memory, at runtime and on disk.              *)

\* The tables of plugin-owned units are left alone.
PluginUnits == {"MYSQL SERVERS", "MYSQL USERS"}
Pushes(t, aws) == ~(aws /\ UnitOf[t] \in PluginUnits)

\* The row an INSERT stores: an unset status is ONLINE.
Stored(t, table) ==
    IF t # "mysql_servers" THEN table
    ELSE [k \in DOMAIN table |->
            IF table[k].status = "" THEN [table[k] EXCEPT !.status = "ONLINE"]
            ELSE table[k]]

\* DELETE FROM t, then one INSERT of all rows unless there are none.
Written(d, F, t, old) ==
    IF <<"DELETE", t>> \in F THEN old
    ELSE IF DOMAIN d[t] = {} \/ <<"INSERT", t>> \in F THEN Empty
    ELSE Stored(t, d[t])

\* The UPDATEs go in the order of the names and stop at the first failure.
Updated(d, F, v, old) ==
    LET done == {k \in DOMAIN d[v] :
                    \A i \in DOMAIN d[v] : <<"UPDATE", v, i>> \in F => k < i}
    IN  [k \in DOMAIN old \cup done |-> IF k \in done THEN d[v][k] ELSE old[k]]

\* What LOAD makes of a table.  OFFLINE_HARD servers do not show at runtime (the
\* code relies on it in Drift); that all other rows do, inactive users and
\* rules among them, is an assumption about ProxySQL.
Running(t, table) ==
    IF t # "mysql_servers" THEN table
    ELSE [k \in {k \in DOMAIN table : table[k].status # "OFFLINE_HARD"} |->
            table[k]]

\* Whether LOAD, and SAVE after it, take effect for a section.
Loads(d, aws, F, s) ==
    IF s \in Domains
    THEN /\ DOMAIN d[s] # {}
         /\ \A k \in DOMAIN d[s] : <<"UPDATE", s, k>> \notin F
         /\ <<"LOAD", s>> \notin F
    ELSE Pushes(s, aws) /\ <<"LOAD", UnitOf[s]>> \notin F

Saves(d, aws, F, s) ==
    /\ Loads(d, aws, F, s)
    /\ <<"SAVE", IF s \in Domains THEN s ELSE UnitOf[s]>> \notin F

\* All sections are attempted whatever fails before them.
SyncWithAWSDBProxy(d, aws, F, proc) ==
    LET mem == [s \in Sections |->
                    CASE s \in Domains -> Updated(d, F, s, proc.mem[s])
                      [] s \notin Domains /\ Pushes(s, aws) ->
                            Written(d, F, s, proc.mem[s])
                      [] OTHER -> proc.mem[s]]
    IN  [mem  |-> mem,
         rt   |-> [s \in Sections |-> IF Loads(d, aws, F, s)
                                      THEN Running(s, mem[s]) ELSE proc.rt[s]],
         disk |-> [s \in Sections |-> IF Saves(d, aws, F, s)
                                      THEN mem[s] ELSE proc.disk[s]]]

\* The push reports an error when a statement it executes fails.
SyncFails(d, aws, F) ==
    \/ \E t \in TableNames :
        /\ Pushes(t, aws)
        /\ \/ <<"DELETE", t>> \in F
           \/ DOMAIN d[t] # {} /\ <<"INSERT", t>> \in F
           \/ ~Saves(d, aws, F, t)
    \/ \E v \in Domains : DOMAIN d[v] # {} /\ ~Saves(d, aws, F, v)
    \/ \E k \in DOMAIN d["sql_statements"] : <<"SQL", k>> \in F

----------------------------------------------------------------------------
(* runtime.go *)

\* Union-find over the pairs, the smaller root becoming the representative.
replicationClasses(pairs) ==
    LET hgs == {pairs[i].writer : i \in DOMAIN pairs} \cup
               {pairs[i].reader : i \in DOMAIN pairs}
        Root(parent, x) ==
            LET root[y \in hgs] == IF parent[y] = y THEN y ELSE root[parent[y]]
            IN  root[x]
        parent[n \in 0..Len(pairs)] ==
            IF n = 0 THEN [hg \in hgs |-> hg]
            ELSE LET w == Root(parent[n - 1], pairs[n].writer)
                     r == Root(parent[n - 1], pairs[n].reader)
                 IN  IF w <= r THEN [parent[n - 1] EXCEPT ![r] = w]
                     ELSE [parent[n - 1] EXCEPT ![w] = r]
    IN  [hg \in hgs |-> Root(parent[Len(pairs)], hg)]

\* Servers in a replication class compare by the representative of the class.
canonServerKey(k, classes) ==
    IF k[1] \in DOMAIN classes THEN <<"rhg", classes[k[1]], k[2]>>
    ELSE <<"hg", k[1], k[2]>>

serverKeys(table, classes) == {canonServerKey(k, classes) : k \in DOMAIN table}

\* The statuses of all rows that collapse onto one canonical key.
Statuses(table, classes, c) ==
    {table[k].status : k \in {k \in DOMAIN table : canonServerKey(k, classes) = c}}

\* A key must be offline at runtime only if all its rows say so alike.
mysqlDesiredStatus(table, classes, c, s) == Statuses(table, classes, c) = {s}

\* The differences between the servers asked for and those at runtime.
mysqlServerDrift(want, have, classes) ==
    LET wantKeys == serverKeys(want, classes)
        haveKeys == serverKeys(have, classes)
        Must(c, s) == mysqlDesiredStatus(want, classes, c, s)
    IN  {<<"missing", c>> : c \in {c \in wantKeys \ haveKeys :
                                        ~Must(c, "OFFLINE_HARD")}}
        \cup {<<"extra", c>> : c \in haveKeys \ wantKeys}
        \cup {<<"status", c>> : c \in {c \in wantKeys \cap haveKeys :
                \/ Must(c, "OFFLINE_HARD")
                \/ /\ Must(c, "OFFLINE_SOFT")
                   /\ "OFFLINE_SOFT" \notin Statuses(have, classes, c)}}

diffKeys(want, have) ==
    {<<"missing", k>> : k \in DOMAIN want \ DOMAIN have}
    \cup {<<"extra", k>> : k \in DOMAIN have \ DOMAIN want}

\* The tables of which only the keys are compared.
KeyedTables == {"mysql_users", "mysql_query_rules",
                "pgsql_servers", "pgsql_users", "pgsql_query_rules"}

\* The pairs of mysql_replication_hostgroups, keyed by writer, in its order.
PairsOf(table) ==
    LET nth(i) == CHOOSE w \in DOMAIN table :
                    Cardinality({v \in DOMAIN table : v < w}) = i - 1
    IN  [i \in 1..Cardinality(DOMAIN table) |->
            [writer |-> nth(i), reader |-> table[nth(i)].reader]]

classesOf(d) == replicationClasses(PairsOf(d["mysql_replication_hostgroups"]))

\* What differs between the configuration and a runtime snapshot: servers by
\* membership in their replication class, the other tables by key.
Drift(d, rt) ==
    LET servers == mysqlServerDrift(d["mysql_servers"], rt["mysql_servers"],
                                    classesOf(d))
    IN  {<<"mysql_servers", x>> : x \in servers}
        \cup UNION {{<<t, x>> : x \in diffKeys(d[t], rt[t])} : t \in KeyedTables}

\* The view of both sides without the tables the AWS plugin owns.
NativeDesiredWithAWSDBProxy(d) ==
    [s \in DesiredSections |->
        IF s \in TableNames /\ ~Pushes(s, TRUE) THEN Empty ELSE d[s]]

NativeRuntimeWithAWSDBProxy(rt) ==
    [rt EXCEPT !["mysql_servers"] = Empty, !["mysql_users"] = Empty]

=============================================================================
