------------------------------- MODULE RDSProxy -------------------------------
(***************************************************************************)
(* The RDS-compatible API of the AWS plugin on one replica, as the         *)
(* operator uses it (rdsclient/model.go, plugin/aws/config.go): describe   *)
(* the proxy, clear what can be cleared, apply the intent of a             *)
(* ProxySQLConfig, and compare.  A call may fail; the operator stops a     *)
(* sequence of calls at the first failure.                                 *)
(*                                                                         *)
(* The state of a proxy: its auth entries; its role and its default auth   *)
(* scheme, "" when unset; the attributes that are always sent as one       *)
(* value; the pool; the registered targets; the tags, a function from keys *)
(* to values.                                                              *)
(***************************************************************************)
EXTENDS Naturals, Sequences, FiniteSets

CONSTANT DefaultPool    \* the pool settings used when the spec has none

NoTags == [k \in {} |-> 0]

\* The shape of a proxy, and of its tags.
IsProxy(s) == DOMAIN s = {"auth", "role", "scheme", "rest", "pool", "targets", "tags"}
IsTags(f) == f = [k \in DOMAIN f |-> f[k]]

\* The intent a spec expresses, or Invalid: the engine must be MYSQL and the
\* only target group the default one.  Lists are compared as sets.
FromSpec(spec, Invalid) ==
    IF spec.engine # "MYSQL" \/ spec.groups # {"default"} THEN Invalid
    ELSE [auth |-> spec.auth, role |-> spec.role, scheme |-> spec.scheme,
          rest |-> spec.rest,
          pool |-> IF spec.pool = "" THEN DefaultPool ELSE spec.pool,
          targets |-> spec.targets, tags |-> spec.tags]

----------------------------------------------------------------------------
(* A sequence of calls up to the first one that fails; F is the set of     *)
(* calls that fail when they are made.                                     *)

DescribeCalls == {"DescribeDBProxies", "DescribeDBProxyTargetGroups",
                  "DescribeDBProxyTargets", "ListTagsForResource"}

\* How many of the four calls are carried out after describing the proxy.
Completed(calls, F) ==
    LET bad == {i \in 1..4 : calls[i] \in F}
    IN  IF F \cap DescribeCalls # {} THEN 0
        ELSE IF bad = {} THEN 4
        ELSE (CHOOSE i \in bad : \A j \in bad : i <= j) - 1

\* No call is made for an empty list of targets or tags.
Unless(empty, call) == IF empty THEN "none" ELSE call

ClearDone(s, F) ==
    Completed(<<Unless(s.targets = {}, "DeregisterDBProxyTargets"),
                Unless(DOMAIN s.tags = {}, "RemoveTagsFromResource"),
                "ModifyDBProxy", "ModifyDBProxyTargetGroup">>, F)

\* Only the auth entries of the proxy itself are cleared.
ClearMutable(s, F) ==
    LET n == ClearDone(s, F)
    IN  [s EXCEPT !.targets = IF n >= 1 THEN {} ELSE @,
                  !.tags = IF n >= 2 THEN NoTags ELSE @,
                  !.auth = IF n >= 3 THEN {} ELSE @,
                  !.pool = IF n >= 4 THEN DefaultPool ELSE @]

ClearFails(s, F) == ClearDone(s, F) < 4

ApplyDone(want, F) ==
    Completed(<<"ModifyDBProxy", "ModifyDBProxyTargetGroup",
                Unless(want.targets = {}, "RegisterDBProxyTargets"),
                Unless(DOMAIN want.tags = {}, "AddTagsToResource")>>, F)

\* What is sent only when it is set.
Sent(want, old) == IF want # "" THEN want ELSE old

\* Targets and tags are only added; the role and the scheme are each sent only
\* when set.
Apply(s, want, F) ==
    LET n == ApplyDone(want, F)
    IN  [auth |-> IF n >= 1 THEN want.auth ELSE s.auth,
         role |-> IF n >= 1 THEN Sent(want.role, s.role) ELSE s.role,
         scheme |-> IF n >= 1 THEN Sent(want.scheme, s.scheme) ELSE s.scheme,
         rest |-> IF n >= 1 THEN want.rest ELSE s.rest,
         pool |-> IF n >= 2 THEN want.pool ELSE s.pool,
         targets |-> IF n >= 3 THEN s.targets \cup want.targets ELSE s.targets,
         tags |-> IF n < 4 THEN s.tags
                  ELSE [k \in DOMAIN s.tags \cup DOMAIN want.tags |->
                          IF k \in DOMAIN want.tags THEN want.tags[k]
                          ELSE s.tags[k]]]

ApplyFails(want, F) == ApplyDone(want, F) < 4

\* What a proxy has can be made what is wanted: nothing has to be unset.
Settable(want, s) ==
    Sent(want.role, s.role) = want.role /\ Sent(want.scheme, s.scheme) = want.scheme

\* The domains in which a proxy differs from the intent.
RDSDrift(want, s) ==
    (IF <<want.auth, want.role, want.scheme, want.rest>>
          # <<s.auth, s.role, s.scheme, s.rest>>
     THEN {"proxy"} ELSE {})
    \cup (IF want.pool # s.pool THEN {"target-group"} ELSE {})
    \cup (IF want.targets # s.targets THEN {"targets"} ELSE {})
    \cup (IF want.tags # s.tags THEN {"tags"} ELSE {})

=============================================================================
