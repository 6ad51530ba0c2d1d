---------------------------- MODULE RDSProxyProofs ----------------------------
(***************************************************************************)
(* One cycle of the AWS plugin's API: what is cleared and applied without  *)
(* an error shows no drift.  Clearing first is what makes it true: Apply   *)
(* only adds targets and tags.                                             *)
(***************************************************************************)
EXTENDS RDSProxy, TLAPS

----------------------------------------------------------------------------

\* A sequence of calls none of which fails is carried out to its end.
LEMMA CompletedAll ==
    ASSUME NEW calls, NEW F, ~(Completed(calls, F) < 4)
    PROVE  Completed(calls, F) = 4
<1> DEFINE bad == {i \in 1..4 : calls[i] \in F}
<1>1. CASE F \cap DescribeCalls # {}
  BY <1>1 DEF Completed
<1>2. CASE F \cap DescribeCalls = {} /\ bad = {}
  BY <1>2 DEF Completed
<1>3. CASE F \cap DescribeCalls = {} /\ bad # {}
  <2>1. \E i \in bad : \A j \in bad : i <= j
    <3>1. bad \subseteq {1, 2, 3, 4}
      OBVIOUS
    <3>2. CASE 1 \in bad
      BY <3>1, <3>2
    <3>3. CASE 1 \notin bad /\ 2 \in bad
      BY <3>1, <3>3
    <3>4. CASE 1 \notin bad /\ 2 \notin bad /\ 3 \in bad
      BY <3>1, <3>4
    <3>5. CASE 1 \notin bad /\ 2 \notin bad /\ 3 \notin bad
      BY <3>1, <3>5, <1>3
    <3> QED BY <3>2, <3>3, <3>4, <3>5
  <2>2. (CHOOSE i \in bad : \A j \in bad : i <= j) \in bad
    BY <2>1, Zenon
  <2>3. Completed(calls, F) = (CHOOSE i \in bad : \A j \in bad : i <= j) - 1
    BY <1>3 DEF Completed
  <2> HIDE DEF bad
  <2>4. \A i \in bad : i - 1 < 4
    BY DEF bad
  <2> QED BY <2>2, <2>3, <2>4
<1> QED BY <1>1, <1>2, <1>3

\* ClearMutable without an error leaves no targets, no tags and no auth
\* entries, and the default pool.
LEMMA Cleared ==
    ASSUME NEW s, IsProxy(s), NEW F, ~ClearFails(s, F)
    PROVE  LET c == ClearMutable(s, F)
           IN  /\ IsProxy(c)
               /\ c.targets = {} /\ c.tags = NoTags /\ c.auth = {}
               /\ c.pool = DefaultPool /\ c.role = s.role /\ c.scheme = s.scheme
               /\ c.rest = s.rest
<1>1. ClearDone(s, F) = 4
  BY CompletedAll DEF ClearFails, ClearDone
<1>2. ClearMutable(s, F) = [s EXCEPT !.targets = {}, !.tags = NoTags,
                                     !.auth = {}, !.pool = DefaultPool]
  BY <1>1 DEF ClearMutable
<1> QED BY <1>2 DEF IsProxy

\* Apply without an error has made all its calls,
LEMMA ApplyAll ==
    ASSUME NEW want, NEW F, ~ApplyFails(want, F)
    PROVE  ApplyDone(want, F) = 4
<1> DEFINE calls == <<"ModifyDBProxy", "ModifyDBProxyTargetGroup",
                      Unless(want.targets = {}, "RegisterDBProxyTargets"),
                      Unless(DOMAIN want.tags = {}, "AddTagsToResource")>>
<1>1. ApplyDone(want, F) = Completed(calls, F)
  BY DEF ApplyDone
<1> HIDE DEF calls
<1>2. ~(Completed(calls, F) < 4)
  BY <1>1 DEF ApplyFails
<1> QED BY <1>1, <1>2, CompletedAll

\* and these are their effects.
LEMMA AppliedAll ==
    ASSUME NEW s, NEW want, NEW F, ApplyDone(want, F) = 4
    PROVE  Apply(s, want, F) =
             [auth |-> want.auth,
              role |-> Sent(want.role, s.role), scheme |-> Sent(want.scheme, s.scheme),
              rest |-> want.rest, pool |-> want.pool,
              targets |-> s.targets \cup want.targets,
              tags |-> [k \in DOMAIN s.tags \cup DOMAIN want.tags |->
                          IF k \in DOMAIN want.tags THEN want.tags[k]
                          ELSE s.tags[k]]]
  BY DEF Apply

\* Clear and apply, both without an error, bring a replica to the intent in
\* every domain RDSDrift compares.  An unset role or scheme is not sent, so
\* it must agree beforehand (Client.Apply, Model.Drift).
THEOREM CycleConverges ==
    ASSUME NEW s, IsProxy(s), NEW want,
           IsTags(want.tags),
           s.targets = {}, s.tags = NoTags,
           Settable(want, s),
           NEW F, ~ApplyFails(want, F)
    PROVE  RDSDrift(want, Apply(s, want, F)) = {}
<1> DEFINE tags == [k \in DOMAIN s.tags \cup DOMAIN want.tags |->
                      IF k \in DOMAIN want.tags THEN want.tags[k] ELSE s.tags[k]]
           a == Apply(s, want, F)
<1>1. ApplyDone(want, F) = 4
  BY ApplyAll
<1>2. a = [auth |-> want.auth,
           role |-> Sent(want.role, s.role), scheme |-> Sent(want.scheme, s.scheme),
           rest |-> want.rest, pool |-> want.pool,
           targets |-> s.targets \cup want.targets, tags |-> tags]
  BY <1>1, AppliedAll
<1>3. tags = want.tags
  <2>1. DOMAIN s.tags \cup DOMAIN want.tags = DOMAIN want.tags
    BY DEF NoTags
  <2>2. tags = [k \in DOMAIN want.tags |-> want.tags[k]]
    BY <2>1
  <2> QED BY <2>2 DEF IsTags
<1> HIDE DEF a, tags
<1>4. /\ a.auth = want.auth /\ a.role = want.role
      /\ a.scheme = want.scheme /\ a.rest = want.rest
      /\ a.pool = want.pool /\ a.targets = want.targets /\ a.tags = want.tags
  BY <1>2, <1>3 DEF Settable
<1> QED BY <1>4 DEF RDSDrift, a

=============================================================================
