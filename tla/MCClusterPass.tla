---------------------------- MODULE MCClusterPass ----------------------------
(***************************************************************************)
(* Small instances of ClusterPass.                                         *)
(***************************************************************************)
EXTENDS ClusterPass

\* A plain cluster, and the specs that differ from it.
Plain == [managed |-> TRUE, aws |-> FALSE, tier |-> "none", secret |-> None,
          sans |-> {}, backend |-> None, ext |-> None, replicas |-> 1,
          pause |-> FALSE, pdb |-> TRUE, monitor |-> FALSE,
          duration |-> 2, renewBefore |-> 1]

SelfSigned == [Plain EXCEPT !.tier = "self", !.replicas = 2, !.aws = TRUE]
\* More names, and a life for which a CA lasts just long enough.
Named == [SelfSigned EXCEPT !.sans = {"extra"}, !.duration = 3]
Issued == [Plain EXCEPT !.tier = "issuer", !.monitor = TRUE,
                        !.ext = [type |-> "NodePort", port |-> 0]]
Given == [Plain EXCEPT !.tier = "user", !.secret = "mine",
                       !.backend = [ca |-> "mine", client |-> "mine"]]
Off == [Plain EXCEPT !.tier = "off", !.pause = TRUE,
                     !.ext = [type |-> "LoadBalancer", port |-> 2]]
Outside == [Plain EXCEPT !.managed = FALSE]

MCSpecs == {Named, Issued, Given, Off}
MCFirstSpecs == {SelfSigned, Issued, Given, Outside}

\* A certificate is asked for that lives longer than a CA.
LongLived == [SelfSigned EXCEPT !.duration = 5]
LongSpecs == {LongLived, SelfSigned}

MCAuths == {[k \in AuthKeys |-> IF k = "password" THEN 100 ELSE 0],
            [k \in AuthKeys |-> IF k = "password" THEN 0 ELSE 101]}

MCEvents == << {"api", "stale", "ext", "rotation", "push", "monitor", "crash",
               "spec", "delete", "auth", "aws", "secret", "squat", "time"},
               {"api", "crash"} >>
=============================================================================
